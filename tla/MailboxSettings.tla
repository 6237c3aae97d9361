-------------------------- MODULE MailboxSettings ---------------------------
(***************************************************************************)
(* The tools that set single fields of a mailbox, and those that read them   *)
(* (src/exo_mcp/tools/mailbox.py): exo_set_mailbox_forwarding, which reads   *)
(* before it writes, exo_set_auto_reply, exo_set_mailbox_hidden,             *)
(* exo_convert_mailbox_to_shared, exo_get_auto_reply and exo_get_mailbox     *)
(* with its licence advice.  Several calls run on one mailbox of a directory *)
(* that replicates with delay (Directory).  A write names the fields it      *)
(* sets; it may take effect up to MaxRetries + 1 times, also when its        *)
(* verdict is a failure, and also after the tool has returned (CmdletCall).  *)
(***************************************************************************)
EXTENDS Directory, FiniteSets

CONSTANTS
    Calls,      \* calls of the tools on the mailbox
    Requests,   \* tools and arguments a call may be made with
    Recipients, \* whom ForwardingAddress can name
    Strangers,  \* whom it cannot
    Mailboxes0, \* states the mailbox may be found in
    Absent,     \* no mailbox (any more)
    Limit,      \* SHARED_MAILBOX_LIMIT_BYTES
    MaxSize,    \* bound: the mailbox grows up to this
    MaxRetries, \* _MAX_RETRIES of the client
    MaxAdmin    \* bound: changes an administrator makes

None == "none"      \* an unset field; an argument that is not supplied
Bad == "bad"        \* an argument its validation refuses

ReplyStates == {"Disabled", "Enabled", "Scheduled"}
Texts == {None, "away", "back"}     \* the messages, and the start and end

(* hold: an archive, a litigation hold or a hold in place.  copy is          *)
(* DeliverToMailboxAndForward, smtp the outside address of the forwarding.   *)
Mailboxes ==
    [type : {"User", "Shared"}, hidden : BOOLEAN, hold : BOOLEAN,
     fwd : Recipients \union {None}, smtp : {None, "outside"}, copy : BOOLEAN,
     state : ReplyStates, message : Texts, window : Texts]

Fields == {"type", "hidden", "hold", "fwd", "smtp", "copy", "state", "message", "window"}
Forwarding == {"fwd", "smtp", "copy"}
Replying == {"state", "message", "window"}

Tools == {"forwarding", "auto_reply", "hidden", "shared", "get_auto_reply", "get_mailbox"}
Writers == {"forwarding", "auto_reply", "hidden", "shared"}

(* The arguments of all tools in one record; flag is deliver_and_forward,    *)
(* hidden or include_statistics.  external_audience is checked like state,   *)
(* the two messages are alike, and so are start_time and end_time.           *)
IsRequest(r) ==
    r \in [tool : Tools, to : Recipients \union Strangers \union {None}, flag : BOOLEAN,
           state : ReplyStates \union {None, Bad},
           message : Texts, window : Texts \union {Bad}]

ASSUME MailboxSettingsAssumption ==
    /\ \A r \in Requests : IsRequest(r)
    /\ Mailboxes0 \subseteq Mailboxes
    /\ Absent \notin Mailboxes
    /\ Recipients \cap Strangers = {} /\ None \notin Recipients \union Strangers
    /\ Limit \in Nat /\ MaxSize \in Nat /\ MaxRetries \in Nat /\ MaxAdmin \in Nat

VARIABLES
    request,    \* request[c]: tool and arguments of call c
    pc,         \* pc[c]: "idle", "read", "measure", "send", "write", "confirm" or "done"
    home,       \* home[c]: the server that serves call c
    before,     \* before[c]: the mailbox as first read
    after,      \* after[c]: the mailbox as read back
    advice,     \* advice[c]: license_required, and whether the size was known
    reply,      \* reply[c]: what the call returned
    pending,    \* pending[c]: deliveries of the write that may still take effect
    hits,       \* hits[c]: deliveries that took effect
    since,      \* since[c]: place in the log of the first of them (history)
    size,       \* the size of the mailbox
    sizes,      \* the sizes it has had (history)
    adminLeft,  \* changes the administrator may still make
    administered \* fields he has changed (history)

callVars == <<request, pc, home, before, after, advice, reply>>
wireVars == <<pending, hits, since>>
worldVars == <<size, sizes, adminLeft, administered>>
vars == <<log, at, callVars, wireVars, worldVars>>

Replies == {"none", "invalid_argument", "not_found", "cannot_forward", "error",
            "shown", "unverified", "confirmed"}

Init ==
    /\ DirectoryInit(Mailboxes0)
    /\ request \in [Calls -> Requests]
    /\ pc = [c \in Calls |-> "idle"]
    /\ home \in [Calls -> Servers]
    /\ before = [c \in Calls |-> Absent]
    /\ after = [c \in Calls |-> Absent]
    /\ advice = [c \in Calls |-> [required |-> TRUE, known |-> FALSE]]
    /\ reply = [c \in Calls |-> "none"]
    /\ pending = [c \in Calls |-> 0]
    /\ hits = [c \in Calls |-> 0]
    /\ since = [c \in Calls |-> 0]
    /\ size \in 0..MaxSize
    /\ sizes = {size}
    /\ adminLeft = MaxAdmin
    /\ administered = {}

Tool(c) == request[c].tool
Go(c, next) == pc' = [pc EXCEPT ![c] = next]

(* The call returns.                                                         *)
Return(c, answer) ==
    /\ reply' = [reply EXCEPT ![c] = answer]
    /\ pc' = [pc EXCEPT ![c] = "done"]

BadArguments(c) ==
    Tool(c) = "auto_reply" /\ Bad \in {request[c].state, request[c].window}

(* fault injected: the arguments of exo_set_auto_reply are not looked at *)
StartUnchecked(c) ==
    /\ pc[c] = "idle"
    /\ Go(c, IF Tool(c) \in {"auto_reply", "hidden", "shared"} THEN "send" ELSE "read")
    /\ UNCHANGED <<log, at, request, home, before, after, advice, reply, wireVars, worldVars>>

Start(c) ==
    /\ pc[c] = "idle"
    /\ ~BadArguments(c)
    /\ Go(c, IF Tool(c) \in {"auto_reply", "hidden", "shared"} THEN "send" ELSE "read")
    /\ UNCHANGED <<log, at, request, home, before, after, advice, reply, wireVars, worldVars>>

(* Refused before anything is sent.                                          *)
RefuseArguments(c) ==
    /\ pc[c] = "idle"
    /\ BadArguments(c)
    /\ Return(c, "invalid_argument")
    /\ UNCHANGED <<log, at, request, home, before, after, advice, wireVars, worldVars>>
-----------------------------------------------------------------------------
(* fault injected: the limit is taken one too high *)
RequiredTooLate(m, s, known) == m.hold \/ (known /\ s > Limit + 1)

(* _shared_conversion.  A size that is not known does not require a licence. *)
Required(m, s, known) == m.hold \/ (known /\ s > Limit)

Advise(c, m, known) ==
    advice' = [advice EXCEPT ![c] = [required |-> Required(m, size, known), known |-> known]]

ReadMailbox(c) ==
    /\ pc[c] = "read"
    /\ Shown(home[c]) # Absent
    /\ before' = [before EXCEPT ![c] = Shown(home[c])]
    /\ CASE Tool(c) = "forwarding" -> Go(c, "send") /\ UNCHANGED <<advice, reply>>
         [] Tool(c) = "get_auto_reply" -> Return(c, "shown") /\ UNCHANGED advice
         [] Tool(c) = "get_mailbox" /\ request[c].flag -> Go(c, "measure") /\ UNCHANGED <<advice, reply>>
         [] OTHER -> Return(c, "shown") /\ Advise(c, Shown(home[c]), FALSE)
    /\ UNCHANGED <<log, at, request, home, after, wireVars, worldVars>>

ReadFindsNone(c) ==
    /\ pc[c] = "read"
    /\ Shown(home[c]) = Absent
    /\ Return(c, "not_found")
    /\ UNCHANGED <<log, at, request, home, before, after, advice, wireVars, worldVars>>

ReadFails(c) ==
    /\ pc[c] = "read"
    /\ Return(c, "error")
    /\ UNCHANGED <<log, at, request, home, before, after, advice, wireVars, worldVars>>

(* Get-MailboxStatistics answers with the size, with none, or not at all;    *)
(* the mailbox is the one that was read before.                              *)
Measure(c) ==
    /\ pc[c] = "measure"
    /\ \E known \in BOOLEAN : Advise(c, before[c], known)
    /\ Return(c, "shown")
    /\ UNCHANGED <<log, at, request, home, before, after, wireVars, worldVars>>
-----------------------------------------------------------------------------
(* Arguments that were not supplied are not sent (ExoClient.invoke).         *)
Supplied(r) == {f \in Replying : r[f] # None}

(* fault injected: an argument that was not supplied clears its field *)
SendEverything(r) ==
    CASE r.tool = "forwarding" -> [fwd |-> r.to, smtp |-> None, copy |-> r.to # None /\ r.flag]
      [] r.tool = "auto_reply" -> [f \in {"message", "window"} \union Supplied(r) |-> r[f]]
      [] r.tool = "hidden" -> [hidden |-> r.flag]
      [] OTHER -> [type |-> "Shared"]

(* fault injected: the outside address is left where it is *)
LeaveOutside(r) ==
    CASE r.tool = "forwarding" -> [fwd |-> r.to, copy |-> r.to # None /\ r.flag]
      [] r.tool = "auto_reply" -> [f \in Supplied(r) |-> r[f]]
      [] r.tool = "hidden" -> [hidden |-> r.flag]
      [] OTHER -> [type |-> "Shared"]

(* The fields a write sets.  Forwarding always clears the outside address.   *)
Parameters(r) ==
    CASE r.tool = "forwarding" -> [fwd |-> r.to, smtp |-> None, copy |-> r.to # None /\ r.flag]
      [] r.tool = "auto_reply" -> [f \in Supplied(r) |-> r[f]]
      [] r.tool = "hidden" -> [hidden |-> r.flag]
      [] OTHER -> [type |-> "Shared"]

Written(m, p) == [f \in Fields |-> IF f \in DOMAIN p THEN p[f] ELSE m[f]]

Send(c) ==
    /\ pc[c] = "send"
    /\ Go(c, "write")
    /\ pending' = [pending EXCEPT ![c] = MaxRetries + 1]
    /\ UNCHANGED <<log, at, request, home, before, after, advice, reply, hits, since, worldVars>>

Resolves(c) == Tool(c) = "forwarding" => request[c].to \in Recipients \union {None}

(* The endpoint (external) carries a delivery out.                           *)
TakeEffect(c) ==
    /\ pending[c] > 0
    /\ Newest # Absent
    /\ Resolves(c)
    /\ Store(home[c], Written(Newest, Parameters(request[c])))
    /\ pending' = [pending EXCEPT ![c] = @ - 1]
    /\ hits' = [hits EXCEPT ![c] = @ + 1]
    /\ since' = [since EXCEPT ![c] = IF @ = 0 THEN Len(log) + 1 ELSE @]
    /\ UNCHANGED <<callVars, worldVars>>

(* exo_set_mailbox_hidden never reads back: "the response is never verified".*)
WriteSucceeds(c) ==
    /\ pc[c] = "write"
    /\ hits[c] > 0
    /\ IF Tool(c) = "hidden" THEN Return(c, "unverified") ELSE Go(c, "confirm") /\ UNCHANGED reply
    /\ UNCHANGED <<log, at, request, home, before, after, advice, wireVars, worldVars>>

(* fault injected: not_found is passed through, as every other error is *)
NotFoundAsItIs(c) ==
    /\ pc[c] = "write"
    /\ Shown(home[c]) = Absent \/ ~Resolves(c)
    /\ Return(c, "not_found")
    /\ UNCHANGED <<log, at, request, home, before, after, advice, wireVars, worldVars>>

(* The endpoint finds no mailbox, or no target: the code blames the target.  *)
NotFound(c) ==
    /\ pc[c] = "write"
    /\ Shown(home[c]) = Absent \/ ~Resolves(c)
    /\ Return(c, IF Tool(c) = "forwarding" /\ request[c].to # None
                 THEN "cannot_forward" ELSE "not_found")
    /\ UNCHANGED <<log, at, request, home, before, after, advice, wireVars, worldVars>>

WriteFails(c) ==
    /\ pc[c] = "write"
    /\ Return(c, "error")
    /\ UNCHANGED <<log, at, request, home, before, after, advice, wireVars, worldVars>>

(* fault injected: what was read before the write is reported *)
ConfirmUnread(c) ==
    /\ pc[c] = "confirm"
    /\ after' = [after EXCEPT ![c] = IF before[c] = Absent THEN Shown(home[c]) ELSE before[c]]
    /\ Return(c, "confirmed")
    /\ UNCHANGED <<log, at, request, home, before, advice, wireVars, worldVars>>

Confirm(c) ==
    /\ pc[c] = "confirm"
    /\ Shown(home[c]) # Absent
    /\ after' = [after EXCEPT ![c] = Shown(home[c])]
    /\ Return(c, "confirmed")
    /\ UNCHANGED <<log, at, request, home, before, advice, wireVars, worldVars>>

(* The read-back fails, or the mailbox is gone: the write stands.            *)
ConfirmFails(c) ==
    /\ pc[c] = "confirm"
    /\ Return(c, "unverified")
    /\ UNCHANGED <<log, at, request, home, before, after, advice, wireVars, worldVars>>

Call(c) ==
    \/ Start(c) \/ RefuseArguments(c)
    \/ ReadMailbox(c) \/ ReadFindsNone(c) \/ ReadFails(c) \/ Measure(c)
    \/ Send(c) \/ WriteSucceeds(c) \/ NotFound(c) \/ WriteFails(c)
    \/ Confirm(c) \/ ConfirmFails(c)
-----------------------------------------------------------------------------
(* The administrator (external) sets an outside forwarding address, puts the *)
(* mailbox on hold, or deletes it.                                           *)
Administer(m, fields) ==
    /\ adminLeft > 0
    /\ Newest # Absent
    /\ \E s \in Servers : Store(s, m)
    /\ adminLeft' = adminLeft - 1
    /\ administered' = administered \union fields
    /\ UNCHANGED <<callVars, wireVars, size, sizes>>

ForwardOutside == Administer([Newest EXCEPT !.smtp = "outside"], {"smtp"})
Hold == Administer([Newest EXCEPT !.hold = TRUE], {"hold"})
Delete == Administer(Absent, Fields)

(* Mail arrives.  Bound: only while somebody is going to ask for the size.   *)
Grow ==
    /\ size < MaxSize
    /\ \E c \in Calls : Tool(c) = "get_mailbox" /\ pc[c] # "done"
    /\ size' = size + 1
    /\ sizes' = sizes \union {size + 1}
    /\ UNCHANGED <<log, at, callVars, wireVars, adminLeft, administered>>

Replicate ==
    /\ \E s \in Servers : CatchUp(s)
    /\ UNCHANGED <<callVars, wireVars, worldVars>>

Done == (\A c \in Calls : pc[c] = "done") /\ UNCHANGED vars

Next ==
    \/ \E c \in Calls : Call(c) \/ TakeEffect(c)
    \/ ForwardOutside \/ Hold \/ Delete \/ Grow \/ Replicate \/ Done

Spec == Init /\ [][Next]_vars
-----------------------------------------------------------------------------
TypeOK ==
    /\ log \in Seq(Mailboxes \union {Absent}) /\ Len(log) > 0
    /\ at \in [Servers -> 1..Len(log)]
    /\ request \in [Calls -> Requests]
    /\ pc \in [Calls -> {"idle", "read", "measure", "send", "write", "confirm", "done"}]
    /\ home \in [Calls -> Servers]
    /\ before \in [Calls -> Mailboxes \union {Absent}]
    /\ after \in [Calls -> Mailboxes \union {Absent}]
    /\ advice \in [Calls -> [required : BOOLEAN, known : BOOLEAN]]
    /\ reply \in [Calls -> Replies]
    /\ pending \in [Calls -> 0..(MaxRetries + 1)]
    /\ hits \in [Calls -> 0..(MaxRetries + 1)]
    /\ since \in [Calls -> 0..Len(log)]
    /\ size \in 0..MaxSize
    /\ sizes \subseteq 0..MaxSize
    /\ adminLeft \in 0..MaxAdmin
    /\ administered \subseteq Fields

States == {log[i] : i \in 1..Len(log)}
Accepted(c) == reply[c] \in {"unverified", "confirmed"}

(* What the caller of a tool asks to be changed.                             *)
Named(r) ==
    CASE r.tool = "forwarding" -> Forwarding
      [] r.tool = "auto_reply" -> Supplied(r)
      [] r.tool = "hidden" -> {"hidden"}
      [] r.tool = "shared" -> {"type"}
      [] OTHER -> {}

Sets(c, f) == hits[c] > 0 /\ f \in Named(request[c])

(* Calls of different tools on one mailbox do not disturb each other, in any *)
(* order of their retried and late writes: a field has the value it had      *)
(* until somebody names it, and a setting reported as accepted stays until   *)
(* another call or the administrator sets the same field ("only the fields   *)
(* you supply are changed", mailbox.py:535-538; compare with the whole list  *)
(* that exo_add_email_alias writes, EmailAlias!LossNeedsStaleRead).          *)
NoInterference ==
    Newest # Absent =>
        \A f \in Fields \ administered :
            /\ (\A c \in Calls : ~Sets(c, f)) => Newest[f] = log[1][f]
            /\ \A c \in Calls :
                Accepted(c) /\ Sets(c, f) /\ (\A d \in Calls \ {c} : ~Sets(d, f)) =>
                    Newest[f] = Parameters(request[c])[f]

(* What is reported is never an echo: previous_forwarding is from before     *)
(* this call's write, and the state read back from the write or later        *)
(* (mailbox.py:427-442, 537-538), although retries and others' writes go on. *)
ReportBracketsWrite ==
    \A c \in Calls : reply[c] = "confirmed" =>
        /\ \E i \in since[c]..Len(log) : log[i] = after[c]
        /\ Tool(c) = "forwarding" => \E i \in 1..(since[c] - 1) : log[i] = before[c]

(* forwarding_enabled, as it is reported.                                    *)
ForwardingEnabled(c) ==
    IF reply[c] = "confirmed" THEN after[c].fwd # None \/ after[c].smtp # None
    ELSE request[c].to # None

(* Who is told that forwarding is off is told the truth: from this call's    *)
(* write on, some state forwarded nowhere, not even to an outside address    *)
(* another tool had set ("that also clears any external forwarding set       *)
(* elsewhere", mailbox.py:376-377), and also when the read-back failed.      *)
OffMeansOff ==
    \A c \in Calls : Accepted(c) /\ Tool(c) = "forwarding" /\ ~ForwardingEnabled(c) =>
        \E i \in since[c]..Len(log) :
            log[i] # Absent /\ log[i].fwd = None /\ log[i].smtp = None

(* not_found is said of a mailbox that was missing, and the forwarding       *)
(* target is blamed when it is no recipient; only if the mailbox went away   *)
(* after it was read does the blame hit a good target ("the mailbox resolved *)
(* a moment ago", mailbox.py:412-416).                                       *)
BlameIsTrue ==
    \A c \in Calls :
        /\ reply[c] = "not_found" => Absent \in States
        /\ reply[c] = "cannot_forward" => request[c].to \in Strangers \/ Absent \in States

(* A shared mailbox needs no licence "only below 50 GB" (_common.py:20, and  *)
(* mailbox.py:166, 237, 281).                                                *)
Free(s) == s < Limit

(* The licence advice was true of the mailbox, although it joins two reads:  *)
(* no licence means that the mailbox was seen without a hold and, unless the *)
(* size is marked unknown, with a size that is free.  One size is excepted:  *)
(* at the limit itself the code says free (mailbox.py:174), against what is  *)
(* promised.                                                                 *)
AdviceWasTrue ==
    \A c \in Calls : reply[c] = "shown" /\ Tool(c) = "get_mailbox" =>
        IF advice[c].required
        THEN (\E m \in States \ {Absent} : m.hold) \/ \E s \in sizes : ~Free(s)
        ELSE /\ \E m \in States \ {Absent} : ~m.hold
             /\ advice[c].known => Limit \in sizes \/ \E s \in sizes : Free(s)

(* What happens to one call's write is what Transport grants to a cmdlet:    *)
(* the client's verdict on one side, the late and repeated deliveries on the *)
(* other, tied together as CmdletCall says and not otherwise.                *)
WasSent(c) == pending[c] + hits[c] > 0

WriteOutcome(c) ==
    IF ~WasSent(c) \/ pc[c] = "write" THEN "pending"
    ELSE IF pc[c] = "confirm" \/ Accepted(c) THEN "success" ELSE "failure"

Write(c) == INSTANCE CmdletCall WITH
    MaxInvokes <- 1,
    issued     <- IF WasSent(c) THEN 1 ELSE 0,
    effects    <- {1} \X {a \in 0..MaxRetries : a < hits[c]},
    outcome    <- [i \in 1..1 |-> WriteOutcome(c)]

(* A delivery that asks for nothing new: each field it names was set by some *)
(* delivery before, by all to the same value, and not by the administrator.  *)
(* A retry is one, and so is the write of a call repeated with its arguments.*)
AsksNothingNew(c) ==
    \A f \in Named(request[c]) :
        /\ f \notin administered
        /\ \E d \in Calls : Sets(d, f)
        /\ \A d \in Calls : Sets(d, f) => Parameters(request[d])[f] = Parameters(request[c])[f]

(* The setting tools are annotated idempotentHint=True (mailbox.py:271, 307, *)
(* 348, 472): a delivery that asks for nothing new changes nothing,          *)
(* whatever other tools wrote to the mailbox in between.                     *)
RepeatsChangeNothing ==
    [][\A c \in Calls : TakeEffect(c) /\ AsksNothingNew(c) => Newest' = Newest]_vars
=============================================================================
