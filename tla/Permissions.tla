---------------------------- MODULE Permissions -----------------------------
(***************************************************************************)
(* The permission tools (src/exo_mcp/tools/permissions.py) and               *)
(* exo_remove_mobile_device (tools/devices.py), on one mailbox.              *)
(*                                                                          *)
(* FullAccess, SendAs and the device partnership are each one write that is  *)
(* sent without a look, or one read; Exchange refuses a grant that is there  *)
(* and a removal of what is not.  They are external and taken to be one copy.*)
(* SendOnBehalf is a list in the mailbox: read, check the delegate, write    *)
(* the merged list, read back, over a directory that replicates with delay.  *)
(* A write may take effect more than once and late, as in CmdletCall.        *)
(***************************************************************************)
EXTENDS Directory, FiniteSets

CONSTANTS
    Calls,      \* calls of the tools on the mailbox
    Requests,   \* tools and arguments a call may be made with
    Recipients, \* who exists in the tenant
    Strangers,  \* who does not
    Self,       \* the mailbox owner's implicit self-grant
    Acls,       \* grants there may be at first
    MaxRetries  \* _MAX_RETRIES of the client

Nobody == "nobody"      \* the argument is not supplied

People == Recipients \union Strangers \union {Self}
Rights == {"FullAccess", "SendAs", "Device"}

(* An entry of the access list: a grant of its own, a Deny entry, or one     *)
(* that is inherited.  The tools grant and remove only the first kind.       *)
Grants == [right : Rights, who : People, entry : {"allow", "deny", "inherited"}]
Allow(right, who) == [right |-> right, who |-> who, entry |-> "allow"]

(* How an entry of GrantSendOnBehalfTo, or an argument, names its person: as *)
(* a caller may write it, or by Identity, PrimarySmtpAddress or object id.   *)
Forms == {"upn", "identity", "smtp", "oid"}
Entries == [who : People, form : Forms]

(* form matters to "delegate" only, which has no use for right.              *)
IsRequest(r) ==
    /\ r \in [tool : {"add", "remove", "list", "delegate"},
              right : Rights, who : People \union {Nobody}, form : Forms]
    /\ r.who = Nobody => r.tool = "list"

ASSUME PermissionsAssumption ==
    /\ \A r \in Requests : IsRequest(r)
    /\ Acls \subseteq SUBSET Grants
    /\ Recipients \cap Strangers = {} /\ Nobody \notin People
    /\ MaxRetries \in Nat

VARIABLES
    acl,        \* the grants, and the device partnerships
    orderly,    \* calls take turns, and no write outlives its client's patience
    request,    \* request[c]: tool and arguments of call c
    pc,         \* pc[c]: "idle", "read", "lookup", "write", "confirm" or "done"
    home,       \* home[c]: the server that serves call c
    base,       \* base[c]: the delegates as call c read them
    after,      \* after[c]: the delegates as they were read back
    reply,      \* reply[c]: what the call returned
    pending,    \* pending[c]: deliveries of the write that are still out
    hits,       \* hits[c]: deliveries that took effect
    refusals,   \* refusals[c]: deliveries Exchange refused
    told        \* what the last listing said of a right, until it changes (history)

callVars == <<orderly, request, pc, home, base, after, reply>>
wireVars == <<pending, hits, refusals>>
vars == <<log, at, acl, callVars, wireVars, told>>

Replies == {"none", "error", "invalid_argument", "refused", "done", "listed",
            "already_present", "verified", "unverified"}

Init ==
    /\ DirectoryInit({{}} \union {{[who |-> p, form |-> "oid"]} : p \in Recipients})
    /\ acl \in Acls
    /\ orderly \in BOOLEAN
    /\ request \in [Calls -> Requests]
    /\ pc = [c \in Calls |-> "idle"]
    /\ home \in [Calls -> Servers]
    /\ base = [c \in Calls |-> {}]
    /\ after = [c \in Calls |-> {}]
    /\ reply = [c \in Calls |-> "none"]
    /\ pending = [c \in Calls |-> 0]
    /\ hits = [c \in Calls |-> 0]
    /\ refusals = [c \in Calls |-> 0]
    /\ told = [k \in Rights \X People |-> "unknown"]

Tool(c) == request[c].tool
Running == {c \in Calls : pc[c] \notin {"idle", "done"}}
Go(c, next) == pc' = [pc EXCEPT ![c] = next]

Return(c, answer) ==
    /\ reply' = [reply EXCEPT ![c] = answer]
    /\ pc' = [pc EXCEPT ![c] = "done"]

(* The deliveries the client is no longer waiting for.                       *)
StopWaiting(c) == pending' = IF orderly THEN [pending EXCEPT ![c] = 0] ELSE pending

Start(c) ==
    /\ pc[c] = "idle"
    /\ orderly => Running = {}
    /\ IF Tool(c) \in {"add", "remove"}
       THEN Go(c, "write") /\ pending' = [pending EXCEPT ![c] = MaxRetries + 1]
       ELSE Go(c, "read") /\ UNCHANGED pending
    /\ UNCHANGED <<log, at, acl, orderly, request, home, base, after, reply, hits, refusals, told>>

(* An ExoError of a read, or no such mailbox.                                *)
ReadFails(c) ==
    /\ pc[c] \in {"read", "lookup"}
    /\ Return(c, "error")
    /\ UNCHANGED <<log, at, acl, orderly, request, home, base, after, wireVars, told>>
-----------------------------------------------------------------------------
Held(c) == Allow(request[c].right, request[c].who) \in acl

(* fault injected: the tools for SendAs are copied without the right *)
FullAccessEffect(c) ==
    LET right == IF request[c].right = "Device" THEN "Device" ELSE "FullAccess" IN
    IF Tool(c) = "add" THEN acl \union {Allow(right, request[c].who)}
    ELSE acl \ {Allow(right, request[c].who)}

(* The parameters fix the right; no tool sets a Deny entry.                  *)
Grant(c) == acl \union {Allow(request[c].right, request[c].who)}
Removal(c) == acl \ {Allow(request[c].right, request[c].who)}
Effect(c) == IF Tool(c) = "add" THEN Grant(c) ELSE Removal(c)

(* Exchange (external) carries out a delivery, or refuses it.                *)
Apply(c) ==
    /\ Tool(c) \in {"add", "remove"}
    /\ pending[c] > 0
    /\ request[c].who \notin Strangers
    /\ pending' = [pending EXCEPT ![c] = @ - 1]
    /\ IF Held(c) <=> Tool(c) = "remove"
       THEN /\ acl' = Effect(c)
            /\ hits' = [hits EXCEPT ![c] = @ + 1]
            /\ told' = [told EXCEPT ![<<request[c].right, request[c].who>>] = "unknown"]
            /\ UNCHANGED refusals
       ELSE /\ refusals' = [refusals EXCEPT ![c] = @ + 1]
            /\ UNCHANGED <<acl, hits, told>>
    /\ UNCHANGED <<log, at, callVars>>

(* granted or removed; the error that says it is there already, or not at    *)
(* all; any other error, a stranger's among them.                            *)
Conclude(c) ==
    /\ Tool(c) \in {"add", "remove"}
    /\ pc[c] = "write"
    /\ \/ hits[c] > 0 /\ Return(c, "done")
       \/ refusals[c] > 0 /\ Return(c, "refused")
       \/ Return(c, "error")
    /\ StopWaiting(c)
    /\ UNCHANGED <<log, at, acl, orderly, request, home, base, after, hits, refusals, told>>

(* fault injected: the owner's own grant is never listed *)
ListedWithoutSelf(c) ==
    {g \in acl : /\ g.right = request[c].right
                 /\ g.who # Self
                 /\ request[c].who \in {Nobody, g.who}}

(* The entries of the right, of every kind.  The owner's own grant is left   *)
(* out of a listing of everyone.                                             *)
Listed(c) ==
    {g \in acl : /\ g.right = request[c].right
                 /\ IF request[c].who = Nobody THEN g.who # Self ELSE g.who = request[c].who}

(* What the reader of a listing learns, of those it is about: the right is   *)
(* held by a grant, or all there is for it is flagged as Deny or inherited   *)
(* (fields the listing projects and never filters by), or there is nothing.  *)
Learned(c, p) ==
    IF Allow(request[c].right, p) \in Listed(c) THEN "held"
    ELSE IF \E g \in Listed(c) : g.who = p THEN "flagged"
    ELSE IF request[c].who = p \/ (request[c].who = Nobody /\ p # Self) THEN "missing"
    ELSE told[<<request[c].right, p>>]

List(c) ==
    /\ Tool(c) = "list"
    /\ pc[c] = "read"
    /\ told' = [k \in Rights \X People |->
                    IF k[1] = request[c].right THEN Learned(c, k[2]) ELSE told[k]]
    /\ Return(c, "listed")
    /\ UNCHANGED <<log, at, acl, orderly, request, home, base, after, wireVars>>
-----------------------------------------------------------------------------
Delegate(c, form) == [who |-> request[c].who, form |-> form]

ReadMailbox(c) ==
    /\ Tool(c) = "delegate"
    /\ pc[c] = "read"
    /\ base' = [base EXCEPT ![c] = Shown(home[c])]
    /\ Go(c, "lookup")
    /\ UNCHANGED <<log, at, acl, orderly, request, home, after, reply, wireVars, told>>

(* Get-Recipient finds nobody (a not_found of it is ReadFails).              *)
LookupFindsNone(c) ==
    /\ pc[c] = "lookup"
    /\ request[c].who \in Strangers
    /\ Return(c, "invalid_argument")
    /\ UNCHANGED <<log, at, acl, orderly, request, home, base, after, wireVars, told>>

(* fault injected: the object id is not compared *)
SameByName(c) == {Delegate(c, f) : f \in {request[c].form, "identity", "smtp"}}

(* What is compared with the entries of the list.                            *)
Same(c) == {Delegate(c, f) : f \in {request[c].form, "identity", "smtp", "oid"}}

AlreadyPresent(c) ==
    /\ pc[c] = "lookup"
    /\ request[c].who \notin Strangers
    /\ base[c] \cap Same(c) # {}
    /\ Return(c, "already_present")
    /\ UNCHANGED <<log, at, acl, orderly, request, home, base, after, wireVars, told>>

SendMerged(c) ==
    /\ pc[c] = "lookup"
    /\ request[c].who \notin Strangers
    /\ base[c] \cap Same(c) = {}
    /\ Go(c, "write")
    /\ pending' = [pending EXCEPT ![c] = MaxRetries + 1]
    /\ UNCHANGED <<log, at, acl, orderly, request, home, base, after, reply, hits, refusals, told>>

(* fault injected: only the new delegate is sent *)
Replaced(c) == {Delegate(c, request[c].form)}

(* The argument goes into the list as the caller wrote it.                   *)
Merged(c) == base[c] \union {Delegate(c, request[c].form)}

(* fault injected: the client retries without end *)
DeliveredForever(c) ==
    /\ Tool(c) = "delegate"
    /\ pending[c] > 0
    /\ Store(home[c], Merged(c))
    /\ hits' = [hits EXCEPT ![c] = @ + 1]
    /\ UNCHANGED <<acl, callVars, pending, refusals, told>>

TakeEffect(c) ==
    /\ Tool(c) = "delegate"
    /\ pending[c] > 0
    /\ Store(home[c], Merged(c))
    /\ pending' = [pending EXCEPT ![c] = @ - 1]
    /\ hits' = [hits EXCEPT ![c] = @ + 1]
    /\ UNCHANGED <<acl, callVars, refusals, told>>

WriteSucceeds(c) ==
    /\ Tool(c) = "delegate"
    /\ pc[c] = "write"
    /\ hits[c] > 0
    /\ StopWaiting(c)
    /\ Go(c, "confirm")
    /\ UNCHANGED <<log, at, acl, orderly, request, home, base, after, reply, hits, refusals, told>>

WriteFails(c) ==
    /\ Tool(c) = "delegate"
    /\ pc[c] = "write"
    /\ StopWaiting(c)
    /\ Return(c, "error")
    /\ UNCHANGED <<log, at, acl, orderly, request, home, base, after, hits, refusals, told>>

(* The read-back compares the argument and the label, not the object id.     *)
Verified(c, list) == list \cap {Delegate(c, request[c].form), Delegate(c, "smtp")} # {}

Confirm(c) ==
    /\ pc[c] = "confirm"
    /\ after' = [after EXCEPT ![c] = Shown(home[c])]
    /\ Return(c, IF Verified(c, Shown(home[c])) THEN "verified" ELSE "unverified")
    /\ UNCHANGED <<log, at, acl, orderly, request, home, base, wireVars, told>>

(* The read-back fails: accepted, and unverified.                            *)
ConfirmFails(c) ==
    /\ pc[c] = "confirm"
    /\ Return(c, "unverified")
    /\ UNCHANGED <<log, at, acl, orderly, request, home, base, after, wireVars, told>>

Call(c) ==
    \/ Start(c) \/ ReadFails(c) \/ Conclude(c) \/ List(c)
    \/ ReadMailbox(c) \/ LookupFindsNone(c) \/ AlreadyPresent(c) \/ SendMerged(c)
    \/ WriteSucceeds(c) \/ WriteFails(c) \/ Confirm(c) \/ ConfirmFails(c)
-----------------------------------------------------------------------------
(* The directory (external) stores object ids in place of what was written.  *)
Resolved(list) == {[who |-> e.who, form |-> "oid"] : e \in list}

Normalise ==
    /\ Newest # Resolved(Newest)
    /\ \E s \in Servers : Store(s, Resolved(Newest))
    /\ UNCHANGED <<acl, callVars, wireVars, told>>

Replicate ==
    /\ \E s \in Servers : CatchUp(s)
    /\ UNCHANGED <<acl, callVars, wireVars, told>>

Done == (\A c \in Calls : pc[c] = "done") /\ UNCHANGED vars

Next ==
    \/ \E c \in Calls : Call(c) \/ Apply(c) \/ TakeEffect(c)
    \/ Normalise \/ Replicate \/ Done

Spec == Init /\ [][Next]_vars
-----------------------------------------------------------------------------
TypeOK ==
    /\ log \in Seq(SUBSET Entries) /\ Len(log) > 0
    /\ at \in [Servers -> 1..Len(log)]
    /\ acl \subseteq Grants
    /\ orderly \in BOOLEAN
    /\ request \in [Calls -> Requests]
    /\ pc \in [Calls -> {"idle", "read", "lookup", "write", "confirm", "done"}]
    /\ home \in [Calls -> Servers]
    /\ base \in [Calls -> SUBSET Entries]
    /\ after \in [Calls -> SUBSET Entries]
    /\ reply \in [Calls -> Replies]
    /\ pending \in [Calls -> 0..(MaxRetries + 1)]
    /\ hits \in [Calls -> 0..(MaxRetries + 1)]
    /\ refusals \in [Calls -> 0..(MaxRetries + 1)]
    /\ told \in [Rights \X People -> {"unknown", "held", "flagged", "missing"}]

Returns(c) == pc[c] # "done" /\ pc'[c] = "done"

(* When calls take turns, success and refusal alike tell how things are on   *)
(* return, after any retries: "already has" is true although it may be this  *)
(* very call's grant that is refused to its own retry (permissions.py:101).  *)
DefiniteAnswerHolds ==
    [][\A c \in Calls : orderly /\ Returns(c) /\ reply'[c] \in {"done", "refused"} =>
        (Held(c) <=> (Tool(c) = "add"))]_vars

(* The errors' advice to list first is sound: whoever sees nobody and grants,*)
(* or sees a grant and removes it, is refused only by the retry of a write   *)
(* that took effect.  The flags matter: of a trustee with a Deny or an       *)
(* inherited entry alone, who is listed among the holders (README.md:115-118 *)
(* and permissions.py:382-388 tell them apart by no more), nothing is said.  *)
CheckFirstThenAct ==
    [][\A c \in Calls : orderly /\ Returns(c) /\ reply'[c] = "refused" /\ hits[c] = 0 =>
        LET known == told[<<request[c].right, request[c].who>>] IN
        /\ Tool(c) = "add" => known # "missing"
        /\ Tool(c) = "remove" => known # "held"]_vars

Granted(c) == reply[c] \in {"verified", "unverified"}
Names(list) == {e.who : e \in list}
States == {log[i] : i \in 1..Len(log)}

(* d wrote a list that it had read without p in it.                          *)
StaleWrite(d, p) == Tool(d) = "delegate" /\ hits[d] > 0 /\ p \notin Names(base[d])

(* A race can lose a delegate that was reported as granted, and any that was *)
(* there before, but only in the way the docstring warns of (N4): a call     *)
(* wrote the list it had read when the delegate was not in it.               *)
GrantLostOnlyByStaleWrite ==
    /\ \A c \in Calls : Granted(c) => \A p \in {request[c].who} \ Names(Newest) :
            \E d \in Calls \ {c} : StaleWrite(d, p)
    /\ \A p \in Names(log[1]) \ Names(Newest) :
            \E d \in Calls : StaleWrite(d, p)

(* Answers about delegates: only recipients are ever entered; already_present*)
(* and verified were true of some state; a delegate is "added" although the  *)
(* list that was read names it only if another caller's writing of the name  *)
(* is not resolved yet (N3); and a read-back that does not verify found the  *)
(* object id (permissions.py:211), or the list another call had written.     *)
DelegateReportsAreTrue ==
    /\ \A m \in States : Names(m) \cap Strangers = {}
    /\ \A c \in Calls :
        /\ reply[c] \in {"already_present", "verified"} =>
                \E m \in States : request[c].who \in Names(m)
        /\ Granted(c) => \A e \in base[c] :
                e.who = request[c].who => e.form \notin {request[c].form, "identity", "smtp", "oid"}
        /\ reply[c] = "unverified" /\ after[c] # {} =>
                \/ Delegate(c, "oid") \in after[c]
                \/ \E d \in Calls \ {c} : StaleWrite(d, request[c].who)

(* A retry of a write that took effect changes nothing, when calls take      *)
(* turns: that of a grant or a removal is refused, and that of a delegate    *)
(* list, which has no such guard, names the same people once more            *)
(* (permissions.py:116, idempotentHint).                                     *)
RetryChangesNothing ==
    [][\A c \in Calls : orderly /\ hits[c] > 0 =>
        /\ Apply(c) => acl' = acl
        /\ TakeEffect(c) => Names(Newest') = Names(Newest)]_vars

(* What happens to one call's write is what Transport grants to a cmdlet.    *)
(* The mapping needs the deliveries that are counted for good, those of      *)
(* calls that are not orderly.                                               *)
WasSent(c) == pending[c] + hits[c] + refusals[c] > 0

WriteOutcome(c) ==
    IF ~WasSent(c) \/ pc[c] = "write" THEN "pending"
    ELSE IF pc[c] = "confirm" \/ reply[c] = "done" \/ Granted(c) THEN "success" ELSE "failure"

Write(c) == INSTANCE CmdletCall WITH
    MaxInvokes <- 1,
    issued     <- IF WasSent(c) THEN 1 ELSE 0,
    effects    <- {1} \X {a \in 0..MaxRetries : a < hits[c]},
    outcome    <- [i \in 1..1 |-> WriteOutcome(c)]
=============================================================================
