----------------------- MODULE MailboxSettingsProofs ------------------------
(***************************************************************************)
(* Theorems about MailboxSettings for any number of calls, servers, requests *)
(* and retries, and any limit: types, reports and blame that are true, and   *)
(* tools that do not disturb each other's fields.                            *)
(***************************************************************************)
EXTENDS MailboxSettings, TLAPS

Value == Mailboxes \union {Absent}

(* Types in three parts. *)
DirTypes ==
    /\ log \in Seq(Value) /\ Len(log) > 0
    /\ at \in [Servers -> 1..Len(log)]

CallTypes ==
    /\ request \in [Calls -> Requests]
    /\ pc \in [Calls -> {"idle", "read", "measure", "send", "write", "confirm", "done"}]
    /\ home \in [Calls -> Servers]
    /\ before \in [Calls -> Value]
    /\ after \in [Calls -> Value]
    /\ advice \in [Calls -> [required : BOOLEAN, known : BOOLEAN]]
    /\ reply \in [Calls -> Replies]

CountTypes ==
    /\ pending \in [Calls -> Nat]
    /\ hits \in [Calls -> Nat]
    /\ since \in [Calls -> Nat]
    /\ adminLeft \in 0..MaxAdmin /\ administered \subseteq Fields
    /\ size \in 0..MaxSize /\ sizes \subseteq 0..MaxSize /\ size \in sizes

(* A call's deliveries are counted, there are none before its write, and the *)
(* first of them has its place in the log. *)
Counted ==
    \A c \in Calls :
        /\ hits[c] + pending[c] <= MaxRetries + 1
        /\ pc[c] \in {"idle", "read", "measure", "send"} => hits[c] = 0 /\ pending[c] = 0
        /\ since[c] <= Len(log)
        /\ hits[c] > 0 <=> since[c] > 0

(* Only a tool that writes sends anything, and only arguments it has accepted. *)
Sent(c) == pc[c] \in {"send", "write", "confirm"} \/ pending[c] > 0 \/ hits[c] > 0

WellSent ==
    \A c \in Calls :
        /\ Sent(c) => Tool(c) \in Writers /\ ~BadArguments(c)
        /\ pc[c] \in {"read", "measure"} => Tool(c) \in {"forwarding", "get_auto_reply", "get_mailbox"}
        /\ pc[c] = "measure" => Tool(c) = "get_mailbox"

Typed == DirTypes /\ CallTypes /\ CountTypes /\ Counted /\ WellSent

LEMMA TypesFit == Typed => TypeOK
  <1> SUFFICES ASSUME Typed PROVE TypeOK
    OBVIOUS
  <1>1. \A c \in Calls : /\ pending[c] \in 0..(MaxRetries + 1)
                         /\ hits[c] \in 0..(MaxRetries + 1)
                         /\ since[c] \in 0..Len(log)
    BY MailboxSettingsAssumption DEF Typed, DirTypes, CountTypes, Counted
  <1>2. /\ pending \in [Calls -> 0..(MaxRetries + 1)]
        /\ hits \in [Calls -> 0..(MaxRetries + 1)]
        /\ since \in [Calls -> 0..Len(log)]
    BY <1>1 DEF Typed, CountTypes
  <1> QED
    BY <1>2 DEF Typed, DirTypes, CallTypes, CountTypes, TypeOK, Value

LEMMA TypedInit == Init => Typed
  <1> SUFFICES ASSUME Init PROVE Typed
    OBVIOUS
  <1>1. PICK m \in Mailboxes0 : log = <<m>>
    BY DEF Init, DirectoryInit
  <1>2. log \in Seq(Value) /\ Len(log) = 1
    BY <1>1, MailboxSettingsAssumption DEF Value
  <1>3. DirTypes
    BY <1>2 DEF Init, DirectoryInit, DirTypes
  <1>4. CallTypes
    BY DEF Init, CallTypes, Replies, Value
  <1>5. CountTypes /\ Counted
    BY <1>2, MailboxSettingsAssumption DEF Init, CountTypes, Counted
  <1>6. WellSent
    BY DEF Init, WellSent, Sent
  <1> QED
    BY <1>3, <1>4, <1>5, <1>6 DEF Typed
-----------------------------------------------------------------------------
LEMMA ElementIsIn ==
    ASSUME NEW S, NEW s \in Seq(S), NEW i \in 1..Len(s)
    PROVE  s[i] \in S
  OBVIOUS

LEMMA ShownIsState ==
    ASSUME DirTypes, NEW s \in Servers
    PROVE  /\ Shown(s) \in Value /\ Shown(s) \in States
           /\ at[s] \in 1..Len(log) /\ Shown(s) = log[at[s]]
  BY DEF DirTypes, Shown, States

LEMMA NewestIsState == DirTypes => Newest \in Value /\ Newest = log[Len(log)]
  BY DEF DirTypes, Newest

LEMMA StoreTypes ==
    ASSUME DirTypes, NEW s \in Servers, NEW v \in Value, Store(s, v)
    PROVE  /\ DirTypes'
           /\ Len(log') = Len(log) + 1 /\ Len(log) \in Nat
           /\ log'[Len(log) + 1] = v /\ Newest' = v
           /\ \A i \in 1..Len(log) : log'[i] = log[i]
           /\ at'[s] = Len(log) + 1
           /\ \A t \in Servers : at[t] <= at'[t]
  <1>1. log \in Seq(Value) /\ Len(log) \in Nat /\ at \in [Servers -> 1..Len(log)]
    BY DEF DirTypes
  <1>2. /\ log' \in Seq(Value) /\ Len(log') = Len(log) + 1
        /\ log'[Len(log) + 1] = v /\ \A i \in 1..Len(log) : log'[i] = log[i]
    BY <1>1 DEF Store
  <1>3. at' \in [Servers -> 1..Len(log')] /\ at'[s] = Len(log) + 1 /\ \A t \in Servers : at[t] <= at'[t]
    BY <1>1, <1>2 DEF Store
  <1> QED
    BY <1>1, <1>2, <1>3 DEF DirTypes, Newest

LEMMA RequestTypes ==
    ASSUME CallTypes, NEW c \in Calls
    PROVE  IsRequest(request[c]) /\ Tool(c) \in Tools
  BY MailboxSettingsAssumption DEF CallTypes, IsRequest, Tool

(* A tool that writes sets the fields its caller names. *)
LEMMA NamedAreSet ==
    ASSUME NEW r, r.tool \in Writers
    PROVE  DOMAIN Parameters(r) = Named(r) /\ Named(r) \subseteq Fields
  BY DEF Writers, Parameters, Named, Forwarding, Fields, Supplied, Replying

LEMMA WrittenIsMailbox ==
    ASSUME CallTypes, NEW c \in Calls, Tool(c) \in Writers, ~BadArguments(c), Resolves(c), NEW m \in Mailboxes
    PROVE  Written(m, Parameters(request[c])) \in Mailboxes
  <1> DEFINE r == request[c]
             p == Parameters(r)
  <1>0. IsRequest(r)
    BY RequestTypes
  <1>1. CASE r.tool = "forwarding"
    <2>1. p = [fwd |-> r.to, smtp |-> None, copy |-> r.to # None /\ r.flag]
      BY <1>1 DEF Parameters
    <2>2. r.to \in Recipients \union {None}
      BY <1>1 DEF Resolves, Tool
    <2>3. PICK b \in BOOLEAN : p = [fwd |-> r.to, smtp |-> None, copy |-> b]
      BY <2>1
    <2> QED
      BY <2>2, <2>3 DEF Written, Mailboxes, Fields
  <1>2. CASE r.tool = "auto_reply"
    <2>1. p = [f \in Supplied(r) |-> r[f]]
      BY <1>2 DEF Parameters
    <2>2. r.state \in ReplyStates \union {None} /\ r.message \in Texts /\ r.window \in Texts
      BY <1>0, <1>2 DEF IsRequest, BadArguments, Tool
    <2>3. /\ r["state"] # None => r["state"] \in ReplyStates
          /\ r["message"] \in Texts /\ r["window"] \in Texts
      BY <2>2
    <2> QED
      BY <2>1, <2>3 DEF Written, Mailboxes, Fields, Supplied, Replying
  <1>3. CASE r.tool = "hidden"
    <2>1. p = [hidden |-> r.flag] /\ r.flag \in BOOLEAN
      BY <1>0, <1>3 DEF Parameters, IsRequest
    <2> QED
      BY <2>1 DEF Written, Mailboxes, Fields
  <1>4. CASE r.tool = "shared"
    <2>1. p = [type |-> "Shared"]
      BY <1>4 DEF Parameters
    <2> QED
      BY <2>1 DEF Written, Mailboxes, Fields
  <1> QED
    BY <1>1, <1>2, <1>3, <1>4 DEF Tool, Writers
-----------------------------------------------------------------------------
(* What a step of a call leaves alone. *)
LEMMA CallFrame ==
    ASSUME CallTypes, NEW c \in Calls, Call(c)
    PROVE  /\ UNCHANGED <<log, at, request, home, hits, since, worldVars>>
           /\ \A d \in Calls \ {c} : UNCHANGED <<pc[d], before[d], after[d], advice[d], reply[d]>>
           /\ UNCHANGED pending \/ Send(c)
  BY DEF Call, Start, RefuseArguments, ReadMailbox, ReadFindsNone, ReadFails, Measure, Send, WriteSucceeds,
         NotFound, WriteFails, Confirm, ConfirmFails, Go, Return, Advise, CallTypes, wireVars

LEMMA CallTypesOfCall ==
    ASSUME Typed, NEW c \in Calls, Call(c)
    PROVE  CallTypes'
  <1> USE DEF Typed
  <1>1. CASE Start(c) \/ RefuseArguments(c) \/ ReadFindsNone(c) \/ ReadFails(c) \/ Send(c) \/ WriteSucceeds(c)
             \/ NotFound(c) \/ WriteFails(c) \/ ConfirmFails(c)
    BY <1>1 DEF Start, RefuseArguments, ReadFindsNone, ReadFails, Send, WriteSucceeds, NotFound, WriteFails,
                ConfirmFails, Go, Return, CallTypes, Replies
  <1>2. ASSUME NEW m \in Value, NEW k \in BOOLEAN, Advise(c, m, k)
        PROVE  advice' \in [Calls -> [required : BOOLEAN, known : BOOLEAN]]
    <2>1. [required |-> Required(m, size, k), known |-> k] \in [required : BOOLEAN, known : BOOLEAN]
      BY DEF Required
    <2> QED
      BY <1>2, <2>1 DEF Advise, CallTypes
  <1>3. CASE ReadMailbox(c)
    <2>1. Shown(home[c]) \in Value /\ Shown(home[c]) \in States
      BY ShownIsState DEF CallTypes
    <2>2. UNCHANGED <<request, home, after>> /\ before' \in [Calls -> Value]
      BY <1>3, <2>1 DEF ReadMailbox, CallTypes
    <2>3. \/ \E next \in {"send", "measure"} : Go(c, next) /\ UNCHANGED <<advice, reply>>
          \/ Return(c, "shown") /\ UNCHANGED advice
          \/ Return(c, "shown") /\ Advise(c, Shown(home[c]), FALSE)
      BY <1>3 DEF ReadMailbox
    <2>4. advice' \in [Calls -> [required : BOOLEAN, known : BOOLEAN]]
      BY <1>2, <2>1, <2>3 DEF CallTypes
    <2>5. /\ pc' \in [Calls -> {"idle", "read", "measure", "send", "write", "confirm", "done"}]
          /\ reply' \in [Calls -> Replies]
      BY <2>3 DEF Go, Return, CallTypes, Replies
    <2> QED
      BY <2>2, <2>4, <2>5 DEF CallTypes
  <1>4. CASE Measure(c)
    <2>1. advice' \in [Calls -> [required : BOOLEAN, known : BOOLEAN]]
      BY <1>2, <1>4 DEF Measure, CallTypes
    <2> QED
      BY <1>4, <2>1 DEF Measure, Return, CallTypes, Replies
  <1>5. CASE Confirm(c)
    <2>1. Shown(home[c]) \in Value
      BY ShownIsState DEF CallTypes
    <2> QED
      BY <1>5, <2>1 DEF Confirm, Return, CallTypes, Replies
  <1> QED
    BY <1>1, <1>3, <1>4, <1>5 DEF Call

LEMMA CountedOfCall ==
    ASSUME Typed, NEW c \in Calls, Call(c)
    PROVE  CountTypes' /\ Counted'
  <1> USE DEF Typed
  <1>0. /\ UNCHANGED <<log, hits, since, worldVars>>
        /\ \A d \in Calls \ {c} : pc'[d] = pc[d]
    BY CallFrame
  <1>1. MaxRetries \in Nat
    BY MailboxSettingsAssumption
  <1>2. CASE Send(c)
    <2>1. pc[c] = "send" /\ pc'[c] = "write" /\ pending' = [pending EXCEPT ![c] = MaxRetries + 1]
      BY <1>2 DEF Send, Go, CallTypes
    <2>2. pending' \in [Calls -> Nat] /\ pending'[c] = MaxRetries + 1 /\ hits[c] = 0
      BY <1>1, <2>1 DEF CountTypes, Counted
    <2>3. \A d \in Calls \ {c} : pending'[d] = pending[d]
      BY <2>1 DEF CountTypes
    <2>4. CountTypes'
      BY <1>0, <2>2 DEF CountTypes, worldVars
    <2>5. Counted'
      <3> SUFFICES ASSUME NEW d \in Calls
          PROVE /\ hits'[d] + pending'[d] <= MaxRetries + 1
                /\ pc'[d] \in {"idle", "read", "measure", "send"} => hits'[d] = 0 /\ pending'[d] = 0
                /\ since'[d] <= Len(log')
                /\ hits'[d] > 0 <=> since'[d] > 0
        BY DEF Counted
      <3>1. CASE d = c
        BY <1>0, <1>1, <2>1, <2>2, <3>1 DEF Counted
      <3>2. CASE d # c
        BY <1>0, <2>3, <3>2 DEF Counted
      <3> QED
        BY <3>1, <3>2
    <2> QED
      BY <2>4, <2>5
  <1>3. CASE ~Send(c)
    <2>1. UNCHANGED pending
      BY <1>3, CallFrame
    <2>2. pc'[c] \in {"idle", "read", "measure", "send"} => pc[c] \in {"idle", "read", "measure", "send"}
      BY <1>3 DEF Call, Start, RefuseArguments, ReadMailbox, ReadFindsNone, ReadFails, Measure, WriteSucceeds,
         NotFound, WriteFails, Confirm, ConfirmFails, Go, Return, CallTypes
    <2> QED
      BY <1>0, <2>1, <2>2 DEF CountTypes, Counted, worldVars
  <1> QED
    BY <1>2, <1>3

LEMMA WellSentOfCall ==
    ASSUME Typed, NEW c \in Calls, Call(c)
    PROVE  WellSent'
  <1> USE DEF Typed
  <1>0. /\ UNCHANGED <<request, hits>>
        /\ \A d \in Calls \ {c} : pc'[d] = pc[d] /\ pending'[d] = pending[d]
    BY CallFrame DEF Send, CountTypes
  <1>1. \A d \in Calls : (Tool(d))' = Tool(d) /\ (BadArguments(d)' <=> BadArguments(d)) /\ Tool(d) \in Tools
    BY <1>0, RequestTypes DEF Tool, BadArguments
  <1>2. \A d \in Calls \ {c} : Sent(d)' <=> Sent(d)
    BY <1>0 DEF Sent
  <1>3. CASE Start(c)
    <2>1. pc[c] = "idle" /\ ~BadArguments(c) /\ UNCHANGED pending /\
          pc'[c] = IF Tool(c) \in {"auto_reply", "hidden", "shared"} THEN "send" ELSE "read"
      BY <1>3 DEF Start, Go, CallTypes, wireVars
    <2> QED
      BY <1>0, <1>1, <1>2, <2>1 DEF WellSent, Sent, Writers, Tools
  <1>4. CASE ReadMailbox(c)
    <2>1. pc[c] = "read" /\ UNCHANGED pending
          /\ \/ pc'[c] = "send" /\ Tool(c) = "forwarding"
             \/ pc'[c] = "measure" /\ Tool(c) = "get_mailbox"
             \/ pc'[c] = "done"
      BY <1>4 DEF ReadMailbox, Go, Return, CallTypes, wireVars
    <2> QED
      BY <1>0, <1>1, <1>2, <2>1 DEF WellSent, Sent, Writers, BadArguments
  <1>5. CASE RefuseArguments(c) \/ ReadFindsNone(c) \/ ReadFails(c) \/ Measure(c) \/ NotFound(c) \/ WriteFails(c)
             \/ Confirm(c) \/ ConfirmFails(c)
    <2>1. pc'[c] = "done" /\ UNCHANGED pending
      BY <1>5 DEF RefuseArguments, ReadFindsNone, ReadFails, Measure, NotFound, WriteFails, Confirm,
                  ConfirmFails, Return, CallTypes, wireVars
    <2> QED
      BY <1>0, <1>1, <1>2, <2>1 DEF WellSent, Sent
  <1>6. CASE Send(c) \/ WriteSucceeds(c)
    <2>1. pc[c] \in {"send", "write"} /\ pc'[c] \in {"write", "confirm", "done"}
      BY <1>6 DEF Send, WriteSucceeds, Go, Return, CallTypes
    <2> QED
      BY <1>0, <1>1, <1>2, <2>1 DEF WellSent, Sent
  <1> QED
    BY <1>3, <1>4, <1>5, <1>6 DEF Call
-----------------------------------------------------------------------------
(* The administrator's changes. *)
LEMMA AdministerTypes ==
    ASSUME Typed, NEW m \in Value, NEW F, F \subseteq Fields, Administer(m, F)
    PROVE  /\ CountTypes' /\ DirTypes'
           /\ UNCHANGED <<callVars, wireVars>> /\ Newest \in Mailboxes /\ Newest' = m
           /\ administered' = administered \union F
           /\ \E s \in Servers : Store(s, m)
  <1> USE DEF Typed
  <1>1. adminLeft > 0 /\ adminLeft' = adminLeft - 1 /\ UNCHANGED <<callVars, wireVars, size, sizes>>
        /\ administered' = administered \union F
    BY DEF Administer
  <1>2. CountTypes'
    BY <1>1, MailboxSettingsAssumption DEF CountTypes, wireVars
  <1>3. Newest \in Mailboxes
    BY NewestIsState DEF Administer, Value
  <1>4. PICK s \in Servers : Store(s, m)
    BY DEF Administer
  <1>5. DirTypes' /\ Newest' = m
    BY <1>4, StoreTypes
  <1> QED
    BY <1>1, <1>2, <1>3, <1>4, <1>5

LEMMA ChangedIsMailbox ==
    ASSUME NEW m \in Mailboxes
    PROVE  /\ [m EXCEPT !.smtp = "outside"] \in Mailboxes
           /\ [m EXCEPT !.hold = TRUE] \in Mailboxes
           /\ \A f \in Fields \ {"smtp"} : [m EXCEPT !.smtp = "outside"][f] = m[f]
           /\ \A f \in Fields \ {"hold"} : [m EXCEPT !.hold = TRUE][f] = m[f]
  BY DEF Mailboxes, Fields

(* Every change of the administrator is Administer of some mailbox and fields, *)
(* and spares the fields it does not count as administered. *)
LEMMA AdminSteps ==
    ASSUME Typed, ForwardOutside \/ Hold \/ Delete
    PROVE  \E m \in Value, F \in SUBSET Fields :
              /\ Administer(m, F)
              /\ \/ m = Absent /\ F = Fields
                 \/ m # Absent /\ \A f \in Fields \ F : m[f] = Newest[f]
  <1> USE DEF Typed
  <1>0. Newest \in Mailboxes /\ Absent \notin Mailboxes
    BY NewestIsState, MailboxSettingsAssumption DEF ForwardOutside, Hold, Delete, Administer, Value
  <1>1. CASE ForwardOutside
    <2> DEFINE m == [Newest EXCEPT !.smtp = "outside"]
    <2>1. m \in Mailboxes /\ \A f \in Fields \ {"smtp"} : m[f] = Newest[f]
      BY <1>0, ChangedIsMailbox
    <2>2. {"smtp"} \in SUBSET Fields /\ Administer(m, {"smtp"})
      BY <1>1 DEF ForwardOutside, Fields
    <2> HIDE DEF m
    <2> QED
      BY <1>0, <2>1, <2>2 DEF Value
  <1>2. CASE Hold
    <2> DEFINE m == [Newest EXCEPT !.hold = TRUE]
    <2>1. m \in Mailboxes /\ \A f \in Fields \ {"hold"} : m[f] = Newest[f]
      BY <1>0, ChangedIsMailbox
    <2>2. {"hold"} \in SUBSET Fields /\ Administer(m, {"hold"})
      BY <1>2 DEF Hold, Fields
    <2> HIDE DEF m
    <2> QED
      BY <1>0, <2>1, <2>2 DEF Value
  <1>3. CASE Delete
    BY <1>3 DEF Delete, Value
  <1> QED
    BY <1>1, <1>2, <1>3

LEMMA EffectIsStore ==
    ASSUME Typed, NEW c \in Calls, TakeEffect(c)
    PROVE  /\ Newest \in Mailboxes /\ Tool(c) \in Writers
           /\ Written(Newest, Parameters(request[c])) \in Mailboxes
           /\ home[c] \in Servers /\ Store(home[c], Written(Newest, Parameters(request[c])))
           /\ DirTypes' /\ Newest' = Written(Newest, Parameters(request[c]))
           /\ Len(log') = Len(log) + 1 /\ at'[home[c]] = Len(log) + 1
           /\ UNCHANGED <<callVars, worldVars>>
  <1> USE DEF Typed
  <1>1. Newest \in Mailboxes
    BY NewestIsState DEF TakeEffect, Value
  <1>2. Tool(c) \in Writers /\ ~BadArguments(c) /\ Resolves(c)
    BY DEF WellSent, Sent, TakeEffect
  <1>3. Written(Newest, Parameters(request[c])) \in Mailboxes
    BY <1>1, <1>2, WrittenIsMailbox
  <1>4. home[c] \in Servers /\ Store(home[c], Written(Newest, Parameters(request[c])))
    BY DEF TakeEffect, CallTypes
  <1>5. /\ DirTypes' /\ Newest' = Written(Newest, Parameters(request[c]))
        /\ Len(log') = Len(log) + 1 /\ at'[home[c]] = Len(log) + 1
    BY <1>3, <1>4, StoreTypes DEF Value
  <1> QED
    BY <1>1, <1>2, <1>3, <1>4, <1>5 DEF TakeEffect

LEMMA CountedOfEffect ==
    ASSUME Typed, NEW c \in Calls, TakeEffect(c)
    PROVE  /\ CountTypes' /\ Counted' /\ WellSent'
           /\ \A d \in Calls : hits'[d] = IF d = c THEN hits[d] + 1 ELSE hits[d]
           /\ \A d \in Calls : since'[d] = IF d = c /\ hits[d] = 0 THEN Len(log) + 1 ELSE since[d]
  <1> USE DEF Typed
  <1>1. /\ pending[c] > 0 /\ pending' = [pending EXCEPT ![c] = @ - 1]
        /\ hits' = [hits EXCEPT ![c] = @ + 1]
        /\ since' = [since EXCEPT ![c] = IF @ = 0 THEN Len(log) + 1 ELSE @]
        /\ UNCHANGED <<request, pc, worldVars>>
    BY DEF TakeEffect, callVars
  <1>2. Len(log) \in Nat /\ Len(log') = Len(log) + 1
    BY EffectIsStore DEF DirTypes
  <1>3. /\ pending' \in [Calls -> Nat] /\ hits' \in [Calls -> Nat]
        /\ \A d \in Calls : hits'[d] = IF d = c THEN hits[d] + 1 ELSE hits[d]
        /\ \A d \in Calls : pending'[d] = IF d = c THEN pending[d] - 1 ELSE pending[d]
    BY <1>1 DEF CountTypes
  <1>4. /\ since' \in [Calls -> Nat]
        /\ \A d \in Calls : since'[d] = IF d = c /\ since[d] = 0 THEN Len(log) + 1 ELSE since[d]
    BY <1>1, <1>2 DEF CountTypes
  <1>5. \A d \in Calls : hits[d] \in Nat /\ since[d] \in Nat /\ pending[d] \in Nat
    BY DEF CountTypes
  <1>6. CountTypes'
    BY <1>1, <1>3, <1>4 DEF CountTypes, worldVars
  <1>7. Counted'
    <2> SUFFICES ASSUME NEW d \in Calls
        PROVE /\ hits'[d] + pending'[d] <= MaxRetries + 1
              /\ pc'[d] \in {"idle", "read", "measure", "send"} => hits'[d] = 0 /\ pending'[d] = 0
              /\ since'[d] <= Len(log')
              /\ hits'[d] > 0 <=> since'[d] > 0
      BY DEF Counted
    <2>1. MaxRetries \in Nat
      BY MailboxSettingsAssumption
    <2> QED
      BY <1>1, <1>2, <1>3, <1>4, <1>5, <2>1 DEF Counted
  <1>8. WellSent'
    <2>1. Sent(c)
      BY <1>1 DEF Sent
    <2>2. \A d \in Calls : Sent(d)' => Sent(d)
      BY <1>1, <1>3, <2>1 DEF Sent
    <2>3. \A d \in Calls : (Tool(d))' = Tool(d) /\ (BadArguments(d)' <=> BadArguments(d))
      BY <1>1 DEF Tool, BadArguments
    <2> QED
      BY <1>1, <2>2, <2>3 DEF WellSent
  <1>9. since[c] = 0 <=> hits[c] = 0
    BY <1>5 DEF Counted
  <1>10. \A d \in Calls : since'[d] = IF d = c /\ hits[d] = 0 THEN Len(log) + 1 ELSE since[d]
    BY <1>4, <1>9
  <1> QED
    BY <1>3, <1>6, <1>7, <1>8, <1>10
-----------------------------------------------------------------------------
(* A step as the proofs below look at it. *)
LEMMA Steps ==
    ASSUME Next
    PROVE  \/ \E c \in Calls : Call(c)
           \/ \E c \in Calls : TakeEffect(c)
           \/ ForwardOutside \/ Hold \/ Delete
           \/ Grow
           \/ Replicate
           \/ UNCHANGED vars
  BY DEF Next, Done

LEMMA GrowFrame ==
    ASSUME Typed, Grow
    PROVE  UNCHANGED <<log, at, callVars, wireVars, adminLeft, administered>> /\ CountTypes' /\ sizes \subseteq sizes'
  <1>1. size < MaxSize /\ size' = size + 1 /\ sizes' = sizes \union {size + 1}
        /\ UNCHANGED <<log, at, callVars, wireVars, adminLeft, administered>>
    BY DEF Grow
  <1>2. CountTypes'
    BY <1>1, MailboxSettingsAssumption DEF Typed, CountTypes, wireVars
  <1> QED
    BY <1>1, <1>2

LEMMA ReplicateFrame ==
    ASSUME Typed, Replicate
    PROVE  /\ UNCHANGED <<log, callVars, wireVars, worldVars>>
           /\ DirTypes' /\ \A t \in Servers : at[t] <= at'[t]
  <1>1. PICK s \in Servers : CatchUp(s)
    BY DEF Replicate
  <1>2. log' = log /\ at[s] < Len(log) /\ at' = [at EXCEPT ![s] = @ + 1]
    BY <1>1 DEF CatchUp
  <1>3. DirTypes' /\ \A t \in Servers : at[t] <= at'[t]
    BY <1>2 DEF Typed, DirTypes
  <1> QED
    BY <1>2, <1>3 DEF Replicate

(* Types whose variables a step leaves alone. *)
LEMMA SameTypes ==
    ASSUME Typed, UNCHANGED <<request, pc, home, before, after, advice, reply, pending, hits, since>>,
           Len(log) <= Len(log'), DirTypes', CountTypes'
    PROVE  Typed'
  <1> USE DEF Typed
  <1>1. CallTypes' /\ WellSent'
    BY DEF CallTypes, WellSent, Sent, Tool, BadArguments
  <1>2. Counted'
    <2>1. Len(log) \in Nat /\ Len(log') \in Nat /\ \A c \in Calls : since[c] \in Nat
      BY DEF DirTypes, CountTypes
    <2> QED
      BY <2>1 DEF Counted
  <1> QED
    BY <1>1, <1>2

LEMMA TypedNext == Typed /\ Next => Typed'
  <1> SUFFICES ASSUME Typed, Next PROVE Typed'
    OBVIOUS
  <1>0. Len(log) \in Nat
    BY DEF Typed, DirTypes
  <1>1. ASSUME NEW c \in Calls, Call(c) PROVE Typed'
    <2>1. DirTypes'
      BY <1>1, CallFrame DEF Typed, DirTypes
    <2> QED
      BY <1>1, <2>1, CallTypesOfCall, CountedOfCall, WellSentOfCall DEF Typed
  <1>2. ASSUME NEW c \in Calls, TakeEffect(c) PROVE Typed'
    <2>1. DirTypes' /\ UNCHANGED callVars
      BY <1>2, EffectIsStore
    <2>2. CallTypes'
      BY <2>1 DEF Typed, CallTypes, callVars
    <2> QED
      BY <1>2, <2>1, <2>2, CountedOfEffect DEF Typed
  <1>3. CASE ForwardOutside \/ Hold \/ Delete
    <2>1. PICK m \in Value, F \in SUBSET Fields : Administer(m, F)
      BY <1>3, AdminSteps
    <2>2. CountTypes' /\ DirTypes' /\ UNCHANGED <<callVars, wireVars>> /\ \E s \in Servers : Store(s, m)
      BY <2>1, AdministerTypes
    <2>3. Len(log) <= Len(log')
      BY <1>0, <2>2, StoreTypes DEF Typed
    <2> QED
      BY <2>2, <2>3, SameTypes DEF callVars, wireVars
  <1>4. CASE Grow
    <2>1. UNCHANGED <<log, at, callVars, wireVars>> /\ CountTypes'
      BY <1>4, GrowFrame
    <2>2. DirTypes' /\ Len(log) <= Len(log')
      BY <1>0, <2>1 DEF Typed, DirTypes
    <2> QED
      BY <2>1, <2>2, SameTypes DEF callVars, wireVars
  <1>5. CASE Replicate
    <2>1. UNCHANGED <<log, callVars, wireVars, worldVars>> /\ DirTypes'
      BY <1>5, ReplicateFrame
    <2>2. CountTypes' /\ Len(log) <= Len(log')
      BY <1>0, <2>1 DEF Typed, CountTypes, wireVars, worldVars
    <2> QED
      BY <2>1, <2>2, SameTypes DEF callVars, wireVars
  <1>6. CASE UNCHANGED vars
    <2>1. DirTypes' /\ CountTypes' /\ Len(log) <= Len(log')
      BY <1>0, <1>6 DEF Typed, DirTypes, CountTypes, vars, wireVars, worldVars
    <2> QED
      BY <1>6, <2>1, SameTypes DEF vars, callVars, wireVars
  <1> QED
    BY <1>1, <1>2, <1>3, <1>4, <1>5, <1>6, Steps

LEMMA TypedStep == Typed /\ [Next]_vars => Typed'
  <1>1. ASSUME Typed, UNCHANGED vars PROVE Typed'
    <2>1. DirTypes' /\ CountTypes' /\ Len(log) <= Len(log')
      BY <1>1 DEF Typed, DirTypes, CountTypes, vars, wireVars, worldVars
    <2> QED
      BY <1>1, <2>1, SameTypes DEF vars, callVars, wireVars
  <1> QED
    BY <1>1, TypedNext

LEMMA TypedAlways == Spec => []Typed
  BY TypedInit, TypedStep, PTL DEF Spec

(* Every variable keeps its type: retried and late writes of any mix of      *)
(* tools only ever make a mailbox of a mailbox.                              *)
THEOREM TypeCorrect == Spec => []TypeOK
  BY TypedAlways, TypesFit, PTL
-----------------------------------------------------------------------------
(* What only grows. *)
LEMMA Growth ==
    ASSUME Typed, Next
    PROVE  /\ Len(log) \in Nat /\ Len(log') \in Nat /\ Len(log) <= Len(log')
           /\ \A i \in 1..Len(log) : log'[i] = log[i]
           /\ \A s \in Servers : at[s] <= at'[s]
           /\ States \subseteq States' /\ sizes \subseteq sizes' /\ UNCHANGED <<request, home>>
  <1> USE DEF Typed
  <1>0. Len(log) \in Nat /\ \A s \in Servers : at[s] \in Nat
    BY DEF DirTypes
  <1> DEFINE Longer == /\ Len(log') \in Nat /\ Len(log) <= Len(log')
                       /\ \A i \in 1..Len(log) : log'[i] = log[i]
                       /\ \A s \in Servers : at[s] <= at'[s]
             Same == sizes \subseteq sizes' /\ UNCHANGED <<request, home>>
  <1>1. ASSUME NEW s \in Servers, NEW v \in Value, Store(s, v) PROVE Longer
    BY <1>0, <1>1, StoreTypes
  <1>2. ASSUME NEW c \in Calls, Call(c) PROVE Longer /\ Same
    BY <1>0, <1>2, CallFrame DEF worldVars
  <1>3. ASSUME NEW c \in Calls, TakeEffect(c) PROVE Longer /\ Same
    <2>1. /\ home[c] \in Servers /\ Store(home[c], Written(Newest, Parameters(request[c])))
          /\ Written(Newest, Parameters(request[c])) \in Value /\ UNCHANGED <<callVars, worldVars>>
      BY <1>3, EffectIsStore DEF Value
    <2> QED
      BY <1>1, <2>1 DEF callVars, worldVars
  <1>4. ASSUME ForwardOutside \/ Hold \/ Delete PROVE Longer /\ Same
    <2>1. PICK m \in Value, F \in SUBSET Fields : Administer(m, F)
      BY <1>4, AdminSteps
    <2>2. UNCHANGED <<callVars, sizes>> /\ \E s \in Servers : Store(s, m)
      BY <2>1 DEF Administer
    <2> QED
      BY <1>1, <2>2 DEF callVars
  <1>5. ASSUME Grow PROVE Longer /\ Same
    BY <1>0, <1>5, GrowFrame DEF callVars
  <1>6. ASSUME Replicate PROVE Longer /\ Same
    BY <1>0, <1>6, ReplicateFrame DEF callVars, worldVars
  <1>7. ASSUME UNCHANGED vars PROVE Longer /\ Same
    BY <1>0, <1>7 DEF vars, callVars, worldVars
  <1>8. Longer /\ Same
    BY <1>2, <1>3, <1>4, <1>5, <1>6, <1>7, Steps
  <1>9. States \subseteq States'
    <2> SUFFICES ASSUME NEW i \in 1..Len(log) PROVE log[i] \in States'
      BY DEF States
    <2>1. log'[i] = log[i] /\ i \in 1..Len(log')
      BY <1>0, <1>8
    <2> QED
      BY <2>1 DEF States
  <1> QED
    BY <1>0, <1>8, <1>9

(* A call whose own steps did not run, and whose write did not take effect, *)
(* finds its variables as they were. *)
LEMMA Bystander ==
    ASSUME Typed, Next, NEW c \in Calls
    PROVE  \/ Call(c)
           \/ TakeEffect(c)
           \/ UNCHANGED <<pc[c], before[c], after[c], advice[c], reply[c], pending[c], hits[c], since[c]>>
  <1> USE DEF Typed
  <1>1. ASSUME NEW d \in Calls \ {c}, Call(d)
        PROVE  UNCHANGED <<pc[c], before[c], after[c], advice[c], reply[c], pending[c], hits[c], since[c]>>
    BY <1>1, CallFrame DEF Send, CountTypes
  <1>2. ASSUME NEW d \in Calls \ {c}, TakeEffect(d)
        PROVE  UNCHANGED <<pc[c], before[c], after[c], advice[c], reply[c], pending[c], hits[c], since[c]>>
    BY <1>2, CountedOfEffect DEF TakeEffect, callVars, CountTypes
  <1>3. CASE ForwardOutside \/ Hold \/ Delete \/ Grow \/ Replicate
    BY <1>3 DEF ForwardOutside, Hold, Delete, Administer, Grow, Replicate, callVars, wireVars
  <1> QED
    BY <1>1, <1>2, <1>3, Steps DEF vars, callVars, wireVars
-----------------------------------------------------------------------------
(* What holds of one call.  It replies when it is done, and accepts only     *)
(* what took effect. *)
Replied(c) ==
    /\ pc[c] # "done" => reply[c] = "none"
    /\ pc[c] = "confirm" \/ Accepted(c) => hits[c] > 0

Blamed(c) ==
    /\ reply[c] = "not_found" => Absent \in States
    /\ reply[c] = "cannot_forward" => request[c].to \in Strangers \/ Absent \in States

Licence(c) ==
    IF advice[c].required
    THEN (\E m \in States \ {Absent} : m.hold) \/ \E s \in sizes : ~Free(s)
    ELSE /\ \E m \in States \ {Absent} : ~m.hold
         /\ advice[c].known => Limit \in sizes \/ \E s \in sizes : Free(s)

Advised(c) ==
    /\ pc[c] = "measure" => before[c] \in States \ {Absent}
    /\ reply[c] = "shown" /\ Tool(c) = "get_mailbox" => Licence(c)

(* The server of a call never falls behind its write. *)
Landed(c) ==
    hits[c] > 0 =>
        /\ since[c] <= at[home[c]]
        /\ Tool(c) = "forwarding" =>
            log[since[c]] # Absent /\ log[since[c]].fwd = request[c].to /\ log[since[c]].smtp = None

ReadFirst(c) ==
    Tool(c) = "forwarding" /\ Sent(c) =>
        \E i \in 1..Len(log) : log[i] = before[c] /\ (hits[c] > 0 => i < since[c])

ReadBack(c) ==
    reply[c] = "confirmed" => after[c] # Absent /\ \E i \in since[c]..Len(log) : log[i] = after[c]

Told(c) == Replied(c) /\ Blamed(c) /\ Advised(c) /\ Landed(c) /\ ReadFirst(c) /\ ReadBack(c)

LEMMA ToldInit == ASSUME Init, NEW c \in Calls PROVE Told(c)
  BY DEF Init, Told, Replied, Blamed, Advised, Landed, ReadFirst, ReadBack, Accepted, Sent

(* Told depends on the call's own variables and on histories that grow. *)
LEMMA Undisturbed ==
    ASSUME Typed, Next, NEW c \in Calls, Told(c),
           UNCHANGED <<pc[c], before[c], after[c], advice[c], reply[c], pending[c], hits[c], since[c]>>
    PROVE  Told(c)'
  <1> USE DEF Typed
  <1>0. since[c] \in Nat /\ since[c] <= Len(log) /\ hits[c] \in Nat /\ (hits[c] > 0 <=> since[c] > 0)
    BY DEF CountTypes, Counted
  <1>1. Replied(c)' /\ Blamed(c)' /\ Advised(c)'
    BY Growth DEF Told, Replied, Blamed, Advised, Licence, Accepted, Tool
  <1>2. Landed(c)'
    <2>1. home[c] \in Servers /\ at[home[c]] \in Nat /\ at'[home[c]] \in Nat
      BY TypedNext DEF CallTypes, DirTypes
    <2>2. hits[c] > 0 => log'[since[c]] = log[since[c]]
      BY <1>0, Growth
    <2> QED
      BY <1>0, <2>1, <2>2, Growth DEF Told, Landed, Tool
  <1>3. ReadFirst(c)'
    <2>1. Sent(c)' => Sent(c)
      BY DEF Sent, CountTypes
    <2> QED
      BY <2>1, Growth DEF Told, ReadFirst, Tool
  <1>4. ReadBack(c)'
    BY <1>0, Growth DEF Told, ReadBack, Replied, Accepted
  <1> QED
    BY <1>1, <1>2, <1>3, <1>4 DEF Told

LEMMA ToldOfEffect ==
    ASSUME Typed, Next, NEW c \in Calls, Told(c), TakeEffect(c)
    PROVE  Told(c)'
  <1> USE DEF Typed
  <1>0. since[c] \in Nat /\ since[c] <= Len(log) /\ hits[c] \in Nat /\ (hits[c] > 0 <=> since[c] > 0)
    BY DEF CountTypes, Counted
  <1>1. /\ UNCHANGED <<request, pc, home, before, after, advice, reply>>
        /\ hits'[c] = hits[c] + 1
        /\ since'[c] = IF hits[c] = 0 THEN Len(log) + 1 ELSE since[c]
        /\ Len(log) \in Nat /\ Len(log') = Len(log) + 1 /\ at'[home[c]] = Len(log) + 1
        /\ \A i \in 1..Len(log) : log'[i] = log[i]
    BY EffectIsStore, CountedOfEffect, Growth DEF callVars
  <1>2. log'[Len(log) + 1] = Written(Newest, Parameters(request[c]))
    BY <1>1, EffectIsStore DEF Newest
  <1>3. Replied(c)' /\ Blamed(c)' /\ Advised(c)'
    BY <1>0, <1>1, Growth DEF Told, Replied, Blamed, Advised, Licence, Accepted, Tool
  <1>4. Landed(c)'
    <2>1. since'[c] <= at'[home'[c]]
      BY <1>0, <1>1
    <2>2. CASE hits[c] = 0 /\ Tool(c) = "forwarding"
      <3> DEFINE w == Written(Newest, Parameters(request[c]))
                 p == Parameters(request[c])
      <3>1. w # Absent
        BY EffectIsStore, MailboxSettingsAssumption
      <3>2. "fwd" \in DOMAIN p /\ "smtp" \in DOMAIN p /\ p["fwd"] = request[c].to /\ p["smtp"] = None
        BY <2>2 DEF Parameters, Tool
      <3>3. w["fwd"] = request[c].to /\ w["smtp"] = None
        BY <3>2 DEF Written, Fields
      <3>4. w.fwd = request[c].to /\ w.smtp = None
        BY <3>3
      <3>5. log'[since'[c]] = w
        BY <1>1, <1>2, <2>2
      <3> HIDE DEF w, p
      <3> QED
        BY <1>1, <2>1, <3>1, <3>4, <3>5 DEF Landed, Tool
    <2>3. CASE hits[c] > 0
      <3>1. log'[since'[c]] = log[since[c]]
        BY <1>0, <1>1, <2>3
      <3> QED
        BY <1>1, <2>1, <2>3, <3>1 DEF Told, Landed, Tool
    <2>4. CASE Tool(c) # "forwarding"
      BY <1>1, <2>1, <2>4 DEF Landed, Tool
    <2> QED
      BY <1>0, <2>2, <2>3, <2>4
  <1>5. ReadFirst(c)'
    <2>1. Sent(c)
      BY DEF TakeEffect, Sent
    <2> QED
      BY <1>0, <1>1, <2>1 DEF Told, ReadFirst, Tool
  <1>6. ReadBack(c)'
    <2>1. reply[c] = "confirmed" => hits[c] > 0
      BY DEF Told, Replied, Accepted
    <2> QED
      BY <1>0, <1>1, <2>1 DEF Told, ReadBack
  <1> QED
    BY <1>3, <1>4, <1>5, <1>6 DEF Told

LEMMA ToldOfCall ==
    ASSUME Typed, Next, NEW c \in Calls, Told(c), Call(c)
    PROVE  Told(c)'
  <1> USE DEF Typed
  <1>0. since[c] \in Nat /\ since[c] <= Len(log) /\ hits[c] \in Nat /\ (hits[c] > 0 <=> since[c] > 0)
    BY DEF CountTypes, Counted
  <1>1. UNCHANGED <<log, at, request, home, hits, since, sizes>>
    BY CallFrame DEF worldVars
  <1>2. /\ Shown(home[c]) \in States /\ at[home[c]] \in 1..Len(log)
        /\ Shown(home[c]) = log[at[home[c]]] /\ Len(log) \in Nat
    BY ShownIsState DEF CallTypes, DirTypes
  <1>3. States' = States
    BY <1>1 DEF States
  <1>4. Landed(c)'
    BY <1>1 DEF Told, Landed, Tool
  <1>5. Replied(c)'
    <2>1. \/ pc[c] # "done" /\ pc'[c] # "done" /\ UNCHANGED reply /\ (pc'[c] = "confirm" => hits[c] > 0)
          \/ pc'[c] = "done" /\ reply'[c] \notin {"unverified", "confirmed"}
          \/ pc'[c] = "done" /\ hits[c] > 0
      BY DEF Call, Start, RefuseArguments, ReadMailbox, ReadFindsNone, ReadFails, Measure, Send, WriteSucceeds,
             NotFound, WriteFails, Confirm, ConfirmFails, Go, Return, CallTypes, Told, Replied
    <2> QED
      BY <1>1, <2>1 DEF Told, Replied, Accepted
  <1>6. Blamed(c)'
    <2>1. CASE ReadFindsNone(c)
      <3>1. Absent \in States'
        BY <1>2, <1>3, <2>1 DEF ReadFindsNone
      <3> QED
        BY <3>1 DEF Blamed
    <2>2. CASE NotFound(c)
      <3>1. IsRequest(request[c])
        BY RequestTypes
      <3>2. Shown(home[c]) = Absent \/ request[c].to \in Strangers
        BY <2>2, <3>1 DEF NotFound, Resolves, IsRequest
      <3>3. reply'[c] = IF Tool(c) = "forwarding" /\ request[c].to # None THEN "cannot_forward" ELSE "not_found"
        BY <2>2 DEF NotFound, Return, CallTypes
      <3>4. reply'[c] = "not_found" => Shown(home[c]) = Absent
        BY <2>2, <3>3 DEF NotFound, Resolves
      <3> QED
        BY <1>1, <1>2, <1>3, <3>2, <3>3, <3>4 DEF Blamed
    <2>3. CASE ~ReadFindsNone(c) /\ ~NotFound(c)
      <3>1. UNCHANGED reply \/ reply'[c] \notin {"not_found", "cannot_forward"}
        BY <2>3 DEF Call, Start, RefuseArguments, ReadMailbox, ReadFails, Measure, Send, WriteSucceeds,
             WriteFails, Confirm, ConfirmFails, Go, Return, CallTypes
      <3> QED
        BY <1>1, <1>3, <3>1 DEF Told, Blamed
    <2> QED
      BY <2>1, <2>2, <2>3
  <1>7. Advised(c)'
    <2>1. size \in sizes /\ size \in Nat /\ Limit \in Nat
      BY MailboxSettingsAssumption DEF CountTypes
    <2>2. ASSUME NEW m \in States \ {Absent}, NEW k \in BOOLEAN, Advise(c, m, k)
          PROVE  Licence(c)'
      <3>1. PICK b \in BOOLEAN :
              advice'[c] = [required |-> b, known |-> k] /\ (b <=> m.hold \/ (k /\ size > Limit))
        BY <2>2 DEF Advise, CallTypes, Required
      <3>2. (m \in States \ {Absent})' /\ sizes' = sizes
        BY <1>1, <1>3
      <3>3. CASE m.hold
        BY <3>1, <3>2, <3>3 DEF Licence
      <3>4. CASE ~m.hold /\ k
        <4>1. size > Limit => ~Free(size)
          BY <2>1 DEF Free
        <4>2. ~(size > Limit) => size = Limit \/ Free(size)
          BY <2>1 DEF Free
        <4> QED
          BY <2>1, <3>1, <3>2, <3>4, <4>1, <4>2 DEF Licence, Free
      <3>5. CASE ~m.hold /\ ~k
        BY <3>1, <3>2, <3>5 DEF Licence
      <3> QED
        BY <3>3, <3>4, <3>5
    <2>3. CASE ReadMailbox(c)
      <3>1. before'[c] = Shown(home[c]) /\ Shown(home[c]) \in States \ {Absent}
        BY <1>2, <2>3 DEF ReadMailbox, CallTypes
      <3>2. pc[c] = "read" /\ reply[c] = "none"
        BY <2>3 DEF ReadMailbox, Told, Replied
      <3>3. \/ reply'[c] = "none"
            \/ pc'[c] = "done" /\ (Tool(c) # "get_mailbox" \/ Advise(c, Shown(home[c]), FALSE))
        BY <2>3, <3>2 DEF ReadMailbox, Go, Return, CallTypes
      <3> QED
        BY <1>1, <1>3, <2>2, <3>1, <3>3 DEF Advised, Tool
    <2>4. CASE Measure(c)
      <3>1. before[c] \in States \ {Absent} /\ pc'[c] = "done"
        BY <2>4 DEF Measure, Return, CallTypes, Told, Advised
      <3>2. Licence(c)'
        BY <2>2, <2>4, <3>1 DEF Measure
      <3> QED
        BY <3>1, <3>2 DEF Advised
    <2>5. CASE ~ReadMailbox(c) /\ ~Measure(c)
      <3>1. /\ UNCHANGED <<before, advice>>
            /\ pc'[c] # "measure"
            /\ UNCHANGED reply \/ reply'[c] # "shown"
        BY <2>5 DEF Call, Start, RefuseArguments, ReadFindsNone, ReadFails, Send, WriteSucceeds,
             NotFound, WriteFails, Confirm, ConfirmFails, Go, Return, CallTypes
      <3> QED
        BY <1>1, <1>3, <3>1 DEF Told, Advised, Licence, Tool
    <2> QED
      BY <2>3, <2>4, <2>5
  <1>8. ReadFirst(c)'
    <2>0. \A i \in 1..Len(log) : i \in 1..Len(log')
      BY <1>1
    <2>1. CASE ReadMailbox(c)
      <3>1. hits[c] = 0 /\ before'[c] = log[at[home[c]]]
        BY <1>2, <2>1 DEF ReadMailbox, CallTypes, Counted
      <3> QED
        BY <1>1, <1>2, <3>1 DEF ReadFirst
    <2>2. CASE Start(c)
      <3>1. Tool(c) = "forwarding" => ~Sent(c)'
        BY <1>0, <1>1, <2>2 DEF Start, Go, Sent, CallTypes, Counted, CountTypes, wireVars
      <3> QED
        BY <1>1, <3>1 DEF ReadFirst, Tool
    <2>3. CASE ~ReadMailbox(c) /\ ~Start(c)
      <3>1. UNCHANGED before /\ (Sent(c)' => Sent(c))
        BY <1>1, <2>3 DEF Call, RefuseArguments, ReadFindsNone, ReadFails, Measure, Send, WriteSucceeds,
             NotFound, WriteFails, Confirm, ConfirmFails, Go, Return, CallTypes, Sent, wireVars
      <3> QED
        BY <1>1, <3>1 DEF Told, ReadFirst, Tool
    <2> QED
      BY <2>1, <2>2, <2>3
  <1>9. ReadBack(c)'
    <2>1. CASE Confirm(c)
      <3>1. hits[c] > 0 /\ after'[c] = log[at[home[c]]] /\ after'[c] # Absent
        BY <1>2, <2>1 DEF Confirm, CallTypes, Told, Replied
      <3>2. since[c] <= at[home[c]]
        BY <3>1 DEF Told, Landed
      <3>3. at[home[c]] \in since[c]..Len(log)
        BY <1>0, <1>2, <3>2
      <3> QED
        BY <1>1, <3>1, <3>3 DEF ReadBack
    <2>2. CASE ~Confirm(c)
      <3>1. UNCHANGED after /\ (UNCHANGED reply \/ reply'[c] # "confirmed")
        BY <2>2 DEF Call, Start, RefuseArguments, ReadMailbox, ReadFindsNone, ReadFails, Measure, Send,
             WriteSucceeds, NotFound, WriteFails, ConfirmFails, Go, Return, CallTypes
      <3> QED
        BY <1>1, <3>1 DEF Told, ReadBack
    <2> QED
      BY <2>1, <2>2
  <1> QED
    BY <1>4, <1>5, <1>6, <1>7, <1>8, <1>9 DEF Told

ToldInv == Typed /\ \A c \in Calls : Told(c)

LEMMA ToldAlways == Spec => []ToldInv
  <1>1. Init => ToldInv
    BY TypedInit, ToldInit DEF ToldInv
  <1>2. ToldInv /\ [Next]_vars => ToldInv'
    <2>1. ASSUME ToldInv, Next PROVE ToldInv'
      BY <2>1, TypedNext, Bystander, Undisturbed, ToldOfCall, ToldOfEffect DEF ToldInv
    <2>2. ASSUME ToldInv, UNCHANGED vars PROVE ToldInv'
      <3>1. Typed'
        BY <2>2, TypedStep DEF ToldInv
      <3> QED
        BY <2>2, <3>1 DEF ToldInv, Told, Replied, Blamed, Advised, Licence, Landed, ReadFirst, ReadBack, Accepted,
              Sent, States, Tool, vars, callVars, wireVars, worldVars
    <2> QED
      BY <2>1, <2>2
  <1> QED
    BY <1>1, <1>2, PTL DEF Spec

(* Who is told not_found, or that the target cannot be forwarded to, is told *)
(* the truth, but for a mailbox that went away between read and write.       *)
THEOREM Blame == Spec => []BlameIsTrue
  <1>1. ToldInv => BlameIsTrue
    BY DEF ToldInv, Told, Blamed, BlameIsTrue
  <1> QED
    BY <1>1, ToldAlways, PTL

(* The licence advice was true of the mailbox, for any limit and any growth, *)
(* by the promise of a licence-free mailbox below the limit; the limit       *)
(* itself is the one size on which code and promise differ.                  *)
THEOREM Advice == Spec => []AdviceWasTrue
  <1>1. ToldInv => AdviceWasTrue
    BY DEF ToldInv, Told, Advised, Licence, AdviceWasTrue
  <1> QED
    BY <1>1, ToldAlways, PTL

(* previous_forwarding is from before the call's first delivery, and what is *)
(* read back from that delivery or later.                                    *)
THEOREM Brackets == Spec => []ReportBracketsWrite
  <1>1. ToldInv => ReportBracketsWrite
    <2> SUFFICES ASSUME ToldInv, NEW c \in Calls, reply[c] = "confirmed"
        PROVE  /\ \E i \in since[c]..Len(log) : log[i] = after[c]
               /\ Tool(c) = "forwarding" => \E i \in 1..(since[c] - 1) : log[i] = before[c]
      BY DEF ReportBracketsWrite
    <2>1. hits[c] > 0 /\ Sent(c)
      BY DEF ToldInv, Told, Replied, Accepted, Sent
    <2>2. since[c] \in Nat /\ Len(log) \in Nat
      BY DEF ToldInv, Typed, CountTypes, DirTypes
    <2> QED
      BY <2>1, <2>2 DEF ToldInv, Told, ReadBack, ReadFirst
  <1> QED
    BY <1>1, ToldAlways, PTL

(* When the answer says that forwarding is off, a state from this call's     *)
(* write on forwarded nowhere, whether or not it was read back.              *)
THEOREM OffIsOff == Spec => []OffMeansOff
  <1>1. ToldInv => OffMeansOff
    <2> SUFFICES ASSUME ToldInv, NEW c \in Calls, Accepted(c), Tool(c) = "forwarding", ~ForwardingEnabled(c)
        PROVE  \E i \in since[c]..Len(log) : log[i] # Absent /\ log[i].fwd = None /\ log[i].smtp = None
      BY DEF OffMeansOff
    <2>0. since[c] \in Nat /\ Len(log) \in Nat /\ since[c] <= Len(log)
      BY DEF ToldInv, Typed, CountTypes, DirTypes, Counted
    <2>1. CASE reply[c] = "confirmed"
      BY <2>1 DEF ToldInv, Told, ReadBack, ForwardingEnabled
    <2>2. CASE reply[c] # "confirmed"
      <3>1. request[c].to = None /\ hits[c] > 0
        BY <2>2 DEF ToldInv, Told, Replied, ForwardingEnabled
      <3> QED
        BY <2>0, <3>1 DEF ToldInv, Told, Landed
    <2> QED
      BY <2>1, <2>2
  <1> QED
    BY <1>1, ToldAlways, PTL
-----------------------------------------------------------------------------
(* Every field an administrator has left alone has the value some delivered  *)
(* write asked for, and if none did, that of the mailbox as it was found.    *)
Authored ==
    Newest # Absent =>
        \A f \in Fields \ administered :
            \/ (\A c \in Calls : ~Sets(c, f)) /\ Newest[f] = log[1][f]
            \/ \E c \in Calls : Sets(c, f) /\ Newest[f] = Parameters(request[c])[f]

LEMMA AuthoredOfEffect ==
    ASSUME Typed, Authored, NEW c \in Calls, TakeEffect(c)
    PROVE  Authored'
  <1> USE DEF Typed
  <1>1. /\ UNCHANGED <<request, administered>> /\ Newest # Absent /\ Tool(c) \in Writers
        /\ Newest' = Written(Newest, Parameters(request[c]))
    BY EffectIsStore, MailboxSettingsAssumption DEF callVars, worldVars
  <1>2. Len(log) \in Nat /\ Len(log) > 0 /\ log'[1] = log[1]
    <2>1. DirTypes /\ \E s \in Servers : \E v \in Value : Store(s, v)
      BY EffectIsStore DEF Value
    <2> QED
      BY <2>1, StoreTypes DEF DirTypes
  <1>3. DOMAIN Parameters(request[c]) = Named(request[c])
    BY <1>1, NamedAreSet DEF Tool
  <1>4. \A d \in Calls : hits[d] \in Nat /\ hits'[d] = IF d = c THEN hits[d] + 1 ELSE hits[d]
    BY CountedOfEffect DEF CountTypes
  <1>5. \A f : Sets(c, f)' <=> f \in Named(request[c])
    BY <1>1, <1>4 DEF Sets
  <1>6. \A d \in Calls \ {c}, f \in Fields : Sets(d, f)' <=> Sets(d, f)
    BY <1>1, <1>4 DEF Sets
  <1>7. \A f \in Fields : Newest'[f] = IF f \in Named(request[c]) THEN Parameters(request[c])[f] ELSE Newest[f]
    BY <1>1, <1>3 DEF Written
  <1> SUFFICES ASSUME NEW f \in Fields \ administered
      PROVE  \/ (\A d \in Calls : ~Sets(d, f)') /\ Newest'[f] = log'[1][f]
             \/ \E d \in Calls : Sets(d, f)' /\ Newest'[f] = Parameters(request[d])[f]
    BY <1>1 DEF Authored
  <1>8. CASE f \in Named(request[c])
    BY <1>5, <1>7, <1>8
  <1>9. CASE f \notin Named(request[c])
    <2>1. ~Sets(c, f) /\ ~Sets(c, f)' /\ Newest'[f] = Newest[f]
      BY <1>5, <1>7, <1>9 DEF Sets
    <2>2. \A d \in Calls : Sets(d, f)' <=> Sets(d, f)
      BY <1>6, <2>1
    <2> QED
      BY <1>1, <1>2, <2>1, <2>2 DEF Authored
  <1> QED
    BY <1>8, <1>9

LEMMA AuthoredOfAdmin ==
    ASSUME Typed, Authored, ForwardOutside \/ Hold \/ Delete
    PROVE  Authored'
  <1> USE DEF Typed
  <1>1. PICK m \in Value, F \in SUBSET Fields :
          /\ Administer(m, F)
          /\ \/ m = Absent /\ F = Fields
             \/ m # Absent /\ \A f \in Fields \ F : m[f] = Newest[f]
    BY AdminSteps
  <1>2. /\ UNCHANGED <<callVars, wireVars>> /\ Newest \in Mailboxes /\ Newest' = m
        /\ administered' = administered \union F
        /\ \E s \in Servers : Store(s, m)
    BY <1>1, AdministerTypes
  <1>3. log'[1] = log[1]
    <2>1. DirTypes /\ Len(log) \in Nat /\ Len(log) > 0
      BY DEF DirTypes
    <2> QED
      BY <1>2, <2>1, StoreTypes
  <1>4. Newest # Absent
    BY <1>2, MailboxSettingsAssumption
  <1>5. \A c \in Calls, f \in Fields : Sets(c, f)' <=> Sets(c, f)
    BY <1>2 DEF Sets, callVars, wireVars
  <1>6. request' = request
    BY <1>2 DEF callVars
  <1>7. \A f \in Fields \ administered' : Newest' # Absent => f \in Fields \ administered /\ Newest'[f] = Newest[f]
    BY <1>1, <1>2
  <1> QED
    BY <1>3, <1>4, <1>5, <1>6, <1>7 DEF Authored

LEMMA AuthoredStays ==
    ASSUME Typed, Authored, UNCHANGED <<log, request, hits, administered>>
    PROVE  Authored'
  <1>1. \A c \in Calls, f \in Fields : Sets(c, f)' <=> Sets(c, f)
    BY DEF Sets
  <1>2. Newest' = Newest
    BY DEF Newest
  <1> QED
    BY <1>1, <1>2 DEF Authored

LEMMA AuthoredAlways == Spec => [](Typed /\ Authored)
  <1>1. Init => Typed /\ Authored
    <2> SUFFICES ASSUME Init PROVE Authored
      BY TypedInit
    <2>1. Len(log) = 1
      BY DEF Init, DirectoryInit
    <2> QED
      BY <2>1 DEF Init, Authored, Newest, Sets
  <1>2. Typed /\ Authored /\ [Next]_vars => (Typed /\ Authored)'
    <2> SUFFICES ASSUME Typed, Authored, [Next]_vars PROVE Authored'
      BY TypedStep
    <2>1. ASSUME NEW c \in Calls, Call(c) PROVE Authored'
      BY <2>1, CallFrame, AuthoredStays DEF Typed, worldVars
    <2>2. ASSUME NEW c \in Calls, TakeEffect(c) PROVE Authored'
      BY <2>2, AuthoredOfEffect
    <2>3. CASE ForwardOutside \/ Hold \/ Delete
      BY <2>3, AuthoredOfAdmin
    <2>4. CASE Grow
      BY <2>4, GrowFrame, AuthoredStays DEF callVars, wireVars
    <2>5. CASE Replicate
      BY <2>5, ReplicateFrame, AuthoredStays DEF callVars, wireVars, worldVars
    <2>6. CASE UNCHANGED vars
      BY <2>6, AuthoredStays DEF vars, callVars, wireVars, worldVars
    <2> QED
      BY <2>1, <2>2, <2>3, <2>4, <2>5, <2>6, Steps
  <1> QED
    BY <1>1, <1>2, PTL DEF Spec

(* Tools that set different fields of one mailbox never undo each other, for *)
(* any number of calls and any order of their retried and late deliveries.   *)
THEOREM Separate == Spec => []NoInterference
  <1>1. Authored => NoInterference
    BY DEF Authored, NoInterference
  <1> QED
    BY <1>1, AuthoredAlways, PTL

(* A mailbox is known by its fields. *)
LEMMA SameFields ==
    ASSUME NEW m \in Mailboxes, NEW n \in Mailboxes, \A f \in Fields : m[f] = n[f]
    PROVE  m = n
  <1>1. /\ m.type = n.type /\ m.hidden = n.hidden /\ m.hold = n.hold
        /\ m.fwd = n.fwd /\ m.smtp = n.smtp /\ m.copy = n.copy
        /\ m.state = n.state /\ m.message = n.message /\ m.window = n.window
    BY DEF Fields
  <1> QED
    BY <1>1 DEF Mailboxes

(* Retries, late deliveries and calls repeated with their arguments leave    *)
(* the mailbox as it is: the annotation idempotentHint=True is earned.       *)
THEOREM Idempotent == Spec => RepeatsChangeNothing
  <1>1. Typed /\ Authored => \A c \in Calls : TakeEffect(c) /\ AsksNothingNew(c) => Newest' = Newest
    <2> SUFFICES ASSUME Typed, Authored, NEW c \in Calls, TakeEffect(c), AsksNothingNew(c)
                 PROVE  Newest' = Newest
      OBVIOUS
    <2>1. /\ Newest \in Mailboxes /\ Newest # Absent /\ Tool(c) \in Writers
          /\ Newest' = Written(Newest, Parameters(request[c])) /\ Newest' \in Mailboxes
      BY EffectIsStore, MailboxSettingsAssumption
    <2>2. DOMAIN Parameters(request[c]) = Named(request[c]) /\ Named(request[c]) \subseteq Fields
      BY <2>1, NamedAreSet DEF Tool
    <2>3. ASSUME NEW f \in Named(request[c])
          PROVE  Newest[f] = Parameters(request[c])[f]
      <3>1. f \in Fields \ administered /\ \E d \in Calls : Sets(d, f)
        BY <2>2, <2>3 DEF AsksNothingNew
      <3>2. PICK d \in Calls : Sets(d, f) /\ Newest[f] = Parameters(request[d])[f]
        BY <2>1, <3>1 DEF Authored
      <3> QED
        BY <2>3, <3>2 DEF AsksNothingNew
    <2>4. \A f \in Fields : Newest'[f] = Newest[f]
      BY <2>1, <2>2, <2>3 DEF Written
    <2> QED
      BY <2>1, <2>4, SameFields
  <1> QED
    BY <1>1, AuthoredAlways, PTL DEF RepeatsChangeNothing
-----------------------------------------------------------------------------
(* The deliveries of a write that was sent are open or have taken effect:    *)
(* none is ever given up.                                                    *)
Conserved(c) ==
    /\ pending[c] + hits[c] \in {0, MaxRetries + 1}
    /\ pc[c] \in {"write", "confirm"} => WasSent(c)

WriteFrame(c) == <<pc[c], reply[c], pending[c], hits[c]>>

LEMMA ConservedStep ==
    ASSUME Typed, NEW c \in Calls, Conserved(c), [Next]_vars
    PROVE  Conserved(c)'
  <1> USE MailboxSettingsAssumption DEF Conserved, WasSent
  <1>0. hits[c] \in Nat /\ pending[c] \in Nat
    BY DEF Typed, CountTypes
  <1>1. ASSUME UNCHANGED WriteFrame(c) PROVE Conserved(c)'
    BY <1>1 DEF WriteFrame
  <1>2. ASSUME NEW d \in Calls, Call(d) PROVE Conserved(c)'
    <2>1. CASE d # c
      <3>1. pending'[c] = pending[c]
        BY <1>2, <2>1, CallFrame DEF Typed, CountTypes, Send
      <3> QED
        BY <1>1, <1>2, <2>1, <3>1, CallFrame DEF Typed, WriteFrame
    <2>2. CASE d = c /\ Send(c)
      <3>1. /\ pc[c] = "send" /\ pc'[c] = "write" /\ pending'[c] = MaxRetries + 1
            /\ hits' = hits /\ hits[c] = 0
        BY <2>2 DEF Typed, CountTypes, CallTypes, Counted, Send, Go
      <3> QED
        BY <1>0, <3>1
    <2>3. CASE d = c /\ ~Send(c)
      <3>1. pending' = pending /\ hits' = hits
        BY <1>2, <2>3, CallFrame DEF Typed
      <3>2. pc'[c] \in {"write", "confirm"} => pc[c] = "write"
        BY <1>2, <2>3
        DEF Call, Start, RefuseArguments, ReadMailbox, ReadFindsNone, ReadFails, Measure, WriteSucceeds,
            NotFound, WriteFails, Confirm, ConfirmFails, Go, Return, Typed, CallTypes
      <3> QED
        BY <3>1, <3>2
    <2> QED
      BY <2>1, <2>2, <2>3
  <1>3. ASSUME NEW d \in Calls, TakeEffect(d) PROVE Conserved(c)'
    <2>1. /\ pc' = pc
          /\ pending'[c] = IF c = d THEN pending[c] - 1 ELSE pending[c]
          /\ hits'[c] = IF c = d THEN hits[c] + 1 ELSE hits[c]
      BY <1>3 DEF TakeEffect, callVars, Typed, CountTypes
    <2> QED
      BY <1>0, <2>1
  <1>4. CASE ForwardOutside \/ Hold \/ Delete \/ Grow \/ Replicate \/ UNCHANGED vars
    BY <1>1, <1>4
    DEF ForwardOutside, Hold, Delete, Administer, Grow, Replicate, vars, callVars, wireVars, WriteFrame
  <1> QED
    BY <1>2, <1>3, <1>4, Steps

(* Every write keeps to the contract Transport is proved to fulfil, for any  *)
(* number of calls around it: sent once, at most one effect per delivery,    *)
(* one verdict, and a success only after an effect.                          *)
THEOREM WritesAreCmdlets ==
    ASSUME NEW c \in Calls
    PROVE  Spec => Write(c)!Spec
  <1> DEFINE I == Typed /\ Conserved(c)
  <1>1. Init => I /\ Write(c)!Init
    <2> SUFFICES ASSUME Init PROVE Conserved(c) /\ Write(c)!Init
      BY TypedInit
    <2>1. pending[c] = 0 /\ hits[c] = 0 /\ pc[c] = "idle"
      BY DEF Init
    <2>2. ~WasSent(c) /\ Conserved(c)
      BY <2>1 DEF WasSent, Conserved
    <2>3. {a \in 0..MaxRetries : a < hits[c]} = {}
      BY <2>1, MailboxSettingsAssumption
    <2> QED
      BY <2>2, <2>3 DEF WriteOutcome, Write!Init, Write!Invokes
  <1>2. I /\ [Next]_vars => [Write(c)!Next]_(Write(c)!vars)
    <2> SUFFICES ASSUME I, [Next]_vars PROVE [Write(c)!Next]_(Write(c)!vars)
      OBVIOUS
    <2>0. hits[c] \in Nat /\ pending[c] \in Nat /\ MaxRetries \in Nat
      BY MailboxSettingsAssumption DEF Typed, CountTypes
    <2>1. ASSUME UNCHANGED WriteFrame(c) PROVE UNCHANGED Write(c)!vars
      BY <2>1 DEF WriteFrame, Write!vars, WasSent, WriteOutcome, Accepted
    <2>2. ASSUME Call(c) PROVE [Write(c)!Next]_(Write(c)!vars)
      <3>1. CASE Send(c)
        <4>1. /\ pc[c] = "send" /\ pc'[c] = "write" /\ pending'[c] = MaxRetries + 1
              /\ hits'[c] = 0 /\ hits[c] = 0 /\ pending[c] = 0
          BY <3>1 DEF Typed, CallTypes, CountTypes, Counted, Send, Go
        <4>2. ~WasSent(c) /\ WasSent(c)'
          BY <2>0, <4>1 DEF WasSent
        <4>3. Write(c)!Issue
          BY <4>1, <4>2 DEF WriteOutcome, Write!Issue
        <4> QED
          BY <4>3 DEF Write!Next
      <3>2. CASE WriteSucceeds(c) \/ NotFound(c) \/ WriteFails(c)
        <4>1. /\ UNCHANGED <<pending, hits>> /\ pc[c] = "write"
              /\ \/ hits[c] > 0 /\ (pc'[c] = "confirm" \/ (pc'[c] = "done" /\ reply'[c] = "unverified"))
                 \/ pc'[c] = "done" /\ reply'[c] \in {"cannot_forward", "not_found", "error"}
          <5>1. CASE WriteSucceeds(c)
            <6>1. \/ pc'[c] = "confirm"
                  \/ pc'[c] = "done" /\ reply'[c] = "unverified"
              BY <5>1 DEF WriteSucceeds, Go, Return, Typed, CallTypes
            <6>2. pc[c] = "write" /\ hits[c] > 0 /\ UNCHANGED wireVars
              BY <5>1 DEF WriteSucceeds
            <6> QED
              BY <6>1, <6>2 DEF wireVars
          <5>2. CASE NotFound(c) \/ WriteFails(c)
            BY <5>2 DEF NotFound, WriteFails, Return, wireVars, Typed, CallTypes
          <5> QED
            BY <3>2, <5>1, <5>2
        <4>2. WasSent(c) /\ WasSent(c)'
          BY <4>1 DEF Conserved, WasSent
        <4>3. \/ hits[c] > 0 /\ WriteOutcome(c)' = "success"
              \/ WriteOutcome(c)' = "failure"
          BY <4>1, <4>2 DEF WriteOutcome, Accepted
        <4>4. hits[c] > 0 => <<1, 0>> \in {1} \X {a \in 0..MaxRetries : a < hits[c]}
          BY <2>0
        <4>5. WriteOutcome(c) = "pending"
          BY <4>1 DEF WriteOutcome
        <4>6. Write(c)!Conclude
          <5>1. ASSUME NEW v PROVE [[i \in 1..1 |-> WriteOutcome(c)] EXCEPT ![1] = v] = [i \in 1..1 |-> v]
            OBVIOUS
          <5>2. \E v \in {"success", "failure"} :
                    WriteOutcome(c)' = v /\ (v = "success" => hits[c] > 0)
            BY <4>3
          <5>3. UNCHANGED <<IF WasSent(c) THEN 1 ELSE 0, {1} \X {a \in 0..MaxRetries : a < hits[c]}>>
            BY <4>1, <4>2
          <5> QED
            BY <2>0, <4>2, <4>4, <4>5, <5>1, <5>2, <5>3 DEF Write!Conclude, Write!Attempts
        <4> QED
          BY <4>6 DEF Write!Next
      <3>3. CASE Confirm(c) \/ ConfirmFails(c)
        <4>1. /\ UNCHANGED <<pending, hits>> /\ pc[c] = "confirm"
              /\ pc'[c] = "done" /\ reply'[c] \in {"confirmed", "unverified"}
          BY <3>3 DEF Confirm, ConfirmFails, Return, wireVars, Typed, CallTypes
        <4>2. (WasSent(c)' <=> WasSent(c)) /\ WriteOutcome(c)' = WriteOutcome(c)
          BY <4>1 DEF WasSent, WriteOutcome, Accepted
        <4> QED
          BY <4>1, <4>2 DEF Write!vars
      <3>4. CASE \/ Start(c) \/ RefuseArguments(c) \/ ReadMailbox(c) \/ ReadFindsNone(c)
                 \/ ReadFails(c) \/ Measure(c)
        <4>1. UNCHANGED <<pending, hits>> /\ pc[c] \in {"idle", "read", "measure"}
          BY <3>4
          DEF Start, RefuseArguments, ReadMailbox, ReadFindsNone, ReadFails, Measure, wireVars
        <4>2. ~WasSent(c) /\ ~WasSent(c)'
          BY <4>1 DEF Typed, Counted, WasSent
        <4>3. WriteOutcome(c)' = WriteOutcome(c)
          BY <4>2 DEF WriteOutcome
        <4> QED
          BY <4>1, <4>2, <4>3 DEF Write!vars
      <3> QED
        BY <2>2, <3>1, <3>2, <3>3, <3>4 DEF Call
    <2>3. ASSUME NEW d \in Calls \ {c}, Call(d) PROVE UNCHANGED WriteFrame(c)
      <3>1. pending'[c] = pending[c]
        BY <2>3, CallFrame DEF Typed, CountTypes, Send
      <3> QED
        BY <2>3, <3>1, CallFrame DEF Typed, WriteFrame
    <2>4. ASSUME TakeEffect(c) PROVE Write(c)!TakeEffect
      <3>1. /\ UNCHANGED <<pc, reply>> /\ pending[c] > 0
            /\ pending'[c] = pending[c] - 1 /\ hits'[c] = hits[c] + 1
        BY <2>4 DEF TakeEffect, callVars, Typed, CountTypes
      <3>2. WasSent(c) /\ WasSent(c)' /\ hits[c] \in 0..MaxRetries
        BY <2>0, <3>1 DEF Conserved, WasSent
      <3>3. WriteOutcome(c)' = WriteOutcome(c)
        BY <3>1, <3>2 DEF WriteOutcome, Accepted
      <3>4. /\ <<1, hits[c]>> \notin {1} \X {a \in 0..MaxRetries : a < hits[c]}
            /\ {1} \X {a \in 0..MaxRetries : a < hits'[c]}
                   = ({1} \X {a \in 0..MaxRetries : a < hits[c]}) \union {<<1, hits[c]>>}
        BY <2>0, <3>1, <3>2
      <3> QED
        BY <3>2, <3>3, <3>4 DEF Write!TakeEffect, Write!Attempts
    <2>5. ASSUME NEW d \in Calls \ {c}, TakeEffect(d) PROVE UNCHANGED WriteFrame(c)
      BY <2>5 DEF TakeEffect, callVars, WriteFrame, Typed, CountTypes
    <2>6. CASE ForwardOutside \/ Hold \/ Delete \/ Grow \/ Replicate \/ UNCHANGED vars
      BY <2>1, <2>6
      DEF ForwardOutside, Hold, Delete, Administer, Grow, Replicate, vars, callVars, wireVars, WriteFrame
    <2> QED
      BY <2>1, <2>2, <2>3, <2>4, <2>5, <2>6, Steps DEF Write!Next
  <1>3. I /\ [Next]_vars => I'
    BY TypedStep, ConservedStep
  <1> QED
    BY <1>1, <1>2, <1>3, PTL DEF Spec, Write!Spec
=============================================================================
