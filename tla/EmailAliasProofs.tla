-------------------------- MODULE EmailAliasProofs --------------------------
(***************************************************************************)
(* Theorems about EmailAlias for any number of calls, addresses, servers and *)
(* retries.  Without any discipline of the callers: nobody's address is      *)
(* taken, reports are true, and an address is lost only to a stale list.     *)
(* With callers that wait and writes that are not late (Disciplined and not  *)
(* LateDelivery): no address is lost at all, and the module implements       *)
(* AddressBook.                                                              *)
(***************************************************************************)
EXTENDS EmailAlias, TLAPS

(* Types in three parts. *)
DirTypes ==
    /\ log \in Seq(Mailboxes) /\ Len(log) > 0
    /\ at \in [Servers -> 1..Len(log)]

CallTypes ==
    /\ pc \in [Calls -> {"idle", "read", "check", "write", "confirm", "done"}]
    /\ home \in [Calls -> Servers]
    /\ base \in [Calls -> Mailboxes]
    /\ results \in [Calls -> Seq(Results)]
    /\ toAdd \in [Calls -> SUBSET Addresses]
    /\ reply \in [Calls -> Replies]
    /\ removed \subseteq Addresses

CountTypes ==
    /\ pending \in [Calls -> Nat]
    /\ hits \in [Calls -> Nat]
    /\ adminLeft \in 0..MaxAdmin

(* A call's deliveries are counted, and there are none before its write. *)
Counted ==
    \A c \in Calls :
        /\ hits[c] + pending[c] <= MaxRetries + 1
        /\ pc[c] \in {"idle", "read", "check"} => hits[c] = 0 /\ pending[c] = 0

Typed == DirTypes /\ CallTypes /\ CountTypes /\ Counted

LEMMA TypesFit == Typed => TypeOK
  <1> SUFFICES ASSUME Typed PROVE TypeOK
    OBVIOUS
  <1>1. \A c \in Calls : pending[c] \in 0..(MaxRetries + 1) /\ hits[c] \in 0..(MaxRetries + 1)
    BY EmailAliasAssumption DEF Typed, CountTypes, Counted
  <1>2. /\ pending \in [Calls -> 0..(MaxRetries + 1)]
        /\ hits \in [Calls -> 0..(MaxRetries + 1)]
    BY <1>1 DEF Typed, CountTypes
  <1> QED
    BY <1>2 DEF Typed, DirTypes, CallTypes, CountTypes, TypeOK

LEMMA TypedInit == Init => Typed
  <1> SUFFICES ASSUME Init PROVE Typed
    OBVIOUS
  <1>1. PICK m \in Mailboxes : log = <<m>>
    BY DEF Init, DirectoryInit
  <1>2. log \in Seq(Mailboxes) /\ Len(log) = 1 /\ Newest = m
    BY <1>1 DEF Newest
  <1>3. DirTypes
    BY <1>2 DEF Init, DirectoryInit, DirTypes
  <1>4. CallTypes
    BY <1>2 DEF Init, CallTypes, Replies
  <1>5. CountTypes /\ Counted
    BY EmailAliasAssumption DEF Init, CountTypes, Counted
  <1> QED
    BY <1>3, <1>4, <1>5 DEF Typed

LEMMA StoreTypes ==
    ASSUME DirTypes, NEW s \in Servers, NEW v \in Mailboxes, Store(s, v)
    PROVE  /\ DirTypes'
           /\ Len(log') = Len(log) + 1 /\ Len(log) \in Nat
           /\ log'[Len(log) + 1] = v /\ Newest' = v
           /\ \A i \in 1..Len(log) : log'[i] = log[i]
  <1>1. log \in Seq(Mailboxes) /\ Len(log) \in Nat /\ at \in [Servers -> 1..Len(log)]
    BY DEF DirTypes
  <1>2. /\ log' \in Seq(Mailboxes) /\ Len(log') = Len(log) + 1
        /\ log'[Len(log) + 1] = v /\ \A i \in 1..Len(log) : log'[i] = log[i]
    BY <1>1 DEF Store
  <1>3. at' \in [Servers -> 1..Len(log')]
    BY <1>1, <1>2 DEF Store
  <1> QED
    BY <1>1, <1>2, <1>3 DEF DirTypes, Newest

LEMMA ShownIsState ==
    ASSUME DirTypes, NEW s \in Servers
    PROVE  Shown(s) \in Mailboxes /\ Shown(s) \in States
  BY DEF DirTypes, Shown, States

LEMMA NewestIsState == DirTypes => Newest \in Mailboxes /\ Newest \in States
  BY DEF DirTypes, Newest, States

LEMMA MergedIsMailbox ==
    ASSUME CallTypes, NEW c \in Calls
    PROVE  /\ MergedList(c) \in Mailboxes
           /\ Held(MergedList(c)) = Held(base[c]) \union toAdd[c]
  BY DEF CallTypes, MergedList, Mailboxes, Held

LEMMA ElementIsIn ==
    ASSUME NEW S, NEW s \in Seq(S), NEW i \in 1..Len(s)
    PROVE  s[i] \in S
  OBVIOUS

LEMMA WishTypes ==
    ASSUME CallTypes, NEW c \in Calls, Checking(c)
    PROVE  Wish(c).address \in Addresses /\ Wish(c) = Wishes[c][Len(results[c]) + 1]
  <1>1. Wishes[c] \in Seq([form : Forms, address : Addresses]) /\ results[c] \in Seq(Results)
    BY EmailAliasAssumption DEF CallTypes
  <1>2. Len(results[c]) + 1 \in 1..Len(Wishes[c])
    BY <1>1 DEF Checking
  <1>3. Wishes[c][Len(results[c]) + 1] \in [form : Forms, address : Addresses]
    BY <1>1, <1>2, ElementIsIn
  <1>4. Wish(c) = Wishes[c][Len(results[c]) + 1]
    BY DEF Wish
  <1>5. Wish(c) \in [form : Forms, address : Addresses]
    BY <1>3, <1>4
  <1> QED
    BY <1>4, <1>5

(* What the administrator may make of a mailbox. *)
LEMMA PromotedIsMailbox ==
    ASSUME NEW m \in Mailboxes, NEW a \in m.aliases
    PROVE  LET p == [primary |-> a, aliases |-> (m.aliases \ {a}) \union {m.primary}] IN
           p \in Mailboxes /\ Held(p) = Held(m)
  BY DEF Mailboxes, Held

LEMMA RemovedIsMailbox ==
    ASSUME NEW m \in Mailboxes, NEW a \in m.aliases
    PROVE  LET r == [m EXCEPT !.aliases = @ \ {a}] IN
           r \in Mailboxes /\ Held(r) \subseteq Held(m) /\ Held(m) \subseteq Held(r) \union {a}
  BY DEF Mailboxes, Held
-----------------------------------------------------------------------------
(* A step of a call before its write, or of its read-back, leaves the wire alone. *)
LEMMA CountedStep ==
    ASSUME Typed, Next
    PROVE  CountTypes' /\ Counted'
  <1> USE DEF Typed
  <1>0. MaxRetries \in Nat /\ MaxAdmin \in Nat
    BY EmailAliasAssumption
  <1> DEFINE Good == CountTypes' /\ Counted'
  <1>1. ASSUME NEW c \in Calls, SendWrite(c) PROVE Good
    <2>1. /\ pending' = [pending EXCEPT ![c] = MaxRetries + 1] /\ pc' = [pc EXCEPT ![c] = "write"]
          /\ UNCHANGED <<hits, adminLeft>> /\ pc[c] = "check"
      BY <1>1 DEF SendWrite, Checked
    <2>2. CountTypes'
      BY <1>0, <2>1 DEF CountTypes
    <2>3. hits[c] = 0 /\ pending'[c] = MaxRetries + 1 /\ \A d \in Calls \ {c} : pending'[d] = pending[d] /\ pc'[d] = pc[d]
      BY <2>1 DEF CountTypes, CallTypes, Counted
    <2> QED
      BY <1>0, <2>1, <2>2, <2>3 DEF Counted, CallTypes
  <1>2. ASSUME NEW c \in Calls, WriteSucceeds(c) \/ WriteFails(c) PROVE Good
    <2>1. /\ UNCHANGED <<hits, adminLeft>> /\ pc[c] = "write"
          /\ pc' \in {[pc EXCEPT ![c] = "done"], [pc EXCEPT ![c] = "confirm"]}
      BY <1>2 DEF WriteSucceeds, WriteFails, Return
    <2>2. pending' = [pending EXCEPT ![c] = 0] \/ pending' = pending
      BY <1>2 DEF WriteSucceeds, WriteFails, StopWaiting
    <2>3. CountTypes' /\ \A d \in Calls : pending'[d] <= pending[d]
      BY <1>0, <2>1, <2>2 DEF CountTypes
    <2>4. \A d \in Calls : pc'[d] \in {"idle", "read", "check"} => pc[d] \in {"idle", "read", "check"} /\ d # c
      BY <2>1 DEF CallTypes
    <2>5. \A d \in Calls \ {c} : pending'[d] = pending[d]
      BY <2>2 DEF CountTypes
    <2> QED
      BY <1>0, <2>1, <2>3, <2>4, <2>5 DEF CountTypes, Counted
  <1>3. ASSUME NEW c \in Calls,
               \/ Start(c) \/ RefuseEmpty(c) \/ ReadMailbox(c) \/ ReadFails(c) \/ SkipAtOnce(c)
               \/ FoundElsewhere(c) \/ FoundHere(c) \/ FoundNowhere(c) \/ LookupFails(c)
               \/ NothingToAdd(c) \/ Confirm(c)
        PROVE Good
    <2>1. UNCHANGED <<pending, hits, adminLeft>>
      BY <1>3 DEF Start, RefuseEmpty, ReadMailbox, ReadFails, SkipAtOnce, FoundElsewhere, FoundHere,
                  FoundNowhere, LookupFails, NothingToAdd, Confirm, Skip, Want, wireVars
    <2>2. \/ pc' = pc
          \/ pc[c] = "idle" /\ pc' = [pc EXCEPT ![c] = "read"]
          \/ pc[c] = "read" /\ pc' = [pc EXCEPT ![c] = "check"]
          \/ pc' = [pc EXCEPT ![c] = "done"]
      BY <1>3 DEF Start, RefuseEmpty, ReadMailbox, ReadFails, SkipAtOnce, FoundElsewhere, FoundHere,
                  FoundNowhere, LookupFails, NothingToAdd, Confirm, Skip, Want, Return
    <2> QED
      BY <2>1, <2>2 DEF CountTypes, Counted, CallTypes
  <1>4. ASSUME NEW c \in Calls, TakeEffect(c) PROVE Good
    <2>1. /\ pending[c] > 0 /\ pending' = [pending EXCEPT ![c] = @ - 1] /\ UNCHANGED <<pc, adminLeft>>
          /\ hits' = [hits EXCEPT ![c] = @ + 1]
      BY <1>4 DEF TakeEffect, callVars
    <2>2. CountTypes'
      BY <2>1 DEF CountTypes
    <2> QED
      BY <1>0, <2>1, <2>2 DEF CountTypes, Counted
  <1>5. CASE Promote \/ Remove
    <2>1. adminLeft > 0 /\ adminLeft' = adminLeft - 1 /\ UNCHANGED <<pc, pending, hits>>
      BY <1>5 DEF Promote, Remove, Administer, callVars, wireVars
    <2> QED
      BY <1>0, <2>1 DEF CountTypes, Counted
  <1>6. CASE Replicate \/ Done
    BY <1>6 DEF Replicate, Done, vars, callVars, wireVars, CountTypes, Counted
  <1> QED
    BY <1>1, <1>2, <1>3, <1>4, <1>5, <1>6 DEF Next, Call

LEMMA CallTypesStep ==
    ASSUME Typed, Next
    PROVE  CallTypes'
  <1> USE DEF Typed
  <1>1. ASSUME NEW c \in Calls, Start(c) \/ RefuseEmpty(c) \/ ReadFails(c) \/ NothingToAdd(c) \/ SendWrite(c)
        PROVE CallTypes'
    BY <1>1 DEF Start, RefuseEmpty, ReadFails, NothingToAdd, SendWrite, Return, CallTypes, Replies
  <1>2. ASSUME NEW c \in Calls, WriteSucceeds(c) \/ WriteFails(c) \/ Confirm(c) PROVE CallTypes'
    BY <1>2 DEF WriteSucceeds, WriteFails, Confirm, Return, CallTypes, Replies
  <1>3. ASSUME NEW c \in Calls, ReadMailbox(c) PROVE CallTypes'
    BY <1>3, ShownIsState DEF ReadMailbox, CallTypes
  <1>4. ASSUME NEW c \in Calls, NEW r \in Results, Record(c, r)
        PROVE  results' \in [Calls -> Seq(Results)]
    <2>1. Append(results[c], r) \in Seq(Results)
      BY DEF CallTypes
    <2> QED
      BY <1>4, <2>1 DEF Record, CallTypes
  <1>5. ASSUME NEW c \in Calls, SkipAtOnce(c) \/ FoundElsewhere(c) \/ FoundHere(c) \/ LookupFails(c)
        PROVE CallTypes'
    <2>1. PICK r \in Results : Skip(c, r)
      BY <1>5 DEF SkipAtOnce, FoundElsewhere, FoundHere, LookupFails, Results
    <2> QED
      BY <1>4, <2>1 DEF Skip, CallTypes
  <1>6. ASSUME NEW c \in Calls, FoundNowhere(c) PROVE CallTypes'
    <2>1. Wish(c).address \in Addresses
      BY <1>6, WishTypes DEF FoundNowhere, Asking
    <2>2. Record(c, "added") /\ "added" \in Results
      BY <1>6 DEF FoundNowhere, Want, Results
    <2>3. toAdd' \in [Calls -> SUBSET Addresses]
      BY <1>6, <2>1 DEF FoundNowhere, Want, CallTypes
    <2> QED
      BY <1>4, <1>6, <2>2, <2>3 DEF FoundNowhere, Want, CallTypes
  <1>7. ASSUME NEW c \in Calls, TakeEffect(c) PROVE CallTypes'
    BY <1>7 DEF TakeEffect, callVars, CallTypes
  <1>8. CASE Promote
    BY <1>8 DEF Promote, Administer, callVars, CallTypes
  <1>9. CASE Remove
    BY <1>9, NewestIsState DEF Remove, Administer, callVars, CallTypes, Mailboxes
  <1>10. CASE Replicate \/ Done
    BY <1>10 DEF Replicate, Done, vars, callVars, CallTypes
  <1> QED
    BY <1>1, <1>2, <1>3, <1>5, <1>6, <1>7, <1>8, <1>9, <1>10 DEF Next, Call

(* How the directory may change. *)
LEMMA DirectorySteps ==
    ASSUME Typed, Next
    PROVE  \/ \E c \in Calls : TakeEffect(c) /\ Store(home[c], MergedList(c))
           \/ Promote \/ Remove
           \/ \E s \in Servers : CatchUp(s) /\ Replicate
           \/ UNCHANGED <<log, at>>
  BY DEF Next, Call, Start, RefuseEmpty, ReadMailbox, ReadFails, SkipAtOnce, FoundElsewhere, FoundHere,
         FoundNowhere, LookupFails, NothingToAdd, SendWrite, WriteSucceeds, WriteFails, Confirm, Skip, Want,
         TakeEffect, Replicate, Done, vars

LEMMA DirTypesStep ==
    ASSUME Typed, Next
    PROVE  /\ DirTypes'
           /\ Len(log) <= Len(log') /\ \A i \in 1..Len(log) : log'[i] = log[i]
  <1> USE DEF Typed
  <1>1. ASSUME NEW s \in Servers, NEW v \in Mailboxes, Store(s, v)
        PROVE  DirTypes' /\ Len(log) <= Len(log') /\ \A i \in 1..Len(log) : log'[i] = log[i]
    BY <1>1, StoreTypes
  <1>2. CASE \E c \in Calls : Store(home[c], MergedList(c))
    BY <1>1, <1>2, MergedIsMailbox DEF CallTypes
  <1>3. CASE Promote
    BY <1>1, <1>3, NewestIsState, PromotedIsMailbox DEF Promote, Administer
  <1>4. CASE Remove
    BY <1>1, <1>4, NewestIsState, RemovedIsMailbox DEF Remove, Administer
  <1>5. CASE \E s \in Servers : CatchUp(s)
    BY <1>5 DEF CatchUp, DirTypes
  <1>6. CASE UNCHANGED <<log, at>>
    BY <1>6 DEF DirTypes
  <1> QED
    BY <1>2, <1>3, <1>4, <1>5, <1>6, DirectorySteps

LEMMA TypedStep == Typed /\ [Next]_vars => Typed'
  <1>1. Typed /\ UNCHANGED vars => Typed'
    BY DEF vars, callVars, wireVars, Typed, DirTypes, CallTypes, CountTypes, Counted
  <1> QED
    BY <1>1, CountedStep, CallTypesStep, DirTypesStep DEF Typed

LEMMA TypedAlways == Spec => []Typed
  BY TypedInit, TypedStep, PTL DEF Spec

(* Every variable keeps its type, and no call has more deliveries than tries. *)
THEOREM TypeCorrect == Spec => []TypeOK
  BY TypedAlways, TypesFit, PTL
-----------------------------------------------------------------------------
(* Some other call wrote a list that it had read without a in it. *)
Overwritten(c, a) == \E d \in Calls \ {c} : hits[d] > 0 /\ a \notin Held(base[d])

(* What a call has read is a state of the mailbox, what it adds is free, and *)
(* what it reports has taken effect. *)
WellRead ==
    \A c \in Calls :
        /\ base[c] \in States
        /\ toAdd[c] \cap Foreign = {}
        /\ pc[c] = "confirm" \/ Accepted(c) => hits[c] > 0
        /\ pc[c] # "done" => reply[c] = "none"

(* Once written, an address stays, but for a removal or a stale list. *)
Kept ==
    \A c \in Calls : hits[c] > 0 =>
        \A a \in toAdd[c] \ (Held(Newest) \union removed) : Overwritten(c, a)

SafeInv == Typed /\ WellRead /\ NeverTakesForeign /\ ReportsAreTrue /\ Kept

LEMMA SafeInit == Init => SafeInv
  <1> SUFFICES ASSUME Init PROVE SafeInv
    OBVIOUS
  <1>1. PICK m \in Mailboxes : log = <<m>> /\ Held(m) \cap Foreign = {}
    BY DEF Init, DirectoryInit
  <1>2. States = {m} /\ Newest = m
    BY <1>1 DEF States, Newest
  <1>3. WellRead /\ NeverTakesForeign /\ Kept
    BY <1>1, <1>2 DEF Init, WellRead, NeverTakesForeign, Kept, Accepted
  <1>4. ReportsAreTrue
    BY DEF Init, ReportsAreTrue
  <1> QED
    BY <1>3, <1>4, TypedInit DEF SafeInv

(* What no step changes, or only lets grow. *)
LEMMA Steady ==
    ASSUME Typed, Next
    PROVE  /\ States \subseteq States'
           /\ \A d \in Calls : hits[d] \in Nat /\ hits'[d] \in Nat /\ hits[d] <= hits'[d]
           /\ \A d \in Calls : hits[d] > 0 => base'[d] = base[d] /\ toAdd'[d] = toAdd[d]
           /\ removed \subseteq removed'
  <1> USE DEF Typed
  <1>1. States \subseteq States'
    <2> SUFFICES ASSUME NEW i \in 1..Len(log) PROVE log[i] \in States'
      BY DEF States
    <2>1. log'[i] = log[i] /\ i \in 1..Len(log')
      BY DirTypesStep DEF DirTypes
    <2> QED
      BY <2>1 DEF States
  <1>2. hits' = hits \/ \E c \in Calls : hits' = [hits EXCEPT ![c] = @ + 1]
    BY DEF Next, Call, Start, RefuseEmpty, ReadMailbox, ReadFails, SkipAtOnce, FoundElsewhere, FoundHere,
           FoundNowhere, LookupFails, NothingToAdd, SendWrite, WriteSucceeds, WriteFails, Confirm, Skip,
           Want, TakeEffect, Promote, Remove, Administer, Replicate, Done, vars, wireVars
  <1>3. \A d \in Calls : pc[d] \notin {"idle", "read", "check"} => base'[d] = base[d] /\ toAdd'[d] = toAdd[d]
    BY DEF Next, Call, Start, RefuseEmpty, ReadMailbox, ReadFails, SkipAtOnce, FoundElsewhere, FoundHere,
           FoundNowhere, LookupFails, NothingToAdd, SendWrite, WriteSucceeds, WriteFails, Confirm, Skip,
           Want, Asking, Checking, TakeEffect, Promote, Remove, Administer, Replicate, Done, vars,
           callVars, CallTypes
  <1>4. removed \subseteq removed'
    BY DEF Next, Call, Start, RefuseEmpty, ReadMailbox, ReadFails, SkipAtOnce, FoundElsewhere, FoundHere,
           FoundNowhere, LookupFails, NothingToAdd, SendWrite, WriteSucceeds, WriteFails, Confirm, Skip,
           Want, TakeEffect, Promote, Remove, Administer, Replicate, Done, vars
  <1>5. \A d \in Calls : hits[d] > 0 => pc[d] \notin {"idle", "read", "check"}
    BY DEF Counted, CountTypes
  <1> QED
    BY <1>1, <1>2, <1>3, <1>4, <1>5 DEF CountTypes

LEMMA OverwrittenStays ==
    ASSUME Typed, Next, NEW c \in Calls, NEW a, Overwritten(c, a)
    PROVE  Overwritten(c, a)'
  <1>1. PICK d \in Calls \ {c} : hits[d] > 0 /\ a \notin Held(base[d])
    BY DEF Overwritten
  <1>2. hits'[d] > 0 /\ base'[d] = base[d]
    BY <1>1, Steady
  <1>3. a \notin Held(base[d])'
    BY <1>1, <1>2 DEF Held
  <1> QED
    BY <1>2, <1>3 DEF Overwritten

LEMMA WellReadStep ==
    ASSUME SafeInv, Next
    PROVE  WellRead'
  <1> USE DEF SafeInv, Typed
  <1>1. \A m \in States : m \in States'
    BY Steady
  <1>2. ASSUME NEW c \in Calls, Start(c) \/ RefuseEmpty(c) \/ ReadFails(c) \/ NothingToAdd(c) \/ SendWrite(c)
        PROVE WellRead'
    <2>1. /\ UNCHANGED <<base, toAdd, hits>>
          /\ \/ pc'[c] # "confirm" /\ pc'[c] # "done" /\ UNCHANGED reply /\ pc[c] # "done"
             \/ pc'[c] = "done" /\ reply'[c] \in {"error", "nothing_added"}
          /\ \A d \in Calls \ {c} : UNCHANGED <<pc[d], reply[d]>>
      BY <1>2 DEF Start, RefuseEmpty, ReadFails, NothingToAdd, SendWrite, Checked, Return, wireVars, CallTypes
    <2> QED
      BY <1>1, <2>1 DEF WellRead, Accepted
  <1>3. ASSUME NEW c \in Calls, ReadMailbox(c) PROVE WellRead'
    <2>1. /\ Shown(home[c]) \in States /\ base' = [base EXCEPT ![c] = Shown(home[c])]
          /\ pc' = [pc EXCEPT ![c] = "check"] /\ pc[c] = "read" /\ UNCHANGED <<toAdd, hits, reply>>
      BY <1>3, ShownIsState DEF ReadMailbox, wireVars, CallTypes
    <2> QED
      BY <1>1, <2>1 DEF WellRead, Accepted, CallTypes
  <1>4. ASSUME NEW c \in Calls, SkipAtOnce(c) \/ FoundElsewhere(c) \/ FoundHere(c) \/ LookupFails(c)
        PROVE WellRead'
    BY <1>1, <1>4 DEF SkipAtOnce, FoundElsewhere, FoundHere, LookupFails, Skip, wireVars, WellRead, Accepted
  <1>5. ASSUME NEW c \in Calls, FoundNowhere(c) PROVE WellRead'
    <2>1. /\ toAdd' = [toAdd EXCEPT ![c] = @ \union {Wish(c).address}] /\ Wish(c).address \notin Foreign
          /\ UNCHANGED <<base, pc, reply, hits>>
      BY <1>5 DEF FoundNowhere, Want, Free, wireVars
    <2> QED
      BY <1>1, <2>1 DEF WellRead, Accepted, CallTypes
  <1>6. ASSUME NEW c \in Calls, WriteSucceeds(c) \/ WriteFails(c) \/ Confirm(c) PROVE WellRead'
    <2>1. /\ UNCHANGED <<base, toAdd, hits>>
          /\ \/ pc'[c] = "confirm" /\ UNCHANGED reply /\ pc[c] # "done" /\ hits[c] > 0
             \/ pc'[c] = "done" /\ reply'[c] = "error"
             \/ pc'[c] = "done" /\ pc[c] = "confirm"
          /\ \A d \in Calls \ {c} : UNCHANGED <<pc[d], reply[d]>>
      BY <1>6 DEF WriteSucceeds, WriteFails, Confirm, Return, wireVars, CallTypes
    <2> QED
      BY <1>1, <2>1 DEF WellRead, Accepted
  <1>7. ASSUME NEW c \in Calls, TakeEffect(c) PROVE WellRead'
    <2>1. UNCHANGED <<base, toAdd, pc, reply>>
      BY <1>7 DEF TakeEffect, callVars
    <2>2. \A d \in Calls : hits[d] > 0 => hits'[d] > 0
      BY Steady
    <2> QED
      BY <1>1, <2>1, <2>2 DEF WellRead, Accepted
  <1>8. CASE Promote \/ Remove \/ Replicate \/ Done
    BY <1>1, <1>8 DEF Promote, Remove, Administer, Replicate, Done, vars, callVars, wireVars, WellRead, Accepted
  <1> QED
    BY <1>2, <1>3, <1>4, <1>5, <1>6, <1>7, <1>8 DEF Next, Call

(* What a step may add to the log. *)
LEMMA NewState ==
    ASSUME Typed, Next, NEW m \in States', m \notin States
    PROVE  m = Newest' /\ (\/ \E c \in Calls : TakeEffect(c) /\ m = MergedList(c)
                           \/ Held(m) \subseteq Held(Newest))
  <1> USE DEF Typed
  <1>1. PICK i \in 1..Len(log') : m = log'[i]
    BY DEF States
  <1>2. i \notin 1..Len(log)
    BY <1>1, DirTypesStep DEF States
  <1>3. ASSUME NEW s \in Servers, NEW v \in Mailboxes, Store(s, v) PROVE m = v /\ m = Newest'
    <2>1. i = Len(log) + 1
      BY <1>2, <1>3, StoreTypes
    <2> QED
      BY <1>1, <1>3, <2>1, StoreTypes
  <1>4. CASE \E c \in Calls : TakeEffect(c)
    BY <1>3, <1>4, MergedIsMailbox DEF TakeEffect, CallTypes
  <1>5. CASE Promote
    BY <1>3, <1>5, NewestIsState, PromotedIsMailbox DEF Promote, Administer
  <1>6. CASE Remove
    BY <1>3, <1>6, NewestIsState, RemovedIsMailbox DEF Remove, Administer
  <1>7. CASE log' = log
    BY <1>1, <1>2, <1>7
  <1> QED
    BY <1>4, <1>5, <1>6, <1>7, DirectorySteps DEF CatchUp

LEMMA ForeignStep ==
    ASSUME SafeInv, Next
    PROVE  NeverTakesForeign'
  <1> SUFFICES ASSUME NEW m \in States' PROVE Held(m) \cap Foreign = {}
    BY DEF NeverTakesForeign, Held
  <1>1. CASE m \in States
    BY <1>1 DEF SafeInv, NeverTakesForeign
  <1>2. ASSUME NEW c \in Calls, m = MergedList(c) PROVE Held(m) \cap Foreign = {}
    BY <1>2, MergedIsMailbox DEF SafeInv, Typed, WellRead, NeverTakesForeign
  <1>3. CASE Held(m) \subseteq Held(Newest)
    BY <1>3, NewestIsState DEF SafeInv, Typed, NeverTakesForeign
  <1> QED
    BY <1>1, <1>2, <1>3, NewState DEF SafeInv

LEMMA KeptStep ==
    ASSUME SafeInv, Next
    PROVE  Kept'
  <1> USE DEF SafeInv, Typed
  <1> SUFFICES ASSUME NEW c \in Calls, hits'[c] > 0, NEW a \in toAdd'[c], a \notin Held(Newest)', a \notin removed'
               PROVE  Overwritten(c, a)'
    BY DEF Kept
  <1>1. ASSUME NEW d \in Calls, TakeEffect(d) PROVE Overwritten(c, a)'
    <2>1. /\ Newest' = MergedList(d) /\ UNCHANGED <<base, toAdd>> /\ hits'[d] > 0
      BY <1>1, MergedIsMailbox, StoreTypes DEF TakeEffect, callVars, CallTypes, CountTypes
    <2>2. a \notin Held(base[d]) /\ a \notin toAdd[d]
      BY <2>1, MergedIsMailbox DEF Held
    <2>3. d # c
      BY <2>1, <2>2
    <2> QED
      BY <2>1, <2>2, <2>3 DEF Overwritten, Held
  <1>2. ASSUME hits' = hits, a \notin Held(Newest) PROVE Overwritten(c, a)'
    <2>1. hits[c] > 0 /\ a \in toAdd[c] /\ a \notin removed
      BY <1>2, Steady
    <2> QED
      BY <1>2, <2>1, OverwrittenStays DEF Kept
  <1>3. CASE Promote
    BY <1>2, <1>3, NewestIsState, PromotedIsMailbox, StoreTypes DEF Promote, Administer, wireVars, Held
  <1>4. CASE Remove
    <2>1. PICK b \in Newest.aliases, s \in Servers :
            Store(s, [Newest EXCEPT !.aliases = @ \ {b}]) /\ removed' = removed \union {b} /\ hits' = hits
      BY <1>4 DEF Remove, Administer, wireVars
    <2>2. Newest' = [Newest EXCEPT !.aliases = @ \ {b}]
      BY <2>1, NewestIsState, RemovedIsMailbox, StoreTypes
    <2>3. Held(Newest) \subseteq Held(Newest)' \union {b}
      BY <2>2, NewestIsState, RemovedIsMailbox DEF Held
    <2> QED
      BY <1>2, <2>1, <2>3
  <1>5. CASE log' = log /\ ~(\E d \in Calls : TakeEffect(d))
    <2>1. hits' = hits
      BY <1>5 DEF Next, Call, Start, RefuseEmpty, ReadMailbox, ReadFails, SkipAtOnce, FoundElsewhere,
         FoundHere, FoundNowhere, LookupFails, NothingToAdd, SendWrite, WriteSucceeds, WriteFails, Confirm,
         Skip, Want, Promote, Remove, Administer, Replicate, Done, vars, wireVars
    <2> QED
      BY <1>2, <1>5, <2>1 DEF Newest, Held
  <1> QED
    BY <1>1, <1>3, <1>4, <1>5, DirectorySteps DEF CatchUp

LEMMA ReportsStep ==
    ASSUME SafeInv, Next
    PROVE  ReportsAreTrue'
  <1> USE DEF SafeInv, Typed
  <1>s. \A m \in States : m \in States'
    BY Steady
  <1> DEFINE True(a, r) ==
        /\ r = "already_present" => \E m \in States : a \in Held(m)
        /\ r = "in_use_by_other" => a \in Foreign
      Now(a, r) ==
        /\ r = "already_present" => \E m \in States' : a \in Held(m)
        /\ r = "in_use_by_other" => a \in Foreign
  <1>t. \A a, r : True(a, r) => Now(a, r)
    BY <1>s
  <1>o. \A c \in Calls : \A i \in 1..Len(results[c]) : True(Wishes[c][i].address, results[c][i])
    BY DEF ReportsAreTrue
  <1>1. \A c \in Calls : \A i \in 1..Len(results'[c]) : Now(Wishes[c][i].address, results'[c][i])
    <2>1. ASSUME NEW c \in Calls, NEW r, Record(c, r), Now(Wish(c).address, r)
          PROVE  \A d \in Calls : \A i \in 1..Len(results'[d]) : Now(Wishes[d][i].address, results'[d][i])
      <3>1. results[c] \in Seq(Results) /\ results' = [results EXCEPT ![c] = Append(results[c], r)]
        BY <2>1 DEF Record, CallTypes
      <3>2. /\ Len(results'[c]) = Len(results[c]) + 1 /\ Len(results[c]) \in Nat
            /\ results'[c][Len(results[c]) + 1] = r
            /\ \A i \in 1..Len(results[c]) : results'[c][i] = results[c][i]
        BY <3>1 DEF CallTypes
      <3>3. \A d \in Calls \ {c} : results'[d] = results[d]
        BY <3>1 DEF CallTypes
      <3>4. Now(Wishes[c][Len(results[c]) + 1].address, r)
        BY <2>1 DEF Wish
      <3> HIDE DEF True, Now
      <3> QED
        BY <1>o, <1>t, <3>2, <3>3, <3>4
    <2>2. ASSUME NEW c \in Calls, SkipAtOnce(c)
          PROVE  \E r : Record(c, r) /\ Now(Wish(c).address, r)
      <3>1. CASE Wish(c).form # "alias"
        BY <2>2, <3>1 DEF SkipAtOnce, Skip
      <3>2. CASE Wish(c).form = "alias"
        BY <1>s, <2>2, <3>2 DEF SkipAtOnce, Skip, WellRead
      <3> QED
        BY <3>1, <3>2
    <2>3. ASSUME NEW c \in Calls, FoundElsewhere(c) \/ LookupFails(c) \/ FoundNowhere(c)
          PROVE  \E r : Record(c, r) /\ Now(Wish(c).address, r)
      BY <2>3 DEF FoundElsewhere, LookupFails, FoundNowhere, Skip, Want
    <2>4. ASSUME NEW c \in Calls, FoundHere(c)
          PROVE  \E r : Record(c, r) /\ Now(Wish(c).address, r)
      <3>1. Shown(home[c]) \in States'
        BY <1>s, ShownIsState DEF CallTypes
      <3>2. Record(c, "already_present") /\ Wish(c).address \in Held(Shown(home[c]))
        BY <2>4 DEF FoundHere, Skip
      <3>3. Now(Wish(c).address, "already_present")
        BY <3>1, <3>2
      <3> QED
        BY <3>2, <3>3
    <2>5. CASE results' = results
      BY <1>o, <1>t, <2>5
    <2> HIDE DEF True, Now
    <2> QED
      BY <2>1, <2>2, <2>3, <2>4, <2>5 DEF Next, Call, Start, RefuseEmpty, ReadMailbox, ReadFails,
         NothingToAdd, SendWrite, WriteSucceeds, WriteFails, Confirm, TakeEffect, Promote, Remove,
         Administer, Replicate, Done, vars, callVars
  <1>2. ASSUME NEW c \in Calls, reply'[c] = "verified" PROVE \E m \in States' : toAdd'[c] \subseteq Held(m)
    <2>1. CASE Confirm(c)
      BY <1>s, <1>2, <2>1, ShownIsState DEF Confirm, Return, Verified, CallTypes
    <2>2. CASE ~Confirm(c)
      <3>1. reply[c] = "verified"
        BY <1>2, <2>2 DEF Next, Call, Start, RefuseEmpty, ReadMailbox, ReadFails, SkipAtOnce, FoundElsewhere,
           FoundHere, FoundNowhere, LookupFails, NothingToAdd, SendWrite, WriteSucceeds, WriteFails, Confirm,
           Skip, Want, Return, TakeEffect, Promote, Remove, Administer, Replicate, Done, vars, callVars,
           CallTypes
      <3>2. hits[c] > 0
        BY <3>1 DEF WellRead, Accepted
      <3>3. toAdd'[c] = toAdd[c]
        BY <3>2, Steady
      <3> QED
        BY <1>s, <3>1, <3>3 DEF ReportsAreTrue
    <2> QED
      BY <2>1, <2>2
  <1> QED
    BY <1>1, <1>2 DEF ReportsAreTrue, Held

LEMMA SafeStep == SafeInv /\ [Next]_vars => SafeInv'
  <1>1. SafeInv /\ Next => SafeInv'
    BY TypedStep, WellReadStep, ForeignStep, ReportsStep, KeptStep DEF SafeInv
  <1>2. SafeInv /\ UNCHANGED vars => SafeInv'
    <2> SUFFICES ASSUME SafeInv, UNCHANGED vars PROVE SafeInv'
      OBVIOUS
    <2> USE DEF SafeInv
    <2>1. Typed' /\ UNCHANGED <<log, at, pc, home, base, results, toAdd, reply, pending, hits, removed>>
      BY TypedStep DEF vars, callVars, wireVars
    <2>2. WellRead' /\ NeverTakesForeign' /\ Kept'
      BY <2>1 DEF WellRead, NeverTakesForeign, Kept, Overwritten, States, Newest, Held, Accepted
    <2>3. ReportsAreTrue'
      BY <2>1 DEF ReportsAreTrue, States, Held
    <2> QED
      BY <2>1, <2>2, <2>3
  <1> QED
    BY <1>1, <1>2

LEMMA SafeAlways == Spec => []SafeInv
  BY SafeInit, SafeStep, PTL DEF Spec

(* Nobody else's address gets into the mailbox, whatever lookups fail. *)
THEOREM ForeignStaysOut == Spec => []NeverTakesForeign
  BY SafeAlways, PTL DEF SafeInv

(* Every result that a call reports was true of some state of the mailbox. *)
THEOREM ReportsTrue == Spec => []ReportsAreTrue
  BY SafeAlways, PTL DEF SafeInv

(* An address is lost only to another call's stale list, or to a removal. *)
THEOREM LossIsStaleness == Spec => []LossNeedsStaleRead
  <1>1. SafeInv => LossNeedsStaleRead
    BY DEF SafeInv, WellRead, Kept, Overwritten, LossNeedsStaleRead
  <1> QED
    BY <1>1, SafeAlways, PTL
-----------------------------------------------------------------------------
(* Callers and administrator wait, and so does the client. *)
Patient == Disciplined /\ ~LateDelivery

Busy == {c \in Calls : pc[c] \notin {"idle", "done"}}

(* With patience one call is busy, and knows the newest state of the mailbox *)
(* from its read to its return; and nothing that was accepted gets lost.     *)
InTurn ==
    /\ \A c, d \in Busy : c = d
    /\ \A c \in Calls :
        /\ pending[c] > 0 => pc[c] = "write"
        /\ pc[c] = "read" => Replicated
        /\ pc[c] \in {"check", "write"} /\ hits[c] = 0 => base[c] = Newest
        /\ pc[c] \in {"write", "confirm"} /\ hits[c] > 0 => Newest = MergedList(c)
    /\ AcceptedIsKept

TurnInv == SafeInv /\ (Patient => InTurn)

LEMMA TurnInit == Init => TurnInv
  <1>1. Init => InTurn
    BY DEF Init, InTurn, Busy, AcceptedIsKept, Accepted
  <1> QED
    BY <1>1, SafeInit DEF TurnInv

(* In its turn, a write only adds to the mailbox. *)
LEMMA WriteAdds ==
    ASSUME TurnInv, Patient, NEW c \in Calls, TakeEffect(c)
    PROVE  /\ pc[c] = "write" /\ Newest' = MergedList(c)
           /\ Newest = base[c] \/ Newest = MergedList(c)
           /\ Held(Newest) \subseteq Held(Newest)'
  <1>1. pc[c] = "write" /\ (Newest = base[c] \/ Newest = MergedList(c))
    BY DEF TurnInv, InTurn, TakeEffect, SafeInv, Typed, CountTypes
  <1>2. Newest' = MergedList(c)
    BY MergedIsMailbox, StoreTypes DEF TakeEffect, TurnInv, SafeInv, Typed, CallTypes
  <1>3. Held(base[c]) \subseteq Held(MergedList(c))
    BY MergedIsMailbox DEF TurnInv, SafeInv, Typed
  <1> QED
    BY <1>1, <1>2, <1>3 DEF Held

(* The administrator finds nobody busy. *)
LEMMA AdminWaits ==
    ASSUME TurnInv, Patient, Promote \/ Remove
    PROVE  /\ Busy = {} /\ UNCHANGED <<pc, base, toAdd, reply, hits, pending>>
           /\ Held(Newest) \subseteq Held(Newest)' \union removed'
           /\ removed \subseteq removed'
  <1> USE DEF TurnInv, SafeInv, Typed
  <1>1. Busy = {} /\ UNCHANGED <<pc, base, toAdd, reply, hits, pending>>
    BY DEF Promote, Remove, Administer, MayWrite, Settled, Patient, Busy, callVars, wireVars
  <1>2. CASE Promote
    BY <1>1, <1>2, NewestIsState, PromotedIsMailbox, StoreTypes DEF Promote, Administer, Held
  <1>3. CASE Remove
    <2>1. PICK b \in Newest.aliases, s \in Servers :
            Store(s, [Newest EXCEPT !.aliases = @ \ {b}]) /\ removed' = removed \union {b}
      BY <1>3 DEF Remove, Administer
    <2>2. Newest' = [Newest EXCEPT !.aliases = @ \ {b}]
      BY <2>1, NewestIsState, RemovedIsMailbox, StoreTypes
    <2>3. Held(Newest) \subseteq Held(Newest)' \union {b}
      BY <2>2, NewestIsState, RemovedIsMailbox DEF Held
    <2> QED
      BY <1>1, <2>1, <2>3
  <1> QED
    BY <1>2, <1>3

LEMMA InTurnStep ==
    ASSUME TurnInv, Patient, Next
    PROVE  InTurn'
  <1> USE DEF TurnInv, SafeInv, Typed
  <1>i. InTurn
    OBVIOUS
  <1>1. ASSUME NEW c \in Calls, Start(c) PROVE InTurn'
    <2>1. Replicated /\ Busy = {} /\ pc' = [pc EXCEPT ![c] = "read"] /\ pc[c] = "idle"
      BY <1>1 DEF Start, MayWrite, Settled, Patient, Busy
    <2>2. UNCHANGED <<log, at, base, toAdd, reply, pending, hits, removed>>
      BY <1>1 DEF Start, wireVars
    <2>3. AcceptedIsKept'
      BY <1>i, <2>2 DEF InTurn, AcceptedIsKept, Accepted, Held, Newest
    <2>4. \A d \in Calls : (pc'[d] \notin {"idle", "done"} => d = c) /\ ~(pending[d] > 0)
      BY <1>i, <2>1 DEF InTurn, Busy, CallTypes
    <2> QED
      BY <2>1, <2>2, <2>3, <2>4 DEF InTurn, Busy, Replicated, CallTypes
  <1>2. ASSUME NEW c \in Calls, ReadMailbox(c) PROVE InTurn'
    <2>1. /\ pc[c] = "read" /\ pc' = [pc EXCEPT ![c] = "check"]
          /\ UNCHANGED <<log, at, toAdd, reply, pending, hits, removed>>
      BY <1>2 DEF ReadMailbox, wireVars
    <2>2. base' = [base EXCEPT ![c] = Newest]
      BY <1>i, <1>2, <2>1 DEF ReadMailbox, InTurn, Replicated, Shown, Newest, CallTypes
    <2>3. AcceptedIsKept'
      BY <1>i, <2>1 DEF InTurn, AcceptedIsKept, Accepted, Held, Newest
    <2>4. c \in Busy /\ hits[c] = 0 /\ \A d \in Calls \ {c} : pc'[d] \in {"idle", "done"}
      BY <1>i, <2>1 DEF InTurn, Busy, Counted, CallTypes
    <2> QED
      BY <1>i, <2>1, <2>2, <2>3, <2>4 DEF InTurn, Busy, CallTypes, Newest
  <1>3. ASSUME NEW c \in Calls,
               SkipAtOnce(c) \/ FoundElsewhere(c) \/ FoundHere(c) \/ LookupFails(c) \/ FoundNowhere(c)
        PROVE InTurn'
    <2>1. /\ pc[c] = "check" /\ UNCHANGED <<log, at, pc, base, reply, pending, hits, removed>>
          /\ \A d \in Calls \ {c} : toAdd'[d] = toAdd[d]
      BY <1>3 DEF SkipAtOnce, FoundElsewhere, FoundHere, LookupFails, FoundNowhere, Asking, Checking, Skip,
                  Want, wireVars, CallTypes
    <2>2. reply[c] = "none" /\ hits[c] = 0
      BY <2>1 DEF WellRead, Counted
    <2>3. AcceptedIsKept'
      BY <1>i, <2>1, <2>2 DEF InTurn, AcceptedIsKept, Accepted, Held, Newest
    <2> QED
      BY <1>i, <2>1, <2>2, <2>3 DEF InTurn, Busy, Replicated, Newest, MergedList
  <1>4. ASSUME NEW c \in Calls, RefuseEmpty(c) \/ ReadFails(c) \/ NothingToAdd(c) \/ Confirm(c) PROVE InTurn'
    <2>1. /\ pc' = [pc EXCEPT ![c] = "done"] /\ pc[c] # "write"
          /\ UNCHANGED <<log, at, base, toAdd, pending, hits, removed>>
      BY <1>4 DEF RefuseEmpty, ReadFails, NothingToAdd, Confirm, Checked, Return, wireVars
    <2>2. \/ reply'[c] \in {"error", "nothing_added"}
          \/ pc[c] = "confirm"
      BY <1>4 DEF RefuseEmpty, ReadFails, NothingToAdd, Confirm, Return, CallTypes
    <2>3. \A d \in Calls \ {c} : reply'[d] = reply[d]
      BY <1>4 DEF RefuseEmpty, ReadFails, NothingToAdd, Confirm, Return, CallTypes
    <2>4. pc[c] = "confirm" => toAdd[c] \subseteq Held(Newest)
      <3>1. pc[c] = "confirm" => Newest = MergedList(c)
        BY <1>i DEF InTurn, WellRead
      <3> QED
        BY <3>1, MergedIsMailbox
    <2>5. AcceptedIsKept'
      BY <1>i, <2>1, <2>2, <2>3, <2>4 DEF InTurn, AcceptedIsKept, Accepted, Held, Newest
    <2> QED
      BY <1>i, <2>1, <2>5 DEF InTurn, Busy, Replicated, Newest, MergedList, CallTypes
  <1>5. ASSUME NEW c \in Calls, SendWrite(c) \/ WriteSucceeds(c) \/ WriteFails(c) PROVE InTurn'
    <2>1. /\ UNCHANGED <<log, at, base, toAdd, hits, removed>>
          /\ \/ pc[c] = "check" /\ pc' = [pc EXCEPT ![c] = "write"] /\ reply' = reply
             \/ pc[c] = "write" /\ pc' = [pc EXCEPT ![c] = "confirm"] /\ reply' = reply /\ pending'[c] = 0
             \/ pc[c] = "write" /\ pc' = [pc EXCEPT ![c] = "done"] /\ reply'[c] = "error" /\ pending'[c] = 0
          /\ \A d \in Calls \ {c} : pending'[d] = pending[d] /\ reply'[d] = reply[d]
      BY <1>5 DEF SendWrite, WriteSucceeds, WriteFails, Checked, StopWaiting, Patient, Return, CallTypes, CountTypes
    <2>2. AcceptedIsKept'
      BY <1>i, <2>1 DEF InTurn, AcceptedIsKept, Accepted, Held, Newest
    <2>3. hits[c] \in Nat /\ (pc[c] = "check" => hits[c] = 0)
      BY DEF CountTypes, Counted
    <2>4. Newest' = Newest /\ \A d \in Calls : MergedList(d)' = MergedList(d)
      BY <2>1 DEF Newest, MergedList
    <2>5. c \in Busy /\ \A d \in Calls \ {c} : pc'[d] = pc[d] /\ pc[d] \in {"idle", "done"}
      BY <1>i, <2>1 DEF InTurn, Busy, CallTypes
    <2>6. \A d \in Calls :
            /\ pending'[d] > 0 => pc'[d] = "write"
            /\ pc'[d] # "read"
            /\ pc'[d] \in {"check", "write"} /\ hits[d] = 0 => base[d] = Newest
            /\ pc'[d] \in {"write", "confirm"} /\ hits[d] > 0 => Newest = MergedList(d)
      <3>1. ASSUME NEW d \in Calls \ {c} PROVE pending'[d] = pending[d] /\ pc'[d] \in {"idle", "done"} /\ ~(pending[d] > 0)
        BY <1>i, <2>1, <2>5 DEF InTurn
      <3>2. CASE pc[c] = "check"
        <4>1. pc'[c] = "write"
          BY <2>1, <3>2 DEF CallTypes
        <4>2. hits[c] = 0 /\ base[c] = Newest
          BY <1>i, <2>3, <3>2 DEF InTurn
        <4> QED
          BY <3>1, <4>1, <4>2
      <3>3. CASE pc[c] = "write"
        <4>1. pc'[c] \in {"confirm", "done"} /\ pending'[c] = 0
          BY <2>1, <3>3 DEF CallTypes
        <4>2. hits[c] > 0 => Newest = MergedList(c)
          BY <1>i, <3>3 DEF InTurn
        <4> QED
          BY <3>1, <4>1, <4>2
      <3> QED
        BY <2>1, <3>2, <3>3
    <2>7. \A d, e \in Busy' : d = e
      BY <2>5 DEF Busy
    <2> QED
      BY <2>1, <2>2, <2>4, <2>6, <2>7 DEF InTurn
  <1>6. ASSUME NEW c \in Calls, TakeEffect(c) PROVE InTurn'
    <2>1. /\ pc[c] = "write" /\ Newest' = MergedList(c) /\ Held(Newest) \subseteq Held(Newest)'
          /\ UNCHANGED <<pc, base, toAdd, reply, removed>>
      BY <1>6, WriteAdds DEF TakeEffect, callVars
    <2>2. AcceptedIsKept'
      BY <1>i, <2>1 DEF InTurn, AcceptedIsKept, Accepted
    <2>3. hits'[c] > 0 /\ pending' = [pending EXCEPT ![c] = @ - 1] /\ MergedList(c)' = MergedList(c)
      BY <1>6, <2>1 DEF TakeEffect, MergedList, CountTypes
    <2>4. \A d \in Calls \ {c} : pc[d] \in {"idle", "done"}
      BY <1>i, <2>1 DEF InTurn, Busy
    <2> QED
      BY <1>i, <2>1, <2>2, <2>3, <2>4 DEF InTurn, Busy, CountTypes
  <1>7. CASE Promote \/ Remove
    <2>1. AcceptedIsKept'
      BY <1>i, <1>7, AdminWaits DEF InTurn, AcceptedIsKept, Accepted
    <2>2. \A d \in Calls : pc'[d] \in {"idle", "done"} /\ ~(pending'[d] > 0)
      BY <1>i, <1>7, AdminWaits DEF InTurn, Busy
    <2> QED
      BY <2>1, <2>2 DEF InTurn, Busy
  <1>8. CASE Replicate
    <2>1. PICK s \in Servers : CatchUp(s)
      BY <1>8 DEF Replicate
    <2>2. ~Replicated /\ UNCHANGED <<log, pc, base, toAdd, reply, pending, hits, removed>>
      BY <1>8, <2>1 DEF Replicate, CatchUp, Replicated, callVars, wireVars, DirTypes
    <2>3. AcceptedIsKept'
      BY <1>i, <2>2 DEF InTurn, AcceptedIsKept, Accepted, Held, Newest
    <2> QED
      BY <1>i, <2>2, <2>3 DEF InTurn, Busy, Newest, MergedList
  <1>9. CASE UNCHANGED vars
    BY <1>i, <1>9 DEF vars, callVars, wireVars, InTurn, Busy, Replicated, Newest, MergedList, AcceptedIsKept,
                      Accepted, Held
  <1> QED
    BY <1>1, <1>2, <1>3, <1>4, <1>5, <1>6, <1>7, <1>8, <1>9 DEF Next, Call, Done

LEMMA TurnStep == TurnInv /\ [Next]_vars => TurnInv'
  <1>1. TurnInv /\ Next => TurnInv'
    BY SafeStep, InTurnStep DEF TurnInv, Patient
  <1>2. TurnInv /\ UNCHANGED vars => TurnInv'
    <2>1. InTurn /\ UNCHANGED vars => InTurn'
      BY DEF vars, callVars, wireVars, InTurn, Busy, Replicated, Newest, MergedList, AcceptedIsKept, Accepted, Held
    <2> QED
      BY <2>1, SafeStep DEF TurnInv, Patient
  <1> QED
    BY <1>1, <1>2

LEMMA TurnAlways == Spec => []TurnInv
  BY TurnInit, TurnStep, PTL DEF Spec

(* With callers that wait, no address that was accepted is ever lost, but by *)
(* the administrator's own removal.                                          *)
THEOREM NothingIsLost ==
    ASSUME Patient
    PROVE  Spec => []AcceptedIsKept
  <1>1. TurnInv => AcceptedIsKept
    BY DEF TurnInv, InTurn
  <1> QED
    BY <1>1, TurnAlways, PTL

(* With callers that wait, the tool implements the additive address book.    *)
THEOREM AddsOnly ==
    ASSUME Patient
    PROVE  Spec => ImplementsAddressBook
  <1> DEFINE requested == UNION {toAdd[c] : c \in Calls}
  <1>1. Init => Book!Init
    <2> SUFFICES ASSUME Init PROVE Book!Init
      OBVIOUS
    <2>1. PICK m \in Mailboxes : log = <<m>> /\ m.primary \notin m.aliases
      BY DEF Init, DirectoryInit
    <2>2. Newest = m /\ requested = {}
      BY <2>1 DEF Init, Newest
    <2> QED
      BY <2>1, <2>2 DEF Book!Init, Mailboxes
  <1>2. TurnInv /\ [Next]_vars => [Book!Next]_(Book!vars)
    <2> SUFFICES ASSUME TurnInv, [Next]_vars PROVE [Book!Next]_(Book!vars)
      OBVIOUS
    <2> USE DEF TurnInv, SafeInv, Typed
    <2>1. ASSUME UNCHANGED <<log, toAdd>> PROVE UNCHANGED Book!vars
      BY <2>1 DEF Book!vars, Newest
    <2>2. ASSUME NEW c \in Calls, FoundNowhere(c) PROVE Book!Request
      <3>1. /\ log' = log /\ Wish(c).address \in Addresses
            /\ toAdd' = [toAdd EXCEPT ![c] = @ \union {Wish(c).address}]
        BY <2>2, WishTypes DEF FoundNowhere, Asking, Want
      <3>2. \A d \in Calls : toAdd[d] \subseteq toAdd'[d] /\ toAdd'[d] \subseteq Addresses
        BY <3>1 DEF CallTypes
      <3> QED
        BY <3>1, <3>2 DEF Book!Request, Newest
    <2>3. ASSUME NEW c \in Calls, TakeEffect(c) PROVE Book!Add
      <3>1. /\ Newest' = MergedList(c) /\ (Newest = base[c] \/ Newest = MergedList(c))
            /\ toAdd' = toAdd
        BY <2>3, WriteAdds DEF TakeEffect, callVars
      <3>2. /\ MergedList(c).primary = base[c].primary
            /\ MergedList(c).aliases = base[c].aliases \union toAdd[c]
        BY DEF MergedList
      <3>3. /\ Newest'.primary = Newest.primary
            /\ Newest'.aliases = Newest.aliases \union toAdd[c]
        BY <3>1, <3>2
      <3>4. toAdd[c] \in SUBSET requested
        OBVIOUS
      <3> QED
        BY <3>1, <3>3, <3>4 DEF Book!Add
    <2>4. ASSUME Promote PROVE Book!Promote
      <3>1. PICK a \in Newest.aliases, s \in Servers :
              Store(s, [primary |-> a, aliases |-> (Newest.aliases \ {a}) \union {Newest.primary}])
        BY <2>4 DEF Promote, Administer
      <3>2. Newest' = [primary |-> a, aliases |-> (Newest.aliases \ {a}) \union {Newest.primary}]
        BY <3>1, NewestIsState, PromotedIsMailbox, StoreTypes
      <3>3. toAdd' = toAdd
        BY <2>4 DEF Promote, Administer, callVars
      <3> QED
        BY <3>1, <3>2, <3>3 DEF Book!Promote
    <2>5. ASSUME Remove PROVE Book!Remove
      <3>1. PICK a \in Newest.aliases, s \in Servers : Store(s, [Newest EXCEPT !.aliases = @ \ {a}])
        BY <2>5 DEF Remove, Administer
      <3>2. Newest' = [Newest EXCEPT !.aliases = @ \ {a}] /\ Newest \in Mailboxes
        BY <3>1, NewestIsState, RemovedIsMailbox, StoreTypes
      <3>3. Newest'.primary = Newest.primary /\ Newest'.aliases = Newest.aliases \ {a}
        BY <3>2 DEF Mailboxes
      <3>4. toAdd' = toAdd
        BY <2>5 DEF Remove, Administer, callVars
      <3> QED
        BY <3>1, <3>3, <3>4 DEF Book!Remove
    <2>6. CASE UNCHANGED <<log, toAdd>>
      BY <2>1, <2>6
    <2> QED
      BY <2>2, <2>3, <2>4, <2>5, <2>6 DEF Book!Next, Next, Call, Start, RefuseEmpty, ReadMailbox, ReadFails,
         SkipAtOnce, FoundElsewhere, FoundHere, LookupFails, NothingToAdd, SendWrite, WriteSucceeds,
         WriteFails, Confirm, Skip, Replicate, CatchUp, Done, vars, callVars
  <1> QED
    BY <1>1, <1>2, TurnAlways, PTL DEF Spec, ImplementsAddressBook, Book!Spec

(* With callers that wait, only the administrator changes the primary        *)
(* address, however often a list is written again.                           *)
THEOREM PrimaryIsAdmins ==
    ASSUME Patient
    PROVE  Spec => PrimaryOnlyByAdmin
  <1>1. TurnInv /\ [Next]_vars => [Newest'.primary # Newest.primary => adminLeft' # adminLeft]_vars
    <2> SUFFICES ASSUME TurnInv, Next, Newest'.primary # Newest.primary PROVE adminLeft' # adminLeft
      OBVIOUS
    <2>1. ASSUME NEW c \in Calls, TakeEffect(c) PROVE FALSE
      <3>1. Newest' = MergedList(c) /\ (Newest = base[c] \/ Newest = MergedList(c))
        BY <2>1, WriteAdds
      <3>2. MergedList(c).primary = base[c].primary
        BY DEF MergedList
      <3> QED
        BY <3>1, <3>2
    <2>2. CASE Promote \/ Remove
      <3>1. adminLeft \in Nat
        BY EmailAliasAssumption DEF TurnInv, SafeInv, Typed, CountTypes
      <3>2. adminLeft' = adminLeft - 1
        BY <2>2 DEF Promote, Remove, Administer
      <3> QED
        BY <3>1, <3>2
    <2>3. CASE log' = log
      BY <2>3 DEF Newest
    <2> QED
      BY <2>1, <2>2, <2>3, DirectorySteps DEF TurnInv, SafeInv, CatchUp
  <1> QED
    BY <1>1, TurnAlways, PTL DEF Spec, PrimaryOnlyByAdmin
-----------------------------------------------------------------------------
(* A call adds only what it was asked for and the mailbox it read lacked, and *)
(* no delivery is under way but of a write that was sent. *)
PlannedBy(c) ==
    /\ toAdd[c] \subseteq Addable(c)
    /\ toAdd[c] \cap Held(base[c]) = {}
    /\ pc[c] \in {"idle", "read"} => toAdd[c] = {}
    /\ pc[c] \in {"write", "confirm"} => toAdd[c] # {}
    /\ pending[c] + hits[c] > 0 => WasSent(c)

Planned == \A c \in Calls : PlannedBy(c)

PlanInv == TurnInv /\ Planned

LEMMA PlanInit == Init => PlanInv
  <1>1. Init => Planned
    BY DEF Init, Planned, PlannedBy
  <1> QED
    BY <1>1, TurnInit DEF PlanInv

(* What a step may change for one call. *)
CallFrame(c) == <<pc[c], base[c], toAdd[c], pending[c], hits[c], reply[c]>>

LEMMA OtherCalls ==
    ASSUME Typed, NEW c \in Calls, NEW d \in Calls \ {c}, Call(d) \/ TakeEffect(d)
    PROVE  UNCHANGED CallFrame(c)
  <1>1. CASE Start(d) \/ RefuseEmpty(d) \/ ReadMailbox(d) \/ ReadFails(d) \/ NothingToAdd(d) \/ Confirm(d)
    BY <1>1 DEF Start, RefuseEmpty, ReadMailbox, ReadFails, NothingToAdd, Confirm, Return, wireVars, CallFrame,
                Typed, CallTypes
  <1>2. CASE SkipAtOnce(d) \/ FoundElsewhere(d) \/ FoundHere(d) \/ FoundNowhere(d) \/ LookupFails(d)
    BY <1>2 DEF SkipAtOnce, FoundElsewhere, FoundHere, FoundNowhere, LookupFails, Skip, Want, wireVars, CallFrame,
                Typed, CallTypes
  <1>3. CASE SendWrite(d) \/ WriteSucceeds(d) \/ WriteFails(d)
    BY <1>3 DEF SendWrite, WriteSucceeds, WriteFails, StopWaiting, Return, CallFrame, Typed, CallTypes, CountTypes
  <1>4. CASE TakeEffect(d)
    BY <1>4 DEF TakeEffect, callVars, CallFrame, Typed, CountTypes
  <1> QED
    BY <1>1, <1>2, <1>3, <1>4 DEF Call

LEMMA PlannedStep ==
    ASSUME TurnInv, Planned, Next, NEW c \in Calls
    PROVE  PlannedBy(c)'
  <1> USE DEF TurnInv, SafeInv, Typed, PlannedBy
  <1>1. ASSUME UNCHANGED CallFrame(c) PROVE PlannedBy(c)'
    BY <1>1 DEF Planned, CallFrame, WasSent, Held, Addable
  <1>2. CASE Start(c) \/ RefuseEmpty(c) \/ ReadMailbox(c) \/ ReadFails(c) \/ NothingToAdd(c) \/ Confirm(c)
    <2>1. /\ UNCHANGED <<toAdd, pending, hits>>
          /\ \/ pc[c] = "idle" /\ pc'[c] = "read" /\ base' = base
             \/ pc[c] = "read" /\ pc'[c] = "check"
             \/ pc[c] \in {"idle", "read", "check"} /\ pc'[c] = "done" /\ base' = base
             \/ pc[c] = "confirm" /\ pc'[c] = "done" /\ base' = base
      BY <1>2 DEF Start, RefuseEmpty, ReadMailbox, ReadFails, NothingToAdd, Checked, Confirm, Return, wireVars,
                  CallTypes
    <2>2. pc[c] = "read" => toAdd[c] = {}
      BY DEF Planned
    <2>3. pc[c] \in {"idle", "read", "check"} => ~(pending[c] + hits[c] > 0)
      BY DEF Counted
    <2> QED
      BY <2>1, <2>2, <2>3 DEF Planned, WasSent, Addable, Held
  <1>3. CASE SkipAtOnce(c) \/ FoundElsewhere(c) \/ FoundHere(c) \/ LookupFails(c)
    BY <1>1, <1>3 DEF SkipAtOnce, FoundElsewhere, FoundHere, LookupFails, Skip, wireVars, CallFrame
  <1>4. CASE FoundNowhere(c)
    <2>1. /\ pc[c] = "check" /\ toAdd'[c] = toAdd[c] \union {Wish(c).address}
          /\ UNCHANGED <<pc, base, pending, hits>> /\ Wish(c).address \notin Held(base[c])
      BY <1>4 DEF FoundNowhere, Asking, Checking, Want, wireVars, CallTypes
    <2>2. Wish(c).address \in Addable(c)
      <3>1. Wish(c) = Wishes[c][Len(results[c]) + 1] /\ Wish(c).form = "alias" /\ Checking(c)
        BY <1>4, WishTypes DEF FoundNowhere, Asking
      <3>2. Len(results[c]) \in Nat /\ Len(Wishes[c]) \in Nat /\ Len(results[c]) < Len(Wishes[c])
        BY <3>1, EmailAliasAssumption DEF Checking, CallTypes
      <3> QED
        BY <3>1, <3>2 DEF Addable
    <2> QED
      BY <2>1, <2>2 DEF Planned, Counted, Addable, Held
  <1>5. CASE SendWrite(c) \/ WriteSucceeds(c) \/ WriteFails(c)
    <2>1. /\ UNCHANGED <<toAdd, base, hits>> /\ toAdd[c] # {}
          /\ pc'[c] \in {"write", "confirm", "done"}
      BY <1>5 DEF SendWrite, WriteSucceeds, WriteFails, Return, CallTypes, Planned
    <2> QED
      BY <2>1 DEF Planned, WasSent, Addable, Held
  <1>6. CASE TakeEffect(c)
    <2>1. UNCHANGED <<pc, base, toAdd>> /\ pending[c] > 0 /\ pending[c] \in Nat /\ hits[c] \in Nat
      BY <1>6 DEF TakeEffect, callVars, CountTypes
    <2>2. WasSent(c)
      BY <2>1 DEF Planned
    <2> QED
      BY <2>1, <2>2 DEF Planned, WasSent, Addable, Held
  <1>7. CASE Promote \/ Remove \/ Replicate \/ Done
    BY <1>1, <1>7 DEF Promote, Remove, Administer, Replicate, Done, vars, callVars, wireVars, CallFrame
  <1>8. ASSUME NEW d \in Calls \ {c}, Call(d) \/ TakeEffect(d) PROVE PlannedBy(c)'
    BY <1>1, <1>8, OtherCalls
  <1> QED
    BY <1>2, <1>3, <1>4, <1>5, <1>6, <1>7, <1>8 DEF Next, Call

LEMMA PlanAlways == Spec => []PlanInv
  <1>1. Planned /\ UNCHANGED vars => Planned'
    BY DEF Planned, PlannedBy, WasSent, Held, Addable, vars, callVars, wireVars
  <1>2. PlanInv /\ [Next]_vars => PlanInv'
    BY <1>1, TurnStep, PlannedStep DEF PlanInv, Planned
  <1> QED
    BY <1>2, PlanInit, PTL DEF Spec

(* With callers that wait, a retry of the write or a call repeated with its  *)
(* arguments leaves the mailbox as it is, its primary address included.      *)
THEOREM Idempotent ==
    ASSUME Patient
    PROVE  Spec => RepeatsChangeNothing
  <1>1. PlanInv /\ [Next]_vars =>
            [\A c \in Calls : TakeEffect(c) /\ Addable(c) \subseteq Held(Newest) => Newest' = Newest]_vars
    <2> SUFFICES ASSUME PlanInv, NEW c \in Calls, TakeEffect(c), Addable(c) \subseteq Held(Newest)
                 PROVE  Newest' = Newest
      OBVIOUS
    <2>1. /\ pc[c] = "write" /\ Newest' = MergedList(c)
          /\ hits[c] > 0 => Newest = MergedList(c)
          /\ hits[c] = 0 => base[c] = Newest
          /\ hits[c] \in Nat
      BY WriteAdds DEF PlanInv, TurnInv, InTurn, SafeInv, Typed, CountTypes
    <2>2. toAdd[c] # {} /\ toAdd[c] \subseteq Addable(c) /\ toAdd[c] \cap Held(base[c]) = {}
      BY <2>1 DEF PlanInv, Planned, PlannedBy
    <2>3. hits[c] # 0
      BY <2>1, <2>2
    <2> QED
      BY <2>1, <2>3
  <1> QED
    BY <1>1, PlanAlways, PTL DEF Spec, RepeatsChangeNothing

(* Every write keeps to the contract Transport is proved to fulfil, whether  *)
(* callers wait or not: sent once, at most one effect per delivery, one      *)
(* verdict, and a success only after an effect.                              *)
THEOREM WritesAreCmdlets ==
    ASSUME NEW c \in Calls
    PROVE  Spec => Write(c)!Spec
  <1>1. Init => Write(c)!Init
    <2> SUFFICES ASSUME Init PROVE Write(c)!Init
      OBVIOUS
    <2>1. ~WasSent(c) /\ hits[c] = 0
      BY DEF Init, WasSent
    <2>2. {a \in 0..MaxRetries : a < hits[c]} = {}
      BY <2>1, EmailAliasAssumption
    <2> QED
      BY <2>1, <2>2 DEF WriteOutcome, Write!Init, Write!Invokes
  <1>2. PlanInv /\ [Next]_vars => [Write(c)!Next]_(Write(c)!vars)
    <2> SUFFICES ASSUME PlanInv, [Next]_vars PROVE [Write(c)!Next]_(Write(c)!vars)
      OBVIOUS
    <2> USE DEF PlanInv, TurnInv, SafeInv, Typed
    <2>0. hits[c] \in Nat /\ pending[c] \in Nat /\ MaxRetries \in Nat /\ hits[c] + pending[c] <= MaxRetries + 1
      BY EmailAliasAssumption DEF CountTypes, Counted
    <2>1. ASSUME WasSent(c)' <=> WasSent(c), hits' = hits, WriteOutcome(c)' = WriteOutcome(c)
          PROVE  UNCHANGED Write(c)!vars
      BY <2>1 DEF Write!vars
    <2>2. ASSUME UNCHANGED CallFrame(c) PROVE UNCHANGED Write(c)!vars
      BY <2>2 DEF CallFrame, WasSent, WriteOutcome, Accepted, Write!vars
    <2>3. CASE Start(c) \/ RefuseEmpty(c) \/ ReadMailbox(c) \/ ReadFails(c) \/ NothingToAdd(c)
      <3>1. /\ UNCHANGED <<hits, toAdd>> /\ pc[c] \in {"idle", "read", "check"}
            /\ \/ pc'[c] \in {"read", "check"}
               \/ pc'[c] = "done" /\ toAdd[c] = {}
        BY <2>3 DEF Start, RefuseEmpty, ReadMailbox, ReadFails, NothingToAdd, Checked, Return, wireVars,
                    CallTypes, Planned, PlannedBy
      <3>2. ~WasSent(c) /\ ~WasSent(c)'
        BY <3>1 DEF WasSent
      <3>3. WriteOutcome(c) = "pending" /\ WriteOutcome(c)' = "pending"
        BY <3>2 DEF WriteOutcome
      <3> QED
        BY <2>1, <3>1, <3>2, <3>3
    <2>4. CASE SkipAtOnce(c) \/ FoundElsewhere(c) \/ FoundHere(c) \/ FoundNowhere(c) \/ LookupFails(c)
      <3>1. UNCHANGED <<pc, hits>> /\ pc[c] = "check"
        BY <2>4 DEF SkipAtOnce, FoundElsewhere, FoundHere, FoundNowhere, LookupFails, Asking, Checking, Skip,
                    Want, wireVars
      <3>2. ~WasSent(c) /\ ~WasSent(c)'
        BY <3>1 DEF WasSent
      <3>3. WriteOutcome(c) = "pending" /\ WriteOutcome(c)' = "pending"
        BY <3>2 DEF WriteOutcome
      <3> QED
        BY <2>1, <3>1, <3>2, <3>3
    <2>5. CASE SendWrite(c)
      <3>1. pc[c] = "check" /\ pc'[c] = "write" /\ hits' = hits /\ hits[c] = 0
        BY <2>5 DEF SendWrite, Checked, CallTypes, Counted
      <3>2. ~WasSent(c) /\ WasSent(c)' /\ WriteOutcome(c) = "pending" /\ WriteOutcome(c)' = "pending"
        BY <3>1 DEF WasSent, WriteOutcome
      <3>3. Write(c)!Issue
        BY <3>1, <3>2 DEF Write!Issue
      <3> QED
        BY <3>3 DEF Write!Next
    <2>6. CASE WriteSucceeds(c) \/ WriteFails(c)
      <3>1. /\ hits' = hits /\ pc[c] = "write" /\ toAdd' = toAdd
            /\ \/ hits[c] > 0 /\ pc'[c] = "confirm"
               \/ pc'[c] = "done" /\ reply'[c] = "error"
        BY <2>6 DEF WriteSucceeds, WriteFails, Return, CallTypes
      <3>2. WasSent(c) /\ WasSent(c)' /\ WriteOutcome(c) = "pending"
        BY <3>1 DEF WasSent, WriteOutcome, Planned, PlannedBy
      <3>3. \E v \in {"success", "failure"} : WriteOutcome(c)' = v /\ (v = "success" => hits[c] > 0)
        BY <3>1, <3>2 DEF WriteOutcome, Accepted
      <3>4. hits[c] > 0 => <<1, 0>> \in {1} \X {a \in 0..MaxRetries : a < hits[c]}
        BY <2>0
      <3>5. Write(c)!Conclude
        <4>1. ASSUME NEW v PROVE [[i \in 1..1 |-> WriteOutcome(c)] EXCEPT ![1] = v] = [i \in 1..1 |-> v]
          OBVIOUS
        <4>2. UNCHANGED <<IF WasSent(c) THEN 1 ELSE 0, {1} \X {a \in 0..MaxRetries : a < hits[c]}>>
          BY <3>1, <3>2
        <4> QED
          BY <2>0, <3>2, <3>3, <3>4, <4>1, <4>2 DEF Write!Conclude, Write!Attempts
      <3> QED
        BY <3>5 DEF Write!Next
    <2>7. CASE Confirm(c)
      <3>1. /\ UNCHANGED <<hits, toAdd>> /\ pc[c] = "confirm" /\ toAdd[c] # {}
            /\ pc'[c] = "done" /\ reply'[c] \in {"verified", "unverified"}
        BY <2>7 DEF Confirm, Return, wireVars, CallTypes, Planned, PlannedBy
      <3>2. WasSent(c) /\ WasSent(c)' /\ WriteOutcome(c) = "success" /\ WriteOutcome(c)' = "success"
        BY <3>1 DEF WasSent, WriteOutcome, Accepted
      <3> QED
        BY <2>1, <3>1, <3>2
    <2>8. ASSUME TakeEffect(c) PROVE Write(c)!TakeEffect
      <3>1. /\ UNCHANGED <<pc, reply, toAdd>> /\ pending[c] > 0 /\ hits'[c] = hits[c] + 1
        BY <2>8 DEF TakeEffect, callVars, CountTypes
      <3>2. WasSent(c) /\ WasSent(c)' /\ hits[c] \in 0..MaxRetries
        BY <2>0, <3>1 DEF WasSent, Planned, PlannedBy
      <3>3. WriteOutcome(c)' = WriteOutcome(c)
        BY <3>1, <3>2 DEF WriteOutcome, Accepted
      <3>4. /\ <<1, hits[c]>> \notin {1} \X {a \in 0..MaxRetries : a < hits[c]}
            /\ {1} \X {a \in 0..MaxRetries : a < hits'[c]}
                   = ({1} \X {a \in 0..MaxRetries : a < hits[c]}) \union {<<1, hits[c]>>}
        BY <2>0, <3>1, <3>2
      <3> QED
        BY <3>2, <3>3, <3>4 DEF Write!TakeEffect, Write!Attempts
    <2>9. ASSUME NEW d \in Calls \ {c}, Call(d) \/ TakeEffect(d) PROVE UNCHANGED Write(c)!vars
      BY <2>2, <2>9, OtherCalls
    <2>10. CASE Promote \/ Remove \/ Replicate \/ Done \/ UNCHANGED vars
      BY <2>2, <2>10 DEF Promote, Remove, Administer, Replicate, Done, vars, callVars, wireVars, CallFrame
    <2> QED
      BY <2>3, <2>4, <2>5, <2>6, <2>7, <2>8, <2>9, <2>10 DEF Next, Call, Write!Next
  <1> QED
    BY <1>1, <1>2, PlanAlways, PTL DEF Spec, Write!Spec
=============================================================================
