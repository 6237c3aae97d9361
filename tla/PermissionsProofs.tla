------------------------- MODULE PermissionsProofs --------------------------
(***************************************************************************)
(* Theorems about Permissions for any number of calls, servers, people and   *)
(* retries, and any grants to begin with.                                    *)
(*                                                                          *)
(* Grants: with calls that take turns only the running call has deliveries   *)
(* out (Turns), so what Exchange did with one of them still holds (InPlace), *)
(* and what a listing said is true until it is forgotten (ToldIsSo).         *)
(*                                                                          *)
(* Delegates: whatever a call reads is a state of the directory (Read), and  *)
(* no state from the one its own server shows onwards lacks a delegate that  *)
(* was written, unless some write was made from a list without him (Kept).   *)
(***************************************************************************)
EXTENDS Permissions, TLAPS

(* Types in three parts. *)
DirTypes ==
    /\ log \in Seq(SUBSET Entries) /\ Len(log) > 0
    /\ at \in [Servers -> 1..Len(log)]

CallTypes ==
    /\ acl \subseteq Grants
    /\ orderly \in BOOLEAN
    /\ request \in [Calls -> Requests]
    /\ pc \in [Calls -> {"idle", "read", "lookup", "write", "confirm", "done"}]
    /\ home \in [Calls -> Servers]
    /\ base \in [Calls -> SUBSET Entries]
    /\ after \in [Calls -> SUBSET Entries]
    /\ reply \in [Calls -> Replies]
    /\ told \in [Rights \X People -> {"unknown", "held", "flagged", "missing"}]

CountTypes ==
    /\ pending \in [Calls -> Nat]
    /\ hits \in [Calls -> Nat]
    /\ refusals \in [Calls -> Nat]

(* A call's deliveries are counted, and there are none before its write. *)
Counted ==
    \A c \in Calls :
        /\ hits[c] + refusals[c] + pending[c] <= MaxRetries + 1
        /\ pc[c] \in {"idle", "read", "lookup"} =>
                hits[c] = 0 /\ refusals[c] = 0 /\ pending[c] = 0

Typed == DirTypes /\ CallTypes /\ CountTypes /\ Counted

LEMMA TypesFit == Typed => TypeOK
  <1> SUFFICES ASSUME Typed PROVE TypeOK
    OBVIOUS
  <1>1. \A c \in Calls : /\ pending[c] \in 0..(MaxRetries + 1)
                         /\ hits[c] \in 0..(MaxRetries + 1)
                         /\ refusals[c] \in 0..(MaxRetries + 1)
    BY PermissionsAssumption DEF Typed, CountTypes, Counted
  <1>2. /\ pending \in [Calls -> 0..(MaxRetries + 1)]
        /\ hits \in [Calls -> 0..(MaxRetries + 1)]
        /\ refusals \in [Calls -> 0..(MaxRetries + 1)]
    BY <1>1 DEF Typed, CountTypes
  <1> QED
    BY <1>2 DEF Typed, DirTypes, CallTypes, TypeOK

(* What the model assumes of the constants, call by call. *)
LEMMA RequestTypes ==
    ASSUME CallTypes, NEW c \in Calls
    PROVE  /\ Tool(c) \in {"add", "remove", "list", "delegate"}
           /\ request[c].right \in Rights /\ request[c].form \in Forms
           /\ Tool(c) # "list" => request[c].who \in People
           /\ request[c].who \in People \union {Nobody}
  BY PermissionsAssumption DEF CallTypes, IsRequest, Tool

LEMMA TypedInit == Init => Typed
  <1> SUFFICES ASSUME Init PROVE Typed
    OBVIOUS
  <1>1. DirTypes
    <2>1. PICK v \in {{}} \union {{[who |-> p, form |-> "oid"]} : p \in Recipients} : log = <<v>>
      BY DEF Init, DirectoryInit
    <2>2. v \in SUBSET Entries
      BY <2>1 DEF Entries, Forms, People
    <2>3. log \in Seq(SUBSET Entries) /\ Len(log) = 1
      BY <2>1, <2>2
    <2> QED
      BY <2>3 DEF Init, DirectoryInit, DirTypes
  <1>2. CallTypes
    BY PermissionsAssumption DEF Init, CallTypes, Replies
  <1>3. CountTypes /\ Counted
    BY PermissionsAssumption DEF Init, CountTypes, Counted
  <1> QED
    BY <1>1, <1>2, <1>3 DEF Typed

(* A write through a server keeps the directory well formed. *)
LEMMA StoreTypes ==
    ASSUME DirTypes, NEW s \in Servers, NEW v \in SUBSET Entries, Store(s, v)
    PROVE  /\ DirTypes'
           /\ Len(log') = Len(log) + 1 /\ Len(log) \in Nat
           /\ log'[Len(log) + 1] = v
           /\ \A i \in 1..Len(log) : log'[i] = log[i]
           /\ at'[s] = Len(log) + 1 /\ \A t \in Servers \ {s} : at'[t] = at[t]
  <1>1. log \in Seq(SUBSET Entries) /\ Len(log) \in Nat /\ at \in [Servers -> 1..Len(log)]
    BY DEF DirTypes
  <1>2. /\ log' \in Seq(SUBSET Entries) /\ Len(log') = Len(log) + 1
        /\ log'[Len(log) + 1] = v /\ \A i \in 1..Len(log) : log'[i] = log[i]
    BY <1>1 DEF Store
  <1>3. at' = [at EXCEPT ![s] = Len(log) + 1]
    BY DEF Store
  <1>4. at' \in [Servers -> 1..Len(log')]
    BY <1>1, <1>2, <1>3
  <1> QED
    BY <1>1, <1>2, <1>3, <1>4 DEF DirTypes

(* What a server shows is a state of the directory, and so is the newest. *)
LEMMA ShownIsState ==
    ASSUME DirTypes, NEW s \in Servers
    PROVE  Shown(s) \in SUBSET Entries /\ Shown(s) \in States
  BY DEF DirTypes, Shown, States

LEMMA NewestIsState == DirTypes => Newest \in SUBSET Entries /\ Newest \in States
  BY DEF DirTypes, Newest, States

LEMMA MergedIsList ==
    ASSUME CallTypes, NEW c \in Calls, Tool(c) = "delegate"
    PROVE  Merged(c) \in SUBSET Entries
  BY RequestTypes DEF CallTypes, Merged, Delegate, Entries

LEMMA ResolvedIsList ==
    ASSUME NEW m \in SUBSET Entries
    PROVE  Resolved(m) \in SUBSET Entries /\ Names(Resolved(m)) = Names(m)
  <1>1. \A e \in m : e.who \in People /\ [who |-> e.who, form |-> "oid"] \in Entries
    BY DEF Entries, Forms
  <1>2. ASSUME NEW e \in m PROVE e.who \in Names(Resolved(m))
    <2>1. [who |-> e.who, form |-> "oid"] \in Resolved(m)
      BY DEF Resolved
    <2>2. [who |-> e.who, form |-> "oid"].who = e.who
      OBVIOUS
    <2> QED
      BY <2>1, <2>2 DEF Names
  <1>3. ASSUME NEW e \in Resolved(m) PROVE e.who \in Names(m)
    BY DEF Resolved, Names
  <1>4. \A x : x \in Names(Resolved(m)) <=> x \in Names(m)
    BY <1>2, <1>3 DEF Names
  <1> QED
    BY <1>1, <1>4 DEF Resolved
-----------------------------------------------------------------------------
LEMMA CountedStep ==
    ASSUME Typed, Next
    PROVE  CountTypes' /\ Counted'
  <1> USE DEF Typed
  <1>0. MaxRetries \in Nat
    BY PermissionsAssumption
  <1> DEFINE Good == CountTypes' /\ Counted'
  <1>1. ASSUME NEW c \in Calls, Start(c) PROVE Good
    <2>1. CASE Tool(c) \in {"add", "remove"}
      <3>1. pending' = [pending EXCEPT ![c] = MaxRetries + 1] /\ pc' = [pc EXCEPT ![c] = "write"]
            /\ UNCHANGED <<hits, refusals>> /\ pc[c] = "idle"
        BY <1>1, <2>1 DEF Start, Go
      <3> QED
        BY <1>0, <3>1 DEF CountTypes, Counted, CallTypes
    <2>2. CASE Tool(c) \notin {"add", "remove"}
      <3>1. UNCHANGED pending /\ pc' = [pc EXCEPT ![c] = "read"]
            /\ UNCHANGED <<hits, refusals>> /\ pc[c] = "idle"
        BY <1>1, <2>2 DEF Start, Go
      <3> QED
        BY <3>1 DEF CountTypes, Counted, CallTypes
    <2> QED
      BY <2>1, <2>2
  <1>2. ASSUME NEW c \in Calls, SendMerged(c) PROVE Good
    <2>1. pending' = [pending EXCEPT ![c] = MaxRetries + 1] /\ pc' = [pc EXCEPT ![c] = "write"]
          /\ UNCHANGED <<hits, refusals>> /\ pc[c] = "lookup"
      BY <1>2 DEF SendMerged, Go
    <2> QED
      BY <1>0, <2>1 DEF CountTypes, Counted, CallTypes
  <1>3. ASSUME NEW c \in Calls,
               ReadFails(c) \/ LookupFindsNone(c) \/ AlreadyPresent(c) \/ ConfirmFails(c) \/ List(c) \/ Confirm(c)
        PROVE Good
    <2>1. pc' = [pc EXCEPT ![c] = "done"] /\ UNCHANGED <<pending, hits, refusals>>
      BY <1>3 DEF ReadFails, LookupFindsNone, AlreadyPresent, ConfirmFails, List, Confirm, Return, wireVars
    <2> QED
      BY <2>1 DEF CountTypes, Counted, CallTypes
  <1>4. ASSUME NEW c \in Calls, ReadMailbox(c) PROVE Good
    BY <1>4 DEF ReadMailbox, Go, wireVars, CountTypes, Counted, CallTypes
  <1>5. ASSUME NEW c \in Calls, Conclude(c) \/ WriteSucceeds(c) \/ WriteFails(c) PROVE Good
    <2>1. UNCHANGED <<hits, refusals>> /\ pc[c] = "write" /\ pc' \in {[pc EXCEPT ![c] = "done"], [pc EXCEPT ![c] = "confirm"]}
      BY <1>5 DEF Conclude, WriteSucceeds, WriteFails, Go, Return
    <2>2. pending' = [pending EXCEPT ![c] = 0] \/ pending' = pending
      BY <1>5 DEF Conclude, WriteSucceeds, WriteFails, StopWaiting
    <2> QED
      BY <1>0, <2>1, <2>2 DEF CountTypes, Counted, CallTypes
  <1>6. ASSUME NEW c \in Calls, Apply(c) PROVE Good
    <2>1. /\ pending[c] > 0 /\ pending' = [pending EXCEPT ![c] = @ - 1] /\ UNCHANGED pc
          /\ \/ hits' = [hits EXCEPT ![c] = @ + 1] /\ UNCHANGED refusals
             \/ refusals' = [refusals EXCEPT ![c] = @ + 1] /\ UNCHANGED hits
      BY <1>6 DEF Apply, callVars
    <2>2. CountTypes'
      BY <2>1 DEF CountTypes
    <2>3. \A d \in Calls \ {c} : UNCHANGED <<hits[d], refusals[d], pending[d]>>
      BY <2>1 DEF CountTypes
    <2>4. /\ hits'[c] + refusals'[c] + pending'[c] = hits[c] + refusals[c] + pending[c]
          /\ pc[c] \notin {"idle", "read", "lookup"}
      BY <2>1 DEF CountTypes, Counted
    <2> QED
      BY <2>1, <2>2, <2>3, <2>4 DEF Counted
  <1>7. ASSUME NEW c \in Calls, TakeEffect(c) PROVE Good
    <2>1. /\ pending[c] > 0 /\ pending' = [pending EXCEPT ![c] = @ - 1] /\ UNCHANGED pc
          /\ hits' = [hits EXCEPT ![c] = @ + 1] /\ UNCHANGED refusals
      BY <1>7 DEF TakeEffect, callVars
    <2> QED
      BY <1>0, <2>1 DEF CountTypes, Counted
  <1>8. CASE Normalise \/ Replicate \/ Done
    BY <1>8 DEF Normalise, Replicate, Done, vars, callVars, wireVars, CountTypes, Counted
  <1> QED
    BY <1>1, <1>2, <1>3, <1>4, <1>5, <1>6, <1>7, <1>8 DEF Next, Call

LEMMA CallTypesStep ==
    ASSUME Typed, Next
    PROVE  CallTypes'
  <1> USE DEF Typed
  <1>1. ASSUME NEW c \in Calls, Start(c) \/ SendMerged(c) PROVE CallTypes'
    BY <1>1 DEF Start, SendMerged, Go, CallTypes
  <1>2. ASSUME NEW c \in Calls,
               ReadFails(c) \/ LookupFindsNone(c) \/ AlreadyPresent(c) \/ ConfirmFails(c)
        PROVE CallTypes'
    BY <1>2 DEF ReadFails, LookupFindsNone, AlreadyPresent, ConfirmFails, Return, CallTypes, Replies
  <1>3. ASSUME NEW c \in Calls, Conclude(c) \/ WriteSucceeds(c) \/ WriteFails(c) PROVE CallTypes'
    BY <1>3 DEF Conclude, WriteSucceeds, WriteFails, Go, Return, CallTypes, Replies
  <1>4. ASSUME NEW c \in Calls, List(c) PROVE CallTypes'
    <2>1. \A k \in Rights \X People :
            k[1] = request[c].right => Learned(c, k[2]) \in {"unknown", "held", "flagged", "missing"}
      <3> SUFFICES ASSUME NEW k \in Rights \X People, k[1] = request[c].right
                   PROVE  Learned(c, k[2]) \in {"unknown", "held", "flagged", "missing"}
        OBVIOUS
      <3>1. <<request[c].right, k[2]>> \in Rights \X People
        OBVIOUS
      <3>2. told[<<request[c].right, k[2]>>] \in {"unknown", "held", "flagged", "missing"}
        BY <3>1 DEF CallTypes
      <3> QED
        BY <3>2 DEF Learned
    <2>2. told' \in [Rights \X People -> {"unknown", "held", "flagged", "missing"}]
      BY <1>4, <2>1 DEF List, CallTypes
    <2> QED
      BY <1>4, <2>2 DEF List, Return, CallTypes, Replies
  <1>5. ASSUME NEW c \in Calls, ReadMailbox(c) \/ Confirm(c) PROVE CallTypes'
    <2>1. Shown(home[c]) \in SUBSET Entries
      BY ShownIsState DEF CallTypes
    <2> QED
      BY <1>5, <2>1 DEF ReadMailbox, Confirm, Go, Return, CallTypes, Replies
  <1>6. ASSUME NEW c \in Calls, Apply(c) PROVE CallTypes'
    <2>1. Allow(request[c].right, request[c].who) \in Grants
      BY <1>6, RequestTypes DEF Apply, Allow, Grants
    <2>2. acl' \subseteq Grants
      BY <1>6, <2>1 DEF Apply, Effect, Grant, Removal, CallTypes
    <2>3. told' \in [Rights \X People -> {"unknown", "held", "flagged", "missing"}]
      BY <1>6 DEF Apply, CallTypes
    <2> QED
      BY <1>6, <2>2, <2>3 DEF Apply, callVars, CallTypes
  <1>7. ASSUME NEW c \in Calls, TakeEffect(c) PROVE CallTypes'
    BY <1>7 DEF TakeEffect, callVars, CallTypes
  <1>8. CASE Normalise \/ Replicate \/ Done
    BY <1>8 DEF Normalise, Replicate, Done, vars, callVars, CallTypes
  <1> QED
    BY <1>1, <1>2, <1>3, <1>4, <1>5, <1>6, <1>7, <1>8 DEF Next, Call

LEMMA DirTypesStep ==
    ASSUME Typed, Next
    PROVE  DirTypes'
  <1> USE DEF Typed
  <1>1. ASSUME NEW c \in Calls, TakeEffect(c) PROVE DirTypes'
    BY <1>1, MergedIsList, StoreTypes DEF TakeEffect, CallTypes
  <1>2. CASE Normalise
    BY <1>2, NewestIsState, ResolvedIsList, StoreTypes DEF Normalise
  <1>3. CASE Replicate
    <2>1. PICK s \in Servers : CatchUp(s)
      BY <1>3 DEF Replicate
    <2> QED
      BY <2>1 DEF CatchUp, DirTypes
  <1>4. CASE UNCHANGED <<log, at>>
    BY <1>4 DEF DirTypes
  <1> QED
    BY <1>1, <1>2, <1>3, <1>4 DEF Next, Call, Start, ReadFails, Conclude, List, ReadMailbox,
       LookupFindsNone, AlreadyPresent, SendMerged, WriteSucceeds, WriteFails, Confirm, ConfirmFails,
       Apply, Done, vars

LEMMA TypedStep == Typed /\ [Next]_vars => Typed'
  <1>1. Typed /\ UNCHANGED vars => Typed'
    BY DEF vars, callVars, wireVars, Typed, DirTypes, CallTypes, CountTypes, Counted
  <1> QED
    BY <1>1, CountedStep, CallTypesStep, DirTypesStep DEF Typed

LEMMA TypedAlways == Spec => []Typed
  BY TypedInit, TypedStep, PTL DEF Spec

(* Every variable keeps its type, and no call has more deliveries than tries. *)
THEOREM TypeCorrect == Spec => []TypeOK
  BY TypedAlways, TypesFit, PTL
-----------------------------------------------------------------------------
(* Calls that take turns: one runs, and only its deliveries are out. *)
Turns ==
    orderly =>
        /\ \A c, d \in Running : c = d
        /\ \A c \in Calls : pending[c] > 0 => pc[c] = "write"

(* What Exchange answered to a delivery of the running call still holds. *)
InPlace ==
    orderly => \A c \in Calls :
        Tool(c) \in {"add", "remove"} /\ pc[c] = "write" /\ (hits[c] > 0 \/ refusals[c] > 0)
            => (Held(c) <=> Tool(c) = "add")

Someone(k) == \E g \in acl : g.right = k[1] /\ g.who = k[2]

(* What a listing said is true until it is forgotten. *)
ToldIsSo ==
    \A k \in Rights \X People :
        /\ told[k] = "held" => Allow(k[1], k[2]) \in acl
        /\ told[k] = "missing" => ~Someone(k)

GrantInv == Typed /\ Turns /\ InPlace /\ ToldIsSo

LEMMA GrantInit == Init => GrantInv
  BY TypedInit DEF Init, GrantInv, Turns, InPlace, ToldIsSo, Running

LEMMA TurnsStep ==
    ASSUME GrantInv, Next
    PROVE  Turns'
  <1> SUFFICES ASSUME orderly PROVE Turns'
    <2>1. orderly' = orderly
      BY DEF Next, Call, Start, ReadFails, Conclude, List, ReadMailbox, LookupFindsNone, AlreadyPresent,
             SendMerged, WriteSucceeds, WriteFails, Confirm, ConfirmFails, Apply, TakeEffect, Normalise,
             Replicate, Done, vars, callVars
    <2> QED
      BY <2>1 DEF Turns
  <1> USE DEF GrantInv, Typed
  <1>1. ASSUME NEW c \in Calls, Start(c) PROVE Turns'
    <2>1. pc[c] = "idle" /\ Running = {} /\ \A d \in Calls : ~(pending[d] > 0)
      BY <1>1 DEF Start, Turns, Running
    <2>2. CASE Tool(c) \in {"add", "remove"}
      BY <1>1, <2>1, <2>2 DEF Start, Go, Turns, Running, CallTypes, CountTypes
    <2>3. CASE Tool(c) \notin {"add", "remove"}
      BY <1>1, <2>1, <2>3 DEF Start, Go, Turns, Running, CallTypes, CountTypes
    <2> QED
      BY <2>2, <2>3
  <1>2. ASSUME NEW c \in Calls, SendMerged(c) PROVE Turns'
    BY <1>2 DEF SendMerged, Go, Turns, Running, CallTypes, CountTypes
  <1>3. ASSUME NEW c \in Calls,
               ReadFails(c) \/ LookupFindsNone(c) \/ AlreadyPresent(c) \/ ConfirmFails(c) \/ List(c) \/ Confirm(c)
        PROVE Turns'
    <2>1. pc' = [pc EXCEPT ![c] = "done"] /\ pc[c] # "write" /\ UNCHANGED pending
      BY <1>3 DEF ReadFails, LookupFindsNone, AlreadyPresent, ConfirmFails, List, Confirm, Return, wireVars
    <2> QED
      BY <2>1 DEF Turns, Running, CallTypes
  <1>4. ASSUME NEW c \in Calls, ReadMailbox(c) PROVE Turns'
    BY <1>4 DEF ReadMailbox, Go, wireVars, Turns, Running, CallTypes
  <1>5. ASSUME NEW c \in Calls, Conclude(c) \/ WriteSucceeds(c) \/ WriteFails(c) PROVE Turns'
    <2>1. pc[c] = "write" /\ pc' \in {[pc EXCEPT ![c] = "done"], [pc EXCEPT ![c] = "confirm"]}
      BY <1>5 DEF Conclude, WriteSucceeds, WriteFails, Go, Return
    <2>2. pending' = [pending EXCEPT ![c] = 0]
      BY <1>5 DEF Conclude, WriteSucceeds, WriteFails, StopWaiting
    <2> QED
      BY <2>1, <2>2 DEF Turns, Running, CallTypes, CountTypes
  <1>6. ASSUME NEW c \in Calls, Apply(c) \/ TakeEffect(c) PROVE Turns'
    <2>1. pending[c] > 0 /\ pending' = [pending EXCEPT ![c] = @ - 1] /\ UNCHANGED pc
      BY <1>6 DEF Apply, TakeEffect, callVars
    <2> QED
      BY <2>1 DEF Turns, Running, CountTypes
  <1>7. CASE Normalise \/ Replicate \/ Done
    BY <1>7 DEF Normalise, Replicate, Done, vars, callVars, wireVars, Turns, Running
  <1> QED
    BY <1>1, <1>2, <1>3, <1>4, <1>5, <1>6, <1>7 DEF Next, Call

LEMMA InPlaceStep ==
    ASSUME GrantInv, Next
    PROVE  InPlace'
  <1> USE DEF GrantInv, Typed
  <1>1. ASSUME UNCHANGED <<acl, orderly, request, hits, refusals>>,
               \A c \in Calls : pc'[c] = "write" => pc[c] = "write" \/ (hits[c] = 0 /\ refusals[c] = 0)
        PROVE InPlace'
    BY <1>1 DEF InPlace, Held, Tool, CountTypes
  <1>2. ASSUME NEW c \in Calls, Call(c) PROVE InPlace'
    <2>1. UNCHANGED <<acl, orderly, request, hits, refusals>>
      BY <1>2 DEF Call, Start, ReadFails, Conclude, List, ReadMailbox, LookupFindsNone, AlreadyPresent,
                  SendMerged, WriteSucceeds, WriteFails, Confirm, ConfirmFails, wireVars
    <2>2. \/ pc[c] \in {"idle", "read", "lookup"} /\ \E w : pc' = [pc EXCEPT ![c] = w]
          \/ \E w : pc' = [pc EXCEPT ![c] = w] /\ w # "write"
      BY <1>2 DEF Call, Start, ReadFails, Conclude, List, ReadMailbox, LookupFindsNone, AlreadyPresent,
                  SendMerged, WriteSucceeds, WriteFails, Confirm, ConfirmFails, Go, Return
    <2>3. \A d \in Calls : pc'[d] = "write" => pc[d] = "write" \/ (hits[d] = 0 /\ refusals[d] = 0)
      BY <2>2 DEF CallTypes, Counted
    <2> QED
      BY <1>1, <2>1, <2>3
  <1>3. ASSUME NEW c \in Calls, Apply(c) PROVE InPlace'
    <2> SUFFICES ASSUME orderly, NEW d \in Calls, Tool(d) \in {"add", "remove"}, pc[d] = "write"
                 PROVE  Held(d)' <=> Tool(d) = "add"
      BY <1>3 DEF Apply, callVars, InPlace, Tool
    <2>1. pc[c] = "write" /\ d = c
      BY <1>3 DEF Apply, Turns, Running
    <2>2. Held(c)' <=> Allow(request[c].right, request[c].who) \in acl'
      BY <1>3 DEF Apply, callVars, Held, Allow
    <2>3. CASE Tool(c) = "add"
      BY <1>3, <2>1, <2>2, <2>3 DEF Apply, Effect, Grant, Held
    <2>4. CASE Tool(c) = "remove"
      BY <1>3, <2>1, <2>2, <2>4 DEF Apply, Effect, Removal, Held
    <2> QED
      BY <2>1, <2>3, <2>4
  <1>4. ASSUME NEW c \in Calls, TakeEffect(c) PROVE InPlace'
    <2>1. /\ UNCHANGED <<acl, orderly, request, pc, refusals>> /\ Tool(c) = "delegate"
          /\ \A d \in Calls \ {c} : hits'[d] = hits[d]
      BY <1>4 DEF TakeEffect, callVars, CountTypes
    <2> QED
      BY <2>1 DEF InPlace, Held, Tool
  <1>5. CASE Normalise \/ Replicate \/ Done
    BY <1>1, <1>5 DEF Normalise, Replicate, Done, vars, callVars, wireVars
  <1> QED
    BY <1>2, <1>3, <1>4, <1>5 DEF Next

LEMMA ToldStep ==
    ASSUME GrantInv, Next
    PROVE  ToldIsSo'
  <1> USE DEF GrantInv, Typed
  <1>1. ASSUME UNCHANGED <<acl, told>> PROVE ToldIsSo'
    BY <1>1 DEF ToldIsSo, Someone
  <1>2. ASSUME NEW c \in Calls, List(c) PROVE ToldIsSo'
    <2>1. acl' = acl /\ request[c].who \in People \union {Nobody}
      BY <1>2, RequestTypes DEF List
    <2>2. ASSUME NEW k \in Rights \X People
          PROVE  /\ told'[k] = "held" => Allow(k[1], k[2]) \in acl
                 /\ told'[k] = "missing" => ~Someone(k)
      <3>1. CASE k[1] # request[c].right
        BY <1>2, <3>1 DEF List, ToldIsSo
      <3>2. CASE k[1] = request[c].right
        <4>1. told'[k] = Learned(c, k[2]) /\ k = <<request[c].right, k[2]>>
          BY <1>2, <3>2 DEF List
        <4>2. Allow(request[c].right, k[2]) \in Listed(c) => Allow(k[1], k[2]) \in acl
          BY <3>2 DEF Listed
        <4>3. Someone(k) /\ (request[c].who = k[2] \/ (request[c].who = Nobody /\ k[2] # Self))
                => \E g \in Listed(c) : g.who = k[2]
          <5> SUFFICES ASSUME NEW g \in acl, g.right = k[1], g.who = k[2],
                              request[c].who = k[2] \/ (request[c].who = Nobody /\ k[2] # Self)
                       PROVE  g \in Listed(c)
            BY DEF Someone
          <5>1. k[2] # Nobody
            BY PermissionsAssumption
          <5> QED
            BY <3>2, <5>1 DEF Listed
        <4> QED
          BY <4>1, <4>2, <4>3 DEF Learned, ToldIsSo
      <3> QED
        BY <3>1, <3>2
    <2> QED
      BY <2>1, <2>2 DEF ToldIsSo, Someone
  <1>3. ASSUME NEW c \in Calls, Apply(c) PROVE ToldIsSo'
    <2> DEFINE k0 == <<request[c].right, request[c].who>>
    <2>1. CASE UNCHANGED <<acl, told>>
      BY <1>1, <2>1
    <2>2. CASE acl' = Effect(c) /\ told' = [told EXCEPT ![k0] = "unknown"]
      <3>1. ASSUME NEW k \in Rights \X People, k # k0
            PROVE  /\ Someone(k)' <=> Someone(k)
                   /\ Allow(k[1], k[2]) \in acl' <=> Allow(k[1], k[2]) \in acl
        <4>1. \A g : g.right = k[1] /\ g.who = k[2] => g # Allow(request[c].right, request[c].who)
          BY <3>1 DEF Allow
        <4>2. Allow(k[1], k[2]).right = k[1] /\ Allow(k[1], k[2]).who = k[2]
          BY DEF Allow
        <4> QED
          BY <2>2, <4>1, <4>2 DEF Someone, Effect, Grant, Removal
      <3> QED
        BY <2>2, <3>1 DEF ToldIsSo, CallTypes
    <2> QED
      BY <1>3, <2>1, <2>2 DEF Apply
  <1>4. CASE UNCHANGED <<acl, told>>
    BY <1>1, <1>4
  <1> QED
    BY <1>2, <1>3, <1>4 DEF Next, Call, Start, ReadFails, Conclude, ReadMailbox, LookupFindsNone,
       AlreadyPresent, SendMerged, WriteSucceeds, WriteFails, Confirm, ConfirmFails, TakeEffect,
       Normalise, Replicate, Done, vars

LEMMA GrantStep == GrantInv /\ [Next]_vars => GrantInv'
  <1>1. GrantInv /\ UNCHANGED vars => GrantInv'
    <2> SUFFICES ASSUME GrantInv, UNCHANGED vars PROVE GrantInv'
      OBVIOUS
    <2>1. Typed'
      BY TypedStep DEF GrantInv
    <2> QED
      BY <2>1 DEF vars, callVars, wireVars, GrantInv, Turns, InPlace, ToldIsSo, Running, Held, Tool, Someone
  <1> QED
    BY <1>1, TypedStep, TurnsStep, InPlaceStep, ToldStep DEF GrantInv

(* Only the end of a write says "done" or "refused". *)
LEMMA DefiniteIsConclusion ==
    ASSUME GrantInv, Next, NEW c \in Calls, Returns(c), reply'[c] \in {"done", "refused"}
    PROVE  /\ acl' = acl /\ Tool(c) \in {"add", "remove"} /\ pc[c] = "write"
           /\ reply'[c] = "done" => hits[c] > 0
           /\ reply'[c] = "refused" => refusals[c] > 0
  <1> USE DEF GrantInv, Typed
  <1>1. PICK d \in Calls : Call(d)
    BY DEF Next, Returns, Apply, TakeEffect, Normalise, Replicate, Done, vars, callVars
  <1>2. d = c
    <2>1. \E w : pc' = [pc EXCEPT ![d] = w]
      BY <1>1 DEF Call, Start, ReadFails, Conclude, List, ReadMailbox, LookupFindsNone, AlreadyPresent,
                  SendMerged, WriteSucceeds, WriteFails, Confirm, ConfirmFails, Go, Return
    <2> QED
      BY <2>1 DEF Returns, CallTypes
  <1>3. Conclude(c)
    BY <1>1, <1>2 DEF Call, Start, ReadFails, List, ReadMailbox, LookupFindsNone, AlreadyPresent,
                      SendMerged, WriteSucceeds, WriteFails, Confirm, ConfirmFails, Go, Return,
                      Returns, CallTypes
  <1> QED
    BY <1>3 DEF Conclude, Return, CallTypes

(* For any number of calls that take turns, with any number of retries: the  *)
(* grant is there when it was granted or refused as there already, and gone  *)
(* when it was removed or refused as not there.                              *)
THEOREM DefiniteAnswers == Spec => DefiniteAnswerHolds
  <1> DEFINE Holds(c) ==
        orderly /\ Returns(c) /\ reply'[c] \in {"done", "refused"} => (Held(c) <=> (Tool(c) = "add"))
  <1>1. GrantInv /\ [Next]_vars => [\A c \in Calls : Holds(c)]_vars
    <2> SUFFICES ASSUME GrantInv, Next, NEW c \in Calls, orderly, Returns(c),
                        reply'[c] \in {"done", "refused"}
                 PROVE  Held(c) <=> Tool(c) = "add"
      OBVIOUS
    <2> QED
      BY DefiniteIsConclusion DEF GrantInv, InPlace
  <1> QED
    BY <1>1, GrantInit, GrantStep, PTL DEF Spec, DefiniteAnswerHolds

(* And whoever lists first, and grants where nothing is listed or removes a  *)
(* grant that is, is refused only by the retry of a write that took effect.  *)
THEOREM LookFirst == Spec => CheckFirstThenAct
  <1> DEFINE Sound(c) ==
        orderly /\ Returns(c) /\ reply'[c] = "refused" /\ hits[c] = 0 =>
            LET known == told[<<request[c].right, request[c].who>>] IN
            /\ Tool(c) = "add" => known # "missing"
            /\ Tool(c) = "remove" => known # "held"
  <1>1. GrantInv /\ [Next]_vars => [\A c \in Calls : Sound(c)]_vars
    <2> SUFFICES ASSUME GrantInv, Next, NEW c \in Calls, orderly, Returns(c), reply'[c] = "refused"
                 PROVE  Sound(c)
      OBVIOUS
    <2> DEFINE k == <<request[c].right, request[c].who>>
    <2>1. /\ Tool(c) \in {"add", "remove"} /\ (Held(c) <=> Tool(c) = "add")
          /\ k \in Rights \X People
      BY DefiniteIsConclusion, RequestTypes DEF GrantInv, Typed, InPlace
    <2>2. Held(c) => Someone(k)
      BY DEF Held, Someone, Allow
    <2>3. told[k] = "held" => Held(c)
      BY <2>1 DEF GrantInv, ToldIsSo, Held
    <2> QED
      BY <2>1, <2>2, <2>3 DEF GrantInv, ToldIsSo
  <1> QED
    BY <1>1, GrantInit, GrantStep, PTL DEF Spec, CheckFirstThenAct
-----------------------------------------------------------------------------
Overwritten(c) == \E d \in Calls \ {c} : StaleWrite(d, request[c].who)

(* What is read is a state of the directory. *)
Read ==
    \A c \in Calls : base[c] \in States \union {{}} /\ after[c] \in States \union {{}}

(* What a call has found out by the time it writes and returns. *)
FoundOut(c) ==
    /\ pc[c] # "done" => reply[c] = "none" /\ after[c] = {}
    /\ pc[c] \in {"lookup", "confirm"} => Tool(c) = "delegate"
    /\ pc[c] = "confirm" \/ Granted(c) => Tool(c) = "delegate" /\ hits[c] > 0
    /\ Tool(c) = "delegate" /\ (pc[c] \in {"write", "confirm"} \/ pending[c] > 0 \/ Granted(c)) =>
            request[c].who \notin Strangers /\ base[c] \cap Same(c) = {}
    /\ reply[c] = "already_present" => request[c].who \in Names(base[c])
    /\ reply[c] = "verified" => request[c].who \in Names(after[c])

(* From the state that the server of a writer shows, the delegate stays, but *)
(* for a write without him; and so does, from the start, who was there then. *)
Kept ==
    /\ \A c \in Calls : Tool(c) = "delegate" /\ hits[c] > 0 =>
            \A i \in at[home[c]]..Len(log) : request[c].who \in Names(log[i]) \/ Overwritten(c)
    /\ \A i \in 1..Len(log) : \A p \in Names(log[1]) \ Names(log[i]) :
            \E d \in Calls : StaleWrite(d, p)

(* No stranger is entered, and a name is there as the call wrote it, or as   *)
(* an object id, unless another call wrote it anew.                          *)
WellNamed(m) ==
    /\ Names(m) \cap Strangers = {}
    /\ \A c \in Calls : Tool(c) = "delegate" /\ request[c].who \in Names(m) =>
            Delegate(c, request[c].form) \in m \/ Delegate(c, "oid") \in m \/ Overwritten(c)

Unconfirmed ==
    \A c \in Calls : reply[c] = "unverified" /\ after[c] # {} =>
        Delegate(c, "oid") \in after[c] \/ Overwritten(c)

DelegateInv ==
    /\ Typed /\ Read /\ Kept /\ Unconfirmed
    /\ \A c \in Calls : FoundOut(c)
    /\ \A m \in States : WellNamed(m)

LEMMA DelegateInit == Init => DelegateInv
  <1> SUFFICES ASSUME Init PROVE DelegateInv
    OBVIOUS
  <1>1. Typed
    BY TypedInit
  <1>2. PICK v \in {{}} \union {{[who |-> p, form |-> "oid"]} : p \in Recipients} : log = <<v>>
    BY DEF Init, DirectoryInit
  <1>3. Len(log) = 1 /\ log[1] = v /\ States = {v}
    BY <1>2 DEF States
  <1>4. Read /\ Unconfirmed /\ \A c \in Calls : FoundOut(c)
    BY PermissionsAssumption DEF Init, Read, Unconfirmed, FoundOut, Granted
  <1>5. Kept
    BY <1>3 DEF Init, Kept
  <1>6. WellNamed(v)
    <2>1. \A e \in v : e.who \in Recipients /\ e = [who |-> e.who, form |-> "oid"]
      BY <1>2
    <2> QED
      BY <2>1, PermissionsAssumption DEF WellNamed, Names, Delegate
  <1> QED
    BY <1>1, <1>3, <1>4, <1>5, <1>6 DEF DelegateInv

(* What no step changes, or only lets grow. *)
LEMMA Steady ==
    ASSUME Typed, Next
    PROVE  /\ UNCHANGED <<request, home>>
           /\ Len(log) \in Nat /\ Len(log') \in Nat /\ Len(log) <= Len(log')
           /\ \A i \in 1..Len(log) : log'[i] = log[i]
           /\ \A s \in Servers : at[s] \in Nat /\ at'[s] \in Nat /\ at[s] <= at'[s]
           /\ \A d \in Calls : hits[d] \in Nat /\ hits'[d] \in Nat /\ hits[d] <= hits'[d]
           /\ \A d \in Calls : pc[d] \notin {"idle", "read"} => base'[d] = base[d]
  <1> USE DEF Typed
  <1>1. /\ UNCHANGED <<request, home>>
        /\ \A d \in Calls : pc[d] \notin {"idle", "read"} => base'[d] = base[d]
    BY DEF Next, Call, Start, ReadFails, Conclude, List, ReadMailbox, LookupFindsNone, AlreadyPresent,
           SendMerged, WriteSucceeds, WriteFails, Confirm, ConfirmFails, Apply, TakeEffect, Normalise,
           Replicate, Done, vars, callVars, CallTypes
  <1>2. \A d \in Calls : hits[d] \in Nat /\ hits'[d] \in Nat /\ hits[d] <= hits'[d]
    <2>1. hits' = hits \/ \E c \in Calls : hits' = [hits EXCEPT ![c] = @ + 1]
      BY DEF Next, Call, Start, ReadFails, Conclude, List, ReadMailbox, LookupFindsNone, AlreadyPresent,
             SendMerged, WriteSucceeds, WriteFails, Confirm, ConfirmFails, Apply, TakeEffect, Normalise,
             Replicate, Done, vars, wireVars
    <2> QED
      BY <2>1 DEF CountTypes
  <1>3. \/ UNCHANGED <<log, at>>
        \/ \E s \in Servers : CatchUp(s)
        \/ \E s \in Servers, v \in SUBSET Entries : Store(s, v)
    <2>1. ASSUME NEW c \in Calls, TakeEffect(c) PROVE \E s \in Servers, v \in SUBSET Entries : Store(s, v)
      BY <2>1, MergedIsList DEF TakeEffect, CallTypes
    <2>2. CASE Normalise
      BY <2>2, NewestIsState, ResolvedIsList DEF Normalise
    <2> QED
      BY <2>1, <2>2 DEF Next, Call, Start, ReadFails, Conclude, List, ReadMailbox, LookupFindsNone,
         AlreadyPresent, SendMerged, WriteSucceeds, WriteFails, Confirm, ConfirmFails, Apply, Replicate,
         Done, vars
  <1> DEFINE Grown ==
        /\ Len(log) \in Nat /\ Len(log') \in Nat /\ Len(log) <= Len(log')
        /\ \A i \in 1..Len(log) : log'[i] = log[i]
        /\ \A s \in Servers : at[s] \in Nat /\ at'[s] \in Nat /\ at[s] <= at'[s]
  <1>4. Grown
    <2>1. CASE UNCHANGED <<log, at>>
      BY <2>1 DEF DirTypes
    <2>2. ASSUME NEW s \in Servers, CatchUp(s) PROVE Grown
      BY <2>2 DEF CatchUp, DirTypes
    <2>3. ASSUME NEW s \in Servers, NEW v \in SUBSET Entries, Store(s, v) PROVE Grown
      BY <2>3, StoreTypes DEF DirTypes
    <2> QED
      BY <1>3, <2>1, <2>2, <2>3
  <1> QED
    BY <1>1, <1>2, <1>4

(* A stale write stays one, and a state of the directory its state. *)
LEMMA StaleStays ==
    ASSUME Typed, Next, NEW d \in Calls, NEW p, StaleWrite(d, p)
    PROVE  StaleWrite(d, p)'
  <1>1. pc[d] \notin {"idle", "read", "lookup"}
    BY DEF StaleWrite, Typed, Counted, CountTypes
  <1>2. base'[d] = base[d] /\ request' = request /\ hits'[d] > 0
    BY <1>1, Steady DEF StaleWrite
  <1> QED
    BY <1>2 DEF StaleWrite, Tool, Names

LEMMA OverwrittenStays ==
    ASSUME Typed, Next, NEW c \in Calls, Overwritten(c)
    PROVE  Overwritten(c)'
  <1>1. PICK d \in Calls \ {c} : StaleWrite(d, request[c].who)
    BY DEF Overwritten
  <1>2. StaleWrite(d, request[c].who)'
    <2>1. request' = request
      BY Steady
    <2> DEFINE p == request[c].who
    <2>2. StaleWrite(d, p)
      BY <1>1
    <2> HIDE DEF p
    <2>3. pc[d] \notin {"idle", "read", "lookup"}
      BY <2>2 DEF StaleWrite, Typed, Counted, CountTypes
    <2>4. base'[d] = base[d] /\ hits'[d] > 0
      BY <2>2, <2>3, Steady DEF StaleWrite
    <2> QED
      BY <1>1, <2>1, <2>4 DEF StaleWrite, Tool, Names
  <1> QED
    BY <1>2 DEF Overwritten

LEMMA StatesStay == Typed /\ Next => States \subseteq States'
  <1> SUFFICES ASSUME Typed, Next, NEW i \in 1..Len(log) PROVE log[i] \in States'
    BY DEF States
  <1>1. i \in 1..Len(log') /\ log'[i] = log[i]
    BY Steady
  <1> QED
    BY <1>1 DEF States

LEMMA ReadStep ==
    ASSUME Typed, Read, Next
    PROVE  Read'
  <1> USE DEF Typed
  <1>1. \A m \in States \union {{}} : m \in States' \union {{}}
    BY StatesStay
  <1>2. ASSUME NEW c \in Calls, ReadMailbox(c) PROVE Read'
    <2>1. Shown(home[c]) \in States /\ base' = [base EXCEPT ![c] = Shown(home[c])] /\ after' = after
      BY <1>2, ShownIsState DEF ReadMailbox, CallTypes
    <2> QED
      BY <1>1, <2>1 DEF Read, CallTypes
  <1>3. ASSUME NEW c \in Calls, Confirm(c) PROVE Read'
    <2>1. Shown(home[c]) \in States /\ after' = [after EXCEPT ![c] = Shown(home[c])] /\ base' = base
      BY <1>3, ShownIsState DEF Confirm, CallTypes
    <2> QED
      BY <1>1, <2>1 DEF Read, CallTypes
  <1>4. CASE UNCHANGED <<base, after>>
    BY <1>1, <1>4 DEF Read
  <1> QED
    BY <1>2, <1>3, <1>4 DEF Next, Call, Start, ReadFails, Conclude, List, LookupFindsNone, AlreadyPresent,
       SendMerged, WriteSucceeds, WriteFails, ConfirmFails, Apply, TakeEffect, Normalise, Replicate, Done,
       vars, callVars

(* A call is what its own steps make it. *)
LEMMA OthersLeaveAlone ==
    ASSUME Typed, Next, NEW c \in Calls, ~Call(c), ~Apply(c), ~TakeEffect(c)
    PROVE  /\ UNCHANGED <<pc[c], reply[c], after[c], base[c], hits[c], pending[c]>>
  <1> USE DEF Typed
  <1>1. ASSUME NEW d \in Calls \ {c}, Call(d) \/ Apply(d) \/ TakeEffect(d)
        PROVE UNCHANGED <<pc[c], reply[c], after[c], base[c], hits[c], pending[c]>>
    <2>1. UNCHANGED <<pc[c], reply[c], after[c], base[c]>>
      BY <1>1 DEF Call, Start, ReadFails, Conclude, List, ReadMailbox, LookupFindsNone, AlreadyPresent,
                  SendMerged, WriteSucceeds, WriteFails, Confirm, ConfirmFails, Apply, TakeEffect,
                  callVars, Go, Return, CallTypes
    <2>2. UNCHANGED <<hits[c], pending[c]>>
      BY <1>1 DEF Call, Start, ReadFails, Conclude, List, ReadMailbox, LookupFindsNone, AlreadyPresent,
                  SendMerged, WriteSucceeds, WriteFails, Confirm, ConfirmFails, Apply, TakeEffect,
                  wireVars, StopWaiting, CountTypes
    <2> QED
      BY <2>1, <2>2
  <1>2. CASE Normalise \/ Replicate \/ Done
    BY <1>2 DEF Normalise, Replicate, Done, vars, callVars, wireVars
  <1> QED
    BY <1>1, <1>2 DEF Next

LEMMA FoundOutStep ==
    ASSUME Typed, Next, NEW c \in Calls, FoundOut(c)
    PROVE  FoundOut(c)'
  <1> USE DEF Typed
  <1>r. UNCHANGED request
    BY Steady
  <1>s. /\ UNCHANGED <<Tool(c), Same(c)>>
        /\ base'[c] = base[c] => (base[c] \cap Same(c))' = base[c] \cap Same(c)
    BY <1>r DEF Tool, Same, Delegate
  <1>t. CallTypes' /\ CountTypes' /\ Counted'
    BY TypedStep
  <1>1. CASE UNCHANGED <<pc[c], reply[c], after[c], base[c]>> /\ hits'[c] >= hits[c] /\ pending'[c] <= pending[c]
    BY <1>1, <1>r, <1>s, <1>t DEF FoundOut, Granted, Names, CountTypes
  <1>2. CASE Start(c)
    <2>1. /\ pc[c] = "idle" /\ pc'[c] \in {"read", "write"} /\ UNCHANGED <<reply, after, base, hits>>
          /\ Tool(c) = "delegate" => pc'[c] = "read" /\ pending' = pending
      BY <1>2 DEF Start, Go, CallTypes
    <2>2. reply[c] = "none" /\ pending[c] = 0
      BY <2>1 DEF FoundOut, Counted
    <2> QED
      BY <1>s, <2>1, <2>2 DEF FoundOut, Granted
  <1>3. CASE ReadFails(c) \/ LookupFindsNone(c) \/ List(c)
    <2>1. /\ reply'[c] \in {"error", "invalid_argument", "listed"} /\ pc'[c] = "done"
          /\ pc[c] \in {"read", "lookup"} /\ pending' = pending
      BY <1>3 DEF ReadFails, LookupFindsNone, List, Return, wireVars, CallTypes
    <2>2. pending[c] = 0
      BY <2>1 DEF Counted
    <2> QED
      BY <2>1, <2>2 DEF FoundOut, Granted
  <1>4. CASE ReadMailbox(c)
    <2>1. pc[c] = "read" /\ pc'[c] = "lookup" /\ Tool(c) = "delegate" /\ UNCHANGED <<reply, after, pending>>
      BY <1>4 DEF ReadMailbox, Go, wireVars, CallTypes
    <2>2. pending[c] = 0
      BY <2>1 DEF Counted
    <2> QED
      BY <1>s, <2>1, <2>2 DEF FoundOut, Granted
  <1>5. CASE AlreadyPresent(c)
    <2>1. /\ reply'[c] = "already_present" /\ pc'[c] = "done" /\ pc[c] = "lookup" /\ UNCHANGED <<pending, base>>
          /\ base[c] \cap Same(c) # {}
      BY <1>5 DEF AlreadyPresent, Return, wireVars, CallTypes
    <2>2. pending[c] = 0
      BY <2>1 DEF Counted
    <2>3. request[c].who \in Names(base[c])
      <3>1. PICK e \in base[c] : e \in Same(c)
        BY <2>1
      <3>2. e.who = request[c].who
        BY <3>1 DEF Same, Delegate
      <3> QED
        BY <3>2 DEF Names
    <2> QED
      BY <1>r, <2>1, <2>2, <2>3 DEF FoundOut, Granted, Names
  <1>6. CASE SendMerged(c)
    <2>1. /\ pc[c] = "lookup" /\ pc'[c] = "write" /\ UNCHANGED <<reply, after, base, hits>>
          /\ request[c].who \notin Strangers /\ base[c] \cap Same(c) = {}
      BY <1>6 DEF SendMerged, Go, CallTypes
    <2> QED
      BY <1>r, <1>s, <2>1 DEF FoundOut, Granted
  <1>7. CASE Conclude(c) \/ WriteFails(c)
    <2>1. /\ pc[c] = "write" /\ pc'[c] = "done" /\ reply'[c] \in {"done", "refused", "error"} /\ base' = base
      BY <1>7 DEF Conclude, WriteFails, Return, CallTypes
    <2> QED
      BY <1>r, <1>s, <2>1 DEF FoundOut, Granted
  <1>8. CASE WriteSucceeds(c)
    <2>1. /\ pc[c] = "write" /\ pc'[c] = "confirm" /\ Tool(c) = "delegate" /\ hits[c] > 0
          /\ UNCHANGED <<reply, after, base, hits>>
      BY <1>8 DEF WriteSucceeds, Go, CallTypes
    <2> QED
      BY <1>r, <1>s, <2>1 DEF FoundOut, Granted
  <1>9. CASE Confirm(c) \/ ConfirmFails(c)
    <2>1. /\ pc[c] = "confirm" /\ pc'[c] = "done" /\ reply'[c] \in {"verified", "unverified"}
          /\ UNCHANGED <<base, hits>>
      BY <1>9 DEF Confirm, ConfirmFails, Return, wireVars, CallTypes
    <2>2. reply'[c] = "verified" => request[c].who \in Names(after'[c])
      <3>1. SUFFICES ASSUME reply'[c] = "verified" PROVE request[c].who \in Names(after'[c])
        OBVIOUS
      <3>2. after'[c] = Shown(home[c]) /\ Verified(c, Shown(home[c]))
        BY <1>9, <3>1 DEF Confirm, ConfirmFails, Return, CallTypes
      <3>3. PICK e \in after'[c] : e.who = request[c].who
        BY <3>2 DEF Verified, Delegate
      <3> QED
        BY <3>3 DEF Names
    <2> QED
      BY <1>r, <1>s, <2>1, <2>2 DEF FoundOut, Granted, Names
  <1>10. CASE Apply(c) \/ TakeEffect(c)
    <2>1. UNCHANGED <<pc, reply, after, base>> /\ pending' = [pending EXCEPT ![c] = @ - 1]
      BY <1>10 DEF Apply, TakeEffect, callVars
    <2> QED
      BY <1>1, <2>1, Steady DEF CountTypes
  <1>11. CASE ~Call(c) /\ ~Apply(c) /\ ~TakeEffect(c)
    BY <1>1, <1>11, OthersLeaveAlone DEF CountTypes
  <1> QED
    BY <1>2, <1>3, <1>4, <1>5, <1>6, <1>7, <1>8, <1>9, <1>10, <1>11 DEF Call
-----------------------------------------------------------------------------
(* The state that a write, or the directory itself, adds. *)
LEMMA NewState ==
    ASSUME Typed, Next, NEW i \in 1..Len(log'), i \notin 1..Len(log)
    PROVE  /\ i = Len(log) + 1
           /\ \/ \E d \in Calls : TakeEffect(d) /\ log'[i] = Merged(d) /\ at'[home[d]] = i
              \/ /\ log'[i] = Resolved(Newest) /\ Newest \in SUBSET Entries /\ Newest \in States
                 /\ hits' = hits
  <1> USE DEF Typed
  <1>1. ASSUME NEW d \in Calls, TakeEffect(d)
        PROVE  i = Len(log) + 1 /\ log'[i] = Merged(d) /\ at'[home[d]] = i
    BY <1>1, MergedIsList, StoreTypes DEF TakeEffect, CallTypes
  <1>2. CASE Normalise
    BY <1>2, NewestIsState, ResolvedIsList, StoreTypes DEF Normalise, wireVars
  <1>3. CASE log' = log
    BY <1>3
  <1> QED
    BY <1>1, <1>2, <1>3 DEF Next, Call, Start, ReadFails, Conclude, List, ReadMailbox, LookupFindsNone,
       AlreadyPresent, SendMerged, WriteSucceeds, WriteFails, Confirm, ConfirmFails, Apply, Replicate,
       CatchUp, Done, vars

LEMMA MergedNames ==
    ASSUME NEW d \in Calls
    PROVE  Names(Merged(d)) = Names(base[d]) \union {request[d].who}
  <1>1. Delegate(d, request[d].form).who = request[d].who
    BY DEF Delegate
  <1> QED
    BY <1>1 DEF Merged, Names

(* A write without p in the list it was made from is a stale one. *)
LEMMA WriteIsStale ==
    ASSUME Typed, Next, NEW d \in Calls, TakeEffect(d), NEW p, p \notin Names(base[d])
    PROVE  StaleWrite(d, p)'
  <1>1. Tool(d) = "delegate" /\ hits'[d] > 0 /\ base' = base /\ request' = request
    BY DEF TakeEffect, callVars, Typed, CountTypes
  <1> QED
    BY <1>1 DEF StaleWrite, Tool, Names

LEMMA OverwrittenNow ==
    ASSUME Typed, Next, NEW c \in Calls, NEW d \in Calls \ {c}, TakeEffect(d),
           request[c].who \notin Names(base[d])
    PROVE  Overwritten(c)'
  <1>1. Tool(d) = "delegate" /\ hits'[d] > 0 /\ base' = base /\ request' = request
    BY DEF TakeEffect, callVars, Typed, CountTypes
  <1>2. StaleWrite(d, request[c].who)'
    BY <1>1 DEF StaleWrite, Tool, Names
  <1> QED
    BY <1>2 DEF Overwritten

LEMMA KeptStep ==
    ASSUME DelegateInv, Next
    PROVE  Kept'
  <1> USE DEF DelegateInv
  <1>1. Typed /\ Typed' /\ request' = request /\ home' = home
    BY TypedStep, Steady
  <1>n. Len(log) \in 1..Len(log) /\ Len(log) \in Nat /\ Len(log') \in Nat
    BY Steady DEF Typed, DirTypes
  <1>2. ASSUME NEW c \in Calls, Tool(c) = "delegate", hits'[c] > 0, NEW i \in at'[home[c]]..Len(log')
        PROVE  request[c].who \in Names(log'[i]) \/ Overwritten(c)'
    <2>1. home[c] \in Servers /\ at[home[c]] \in 1..Len(log) /\ at'[home[c]] \in 1..Len(log') /\ i \in 1..Len(log')
      BY <1>1, <1>n DEF Typed, CallTypes, DirTypes
    <2>2. CASE i \in 1..Len(log)
      <3>1. hits[c] > 0
        <4> SUFFICES ASSUME hits[c] = 0 PROVE FALSE
          BY DEF Typed, CountTypes
        <4>1. TakeEffect(c)
          <5>1. ~Apply(c)
            BY <1>2 DEF Apply
          <5>2. ~Call(c)
            BY <1>2 DEF Call, Start, ReadFails, Conclude, List, ReadMailbox, LookupFindsNone, AlreadyPresent,
                        SendMerged, WriteSucceeds, WriteFails, Confirm, ConfirmFails, wireVars
          <5> QED
            BY <1>2, <5>1, <5>2, OthersLeaveAlone
        <4>2. at'[home[c]] = Len(log) + 1
          BY <4>1, MergedIsList, StoreTypes DEF TakeEffect, Typed, CallTypes
        <4> QED
          BY <1>n, <2>2, <4>2
      <3>2. i \in at[home[c]]..Len(log) /\ log'[i] = log[i]
        BY <1>n, <2>1, <2>2, Steady
      <3> QED
        BY <1>1, <1>2, <3>1, <3>2, OverwrittenStays DEF Kept
    <2>3. CASE i \notin 1..Len(log)
      <3>1. ASSUME NEW d \in Calls, TakeEffect(d), log'[i] = Merged(d)
            PROVE  request[c].who \in Names(log'[i]) \/ Overwritten(c)'
        BY <1>1, <3>1, MergedNames, OverwrittenNow
      <3>2. CASE log'[i] = Resolved(Newest) /\ Newest \in SUBSET Entries /\ hits' = hits
        <4>1. Len(log) \in at[home[c]]..Len(log) /\ Names(log'[i]) = Names(log[Len(log)])
          BY <1>n, <2>1, <3>2, ResolvedIsList DEF Newest
        <4> QED
          BY <1>1, <1>2, <3>2, <4>1, OverwrittenStays DEF Kept
      <3> QED
        BY <1>1, <2>1, <2>3, <3>1, <3>2, NewState
    <2> QED
      BY <2>2, <2>3
  <1>3. ASSUME NEW i \in 1..Len(log'), NEW p \in Names(log'[1]) \ Names(log'[i])
        PROVE  \E d \in Calls : StaleWrite(d, p)'
    <2>1. log'[1] = log[1]
      BY <1>n, Steady
    <2>2. ASSUME NEW j \in 1..Len(log), Names(log[j]) = Names(log'[i])
          PROVE  \E d \in Calls : StaleWrite(d, p)'
      <3>1. PICK d \in Calls : StaleWrite(d, p)
        BY <1>3, <2>1, <2>2 DEF Kept
      <3> QED
        BY <1>1, <3>1, StaleStays
    <2>3. CASE i \in 1..Len(log)
      BY <2>2, <2>3, Steady
    <2>4. CASE i \notin 1..Len(log)
      <3>1. ASSUME NEW d \in Calls, TakeEffect(d), log'[i] = Merged(d)
            PROVE  StaleWrite(d, p)'
        BY <1>1, <3>1, MergedNames, WriteIsStale
      <3>2. CASE log'[i] = Resolved(Newest) /\ Newest \in SUBSET Entries
        BY <1>n, <2>2, <3>2, ResolvedIsList DEF Newest
      <3> QED
        BY <1>1, <2>4, <3>1, <3>2, NewState
    <2> QED
      BY <2>3, <2>4
  <1> QED
    BY <1>1, <1>2, <1>3 DEF Kept, Tool

LEMMA WellNamedStep ==
    ASSUME DelegateInv, Next, NEW m \in States'
    PROVE  WellNamed(m)'
  <1> USE DEF DelegateInv
  <1>1. Typed /\ request' = request
    BY Steady
  <1>2. ASSUME NEW v \in States PROVE WellNamed(v)'
    BY <1>1, OverwrittenStays DEF WellNamed, Tool, Delegate
  <1>3. PICK i \in 1..Len(log') : m = log'[i]
    BY DEF States
  <1>4. CASE i \in 1..Len(log)
    BY <1>2, <1>3, <1>4, Steady DEF States
  <1>5. ASSUME NEW d \in Calls, TakeEffect(d), m = Merged(d) PROVE WellNamed(m)'
    <2>1. request[d].who \notin Strangers /\ Names(m) = Names(base[d]) \union {request[d].who}
      BY <1>5, MergedNames DEF TakeEffect, FoundOut
    <2>2. base[d] = {} \/ base[d] \in States
      BY DEF Read
    <2>3. Names(m) \cap Strangers = {}
      BY <2>1, <2>2 DEF WellNamed, Names
    <2>4. ASSUME NEW c \in Calls, Tool(c) = "delegate", request[c].who \in Names(m)
          PROVE  Delegate(c, request[c].form) \in m \/ Delegate(c, "oid") \in m \/ Overwritten(c)'
      <3>1. CASE c = d
        BY <1>5, <3>1 DEF Merged
      <3>2. CASE c # d /\ request[c].who \in Names(base[d])
        <4>1. base[d] \in States /\ base[d] \subseteq m
          BY <1>5, <2>2, <3>2 DEF Names, Merged
        <4> QED
          BY <2>4, <3>2, <4>1, OverwrittenStays DEF WellNamed
      <3>3. CASE c # d /\ request[c].who \notin Names(base[d])
        BY <1>5, <3>3, OverwrittenNow
      <3> QED
        BY <3>1, <3>2, <3>3
    <2> QED
      BY <1>1, <2>3, <2>4 DEF WellNamed, Tool, Delegate, Names
  <1>6. CASE m = Resolved(Newest) /\ Newest \in SUBSET Entries /\ Newest \in States
    <2>1. Names(m) = Names(Newest)
      BY <1>6, ResolvedIsList
    <2>2. ASSUME NEW c \in Calls, request[c].who \in Names(m) PROVE Delegate(c, "oid") \in m
      <3>1. PICK e \in Newest : e.who = request[c].who
        BY <2>1, <2>2 DEF Names
      <3> QED
        BY <1>6, <3>1 DEF Resolved, Delegate
    <2> QED
      BY <1>1, <1>6, <2>1, <2>2 DEF WellNamed, Delegate
  <1> QED
    BY <1>1, <1>3, <1>4, <1>5, <1>6, NewState

LEMMA UnconfirmedStep ==
    ASSUME DelegateInv, Next
    PROVE  Unconfirmed'
  <1> USE DEF DelegateInv
  <1>1. Typed /\ request' = request
    BY Steady
  <1> SUFFICES ASSUME NEW c \in Calls, reply'[c] = "unverified", after'[c] # {}
               PROVE  Delegate(c, "oid") \in after'[c] \/ Overwritten(c)'
    BY <1>1 DEF Unconfirmed, Delegate
  <1>2. CASE UNCHANGED <<reply[c], after[c]>>
    BY <1>1, <1>2, OverwrittenStays DEF Unconfirmed
  <1>3. CASE Confirm(c)
    <2>1. /\ after'[c] = log[at[home[c]]] /\ ~Verified(c, after'[c])
          /\ Tool(c) = "delegate" /\ hits[c] > 0 /\ at[home[c]] \in 1..Len(log) /\ Len(log) \in Nat
      BY <1>3 DEF Confirm, Return, Shown, FoundOut, Typed, CallTypes, DirTypes
    <2>2. Delegate(c, request[c].form) \notin after'[c]
      BY <2>1 DEF Verified
    <2>3. request[c].who \in Names(after'[c]) \/ Overwritten(c)
      BY <2>1 DEF Kept
    <2>4. WellNamed(after'[c])
      BY <2>1 DEF States
    <2> QED
      BY <1>1, <2>1, <2>2, <2>3, <2>4, OverwrittenStays DEF WellNamed
  <1>4. CASE ConfirmFails(c)
    BY <1>4 DEF ConfirmFails, FoundOut
  <1>5. CASE Call(c) /\ ~Confirm(c) /\ ~ConfirmFails(c)
    <2>1. UNCHANGED <<reply, after>> \/ reply'[c] \in Replies \ {"unverified"}
      BY <1>5 DEF Call, Start, ReadFails, Conclude, List, ReadMailbox, LookupFindsNone, AlreadyPresent,
                  SendMerged, WriteSucceeds, WriteFails, Go, Return, Typed, CallTypes, Replies
    <2> QED
      BY <1>2, <2>1
  <1>6. CASE Apply(c) \/ TakeEffect(c)
    BY <1>2, <1>6 DEF Apply, TakeEffect, callVars
  <1> QED
    BY <1>1, <1>2, <1>3, <1>4, <1>5, <1>6, OthersLeaveAlone

LEMMA DelegateStep == DelegateInv /\ [Next]_vars => DelegateInv'
  <1>1. DelegateInv /\ Next => DelegateInv'
    <2> SUFFICES ASSUME DelegateInv, Next PROVE DelegateInv'
      OBVIOUS
    <2>1. Typed' /\ Read'
      BY TypedStep, ReadStep DEF DelegateInv
    <2>2. Kept' /\ Unconfirmed'
      BY KeptStep, UnconfirmedStep
    <2>3. \A c \in Calls : FoundOut(c)'
      BY FoundOutStep DEF DelegateInv
    <2>4. \A m \in States' : WellNamed(m)'
      BY WellNamedStep
    <2> QED
      BY <2>1, <2>2, <2>3, <2>4 DEF DelegateInv
  <1>2. DelegateInv /\ UNCHANGED vars => DelegateInv'
    <2> SUFFICES ASSUME DelegateInv, UNCHANGED vars PROVE DelegateInv'
      OBVIOUS
    <2> USE DEF DelegateInv
    <2>1. Typed' /\ UNCHANGED <<log, at, request, home, base, after, reply, pc, hits, pending>>
      BY TypedStep DEF vars, callVars, wireVars
    <2>2. \A c \in Calls : \A p : StaleWrite(c, p)' <=> StaleWrite(c, p)
      BY <2>1 DEF StaleWrite, Tool, Names
    <2>3. \A c \in Calls : Overwritten(c)' <=> Overwritten(c)
      BY <2>1 DEF Overwritten, StaleWrite, Tool, Names
    <2>4. Read' /\ Unconfirmed' /\ \A c \in Calls : FoundOut(c)'
      BY <2>1, <2>3 DEF Read, States, Unconfirmed, Delegate, FoundOut, Tool, Granted, Same, Names
    <2>5. Kept'
      BY <2>1, <2>2, <2>3 DEF Kept, Tool, Names
    <2>6. \A m \in States' : WellNamed(m)'
      BY <2>1, <2>3 DEF States, WellNamed, Tool, Delegate, Names
    <2> QED
      BY <2>1, <2>4, <2>5, <2>6
  <1> QED
    BY <1>1, <1>2

LEMMA DelegatesAlways == Spec => []DelegateInv
  BY DelegateInit, DelegateStep, PTL DEF Spec

(* A delegate is lost only to a write made from a list he was not in, for    *)
(* any number of calls, servers, retries and late deliveries.                *)
THEOREM LossIsStaleness == Spec => []GrantLostOnlyByStaleWrite
  <1>1. DelegateInv => GrantLostOnlyByStaleWrite
    <2> SUFFICES ASSUME DelegateInv PROVE GrantLostOnlyByStaleWrite
      OBVIOUS
    <2>1. Len(log) \in 1..Len(log) /\ Newest = log[Len(log)]
      BY DEF DelegateInv, Typed, DirTypes, Newest
    <2>2. ASSUME NEW c \in Calls, Granted(c), request[c].who \notin Names(Newest)
          PROVE  Overwritten(c)
      <3>1. Tool(c) = "delegate" /\ hits[c] > 0 /\ at[home[c]] \in 1..Len(log)
        BY <2>2 DEF DelegateInv, FoundOut, Typed, DirTypes, CallTypes
      <3> QED
        BY <2>1, <2>2, <3>1 DEF DelegateInv, Kept
    <2> QED
      BY <2>1, <2>2 DEF GrantLostOnlyByStaleWrite, Overwritten, DelegateInv, Kept
  <1> QED
    BY <1>1, DelegatesAlways, PTL

(* What the tool says of a delegate was so in some state of the directory.   *)
THEOREM DelegateReports == Spec => []DelegateReportsAreTrue
  <1>1. DelegateInv => DelegateReportsAreTrue
    <2> SUFFICES ASSUME DelegateInv PROVE DelegateReportsAreTrue
      OBVIOUS
    <2> USE DEF DelegateInv
    <2>1. \A m \in States : Names(m) \cap Strangers = {}
      BY DEF WellNamed
    <2>2. ASSUME NEW c \in Calls, reply[c] \in {"already_present", "verified"}
          PROVE  \E m \in States : request[c].who \in Names(m)
      BY <2>2 DEF FoundOut, Read, Names
    <2>3. ASSUME NEW c \in Calls, Granted(c), NEW e \in base[c], e.who = request[c].who
          PROVE  e.form \notin {request[c].form, "identity", "smtp", "oid"}
      <3>1. base[c] \cap Same(c) = {}
        BY <2>3 DEF FoundOut
      <3>2. e = Delegate(c, e.form)
        BY <2>3 DEF Typed, CallTypes, Entries, Delegate
      <3> QED
        BY <3>1, <3>2 DEF Same
    <2> QED
      BY <2>1, <2>2, <2>3 DEF DelegateReportsAreTrue, Unconfirmed, Overwritten
  <1> QED
    BY <1>1, DelegatesAlways, PTL
-----------------------------------------------------------------------------
(* With calls that take turns, the newest list names whom the write that is  *)
(* running has put there. *)
Standing ==
    orderly => \A c \in Calls :
        Tool(c) = "delegate" /\ pc[c] = "write" /\ hits[c] > 0 => Names(Newest) = Names(Merged(c))

RetryInv == GrantInv /\ Standing

LEMMA StandingStep ==
    ASSUME RetryInv, Next
    PROVE  Standing'
  <1> USE DEF RetryInv, GrantInv, Typed
  <1>1. ASSUME UNCHANGED <<log, orderly, request, hits>>,
               \A c \in Calls : pc'[c] = "write" => (pc[c] = "write" /\ base'[c] = base[c]) \/ hits[c] = 0
        PROVE Standing'
    <2> SUFFICES ASSUME orderly, NEW d \in Calls, Tool(d) = "delegate", pc'[d] = "write", hits[d] > 0
                 PROVE  Names(Newest)' = Names(Merged(d))'
      BY <1>1 DEF Standing, Tool
    <2>1. pc[d] = "write" /\ base'[d] = base[d]
      BY <1>1 DEF CountTypes
    <2>2. Merged(d)' = Merged(d) /\ Newest' = Newest
      BY <1>1, <2>1 DEF Merged, Delegate, Newest
    <2> QED
      BY <2>1, <2>2 DEF Standing, Names
  <1>2. ASSUME NEW c \in Calls, Call(c) PROVE Standing'
    <2>1. /\ UNCHANGED <<log, orderly, request, hits>>
          /\ \A d \in Calls \ {c} : base'[d] = base[d]
          /\ pc[c] = "write" => base'[c] = base[c]
      BY <1>2 DEF Call, Start, ReadFails, Conclude, List, ReadMailbox, LookupFindsNone, AlreadyPresent,
                  SendMerged, WriteSucceeds, WriteFails, Confirm, ConfirmFails, wireVars, CallTypes
    <2>2. \/ pc[c] \in {"idle", "read", "lookup"} /\ \E w : pc' = [pc EXCEPT ![c] = w]
          \/ \E w : pc' = [pc EXCEPT ![c] = w] /\ w # "write"
      BY <1>2 DEF Call, Start, ReadFails, Conclude, List, ReadMailbox, LookupFindsNone, AlreadyPresent,
                  SendMerged, WriteSucceeds, WriteFails, Confirm, ConfirmFails, Go, Return
    <2>3. \A d \in Calls : pc'[d] = "write" => (pc[d] = "write" /\ base'[d] = base[d]) \/ hits[d] = 0
      BY <2>1, <2>2 DEF CallTypes, Counted
    <2> QED
      BY <1>1, <2>1, <2>3
  <1>3. ASSUME NEW c \in Calls, TakeEffect(c) PROVE Standing'
    <2> SUFFICES ASSUME orderly, NEW d \in Calls, pc[d] = "write"
                 PROVE  Names(Newest)' = Names(Merged(d))'
      BY <1>3 DEF TakeEffect, callVars, Standing
    <2>1. d = c
      BY <1>3 DEF TakeEffect, Turns, Running
    <2>2. log'[Len(log')] = Merged(c)
      BY <1>3, MergedIsList, StoreTypes DEF TakeEffect, CallTypes
    <2>3. Merged(c)' = Merged(c)
      BY <1>3 DEF TakeEffect, callVars, Merged, Delegate
    <2> QED
      BY <2>1, <2>2, <2>3 DEF Newest, Names
  <1>4. CASE Normalise
    <2>1. UNCHANGED <<orderly, request, pc, base, hits>>
      BY <1>4 DEF Normalise, callVars, wireVars
    <2>2. log'[Len(log')] = Resolved(Newest)
      BY <1>4, NewestIsState, ResolvedIsList, StoreTypes DEF Normalise
    <2>3. Names(Newest)' = Names(Newest)
      BY <2>2, NewestIsState, ResolvedIsList DEF Newest, Names
    <2> QED
      BY <2>1, <2>3 DEF Standing, Tool, Merged, Delegate, Names
  <1>5. ASSUME NEW c \in Calls, Apply(c) PROVE Standing'
    <2>1. /\ UNCHANGED <<log, orderly, request, pc, base>> /\ Tool(c) \in {"add", "remove"}
          /\ \A d \in Calls \ {c} : hits'[d] = hits[d]
      BY <1>5 DEF Apply, callVars, CountTypes
    <2>2. \A d \in Calls : Merged(d)' = Merged(d)
      BY <2>1 DEF Merged, Delegate
    <2> QED
      BY <2>1, <2>2 DEF Standing, Newest, Names, Tool
  <1>6. CASE Replicate \/ Done
    BY <1>1, <1>6 DEF Replicate, CatchUp, Done, vars, callVars, wireVars
  <1> QED
    BY <1>2, <1>3, <1>4, <1>5, <1>6 DEF Next

LEMMA RetryAlways == Spec => []RetryInv
  <1>1. Init => RetryInv
    BY GrantInit DEF Init, RetryInv, Standing
  <1>2. RetryInv /\ UNCHANGED vars => Standing'
    BY DEF RetryInv, vars, callVars, wireVars, Standing, Tool, Newest, Merged, Delegate, Names
  <1>3. RetryInv /\ [Next]_vars => RetryInv'
    BY <1>2, GrantStep, StandingStep DEF RetryInv
  <1> QED
    BY <1>1, <1>3, PTL DEF Spec

(* The retry of a write that took effect changes neither the grants nor who  *)
(* may send on behalf, when calls take turns.                                *)
THEOREM RetriesAreHarmless == Spec => RetryChangesNothing
  <1> DEFINE Harmless(c) ==
        orderly /\ hits[c] > 0 =>
            /\ Apply(c) => acl' = acl
            /\ TakeEffect(c) => Names(Newest') = Names(Newest)
  <1>1. RetryInv /\ [Next]_vars => [\A c \in Calls : Harmless(c)]_vars
    <2> SUFFICES ASSUME RetryInv, NEW c \in Calls, orderly, hits[c] > 0
                 PROVE  /\ Apply(c) => acl' = acl
                        /\ TakeEffect(c) => Names(Newest') = Names(Newest)
      OBVIOUS
    <2> USE DEF RetryInv, GrantInv, Typed
    <2>1. ASSUME Apply(c) PROVE acl' = acl
      <3>1. pc[c] = "write" /\ Tool(c) \in {"add", "remove"}
        BY <2>1 DEF Apply, Turns
      <3>2. Held(c) <=> Tool(c) = "add"
        BY <3>1 DEF InPlace
      <3> QED
        BY <2>1, <3>1, <3>2 DEF Apply
    <2>2. ASSUME TakeEffect(c) PROVE Names(Newest') = Names(Newest)
      <3>1. pc[c] = "write" /\ Tool(c) = "delegate"
        BY <2>2 DEF TakeEffect, Turns
      <3>2. log'[Len(log')] = Merged(c)
        BY <2>2, MergedIsList, StoreTypes DEF TakeEffect, CallTypes
      <3> QED
        BY <3>1, <3>2 DEF Standing, Newest, Names
    <2> QED
      BY <2>1, <2>2
  <1> QED
    BY <1>1, RetryAlways, PTL DEF Spec, RetryChangesNothing
-----------------------------------------------------------------------------
(* No delivery of a write is forgotten: it is out, it took effect, or it was *)
(* refused. *)
Conserved(c) ==
    /\ pending[c] + hits[c] + refusals[c] \in {0, MaxRetries + 1}
    /\ pc[c] \in {"write", "confirm"} => WasSent(c)

(* What a step may change for one call. *)
WriteFrame(c) == <<pc[c], reply[c], pending[c], hits[c], refusals[c]>>

LEMMA OtherCalls ==
    ASSUME Typed, NEW c \in Calls, NEW d \in Calls \ {c}, Call(d) \/ Apply(d) \/ TakeEffect(d)
    PROVE  UNCHANGED WriteFrame(c)
  <1> USE DEF Typed
  <1>1. UNCHANGED <<pc[c], reply[c]>>
    BY DEF Call, Start, ReadFails, Conclude, List, ReadMailbox, LookupFindsNone, AlreadyPresent,
           SendMerged, WriteSucceeds, WriteFails, Confirm, ConfirmFails, Apply, TakeEffect,
           callVars, Go, Return, CallTypes
  <1>2. UNCHANGED <<hits[c], pending[c], refusals[c]>>
    BY DEF Call, Start, ReadFails, Conclude, List, ReadMailbox, LookupFindsNone, AlreadyPresent,
           SendMerged, WriteSucceeds, WriteFails, Confirm, ConfirmFails, Apply, TakeEffect,
           wireVars, StopWaiting, CountTypes
  <1> QED
    BY <1>1, <1>2 DEF WriteFrame

(* The steps of one call, by what they do to its write. *)
Issues(c) ==
    /\ pc[c] \in {"idle", "lookup"} /\ pc'[c] = "write"
    /\ pending'[c] = MaxRetries + 1 /\ UNCHANGED <<hits[c], refusals[c]>>

Concludes(c) ==
    /\ pc[c] = "write" /\ UNCHANGED <<pending[c], hits[c], refusals[c]>>
    /\ \/ hits[c] > 0 /\ (pc'[c] = "confirm" \/ (pc'[c] = "done" /\ reply'[c] = "done"))
       \/ pc'[c] = "done" /\ reply'[c] \in {"refused", "error"}

ReadsBack(c) ==
    /\ pc[c] = "confirm" /\ UNCHANGED <<pending[c], hits[c], refusals[c]>>
    /\ pc'[c] = "done" /\ reply'[c] \in {"verified", "unverified"}

StaysUnsent(c) ==
    /\ pc[c] \in {"idle", "read", "lookup"} /\ pc'[c] \notin {"write", "confirm"}
    /\ UNCHANGED <<pending[c], hits[c], refusals[c]>>

LEMMA CallSteps ==
    ASSUME Typed, ~orderly, NEW c \in Calls, Call(c)
    PROVE  Issues(c) \/ Concludes(c) \/ ReadsBack(c) \/ StaysUnsent(c)
  <1> USE DEF Typed
  <1>1. CASE Start(c)
    <2>1. CASE Tool(c) \in {"add", "remove"}
      BY <1>1, <2>1 DEF Start, Go, Issues, CallTypes, CountTypes
    <2>2. CASE Tool(c) \notin {"add", "remove"}
      BY <1>1, <2>2 DEF Start, Go, StaysUnsent, CallTypes, CountTypes
    <2> QED
      BY <2>1, <2>2
  <1>2. CASE SendMerged(c)
    BY <1>2 DEF SendMerged, Go, Issues, CallTypes, CountTypes
  <1>3. CASE Conclude(c) \/ WriteSucceeds(c) \/ WriteFails(c)
    <2>1. pc[c] = "write" /\ UNCHANGED <<pending[c], hits[c], refusals[c]>>
      BY <1>3 DEF Conclude, WriteSucceeds, WriteFails, StopWaiting
    <2>2. \/ hits[c] > 0 /\ (pc'[c] = "confirm" \/ (pc'[c] = "done" /\ reply'[c] = "done"))
          \/ pc'[c] = "done" /\ reply'[c] \in {"refused", "error"}
      BY <1>3 DEF Conclude, WriteSucceeds, WriteFails, Go, Return, CallTypes
    <2> QED
      BY <2>1, <2>2 DEF Concludes
  <1>4. CASE Confirm(c) \/ ConfirmFails(c)
    BY <1>4 DEF Confirm, ConfirmFails, Return, ReadsBack, wireVars, CallTypes
  <1>5. CASE ReadFails(c) \/ List(c) \/ ReadMailbox(c) \/ LookupFindsNone(c) \/ AlreadyPresent(c)
    BY <1>5 DEF ReadFails, List, ReadMailbox, LookupFindsNone, AlreadyPresent, Go, Return, StaysUnsent,
                wireVars, CallTypes
  <1> QED
    BY <1>1, <1>2, <1>3, <1>4, <1>5 DEF Call

(* A delivery is carried out or refused, and then it is out no more. *)
LEMMA DeliverySteps ==
    ASSUME Typed, NEW c \in Calls, Apply(c) \/ TakeEffect(c)
    PROVE  /\ UNCHANGED <<pc[c], reply[c]>>
           /\ pending[c] > 0 /\ pending'[c] = pending[c] - 1
           /\ \/ hits'[c] = hits[c] + 1 /\ refusals'[c] = refusals[c]
              \/ hits'[c] = hits[c] /\ refusals'[c] = refusals[c] + 1
  <1> USE DEF Typed
  <1>1. CASE Apply(c)
    BY <1>1 DEF Apply, callVars, CountTypes
  <1>2. CASE TakeEffect(c)
    BY <1>2 DEF TakeEffect, callVars, CountTypes
  <1> QED
    BY <1>1, <1>2

CmdletInv(c) == Typed /\ ~orderly /\ Conserved(c)

LEMMA ConservedStep ==
    ASSUME NEW c \in Calls, CmdletInv(c), [Next]_vars
    PROVE  CmdletInv(c)'
  <1> USE DEF CmdletInv
  <1>1. Typed' /\ ~orderly'
    <2>1. Next => orderly' = orderly
      BY DEF Next, Call, Start, ReadFails, Conclude, List, ReadMailbox, LookupFindsNone, AlreadyPresent,
             SendMerged, WriteSucceeds, WriteFails, Confirm, ConfirmFails, Apply, TakeEffect, Normalise,
             Replicate, Done, vars, callVars
    <2>2. UNCHANGED vars => orderly' = orderly
      BY DEF vars, callVars
    <2> QED
      BY <2>1, <2>2, TypedStep
  <1>2. /\ pending[c] \in Nat /\ hits[c] \in Nat /\ refusals[c] \in Nat /\ MaxRetries \in Nat
        /\ pc[c] \in {"idle", "read", "lookup"} => hits[c] = 0 /\ refusals[c] = 0 /\ pending[c] = 0
    BY PermissionsAssumption DEF Typed, CountTypes, Counted
  <1>3. CASE UNCHANGED WriteFrame(c)
    BY <1>1, <1>3 DEF WriteFrame, Conserved, WasSent
  <1>4. CASE Call(c)
    <2>1. CASE Issues(c)
      BY <1>1, <1>2, <2>1 DEF Issues, Conserved, WasSent
    <2>2. CASE Concludes(c) \/ ReadsBack(c)
      BY <1>1, <2>2 DEF Concludes, ReadsBack, Conserved, WasSent
    <2>3. CASE StaysUnsent(c)
      BY <1>1, <2>3 DEF StaysUnsent, Conserved, WasSent
    <2> QED
      BY <1>1, <1>4, <2>1, <2>2, <2>3, CallSteps
  <1>5. CASE Apply(c) \/ TakeEffect(c)
    BY <1>1, <1>2, <1>5, DeliverySteps DEF Conserved, WasSent
  <1>6. ASSUME NEW d \in Calls \ {c}, Call(d) \/ Apply(d) \/ TakeEffect(d) PROVE UNCHANGED WriteFrame(c)
    BY <1>6, OtherCalls
  <1>7. CASE Normalise \/ Replicate \/ Done \/ UNCHANGED vars
    BY <1>3, <1>1, <1>7 DEF Normalise, Replicate, Done, vars, callVars, wireVars, WriteFrame
  <1> QED
    BY <1>1, <1>3, <1>4, <1>5, <1>6, <1>7 DEF Next

(* Every write keeps to the contract Transport is proved to fulfil, a refused *)
(* delivery being one without effect: sent once, at most one effect per       *)
(* delivery, one verdict, and a success only after an effect.  Calls that are *)
(* not orderly include those that are, up to the deliveries they give up.     *)
THEOREM WritesAreCmdlets ==
    ASSUME NEW c \in Calls
    PROVE  Spec /\ ~orderly => Write(c)!Spec
  <1> DEFINE E == {1} \X {a \in 0..MaxRetries : a < hits[c]}
  <1>1. Init /\ ~orderly => CmdletInv(c) /\ Write(c)!Init
    <2> SUFFICES ASSUME Init, ~orderly PROVE Conserved(c) /\ Write(c)!Init
      BY TypedInit DEF CmdletInv
    <2>1. pending[c] = 0 /\ hits[c] = 0 /\ refusals[c] = 0 /\ pc[c] = "idle"
      BY DEF Init
    <2>2. ~WasSent(c) /\ Conserved(c)
      BY <2>1 DEF WasSent, Conserved
    <2>3. {a \in 0..MaxRetries : a < hits[c]} = {}
      BY <2>1, PermissionsAssumption
    <2> QED
      BY <2>2, <2>3 DEF WriteOutcome, Write!Init, Write!Invokes
  <1>2. CmdletInv(c) /\ [Next]_vars => [Write(c)!Next]_(Write(c)!vars)
    <2> SUFFICES ASSUME CmdletInv(c), [Next]_vars PROVE [Write(c)!Next]_(Write(c)!vars)
      OBVIOUS
    <2> USE DEF CmdletInv
    <2>0. /\ hits[c] \in Nat /\ pending[c] \in Nat /\ refusals[c] \in Nat /\ MaxRetries \in Nat
          /\ pc[c] \in {"idle", "read", "lookup"} => hits[c] = 0 /\ refusals[c] = 0 /\ pending[c] = 0
      BY PermissionsAssumption DEF Typed, CountTypes, Counted
    <2>1. ASSUME WasSent(c)' <=> WasSent(c), hits'[c] = hits[c], WriteOutcome(c)' = WriteOutcome(c)
          PROVE  UNCHANGED Write(c)!vars
      BY <2>1 DEF Write!vars
    <2>2. ASSUME UNCHANGED WriteFrame(c) PROVE UNCHANGED Write(c)!vars
      BY <2>1, <2>2 DEF WriteFrame, WasSent, WriteOutcome, Granted
    <2>3. CASE Call(c)
      <3>1. CASE Issues(c)
        <4>1. ~WasSent(c) /\ WasSent(c)' /\ hits'[c] = hits[c]
          BY <2>0, <3>1 DEF Issues, WasSent
        <4>2. WriteOutcome(c) = "pending" /\ WriteOutcome(c)' = "pending"
          BY <3>1, <4>1 DEF Issues, WriteOutcome
        <4>3. Write(c)!Issue
          BY <4>1, <4>2 DEF Write!Issue
        <4> QED
          BY <4>3 DEF Write!Next
      <3>2. CASE Concludes(c)
        <4>1. WasSent(c) /\ WasSent(c)' /\ hits'[c] = hits[c] /\ WriteOutcome(c) = "pending"
          BY <3>2 DEF Concludes, Conserved, WasSent, WriteOutcome
        <4>2. \E v \in {"success", "failure"} : WriteOutcome(c)' = v /\ (v = "success" => hits[c] > 0)
          BY <3>2, <4>1 DEF Concludes, WriteOutcome, Granted
        <4>3. hits[c] > 0 => <<1, 0>> \in E
          BY <2>0
        <4>4. ASSUME NEW v PROVE [[i \in 1..1 |-> WriteOutcome(c)] EXCEPT ![1] = v] = [i \in 1..1 |-> v]
          OBVIOUS
        <4>5. UNCHANGED <<IF WasSent(c) THEN 1 ELSE 0, E>>
          BY <4>1
        <4>6. Write(c)!Conclude
          BY <2>0, <4>1, <4>2, <4>3, <4>4, <4>5 DEF Write!Conclude, Write!Attempts
        <4> QED
          BY <4>6 DEF Write!Next
      <3>3. CASE ReadsBack(c)
        <4>1. WasSent(c) /\ WasSent(c)' /\ hits'[c] = hits[c]
          BY <3>3 DEF ReadsBack, Conserved, WasSent
        <4>2. WriteOutcome(c) = "success" /\ WriteOutcome(c)' = "success"
          BY <3>3, <4>1 DEF ReadsBack, WriteOutcome, Granted
        <4> QED
          BY <2>1, <4>1, <4>2
      <3>4. CASE StaysUnsent(c)
        <4>1. ~WasSent(c) /\ ~WasSent(c)' /\ hits'[c] = hits[c]
          BY <2>0, <3>4 DEF StaysUnsent, WasSent
        <4>2. WriteOutcome(c) = "pending" /\ WriteOutcome(c)' = "pending"
          BY <4>1 DEF WriteOutcome
        <4> QED
          BY <2>1, <4>1, <4>2
      <3> QED
        BY <2>3, <3>1, <3>2, <3>3, <3>4, CallSteps
    <2>4. CASE Apply(c) \/ TakeEffect(c)
      <3>1. WasSent(c) /\ WasSent(c)' /\ WriteOutcome(c)' = WriteOutcome(c)
        BY <2>0, <2>4, DeliverySteps DEF WasSent, WriteOutcome, Granted
      <3>2. CASE hits'[c] = hits[c]
        BY <2>1, <3>1, <3>2
      <3>3. CASE hits'[c] = hits[c] + 1
        <4>1. hits[c] \in 0..MaxRetries
          BY <2>0, <2>4, DeliverySteps DEF Conserved
        <4>2. <<1, hits[c]>> \notin E /\ E' = E \union {<<1, hits[c]>>}
          BY <2>0, <3>3, <4>1
        <4>3. Write(c)!TakeEffect
          BY <3>1, <4>1, <4>2 DEF Write!TakeEffect, Write!Attempts
        <4> QED
          BY <4>3 DEF Write!Next
      <3> QED
        BY <2>4, <3>2, <3>3, DeliverySteps
    <2>5. ASSUME NEW d \in Calls \ {c}, Call(d) \/ Apply(d) \/ TakeEffect(d) PROVE UNCHANGED Write(c)!vars
      BY <2>2, <2>5, OtherCalls
    <2>6. CASE Normalise \/ Replicate \/ Done \/ UNCHANGED vars
      BY <2>2, <2>6 DEF Normalise, Replicate, Done, vars, callVars, wireVars, WriteFrame
    <2> QED
      BY <2>3, <2>4, <2>5, <2>6 DEF Next
  <1>3. CmdletInv(c) /\ [Next]_vars => CmdletInv(c)'
    BY ConservedStep
  <1> QED
    BY <1>1, <1>2, <1>3, PTL DEF Spec, Write!Spec
=============================================================================
