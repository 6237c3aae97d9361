--------------------------- MODULE TransportProofs ---------------------------
(***************************************************************************)
(* Theorems about Transport for every number of cmdlets, retries and        *)
(* seconds.  All rest on one inductive invariant, Inv: its parts say where   *)
(* the loop of _post stands, what that means for the deliveries on the wire, *)
(* and what a given verdict can never lose again.                            *)
(***************************************************************************)
EXTENDS Transport, TLAPS

Running == pc \in {"mint", "post", "await", "sleep"}

(* While a cmdlet runs it has no verdict; between cmdlets the last has one.  *)
Control ==
    /\ Running => idx > 0 /\ verdict[idx] = Pending
    /\ ~Running /\ idx > 0 => verdict[idx] # Pending
    /\ \A i \in Invokes : i > idx => verdict[i] = Pending
    /\ pc = "done" => idx > 0
    /\ pc = "mint" => attempt = 0
    /\ pc = "sleep" => attempt < MaxRetries
    /\ pc = "await" => <<idx, attempt>> \in sent

(* The deliveries of the running cmdlet are those of the turns of the loop   *)
(* taken so far, and no later cmdlet has any.                                *)
Loop ==
    /\ \A d \in sent : d[1] <= idx
    /\ pc \in {"mint", "post"} =>
        \A a \in Attempts : <<idx, a>> \in sent <=> a < attempt
    /\ pc \in {"await", "sleep"} =>
        \A a \in Attempts : <<idx, a>> \in sent <=> a <= attempt

(* The token is missing only around the first cmdlet. *)
Tokens ==
    /\ exchanges <= 1
    /\ pc = "mint" => ~token
    /\ pc \in {"post", "await", "sleep"} => token
    /\ ~token =>
        /\ idx <= 1
        /\ idx = 0 \/ pc = "mint" => exchanges = 0
        /\ idx = 1 => verdict[1] # Ok

(* The endpoint decides each delivery once. *)
OneFate == applied \cap refused = {}

(* A refusal verdict rests on a delivery that was refused or never made.     *)
RefusalIsFinal ==
    \A i \in Invokes : verdict[i].code \in RefusalCodes =>
        \A a \in Attempts : <<i, a>> \in sent /\ <<i, a>> \notin refused
                                => <<i, a + 1>> \in sent

SettledHasVerdict == \A d \in settled : verdict[d[1]] # Pending

(* A redirect ends its cmdlet: the exception OkMeansApplied makes, and the   *)
(* blank outcome of the refinement, are never granted after the verdict.     *)
RedirectHasVerdict == \A i \in redirected : verdict[i] # Pending

Inv ==
    /\ TypeOK
    /\ Control
    /\ Loop
    /\ Tokens
    /\ OneFate
    /\ OkMeansApplied
    /\ RefusalIsFinal
    /\ SettledHasVerdict
    /\ RedirectHasVerdict
    /\ NoRerun
    /\ RetryAdviceIsLastResort
-----------------------------------------------------------------------------
(* A sleep is never negative and never exceeds the cap, whatever Retry-After  *)
(* says.                                                                     *)
LEMMA DelayIsCapped ==
    ASSUME NEW asked
    PROVE  RetryDelay(asked) \in 0..MaxBackoff
  BY TransportAssumption DEF RetryDelay

(* The records of the possible verdicts, once and for all. *)
Failures == {Error("upstream_error", TRUE), Error("upstream_error", FALSE),
             Error("unauthorized", FALSE), Raised}

LEMMA VerdictTypes ==
    /\ Pending \in Verdicts /\ Ok \in Verdicts \ {Pending}
    /\ \A v \in Failures : v \in Verdicts /\ v # Pending /\ v # Ok
    /\ UnreadableBody \in Failures
  BY DEF Pending, Ok, Raised, Error, Verdicts, ErrorCodes, RefusalCodes, UnreadableBody,
         Failures

(* What invoke makes of a response. *)
LEMMA ReadFacts ==
    ASSUME NEW r \in Responses
    PROVE  /\ Read(r) \in Verdicts \ {Pending}
           /\ Read(r) = Ok => r \in Successes \union {"redirect"}
           /\ Read(r).code \in RefusalCodes => r \in Refusals
           /\ Read(r).retryable => r \in RetryableStatus \/ r = "broken"
  BY DEF Responses, Successes, Refusals, Read, ParseBody, Classify, UnreadableBody, Raised,
         Ok, Error, Verdicts, ErrorCodes, RefusalCodes, RetryableStatus, Pending

Base == TypeOK /\ Control

LEMMA BaseInit == Init => Base
  <1> SUFFICES ASSUME Init PROVE Base
    OBVIOUS
  <1>1. TypeOK
    <2>1. verdict \in [Invokes -> Verdicts]
      BY VerdictTypes DEF Init
    <2>2. attempt \in Attempts /\ idx \in 0..MaxInvokes
      BY TransportAssumption DEF Init, Attempts
    <2> QED
      BY <2>1, <2>2 DEF Init, TypeOK, PCs
  <1>2. Control
    BY DEF Init, Control, Running
  <1> QED
    BY <1>1, <1>2 DEF Base

(* The two ways a step ends a cmdlet, or puts the client to sleep.           *)
LEMMA ConcludeKeepsBase ==
    ASSUME Base, Running, NEW v \in Verdicts \ {Pending}, Conclude(v)
    PROVE  /\ pc' \in PCs /\ idx' \in 0..MaxInvokes /\ attempt' \in Attempts
           /\ verdict' \in [Invokes -> Verdicts]
           /\ Control'
           /\ \A i \in Invokes : i # idx => verdict'[i] = verdict[i]
           /\ verdict'[idx] = v
  BY TransportAssumption DEF Base, TypeOK, Control, Running, Conclude, PCs, Attempts, Invokes

LEMMA BackOffKeepsBase ==
    ASSUME Base, pc = "await", MayRetry, NEW t \in PostTimes, NEW h, BackOff(t, h)
    PROVE  /\ pc' \in PCs /\ idx' \in 0..MaxInvokes /\ attempt' \in Attempts
           /\ verdict' \in [Invokes -> Verdicts]
           /\ Control'
           /\ spent' \in Nat
  BY TransportAssumption, DelayIsCapped
  DEF Base, TypeOK, Control, Running, BackOff, MayRetry, PCs, Attempts

LEMMA BaseStep == Base /\ [Next]_vars => Base'
  <1> SUFFICES ASSUME Base, [Next]_vars PROVE Base'
    OBVIOUS
  <1> USE TransportAssumption DEF wireVars
  <1>1. CASE Invoke
    BY <1>1 DEF Invoke, Base, TypeOK, Control, Running, PCs, Attempts, Invokes
  <1>2. CASE Return
    BY <1>2 DEF Return, Base, TypeOK, Control, Running, PCs
  <1>3. CASE Mint
    BY <1>3 DEF Mint, Base, TypeOK, Control, Running, PCs
  <1>4. CASE MintFails
    <2>1. PICK v \in Failures : Conclude(v)
      BY <1>4 DEF MintFails, Failures
    <2>2. spent' \in Nat /\ exchanges' \in Nat
      BY <1>4 DEF MintFails, Base, TypeOK
    <2> QED
      BY <1>4, <2>1, <2>2, ConcludeKeepsBase, VerdictTypes
      DEF MintFails, Base, TypeOK, Running
  <1>5. CASE MintRefusesCredential
    BY <1>5, ConcludeKeepsBase, VerdictTypes
    DEF MintRefusesCredential, Failures, Base, TypeOK, Running
  <1>6. CASE Post
    BY <1>6 DEF Post, Base, TypeOK, Control, Running, PCs, Invokes, Deliveries
  <1>7. CASE Fault
    <2> PICK t \in PostTimes : NetworkOutcome(t)
      BY <1>7 DEF Fault
    <2>1. CASE MayRetry
      BY <1>7, <2>1, BackOffKeepsBase DEF Fault, NetworkOutcome, Base, TypeOK
    <2>2. CASE ~MayRetry
      <3>1. spent' \in Nat
        BY <2>2 DEF NetworkOutcome, Base, TypeOK
      <3> QED
        BY <1>7, <2>2, <3>1, ConcludeKeepsBase, VerdictTypes
        DEF Fault, NetworkOutcome, Failures, Base, TypeOK, Running
    <2> QED
      BY <2>1, <2>2
  <1>8. CASE Garbled
    <2>1. spent' \in Nat
      BY <1>8 DEF Garbled, Base, TypeOK
    <2>2. settled' \subseteq sent
      BY <1>8 DEF Garbled, Settle, Base, Control, TypeOK
    <2> QED
      BY <1>8, <2>1, <2>2, ConcludeKeepsBase, VerdictTypes
      DEF Garbled, Base, TypeOK, Running
  <1>9. CASE Retry
    BY <1>9, BackOffKeepsBase DEF Retry, Base, TypeOK
  <1>10. CASE Answer
    <2> PICK r \in Responses, t \in PostTimes :
            /\ spent' = spent + t
            /\ Conclude(Read(r))
            /\ settled' = IF r \in RetryableStatus THEN settled
                          ELSE settled \union {<<idx, attempt>>}
            /\ redirected' = IF r = "redirect" THEN redirected \union {idx} ELSE redirected
      BY <1>10 DEF Answer
    <2>1. Read(r) \in Verdicts \ {Pending}
      BY ReadFacts
    <2>2. spent' \in Nat /\ settled' \subseteq sent /\ redirected' \subseteq Invokes
      BY <1>10 DEF Answer, Base, Control, Running, TypeOK, Invokes
    <2> QED
      BY <1>10, <2>1, <2>2, ConcludeKeepsBase DEF Answer, Base, TypeOK, Running
  <1>11. CASE Wake
    BY <1>11 DEF Wake, Base, TypeOK, Control, Running, PCs, Attempts
  <1>12. CASE Apply
    BY <1>12 DEF Apply, Open, clientVars, Base, TypeOK, Control, Running
  <1>13. CASE Refuse
    BY <1>13 DEF Refuse, Open, clientVars, Base, TypeOK, Control, Running
  <1>14. CASE UNCHANGED vars
    BY <1>14 DEF vars, clientVars, Base, TypeOK, Control, Running
  <1>15. CASE RetryAfterNaN
    <2> PICK t \in PostTimes : BackOff(t, 0) \/ (Conclude(Raised) /\ spent' = spent + t)
      BY <1>15 DEF RetryAfterNaN
    <2>1. CASE BackOff(t, 0)
      BY <1>15, <2>1, BackOffKeepsBase DEF RetryAfterNaN, Base, TypeOK
    <2>2. CASE Conclude(Raised) /\ spent' = spent + t
      <3>1. spent' \in Nat
        BY <2>2 DEF Base, TypeOK
      <3> QED
        BY <1>15, <2>2, <3>1, ConcludeKeepsBase, VerdictTypes
        DEF RetryAfterNaN, Failures, Base, TypeOK, Running
    <2> QED
      BY <2>1, <2>2
  <1> QED
    BY <1>1, <1>2, <1>3, <1>4, <1>5, <1>6, <1>7, <1>8, <1>9, <1>10, <1>11, <1>12, <1>13,
       <1>14, <1>15 DEF Next, Client, Endpoint, Terminated
-----------------------------------------------------------------------------
LEMMA LoopStep == Base /\ Base' /\ Loop /\ [Next]_vars => Loop'
  <1> SUFFICES ASSUME Base, Base', Loop, [Next]_vars PROVE Loop'
    OBVIOUS
  <1> USE TransportAssumption
      DEF Base, TypeOK, Control, Running, Loop, Attempts, Invokes, Deliveries, wireVars
  <1>1. CASE Invoke
    BY <1>1 DEF Invoke
  <1>2. CASE Return
    BY <1>2 DEF Return
  <1>3. CASE Mint
    BY <1>3 DEF Mint
  <1>4. CASE MintFails
    BY <1>4 DEF MintFails, Conclude
  <1>5. CASE MintRefusesCredential
    BY <1>5 DEF MintRefusesCredential, Conclude
  <1>6. CASE Post
    BY <1>6 DEF Post
  <1>7. CASE Fault
    BY <1>7 DEF Fault, NetworkOutcome, BackOff, Conclude
  <1>8. CASE Garbled
    BY <1>8 DEF Garbled, Conclude
  <1>9. CASE Retry
    BY <1>9 DEF Retry, BackOff
  <1>10. CASE Answer
    BY <1>10 DEF Answer, Conclude
  <1>11. CASE Wake
    BY <1>11 DEF Wake
  <1>12. CASE Endpoint
    BY <1>12 DEF Endpoint, Apply, Refuse, clientVars
  <1>13. CASE UNCHANGED vars
    BY <1>13 DEF vars, clientVars
  <1>14. CASE RetryAfterNaN
    BY <1>14 DEF RetryAfterNaN, BackOff, Conclude
  <1> QED
    BY <1>1, <1>2, <1>3, <1>4, <1>5, <1>6, <1>7, <1>8, <1>9, <1>10, <1>11, <1>12, <1>13, <1>14
    DEF Next, Client, Terminated

LEMMA TokensStep == Base /\ Base' /\ Tokens /\ [Next]_vars => Tokens'
  <1> SUFFICES ASSUME Base, Base', Tokens, [Next]_vars PROVE Tokens'
    OBVIOUS
  <1> USE TransportAssumption DEF Base, TypeOK, Control, Running, Tokens, Invokes
  <1>1. CASE Invoke
    BY <1>1, VerdictTypes DEF Invoke, GoesOn
  <1>2. CASE Return
    BY <1>2 DEF Return
  <1>3. CASE Mint
    BY <1>3 DEF Mint
  <1>4. CASE MintFails
    <2>1. PICK v \in Failures : Conclude(v)
      BY <1>4 DEF MintFails, Failures
    <2> QED
      BY <1>4, <2>1, VerdictTypes DEF MintFails, Conclude
  <1>5. CASE MintRefusesCredential
    BY <1>5, VerdictTypes DEF MintRefusesCredential, Conclude, Failures
  <1>6. CASE Post
    BY <1>6 DEF Post
  <1>7. CASE Fault
    BY <1>7 DEF Fault, NetworkOutcome, BackOff, Conclude
  <1>8. CASE Garbled
    BY <1>8 DEF Garbled, Conclude
  <1>9. CASE Retry
    BY <1>9 DEF Retry, BackOff
  <1>10. CASE Answer
    BY <1>10 DEF Answer, Conclude
  <1>11. CASE Wake
    BY <1>11 DEF Wake
  <1>12. CASE Endpoint
    BY <1>12 DEF Endpoint, Apply, Refuse, clientVars
  <1>13. CASE UNCHANGED vars
    BY <1>13 DEF vars, clientVars
  <1>14. CASE RetryAfterNaN
    BY <1>14 DEF RetryAfterNaN, BackOff, Conclude
  <1> QED
    BY <1>1, <1>2, <1>3, <1>4, <1>5, <1>6, <1>7, <1>8, <1>9, <1>10, <1>11, <1>12, <1>13, <1>14
    DEF Next, Client, Terminated
-----------------------------------------------------------------------------
(* How a step touches the wire and the verdicts.  Every invariant below is   *)
(* about these, so the actions are split here once.                          *)
Delivers == sent' = sent \union {<<idx, attempt>>} /\ pc = "post"

VerdictGiven(v) ==
    /\ Running
    /\ v \in Verdicts \ {Pending}
    /\ verdict' = [verdict EXCEPT ![idx] = v]
    /\ UNCHANGED <<idx, sent, applied, refused>>

(* A verdict after an answer from the endpoint, given after the loop's turn  *)
(* attempt; the last attempt for a fault or a retryable status.              *)
Answered(v) ==
    /\ pc = "await"
    /\ VerdictGiven(v)
    /\ settled' \in {settled, settled \union {<<idx, attempt>>}}
    /\ redirected' \in {redirected, redirected \union {idx}}
    /\ v = Ok => <<idx, attempt>> \in applied \/ idx \in redirected'
    /\ v.code \in RefusalCodes => <<idx, attempt>> \in refused
    /\ v.retryable => attempt = MaxRetries \/ <<idx, attempt>> \in settled'

(* A verdict without an access token: nothing was sent. *)
Untold(v) == pc = "mint" /\ VerdictGiven(v) /\ v # Ok /\ UNCHANGED <<settled, redirected>>

Quiet ==
    /\ Invoke \/ UNCHANGED idx
    /\ UNCHANGED <<verdict, sent, applied, refused, settled, redirected>>

LEMMA StepKinds ==
    ASSUME Base, [Next]_vars
    PROVE  \/ Quiet
           \/ Delivers /\ UNCHANGED <<idx, verdict, applied, refused, settled, redirected>>
           \/ \E v \in Verdicts : Answered(v)
           \/ \E v \in Verdicts : Untold(v)
           \/ \E d \in Open : /\ applied' = applied \union {d}
                              /\ UNCHANGED <<idx, verdict, sent, refused, settled, redirected>>
           \/ \E d \in Open : /\ refused' = refused \union {d}
                              /\ UNCHANGED <<idx, verdict, sent, applied, settled, redirected>>
  <1> USE DEF wireVars, clientVars
  <1>1. CASE Invoke \/ Return \/ Mint \/ Retry \/ Wake \/ UNCHANGED vars
    BY <1>1 DEF Invoke, Return, Mint, Retry, BackOff, Wake, vars, Quiet
  <1>2. CASE MintFails \/ MintRefusesCredential
    <2>1. PICK v \in Failures : Conclude(v)
      BY <1>2 DEF MintFails, MintRefusesCredential, Failures
    <2>2. Untold(v)
      BY <1>2, <2>1, VerdictTypes
      DEF MintFails, MintRefusesCredential, Conclude, Untold, VerdictGiven, Running
    <2> QED
      BY <2>1, <2>2, VerdictTypes
  <1>3. CASE Post
    BY <1>3 DEF Post, Delivers
  <1>4. CASE Fault
    <2> PICK t \in PostTimes : NetworkOutcome(t)
      BY <1>4 DEF Fault
    <2>1. CASE MayRetry
      BY <1>4, <2>1 DEF Fault, NetworkOutcome, BackOff, Quiet
    <2>2. CASE ~MayRetry
      <3> DEFINE v == Error("upstream_error", TRUE)
      <3>1. attempt = MaxRetries
        BY <2>2, TransportAssumption DEF MayRetry, Base, TypeOK, Attempts
      <3>2. v \in Verdicts /\ v # Pending /\ v # Ok /\ v.code \notin RefusalCodes
        BY VerdictTypes DEF Failures, Error, RefusalCodes
      <3>3. Conclude(v)
        BY <2>2 DEF NetworkOutcome
      <3> HIDE DEF v
      <3>4. Answered(v)
        BY <1>4, <3>1, <3>2, <3>3 DEF Fault, Conclude, Answered, VerdictGiven, Running
      <3> QED
        BY <3>2, <3>4
    <2> QED
      BY <2>1, <2>2
  <1>5. CASE Garbled
    <2> DEFINE v == UnreadableBody
    <2>1. v \in Verdicts /\ v # Pending /\ v # Ok /\ v.code \notin RefusalCodes /\ ~v.retryable
      BY VerdictTypes DEF UnreadableBody, Error, RefusalCodes
    <2>2. Conclude(v)
      BY <1>5 DEF Garbled
    <2> HIDE DEF v
    <2>3. Answered(v)
      BY <1>5, <2>1, <2>2 DEF Garbled, Settle, Conclude, Answered, VerdictGiven, Running
    <2> QED
      BY <2>1, <2>3
  <1>6. CASE Answer
    <2> PICK r \in Responses :
            /\ r \in RetryableStatus => ~MayRetry
            /\ Possible(r)
            /\ Conclude(Read(r))
            /\ settled' = IF r \in RetryableStatus THEN settled
                          ELSE settled \union {<<idx, attempt>>}
            /\ redirected' = IF r = "redirect" THEN redirected \union {idx} ELSE redirected
      BY <1>6 DEF Answer
    <2> DEFINE v == Read(r)
    <2>1. /\ v \in Verdicts \ {Pending}
          /\ v = Ok => <<idx, attempt>> \in applied \/ idx \in redirected'
          /\ v.code \in RefusalCodes => <<idx, attempt>> \in refused
      BY ReadFacts DEF Possible
    <2>2. v.retryable => attempt = MaxRetries \/ <<idx, attempt>> \in settled'
      BY ReadFacts, TransportAssumption DEF MayRetry, Base, TypeOK, Attempts, RetryableStatus
    <2>3. Conclude(v)
      OBVIOUS
    <2> HIDE DEF v
    <2>4. Answered(v)
      BY <1>6, <2>1, <2>2, <2>3 DEF Answer, Conclude, Answered, VerdictGiven, Running
    <2> QED
      BY <2>1, <2>4
  <1>7. CASE Apply
    BY <1>7 DEF Apply
  <1>8. CASE Refuse
    BY <1>8 DEF Refuse
  <1>9. CASE RetryAfterNaN
    <2> PICK t \in PostTimes : BackOff(t, 0) \/ (Conclude(Raised) /\ spent' = spent + t)
      BY <1>9 DEF RetryAfterNaN
    <2>1. CASE BackOff(t, 0)
      BY <1>9, <2>1 DEF RetryAfterNaN, BackOff, Quiet
    <2>2. CASE Conclude(Raised)
      <3> DEFINE v == Raised
      <3>1. v \in Verdicts /\ v # Pending /\ v # Ok /\ v.code \notin RefusalCodes /\ ~v.retryable
        BY VerdictTypes DEF Failures, Raised, RefusalCodes
      <3>2. Conclude(v)
        BY <2>2
      <3> HIDE DEF v
      <3>3. Answered(v)
        BY <1>9, <3>1, <3>2 DEF RetryAfterNaN, Conclude, Answered, VerdictGiven, Running
      <3> QED
        BY <3>1, <3>3
    <2> QED
      BY <2>1, <2>2
  <1> QED
    BY <1>1, <1>2, <1>3, <1>4, <1>5, <1>6, <1>7, <1>8, <1>9 DEF Next, Client, Endpoint, Terminated
-----------------------------------------------------------------------------
(* What a verdict says of the wire, preserved by each kind of step. *)
Claims ==
    /\ OneFate
    /\ OkMeansApplied
    /\ RefusalIsFinal
    /\ SettledHasVerdict
    /\ RedirectHasVerdict
    /\ NoRerun
    /\ RetryAdviceIsLastResort

LEMMA ClaimsStep == Base /\ Loop /\ Claims /\ [Next]_vars => Claims'
  <1> SUFFICES ASSUME Base, Loop, Claims, [Next]_vars PROVE Claims'
    OBVIOUS
  <1> USE TransportAssumption DEF Base, TypeOK, Control, Running, Invokes, Attempts, Deliveries
  <1>1. CASE Quiet
    <2>1. OneFate' /\ OkMeansApplied' /\ SettledHasVerdict' /\ RedirectHasVerdict' /\ NoRerun'
      BY <1>1 DEF Quiet, Claims, OneFate, OkMeansApplied, SettledHasVerdict, RedirectHasVerdict,
          NoRerun
    <2>2. RefusalIsFinal' /\ RetryAdviceIsLastResort'
      BY <1>1 DEF Quiet, Claims, RefusalIsFinal, RetryAdviceIsLastResort
    <2> QED
      BY <2>1, <2>2 DEF Claims
  <1>2. CASE Delivers /\ UNCHANGED <<idx, verdict, applied, refused, settled, redirected>>
    <2>1. idx \in Invokes /\ verdict[idx] = Pending
      BY <1>2 DEF Delivers
    <2>2. OneFate' /\ OkMeansApplied' /\ SettledHasVerdict' /\ RedirectHasVerdict'
      BY <1>2 DEF Claims, OneFate, OkMeansApplied, SettledHasVerdict, RedirectHasVerdict
    <2>3. RefusalIsFinal'
      BY <1>2, <2>1 DEF Delivers, Claims, RefusalIsFinal, Pending, RefusalCodes
    <2>4. NoRerun'
      BY <1>2, <2>1 DEF Delivers, Claims, SettledHasVerdict, NoRerun
    <2>5. RetryAdviceIsLastResort'
      <3>1. ~verdict[idx].retryable
        BY <2>1 DEF Pending
      <3>2. \A i \in Invokes, a \in Attempts :
                i # idx => (<<i, a>> \in sent' <=> <<i, a>> \in sent)
        BY <1>2 DEF Delivers
      <3> QED
        BY <1>2, <3>1, <3>2 DEF Claims, RetryAdviceIsLastResort
    <2> QED
      BY <2>2, <2>3, <2>4, <2>5 DEF Claims
  <1>3. ASSUME NEW v \in Verdicts, Answered(v) PROVE Claims'
    <2>1. /\ idx \in Invokes /\ v # Pending /\ verdict[idx] = Pending
          /\ verdict' = [verdict EXCEPT ![idx] = v]
          /\ <<idx, attempt>> \in sent
      BY <1>3 DEF Answered, VerdictGiven
    <2>2. \A a \in Attempts : <<idx, a>> \in sent <=> a <= attempt
      BY <1>3 DEF Answered, Loop
    <2>3. OneFate' /\ OkMeansApplied'
      BY <1>3, <2>1 DEF Answered, VerdictGiven, Claims, OneFate, OkMeansApplied
    <2>4. RefusalIsFinal'
      <3> SUFFICES ASSUME NEW i \in Invokes, verdict'[i].code \in RefusalCodes,
                          NEW a \in Attempts, <<i, a>> \in sent, <<i, a>> \notin refused
                   PROVE  <<i, a + 1>> \in sent
        BY <1>3 DEF Answered, VerdictGiven, RefusalIsFinal
      <3>1. CASE i = idx
        <4>1. v.code \in RefusalCodes
          BY <2>1, <3>1
        <4>2. a # attempt /\ a <= attempt
          BY <1>3, <2>2, <3>1, <4>1 DEF Answered
        <4> QED
          BY <2>2, <3>1, <4>2
      <3>2. CASE i # idx
        BY <2>1, <3>2 DEF Claims, RefusalIsFinal
      <3> QED
        BY <3>1, <3>2
    <2>5. SettledHasVerdict' /\ RedirectHasVerdict'
      BY <1>3, <2>1 DEF Answered, Claims, SettledHasVerdict, RedirectHasVerdict
    <2>6. NoRerun'
      BY <1>3, <2>1, <2>2 DEF Answered, VerdictGiven, Claims, NoRerun
    <2>7. RetryAdviceIsLastResort'
      <3> SUFFICES ASSUME NEW i \in Invokes, verdict'[i].retryable
                   PROVE  \/ \A a \in Attempts : <<i, a>> \notin sent
                          \/ \A a \in Attempts : <<i, a>> \in sent
                          \/ \E a \in Attempts : <<i, a>> \in settled'
        BY <1>3 DEF Answered, VerdictGiven, RetryAdviceIsLastResort
      <3>1. CASE i = idx
        <4>1. verdict'[idx] = v
          BY <2>1
        <4>2. attempt = MaxRetries \/ <<idx, attempt>> \in settled'
          BY <1>3, <3>1, <4>1 DEF Answered
        <4>3. CASE attempt = MaxRetries
          BY <2>2, <3>1, <4>3
        <4>4. CASE <<idx, attempt>> \in settled'
          BY <3>1, <4>4
        <4> QED
          BY <4>2, <4>3, <4>4
      <3>2. CASE i # idx
        BY <1>3, <2>1, <3>2 DEF Answered, Claims, RetryAdviceIsLastResort
      <3> QED
        BY <3>1, <3>2
    <2> QED
      BY <2>3, <2>4, <2>5, <2>6, <2>7 DEF Claims
  <1>4. ASSUME NEW v \in Verdicts, Untold(v) PROVE Claims'
    <2>1. /\ idx \in Invokes /\ v # Pending /\ v # Ok
          /\ verdict' = [verdict EXCEPT ![idx] = v]
      BY <1>4 DEF Untold, VerdictGiven
    <2>2. \A a \in Attempts : <<idx, a>> \notin sent
      BY <1>4 DEF Untold, Loop
    <2>3. OneFate' /\ OkMeansApplied' /\ SettledHasVerdict' /\ RedirectHasVerdict' /\ NoRerun'
      BY <1>4, <2>1
      DEF Untold, VerdictGiven, Claims, OneFate, OkMeansApplied, SettledHasVerdict, RedirectHasVerdict,
          NoRerun
    <2>4. RefusalIsFinal' /\ RetryAdviceIsLastResort'
      BY <1>4, <2>1, <2>2
      DEF Untold, VerdictGiven, Claims, RefusalIsFinal, RetryAdviceIsLastResort
    <2> QED
      BY <2>3, <2>4 DEF Claims
  <1>5. ASSUME NEW d \in Open, applied' = applied \union {d},
               UNCHANGED <<idx, verdict, sent, refused, settled, redirected>>
        PROVE  Claims'
    <2>1. OneFate' /\ OkMeansApplied' /\ SettledHasVerdict' /\ RedirectHasVerdict' /\ NoRerun'
      BY <1>5 DEF Open, Claims, OneFate, OkMeansApplied, SettledHasVerdict, RedirectHasVerdict,
          NoRerun
    <2>2. RefusalIsFinal' /\ RetryAdviceIsLastResort'
      BY <1>5 DEF Claims, RefusalIsFinal, RetryAdviceIsLastResort
    <2> QED
      BY <2>1, <2>2 DEF Claims
  <1>6. ASSUME NEW d \in Open, refused' = refused \union {d},
               UNCHANGED <<idx, verdict, sent, applied, settled, redirected>>
        PROVE  Claims'
    <2>1. OneFate' /\ OkMeansApplied' /\ SettledHasVerdict' /\ RedirectHasVerdict' /\ NoRerun'
      BY <1>6 DEF Open, Claims, OneFate, OkMeansApplied, SettledHasVerdict, RedirectHasVerdict,
          NoRerun
    <2>2. RefusalIsFinal' /\ RetryAdviceIsLastResort'
      BY <1>6 DEF Claims, RefusalIsFinal, RetryAdviceIsLastResort
    <2> QED
      BY <2>1, <2>2 DEF Claims
  <1> QED
    BY <1>1, <1>2, <1>3, <1>4, <1>5, <1>6, StepKinds
-----------------------------------------------------------------------------
LEMMA InvInit == Init => Inv
  <1> SUFFICES ASSUME Init PROVE Inv
    OBVIOUS
  <1>1. Base
    BY BaseInit
  <1>2. Loop /\ Tokens /\ OneFate
    BY DEF Init, Loop, Tokens, OneFate
  <1>3. \A i \in Invokes : /\ verdict[i] # Ok
                           /\ verdict[i].code \notin RefusalCodes
                           /\ ~verdict[i].retryable
    BY DEF Init, Pending, Ok, RefusalCodes
  <1>4. Claims
    BY <1>2, <1>3 DEF Init, Claims, OkMeansApplied, RefusalIsFinal, SettledHasVerdict,
                      RedirectHasVerdict, NoRerun,
                      RetryAdviceIsLastResort
  <1> QED
    BY <1>1, <1>2, <1>4 DEF Inv, Base, Claims

LEMMA InvStep == Inv /\ [Next]_vars => Inv'
  <1> SUFFICES ASSUME Inv, [Next]_vars PROVE Inv'
    OBVIOUS
  <1>1. Base /\ Loop /\ Tokens /\ Claims
    BY DEF Inv, Base, Claims
  <1>2. Base'
    BY <1>1, BaseStep
  <1>3. Loop' /\ Tokens'
    BY <1>1, <1>2, LoopStep, TokensStep
  <1>4. Claims'
    BY <1>1, ClaimsStep
  <1> QED
    BY <1>2, <1>3, <1>4 DEF Inv, Base, Claims

THEOREM Invariance == Spec => []Inv
  BY InvInit, InvStep, PTL DEF Spec

(* Every variable keeps its type. *)
THEOREM TypeCorrect == Spec => []TypeOK
  BY Invariance, PTL DEF Inv

(* A success verdict is backed by a delivery the endpoint executed, whatever *)
(* faults, throttling and retries came before it, unless its answer was a    *)
(* redirect.                                                                 *)
THEOREM SuccessIsReal == Spec => []OkMeansApplied
  BY Invariance, PTL DEF Inv

(* A refusal verdict is true of the delivery it answers: whatever took       *)
(* effect was a delivery the loop retried.                                   *)
THEOREM RefusalIsReal == Spec => []RefusalMeansUntouched
  <1>1. Inv => RefusalMeansUntouched
    BY DEF Inv, TypeOK, OneFate, RefusalIsFinal, RefusalMeansUntouched
  <1> QED
    BY <1>1, Invariance, PTL

(* An answered cmdlet is never sent again, also when the answer could not be *)
(* decoded.                                                                  *)
THEOREM AnsweredOnceSentOnce == Spec => []NoRerun
  BY Invariance, PTL DEF Inv

(* One token exchange per tool call, for any number of cmdlets. *)
THEOREM SingleExchange == Spec => []OneExchange
  BY Invariance, PTL DEF Inv, Tokens, OneExchange

(* The caller is told to retry only after the client has itself. *)
THEOREM RetryIsLastResort == Spec => []RetryAdviceIsLastResort
  BY Invariance, PTL DEF Inv
-----------------------------------------------------------------------------
(* Refinement: under the mapping of Abstract, a step of the client or of the *)
(* endpoint is a step of CmdletCall or leaves its variables alone.           *)
OutcomeOf == [i \in Invokes |-> Outcome(i)]

(* The outcome a verdict is mapped to when it is given. *)
Mapped(v) == IF v = Ok THEN IF idx \in redirected' THEN "blank" ELSE "success" ELSE "failure"

LEMMA MappedVerdict ==
    ASSUME TypeOK, NEW v \in Verdicts \ {Pending}, VerdictGiven(v), idx > 0,
           redirected' \in {redirected, redirected \union {idx}}
    PROVE  /\ OutcomeOf' = [OutcomeOf EXCEPT ![idx] = Mapped(v)]
           /\ verdict[idx] = Pending => OutcomeOf[idx] = "pending"
  <1>1. idx \in Invokes
    BY DEF TypeOK, Invokes
  <1>2. verdict' = [verdict EXCEPT ![idx] = v] /\ verdict \in [Invokes -> Verdicts]
    BY DEF VerdictGiven, TypeOK
  <1>3. \A i \in Invokes : OutcomeOf'[i] = IF i = idx THEN Mapped(v) ELSE OutcomeOf[i]
    BY <1>1, <1>2 DEF OutcomeOf, Outcome, Mapped
  <1>4. OutcomeOf' = [i \in Invokes |-> OutcomeOf'[i]]
    BY DEF OutcomeOf
  <1>5. verdict[idx] = Pending => OutcomeOf[idx] = "pending"
    BY <1>1, VerdictTypes DEF OutcomeOf, Outcome
  <1> QED
    BY <1>1, <1>3, <1>4, <1>5 DEF OutcomeOf

LEMMA RefinesInit == Init => Abstract!Init
  <1> SUFFICES ASSUME Init PROVE Abstract!Init
    OBVIOUS
  <1>1. [i \in Invokes |-> Outcome(i)] = [i \in Invokes |-> "pending"]
    <2>1. ASSUME NEW i \in Invokes PROVE Outcome(i) = "pending"
      BY VerdictTypes DEF Init, Outcome
    <2> QED
      BY <2>1
  <1> QED
    BY <1>1 DEF Init, Abstract!Init, Abstract!Invokes, Invokes

(* The outcomes are a function of the verdicts and the redirects. *)
LEMMA Untouched == UNCHANGED <<verdict, redirected>> => UNCHANGED OutcomeOf
  BY DEF OutcomeOf, Outcome

LEMMA RefinesStep == Inv /\ [Next]_vars => [Abstract!Next]_Abstract!vars
  <1> SUFFICES ASSUME Inv, [Next]_vars PROVE [Abstract!Next]_Abstract!vars
    OBVIOUS
  <1> USE DEF Inv
  <1>0. Base
    BY DEF Base
  <1>1. ASSUME Quiet PROVE [Abstract!Next]_Abstract!vars
    <2>0. UNCHANGED OutcomeOf
      BY <1>1, Untouched DEF Quiet
    <2>1. CASE UNCHANGED idx
      BY <1>1, <2>0, <2>1 DEF Quiet, Abstract!vars, OutcomeOf
    <2>2. CASE Invoke
      <3>1. idx > 0 => idx \in Invokes /\ verdict[idx] # Pending
        BY <2>2 DEF Invoke, Control, Running, TypeOK, Invokes
      <3>2. idx > 0 => OutcomeOf[idx] # "pending"
        BY <3>1 DEF OutcomeOf, Outcome
      <3>3. Abstract!Issue
        BY <1>1, <2>0, <2>2, <3>2 DEF Quiet, Invoke, Abstract!Issue, OutcomeOf
      <3> QED
        BY <3>3 DEF Abstract!Next
    <2> QED
      BY <1>1, <2>1, <2>2 DEF Quiet
  <1>2. ASSUME NEW v \in Verdicts, Answered(v) \/ Untold(v)
        PROVE  [Abstract!Next]_Abstract!vars
    <2>1. VerdictGiven(v) /\ v # Pending /\ UNCHANGED <<idx, applied>>
      BY <1>2 DEF Answered, Untold, VerdictGiven
    <2>2. idx > 0 /\ verdict[idx] = Pending
      BY <2>1 DEF VerdictGiven, Control
    <2>3. v = Ok => idx \in redirected' \/ \E a \in Attempts : <<idx, a>> \in applied
      BY <1>2 DEF Answered, Untold, TypeOK
    <2>4. /\ OutcomeOf' = [OutcomeOf EXCEPT ![idx] = Mapped(v)]
          /\ OutcomeOf[idx] = "pending"
      BY <1>2, <2>1, <2>2, MappedVerdict DEF Answered, Untold
    <2>5. Abstract!Conclude
      <3> DEFINE o == Mapped(v)
      <3>1. o \in Abstract!Outcomes \ {"pending"}
        BY DEF Mapped, Abstract!Outcomes
      <3>2. o = "success" => \E a \in Abstract!Attempts : <<idx, a>> \in applied
        BY <2>3 DEF Mapped, Abstract!Attempts, Attempts
      <3>3. OutcomeOf' = [OutcomeOf EXCEPT ![idx] = o]
        BY <2>4
      <3> HIDE DEF o
      <3> QED
        BY <2>1, <2>2, <2>4, <3>1, <3>2, <3>3 DEF Abstract!Conclude, OutcomeOf
    <2> QED
      BY <2>5 DEF Abstract!Next
  <1>3. ASSUME NEW d \in Open, applied' = applied \union {d},
               UNCHANGED <<idx, verdict, sent, refused, settled, redirected>>
        PROVE  [Abstract!Next]_Abstract!vars
    <2>1. PICK i \in 1..idx, a \in Abstract!Attempts : d = <<i, a>>
      BY <1>3 DEF Open, TypeOK, Loop, Deliveries, Invokes, Attempts, Abstract!Attempts
    <2>2. d \notin applied
      BY <1>3 DEF Open
    <2>3. Abstract!TakeEffect
      BY <1>3, <2>1, <2>2, Untouched DEF Abstract!TakeEffect, OutcomeOf
    <2> QED
      BY <2>3 DEF Abstract!Next
  <1>4. CASE UNCHANGED <<idx, verdict, applied, redirected>>
    BY <1>4, Untouched DEF Abstract!vars, OutcomeOf
  <1> QED
    BY <1>0, <1>1, <1>2, <1>3, <1>4, StepKinds

(* The client gives every tool what CmdletCall promises: one verdict per     *)
(* cmdlet in the order they were issued, effects at most once per delivery,  *)
(* and success only with an effect, or blank when a redirect ended it.       *)
THEOREM Refinement == Spec => ImplementsCmdletCall
  BY Invariance, RefinesInit, RefinesStep, PTL DEF Spec, ImplementsCmdletCall, Abstract!Spec
-----------------------------------------------------------------------------
(* Time.  A turn of the loop that is followed by another costs at most Turn; *)
(* the multiplications are named, so that the steps below only add.          *)
Turn == AttemptLimit + MaxBackoff
Turns == [a \in Nat |-> a * Turn]
Before == [i \in Nat \ {0} |-> ExchangeLimit + (i - 1) * PerInvoke]

LEMMA TurnIsNat == Turn \in Nat /\ PerInvoke \in Nat /\ PerInvoke = MaxRetries * Turn + AttemptLimit
  BY TransportAssumption DEF Turn, PerInvoke

LEMMA TurnFacts ==
    ASSUME NEW a \in Nat
    PROVE  /\ Turns[a] \in Nat /\ Turns[a + 1] = Turns[a] + Turn
           /\ a <= MaxRetries => Turns[a] + AttemptLimit <= PerInvoke
  <1> USE TransportAssumption, TurnIsNat
  <1>1. Turns[a] = a * Turn /\ Turns[a] \in Nat /\ Turns[a + 1] = Turns[a] + Turn
    BY DEF Turns
  <1>2. ASSUME a <= MaxRetries PROVE Turns[a] + AttemptLimit <= PerInvoke
    <2>1. a * Turn + (MaxRetries - a) * Turn = MaxRetries * Turn
      BY <1>2
    <2>2. (MaxRetries - a) * Turn >= 0
      BY <1>2
    <2> QED
      BY <1>1, <1>2, <2>1, <2>2
  <1> QED
    BY <1>1, <1>2

LEMMA BeforeFacts ==
    ASSUME NEW i \in Nat \ {0}
    PROVE  /\ Before[i] \in Nat
           /\ Before[i + 1] = Before[i] + PerInvoke
           /\ Before[i + 1] = ExchangeLimit + i * PerInvoke
  <1> USE TransportAssumption, TurnIsNat
  <1>1. (i - 1) * PerInvoke \in Nat /\ i * PerInvoke = (i - 1) * PerInvoke + PerInvoke
    OBVIOUS
  <1>2. /\ Before[i] = ExchangeLimit + (i - 1) * PerInvoke
        /\ Before[i + 1] = ExchangeLimit + i * PerInvoke
    BY DEF Before
  <1> QED
    BY <1>1, <1>2

LEMMA Starts == Turns[0] = 0 /\ Before[1] = ExchangeLimit
  BY TransportAssumption, TurnIsNat DEF Turns, Before

(* The same at the place where the client stands. *)
LEMMA ArithmeticHere ==
    ASSUME TypeOK, idx > 0
    PROVE  /\ PerInvoke \in Nat /\ Before[idx] \in Nat
           /\ Before[idx + 1] = Before[idx] + PerInvoke
           /\ Turns[attempt] \in Nat
           /\ Turns[attempt] + AttemptLimit <= PerInvoke
           /\ Turns[attempt + 1] = Turns[attempt] + AttemptLimit + MaxBackoff
           /\ attempt < MaxRetries => Turns[attempt + 1] <= PerInvoke
  <1>1. idx \in Nat \ {0} /\ attempt \in Nat /\ attempt + 1 \in Nat /\ attempt <= MaxRetries
    BY TransportAssumption DEF TypeOK, Attempts
  <1>2. PerInvoke \in Nat /\ Before[idx] \in Nat /\ Before[idx + 1] = Before[idx] + PerInvoke
    BY <1>1, TurnIsNat, BeforeFacts
  <1>3. /\ Turns[attempt] \in Nat /\ Turns[attempt] + AttemptLimit <= PerInvoke
        /\ Turns[attempt + 1] = Turns[attempt] + Turn
    BY <1>1, TurnFacts
  <1>4. Turns[attempt + 1] = Turns[attempt] + AttemptLimit + MaxBackoff
    BY <1>3, TransportAssumption DEF Turn
  <1>5. attempt < MaxRetries => Turns[attempt + 1] + AttemptLimit <= PerInvoke
    <2> SUFFICES ASSUME attempt < MaxRetries
                 PROVE  Turns[attempt + 1] + AttemptLimit <= PerInvoke
      OBVIOUS
    <2>1. attempt + 1 <= MaxRetries
      BY <1>1, TransportAssumption
    <2> QED
      BY <1>1, <2>1, TurnFacts
  <1> QED
    BY <1>2, <1>3, <1>4, <1>5, TransportAssumption

(* What has been spent wherever the client stands. *)
Clock ==
    /\ idx = 0 \/ pc = "mint" => spent = 0
    /\ pc \in {"post", "await"} => spent <= Before[idx] + Turns[attempt]
    /\ pc = "sleep" => spent <= Before[idx] + Turns[attempt + 1]
    /\ idx > 0 /\ ~Running => spent <= Before[idx] + PerInvoke

LEMMA ClockStep == Base /\ Base' /\ Tokens /\ Clock /\ [Next]_vars => Clock'
  <1> SUFFICES ASSUME Base, Base', Tokens, Clock, [Next]_vars PROVE Clock'
    OBVIOUS
  <1> USE TransportAssumption DEF Base, Control, Running, Tokens, Clock
  <1>0. idx \in Nat /\ attempt \in Nat /\ spent \in Nat /\ pc \in PCs
    BY DEF TypeOK, Attempts
  <1>1. CASE Invoke
    <2>1. Before[1] = ExchangeLimit /\ Turns[0] = 0
      BY Starts
    <2>2. CASE idx = 0
      BY <1>1, <2>1, <2>2 DEF Invoke
    <2>3. CASE idx > 0
      <3>1. token
        <4>1. ~token => idx = 1 /\ verdict[1] # Ok
          BY <1>0, <2>3
        <4> QED
          BY <1>1, <4>1 DEF Invoke, GoesOn
      <3>2. spent <= Before[idx + 1]
        BY <1>1, <2>3, ArithmeticHere DEF Invoke
      <3>3. Before[idx + 1] \in Nat
        BY <1>0, <2>3, BeforeFacts
      <3> QED
        BY <1>0, <1>1, <2>1, <2>3, <3>1, <3>2, <3>3 DEF Invoke
    <2> QED
      BY <1>0, <2>2, <2>3
  <1>2. CASE Return
    BY <1>2 DEF Return
  <1>3. CASE Mint
    BY <1>0, <1>3, Starts DEF Mint
  <1>4. CASE MintFails
    BY <1>0, <1>4, Starts, ArithmeticHere DEF MintFails, Conclude
  <1>5. CASE MintRefusesCredential
    BY <1>0, <1>5, ArithmeticHere DEF MintRefusesCredential, Conclude
  <1>6. CASE Post
    BY <1>6 DEF Post
  <1>7. CASE Fault
    <2> PICK t \in PostTimes : NetworkOutcome(t)
      BY <1>7 DEF Fault
    <2>1. t \in 0..AttemptLimit
      OBVIOUS
    <2>2. CASE MayRetry
      <3>1. PICK d \in 0..MaxBackoff : spent' = spent + t + d
        BY <2>2, DelayIsCapped DEF NetworkOutcome, BackOff
      <3> QED
        BY <1>0, <1>7, <2>1, <2>2, <3>1, ArithmeticHere DEF Fault, NetworkOutcome, BackOff
    <2>3. CASE ~MayRetry
      BY <1>0, <1>7, <2>1, <2>3, ArithmeticHere DEF Fault, NetworkOutcome, Conclude
    <2> QED
      BY <2>2, <2>3
  <1>8. CASE Garbled
    <2>1. PICK t \in 0..AttemptLimit : spent' = spent + t
      BY <1>8 DEF Garbled
    <2> QED
      BY <1>0, <1>8, <2>1, ArithmeticHere DEF Garbled, Conclude
  <1>9. CASE Retry
    <2>1. PICK t \in 0..AttemptLimit, d \in 0..MaxBackoff : spent' = spent + t + d
      BY <1>9, DelayIsCapped DEF Retry, BackOff
    <2> QED
      BY <1>0, <1>9, <2>1, ArithmeticHere DEF Retry, BackOff
  <1>10. CASE Answer
    <2>1. PICK t \in 0..AttemptLimit : spent' = spent + t
      BY <1>10 DEF Answer
    <2> QED
      BY <1>0, <1>10, <2>1, ArithmeticHere DEF Answer, Conclude
  <1>11. CASE Wake
    BY <1>11 DEF Wake
  <1>12. CASE Endpoint
    BY <1>12 DEF Endpoint, Apply, Refuse, clientVars
  <1>13. CASE UNCHANGED vars
    BY <1>13 DEF vars, clientVars
  <1>14. CASE RetryAfterNaN
    <2> PICK t \in PostTimes : BackOff(t, 0) \/ (Conclude(Raised) /\ spent' = spent + t)
      BY <1>14 DEF RetryAfterNaN
    <2>1. t \in 0..AttemptLimit
      OBVIOUS
    <2>2. CASE BackOff(t, 0)
      <3>1. PICK d \in 0..MaxBackoff : spent' = spent + t + d
        BY <2>2, DelayIsCapped DEF BackOff
      <3> QED
        BY <1>0, <1>14, <2>1, <2>2, <3>1, ArithmeticHere DEF RetryAfterNaN, MayRetry, BackOff
    <2>3. CASE Conclude(Raised) /\ spent' = spent + t
      BY <1>0, <1>14, <2>1, <2>3, ArithmeticHere DEF RetryAfterNaN, Conclude
    <2> QED
      BY <2>2, <2>3
  <1> QED
    BY <1>1, <1>2, <1>3, <1>4, <1>5, <1>6, <1>7, <1>8, <1>9, <1>10, <1>11, <1>12, <1>13, <1>14
    DEF Next, Client, Terminated

(* Whatever the endpoint answers and asks for in Retry-After, a tool call of *)
(* idx cmdlets takes no longer than one token exchange and idx times         *)
(* MaxRetries + 1 attempts and MaxRetries capped sleeps, each attempt as     *)
(* long as all the phases of _TIMEOUT together let it be.                    *)
THEOREM TimeIsBounded == Spec => []WorstCase
  <1>1. Init => Clock
    BY DEF Init, Clock, Running
  <1>2. Inv /\ Inv' /\ Clock /\ [Next]_vars => Clock'
    BY ClockStep DEF Inv, Base
  <1>3. Inv /\ Clock => WorstCase
    <2> SUFFICES ASSUME Inv, Clock PROVE WorstCase
      OBVIOUS
    <2>1. CASE idx = 0
      BY <2>1, TransportAssumption DEF Clock, WorstCase, PerInvoke
    <2>2. CASE idx > 0
      <3>1. spent <= Before[idx] + PerInvoke
        BY <2>2, ArithmeticHere, TransportAssumption
        DEF Inv, TypeOK, Control, Running, Clock, PCs
      <3> QED
        BY <2>2, <3>1, BeforeFacts, ArithmeticHere DEF Inv, TypeOK, WorstCase
    <2> QED
      BY <2>1, <2>2 DEF Inv, TypeOK
  <1> QED
    BY <1>1, <1>2, <1>3, Invariance, PTL DEF Spec
-----------------------------------------------------------------------------
(* The steps the client may still take: three for each attempt that is left  *)
(* to the running cmdlet, and a round of all attempts for each later one.    *)
Round == 3 * MaxRetries + 5

InRound(p, a) ==
    CASE p = "done"  -> 0
      [] p = "idle"  -> 1
      [] p = "sleep" -> 3 * (MaxRetries - a) + 1
      [] p = "await" -> 3 * (MaxRetries - a) + 2
      [] p = "post"  -> 3 * (MaxRetries - a) + 3
      [] p = "mint"  -> 3 * MaxRetries + 4

Steps(p, i, a) == (MaxInvokes - i) * Round + InRound(p, a)

Left == Steps(pc, idx, attempt)

LEMMA InRoundIsShort ==
    ASSUME NEW p \in PCs, NEW a \in Attempts
    PROVE  InRound(p, a) \in Nat /\ InRound(p, a) < Round
  BY TransportAssumption DEF PCs, Attempts, InRound, Round

LEMMA RoundsLeft ==
    ASSUME NEW i \in 0..MaxInvokes
    PROVE  (MaxInvokes - i) * Round \in Nat
  <1>1. MaxInvokes - i \in Nat /\ Round \in Nat
    BY TransportAssumption DEF Round
  <1> QED
    BY <1>1

LEMMA StepsIsNat ==
    ASSUME NEW p \in PCs, NEW i \in 0..MaxInvokes, NEW a \in Attempts
    PROVE  Steps(p, i, a) \in Nat
  BY InRoundIsShort, RoundsLeft DEF Steps

(* Within one cmdlet only InRound matters; a new cmdlet uses up a round.     *)
LEMMA SameCmdlet ==
    ASSUME NEW p \in PCs, NEW q \in PCs, NEW i \in 0..MaxInvokes,
           NEW a \in Attempts, NEW b \in Attempts,
           InRound(q, b) < InRound(p, a)
    PROVE  Steps(q, i, b) < Steps(p, i, a)
  <1>1. InRound(p, a) \in Nat /\ InRound(q, b) \in Nat
    BY InRoundIsShort
  <1> QED
    BY <1>1, RoundsLeft DEF Steps

LEMMA NextCmdlet ==
    ASSUME NEW p \in PCs, NEW q \in PCs, NEW i \in 0..MaxInvokes, i < MaxInvokes,
           NEW a \in Attempts, NEW b \in Attempts
    PROVE  Steps(q, i + 1, b) < Steps(p, i, a)
  <1>1. InRound(p, a) \in Nat /\ InRound(q, b) \in Nat /\ InRound(q, b) < Round /\ Round \in Nat
    BY InRoundIsShort, TransportAssumption DEF Round
  <1> DEFINE n == MaxInvokes - (i + 1)
  <1>2. n \in Nat /\ MaxInvokes - i = n + 1
    BY TransportAssumption
  <1> HIDE DEF n
  <1>3. (n + 1) * Round = n * Round + Round /\ n * Round \in Nat
    BY <1>1, <1>2
  <1>4. Steps(p, i, a) = (n + 1) * Round + InRound(p, a)
    BY <1>2 DEF Steps
  <1>5. Steps(q, i + 1, b) = n * Round + InRound(q, b)
    BY DEF Steps, n
  <1> QED
    BY <1>1, <1>3, <1>4, <1>5

LEMMA ProgressStep ==
    ASSUME Base, Base', Client
    PROVE  Left' < Left
  <1>1. /\ pc \in PCs /\ pc' \in PCs
        /\ idx \in 0..MaxInvokes /\ idx' \in 0..MaxInvokes
        /\ attempt \in Attempts /\ attempt' \in Attempts
    BY DEF Base, TypeOK
  <1>2. CASE Invoke
    <2>1. idx' = idx + 1 /\ idx < MaxInvokes
      BY <1>2 DEF Invoke
    <2> QED
      BY <1>1, <2>1, NextCmdlet DEF Left
  <1>3. CASE ~Invoke
    <2>1. idx' = idx
      BY <1>3 DEF Client, Return, Mint, MintFails, MintRefusesCredential, Post, Fault, Garbled,
                  Retry, RetryAfterNaN, Answer, Wake, NetworkOutcome, BackOff, Conclude
    <2>2. InRound(pc', attempt') < InRound(pc, attempt)
      <3> USE TransportAssumption DEF InRound, Attempts
      <3>1. CASE Return
        BY <3>1 DEF Return
      <3>2. CASE Mint
        BY <1>1, <3>2 DEF Mint, Base, Control
      <3>3. CASE MintFails \/ MintRefusesCredential
        <4>1. pc = "mint" /\ pc' = "idle"
          BY <3>3 DEF MintFails, MintRefusesCredential, Conclude
        <4> QED
          BY <4>1
      <3>4. CASE Post
        BY <1>1, <3>4 DEF Post
      <3>5. CASE Fault
        <4>1. pc = "await" /\ attempt' = attempt /\ pc' \in {"sleep", "idle"}
          BY <3>5 DEF Fault, NetworkOutcome, BackOff, Conclude
        <4> QED
          BY <1>1, <4>1
      <3>6. CASE Garbled \/ Answer
        BY <1>1, <3>6 DEF Garbled, Answer, Conclude
      <3>7. CASE Retry
        BY <1>1, <3>7 DEF Retry, BackOff
      <3>8. CASE Wake
        BY <1>1, <3>8 DEF Wake
      <3>9. CASE RetryAfterNaN
        <4>1. pc = "await" /\ attempt' = attempt /\ pc' \in {"sleep", "idle"}
          BY <3>9 DEF RetryAfterNaN, BackOff, Conclude
        <4> QED
          BY <1>1, <4>1
      <3> QED
        BY <1>3, <3>1, <3>2, <3>3, <3>4, <3>5, <3>6, <3>7, <3>8, <3>9 DEF Client
    <2> QED
      BY <1>1, <2>1, <2>2, SameCmdlet DEF Left
  <1> QED
    BY <1>2, <1>3

(* A tool call cannot go on for ever: every step of the client, whatever the *)
(* endpoint answers, leaves it fewer, and no step of the endpoint gives any  *)
(* back.  So the client takes at most MaxInvokes rounds of steps, and, with  *)
(* the fairness of FairSpec this is why Termination holds.                   *)
LeftFalls == Left \in Nat /\ Left' \in Nat /\ Left' <= Left /\ (Client => Left' < Left)

ClientProgresses == [][LeftFalls]_vars

THEOREM EveryStepCounts == Spec => ClientProgresses
  <1>1. Inv /\ Inv' /\ Next => LeftFalls
    <2> SUFFICES ASSUME Inv, Inv', Next PROVE LeftFalls
      OBVIOUS
    <2>1. Base /\ Base'
      BY DEF Inv, Base
    <2>2. Left \in Nat /\ Left' \in Nat
      BY <2>1, StepsIsNat DEF Left, Base, TypeOK
    <2>3. CASE Client
      BY <2>1, <2>2, <2>3, ProgressStep DEF LeftFalls
    <2>4. CASE ~Client
      <3>1. UNCHANGED clientVars
        BY <2>4 DEF Next, Endpoint, Apply, Refuse, Terminated, vars
      <3>2. Left' = Left
        BY <3>1 DEF Left, clientVars
      <3> QED
        BY <2>2, <2>4, <3>2 DEF LeftFalls
    <2> QED
      BY <2>3, <2>4
  <1> QED
    BY <1>1, Invariance, PTL DEF Spec, ClientProgresses
=============================================================================
