----------------------- MODULE GroupMembershipProofs ------------------------
(***************************************************************************)
(* Theorems about GroupMembership for any number of calls, retries and late *)
(* deliveries.  An answer travels from the delivery that earned it over      *)
(* answer[c] to reply[c]; the strengthening says what is known at each       *)
(* stage: about deliveries (Sent, Fresh), answers (Heard), replies (Told)    *)
(* and the deliveries that changed something (Rights).                       *)
(***************************************************************************)
EXTENDS GroupMembership, TLAPS

Unrestricted == Restriction = "none"

(* A delivery is of an attempt already made, and gone once it is taken up.   *)
(* An add is sent only to a group it may be sent to; only adds read first.   *)
Sent ==
    /\ \A d \in wire \union changed : d[2] <= attempt[d[1]]
    /\ wire \cap changed = {}
    /\ \A d \in wire : d[1] \in AddCalls => Unrestricted
    /\ \A c \in AddCalls : pc[c] \in {"members", "write"} => Unrestricted
    /\ \A c \in RemoveCalls : pc[c] \notin {"recipient", "members"}

(* Before its write, a call has sent nothing and heard nothing. *)
Early(c) == pc[c] \notin {"write", "done"}

Fresh ==
    \A c \in Calls : Early(c) =>
        /\ attempt[c] = 0 /\ answer[c] = "none"
        /\ \A d \in wire \union changed : d[1] # c

Rights == \A d \in changed : d[1] \in AddCalls => Unrestricted

(* The delivery whose answer a call waits for, or was its last one. *)
Last(c) == <<c, attempt[c]>>

Heard ==
    \A c \in Calls :
        /\ answer[c] # "none" => Last(c) \notin wire
        /\ answer[c] = "ok" => ChangedBy(c)
        /\ answer[c] = "duplicate" => c \in AddCalls /\ c \in witnessed
        /\ answer[c] \in {"forbidden", "not_manager"} => Last(c) \notin changed

Told ==
    \A c \in Calls :
        /\ reply[c] # "none" => pc[c] = "done"
        /\ reply[c] \in PermissionRefusals => Last(c) \notin wire \union changed
        /\ reply[c] \in Restrictions => c \in AddCalls /\ ~Unrestricted

(* A running call has been there at every moment the member was. *)
Seen == present => Running \subseteq witnessed

Inv == TypeOK /\ Sent /\ Fresh /\ Rights /\ Heard /\ Told /\ Seen /\ AnswersAreTrue

(* What the classification returns, and when it returns nothing. *)
LEMMA Classification ==
    ASSUME TypeOK
    PROVE  /\ Restriction \in Restrictions \union {"none"}
           /\ Unrestricted <=> ~group.synced
                /\ group.type \notin {"DynamicDistributionGroup", "GroupMailbox"}
  BY GroupMembershipAssumption
  DEF TypeOK, Restriction, RestrictionOfType, Restrictions, Unrestricted, AllGroups

(* The group's facts do not change, so neither does what follows from them. *)
LEMMA FactsStay ==
    ASSUME group' = group
    PROVE  Unrestricted' <=> Unrestricted
  BY DEF Unrestricted, Restriction, RestrictionOfType

(* The reply to an answer says no more than the answer. *)
LEMMA ReplyMeaning ==
    ASSUME TypeOK, NEW c \in Calls, answer[c] # "none"
    PROVE  /\ ReplyTo(c) \in Replies \ (Restrictions \union {"none"})
           /\ ReplyTo(c) \in {"added", "removed"} => answer[c] = "ok"
           /\ ReplyTo(c) = "already_member" => answer[c] = "duplicate"
           /\ ReplyTo(c) \in PermissionRefusals => answer[c] \in {"forbidden", "not_manager"}
  BY DEF TypeOK, Answers, ReplyTo, Success, MembershipError, Replies, Restrictions,
         PermissionRefusals

(* What a failed token exchange is reported as. *)
LEMMA TokenReplies ==
    ASSUME NEW c, NEW a \in {"forbidden", "error"}
    PROVE  MembershipError(c, a) \in {"bypass_not_permitted", "error"}
  BY DEF MembershipError

LEMMA InvInit == Init => Inv
  <1> SUFFICES ASSUME Init PROVE Inv
    OBVIOUS
  <1>1. TypeOK
    BY GroupMembershipAssumption DEF Init, TypeOK, Answers, Replies
  <1>2. Sent /\ Fresh /\ Rights /\ Heard /\ Seen
    BY DEF Init, Sent, Fresh, Rights, Heard, Seen, Running, Calls
  <1>3. Told /\ AnswersAreTrue
    BY DEF Init, Told, AnswersAreTrue, Restrictions, PermissionRefusals
  <1> QED
    BY <1>1, <1>2, <1>3 DEF Inv

LEMMA TypeStep == TypeOK /\ [Next]_vars => TypeOK'
  <1> SUFFICES ASSUME TypeOK, [Next]_vars PROVE TypeOK'
    OBVIOUS
  <1> USE GroupMembershipAssumption DEF TypeOK
  <1>1. ASSUME NEW c \in Calls, Start(c) PROVE TypeOK'
    BY <1>1 DEF Start, GoTo
  <1>2. ASSUME NEW c \in Calls, Classify(c) PROVE TypeOK'
    BY <1>2, Classification DEF Classify, GoTo, Return, Replies
  <1>3. ASSUME NEW c \in Calls, ReadFails(c) \/ FoundMember(c) PROVE TypeOK'
    BY <1>3 DEF ReadFails, FoundMember, Return, Replies
  <1>4. ASSUME NEW c \in Calls, SendAdd(c) PROVE TypeOK'
    BY <1>4 DEF SendAdd, GoTo
  <1>5. ASSUME NEW c \in Calls, Receive(c) PROVE TypeOK'
    BY <1>5, ReplyMeaning DEF Receive, Return, StillOut
  <1>6. ASSUME NEW c \in Calls, Retry(c) PROVE TypeOK'
    BY <1>6 DEF Retry, StillOut, Answers
  <1>7. ASSUME NEW c \in Calls, GiveUp(c) PROVE TypeOK'
    BY <1>7 DEF GiveUp, Return, StillOut, MembershipError, Replies
  <1>8. ASSUME NEW d \in wire, Change(d) PROVE TypeOK'
    BY <1>8 DEF Change, Respond, callVars, Answers, Running
  <1>9. ASSUME NEW d \in wire, Refuse(d) PROVE TypeOK'
    BY <1>9 DEF Refuse, Respond, callVars
  <1>10. CASE UNCHANGED vars
    BY <1>10 DEF vars, callVars
  <1>11. ASSUME NEW c \in Calls, TokenFails(c) PROVE TypeOK'
    BY <1>11, TokenReplies DEF TokenFails, Return, Replies
  <1> QED
    BY <1>1, <1>2, <1>3, <1>4, <1>5, <1>6, <1>7, <1>8, <1>9, <1>10, <1>11 DEF Next, Call, Done

LEMMA InvStep == Inv /\ [Next]_vars => Inv'
  <1> SUFFICES ASSUME Inv, [Next]_vars PROVE Inv'
    OBVIOUS
  <1>t. TypeOK /\ TypeOK'
    BY TypeStep DEF Inv
  <1> USE DEF Inv
  <1>1. ASSUME NEW c \in Calls, Start(c) PROVE Inv'
    <2>1. group' = group
      BY <1>1 DEF Start
    <2>2. Sent'
      BY <1>t, <1>1, <2>1, FactsStay, GroupMembershipAssumption
      DEF Start, GoTo, Sent, Fresh, Early, TypeOK, Calls, Unrestricted
    <2>3. Fresh'
      BY <1>t, <1>1 DEF Start, GoTo, Fresh, Early, TypeOK
    <2>4. Rights' /\ Heard'
      BY <1>t, <1>1, <2>1, FactsStay
      DEF Start, GoTo, Sent, Fresh, Early, Rights, Heard, Last, ChangedBy, TypeOK
    <2>5. Told'
      BY <1>t, <1>1, <2>1, FactsStay
      DEF Start, GoTo, Sent, Fresh, Early, Heard, Told, Last, TypeOK, PermissionRefusals,
          Restrictions
    <2>6. Seen'
      BY <1>t, <1>1 DEF Start, GoTo, Seen, Running, TypeOK
    <2>7. AnswersAreTrue'
      BY <1>t, <1>1
      DEF Start, GoTo, Heard, Seen, Running, ChangedBy, AnswersAreTrue, TypeOK, Restrictions
    <2> QED
      BY <1>t, <2>2, <2>3, <2>4, <2>5, <2>6, <2>7
  <1>2. ASSUME NEW c \in Calls, Classify(c) PROVE Inv'
    <2>1. group' = group
      BY <1>2 DEF Classify
    <2>2. Sent'
      BY <1>t, <1>2, <2>1, FactsStay, GroupMembershipAssumption
      DEF Classify, GoTo, Return, Sent, Fresh, Early, TypeOK, Calls, Unrestricted
    <2>3. Fresh'
      BY <1>t, <1>2 DEF Classify, GoTo, Return, Fresh, Early, TypeOK
    <2>4. Rights' /\ Heard'
      BY <1>t, <1>2, <2>1, FactsStay
      DEF Classify, GoTo, Return, Sent, Fresh, Early, Rights, Heard, Last, ChangedBy, TypeOK
    <2>5. Told'
      <3>1. c \in AddCalls /\ reply[c] = "none"
        BY <1>t, <1>2 DEF Classify, Sent, Told, Calls
      <3>2. Restriction \in Restrictions => ~Unrestricted
        BY DEF Unrestricted, Restrictions
      <3>3. \/ UNCHANGED reply
            \/ Restriction \in Restrictions /\ reply' = [reply EXCEPT ![c] = Restriction]
        BY <1>t, <1>2, Classification DEF Classify, GoTo, Return
      <3>4. Restrictions \cap PermissionRefusals = {}
        BY DEF Restrictions, PermissionRefusals
      <3>5. \A d \in Calls : pc[d] = "done" => pc'[d] = "done"
        BY <1>t, <1>2 DEF Classify, GoTo, Return, TypeOK
      <3>6. reply' # reply => pc'[c] = "done"
        BY <1>t, <1>2 DEF Classify, GoTo, Return, TypeOK
      <3>7. UNCHANGED <<attempt, wire, changed>>
        BY <1>2 DEF Classify
      <3> QED
        BY <1>t, <2>1, <3>1, <3>2, <3>3, <3>4, <3>5, <3>6, <3>7, FactsStay DEF Told, Last, TypeOK
    <2>6. Seen'
      BY <1>t, <1>2 DEF Classify, GoTo, Return, Seen, Running, TypeOK
    <2>7. AnswersAreTrue'
      BY <1>t, <1>2, Classification
      DEF Classify, GoTo, Return, Heard, Seen, Running, ChangedBy, AnswersAreTrue, TypeOK,
          Restrictions, Unrestricted
    <2> QED
      BY <1>t, <2>2, <2>3, <2>4, <2>5, <2>6, <2>7
  <1>3. ASSUME NEW c \in Calls, ReadFails(c) \/ FoundMember(c) PROVE Inv'
    <2>1. group' = group
      BY <1>3 DEF ReadFails, FoundMember
    <2>2. Sent'
      BY <1>t, <1>3, <2>1, FactsStay, GroupMembershipAssumption
      DEF ReadFails, FoundMember, Return, Sent, Fresh, Early, TypeOK, Calls, Unrestricted
    <2>3. Fresh'
      BY <1>t, <1>3 DEF ReadFails, FoundMember, Return, Fresh, Early, TypeOK
    <2>4. Rights' /\ Heard'
      BY <1>t, <1>3, <2>1, FactsStay
      DEF ReadFails, FoundMember, Return, Sent, Fresh, Early, Rights, Heard, Last, ChangedBy,
          TypeOK
    <2>5. Told'
      BY <1>t, <1>3, <2>1, FactsStay
      DEF ReadFails, FoundMember, Return, Sent, Fresh, Early, Heard, Told, Last, TypeOK,
          PermissionRefusals, Restrictions
    <2>6. Seen'
      BY <1>t, <1>3 DEF ReadFails, FoundMember, Return, Seen, Running, TypeOK
    <2>7. AnswersAreTrue'
      BY <1>t, <1>3
      DEF ReadFails, FoundMember, Return, Heard, Seen, Running, ChangedBy, AnswersAreTrue,
          TypeOK, Restrictions
    <2> QED
      BY <1>t, <2>2, <2>3, <2>4, <2>5, <2>6, <2>7
  <1>4. ASSUME NEW c \in Calls, SendAdd(c) PROVE Inv'
    <2>1. group' = group
      BY <1>4 DEF SendAdd
    <2>2. Sent'
      BY <1>t, <1>4, <2>1, FactsStay, GroupMembershipAssumption
      DEF SendAdd, GoTo, Sent, Fresh, Early, TypeOK, Calls, Unrestricted
    <2>3. Fresh'
      BY <1>t, <1>4 DEF SendAdd, GoTo, Fresh, Early, TypeOK
    <2>4. Rights' /\ Heard'
      BY <1>t, <1>4, <2>1, FactsStay
      DEF SendAdd, GoTo, Sent, Fresh, Early, Rights, Heard, Last, ChangedBy, TypeOK
    <2>5. Told'
      BY <1>t, <1>4, <2>1, FactsStay
      DEF SendAdd, GoTo, Sent, Fresh, Early, Heard, Told, Last, TypeOK, PermissionRefusals,
          Restrictions
    <2>6. Seen'
      BY <1>t, <1>4 DEF SendAdd, GoTo, Seen, Running, TypeOK
    <2>7. AnswersAreTrue'
      BY <1>t, <1>4
      DEF SendAdd, GoTo, Heard, Seen, Running, ChangedBy, AnswersAreTrue, TypeOK, Restrictions
    <2> QED
      BY <1>t, <2>2, <2>3, <2>4, <2>5, <2>6, <2>7
  <1>5. ASSUME NEW c \in Calls, Receive(c) PROVE Inv'
    <2>1. group' = group
      BY <1>5 DEF Receive
    <2>2. Sent'
      BY <1>t, <1>5, <2>1, FactsStay, GroupMembershipAssumption
      DEF Receive, Return, StillOut, Sent, Fresh, Early, TypeOK, Calls, Unrestricted
    <2>3. Fresh'
      BY <1>t, <1>5 DEF Receive, Return, StillOut, Fresh, Early, TypeOK
    <2>4. Rights' /\ Heard'
      BY <1>t, <1>5, <2>1, FactsStay
      DEF Receive, Return, StillOut, Sent, Fresh, Early, Rights, Heard, Last, ChangedBy, TypeOK
    <2>5. Told'
      BY <1>t, <1>5, <2>1, FactsStay, ReplyMeaning
      DEF Receive, Return, StillOut, Sent, Fresh, Early, Heard, Told, Last, TypeOK,
          PermissionRefusals, Restrictions
    <2>6. Seen'
      BY <1>t, <1>5 DEF Receive, Return, StillOut, Seen, Running, TypeOK
    <2>7. AnswersAreTrue'
      BY <1>t, <1>5, ReplyMeaning
      DEF Receive, Return, StillOut, Heard, Seen, Running, ChangedBy, AnswersAreTrue, TypeOK,
          Restrictions
    <2> QED
      BY <1>t, <2>2, <2>3, <2>4, <2>5, <2>6, <2>7
  <1>6. ASSUME NEW c \in Calls, Retry(c) PROVE Inv'
    <2>1. group' = group
      BY <1>6 DEF Retry, StillOut
    <2>2. Sent'
      BY <1>t, <1>6, <2>1, FactsStay, GroupMembershipAssumption
      DEF Retry, StillOut, Sent, Fresh, Early, TypeOK, Calls, Unrestricted
    <2>3. Fresh'
      BY <1>t, <1>6 DEF Retry, StillOut, Fresh, Early, TypeOK
    <2>4. Rights' /\ Heard'
      BY <1>t, <1>6, <2>1, FactsStay
      DEF Retry, StillOut, Sent, Fresh, Early, Rights, Heard, Last, ChangedBy, TypeOK
    <2>5. Told'
      BY <1>t, <1>6, <2>1, FactsStay
      DEF Retry, StillOut, Sent, Fresh, Early, Heard, Told, Last, TypeOK, PermissionRefusals,
          Restrictions
    <2>6. Seen'
      BY <1>t, <1>6 DEF Retry, StillOut, Seen, Running, TypeOK
    <2>7. AnswersAreTrue'
      BY <1>t, <1>6
      DEF Retry, StillOut, Heard, Seen, Running, ChangedBy, AnswersAreTrue, TypeOK, Restrictions
    <2> QED
      BY <1>t, <2>2, <2>3, <2>4, <2>5, <2>6, <2>7
  <1>7. ASSUME NEW c \in Calls, GiveUp(c) PROVE Inv'
    <2>1. group' = group
      BY <1>7 DEF GiveUp
    <2>2. Sent'
      BY <1>t, <1>7, <2>1, FactsStay, GroupMembershipAssumption
      DEF GiveUp, Return, StillOut, Sent, Fresh, Early, TypeOK, Calls, Unrestricted
    <2>3. Fresh'
      BY <1>t, <1>7 DEF GiveUp, Return, StillOut, Fresh, Early, TypeOK
    <2>4. Rights' /\ Heard'
      BY <1>t, <1>7, <2>1, FactsStay
      DEF GiveUp, Return, StillOut, Sent, Fresh, Early, Rights, Heard, Last, ChangedBy, TypeOK
    <2>5. Told'
      BY <1>t, <1>7, <2>1, FactsStay
      DEF GiveUp, Return, StillOut, Sent, Fresh, Early, Heard, Told, Last, TypeOK,
          PermissionRefusals, Restrictions, MembershipError
    <2>6. Seen'
      BY <1>t, <1>7 DEF GiveUp, Return, StillOut, Seen, Running, TypeOK
    <2>7. AnswersAreTrue'
      BY <1>t, <1>7
      DEF GiveUp, Return, StillOut, Heard, Seen, Running, ChangedBy, AnswersAreTrue, TypeOK,
          Restrictions, MembershipError
    <2> QED
      BY <1>t, <2>2, <2>3, <2>4, <2>5, <2>6, <2>7
  <1>8. ASSUME NEW c \in Calls, TokenFails(c) PROVE Inv'
    <2>1. group' = group
      BY <1>8 DEF TokenFails
    <2>2. Sent'
      BY <1>t, <1>8, <2>1, FactsStay, GroupMembershipAssumption
      DEF TokenFails, Return, Sent, Fresh, Early, TypeOK, Calls, Unrestricted
    <2>3. Fresh'
      BY <1>t, <1>8 DEF TokenFails, Return, Fresh, Early, TypeOK
    <2>4. Rights' /\ Heard'
      BY <1>t, <1>8, <2>1, FactsStay
      DEF TokenFails, Return, Sent, Fresh, Early, Rights, Heard, Last, ChangedBy, TypeOK
    <2>5. Told'
      BY <1>t, <1>8, <2>1, FactsStay, TokenReplies
      DEF TokenFails, Return, Sent, Fresh, Early, Heard, Told, Last, TypeOK, PermissionRefusals,
          Restrictions
    <2>6. Seen'
      BY <1>t, <1>8 DEF TokenFails, Return, Seen, Running, TypeOK
    <2>7. AnswersAreTrue'
      BY <1>t, <1>8, TokenReplies
      DEF TokenFails, Return, Heard, Seen, Running, ChangedBy, AnswersAreTrue, TypeOK,
          Restrictions
    <2> QED
      BY <1>t, <2>2, <2>3, <2>4, <2>5, <2>6, <2>7
  <1>9. ASSUME NEW d \in wire, Change(d) PROVE Inv'
    <2>1. /\ group' = group /\ d \in Calls \X (0..MaxRetries) /\ d = <<d[1], d[2]>>
          /\ wire' = wire \ {d} /\ changed' = changed \union {d}
          /\ UNCHANGED <<pc, attempt, reply>>
          /\ ~Early(d[1])
      BY <1>t, <1>9 DEF Change, Respond, callVars, TypeOK, Fresh
    <2>2. \/ answer' = answer
          \/ \E a \in {"ok", "error"} : answer' = [answer EXCEPT ![d[1]] = a]
      BY <1>9 DEF Change, Respond
    <2>3. Sent' /\ Rights'
      BY <1>t, <2>1, FactsStay DEF Sent, Rights, TypeOK
    <2>4. Fresh'
      BY <1>t, <2>1, <2>2 DEF Fresh, Early, TypeOK
    <2>5. Heard'
      <3> SUFFICES ASSUME NEW c \in Calls
                   PROVE  /\ answer'[c] # "none" => Last(c)' \notin wire'
                          /\ answer'[c] = "ok" => ChangedBy(c)'
                          /\ answer'[c] = "duplicate" => c \in AddCalls /\ c \in witnessed'
                          /\ answer'[c] \in {"forbidden", "not_manager"} => Last(c)' \notin changed'
        BY DEF Heard
      <3>1. Last(c)' = Last(c)
        BY <2>1 DEF Last
      <3>2. c \in witnessed => c \in witnessed'
        BY <1>9 DEF Change
      <3>3. CASE answer'[c] = answer[c]
        BY <2>1, <3>1, <3>2, <3>3 DEF Heard, ChangedBy
      <3>4. CASE answer'[c] # answer[c]
        <4>1. c = d[1] /\ d = Last(c) /\ answer'[c] \in {"ok", "error"}
          BY <1>t, <1>9, <2>1, <3>4 DEF Change, Respond, Last, TypeOK
        <4> QED
          BY <2>1, <3>1, <4>1 DEF ChangedBy
      <3> QED
        BY <3>3, <3>4
    <2>6. Told'
      BY <2>1, FactsStay DEF Told, Last
    <2>7. Seen'
      BY <1>9, <2>1 DEF Change, Seen, Running
    <2>8. AnswersAreTrue'
      BY <1>9, <2>1 DEF Change, ChangedBy, AnswersAreTrue
    <2> QED
      BY <1>t, <2>3, <2>4, <2>5, <2>6, <2>7, <2>8
  <1>10. ASSUME NEW d \in wire, Refuse(d) PROVE Inv'
    <2>1. /\ group' = group /\ d \in Calls \X (0..MaxRetries) /\ d = <<d[1], d[2]>>
          /\ wire' = wire \ {d}
          /\ UNCHANGED <<pc, attempt, reply, present, changed, witnessed>>
          /\ ~Early(d[1])
      BY <1>t, <1>10 DEF Refuse, Respond, callVars, TypeOK, Fresh
    <2>2. \/ answer' = answer
          \/ \E a \in Answers : answer' = [answer EXCEPT ![d[1]] = a]
      BY <1>10 DEF Refuse, Respond
    <2>3. Sent' /\ Rights'
      BY <1>t, <2>1, FactsStay DEF Sent, Rights, TypeOK
    <2>4. Fresh'
      BY <1>t, <2>1, <2>2 DEF Fresh, Early, TypeOK
    <2>5. Heard'
      <3> SUFFICES ASSUME NEW c \in Calls
                   PROVE  /\ answer'[c] # "none" => Last(c)' \notin wire'
                          /\ answer'[c] = "ok" => ChangedBy(c)'
                          /\ answer'[c] = "duplicate" => c \in AddCalls /\ c \in witnessed'
                          /\ answer'[c] \in {"forbidden", "not_manager"} => Last(c)' \notin changed'
        BY DEF Heard
      <3>1. Last(c)' = Last(c) /\ (ChangedBy(c)' <=> ChangedBy(c))
        BY <2>1 DEF Last, ChangedBy
      <3>2. CASE answer'[c] = answer[c]
        BY <2>1, <3>1, <3>2 DEF Heard
      <3>3. CASE answer'[c] # answer[c]
        <4>1. c = d[1] /\ d = Last(c) /\ pc[c] = "write"
          BY <1>t, <1>10, <2>1, <3>3 DEF Refuse, Respond, Last, TypeOK
        <4>2. /\ answer'[c] # "ok"
              /\ answer'[c] = "duplicate" => c \in AddCalls /\ present
          BY <1>t, <1>10, <3>3, <4>1 DEF Refuse, Respond, TypeOK, Answers
        <4>3. present => c \in witnessed
          BY <4>1 DEF Seen, Running
        <4>4. d \notin changed
          BY DEF Sent
        <4> QED
          BY <2>1, <3>1, <4>1, <4>2, <4>3, <4>4
      <3> QED
        BY <3>2, <3>3
    <2>6. Told'
      BY <2>1, FactsStay DEF Told, Last
    <2>7. Seen' /\ AnswersAreTrue'
      BY <2>1 DEF Seen, Running, ChangedBy, AnswersAreTrue
    <2> QED
      BY <1>t, <2>3, <2>4, <2>5, <2>6, <2>7
  <1>11. CASE UNCHANGED vars
    <2>1. Sent' /\ Fresh' /\ Rights'
      BY <1>t, <1>11, FactsStay DEF vars, callVars, Sent, Fresh, Early, Rights, TypeOK
    <2>2. Heard' /\ Told' /\ Seen' /\ AnswersAreTrue'
      BY <1>t, <1>11, FactsStay
      DEF vars, callVars, Heard, Told, Last, ChangedBy, Seen, Running, AnswersAreTrue
    <2> QED
      BY <1>t, <2>1, <2>2
  <1> QED
    BY <1>1, <1>2, <1>3, <1>4, <1>5, <1>6, <1>7, <1>8, <1>9, <1>10, <1>11 DEF Next, Call, Done

THEOREM Invariance == Spec => []Inv
  BY InvInit, InvStep, PTL DEF Spec

THEOREM TypeCorrect == Spec => []TypeOK
  BY Invariance, PTL DEF Inv

(* added, removed and already_member are never claimed wrongly. *)
THEOREM AnswersAreEarned == Spec => []AnswersAreTrue
  BY Invariance, PTL DEF Inv

(* A refusal with a name of its own means that the delivery it answers did   *)
(* nothing and never will; that of a restricted group, that no delivery did. *)
THEOREM RefusalIsFinal == Spec => []NamedRefusalIsFinal
  <1>1. Inv => NamedRefusalIsFinal
    <2> SUFFICES ASSUME Inv PROVE NamedRefusalIsFinal
      OBVIOUS
    <2>1. ~Unrestricted => \A c \in AddCalls : ~ChangedBy(c)
      BY DEF Inv, Rights, ChangedBy
    <2>2. \A c \in Calls : reply[c] \in Restrictions => ~ChangedBy(c)
      BY <2>1 DEF Inv, Told
    <2>3. ASSUME NEW c \in Calls, reply[c] \in PermissionRefusals,
                 NEW d \in changed, d[1] = c
          PROVE  d[2] < attempt[c]
      <3>1. d = <<c, d[2]>> /\ d[2] \in 0..MaxRetries /\ attempt[c] \in 0..MaxRetries
        BY <2>3 DEF Inv, TypeOK
      <3>2. d[2] # attempt[c] /\ d[2] <= attempt[c]
        BY <2>3, <3>1 DEF Inv, Told, Last, Sent
      <3> QED
        BY <3>1, <3>2, GroupMembershipAssumption
    <2> QED
      BY <2>1, <2>2, <2>3, Classification DEF Inv, NamedRefusalIsFinal
  <1> QED
    BY <1>1, Invariance, PTL
-----------------------------------------------------------------------------
(* While calls take turns: only the call whose turn it is has a delivery out, *)
(* the one it waits for.                                                     *)
Turns ==
    orderly =>
        /\ \A c, d \in Running : c = d
        /\ \A d \in wire : pc[d[1]] = "write" /\ d[2] = attempt[d[1]] /\ answer[d[1]] = "none"

(* ... and what it has done, or has been told, is how things are. *)
InPlace ==
    orderly =>
        \A c \in Running :
            /\ ChangedBy(c) => (present <=> c \in AddCalls)
            /\ answer[c] = "duplicate" => present

TurnInv == Inv /\ Turns /\ InPlace

LEMMA TurnInit == Init => TurnInv
  BY InvInit DEF TurnInv, Turns, InPlace, Init, Running, ChangedBy

LEMMA TurnStep == TurnInv /\ [Next]_vars => TurnInv'
  <1> SUFFICES ASSUME TurnInv, [Next]_vars PROVE Turns' /\ InPlace'
    BY InvStep DEF TurnInv
  <1>t. TypeOK /\ TypeOK'
    BY TypeStep DEF TurnInv, Inv
  <1> USE <1>t DEF TurnInv
  <1>1. ASSUME NEW c \in Calls, Start(c) PROVE Turns' /\ InPlace'
    BY <1>1 DEF Inv, Fresh, Early, Start, GoTo, Turns, InPlace, Running, ChangedBy, TypeOK
  <1>2. ASSUME NEW c \in Calls, Classify(c) PROVE Turns' /\ InPlace'
    BY <1>2 DEF Classify, GoTo, Return, Turns, InPlace, Running, ChangedBy, TypeOK
  <1>3. ASSUME NEW c \in Calls, ReadFails(c) \/ FoundMember(c) PROVE Turns' /\ InPlace'
    BY <1>3 DEF ReadFails, FoundMember, Return, Turns, InPlace, Running, ChangedBy, TypeOK
  <1>4. ASSUME NEW c \in Calls, SendAdd(c) PROVE Turns' /\ InPlace'
    BY <1>4 DEF Inv, Fresh, Early, SendAdd, GoTo, Turns, InPlace, Running, ChangedBy, TypeOK
  <1>5. ASSUME NEW c \in Calls, Receive(c) \/ GiveUp(c) PROVE Turns' /\ InPlace'
    BY <1>5 DEF Receive, GiveUp, Return, StillOut, Turns, InPlace, Running, ChangedBy, TypeOK
  <1>6. ASSUME NEW c \in Calls, Retry(c) PROVE Turns' /\ InPlace'
    BY <1>6 DEF Retry, StillOut, Turns, InPlace, Running, ChangedBy, TypeOK
  <1>7. ASSUME NEW d \in wire, Change(d) PROVE Turns' /\ InPlace'
    <2>1. d[1] \in Calls
      BY DEF TypeOK
    <2>2. Turns'
      BY <1>7, <2>1 DEF Change, Respond, callVars, Turns, Running, TypeOK
    <2>3. present' <=> d[1] \in AddCalls
      <3>1. d[1] \in AddCalls <=> d[1] \notin RemoveCalls
        BY <2>1, GroupMembershipAssumption DEF Calls
      <3>2. present' <=> d[1] \notin RemoveCalls
        BY <1>7 DEF Change, TypeOK
      <3> QED
        BY <3>1, <3>2
    <2>4. InPlace'
      BY <1>7, <2>1, <2>3 DEF Change, Respond, callVars, Turns, InPlace, Running, ChangedBy,
          TypeOK
    <2> QED
      BY <2>2, <2>4
  <1>8. ASSUME NEW d \in wire, Refuse(d) PROVE Turns' /\ InPlace'
    <2>1. d[1] \in Calls
      BY DEF TypeOK
    <2>2. Turns'
      BY <1>8, <2>1 DEF Refuse, Respond, callVars, Turns, Running, TypeOK
    <2>3. InPlace'
      BY <1>8, <2>1 DEF Refuse, Respond, callVars, Turns, InPlace, Running, ChangedBy, TypeOK
    <2> QED
      BY <2>2, <2>3
  <1>9. CASE UNCHANGED vars
    BY <1>9 DEF vars, callVars, Turns, InPlace, Running, ChangedBy
  <1>10. ASSUME NEW c \in Calls, TokenFails(c) PROVE Turns' /\ InPlace'
    BY <1>10 DEF TokenFails, Return, Turns, InPlace, Running, ChangedBy, TypeOK
  <1> QED
    BY <1>1, <1>2, <1>3, <1>4, <1>5, <1>6, <1>7, <1>8, <1>9, <1>10 DEF Next, Call, Done

(* With calls that take turns, for any number of retries: what a call         *)
(* answers is so when it returns, and what it changed stays changed.          *)
THEOREM AnswersHold == Spec => AnswerHoldsOnReturn
  <1> DEFINE Holds(c) ==
        orderly /\ Returns(c) =>
            /\ reply'[c] \in {"added", "already_member"} => present
            /\ reply'[c] = "removed" => ~present
            /\ ChangedBy(c) => (present <=> c \in AddCalls)
  <1>1. TurnInv /\ [Next]_vars => [\A c \in Calls : Holds(c)]_vars
    <2> SUFFICES ASSUME TurnInv, Next, NEW c \in Calls, orderly, Returns(c) PROVE Holds(c)
      BY DEF Returns
    <2> USE DEF TurnInv, Inv
    <2>1. Classify(c) \/ ReadFails(c) \/ FoundMember(c) \/ Receive(c) \/ GiveUp(c) \/ TokenFails(c)
      <3>1. pc' # pc
        BY DEF Returns
      <3>2. PICK d \in Calls : Call(d)
        BY <3>1 DEF Next, Done, Change, Refuse, Respond, callVars, vars
      <3>3. d = c
        BY <3>2 DEF Call, Start, Classify, ReadFails, FoundMember, SendAdd, Receive, Retry,
            GiveUp,
                    TokenFails, GoTo, Return, Returns, TypeOK
      <3> QED
        BY <3>2, <3>3 DEF Call, Start, SendAdd, Retry, GoTo, Returns, TypeOK
    <2>2. CASE Classify(c)
      BY <2>2, Classification DEF Classify, Return, Returns, GoTo, Fresh, Early, ChangedBy,
          TypeOK, Restrictions
    <2>3. CASE ReadFails(c) \/ FoundMember(c)
      BY <2>3 DEF ReadFails, FoundMember, Return, Fresh, Early, ChangedBy, TypeOK
    <2>4. CASE Receive(c)
      <3>1. reply'[c] = ReplyTo(c) /\ answer[c] # "none" /\ c \in Running
        BY <2>4 DEF Receive, Return, Running, TypeOK
      <3>2. reply'[c] = "added" => c \in AddCalls /\ answer[c] = "ok"
        BY <3>1 DEF ReplyTo, Success, MembershipError
      <3>3. reply'[c] = "removed" => c \notin AddCalls /\ answer[c] = "ok"
        BY <3>1 DEF ReplyTo, Success, MembershipError
      <3> QED
        BY <3>1, <3>2, <3>3, ReplyMeaning DEF Heard, InPlace, TypeOK
    <2>5. CASE GiveUp(c)
      BY <2>5 DEF GiveUp, Return, MembershipError, InPlace, Running, TypeOK
    <2>6. CASE TokenFails(c)
      BY <2>6, TokenReplies DEF TokenFails, Return, Fresh, Early, ChangedBy, TypeOK
    <2> QED
      BY <2>1, <2>2, <2>3, <2>4, <2>5, <2>6
  <1> QED
    BY <1>1, TurnInit, TurnStep, PTL DEF Spec, AnswerHoldsOnReturn

(* With calls that take turns, every change of the membership is the first   *)
(* of its call, for any number of retries.                                   *)
THEOREM EachChangesOnce == Spec => ChangesOnce
  <1>1. TurnInv /\ [Next]_vars =>
            [orderly /\ present' # present =>
                \E d \in wire : ~ChangedBy(d[1]) /\ changed' = changed \union {d}]_vars
    <2> SUFFICES ASSUME TurnInv, Next, orderly, present' # present
                 PROVE  \E d \in wire : ~ChangedBy(d[1]) /\ changed' = changed \union {d}
      OBVIOUS
    <2>1. PICK d \in wire : Change(d)
      BY DEF Next, Call, Start, Classify, ReadFails, FoundMember, SendAdd, Receive, Retry, GiveUp,
             TokenFails, Refuse, Done, vars
    <2>2. d[1] \in Calls /\ d[1] \in Running
      BY DEF TurnInv, Inv, TypeOK, Turns, Running
    <2>3. present = (d[1] \in RemoveCalls) /\ changed' = changed \union {d}
      BY <2>1 DEF Change
    <2>4. d[1] \in AddCalls <=> d[1] \notin RemoveCalls
      BY <2>2, GroupMembershipAssumption DEF Calls
    <2>5. ~ChangedBy(d[1])
      BY <2>2, <2>3, <2>4 DEF TurnInv, Inv, TypeOK, InPlace
    <2> QED
      BY <2>3, <2>5
  <1> QED
    BY <1>1, TurnInit, TurnStep, PTL DEF Spec, ChangesOnce
=============================================================================
