---------------------------- MODULE GatewayProofs ----------------------------
(***************************************************************************)
(* Theorems about Gateway for any set of requests, tasks and tenants.  The   *)
(* strengthening says what the middleware relies on without checking it: a   *)
(* task carries one request at a time, and finds an empty context when it    *)
(* takes one up.                                                             *)
(***************************************************************************)
EXTENDS Gateway, TLAPS

OnePerTask ==
    \A q, r \in Requests :
        InProgress(q) /\ InProgress(r) /\ carrier[q] = carrier[r] => q = r

(* saved is set exactly by Enter, and then holds the default. *)
Saved ==
    \A r \in Requests :
        /\ phase[r] \in {"new", "arrived", "rejected"} => saved[r] = "unset" /\ tool[r] = "none"
        /\ phase[r] = "arrived" => ctx[carrier[r]] = Nobody
        /\ phase[r] = "open" /\ ask[r].path # "mcp" => saved[r] = "unset"
        /\ phase[r] = "open" /\ ask[r].path = "mcp" =>
            /\ saved[r] = Nobody
            /\ ctx[carrier[r]] = ask[r].sender
            /\ Complete(ask[r])

(* The tool's context and client are its sender's for as long as it lives. *)
Owned ==
    \A r \in Requests :
        /\ tool[r] # "none" => toolCtx[r] = ask[r].sender /\ Complete(ask[r])
        /\ tool[r] \in {"running", "ended"} => client[r] = ask[r].sender

Inv ==
    /\ TypeOK
    /\ OnePerTask
    /\ Saved
    /\ Owned
    /\ NothingLeftBehind
    /\ AdmittedMeansConfigured
    /\ Isolation

LEMMA AskTypes ==
    ASSUME TypeOK, NEW r \in Requests
    PROVE  /\ ask[r] \in Asks
           /\ ask[r].sender \in Tenants /\ ask[r].sender # Nobody
           /\ ask[r].path \in {"mcp", "other"}
           /\ carrier[r] \in Tasks
  BY GatewayAssumption DEF TypeOK, Arrivals

LEMMA InvInit == Init => Inv
  BY GatewayAssumption
  DEF Init, Inv, TypeOK, OnePerTask, InProgress, Saved, Owned, NothingLeftBehind,
      AdmittedMeansConfigured, Isolation, Holders

LEMMA TypeStep == TypeOK /\ [Next]_vars => TypeOK'
  <1> SUFFICES ASSUME TypeOK, [Next]_vars PROVE TypeOK'
    OBVIOUS
  <1> USE DEF TypeOK, Holders
  <1>1. ASSUME NEW r \in Requests, Arrive(r) \/ PassThrough(r) \/ Reject(r) PROVE TypeOK'
    BY <1>1 DEF Arrive, PassThrough, Reject
  <1>2. ASSUME NEW r \in Requests, Enter(r) PROVE TypeOK'
    BY <1>2, AskTypes DEF Enter
  <1>3. ASSUME NEW r \in Requests, Leave(r) PROVE TypeOK'
    BY <1>3, AskTypes DEF Leave
  <1>4. ASSUME NEW r \in Requests, StartTool(r) PROVE TypeOK'
    BY <1>4, AskTypes DEF StartTool, StartContext
  <1>5. ASSUME NEW r \in Requests, BuildClient(r) PROVE TypeOK'
    BY <1>5 DEF BuildClient
  <1>6. ASSUME NEW r \in Requests, Call(r) \/ EndTool(r) PROVE TypeOK'
    BY <1>6 DEF Call, EndTool
  <1>7. CASE UNCHANGED vars
    BY <1>7 DEF vars
  <1> QED
    BY <1>1, <1>2, <1>3, <1>4, <1>5, <1>6, <1>7 DEF Next, Serve, Run, Finished

LEMMA SavedStep ==
    TypeOK /\ OnePerTask /\ Saved /\ NothingLeftBehind /\ [Next]_vars => OnePerTask' /\ Saved'
  <1> SUFFICES ASSUME TypeOK, OnePerTask, Saved, NothingLeftBehind, [Next]_vars
               PROVE  OnePerTask' /\ Saved'
    OBVIOUS
  <1> USE DEF TypeOK, OnePerTask, Saved, InProgress
  <1>1. ASSUME NEW r \in Requests, Arrive(r) PROVE OnePerTask' /\ Saved'
    <2>1. OnePerTask'
      BY <1>1 DEF Arrive
    <2>2. ctx[carrier[r]] = Nobody
      BY <1>1 DEF Arrive, NothingLeftBehind
    <2> QED
      BY <1>1, <2>1, <2>2 DEF Arrive
  <1>2. ASSUME NEW r \in Requests, PassThrough(r) \/ Reject(r) PROVE OnePerTask' /\ Saved'
    BY <1>2, AskTypes DEF PassThrough, Reject
  <1>3. ASSUME NEW r \in Requests, Enter(r) PROVE OnePerTask' /\ Saved'
    <2>1. OnePerTask'
      BY <1>3 DEF Enter
    <2>2. \A q \in Requests : q # r /\ InProgress(q) => ctx'[carrier[q]] = ctx[carrier[q]]
      BY <1>3 DEF Enter
    <2>3. saved'[r] = Nobody /\ ctx'[carrier[r]] = ask[r].sender /\ phase'[r] = "open"
      BY <1>3 DEF Enter
    <2>4. \A q \in Requests : q # r => saved'[q] = saved[q] /\ phase'[q] = phase[q]
      BY <1>3 DEF Enter
    <2> QED
      BY <1>3, <2>1, <2>2, <2>3, <2>4 DEF Enter
  <1>4. ASSUME NEW r \in Requests, Leave(r) PROVE OnePerTask' /\ Saved'
    <2>1. OnePerTask'
      BY <1>4 DEF Leave
    <2>2. \A q \in Requests : q # r /\ InProgress(q) => ctx'[carrier[q]] = ctx[carrier[q]]
      BY <1>4 DEF Leave
    <2>3. /\ phase'[r] = "closed"
          /\ \A q \in Requests : q # r => phase'[q] = phase[q]
      BY <1>4 DEF Leave
    <2> QED
      BY <1>4, <2>1, <2>2, <2>3 DEF Leave
  <1>5. ASSUME NEW r \in Requests, Run(r) PROVE OnePerTask' /\ Saved'
    BY <1>5 DEF Run, StartTool, BuildClient, Call, EndTool
  <1>6. CASE UNCHANGED vars
    BY <1>6 DEF vars
  <1> QED
    BY <1>1, <1>2, <1>3, <1>4, <1>5, <1>6 DEF Next, Serve, Finished

LEMMA OwnedStep ==
    TypeOK /\ Saved /\ Owned /\ AdmittedMeansConfigured /\ Isolation /\ [Next]_vars
        => Owned' /\ AdmittedMeansConfigured' /\ Isolation'
  <1> SUFFICES ASSUME TypeOK, Saved, Owned, AdmittedMeansConfigured, Isolation, [Next]_vars
               PROVE  Owned' /\ AdmittedMeansConfigured' /\ Isolation'
    OBVIOUS
  <1> USE DEF TypeOK, Owned, AdmittedMeansConfigured, Isolation
  <1>1. ASSUME NEW r \in Requests, Arrive(r) \/ Serve(r)
        PROVE  Owned' /\ AdmittedMeansConfigured' /\ Isolation'
    BY <1>1 DEF Arrive, Serve, PassThrough, Reject, Enter, Leave, Saved
  <1>2. ASSUME NEW r \in Requests, StartTool(r)
        PROVE  Owned' /\ AdmittedMeansConfigured' /\ Isolation'
    <2>1. ctx[carrier[r]] = ask[r].sender /\ Complete(ask[r]) /\ phase[r] = "open"
      BY <1>2 DEF StartTool, Saved
    <2>2. Owned' /\ Isolation'
      BY <1>2, <2>1 DEF StartTool, StartContext
    <2>3. AdmittedMeansConfigured'
      BY <1>2, <2>1 DEF StartTool, Complete
    <2> QED
      BY <2>2, <2>3
  <1>3. ASSUME NEW r \in Requests, BuildClient(r)
        PROVE  Owned' /\ AdmittedMeansConfigured' /\ Isolation'
    BY <1>3, AskTypes DEF BuildClient
  <1>4. ASSUME NEW r \in Requests, Call(r)
        PROVE  Owned' /\ AdmittedMeansConfigured' /\ Isolation'
    BY <1>4 DEF Call
  <1>5. ASSUME NEW r \in Requests, EndTool(r)
        PROVE  Owned' /\ AdmittedMeansConfigured' /\ Isolation'
    BY <1>5 DEF EndTool
  <1>6. CASE UNCHANGED vars
    BY <1>6 DEF vars
  <1> QED
    BY <1>1, <1>2, <1>3, <1>4, <1>5, <1>6 DEF Next, Run, Finished

LEMMA LeftBehindStep ==
    TypeOK /\ OnePerTask /\ Saved /\ NothingLeftBehind /\ [Next]_vars => NothingLeftBehind'
  <1> SUFFICES ASSUME TypeOK, OnePerTask, Saved, NothingLeftBehind, [Next]_vars
               PROVE  NothingLeftBehind'
    OBVIOUS
  <1> USE DEF TypeOK, NothingLeftBehind
  <1>1. ASSUME NEW r \in Requests, Arrive(r) \/ PassThrough(r) \/ Reject(r) \/ Run(r)
        PROVE  NothingLeftBehind'
    BY <1>1
    DEF Arrive, PassThrough, Reject, Run, StartTool, BuildClient, Call, EndTool
  <1>2. ASSUME NEW r \in Requests, Enter(r) PROVE NothingLeftBehind'
    BY <1>2 DEF Enter
  <1>3. ASSUME NEW r \in Requests, Leave(r) PROVE NothingLeftBehind'
    <2> SUFFICES ASSUME NEW t \in Tasks, ctx'[t] # Nobody
                 PROVE  \E q \in Requests : /\ carrier[q] = t
                                            /\ phase'[q] = "open"
                                            /\ ctx'[t] = ask[q].sender
                                            /\ ask[q].path = "mcp"
      BY <1>3 DEF Leave
    <2>1. CASE saved[r] = "unset"
      <3>1. PICK q \in Requests : /\ carrier[q] = t /\ phase[q] = "open"
                                  /\ ctx[t] = ask[q].sender /\ ask[q].path = "mcp"
        BY <1>3, <2>1 DEF Leave
      <3>2. saved[q] = Nobody /\ Nobody # "unset"
        BY <3>1 DEF Saved, Nobody
      <3> QED
        BY <1>3, <2>1, <3>1, <3>2 DEF Leave
    <2>2. CASE saved[r] # "unset"
      <3>1. saved[r] = Nobody
        BY <1>3, <2>2, AskTypes DEF Leave, Saved
      <3>2. t # carrier[r] /\ ctx[t] # Nobody /\ ctx'[t] = ctx[t]
        BY <1>3, <2>2, <3>1 DEF Leave
      <3> QED
        BY <1>3, <3>2 DEF Leave
    <2> QED
      BY <2>1, <2>2
  <1>4. CASE UNCHANGED vars
    BY <1>4 DEF vars
  <1> QED
    BY <1>1, <1>2, <1>3, <1>4 DEF Next, Serve, Finished

THEOREM Invariance == Spec => []Inv
  <1>1. Inv /\ [Next]_vars => Inv'
    BY TypeStep, SavedStep, OwnedStep, LeftBehindStep DEF Inv
  <1> QED
    BY InvInit, <1>1, PTL DEF Spec

(* A tool uses its own request's credentials and no others. *)
THEOREM TenantsAreIsolated == Spec => []Isolation
  BY Invariance, PTL DEF Inv

(* The context variable is empty wherever no admitted request is open. *)
THEOREM ContextIsClean == Spec => []NothingLeftBehind
  BY Invariance, PTL DEF Inv

(* Admission and configuration coincide. *)
THEOREM AdmissionIsConfiguration == Spec => []AdmittedMeansConfigured
  BY Invariance, PTL DEF Inv

THEOREM TypeCorrect == Spec => []TypeOK
  BY Invariance, PTL DEF Inv
-----------------------------------------------------------------------------
LEMMA EntitledMeansComplete ==
    ASSUME NEW r \in Requests
    PROVE  Private!Entitled(r) <=> ask[r].path = "mcp" /\ Complete(ask[r])
  BY DEF Private!Entitled, Complete

(* A step of r moves r's stage and nobody else's. *)
LEMMA StageMoves ==
    ASSUME NEW r \in Requests,
           \A q \in Requests \ {r} : phase'[q] = phase[q] /\ tool'[q] = tool[q]
    PROVE  [q \in Requests |-> Stage(q)]'
               = [[q \in Requests |-> Stage(q)] EXCEPT ![r] = Stage(r)']
  <1>1. \A q \in Requests \ {r} : Stage(q)' = Stage(q)
    BY DEF Stage
  <1> QED
    BY <1>1

LEMMA StageStays ==
    ASSUME NEW r \in Requests, Stage(r)' = Stage(r),
           \A q \in Requests \ {r} : phase'[q] = phase[q] /\ tool'[q] = tool[q]
    PROVE  UNCHANGED [q \in Requests |-> Stage(q)]
  <1>1. \A q \in Requests \ {r} : Stage(q)' = Stage(q)
    BY DEF Stage
  <1> QED
    BY <1>1

(* To every request the server behaves as if it served that request alone,   *)
(* for any number of requests, tasks and tenants and any schedule of them.   *)
THEOREM PrivacyRefinement == Spec => ImplementsPrivateRequests
  <1>1. Init => Private!Init
    BY DEF Init, Private!Init, Stage
  <1>2. Inv /\ [Next]_vars => [Private!Next]_(Private!vars)
    <2> SUFFICES ASSUME Inv, [Next]_vars PROVE [Private!Next]_(Private!vars)
      OBVIOUS
    <2>t. TypeOK
      BY DEF Inv
    <2> USE DEF Private!vars
    <2>1. ASSUME NEW r \in Requests, Arrive(r) \/ PassThrough(r) \/ Enter(r) \/ Leave(r)
          PROVE  UNCHANGED Private!vars
      <3>1. Stage(r)' = Stage(r)
        BY <2>1, <2>t DEF Arrive, PassThrough, Enter, Leave, Stage, TypeOK
      <3>2. \A q \in Requests \ {r} : phase'[q] = phase[q] /\ tool'[q] = tool[q]
        BY <2>1, <2>t DEF Arrive, PassThrough, Enter, Leave, TypeOK
      <3>3. UNCHANGED <<ask, wire>>
        BY <2>1 DEF Arrive, PassThrough, Enter, Leave
      <3> QED
        BY <3>1, <3>2, <3>3, StageStays
    <2>2. ASSUME NEW r \in Requests, Reject(r)
          PROVE  Private!Refuse(r)
      <3>1. Stage(r) = "waiting" /\ Stage(r)' = "refused"
        BY <2>2, <2>t DEF Reject, Stage, TypeOK, Inv, Saved
      <3>2. \A q \in Requests \ {r} : phase'[q] = phase[q] /\ tool'[q] = tool[q]
        BY <2>2, <2>t DEF Reject, TypeOK
      <3> QED
        BY <2>2, <3>1, <3>2, StageMoves, EntitledMeansComplete
        DEF Reject, Private!Refuse, Private!Move
    <2>3. ASSUME NEW r \in Requests, StartTool(r)
          PROVE  Private!Work(r)
      <3>1. Stage(r) = "waiting" /\ Stage(r)' = "working"
        BY <2>3, <2>t DEF StartTool, Stage, TypeOK
      <3>2. \A q \in Requests \ {r} : phase'[q] = phase[q] /\ tool'[q] = tool[q]
        BY <2>3, <2>t DEF StartTool, TypeOK
      <3>3. Complete(ask[r])
        BY <2>3 DEF StartTool, Inv, Saved
      <3> QED
        BY <2>3, <3>1, <3>2, <3>3, StageMoves, EntitledMeansComplete
        DEF StartTool, Private!Work, Private!Move
    <2>4. ASSUME NEW r \in Requests, BuildClient(r)
          PROVE  UNCHANGED Private!vars
      <3>1. toolCtx[r] # Nobody
        BY <2>4, <2>t, AskTypes DEF BuildClient, Inv, Owned
      <3>2. Stage(r)' = Stage(r)
        BY <2>4, <2>t, <3>1 DEF BuildClient, Stage, TypeOK
      <3>3. \A q \in Requests \ {r} : phase'[q] = phase[q] /\ tool'[q] = tool[q]
        BY <2>4, <2>t DEF BuildClient, TypeOK
      <3> QED
        BY <2>4, <3>2, <3>3, StageStays DEF BuildClient
    <2>5. ASSUME NEW r \in Requests, Call(r)
          PROVE  Private!Post(r)
      <3>1. client[r] = ask[r].sender /\ Stage(r) = "working"
        BY <2>5 DEF Call, Inv, Owned, AdmittedMeansConfigured, Stage
      <3>2. Stage(r)' = Stage(r) /\ \A q \in Requests \ {r} : phase'[q] = phase[q] /\ tool'[q] = tool[q]
        BY <2>5 DEF Call, Stage
      <3>3. UNCHANGED [q \in Requests |-> Stage(q)]
        BY <3>2, StageStays
      <3> QED
        BY <2>5, <3>1, <3>3 DEF Call, Private!Post
    <2>6. ASSUME NEW r \in Requests, EndTool(r)
          PROVE  Private!Finish(r)
      <3>1. Stage(r) = "working" /\ Stage(r)' = "over"
        BY <2>6, <2>t DEF EndTool, Stage, TypeOK, Inv, AdmittedMeansConfigured
      <3>2. \A q \in Requests \ {r} : phase'[q] = phase[q] /\ tool'[q] = tool[q]
        BY <2>6, <2>t DEF EndTool, TypeOK
      <3> QED
        BY <2>6, <3>1, <3>2, StageMoves DEF EndTool, Private!Finish, Private!Move
    <2>7. CASE UNCHANGED vars
      BY <2>7 DEF vars, Stage
    <2> QED
      BY <2>1, <2>2, <2>3, <2>4, <2>5, <2>6, <2>7
      DEF Next, Serve, Run, Finished, Private!Next
  <1> QED
    BY <1>1, <1>2, Invariance, PTL DEF Spec, ImplementsPrivateRequests, Private!Spec
=============================================================================
