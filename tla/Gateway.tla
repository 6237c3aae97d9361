------------------------------ MODULE Gateway -------------------------------
(***************************************************************************)
(* Credential isolation in src/exo_mcp/server.py: the ASGI middleware that   *)
(* puts a request's credentials into a context variable, the tool that reads *)
(* them from its own context to build an ExoClient, and the reset when the   *)
(* application returns.                                                      *)
(*                                                                          *)
(* Requests are carried by the server's tasks; a task may carry several, one *)
(* after the other.  The tool of a request runs in a task of its own, started*)
(* by the MCP session manager with a copy of the context of the task that    *)
(* carries the request (stateless_http=True); it may outlive the request,    *)
(* when the peer disconnects.  Task scheduling and the session manager are   *)
(* asyncio's and the SDK's, hence external.                                  *)
(***************************************************************************)
CONSTANTS
    Requests,       \* requests that may arrive
    Tasks,          \* server tasks
    Tenants,        \* senders of requests
    Asks            \* what may arrive: records of Arrivals

Nobody == "nobody"                                  \* the default of _credentials_var

(* A header that is present and not empty, or not.                          *)
Arrivals == [path : {"mcp", "other"}, sender : Tenants,
             tenant_id : BOOLEAN, client_id : BOOLEAN,
             certificate : BOOLEAN, client_secret : BOOLEAN]

ASSUME GatewayAssumption ==
    /\ Asks \subseteq Arrivals
    /\ Nobody \notin Tenants

VARIABLES
    phase,      \* phase[r]: "new", "arrived", "rejected", "open" or "closed"
    ask,        \* ask[r]: the request itself, once it has arrived
    carrier,    \* carrier[r]: the task that carries it
    ctx,        \* ctx[t]: _credentials_var in the context of task t
    saved,      \* saved[r]: the value ctx_token restores; "unset" before set()
    tool,       \* tool[r]: "none", "started", "running", "unconfigured", "ended"
    toolCtx,    \* toolCtx[r]: _credentials_var in the context of r's tool
    client,     \* client[r]: credentials of the ExoClient the tool built
    wire        \* pairs <<r, c>>: r's tool posted a cmdlet with credentials c

vars == <<phase, ask, carrier, ctx, saved, tool, toolCtx, client, wire>>

Holders == Tenants \union {Nobody}

Init ==
    /\ phase = [r \in Requests |-> "new"]
    /\ ask \in [Requests -> Asks]
    /\ carrier \in [Requests -> Tasks]
    /\ ctx = [t \in Tasks |-> Nobody]
    /\ saved = [r \in Requests |-> "unset"]
    /\ tool = [r \in Requests |-> "none"]
    /\ toolCtx = [r \in Requests |-> Nobody]
    /\ client = [r \in Requests |-> Nobody]
    /\ wire = {}

InProgress(r) == phase[r] \in {"arrived", "open"}

(* A task takes up a request when it carries no other.                       *)
Arrive(r) ==
    /\ phase[r] = "new"
    /\ \A q \in Requests : InProgress(q) => carrier[q] # carrier[r]
    /\ phase' = [phase EXCEPT ![r] = "arrived"]
    /\ UNCHANGED <<ask, carrier, ctx, saved, tool, toolCtx, client, wire>>
-----------------------------------------------------------------------------
(* fault injected: either credential header stands for the other three *)
LaxComplete(a) == a.tenant_id /\ (a.certificate \/ a.client_secret)

(* Both required headers, and a certificate or a secret.                     *)
Complete(a) == a.tenant_id /\ a.client_id /\ (a.certificate \/ a.client_secret)

(* Not /mcp: the application is called with the context as it is.            *)
PassThrough(r) ==
    /\ phase[r] = "arrived"
    /\ ask[r].path # "mcp"
    /\ phase' = [phase EXCEPT ![r] = "open"]
    /\ UNCHANGED <<ask, carrier, ctx, saved, tool, toolCtx, client, wire>>

(* 401, and the application is never called.                                 *)
Reject(r) ==
    /\ phase[r] = "arrived"
    /\ ask[r].path = "mcp"
    /\ ~Complete(ask[r])
    /\ phase' = [phase EXCEPT ![r] = "rejected"]
    /\ UNCHANGED <<ask, carrier, ctx, saved, tool, toolCtx, client, wire>>

(* fault injected: the credentials go into a variable every task sees *)
EnterShared(r) ==
    /\ phase[r] = "arrived"
    /\ ask[r].path = "mcp"
    /\ Complete(ask[r])
    /\ saved' = [saved EXCEPT ![r] = ctx[carrier[r]]]
    /\ ctx' = [t \in Tasks |-> ask[r].sender]
    /\ phase' = [phase EXCEPT ![r] = "open"]
    /\ UNCHANGED <<ask, carrier, tool, toolCtx, client, wire>>

(* _credentials_var.set, then the application is called.                     *)
Enter(r) ==
    /\ phase[r] = "arrived"
    /\ ask[r].path = "mcp"
    /\ Complete(ask[r])
    /\ saved' = [saved EXCEPT ![r] = ctx[carrier[r]]]
    /\ ctx' = [ctx EXCEPT ![carrier[r]] = ask[r].sender]
    /\ phase' = [phase EXCEPT ![r] = "open"]
    /\ UNCHANGED <<ask, carrier, tool, toolCtx, client, wire>>

(* fault injected: no reset in finally *)
LeaveWithoutReset(r) ==
    /\ phase[r] = "open"
    /\ phase' = [phase EXCEPT ![r] = "closed"]
    /\ UNCHANGED <<ask, carrier, ctx, saved, tool, toolCtx, client, wire>>

(* fault injected: the reset is not confined to requests that did set *)
LeaveAlwaysResets(r) ==
    /\ phase[r] = "open"
    /\ phase' = [phase EXCEPT ![r] = "closed"]
    /\ ctx' = [ctx EXCEPT ![carrier[r]] = saved[r]]
    /\ UNCHANGED <<ask, carrier, saved, tool, toolCtx, client, wire>>

(* The application answered, raised or was cancelled: reset in finally.  A   *)
(* request that only passed through has nothing to reset.                    *)
Leave(r) ==
    /\ phase[r] = "open"
    /\ phase' = [phase EXCEPT ![r] = "closed"]
    /\ ctx' = IF saved[r] = "unset" THEN ctx
              ELSE [ctx EXCEPT ![carrier[r]] = saved[r]]
    /\ UNCHANGED <<ask, carrier, saved, tool, toolCtx, client, wire>>
-----------------------------------------------------------------------------
(* fault injected: stateful HTTP, where the session's task keeps the context *)
(* of the request that opened the session *)
SessionContext(r) ==
    IF \E q \in Requests : tool[q] # "none"
    THEN toolCtx[CHOOSE q \in Requests : tool[q] # "none"]
    ELSE ctx[carrier[r]]

(* The context a tool starts with: a copy of its request's, then and there.  *)
StartContext(r) == ctx[carrier[r]]

(* The MCP application routes /mcp only, and starts the tool's task while    *)
(* the request is open (external).                                           *)
StartTool(r) ==
    /\ phase[r] = "open"
    /\ ask[r].path = "mcp"
    /\ tool[r] = "none"
    /\ tool' = [tool EXCEPT ![r] = "started"]
    /\ toolCtx' = [toolCtx EXCEPT ![r] = StartContext(r)]
    /\ UNCHANGED <<phase, ask, carrier, ctx, saved, client, wire>>

(* client_factory: the tool reads its own context.  Without credentials it   *)
(* answers NO_CREDENTIALS.                                                   *)
BuildClient(r) ==
    /\ tool[r] = "started"
    /\ client' = [client EXCEPT ![r] = toolCtx[r]]
    /\ tool' = [tool EXCEPT ![r] = IF toolCtx[r] = Nobody THEN "unconfigured" ELSE "running"]
    /\ UNCHANGED <<phase, ask, carrier, ctx, saved, toolCtx, wire>>

(* A token exchange or a cmdlet, over the connection pool all tenants share. *)
Call(r) ==
    /\ tool[r] = "running"
    /\ wire' = wire \union {<<r, client[r]>>}
    /\ UNCHANGED <<phase, ask, carrier, ctx, saved, tool, toolCtx, client>>

EndTool(r) ==
    /\ tool[r] = "running"
    /\ tool' = [tool EXCEPT ![r] = "ended"]
    /\ UNCHANGED <<phase, ask, carrier, ctx, saved, toolCtx, client, wire>>

Serve(r) == PassThrough(r) \/ Reject(r) \/ Enter(r) \/ Leave(r)
Run(r)   == StartTool(r) \/ BuildClient(r) \/ Call(r) \/ EndTool(r)

Finished ==
    /\ \A r \in Requests : phase[r] \in {"rejected", "closed"}
    /\ UNCHANGED vars

Next ==
    \/ \E r \in Requests : Arrive(r) \/ Serve(r) \/ Run(r)
    \/ Finished

Spec == Init /\ [][Next]_vars
-----------------------------------------------------------------------------
TypeOK ==
    /\ phase \in [Requests -> {"new", "arrived", "rejected", "open", "closed"}]
    /\ ask \in [Requests -> Asks]
    /\ carrier \in [Requests -> Tasks]
    /\ ctx \in [Tasks -> Holders]
    /\ saved \in [Requests -> Holders \union {"unset"}]
    /\ tool \in [Requests -> {"none", "started", "running", "unconfigured", "ended"}]
    /\ toolCtx \in [Requests -> Holders]
    /\ client \in [Requests -> Holders]
    /\ wire \subseteq Requests \X Holders

(* What server.py:28-31 promises: a tool talks to Exchange with the          *)
(* credentials of its own request only, whatever the order in which other    *)
(* tenants' requests start, end or are cancelled around it, and also after   *)
(* its own request has ended.                                                *)
Isolation == \A p \in wire : p[2] = ask[p[1]].sender

(* No credentials stay behind: a task that carries no request, or one that   *)
(* was let through without credentials, has an empty context.                *)
NothingLeftBehind ==
    \A t \in Tasks : ctx[t] # Nobody =>
        \E r \in Requests : /\ carrier[r] = t
                            /\ phase[r] = "open"
                            /\ ctx[t] = ask[r].sender
                            /\ ask[r].path = "mcp"

(* A request on /mcp is either refused with 401 or served by a configured    *)
(* tool: not_configured is never the answer to one that had its headers, and *)
(* one that lacked any never gets as far as a tool.                          *)
AdmittedMeansConfigured ==
    \A r \in Requests :
        /\ tool[r] # "unconfigured"
        /\ tool[r] # "none" =>
            /\ ask[r].path = "mcp" /\ phase[r] # "rejected"
            /\ ask[r].tenant_id /\ ask[r].client_id
            /\ ask[r].certificate \/ ask[r].client_secret

(* Sharing tasks, a pool and a context variable is not observable: to every  *)
(* request the server is as if it served no one else.  A tool that finds no  *)
(* credentials has refused its request, which by then no request allows.     *)
Stage(r) ==
    CASE phase[r] = "rejected" \/ tool[r] = "unconfigured" -> "refused"
      [] tool[r] \in {"started", "running"}                -> "working"
      [] tool[r] = "ended"                                 -> "over"
      [] OTHER                                             -> "waiting"

Private == INSTANCE PrivateRequests WITH stage <- [r \in Requests |-> Stage(r)]

ImplementsPrivateRequests == Private!Spec
=============================================================================
