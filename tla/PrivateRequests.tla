--------------------------- MODULE PrivateRequests --------------------------
(***************************************************************************)
(* What the credential middleware (src/exo_mcp/server.py) makes its callers  *)
(* believe: that each request has the server to itself.  There is no task,   *)
(* no context and no other request here: a request on /mcp is refused for    *)
(* what its own headers lack, or works with the credentials it brought, for  *)
(* as long as its tool lives.  Gateway refines this module.                  *)
(***************************************************************************)
CONSTANTS
    Requests,   \* requests that may arrive
    Asks        \* what may arrive: records, as in Gateway

VARIABLES
    ask,        \* ask[r]: the request itself
    stage,      \* stage[r]: "waiting", "refused", "working" or "over"
    wire        \* pairs <<r, c>>: r's tool posted a cmdlet with credentials c

vars == <<ask, stage, wire>>

(* REQUIRED_HEADERS, and one of CREDENTIAL_HEADERS.                          *)
Entitled(r) ==
    /\ ask[r].path = "mcp"
    /\ ask[r].tenant_id /\ ask[r].client_id
    /\ ask[r].certificate \/ ask[r].client_secret

Init ==
    /\ ask \in [Requests -> Asks]
    /\ stage = [r \in Requests |-> "waiting"]
    /\ wire = {}

Move(r, from, to) ==
    /\ stage[r] = from
    /\ stage' = [stage EXCEPT ![r] = to]

(* 401, on /mcp and nowhere else.                                            *)
Refuse(r) ==
    /\ ask[r].path = "mcp" /\ ~Entitled(r)
    /\ Move(r, "waiting", "refused")
    /\ UNCHANGED <<ask, wire>>

Work(r) ==
    /\ Entitled(r)
    /\ Move(r, "waiting", "working")
    /\ UNCHANGED <<ask, wire>>

Post(r) ==
    /\ stage[r] = "working"
    /\ wire' = wire \union {<<r, ask[r].sender>>}
    /\ UNCHANGED <<ask, stage>>

Finish(r) ==
    /\ Move(r, "working", "over")
    /\ UNCHANGED <<ask, wire>>

Next == \E r \in Requests : Refuse(r) \/ Work(r) \/ Post(r) \/ Finish(r)

Spec == Init /\ [][Next]_vars
=============================================================================
