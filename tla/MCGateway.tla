----------------------------- MODULE MCGateway ------------------------------
(***************************************************************************)
(* Three requests of two tenants over two tasks: one task carries at least  *)
(* two of them in turn, and the others overlap it.  A request has all four   *)
(* headers, lacks one of the required ones, lacks both credentials, or is   *)
(* not for /mcp.                                                            *)
(***************************************************************************)
EXTENDS Gateway, TLC

CONSTANTS r1, r2, r3, t1, t2

Ask(p, s, t, c, cert, sec) ==
    [path |-> p, sender |-> s, tenant_id |-> t, client_id |-> c,
     certificate |-> cert, client_secret |-> sec]

MCTenants == {"A", "B"}
MCAsks ==
    {Ask("mcp", s, TRUE, TRUE, TRUE, FALSE) : s \in MCTenants} \union
    {Ask("mcp", "B", TRUE, TRUE, FALSE, TRUE),
     Ask("mcp", "A", TRUE, FALSE, TRUE, TRUE),
     Ask("mcp", "B", TRUE, TRUE, FALSE, FALSE),
     Ask("other", "A", TRUE, TRUE, TRUE, FALSE)}

(* Nothing tells the requests, or the tasks, apart. *)
MCSymmetry == Permutations({r1, r2, r3}) \union Permutations({t1, t2})
=============================================================================
