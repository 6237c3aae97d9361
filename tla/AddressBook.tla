---------------------------- MODULE AddressBook -----------------------------
(***************************************************************************)
(* What exo_add_email_alias promises (mailbox.py, its docstring and the     *)
(* comments on _invalid_alias_prefix): it is additive.  The addresses of a   *)
(* mailbox only grow by the addresses asked for, and its primary address is  *)
(* nobody's to change but an administrator's.                                *)
(***************************************************************************)
CONSTANT Addresses

VARIABLES
    primary,
    aliases,
    requested   \* addresses a running or earlier call may add

vars == <<primary, aliases, requested>>

Init ==
    /\ primary \in Addresses
    /\ aliases \subseteq Addresses \ {primary}
    /\ requested = {}

Request ==
    /\ requested' \in SUBSET Addresses
    /\ requested \subseteq requested'
    /\ UNCHANGED <<primary, aliases>>

Add ==
    /\ \E new \in SUBSET requested : aliases' = aliases \union new
    /\ UNCHANGED <<primary, requested>>

(* An administrator promotes an alias, or removes one.                       *)
Promote ==
    /\ \E a \in aliases :
        /\ primary' = a
        /\ aliases' = (aliases \ {a}) \union {primary}
    /\ UNCHANGED requested

Remove ==
    /\ \E a \in aliases : aliases' = aliases \ {a}
    /\ UNCHANGED <<primary, requested>>

Next == Request \/ Add \/ Promote \/ Remove

Spec == Init /\ [][Next]_vars
=============================================================================
