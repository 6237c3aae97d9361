---------------------------- MODULE MCEmailAlias ----------------------------
(***************************************************************************)
(* One mailbox on two servers.  Two calls: the first asks for an address    *)
(* of another recipient, for one nobody else has, and for one that would    *)
(* become primary; the second for the latter two as plain aliases.  Any     *)
(* other call asks for nothing.  Every mailbox made of a, b and own is an   *)
(* initial state, so each of them may be primary, an alias, or free.        *)
(***************************************************************************)
EXTENDS EmailAlias, TLC

Plain(a) == [form |-> "alias", address |-> a]

MCAddresses == {"a", "b", "own", "boss"}
MCWishes ==
    [c \in Calls |->
        CASE c = "c1" -> <<Plain("boss"), Plain("a"), [form |-> "primary", address |-> "b"]>>
          [] c = "c2" -> <<Plain("b"), Plain("a")>>
          [] OTHER    -> <<>>]

(* Nothing tells the servers apart. *)
MCSymmetry == Permutations(Servers)
=============================================================================
