------------------------- MODULE MCGroupMembership --------------------------
(***************************************************************************)
(* Two adds and a remove of the same member.  The groups: a plain one whose *)
(* member the look before the add always finds, a plain one whose member it *)
(* may miss (which does all that the first does), and one for each named    *)
(* restriction.                                                             *)
(***************************************************************************)
EXTENDS GroupMembership, TLC

CONSTANTS add1, add2, remove

Plain(synced, hides) ==
    [type |-> "MailUniversalDistributionGroup", synced |-> synced, hides |-> hides]

MCGroups ==
    {Plain(FALSE, FALSE), Plain(FALSE, TRUE), Plain(TRUE, TRUE)} \union
    {g \in AllGroups : ~g.synced /\ g.hides /\ g.type # "MailUniversalDistributionGroup"}

(* Nothing tells the two adds apart. *)
MCSymmetry == Permutations({add1, add2})
=============================================================================
