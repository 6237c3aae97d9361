-------------------------- MODULE MCMobileDevices ---------------------------
(***************************************************************************)
(* Up to five devices of one or two characters each; limits below, at and  *)
(* above their number; a cap that some prefixes fit and some do not.  The    *)
(* other results have no list, one, or two of which either is the longer,    *)
(* with frames below and above the cap.                                      *)
(***************************************************************************)
EXTENDS MobileDevices, FiniteSets

(* Brackets and commas: the prefixes of a list of items of these lengths.    *)
Ends(items) ==
    LET end[n \in 0..Len(items)] ==
            IF n = 0 THEN 1 ELSE end[n - 1] + items[n] + 1
    IN [n \in 1..Len(items) |-> end[n]]

ListsUpTo(n, widths) == {Ends(s) : s \in UNION {[1..k -> widths] : k \in 0..n}}

MCDeviceLists == ListsUpTo(5, 1..2)

ResultOf(frame, lists) ==
    LET size(k) == Prefix(lists[k], Len(lists[k]))
        sizes == IF Len(lists) = 0 THEN 0 ELSE IF Len(lists) = 1 THEN size(1) ELSE size(1) + size(2)
    IN [whole |-> frame + sizes, extra |-> 3, lists |-> lists]

MCOtherResults ==
    {ResultOf(f, <<>>) : f \in {0, 15, 16, 30}} \union
    {ResultOf(f, <<l>>) : f \in {0, 4, 13, 20}, l \in ListsUpTo(4, {1, 4})} \union
    {ResultOf(f, <<l, m>>) : f \in {1, 9}, l \in ListsUpTo(3, {1, 4}), m \in ListsUpTo(3, {2, 5})}
=============================================================================
