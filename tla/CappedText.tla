----------------------------- MODULE CappedText -----------------------------
(***************************************************************************)
(* What dump_json_capped (src/exo_mcp/_json.py:18-74) promises the tool that *)
(* hands it a result: one text, given by the result alone.  It is the whole  *)
(* result if that fits, a notice if the result has no list to shorten, and   *)
(* else the result with the longest start of its longest list that fits.     *)
(* No search is seen from outside.  JsonCap refines this module.             *)
(***************************************************************************)
EXTENDS Integers, Sequences

CONSTANTS
    Cap,        \* max_chars
    NoticeLen   \* length of the notice

VARIABLES
    data,       \* the result, a record as in JsonCap
    stage,      \* "waiting" for a result, "handed" one, or "returned"
    out         \* the text

vars == <<data, stage, out>>

NoText == [kind |-> "none", length |-> 0, kept |-> 0]

(* Characters of the first n items of a list, and of all of them.            *)
Start(list, n) == IF n = 0 THEN 2 ELSE list[n]
All(list)      == Start(list, Len(list))

(* The first of the longest lists.                                           *)
FirstLongest(d, k) ==
    \A j \in DOMAIN d.lists :
        All(d.lists[j]) <= All(d.lists[k]) /\ (j < k => All(d.lists[j]) < All(d.lists[k]))

Shortened(d, k, n) == d.whole + d.extra - All(d.lists[k]) + Start(d.lists[k], n)

(* The most items that fit; none, when not even the rest fits.               *)
Most(d, k, n) ==
    /\ n > 0 => Shortened(d, k, n) <= Cap
    /\ \A m \in 0..Len(d.lists[k]) : Shortened(d, k, m) <= Cap => m <= n

IsTextOf(t, d) ==
    \/ /\ d.whole <= Cap
       /\ t = [kind |-> "whole", length |-> d.whole, kept |-> 0]
    \/ /\ d.whole > Cap /\ d.lists = <<>>
       /\ t = [kind |-> "notice", length |-> NoticeLen, kept |-> 0]
    \/ /\ d.whole > Cap
       /\ \E k \in DOMAIN d.lists :
            /\ FirstLongest(d, k)
            /\ \E n \in 0..Len(d.lists[k]) :
                /\ Most(d, k, n)
                /\ t = [kind |-> "cut", length |-> Shortened(d, k, n), kept |-> n]
-----------------------------------------------------------------------------
Init == stage \in {"waiting", "handed"} /\ out = NoText

Hand ==
    /\ stage = "waiting"
    /\ stage' = "handed"
    /\ UNCHANGED out

(* The tool failed: its error envelope is not passed through the cap.        *)
NoResult ==
    /\ stage = "waiting"
    /\ stage' = "returned"
    /\ UNCHANGED <<data, out>>

Return ==
    /\ stage = "handed"
    /\ IsTextOf(out', data)
    /\ stage' = "returned"
    /\ UNCHANGED data

Next == Hand \/ NoResult \/ Return

Spec == Init /\ [][Next]_vars
=============================================================================
