------------------------------- MODULE JsonCap ------------------------------
(***************************************************************************)
(* dump_json_capped (src/exo_mcp/_json.py:18-74), through which every tool   *)
(* returns its result: a result that is too long loses the tail of its       *)
(* longest list, and a binary search finds how much of the list may stay.    *)
(*                                                                          *)
(* Text is abstracted to its length.  A list is the sequence of the lengths  *)
(* its serialized prefixes have; a result is its length in full, its         *)
(* top-level lists in order, and the extra characters the markers of a       *)
(* truncation take (for a bare list, also the object that is put around it). *)
(***************************************************************************)
EXTENDS Integers, Sequences

CONSTANTS
    Cap,        \* max_chars
    NoticeLen   \* length of the notice that replaces a result without lists

(* "[]", and the first n items in brackets.  Every item adds a character.    *)
Prefix(list, n) == IF n = 0 THEN 2 ELSE list[n]
IsList(list) ==
    \A i, j \in 0..Len(list) : i < j => Prefix(list, i) < Prefix(list, j)

IsResult(r) ==
    /\ r \in [whole : Nat, extra : Nat, lists : Seq(Seq(Nat))]
    /\ \A k \in DOMAIN r.lists : IsList(r.lists[k])

ASSUME JsonCapAssumption == Cap \in Nat /\ NoticeLen \in 0..Cap

VARIABLES
    data,   \* the result to be serialized
    phase,  \* "dump", "search" or "done"; "list" before there is a result
    key,    \* the list that is cut
    lo, hi, \* bounds of the search: how many of its items stay
    out     \* the text returned: what kind, its length, the items that stay

search == <<key, lo, hi>>
capVars == <<data, phase, search, out>>

Nothing == [whole |-> 0, extra |-> 0, lists |-> <<>>]
NoText == [kind |-> "none", length |-> 0, kept |-> 0]

CapInit ==
    /\ key = 0 /\ lo = 0 /\ hi = 0
    /\ out = NoText

FullList(k) == data.lists[k]
Size(k) == Prefix(FullList(k), Len(FullList(k)))

(* max() returns the first of the longest lists.                             *)
Longest(k) ==
    /\ k \in DOMAIN data.lists
    /\ \A j \in DOMAIN data.lists : Size(j) <= Size(k) /\ (j < k => Size(j) < Size(k))

(* The text with the first n items of the chosen list, and with the markers. *)
CutLength(n) == data.whole + data.extra - Size(key) + Prefix(FullList(key), n)
Fits(n) == CutLength(n) <= Cap

Emit(kind, length, kept) ==
    /\ out' = [kind |-> kind, length |-> length, kept |-> kept]
    /\ phase' = "done"

Whole ==
    /\ phase = "dump"
    /\ data.whole <= Cap
    /\ Emit("whole", data.whole, 0)
    /\ UNCHANGED <<data, search>>

Notice ==
    /\ phase = "dump"
    /\ data.whole > Cap
    /\ data.lists = <<>>
    /\ Emit("notice", NoticeLen, 0)
    /\ UNCHANGED <<data, search>>

(* fault injected: the first list is taken for the longest *)
CutFirstList ==
    /\ phase = "dump"
    /\ data.whole > Cap
    /\ data.lists # <<>>
    /\ key' = 1 /\ lo' = 0 /\ hi' = Len(FullList(1))
    /\ phase' = "search"
    /\ UNCHANGED <<data, out>>

BeginSearch ==
    /\ phase = "dump"
    /\ data.whole > Cap
    /\ \E k \in DOMAIN data.lists :
        /\ Longest(k)
        /\ key' = k /\ lo' = 0 /\ hi' = Len(FullList(k))
    /\ phase' = "search"
    /\ UNCHANGED <<data, out>>

(* fault injected: the middle is rounded down, and two candidates never meet *)
MidRoundedDown == (lo + hi) \div 2

Mid == (lo + hi + 1) \div 2

(* fault injected: a middle that fits is taken for one that does not *)
ProbeStrictly ==
    /\ phase = "search"
    /\ lo < hi
    /\ IF CutLength(Mid) < Cap THEN lo' = Mid /\ UNCHANGED hi
       ELSE hi' = Mid - 1 /\ UNCHANGED lo
    /\ UNCHANGED <<data, phase, key, out>>

Probe ==
    /\ phase = "search"
    /\ lo < hi
    /\ IF Fits(Mid) THEN lo' = Mid /\ UNCHANGED hi
       ELSE hi' = Mid - 1 /\ UNCHANGED lo
    /\ UNCHANGED <<data, phase, key, out>>

Cut ==
    /\ phase = "search"
    /\ lo >= hi
    /\ Emit("cut", CutLength(lo), lo)
    /\ UNCHANGED <<data, search>>

Dump == Whole \/ Notice \/ BeginSearch \/ Probe \/ Cut
-----------------------------------------------------------------------------
CapTypeOK ==
    /\ IsResult(data)
    /\ phase \in {"list", "dump", "search", "done"}
    /\ key \in 0..Len(data.lists)
    /\ lo \in Nat /\ hi \in Nat
    /\ out \in [kind : {"none", "whole", "notice", "cut"}, length : Int, kept : Nat]

(* _json.py:36-52: a truncated list keeps as many items as fit, and loses    *)
(* one at least; only an empty list, which has none to lose, comes back as   *)
(* long as it was.  The search is over a length that grows with the items.   *)
LongestPrefix ==
    out.kind = "cut" =>
        /\ out.kept < Len(FullList(key)) \/ FullList(key) = <<>>
        /\ out.kept > 0 => Fits(out.kept)
        /\ \A n \in 0..Len(FullList(key)) : Fits(n) => n <= out.kept

(* _json.py:19-21 promises never to return an unbounded blob: a text is       *)
(* longer than the cap only when the rest of the result, beside its longest  *)
(* list, is too long by itself.                                              *)
OverCapOnlyByRest ==
    out.length > Cap => out.kind = "cut" /\ ~Fits(0) /\ Longest(key)

(* The dump has no other outcome than the one text CappedText gives for the  *)
(* result: the search and its bounds leave no trace in it.                   *)
Stage ==
    CASE phase = "list" -> "waiting"
      [] phase = "done" -> "returned"
      [] OTHER          -> "handed"

Promised == INSTANCE CappedText WITH stage <- Stage

ImplementsCappedText == Promised!Spec
=============================================================================
