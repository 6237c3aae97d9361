------------------------ MODULE MobileDevicesProofs -------------------------
(***************************************************************************)
(* Theorems about JsonCap and MobileDevices for results, device lists and    *)
(* caps of any size.  The strengthening is the loop invariant of the binary  *)
(* search (Searching): what fits lies below hi, and lo fits or is zero.      *)
(***************************************************************************)
EXTENDS MobileDevices, TLAPS

Items == Len(FullList(key))

Searching ==
    phase = "search" =>
        /\ data.whole > Cap /\ Longest(key)
        /\ lo \in 0..Items /\ hi \in 0..Items /\ lo <= hi
        /\ lo > 0 => Fits(lo)
        /\ \A n \in 0..Items : Fits(n) => n <= hi

Unsaid == phase # "done" => out = NoText

(* What Framed says of a listing depends on its variables and the result. *)
ListingFramed ==
    Listed => /\ fetched \in Answers
              /\ has_more <=> More(fetched)
              /\ data = Envelope(Smaller(fetched, Capped))

(* The list that is cut is one of the result's; a listing stays in its frame. *)
Framed ==
    /\ phase \in {"list", "dump"} => key = 0
    /\ out.kind = "cut" => key \in DOMAIN data.lists
    /\ phase = "list" => fetched = 0 /\ ~has_more
    /\ ListingFramed

(* Prefixes grow with the items they hold. *)
LEMMA CutGrows ==
    ASSUME CapTypeOK, key \in DOMAIN data.lists,
           NEW m \in 0..Items, NEW n \in 0..Items, m <= n, Fits(n)
    PROVE  Fits(m)
  <1>1. FullList(key) \in Seq(Nat) /\ IsList(FullList(key)) /\ data.whole \in Nat /\ data.extra \in Nat
    BY DEF CapTypeOK, IsResult, FullList
  <1>2. \A k \in 0..Items : Prefix(FullList(key), k) \in Nat
    BY <1>1 DEF Prefix, Items
  <1>3. Prefix(FullList(key), m) <= Prefix(FullList(key), n)
    BY <1>1, <1>2 DEF IsList, Items
  <1>4. Size(key) \in Nat
    BY <1>1, <1>2 DEF Size, Items
  <1> QED
    BY <1>1, <1>2, <1>3, <1>4, JsonCapAssumption DEF Fits, CutLength

(* A result that is too long does not fit with its whole list and markers. *)
LEMMA WholeDoesNotFit ==
    ASSUME CapTypeOK, key \in DOMAIN data.lists, data.whole > Cap
    PROVE  ~Fits(Items)
  <1>1. FullList(key) \in Seq(Nat) /\ data.whole \in Nat /\ data.extra \in Nat
    BY DEF CapTypeOK, IsResult, FullList
  <1>2. Prefix(FullList(key), Items) \in Nat
    BY <1>1 DEF Prefix, Items
  <1> QED
    BY <1>1, <1>2, JsonCapAssumption DEF Fits, CutLength, Size, Items

(* The middle that is probed lies above lo and not above hi. *)
LEMMA MidBetween ==
    ASSUME lo \in Nat, hi \in Nat, lo < hi
    PROVE  Mid \in (lo + 1)..hi
  BY DEF Mid

LEMMA ProbeSearches ==
    ASSUME CapTypeOK, Searching, Probe
    PROVE  Searching'
  <1>1. key \in DOMAIN data.lists /\ lo \in Nat /\ hi \in Nat /\ lo < hi
    BY DEF Probe, Searching, Longest, CapTypeOK
  <1>i. Items \in Nat
    BY <1>1 DEF Items, FullList, CapTypeOK, IsResult
  <1>2. Mid \in (lo + 1)..hi /\ Mid \in 0..Items
    <2>1. Mid \in (lo + 1)..hi
      BY <1>1, MidBetween
    <2>2. hi \in 0..Items
      BY DEF Searching, Probe
    <2> QED
      BY <1>1, <1>i, <2>1, <2>2
  <1>3. /\ UNCHANGED <<data, phase, key>>
        /\ Items' = Items
        /\ \A n : Fits(n)' <=> Fits(n)
        /\ Longest(key)' <=> Longest(key)
    BY DEF Probe, Items, Fits, CutLength, FullList, Size, Longest
  <1>4. CASE Fits(Mid)
    BY <1>1, <1>2, <1>3, <1>4 DEF Probe, Searching
  <1>5. CASE ~Fits(Mid)
    <2>1. \A n \in 0..Items : Fits(n) => n <= Mid - 1
      <3> SUFFICES ASSUME NEW n \in 0..Items, Fits(n), ~(n <= Mid - 1) PROVE FALSE
        OBVIOUS
      <3>1. Mid <= n
        BY <1>2
      <3> QED
        BY <1>1, <1>2, <1>5, <3>1, CutGrows
    <2>2. lo' = lo /\ hi' = Mid - 1
      BY <1>5 DEF Probe
    <2>3. Mid - 1 \in 0..Items /\ lo <= Mid - 1
      BY <1>1, <1>i, <1>2
    <2> QED
      BY <1>3, <2>1, <2>2, <2>3 DEF Probe, Searching
  <1> QED
    BY <1>4, <1>5

Inv == TypeOK /\ Unsaid /\ Framed /\ Searching /\ LongestPrefix /\ OverCapOnlyByRest

LEMMA DevicesAreList ==
    ASSUME TypeOK
    PROVE  devices \in Seq(Nat) /\ IsList(devices)
  <1>1. CASE devices = <<>>
    <2>1. Len(devices) = 0 /\ devices \in Seq(Nat)
      BY <1>1
    <2>2. 0..Len(devices) = {0}
      BY <2>1
    <2> QED
      BY <2>1, <2>2 DEF IsList
  <1>2. CASE devices \in DeviceLists
    BY <1>2, MobileDevicesAssumption
  <1> QED
    BY <1>1, <1>2 DEF TypeOK

LEMMA FramedUnchanged ==
    ASSUME ListingFramed, UNCHANGED <<data, listing>>
    PROVE  ListingFramed'
  <1>1. UNCHANGED <<data, devices, limit, fetched, has_more>>
    BY DEF listing
  <1>2. Capped' = Capped
    BY <1>1 DEF Capped, Smaller
  <1>3. Answers' = Answers
    BY <1>1, <1>2 DEF Answers, Smaller
  <1>4. More(fetched)' <=> More(fetched)
    BY <1>1, <1>2 DEF More
  <1>5. Envelope(Smaller(fetched, Capped))' = Envelope(Smaller(fetched, Capped))
    BY <1>1, <1>2 DEF Envelope, Smaller, Prefix
  <1>6. Listed' <=> Listed
    BY <1>1 DEF Listed
  <1> QED
    BY <1>1, <1>3, <1>4, <1>5, <1>6 DEF ListingFramed

(* The frame of the first n devices is a result. *)
LEMMA EnvelopeIsResult ==
    ASSUME TypeOK, NEW n \in 0..Len(devices)
    PROVE  IsResult(Envelope(n))
  <1>1. devices \in Seq(Nat) /\ IsList(devices)
    BY DevicesAreList
  <1> DEFINE shown == SubSeq(devices, 1, n)
  <1>2. shown \in Seq(Nat) /\ Len(shown) = n /\ \A i \in 1..n : shown[i] = devices[i]
    BY <1>1
  <1>3. \A i \in 0..n : Prefix(shown, i) = Prefix(devices, i)
    BY <1>1, <1>2 DEF Prefix
  <1>4. IsList(shown)
    <2> SUFFICES ASSUME NEW i \in 0..n, NEW j \in 0..n, i < j
                 PROVE  Prefix(shown, i) < Prefix(shown, j)
      BY <1>2 DEF IsList
    <2>1. i \in 0..Len(devices) /\ j \in 0..Len(devices)
      BY <1>1
    <2> QED
      BY <1>1, <1>3, <2>1 DEF IsList
  <1>5. FrameLen + Prefix(devices, n) \in Nat /\ MarkerLen \in Nat
    BY <1>1, MobileDevicesAssumption DEF Prefix
  <1>6. <<shown>> \in Seq(Seq(Nat)) /\ DOMAIN <<shown>> = {1} /\ <<shown>>[1] = shown
    BY <1>2
  <1>7. Envelope(n) = [whole |-> FrameLen + Prefix(devices, n), extra |-> MarkerLen, lists |-> <<shown>>]
    BY DEF Envelope
  <1> HIDE DEF shown
  <1>8. Envelope(n) \in [whole : Nat, extra : Nat, lists : Seq(Seq(Nat))]
    BY <1>5, <1>6, <1>7
  <1> QED
    BY <1>4, <1>6, <1>7, <1>8 DEF IsResult

LEMMA InvInit == Init => Inv
  <1> SUFFICES ASSUME Init PROVE Inv
    OBVIOUS
  <1>1. IsResult(data)
    <2>1. IsResult(Nothing)
      BY DEF IsResult, Nothing
    <2> QED
      BY <2>1, MobileDevicesAssumption DEF Init
  <1>2. CapTypeOK
    <2>1. Len(data.lists) \in Nat
      BY <1>1 DEF IsResult
    <2> QED
      BY <1>1, <2>1 DEF Init, CapInit, CapTypeOK, NoText
  <1>t. TypeOK
    <2>1. fetched = 0 /\ 0 \in 0..Len(devices)
      BY MobileDevicesAssumption DEF Init
    <2>2. limit \in 1..MaxLimit
      BY MobileDevicesAssumption DEF Init
    <2> QED
      BY <1>2, <2>1, <2>2 DEF Init, TypeOK
  <1>3. Unsaid /\ Framed /\ Searching /\ LongestPrefix
    BY DEF Init, CapInit, Unsaid, Framed, ListingFramed, Listed, Searching, LongestPrefix, NoText
  <1>4. OverCapOnlyByRest
    BY JsonCapAssumption DEF Init, CapInit, OverCapOnlyByRest, NoText
  <1> QED
    BY <1>t, <1>3, <1>4 DEF Inv

LEMMA DumpStep ==
    ASSUME Inv, Dump, UNCHANGED listing
    PROVE  Inv'
  <1> USE DEF Inv
  <1>1. CapTypeOK
    BY DEF TypeOK
  <1>2. data.whole \in Nat /\ data.extra \in Nat /\ data.lists \in Seq(Seq(Nat))
    BY <1>1 DEF CapTypeOK, IsResult
  <1>3. data' = data /\ IsResult(data)'
    BY <1>1 DEF Dump, Whole, Notice, BeginSearch, Probe, Cut, CapTypeOK, IsResult, IsList, Prefix, search
  <1>l. CapTypeOK' => TypeOK'
    BY DEF listing, TypeOK
  <1>f. Framed'
    <2>2. ListingFramed'
      BY <1>3, FramedUnchanged DEF Framed
    <2>3. phase' # "list" /\ phase # "list" /\ (phase' = "dump" => FALSE)
      BY DEF Dump, Whole, Notice, BeginSearch, Probe, Cut, Emit
    <2>4. out'.kind = "cut" => key' \in DOMAIN data'.lists
      <3>1. CASE Whole \/ Notice
        BY <3>1 DEF Whole, Notice, Emit
      <3>2. CASE BeginSearch \/ Probe
        BY <3>2 DEF BeginSearch, Probe, Unsaid, NoText
      <3>3. CASE Cut
        BY <1>3, <3>3 DEF Cut, search, Searching, Longest
      <3> QED
        BY <3>1, <3>2, <3>3 DEF Dump
    <2> QED
      BY <2>2, <2>3, <2>4 DEF Framed
  <1>4. CASE Whole \/ Notice
    <2>1. CapTypeOK'
      BY <1>1, <1>2, <1>3, <1>4, JsonCapAssumption DEF Whole, Notice, Emit, CapTypeOK, search
    <2>2. Unsaid' /\ Searching' /\ LongestPrefix'
      BY <1>4 DEF Whole, Notice, Emit, Unsaid, Searching, LongestPrefix
    <2>3. OverCapOnlyByRest'
      BY <1>2, <1>4, JsonCapAssumption DEF Whole, Notice, Emit, OverCapOnlyByRest
    <2> QED
      BY <1>f, <1>l, <2>1, <2>2, <2>3
  <1>5. CASE BeginSearch
    <2>1. key' \in DOMAIN data.lists /\ FullList(key') \in Seq(Nat) /\ lo' = 0 /\ hi' = Len(FullList(key'))
      BY <1>2, <1>5 DEF BeginSearch, Longest, FullList
    <2>2. CapTypeOK'
      BY <1>1, <1>2, <1>3, <1>5, <2>1 DEF BeginSearch, CapTypeOK
    <2>3. Unsaid' /\ out' = NoText
      BY <1>5 DEF BeginSearch, Unsaid
    <2>4. Items' = Len(FullList(key')) /\ Longest(key)' /\ data'.whole > Cap
      BY <1>3, <1>5 DEF BeginSearch, Longest, Size, FullList, Items
    <2>5. Searching'
      BY <2>1, <2>4 DEF Searching
    <2>6. LongestPrefix' /\ OverCapOnlyByRest'
      BY <2>3, JsonCapAssumption DEF NoText, LongestPrefix, OverCapOnlyByRest
    <2> QED
      BY <1>f, <1>l, <2>2, <2>3, <2>5, <2>6
  <1>6. CASE Probe
    <2>1. CapTypeOK'
      <3>1. lo < hi /\ lo \in Nat /\ hi \in Nat
        BY <1>1, <1>6 DEF Probe, CapTypeOK
      <3>2. Mid \in (lo + 1)..hi
        BY <3>1, MidBetween
      <3> QED
        BY <1>1, <1>3, <1>6, <3>1, <3>2 DEF Probe, CapTypeOK
    <2>2. Searching'
      BY <1>1, <1>6, ProbeSearches
    <2>3. Unsaid' /\ out' = NoText
      BY <1>6 DEF Probe, Unsaid
    <2>4. LongestPrefix' /\ OverCapOnlyByRest'
      BY <2>3, JsonCapAssumption DEF NoText, LongestPrefix, OverCapOnlyByRest
    <2> QED
      BY <1>f, <1>l, <2>1, <2>2, <2>3, <2>4
  <1>7. CASE Cut
    <2>1. /\ phase = "search" /\ lo >= hi /\ UNCHANGED <<data, key, lo, hi>>
          /\ out' = [kind |-> "cut", length |-> CutLength(lo), kept |-> lo] /\ phase' = "done"
      BY <1>7 DEF Cut, Emit, search
    <2>2. /\ data.whole > Cap /\ Longest(key) /\ key \in DOMAIN data.lists
          /\ lo \in 0..Items /\ hi \in 0..Items /\ lo = hi
          /\ lo > 0 => Fits(lo)
          /\ \A n \in 0..Items : Fits(n) => n <= lo
      BY <2>1 DEF Searching, Longest
    <2>3. FullList(key) \in Seq(Nat) /\ Items \in Nat
      BY <1>2, <2>2 DEF FullList, Items
    <2>4. CutLength(lo) \in Int
      BY <1>2, <2>2, <2>3 DEF CutLength, Size, Prefix, Items
    <2>5. CapTypeOK'
      BY <1>1, <1>3, <2>1, <2>2, <2>4 DEF CapTypeOK
    <2>6. lo < Items \/ FullList(key) = <<>>
      <3>1. ~Fits(Items)
        BY <1>1, <2>2, WholeDoesNotFit
      <3>2. CASE lo = Items
        <4>1. Items = 0
          BY <2>2, <2>3, <3>1, <3>2
        <4> QED
          BY <2>3, <4>1 DEF Items
      <3>3. CASE lo # Items
        BY <2>2, <2>3, <3>3
      <3> QED
        BY <3>2, <3>3
    <2>7. LongestPrefix'
      BY <2>1, <2>2, <2>6 DEF LongestPrefix, Items, Fits, CutLength, Size, FullList
    <2>8. CutLength(lo) > Cap => ~Fits(0)
      <3>1. CASE lo = 0
        BY <2>4, <3>1, JsonCapAssumption DEF Fits
      <3>2. CASE lo > 0
        BY <2>2, <2>4, <3>2, JsonCapAssumption DEF Fits
      <3> QED
        BY <2>2, <2>3, <3>1, <3>2
    <2>9. OverCapOnlyByRest'
      BY <2>1, <2>2, <2>8 DEF OverCapOnlyByRest, Longest, Fits, CutLength, Size, FullList
    <2> QED
      BY <1>f, <1>l, <2>1, <2>5, <2>7, <2>9 DEF Unsaid, Searching
  <1> QED
    BY <1>4, <1>5, <1>6, <1>7 DEF Dump

LEMMA SmallerBetween ==
    ASSUME NEW a \in Nat, NEW b \in Nat
    PROVE  Smaller(a, b) \in 0..a /\ Smaller(a, b) <= b /\ (a <= b => Smaller(a, b) = a)
  BY DEF Smaller

LEMMA CappedIsPositive == TypeOK => Capped \in Nat /\ Capped >= 1
  BY MobileDevicesAssumption DEF TypeOK, Capped, Smaller

LEMMA ListStep ==
    ASSUME Inv, List
    PROVE  Inv'
  <1> USE DEF Inv
  <1>1. PICK n \in Answers : fetched' = n /\ has_more' = More(n) /\ data' = Envelope(Smaller(n, Capped))
    BY DEF List
  <1>2. Len(devices) \in Nat /\ Capped \in Nat
    <2>1. devices \in Seq(Nat)
      BY DevicesAreList
    <2> QED
      BY <2>1, CappedIsPositive
  <1>3. n \in 0..Len(devices) /\ Smaller(n, Capped) \in 0..Len(devices)
    BY <1>2, SmallerBetween DEF Answers
  <1>4. IsResult(Envelope(Smaller(n, Capped)))
    BY <1>3, EnvelopeIsResult
  <1>5. TypeOK'
    <2>1. IsResult(data)'
      BY <1>1, <1>4 DEF IsResult, IsList, Prefix
    <2>2. Len(data'.lists) = 1 /\ key = 0
      BY <1>1 DEF Envelope, List, Framed
    <2> QED
      BY <1>1, <1>3, <2>1, <2>2 DEF List, TypeOK, CapTypeOK, More, search
  <1>6. out' = NoText /\ phase' = "dump"
    BY DEF List, Unsaid
  <1>7. LongestPrefix' /\ OverCapOnlyByRest'
    BY <1>6, JsonCapAssumption DEF NoText, LongestPrefix, OverCapOnlyByRest
  <1>8. Framed'
    <2>1. UNCHANGED <<devices, limit, key>> /\ phase' = "dump" /\ key = 0
      BY DEF List, search, Framed
    <2>2. Capped' = Capped
      BY <2>1 DEF Capped, Smaller
    <2>3. Answers' = Answers
      BY <2>1, <2>2 DEF Answers, Smaller
    <2>4. More(fetched)' <=> has_more'
      BY <1>1, <2>2 DEF More
    <2>5. Smaller(fetched, Capped)' = Smaller(n, Capped)
      BY <1>1, <2>2 DEF Smaller
    <2>6. Envelope(Smaller(fetched, Capped))' = data'
      BY <1>1, <2>1, <2>5 DEF Envelope, Prefix
    <2>7. ListingFramed'
      BY <1>1, <2>3, <2>4, <2>6 DEF ListingFramed
    <2> QED
      BY <1>6, <2>1, <2>7 DEF Framed, NoText
  <1> QED
    BY <1>5, <1>6, <1>7, <1>8 DEF Unsaid, Searching

LEMMA InvStep == Inv /\ [Next]_vars => Inv'
  <1> SUFFICES ASSUME Inv, [Next]_vars PROVE Inv'
    OBVIOUS
  <1>1. CASE ListFails
    <2>1. phase' = "done" /\ out' = NoText /\ UNCHANGED <<data, key, lo, hi, listing>>
      BY <1>1 DEF ListFails, Inv, Unsaid, search
    <2>2. TypeOK'
      BY <2>1 DEF Inv, TypeOK, CapTypeOK, IsResult, IsList, Prefix, listing, NoText
    <2>3. LongestPrefix' /\ OverCapOnlyByRest'
      BY <2>1, JsonCapAssumption DEF NoText, LongestPrefix, OverCapOnlyByRest
    <2>4. Framed'
      BY <1>1, <2>1 DEF ListFails, Inv, Framed, ListingFramed, Listed, listing, NoText
    <2> QED
      BY <2>1, <2>2, <2>3, <2>4 DEF Inv, Unsaid, Searching
  <1>2. CASE UNCHANGED vars
    BY <1>2 DEF vars, capVars, search, listing, Inv, TypeOK, CapTypeOK, IsResult, IsList, Prefix,
                Unsaid, Framed, ListingFramed, Listed, Answers, More, Envelope, Capped, Smaller, Searching, Items,
                ListingFramed, LongestPrefix, OverCapOnlyByRest, Fits, CutLength, Longest, Size, FullList
  <1> QED
    BY <1>1, <1>2, ListStep, DumpStep DEF Next, Done

THEOREM Invariance == Spec => []Inv
  BY InvInit, InvStep, PTL DEF Spec

(* The types of the search and of the listing, for any result. *)
THEOREM TypeCorrect == Spec => []TypeOK
  BY Invariance, PTL DEF Inv

(* The binary search keeps as many items as fit, whatever their lengths. *)
THEOREM KeepsWhatFits == Spec => []LongestPrefix
  BY Invariance, PTL DEF Inv

(* Only what is beside the longest list makes a text longer than the cap. *)
THEOREM CapHolds == Spec => []OverCapOnlyByRest
  BY Invariance, PTL DEF Inv

(* No device goes missing without a mark, but by the endpoint's own page. *)
THEOREM NothingMissing == Spec => []AccountsForAll
  <1>1. Inv => AccountsForAll
    <2> SUFFICES ASSUME Inv, phase = "done", Listed
                 PROVE  IF Returned = Len(devices) THEN ~has_more /\ out.kind # "cut"
                        ELSE has_more \/ out.kind = "cut" \/ fetched < Len(devices)
      BY DEF AccountsForAll
    <2> DEFINE shown == Smaller(fetched, Capped)
    <2>1. /\ fetched \in 0..Len(devices) /\ Len(devices) \in Nat
          /\ Capped \in Nat /\ Capped >= 1
          /\ has_more <=> fetched > Capped
      <3>1. devices \in Seq(Nat)
        BY DevicesAreList DEF Inv
      <3> QED
        BY <3>1, CappedIsPositive DEF Inv, TypeOK, Framed, ListingFramed, More
    <2>2. fetched >= 1
      BY <2>1 DEF Listed
    <2>3. shown \in 1..Len(devices) /\ (has_more => shown < Len(devices))
          /\ (shown < fetched => has_more)
      BY <2>1, <2>2 DEF Smaller
    <2>4. CASE out.kind = "cut"
      <3>1. data = Envelope(shown) /\ key \in DOMAIN data.lists
        BY <2>4 DEF Inv, Framed, ListingFramed
      <3>2. FullList(key) = SubSeq(devices, 1, shown)
        BY <3>1 DEF Envelope, FullList
      <3>3. devices \in Seq(Nat)
        BY DevicesAreList DEF Inv
      <3>4. Len(FullList(key)) = shown
        BY <2>3, <3>2, <3>3
      <3>5. out.kept < shown
        BY <2>3, <2>4, <3>4 DEF Inv, LongestPrefix
      <3> QED
        BY <2>1, <2>3, <2>4, <3>5 DEF Returned, Inv, TypeOK, CapTypeOK
    <2>5. CASE out.kind # "cut"
      BY <2>1, <2>3, <2>5 DEF Returned
    <2> QED
      BY <2>4, <2>5
  <1> QED
    BY <1>1, Invariance, PTL
-----------------------------------------------------------------------------
(* The text CappedText asks for is unique: the result alone decides it.      *)
THEOREM OneText ==
    ASSUME NEW d, IsResult(d), NEW t, NEW u, Promised!IsTextOf(t, d), Promised!IsTextOf(u, d)
    PROVE  t = u
  <1> USE DEF Promised!IsTextOf
  <1>1. d.whole \in Nat /\ Cap \in Nat /\ d.lists \in Seq(Seq(Nat))
    BY JsonCapAssumption DEF IsResult
  <1>2. CASE d.whole <= Cap \/ d.lists = <<>>
    <2>1. d.lists = <<>> => DOMAIN d.lists = {}
      OBVIOUS
    <2> QED
      BY <1>1, <1>2, <2>1
  <1>3. CASE d.whole > Cap /\ d.lists # <<>>
    <2>1. PICK k \in DOMAIN d.lists :
              /\ Promised!FirstLongest(d, k)
              /\ \E n \in 0..Len(d.lists[k]) :
                    /\ Promised!Most(d, k, n)
                    /\ t = [kind |-> "cut", length |-> Promised!Shortened(d, k, n), kept |-> n]
      BY <1>1, <1>3
    <2>2. PICK n \in 0..Len(d.lists[k]) :
              /\ Promised!Most(d, k, n)
              /\ t = [kind |-> "cut", length |-> Promised!Shortened(d, k, n), kept |-> n]
      BY <2>1
    <2>3. PICK j \in DOMAIN d.lists :
              /\ Promised!FirstLongest(d, j)
              /\ \E m \in 0..Len(d.lists[j]) :
                    /\ Promised!Most(d, j, m)
                    /\ u = [kind |-> "cut", length |-> Promised!Shortened(d, j, m), kept |-> m]
      BY <1>1, <1>3
    <2>4. PICK m \in 0..Len(d.lists[j]) :
              /\ Promised!Most(d, j, m)
              /\ u = [kind |-> "cut", length |-> Promised!Shortened(d, j, m), kept |-> m]
      BY <2>3
    <2>5. \A i \in DOMAIN d.lists : Promised!All(d.lists[i]) \in Nat
      <3> SUFFICES ASSUME NEW i \in DOMAIN d.lists PROVE Promised!All(d.lists[i]) \in Nat
        OBVIOUS
      <3>1. d.lists[i] \in Seq(Nat)
        BY <1>1
      <3> DEFINE l == d.lists[i]
      <3> HIDE DEF l
      <3>2. l \in Seq(Nat) => Promised!All(l) \in Nat
        BY DEF Promised!All, Promised!Start
      <3> QED
        BY <3>1, <3>2 DEF l
    <2>6. k = j
      <3> DEFINE ls == d.lists
      <3>0. ls \in Seq(Seq(Nat)) /\ k \in DOMAIN ls /\ j \in DOMAIN ls
        BY <1>1
      <3> HIDE DEF ls
      <3>1. k \in Nat /\ j \in Nat
        BY <3>0
      <3>2. CASE j < k
        BY <2>1, <2>3, <2>5, <3>2 DEF Promised!FirstLongest
      <3>3. CASE k < j
        BY <2>1, <2>3, <2>5, <3>3 DEF Promised!FirstLongest
      <3>4. j < k \/ k < j \/ k = j
        BY <3>1
      <3> QED
        BY <3>2, <3>3, <3>4
    <2>7. m \in Nat /\ n \in Nat /\ m \in 0..Len(d.lists[k]) /\ n \in 0..Len(d.lists[k])
      BY <2>1, <2>2, <2>3, <2>4, <2>6
    <2>8. m <= n
      <3>1. CASE m = 0
        BY <2>7, <3>1
      <3>2. CASE m > 0
        BY <2>1, <2>2, <2>3, <2>4, <2>6, <2>7, <3>2 DEF Promised!Most
      <3> QED
        BY <2>7, <3>1, <3>2
    <2>9. n <= m
      <3>1. CASE n = 0
        BY <2>7, <3>1
      <3>2. CASE n > 0
        BY <2>1, <2>2, <2>3, <2>4, <2>6, <2>7, <3>2 DEF Promised!Most
      <3> QED
        BY <2>7, <3>1, <3>2
    <2> QED
      BY <2>1, <2>2, <2>3, <2>4, <2>6, <2>7, <2>8, <2>9
  <1> QED
    BY <1>2, <1>3

LEMMA SameVocabulary ==
    /\ \A k : Promised!All(FullList(k)) = Size(k)
    /\ \A n : Promised!Shortened(data, key, n) = CutLength(n)
    /\ Longest(key) => key \in DOMAIN data.lists /\ Promised!FirstLongest(data, key)
  BY DEF Promised!All, Promised!Start, Promised!Shortened, Promised!FirstLongest,
         Size, Prefix, FullList, CutLength, Longest

LEMMA CutIsPromised ==
    ASSUME Inv, Cut
    PROVE  Promised!IsTextOf(out', data)
  <1>1. /\ lo >= hi /\ out' = [kind |-> "cut", length |-> CutLength(lo), kept |-> lo]
        /\ data.whole > Cap /\ Longest(key)
        /\ lo \in 0..Items /\ hi \in 0..Items /\ lo <= hi
        /\ lo > 0 => Fits(lo)
        /\ \A n \in 0..Items : Fits(n) => n <= hi
    BY DEF Inv, Cut, Emit, Searching
  <1>2. lo = hi
    <2>1. FullList(key) \in Seq(Nat)
      BY <1>1 DEF Inv, TypeOK, CapTypeOK, IsResult, Longest, FullList
    <2> QED
      BY <1>1, <2>1 DEF Items
  <1>3. Promised!Most(data, key, lo)
    BY <1>1, <1>2, SameVocabulary DEF Promised!Most, Fits, Items, FullList
  <1> QED
    BY <1>1, <1>3, SameVocabulary DEF Promised!IsTextOf, Items, FullList

(* dump_json_capped returns the text its result calls for, for results, caps *)
(* and lists of any size: the binary search is as good as trying every cut.  *)
THEOREM CapRefinement == Spec => ImplementsCappedText
  <1>1. Init => Promised!Init
    BY DEF Init, CapInit, Stage, Promised!Init, NoText, Promised!NoText
  <1>2. Inv /\ [Next]_vars => [Promised!Next]_(Promised!vars)
    <2> SUFFICES ASSUME Inv, [Next]_vars PROVE [Promised!Next]_(Promised!vars)
      OBVIOUS
    <2> USE DEF Promised!vars, Stage
    <2>1. CASE List
      BY <2>1 DEF List, Promised!Next, Promised!Hand
    <2>2. CASE ListFails
      BY <2>2 DEF ListFails, Promised!Next, Promised!NoResult
    <2>3. CASE Whole \/ Notice
      BY <2>3 DEF Whole, Notice, Emit, Promised!Next, Promised!Return, Promised!IsTextOf
    <2>4. CASE BeginSearch \/ Probe
      BY <2>4 DEF BeginSearch, Probe
    <2>5. CASE Cut
      <3>1. Promised!IsTextOf(out', data)
        BY <2>5, CutIsPromised
      <3> QED
        BY <2>5, <3>1 DEF Cut, Emit, Promised!Next, Promised!Return
    <2>6. CASE UNCHANGED vars
      BY <2>6 DEF vars, capVars
    <2> QED
      BY <2>1, <2>2, <2>3, <2>4, <2>5, <2>6 DEF Next, Dump, Done
  <1> QED
    BY <1>1, <1>2, Invariance, PTL DEF Spec, ImplementsCappedText, Promised!Spec
-----------------------------------------------------------------------------
Rank ==
    CASE phase = "list"   -> 3
      [] phase = "dump"   -> 2
      [] phase = "search" -> 1
      [] phase = "done"   -> 0

(* Serializing goes forward only, and a turn of the search at least halves   *)
(* what is left to search (the rounding of its middle sees to that), so it   *)
(* takes as many turns as the number of items has binary digits: the code    *)
(* behind Terminates, for lists of any length.                               *)
SearchHalves ==
    [][\/ Rank' < Rank
       \/ /\ phase = "search" /\ phase' = "search" /\ key' = key
          /\ lo < hi /\ lo <= lo' /\ lo' <= hi' /\ hi' <= hi
          /\ 2 * (hi' - lo') <= hi - lo]_vars

THEOREM HalvedEachTurn == Spec => SearchHalves
  <1>1. Inv /\ [Next]_vars =>
          \/ Rank' < Rank
          \/ /\ phase = "search" /\ phase' = "search" /\ key' = key
             /\ lo < hi /\ lo <= lo' /\ lo' <= hi' /\ hi' <= hi
             /\ 2 * (hi' - lo') <= hi - lo
          \/ UNCHANGED vars
    <2> SUFFICES ASSUME Inv, Next
                 PROVE  \/ Rank' < Rank
                        \/ /\ phase = "search" /\ phase' = "search" /\ key' = key
                           /\ lo < hi /\ lo <= lo' /\ lo' <= hi' /\ hi' <= hi
                           /\ 2 * (hi' - lo') <= hi - lo
                        \/ UNCHANGED vars
      OBVIOUS
    <2>1. CASE Probe
      <3>1. lo \in Nat /\ hi \in Nat /\ lo < hi
        BY <2>1 DEF Probe, Inv, TypeOK, CapTypeOK
      <3>2. \/ lo' = (lo + hi + 1) \div 2 /\ hi' = hi
            \/ hi' = (lo + hi + 1) \div 2 - 1 /\ lo' = lo
        BY <2>1 DEF Probe, Mid
      <3>3. /\ lo <= lo' /\ lo' <= hi' /\ hi' <= hi
            /\ 2 * (hi' - lo') <= hi - lo
        BY <3>1, <3>2
      <3> QED
        BY <2>1, <3>1, <3>3 DEF Probe
    <2>2. CASE List \/ ListFails \/ Whole \/ Notice \/ BeginSearch \/ Cut
      BY <2>2 DEF List, ListFails, Whole, Notice, BeginSearch, Cut, Emit, Rank
    <2> QED
      BY <2>1, <2>2 DEF Next, Dump, Done
  <1> QED
    BY <1>1, Invariance, PTL DEF Spec, SearchHalves
=============================================================================
