--------------------------- MODULE MobileDevices ----------------------------
(***************************************************************************)
(* exo_list_mobile_devices (src/exo_mcp/tools/devices.py:32-70) and the way  *)
(* of its result, and of any other tool's, through dump_json_capped          *)
(* (JsonCap).  The listing asks the endpoint for one page, cuts it to the    *)
(* limit and says whether there is more; the dump may then cut it again.     *)
(***************************************************************************)
EXTENDS JsonCap

CONSTANTS
    OtherResults,   \* results of other tools
    DeviceLists,    \* what the devices of the mailbox may serialize to
    MaxLimit,       \* _MAX_LIMIT
    FrameLen,       \* characters around the list: mailbox, count, has_more
    MarkerLen       \* characters of the truncation markers

ASSUME MobileDevicesAssumption ==
    /\ \A r \in OtherResults : IsResult(r)
    /\ DeviceLists \subseteq Seq(Nat) /\ \A l \in DeviceLists : IsList(l)
    /\ MaxLimit \in Nat \ {0} /\ FrameLen \in Nat /\ MarkerLen \in Nat

VARIABLES
    devices,    \* the devices of the mailbox
    limit,      \* the argument
    fetched,    \* how many records the endpoint returned
    has_more    \* what the result says

listing == <<devices, limit, fetched, has_more>>
vars == <<capVars, listing>>

(* Either a listing is asked for, or another tool returns a result.  The     *)
(* limit has passed the validation of its field.                             *)
Init ==
    /\ CapInit
    /\ \/ /\ data = Nothing /\ phase = "list"
          /\ devices \in DeviceLists /\ limit \in 1..MaxLimit
       \/ /\ data \in OtherResults /\ phase = "dump"
          /\ devices = <<>> /\ limit = 1
    /\ fetched = 0
    /\ has_more = FALSE

Smaller(a, b) == IF a <= b THEN a ELSE b

Capped == IF Smaller(limit, MaxLimit) >= 1 THEN Smaller(limit, MaxLimit) ELSE 1

(* The endpoint (external) returns all devices, or heeds the page size.      *)
Answers == {Len(devices), Smaller(Len(devices), Capped)}

(* fault injected: a full page is taken for a sign of more *)
MoreThan(n) == n >= Capped

More(n) == n > Capped

(* The first n devices in their frame.                                       *)
Envelope(n) ==
    [whole |-> FrameLen + Prefix(devices, n),
     extra |-> MarkerLen,
     lists |-> <<SubSeq(devices, 1, n)>>]

List ==
    /\ phase = "list"
    /\ \E n \in Answers :
        /\ fetched' = n
        /\ has_more' = More(n)
        /\ data' = Envelope(Smaller(n, Capped))
    /\ phase' = "dump"
    /\ UNCHANGED <<devices, limit, search, out>>

(* An ExoError: an envelope that is not passed through the cap.              *)
ListFails ==
    /\ phase = "list"
    /\ phase' = "done"
    /\ UNCHANGED <<data, search, out, listing>>

Done == phase = "done" /\ UNCHANGED vars

Next ==
    \/ List \/ ListFails
    \/ Dump /\ UNCHANGED listing
    \/ Done

Spec == Init /\ [][Next]_vars

(* The code runs to its end: nothing in it waits but the fetch, and that     *)
(* ends (Transport!Termination).                                             *)
FairSpec == Spec /\ WF_vars(List \/ ListFails) /\ WF_vars(Dump /\ UNCHANGED listing)
-----------------------------------------------------------------------------
TypeOK ==
    /\ CapTypeOK
    /\ devices \in DeviceLists \union {<<>>}
    /\ limit \in 1..MaxLimit
    /\ fetched \in 0..Len(devices)
    /\ has_more \in BOOLEAN

Listed == fetched > 0 \/ has_more
Returned == IF out.kind = "cut" THEN out.kept ELSE Smaller(fetched, Capped)

(* Whoever reads a listing can account for every device: a complete one      *)
(* claims nothing more, and an incomplete one says so (has_more, or the      *)
(* markers of the truncation), unless the endpoint itself cut the page       *)
(* (devices.py:68 compares with more than it asked for).                     *)
AccountsForAll ==
    phase = "done" /\ Listed =>
        IF Returned = Len(devices) THEN ~has_more /\ out.kind # "cut"
        ELSE has_more \/ out.kind = "cut" \/ fetched < Len(devices)

(* Serializing ends, for any result.                                         *)
Terminates == <>(phase = "done")
=============================================================================
