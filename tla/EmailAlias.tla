----------------------------- MODULE EmailAlias -----------------------------
(***************************************************************************)
(* exo_add_email_alias (src/exo_mcp/tools/mailbox.py:598-746): read the      *)
(* mailbox, check each requested address, write the whole merged address     *)
(* list, read it back.  Several calls may run on one mailbox, next to an     *)
(* administrator, over a directory that replicates with delay (Directory).   *)
(* A cmdlet behaves as in CmdletCall: the write may take effect up to        *)
(* MaxRetries + 1 times, also when its verdict is a failure, and late.       *)
(***************************************************************************)
EXTENDS Directory, FiniteSets

CONSTANTS
    Calls,          \* calls of the tool on the mailbox
    Addresses,      \* addresses, compared without case
    Foreign,        \* addresses some other recipient holds
    Wishes,         \* Wishes[c]: the aliases argument of call c
    MaxRetries,     \* _MAX_RETRIES of the client
    MaxAdmin,       \* bound: changes an administrator makes
    Disciplined,    \* callers and administrator wait, as the docstring asks (N4)
    LateDelivery    \* a write may take effect after the client gave up on it

(* An element of aliases: plain or smtp:, SMTP:, or any other prefix.        *)
Forms == {"alias", "primary", "other"}

ASSUME EmailAliasAssumption ==
    /\ Wishes \in [Calls -> Seq([form : Forms, address : Addresses])]
    /\ Foreign \subseteq Addresses
    /\ MaxRetries \in Nat /\ MaxAdmin \in Nat
    /\ Disciplined \in BOOLEAN /\ LateDelivery \in BOOLEAN

VARIABLES
    pc,         \* pc[c]: "idle", "read", "check", "write", "confirm" or "done"
    home,       \* home[c]: the server that serves call c
    base,       \* base[c]: the mailbox as call c read it
    results,    \* results[c]: one result per requested address so far
    toAdd,      \* toAdd[c]: addresses to be added
    pending,    \* pending[c]: deliveries of the write that may still take effect
    hits,       \* hits[c]: deliveries of the write that took effect
    reply,      \* reply[c]: what the call returned
    adminLeft,  \* changes the administrator may still make
    removed     \* addresses the administrator removed (history)

callVars == <<pc, home, base, results, toAdd, reply>>
wireVars == <<pending, hits>>
vars == <<log, at, callVars, wireVars, adminLeft, removed>>

Mailboxes == [primary : Addresses, aliases : SUBSET Addresses]
Held(m) == {m.primary} \union m.aliases

Replies == {"none", "error", "nothing_added", "verified", "unverified"}
Results == {"invalid", "already_present", "in_use_by_other", "added"}

Init ==
    /\ DirectoryInit({m \in Mailboxes : m.primary \notin m.aliases
                                         /\ Held(m) \cap Foreign = {}})
    /\ pc = [c \in Calls |-> "idle"]
    /\ home \in [Calls -> Servers]
    /\ base = [c \in Calls |-> Newest]
    /\ results = [c \in Calls |-> <<>>]
    /\ toAdd = [c \in Calls |-> {}]
    /\ pending = [c \in Calls |-> 0]
    /\ hits = [c \in Calls |-> 0]
    /\ reply = [c \in Calls |-> "none"]
    /\ adminLeft = MaxAdmin
    /\ removed = {}

(* "Wait for replication or confirm with exo_get_mailbox before the next     *)
(* write to the same mailbox."                                               *)
Settled == Replicated /\ \A c \in Calls : pc[c] \in {"idle", "done"}
MayWrite == Disciplined => Settled

Start(c) ==
    /\ pc[c] = "idle"
    /\ Wishes[c] # <<>>
    /\ MayWrite
    /\ pc' = [pc EXCEPT ![c] = "read"]
    /\ UNCHANGED <<log, at, home, base, results, toAdd, reply, wireVars, adminLeft, removed>>

(* The call returns.                                                         *)
Return(c, answer) ==
    /\ reply' = [reply EXCEPT ![c] = answer]
    /\ pc' = [pc EXCEPT ![c] = "done"]

(* No address at all is refused before a client exists.                      *)
RefuseEmpty(c) ==
    /\ pc[c] = "idle"
    /\ Wishes[c] = <<>>
    /\ Return(c, "error")
    /\ UNCHANGED <<log, at, home, base, results, toAdd, wireVars, adminLeft, removed>>

(* fault injected: the mailbox is kept from an earlier call *)
ReadCached(c) ==
    /\ pc[c] = "read"
    /\ base' = [base EXCEPT ![c] = log[1]]
    /\ pc' = [pc EXCEPT ![c] = "check"]
    /\ UNCHANGED <<log, at, home, results, toAdd, reply, wireVars, adminLeft, removed>>

ReadMailbox(c) ==
    /\ pc[c] = "read"
    /\ base' = [base EXCEPT ![c] = Shown(home[c])]
    /\ pc' = [pc EXCEPT ![c] = "check"]
    /\ UNCHANGED <<log, at, home, results, toAdd, reply, wireVars, adminLeft, removed>>

(* An ExoError, or no such mailbox.                                          *)
ReadFails(c) ==
    /\ pc[c] = "read"
    /\ Return(c, "error")
    /\ UNCHANGED <<log, at, home, base, results, toAdd, wireVars, adminLeft, removed>>
-----------------------------------------------------------------------------
Wish(c) == Wishes[c][Len(results[c]) + 1]
Checking(c) == pc[c] = "check" /\ Len(results[c]) < Len(Wishes[c])

Record(c, result) == results' = [results EXCEPT ![c] = Append(@, result)]

Skip(c, result) ==
    /\ Record(c, result)
    /\ UNCHANGED <<log, at, pc, home, base, toAdd, reply, wireVars, adminLeft, removed>>

Want(c) ==
    /\ Record(c, "added")
    /\ toAdd' = [toAdd EXCEPT ![c] = @ \union {Wish(c).address}]
    /\ UNCHANGED <<log, at, pc, home, base, reply, wireVars, adminLeft, removed>>

(* Decided from the argument and the mailbox as it was read.                 *)
SkipAtOnce(c) ==
    /\ Checking(c)
    /\ IF Wish(c).form # "alias" THEN Skip(c, "invalid")
       ELSE /\ Wish(c).address \in Held(base[c])
            /\ Skip(c, "already_present")

(* Get-Recipient is asked about every other address.                         *)
Asking(c) ==
    /\ Checking(c)
    /\ Wish(c).form = "alias"
    /\ Wish(c).address \notin Held(base[c])

(* fault injected: the recipient found is not compared with the mailbox *)
FoundAnyone(c) ==
    /\ Asking(c)
    /\ Wish(c).address \in Foreign
    /\ Skip(c, "already_present")

FoundElsewhere(c) ==
    /\ Asking(c)
    /\ Wish(c).address \in Foreign
    /\ Skip(c, "in_use_by_other")

(* It resolves to this mailbox: somebody added it since the read.            *)
FoundHere(c) ==
    /\ Asking(c)
    /\ Wish(c).address \in Held(Shown(home[c]))
    /\ Skip(c, "already_present")

Free(c) == Wish(c).address \notin Foreign \union Held(Shown(home[c]))

(* not_found, or no record: the address is free.                             *)
FoundNowhere(c) ==
    /\ Asking(c)
    /\ Free(c)
    /\ Want(c)

(* fault injected: every ExoError of the lookup is taken for not_found *)
AnyErrorMeansFree(c) ==
    /\ Asking(c)
    /\ Want(c)

(* Any other ExoError: the address could not be checked.                     *)
LookupFails(c) ==
    /\ Asking(c)
    /\ Skip(c, "invalid")

Checked(c) == pc[c] = "check" /\ Len(results[c]) = Len(Wishes[c])

NothingToAdd(c) ==
    /\ Checked(c)
    /\ toAdd[c] = {}
    /\ Return(c, "nothing_added")
    /\ UNCHANGED <<log, at, home, base, results, toAdd, wireVars, adminLeft, removed>>
-----------------------------------------------------------------------------
(* fault injected: only the new addresses are sent *)
UnmergedList(c) == [primary |-> base[c].primary, aliases |-> toAdd[c]]

(* The list that is written: everything that was read, and the new ones.     *)
MergedList(c) == [primary |-> base[c].primary, aliases |-> base[c].aliases \union toAdd[c]]

SendWrite(c) ==
    /\ Checked(c)
    /\ toAdd[c] # {}
    /\ pc' = [pc EXCEPT ![c] = "write"]
    /\ pending' = [pending EXCEPT ![c] = MaxRetries + 1]
    /\ UNCHANGED <<log, at, home, base, results, toAdd, reply, hits, adminLeft, removed>>

(* fault injected: the client retries without end *)
RetriedForever(c) ==
    /\ pending[c] > 0
    /\ Store(home[c], MergedList(c))
    /\ hits' = [hits EXCEPT ![c] = @ + 1]
    /\ UNCHANGED <<callVars, pending, adminLeft, removed>>

(* A delivery of the write takes effect.                                     *)
TakeEffect(c) ==
    /\ pending[c] > 0
    /\ Store(home[c], MergedList(c))
    /\ pending' = [pending EXCEPT ![c] = @ - 1]
    /\ hits' = [hits EXCEPT ![c] = @ + 1]
    /\ UNCHANGED <<callVars, adminLeft, removed>>

(* The deliveries the client is no longer waiting for.                       *)
StopWaiting(c) == pending' = IF LateDelivery THEN pending ELSE [pending EXCEPT ![c] = 0]

WriteSucceeds(c) ==
    /\ pc[c] = "write"
    /\ hits[c] > 0
    /\ StopWaiting(c)
    /\ pc' = [pc EXCEPT ![c] = "confirm"]
    /\ UNCHANGED <<log, at, home, base, results, toAdd, reply, hits, adminLeft, removed>>

WriteFails(c) ==
    /\ pc[c] = "write"
    /\ StopWaiting(c)
    /\ Return(c, "error")
    /\ UNCHANGED <<log, at, home, base, results, toAdd, hits, adminLeft, removed>>

Verified(c, m) == toAdd[c] \subseteq Held(m)

(* The read-back; a failure of it leaves the write accepted and unverified.  *)
Confirm(c) ==
    /\ pc[c] = "confirm"
    /\ \/ Return(c, IF Verified(c, Shown(home[c])) THEN "verified" ELSE "unverified")
       \/ Return(c, "unverified")
    /\ UNCHANGED <<log, at, home, base, results, toAdd, wireVars, adminLeft, removed>>

Call(c) ==
    \/ Start(c) \/ RefuseEmpty(c) \/ ReadMailbox(c) \/ ReadFails(c)
    \/ SkipAtOnce(c) \/ FoundElsewhere(c) \/ FoundHere(c) \/ FoundNowhere(c) \/ LookupFails(c)
    \/ NothingToAdd(c) \/ SendWrite(c) \/ WriteSucceeds(c) \/ WriteFails(c) \/ Confirm(c)
-----------------------------------------------------------------------------
(* The administrator (external): promotes an alias, or removes one.          *)
Administer(m) ==
    /\ adminLeft > 0
    /\ MayWrite
    /\ \E s \in Servers : Store(s, m)
    /\ adminLeft' = adminLeft - 1
    /\ UNCHANGED <<callVars, wireVars>>

Promote ==
    /\ \E a \in Newest.aliases :
        Administer([primary |-> a, aliases |-> (Newest.aliases \ {a}) \union {Newest.primary}])
    /\ UNCHANGED removed

Remove ==
    \E a \in Newest.aliases :
        /\ Administer([Newest EXCEPT !.aliases = @ \ {a}])
        /\ removed' = removed \union {a}

Replicate ==
    /\ \E s \in Servers : CatchUp(s)
    /\ UNCHANGED <<callVars, wireVars, adminLeft, removed>>

Done == (\A c \in Calls : pc[c] = "done") /\ UNCHANGED vars

Next ==
    \/ \E c \in Calls : Call(c) \/ TakeEffect(c)
    \/ Promote \/ Remove \/ Replicate \/ Done

Spec == Init /\ [][Next]_vars

(* Every cmdlet gets its verdict (Transport!Termination), so a call that has *)
(* started goes on; and the directory catches up.                            *)
FairSpec == Spec /\ WF_vars(Replicate) /\ \A c \in Calls : WF_vars(Call(c))
-----------------------------------------------------------------------------
TypeOK ==
    /\ log \in Seq(Mailboxes) /\ Len(log) > 0
    /\ at \in [Servers -> 1..Len(log)]
    /\ pc \in [Calls -> {"idle", "read", "check", "write", "confirm", "done"}]
    /\ home \in [Calls -> Servers]
    /\ base \in [Calls -> Mailboxes]
    /\ results \in [Calls -> Seq(Results)]
    /\ toAdd \in [Calls -> SUBSET Addresses]
    /\ pending \in [Calls -> 0..(MaxRetries + 1)]
    /\ hits \in [Calls -> 0..(MaxRetries + 1)]
    /\ reply \in [Calls -> Replies]
    /\ adminLeft \in 0..MaxAdmin
    /\ removed \subseteq Addresses

States == {log[i] : i \in 1..Len(log)}
Accepted(c) == reply[c] \in {"verified", "unverified"}

(* An address of another recipient is never written into this mailbox, also  *)
(* when the lookup that should have found its holder failed.                 *)
NeverTakesForeign == \A m \in States : Held(m) \cap Foreign = {}

(* Every result a call reports was true of the mailbox at some time: what is *)
(* already_present was there, and what is in_use_by_other is not this        *)
(* mailbox's; verified means that one state had all the new addresses.       *)
ReportsAreTrue ==
    \A c \in Calls :
        /\ \A i \in 1..Len(results[c]) :
            LET a == Wishes[c][i].address IN
            /\ results[c][i] = "already_present" => \E m \in States : a \in Held(m)
            /\ results[c][i] = "in_use_by_other" => a \in Foreign
        /\ reply[c] = "verified" => \E m \in States : toAdd[c] \subseteq Held(m)

(* A race can lose an address that was reported as added, but only in the    *)
(* way the docstring warns of: another call wrote the list it had read when  *)
(* the address was not in it.                                                *)
LossNeedsStaleRead ==
    \A c \in Calls : Accepted(c) =>
        \A a \in toAdd[c] \ (Held(Newest) \union removed) :
            \E d \in Calls \ {c} : hits[d] > 0 /\ a \notin Held(base[d])

(* With callers that wait, an address reported as added is there for good,   *)
(* unless the administrator removed it.                                      *)
AcceptedIsKept ==
    \A c \in Calls : Accepted(c) => toAdd[c] \subseteq Held(Newest) \union removed

(* ... and every server ends up showing it, which is what the note of an      *)
(* unverified answer tells the caller to expect.                             *)
AcceptedShowsEverywhere ==
    \A c \in Calls : [](Accepted(c) =>
        <>[](\A s \in Servers : toAdd[c] \subseteq Held(Shown(s)) \union removed))

(* With callers that wait, the tool is additive.                             *)
Book == INSTANCE AddressBook WITH
    primary   <- Newest.primary,
    aliases   <- Newest.aliases,
    requested <- UNION {toAdd[c] : c \in Calls}

ImplementsAddressBook == Book!Spec

(* mailbox.py:213: the tool "never changes the primary".                     *)
PrimaryOnlyByAdmin == [][Newest'.primary # Newest.primary => adminLeft' # adminLeft]_vars

(* What happens to one call's write is what Transport grants to a cmdlet: it *)
(* was sent once the call got that far with an address to add.               *)
WasSent(c) == pc[c] \in {"write", "confirm"} \/ (pc[c] = "done" /\ toAdd[c] # {})

WriteOutcome(c) ==
    IF ~WasSent(c) \/ pc[c] = "write" THEN "pending"
    ELSE IF pc[c] = "confirm" \/ Accepted(c) THEN "success" ELSE "failure"

Write(c) == INSTANCE CmdletCall WITH
    MaxInvokes <- 1,
    issued     <- IF WasSent(c) THEN 1 ELSE 0,
    effects    <- {1} \X {a \in 0..MaxRetries : a < hits[c]},
    outcome    <- [i \in 1..1 |-> WriteOutcome(c)]

(* The addresses a call may add: those given without a prefix.               *)
Addable(c) == {Wishes[c][i].address : i \in {j \in 1..Len(Wishes[c]) : Wishes[c][j].form = "alias"}}

(* mailbox.py:598 calls the tool idempotent.  With callers that wait, a      *)
(* delivery whose call asks for nothing the mailbox does not hold leaves it  *)
(* as it is: so does the client's retry, and the call made once more.        *)
RepeatsChangeNothing ==
    [][\A c \in Calls : TakeEffect(c) /\ Addable(c) \subseteq Held(Newest) => Newest' = Newest]_vars
=============================================================================
