-------------------------- MODULE GroupMembership ---------------------------
(***************************************************************************)
(* exo_add_distribution_group_member and exo_remove_distribution_group_     *)
(* member (src/exo_mcp/tools/groups.py) on one group and one member: the    *)
(* add looks before it writes, the remove writes at once, both writes are   *)
(* retried by the client (Transport), and other calls run in between.       *)
(*                                                                          *)
(* The directory is external, and taken to be one copy here; what Exchange  *)
(* answers to a repeated add is the code's own guess (groups.py:23-28), so  *)
(* both wordings are possible.  Why it refuses is its own affair: a role    *)
(* missing, withdrawn between two attempts, or an expired token all end in  *)
(* the same 401 or 403.                                                     *)
(***************************************************************************)
EXTENDS Naturals

CONSTANTS
    AddCalls,       \* calls of the add tool
    RemoveCalls,    \* calls of the remove tool
    Groups,         \* what the group may be: a subset of AllGroups
    MaxRetries      \* _MAX_RETRIES of the client

Calls == AddCalls \union RemoveCalls

(* type is RecipientTypeDetails; hides: the look before the add may miss a   *)
(* member who is there, being past the one page that is read, or named by a  *)
(* UPN or a secondary address, which no projected field holds.               *)
AllGroups == [type : {"MailUniversalDistributionGroup", "DynamicDistributionGroup", "GroupMailbox"},
              synced : BOOLEAN, hides : BOOLEAN]

ASSUME GroupMembershipAssumption ==
    /\ AddCalls \cap RemoveCalls = {}
    /\ Groups \subseteq AllGroups
    /\ MaxRetries \in Nat

VARIABLES
    group,      \* the group, which nobody changes but for its membership
    orderly,    \* calls take turns, and no write outlives its client's patience
    present,    \* the member is in it
    bypass,     \* bypass[c]: the argument bypass_security_group_manager_check
    pc,         \* pc[c]: "idle", "recipient", "members", "write" or "done"
    attempt,    \* attempt[c]: the running delivery of the write
    wire,       \* deliveries <<c, a>> on their way to Exchange
    answer,     \* answer[c]: what Exchange answered to the running delivery
    reply,      \* reply[c]: what the call returned
    changed,    \* history: deliveries that changed the membership
    witnessed   \* history: calls during which the member was in the group

callVars == <<pc, attempt, reply>>
vars == <<group, orderly, present, bypass, callVars, wire, answer, changed, witnessed>>

Answers == {"none", "ok", "duplicate", "duplicate_other", "not_manager", "forbidden", "error"}

Restrictions == {"directory_synced_group_unsupported", "dynamic_group_unsupported",
                 "microsoft_365_group_unsupported"}
Replies == {"none", "added", "already_member", "removed", "error", "duplicate_error",
            "not_group_manager", "bypass_not_permitted"} \union Restrictions

Init ==
    /\ group \in Groups
    /\ orderly \in BOOLEAN
    /\ present \in BOOLEAN
    /\ bypass \in [Calls -> BOOLEAN]
    /\ pc = [c \in Calls |-> "idle"]
    /\ attempt = [c \in Calls |-> 0]
    /\ wire = {}
    /\ answer = [c \in Calls |-> "none"]
    /\ reply = [c \in Calls |-> "none"]
    /\ changed = {}
    /\ witnessed = {}

Running == {c \in Calls : pc[c] \notin {"idle", "done"}}

Return(c, r) ==
    /\ reply' = [reply EXCEPT ![c] = r]
    /\ pc' = [pc EXCEPT ![c] = "done"]

GoTo(c, where) ==
    /\ pc' = [pc EXCEPT ![c] = where]
    /\ UNCHANGED reply

(* The deliveries of c that can still reach Exchange once it stops waiting. *)
StillOut(c) == IF orderly THEN {d \in wire : d[1] # c} ELSE wire
-----------------------------------------------------------------------------
(* The add starts with a read, the remove with its write.                   *)
Start(c) ==
    /\ pc[c] = "idle"
    /\ orderly => Running = {}
    /\ GoTo(c, IF c \in AddCalls THEN "recipient" ELSE "write")
    /\ wire' = IF c \in AddCalls THEN wire ELSE wire \union {<<c, 0>>}
    /\ witnessed' = IF present THEN witnessed \union {c} ELSE witnessed
    /\ UNCHANGED <<group, orderly, present, bypass, attempt, answer, changed>>

RestrictionOfType ==
    IF group.type = "DynamicDistributionGroup" THEN "dynamic_group_unsupported"
    ELSE IF group.type = "GroupMailbox" THEN "microsoft_365_group_unsupported"
    ELSE "none"

(* Synchronization is looked at first: a synced group may have any type.    *)
Restriction ==
    IF group.synced THEN "directory_synced_group_unsupported" ELSE RestrictionOfType

(* Get-Recipient.                                                           *)
Classify(c) ==
    /\ pc[c] = "recipient"
    /\ IF Restriction = "none" THEN GoTo(c, "members") ELSE Return(c, Restriction)
    /\ UNCHANGED <<group, orderly, present, bypass, attempt, wire, answer, changed, witnessed>>

(* An ExoError of either read, or no such group.                            *)
ReadFails(c) ==
    /\ pc[c] \in {"recipient", "members"}
    /\ Return(c, "error")
    /\ UNCHANGED <<group, orderly, present, bypass, attempt, wire, answer, changed, witnessed>>

(* fault injected: a record that merely resembles the member will do *)
FoundSimilar(c) ==
    /\ pc[c] = "members"
    /\ Return(c, "already_member")
    /\ UNCHANGED <<group, orderly, present, bypass, attempt, wire, answer, changed, witnessed>>

(* Get-DistributionGroupMember shows the member.                            *)
FoundMember(c) ==
    /\ pc[c] = "members"
    /\ present
    /\ Return(c, "already_member")
    /\ UNCHANGED <<group, orderly, present, bypass, attempt, wire, answer, changed, witnessed>>

(* It does not, for there is none, or the look misses it.                   *)
SendAdd(c) ==
    /\ pc[c] = "members"
    /\ ~present \/ group.hides
    /\ GoTo(c, "write")
    /\ wire' = wire \union {<<c, 0>>}
    /\ UNCHANGED <<group, orderly, present, bypass, attempt, answer, changed, witnessed>>
-----------------------------------------------------------------------------
(* Exchange takes up a delivery (external).  The answer reaches the client  *)
(* if it still waits for this very delivery.                                *)
Respond(d, a) ==
    /\ wire' = wire \ {d}
    /\ answer' = IF pc[d[1]] = "write" /\ attempt[d[1]] = d[2]
                 THEN [answer EXCEPT ![d[1]] = a] ELSE answer
    /\ UNCHANGED <<group, orderly, bypass, callVars>>

(* The membership changes: an add of a member that is absent, a remove of   *)
(* one that is present.  The answer may fail to say so: a body that cannot   *)
(* be read, or a 5xx that is not asked for again.                            *)
Change(d) ==
    /\ present = (d[1] \in RemoveCalls)
    /\ present' = ~present
    /\ changed' = changed \union {d}
    /\ witnessed' = IF present' THEN witnessed \union Running ELSE witnessed
    /\ \E a \in {"ok", "error"} : Respond(d, a)

(* Nothing changes: 401 or 403, the wording of a caller who is no manager,   *)
(* one of the two for a member who is there already, or any other error.     *)
Refuse(d) ==
    /\ \E a \in Answers \ {"none", "ok"} :
        /\ a \in {"duplicate", "duplicate_other"} => d[1] \in AddCalls /\ present
        /\ Respond(d, a)
    /\ UNCHANGED <<present, changed, witnessed>>
-----------------------------------------------------------------------------
(* fault injected: with the switch set, every error is blamed on it, also    *)
(* one that leaves open whether the change was made                          *)
BlameBypass(c, a) ==
    IF bypass[c] THEN "bypass_not_permitted"
    ELSE IF a = "not_manager" THEN "not_group_manager" ELSE "error"

(* fault injected: the upstream answer is handed on as it is *)
RawError(c, a) == a

(* duplicate_error stands for the upstream_error of a duplicate that the     *)
(* markers do not match.                                                    *)
MembershipError(c, a) ==
    IF a = "forbidden" /\ bypass[c] THEN "bypass_not_permitted"
    ELSE IF a = "not_manager" THEN "not_group_manager"
    ELSE IF a = "duplicate_other" THEN "duplicate_error"
    ELSE "error"

(* A remove begins with its write, so it is the one that meets a failed      *)
(* token exchange there, and takes it for an answer to the switch.           *)
TokenFails(c) ==
    /\ c \in RemoveCalls
    /\ pc[c] = "idle"
    /\ orderly => Running = {}
    /\ \E a \in {"forbidden", "error"} : Return(c, MembershipError(c, a))
    /\ UNCHANGED <<group, orderly, present, bypass, attempt, wire, answer, changed, witnessed>>

Success(c) == IF c \in AddCalls THEN "added" ELSE "removed"

(* fault injected: the refusal of a duplicate falls through to the success *)
DuplicateIsAdded(c) ==
    IF answer[c] \in {"ok", "duplicate"} THEN Success(c)
    ELSE MembershipError(c, answer[c])

ReplyTo(c) ==
    IF answer[c] = "ok" THEN Success(c)
    ELSE IF answer[c] = "duplicate" /\ c \in AddCalls THEN "already_member"
    ELSE MembershipError(c, answer[c])

Receive(c) ==
    /\ pc[c] = "write"
    /\ answer[c] # "none"
    /\ Return(c, ReplyTo(c))
    /\ wire' = StillOut(c)
    /\ UNCHANGED <<group, orderly, present, bypass, attempt, answer, changed, witnessed>>

(* No answer in time, a lost answer, or a status worth a retry.             *)
Retry(c) ==
    /\ pc[c] = "write"
    /\ attempt[c] < MaxRetries
    /\ attempt' = [attempt EXCEPT ![c] = @ + 1]
    /\ answer' = [answer EXCEPT ![c] = "none"]
    /\ wire' = StillOut(c) \union {<<c, attempt[c] + 1>>}
    /\ UNCHANGED <<group, orderly, present, bypass, pc, reply, changed, witnessed>>

GiveUp(c) ==
    /\ pc[c] = "write"
    /\ attempt[c] = MaxRetries
    /\ Return(c, MembershipError(c, "none"))
    /\ wire' = StillOut(c)
    /\ UNCHANGED <<group, orderly, present, bypass, attempt, answer, changed, witnessed>>

Call(c) ==
    \/ Start(c) \/ Classify(c) \/ ReadFails(c) \/ FoundMember(c) \/ SendAdd(c)
    \/ Receive(c) \/ Retry(c) \/ GiveUp(c) \/ TokenFails(c)

Done == (\A c \in Calls : pc[c] = "done") /\ wire = {} /\ UNCHANGED vars

Next ==
    \/ \E c \in Calls : Call(c)
    \/ \E d \in wire : Change(d) \/ Refuse(d)
    \/ Done

Spec == Init /\ [][Next]_vars
-----------------------------------------------------------------------------
TypeOK ==
    /\ group \in Groups
    /\ orderly \in BOOLEAN
    /\ present \in BOOLEAN
    /\ bypass \in [Calls -> BOOLEAN]
    /\ pc \in [Calls -> {"idle", "recipient", "members", "write", "done"}]
    /\ attempt \in [Calls -> 0..MaxRetries]
    /\ wire \subseteq Calls \X (0..MaxRetries)
    /\ answer \in [Calls -> Answers]
    /\ reply \in [Calls -> Replies]
    /\ changed \subseteq Calls \X (0..MaxRetries)
    /\ witnessed \subseteq Calls

ChangedBy(c) == \E d \in changed : d[1] = c

(* What the tools answer is true whatever other calls and late deliveries   *)
(* do: added and removed are claimed by a call that made the change, and    *)
(* already_member only when the member was there while the call ran.        *)
AnswersAreTrue ==
    \A c \in Calls :
        /\ reply[c] \in {"added", "removed"} => ChangedBy(c)
        /\ reply[c] = "already_member" => c \in witnessed

(* A refusal with a name of its own is true of what it answers.  That of a   *)
(* restricted group is about the call: nothing of it changes the membership, *)
(* before or after.  not_group_manager and bypass_not_permitted, whatever    *)
(* was behind the 403, are about the last delivery, which did not change it  *)
(* and never will: only an earlier one, whose answer was lost, can have.     *)
(* Only a plain error leaves the last delivery open.                         *)
PermissionRefusals == {"not_group_manager", "bypass_not_permitted"}

NamedRefusalIsFinal ==
    /\ \A c \in Calls : reply[c] \in Restrictions => ~ChangedBy(c)
    /\ \A c \in Calls : reply[c] \in PermissionRefusals =>
            \A d \in changed : d[1] = c => d[2] < attempt[c]
    /\ group.synced \/ group.type \in {"DynamicDistributionGroup", "GroupMailbox"}
            => \A c \in AddCalls : ~ChangedBy(c)

(* When calls take turns, what a call answers is so when it returns, after   *)
(* any retries; and a call that changed the membership leaves it changed,    *)
(* also when the retry found nothing left to do and the answer is an error   *)
(* (groups.py:213-224 hands that error on, unlike the add).                  *)
Returns(c) == pc[c] # "done" /\ pc'[c] = "done"
AnswerHoldsOnReturn ==
    [][\A c \in Calls : orderly /\ Returns(c) =>
        /\ reply'[c] \in {"added", "already_member"} => present
        /\ reply'[c] = "removed" => ~present
        /\ ChangedBy(c) => (present <=> c \in AddCalls)]_vars

(* groups.py:119: "a member already present is reported as already_member   *)
(* rather than an error".                                                   *)
PresentIsNoError == orderly => \A c \in AddCalls : reply[c] # "duplicate_error"

(* When calls take turns, no call changes the membership twice: a retry of a *)
(* change that took effect, which the client sends unasked, finds it done.   *)
(* A late delivery of an earlier call could undo what a later one did.       *)
ChangesOnce ==
    [][orderly /\ present' # present =>
        \E d \in wire : ~ChangedBy(d[1]) /\ changed' = changed \union {d}]_vars
=============================================================================
