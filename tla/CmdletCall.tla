----------------------------- MODULE CmdletCall -----------------------------
(***************************************************************************)
(* What one tool call may assume of ExoClient.invoke (api_client.py): the   *)
(* client issues its cmdlets one after the other, and every cmdlet ends in  *)
(* a verdict.  A cmdlet may take effect once per delivery and at most once  *)
(* per delivery; it may do so before the verdict or after it, because a     *)
(* request the client gave up waiting for is still on its way.  Only a      *)
(* success promises anything: the cmdlet took effect at least once.  A      *)
(* redirect ends a cmdlet in the same normal return and promises nothing:   *)
(* that verdict is blank.  Transport refines this module; the tool modules  *)
(* (EmailAlias, GroupMembership, MailboxSettings, Permissions) are written  *)
(* against it, for an endpoint that does not redirect.                      *)
(***************************************************************************)
EXTENDS Naturals

CONSTANTS
    MaxInvokes,     \* cmdlets one tool call issues at most
    MaxRetries      \* deliveries of a cmdlet after the first

Invokes  == 1..MaxInvokes
Attempts == 0..MaxRetries

VARIABLES
    issued,     \* number of cmdlets issued so far, the last may be running
    effects,    \* deliveries <<cmdlet, attempt>> that took effect
    outcome     \* outcome[i]: "pending", "success", "blank" or "failure"

vars == <<issued, effects, outcome>>

Outcomes == {"pending", "success", "blank", "failure"}

TypeOK ==
    /\ issued \in 0..MaxInvokes
    /\ effects \subseteq Invokes \X Attempts
    /\ outcome \in [Invokes -> Outcomes]

Init ==
    /\ issued = 0
    /\ effects = {}
    /\ outcome = [i \in Invokes |-> "pending"]

(* The next cmdlet is issued only when the one before it has its verdict. *)
Issue ==
    /\ issued < MaxInvokes
    /\ issued > 0 => outcome[issued] # "pending"
    /\ issued' = issued + 1
    /\ UNCHANGED <<effects, outcome>>

(* A delivery takes effect, possibly long after the verdict. *)
TakeEffect ==
    /\ \E i \in 1..issued, a \in Attempts :
        /\ <<i, a>> \notin effects
        /\ effects' = effects \union {<<i, a>>}
    /\ UNCHANGED <<issued, outcome>>

(* The running cmdlet gets its verdict. *)
Conclude ==
    /\ issued > 0
    /\ outcome[issued] = "pending"
    /\ \E v \in Outcomes \ {"pending"} :
        /\ v = "success" => \E a \in Attempts : <<issued, a>> \in effects
        /\ outcome' = [outcome EXCEPT ![issued] = v]
    /\ UNCHANGED <<issued, effects>>

Next == Issue \/ TakeEffect \/ Conclude

Spec == Init /\ [][Next]_vars
=============================================================================
