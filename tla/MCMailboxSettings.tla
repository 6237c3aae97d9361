------------------------- MODULE MCMailboxSettings --------------------------
(***************************************************************************)
(* One mailbox on two servers and two calls, of every pair of tools and      *)
(* arguments: forwarding to a recipient, to a stranger, and off; automatic   *)
(* replies with one field, two, and a refused one; the other tools.  The     *)
(* mailbox already forwards outside.  Its size is below, at or over the      *)
(* limit, and may grow from one to the next.                                 *)
(***************************************************************************)
EXTENDS MailboxSettings, TLC

NoArguments(tool) ==
    [tool |-> tool, to |-> None, flag |-> FALSE, state |-> None, message |-> None, window |-> None]

MCRequests ==
    {NoArguments(t) : t \in Tools \ {"auto_reply"}} \union
    {[NoArguments("forwarding") EXCEPT !.to = t, !.flag = TRUE] : t \in Recipients \union Strangers} \union
    {[NoArguments("auto_reply") EXCEPT !.state = "Enabled"],
     [NoArguments("auto_reply") EXCEPT !.state = "Scheduled", !.message = "back"],
     [NoArguments("auto_reply") EXCEPT !.state = Bad],
     [NoArguments("get_mailbox") EXCEPT !.flag = TRUE]}

MCMailboxes0 ==
    {[type |-> "User", hidden |-> TRUE, hold |-> FALSE, fwd |-> None, smtp |-> "outside",
      copy |-> TRUE, state |-> "Disabled", message |-> "away", window |-> "away"]}

(* Nothing tells the servers apart, or the calls. *)
MCSymmetry == Permutations(Servers) \union Permutations(Calls)
=============================================================================
