----------------------------- MODULE Directory ------------------------------
(***************************************************************************)
(* The tenant's directory as the tools use it, external to the repository.  *)
(* Writes to an object are ordered; a server shows the state after some      *)
(* prefix of them, and catches up in its own time.  The server that takes a  *)
(* write shows it at once.  This is what mailbox.py:147-153 relies on: a     *)
(* read issued in the call that wrote sees the write, a read issued later    *)
(* from elsewhere may still show the old value.                              *)
(***************************************************************************)
EXTENDS Naturals, Sequences

CONSTANT Servers

VARIABLES
    log,    \* the states of the object, oldest first
    at      \* at[s]: which of them server s shows

Newest == log[Len(log)]
Shown(s) == log[at[s]]
Replicated == \A s \in Servers : at[s] = Len(log)

DirectoryInit(states) ==
    /\ log \in {<<v>> : v \in states}
    /\ at = [s \in Servers |-> 1]

(* A write of the whole object through server s.                             *)
Store(s, v) ==
    /\ log' = Append(log, v)
    /\ at' = [at EXCEPT ![s] = Len(log) + 1]

CatchUp(s) ==
    /\ at[s] < Len(log)
    /\ at' = [at EXCEPT ![s] = @ + 1]
    /\ UNCHANGED log
=============================================================================
