--------------------------- MODULE MCPermissions ----------------------------
(***************************************************************************)
(* Two calls, of every pair of tools: grant, removal and listing (of all and *)
(* of one) of two rights, for a person and for the owner's own grant; the    *)
(* removal of a device; SendOnBehalf for two persons, in several writings of *)
(* a name, and for a stranger.  The rights are free; denied or inherited; or *)
(* held, one of them also by inheritance.                                    *)
(***************************************************************************)
EXTENDS Permissions, TLC

Ask(tool, right, who, form) == [tool |-> tool, right |-> right, who |-> who, form |-> form]

MCRequests ==
    {Ask(t, "FullAccess", p, "upn") : t \in {"add", "remove", "list"}, p \in {"bob", Self}} \union
    {Ask("list", "FullAccess", Nobody, "upn"), Ask("add", "FullAccess", "eve", "upn"),
     Ask("remove", "Device", "bob", "oid"),
     Ask("delegate", "SendAs", "bob", "upn"), Ask("delegate", "SendAs", "bob", "smtp"),
     Ask("delegate", "SendAs", "ann", "upn"), Ask("delegate", "SendAs", "eve", "upn")} \union
    {Ask(t, "SendAs", "bob", "upn") : t \in {"add", "remove", "list"}}

Denied(right, who) == [Allow(right, who) EXCEPT !.entry = "deny"]
Inherited(right, who) == [Allow(right, who) EXCEPT !.entry = "inherited"]

MCAcls ==
    {{}, {Denied("FullAccess", "bob"), Inherited("SendAs", "bob")},
     {Allow("FullAccess", "bob"), Inherited("FullAccess", "bob"), Allow("SendAs", "bob"),
      Allow("Device", "bob"), Allow("FullAccess", Self)}}

(* Nothing tells the servers apart, or the calls. *)
MCSymmetry == Permutations(Servers) \union Permutations(Calls)
=============================================================================
