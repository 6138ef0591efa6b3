------------------------------ MODULE GroupMap ------------------------------
(***************************************************************************)
(* What a FastMap promises its caller (the group-by stage of the query     *)
(* executor), with hashing, probing, the arena and rehashing abstracted    *)
(* away: a set of groups (distinct keys).                                  *)
(*                                                                         *)
(*   createValue(k)  returns a value whose isNew() is TRUE exactly when k  *)
(*                   was not yet a group, and makes k a group;             *)
(*   findValue(k)    returns a value (found) exactly when k is a group,    *)
(*                   and changes nothing;                                  *)
(*   clear() / restoreInitialCapacity()  forget every group.               *)
(*                                                                         *)
(* ret is the answer of the latest lookup: <<op, key, flag>> where flag is *)
(* isNew() for "create" and "not null" for "find".                         *)
(***************************************************************************)
CONSTANTS Keys

VARIABLES groups, ret

vars == <<groups, ret>>

NoRet == <<"none", "none", FALSE>>

TypeOK ==
    /\ groups \subseteq Keys
    /\ ret \in {NoRet} \cup ({"create", "find"} \X Keys \X BOOLEAN)

Init ==
    /\ groups = {}
    /\ ret = NoRet

Create(k) ==
    /\ ret' = <<"create", k, k \notin groups>>
    /\ groups' = groups \cup {k}

Find(k) ==
    /\ ret' = <<"find", k, k \in groups>>
    /\ UNCHANGED groups

Clear ==
    /\ groups' = {}
    /\ UNCHANGED ret

Next ==
    \/ \E k \in Keys : Create(k) \/ Find(k)
    \/ Clear

Spec == Init /\ [][Next]_vars
=============================================================================
