----------------------------- MODULE MCSecretSync -----------------------------
(* Instances of SecretSync for TLC. *)
EXTENDS SecretSync, TLC

CONSTANT Lone       \* the secret of the workload that enables and disables

Shared == Secret \ {Lone}

Do(op) == [NoCommand EXCEPT !.op = op]

SetOf(n, a, k) == [Do("set") EXCEPT !.name = n, !.map = {<<a, k>>}]
RemoveOf(n, a) == [Do("remove") EXCEPT !.name = n, !.secrets = {a}]
Of(op, i, also) == [Do(op) EXCEPT !.identity = i, !.also = also]

SecretCommands(secrets) ==
    {SetOf(n, a, k) : n \in SyncName, a \in secrets, k \in Key}
    \cup {RemoveOf(n, a) : n \in SyncName, a \in secrets}

LifeCommands == {Do("enable"), Do("disable")} \cup SecretCommands({Lone})

InstanceCommands ==
    {Do("enable"), Do("update")}
    \cup {Of("assign", i, TRUE) : i \in Identity}
    \cup {Of("unassign", i, also) : i \in Identity, also \in BOOLEAN}

(* Two names share two secrets of an SPC that stays; the SPC and its        *)
(* credential come and go around one secret of two names; the instance      *)
(* record changes hands.  Both processes are given the same commands, so    *)
(* that they are symmetric.                                                 *)
MCWorkloads ==
    [secrets  |-> [given |-> [s \in Session |-> SecretCommands(Shared)],
                   enabled |-> TRUE, vault |-> Shared],
     life     |-> [given |-> [s \in Session |-> LifeCommands],
                   enabled |-> FALSE, vault |-> {Lone}],
     instance |-> [given |-> [s \in Session |-> InstanceCommands],
                   enabled |-> FALSE, vault |-> {}]]

Symmetry == Permutations(Shared) \cup Permutations(SyncName)
            \cup Permutations(Session) \cup Permutations(Identity)

(* A write that rested on an outdated read is taken, its successors are not *)
(* explored: what the properties say of them holds trivially.               *)
Fresh == ~stale
===============================================================================
