------------------------------ MODULE MCDeletion ------------------------------
(* Instances of Deletion for TLC. *)
EXTENDS Deletion, TLC

CONSTANTS s1, s2, a2, spc

(* An asset below a device, and resources of the first level. *)
Depths == [r \in ClResource |-> IF r = a2 THEN 1 ELSE 0]

CommandLines == [by: {"name", "cluster"}, deps: BOOLEAN, force: BOOLEAN, yes: BOOLEAN]

(* az iot ops delete --cluster --include-deps --force -y *)
Teardown == {a \in CommandLines : a.force /\ a.yes /\ a.deps /\ a.by = "cluster"}

(* Beside it az iot ops delete --name --force -y, which leaves the            *)
(* dependencies.                                                              *)
Unattended == [s \in Session |->
                  IF s = s1 THEN Teardown
                  ELSE {a \in CommandLines : a.force /\ a.yes /\ ~a.deps /\ a.by = "name"}]
===============================================================================
