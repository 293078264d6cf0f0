---------------------------- MODULE MCMgmtActions ----------------------------
(* Instances of MgmtActions for TLC. *)
EXTENDS MgmtActions, TLC

(* One CLI process per instance: processes are named after instances.       *)
OwnInstance == [s \in Session |-> s]

(* Every process works for the same instance. *)
SharedInstance == [s \in Session |-> CHOOSE i \in Instance : TRUE]

Symmetry == Permutations(Instance) \cup Permutations(EgNamespace)

(* What follows both a failure and a write that rested on an outdated read  *)
(* is not explored.                                                         *)
StaleOrFailed == ~staleWrite \/ faults = 0
==============================================================================
