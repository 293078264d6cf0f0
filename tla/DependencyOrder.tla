--------------------------- MODULE DependencyOrder ---------------------------
(***************************************************************************)
(* What every provisioning command of the extension promises about the     *)
(* Azure resources it manages: a resource is created only when everything  *)
(* it refers to is there, and removed only when nothing refers to it any   *)
(* more.  The commands are sequences of remote calls that may be           *)
(* interleaved, fail half way and be run again; whatever happens, what is  *)
(* deployed at any moment is a dependency-closed set.                      *)
(*                                                                         *)
(* MgmtActions, Deletion and Deployment are shown to implement this        *)
(* specification.                                                          *)
(***************************************************************************)

CONSTANTS
    Resource,      \* every resource the command may create or remove
    Needs(_)       \* Needs(r): the resources r refers to

VARIABLE present   \* the resources that are deployed

Closed == \A r \in present : Needs(r) \subseteq present

TypeOK == present \subseteq Resource

Init == TypeOK /\ Closed

Create(r) ==
    /\ r \in Resource \ present
    /\ Needs(r) \subseteq present
    /\ present' = present \cup {r}

Remove(r) ==
    /\ r \in present
    /\ \A q \in present \ {r} : r \notin Needs(q)
    /\ present' = present \ {r}

(* What appears was created, what disappears was removed.                   *)
Next ==
    \/ \E r \in present' \ present : Create(r)
    \/ \E r \in present \ present' : Remove(r)

Spec == Init /\ [][Next]_present
==============================================================================
