----------------------------- MODULE MCDeployment -----------------------------
(* Instances of Deployment for TLC.  The default resources stand for the        *)
(* template's: one on the instance alone (broker), one on another (listener),   *)
(* one on both (profile).                                                       *)
EXTENDS Deployment, TLC

CONSTANTS broker, listener, profile

Resources3 == broker :> {"instance"} @@ listener :> {broker} @@ profile :> {"instance", broker}

Commands(cmds) == [cmd: cmds, trust: Trust]
AnyCommand  == [s \in Session |-> Commands({"init", "create", "delete"})]
===============================================================================
