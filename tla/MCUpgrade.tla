------------------------------- MODULE MCUpgrade -------------------------------
(* Instances of Upgrade for TLC: generation 1 is a version below 1.2, 2 one of *)
(* the 1.2 previews, 3 the version the CLI comes with (1.4.72).                *)
EXTENDS Upgrade, TLC

CONSTANTS s1, s2

Installed(cm, platform, acs, v) ==
    [e \in Ext |-> CASE e = "cm" -> cm [] e = "platform" -> platform [] e = "acs" -> acs
                    [] OTHER -> v]

(* With the platform extension, with cert-manager, with neither of them.       *)
InstalledClusters == {Installed(0, 2, 0, 2), Installed(2, 0, 2, 2), Installed(0, 0, 0, 3)}
OldClusters == InstalledClusters \cup {Installed(0, 1, 0, 1)}

Supported == {<<1, 1>>, <<1, 2>>, <<2, 2>>, <<2, 3>>, <<3, 3>>}

NoPin == [e \in Ext |-> 0]
Pins  == {NoPin} \cup {[NoPin EXCEPT ![e] = v] : e \in {"ops", "ssc"}, v \in 1 .. Latest}

Confirmed  == [yes: {TRUE}, force: BOOLEAN, noCm: BOOLEAN, ns: BOOLEAN, pin: Pins]
UpgradeAll == {a \in Confirmed : Completes(a)}

(* Upgrades of everything there may be to migrate, one after the other.        *)
Retries == [given |-> (s1 :> UpgradeAll @@ s2 :> {}), clusters |-> InstalledClusters,
            instances |-> Instance, classes |-> SUBSET Spc, lag |-> FALSE,
            registry |-> {FALSE}, template |-> Template \ {"ok"}]

(* What an upgrade that stopped before the migration has left.                 *)
Migrating == [given |-> [s \in Session |-> UpgradeAll], clusters |-> {Installed(3, 0, 3, 3)},
             instances |-> {[ns |-> TRUE, spc |-> TRUE]}, classes |-> {Spc}, lag |-> FALSE,
             registry |-> {TRUE}, template |-> {"ok"}]

(* The same for one process, and an index that lags from the beginning.        *)
Lags == [Migrating EXCEPT !.given[s2] = {}, !.lag = TRUE]

(* Every command line against clusters of three generations, two upgrades that *)
(* overlap, and what there is to run again and to migrate.                     *)
UpgradeWorkloads ==
    [versions |-> [given |-> (s1 :> Confirmed @@ s2 :> {}), clusters |-> OldClusters,
                   instances |-> Instance, classes |-> {{}}, lag |-> FALSE,
                   registry |-> {FALSE}, template |-> {"none"}],
     overlap  |-> [given |-> [s \in Session |-> UpgradeAll],
                   clusters |-> {Installed(0, 2, 0, 2)},
                   instances |-> Instance, classes |-> {{}}, lag |-> FALSE,
                   registry |-> {FALSE}, template |-> {"none"}],
     retries  |-> Retries, migrates |-> Migrating, lagging |-> Lags]
===============================================================================
