-------------------------- MODULE MCSyntheticImport --------------------------
(* Instances of SyntheticImport for TLC. *)
EXTENDS SyntheticImport

Deployment(name) == [kind |-> "Deployment", name |-> name]
CronJob(name) == [kind |-> "CronJob", name |-> name]

DeploymentOnly == {"Deployment"}
BothKinds == {"Deployment", "CronJob"}

NoKind == {}
CronJobs == {"CronJob"}

(* A Deployment and a CronJob, with a label each. *)
X == Deployment(<<"x">>)
Y == CronJob(<<"y">>)
MixedObjects == {X, Y}
MixedLabels == X :> {<<"a">>} @@ Y :> {<<"b">>}

(* A CronJob alone. *)
LoneCronJob == {Y}
LoneLabels == Y :> {<<"b">>}

(* The same as MixedObjects, but the Deployment can be moved between two labels. *)
MovingLabels == X :> {<<"a">>, <<"c">>} @@ Y :> {<<"b">>}

(* Two Deployments under one label: the second is imported as a revision. *)
Z == Deployment(<<"z">>)
TwinObjects == {X, Z}
TwinLabels == X :> {<<"a">>} @@ Z :> {<<"a">>}
=============================================================================
