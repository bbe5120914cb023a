--------------------------- MODULE PlatformSettings ---------------------------
(***************************************************************************)
(* The operator's settings (pkg/platform) and what start-up makes of them  *)
(* (Run in pkg/cmd/operator).  An environment is a record with the         *)
(* variables other modules depend on.  A value is Unset (missing or empty), *)
(* Garbage (it does not parse), or what it parses to.  The list of         *)
(* namespaces is Unset only if it is missing; "blank" stands for white     *)
(* space between commas.                                                   *)
(***************************************************************************)
EXTENDS Integers, Sequences, SequencesExt

CONSTANTS
    Unset,   \* the variable is missing or empty
    Garbage  \* the value cannot be parsed

MonitorLabel == "camel.apache.org/monitor"
DefaultLabel == <<"camel.apache.org", "camel-monitor-operator">>
DefaultMaxIdle == 60
DefaultDatasource == "prometheus"
DefaultErrorPercentage == 5
DefaultWarningPercentage == 10

(* An integer, or the default with a message in the log. *)
getOperatorEnvAsInt(v, default) == IF v \in {Unset, Garbage} THEN default ELSE v

GetMaxIdle(env) == getOperatorEnvAsInt(env.idle, DefaultMaxIdle)

(* An annotation wins over the operator's percentage; neither is compared  *)
(* with the other or with a range.                                         *)
getSLIExchangeErrorThreshold(annotation, v) ==
    getOperatorEnvAsInt(annotation, getOperatorEnvAsInt(v, DefaultErrorPercentage))

getSLIExchangeWarningThreshold(annotation, v) ==
    getOperatorEnvAsInt(annotation, getOperatorEnvAsInt(v, DefaultWarningPercentage))

(* A set of <<key, value>> pairs: a label that parses is written into the  *)
(* map of the defaults and hides a default of the same key only.           *)
getLabelFromEnvVar(v) ==
    IF v \in {Unset, Garbage}
    THEN {DefaultLabel}
    ELSE {l \in {DefaultLabel} : l[1] # v[1]} \cup {v}

GetGrafanaDatasource(env) ==
    IF env.datasource = Unset THEN DefaultDatasource ELSE env.datasource

(* Only the word "true" has a resource created. *)
GetCreate(env) == {r \in DOMAIN env.create : env.create[r] = "true"}

(* Ports and endpoints: whether the default is in force, and the list; an  *)
(* element is taken as it stands, blanks and empty strings included.       *)
GetObservability(v, default) ==
    IF v = Unset THEN <<TRUE, default>> ELSE <<FALSE, v>>

-----------------------------------------------------------------------------
(* Start-up. *)

IsCurrentOperatorGlobal(env) == env.namespaces \in {Unset, <<>>, <<"blank">>}

getNamespacesSelector(env) == ToSet(env.namespaces) \ {"blank"}

(* A cache without namespaces is a cache of all namespaces: a list of      *)
(* nothing but commas makes an operator that is not global watch them all. *)
Watches(env, ns) ==
    \/ IsCurrentOperatorGlobal(env)
    \/ getNamespacesSelector(env) = {}
    \/ ns \in getNamespacesSelector(env)

(* The variable has to be there, if only with an empty value. *)
getWatchNamespace(env) == env.namespaces # Unset

(* The key of the label that marks an application. *)
GetMonitorLabelSelector(env) ==
    IF env.selector = Unset THEN MonitorLabel ELSE env.selector

(* Run exits when the namespace variable is missing, the log level is no   *)
(* number that fits, or the label selector is no label key.                *)
Starts(env) ==
    /\ env.logLevel # Garbage
    /\ getWatchNamespace(env)
    /\ GetMonitorLabelSelector(env) # Garbage
=============================================================================
