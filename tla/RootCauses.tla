----------------------------- MODULE RootCauses -----------------------------
(***************************************************************************)
(* From the anomalous metrics of an incident to a command: the rules of    *)
(* the correlation engine name a root cause, the planner maps it to an     *)
(* action and fills in its parameters, and the executor knows which        *)
(* parameters the command line of an action takes.                         *)
(***************************************************************************)
EXTENDS Naturals, Sequences

Metrics == {"cpu", "memory", "pvc_io", "disk", "network", "log_error", "restart",
            "oom_kill", "latency"}

\* determine_root_cause, in the order of its tests: a rule fires when the
\* incident has all metrics of one of its alternatives.
Rules == <<
    [needs |-> {{"oom_kill"}, {"memory", "restart"}}, cause |-> "memory_pressure_or_oom"],
    [needs |-> {{"pvc_io"}, {"disk"}},                cause |-> "storage_io_bottleneck"],
    [needs |-> {{"network", "latency"}},              cause |-> "network_latency_degradation"],
    [needs |-> {{"log_error", "restart"}},            cause |-> "application_crash_loop"],
    [needs |-> {{"cpu"}},                             cause |-> "cpu_saturation"],
    [needs |-> {{"latency"}},                         cause |-> "service_latency_spike"],
    [needs |-> {{"restart"}},                         cause |-> "pod_restart_spike"],
    [needs |-> {{"log_error"}},                       cause |-> "application_error_spike"],
    [needs |-> {{}},                                  cause |-> "unknown_anomalous_behavior"] >>

Fires(i, metrics) == \E need \in Rules[i].needs : need \subseteq metrics

RootCause(metrics) ==
    Rules[CHOOSE i \in 1..Len(Rules) :
              Fires(i, metrics) /\ \A j \in 1..(i - 1) : ~Fires(j, metrics)].cause

\* REMEDIATION_STRATEGIES
Strategies ==
    [cpu_saturation |-> "scale_deployment",
     memory_pressure_or_oom |-> "scale_deployment",
     storage_io_bottleneck |-> "clear_cache",
     network_latency_degradation |-> "restart_pod",
     application_crash_loop |-> "restart_pod",
     service_latency_spike |-> "restart_deployment",
     pod_restart_spike |-> "restart_pod",
     application_error_spike |-> "restart_deployment",
     unknown_anomalous_behavior |-> "trigger_debug_logs"]

\* _rule_engine_incident names the metric instead ("cpu_anomaly"), as does the
\* fallback of the correlation engine: to the planner all these are one cause.
RuleEngineCause == "metric_anomaly"

\* What the root cause of an incident may be.
Causes(metrics) == {RootCause(metrics), RuleEngineCause}

\* The action of a root cause; one nobody knows is handled as unknown.
Action(cause) ==
    Strategies[IF cause \in DOMAIN Strategies THEN cause ELSE "unknown_anomalous_behavior"]

\* The parameters the planner's APPROVED_COMMANDS asks for.
Required ==
    [restart_pod |-> {"pod_name", "namespace", "grace_period"},
     restart_deployment |-> {"deployment", "namespace", "timeout"},
     scale_deployment |-> {"deployment", "namespace", "replicas"},
     clear_cache |-> {"pod_name", "namespace", "cache_type"},
     trigger_debug_logs |-> {"pod_name", "namespace", "duration"}]

\* Mutant of Parameters: only the target of the action.
Parameters_Target(action) ==
    {"namespace", IF action \in {"scale_deployment", "restart_deployment"}
                  THEN "deployment" ELSE "pod_name"}

\* The parameters create_remediation_plan fills in.
Parameters(action) ==
    {"namespace"} \cup
    CASE action = "scale_deployment" -> {"deployment", "replicas"}
      [] action = "restart_deployment" -> {"deployment", "timeout"}
      [] action = "restart_pod" -> {"pod_name", "grace_period"}
      [] action = "clear_cache" -> {"pod_name", "cache_type"}
      [] action = "trigger_debug_logs" -> {"pod_name", "duration"}

\* The placeholders of the command lines in allowed_commands.yaml, of the
\* actions that are also planned.
Placeholders ==
    [restart_deployment |-> {"deployment", "namespace"},
     scale_deployment |-> {"deployment", "replicas", "namespace"}]

\* validate-execution accepts the plan, and the executor, if it knows the
\* action, finds a value for every placeholder.
Whole(action, params) ==
    /\ action \in DOMAIN Required
    /\ Required[action] \subseteq params
    /\ action \in DOMAIN Placeholders => Placeholders[action] \subseteq params
=============================================================================
