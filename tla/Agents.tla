------------------------------- MODULE Agents -------------------------------
(***************************************************************************)
(* The metric agents.  Each has one loop: fetch a value, compare it with   *)
(* the last HISTORY_SIZE ones, post the sample to the backend, sleep.  A   *)
(* second thread serves /debug/spike and sets a flag that the synthetic    *)
(* source reads and resets.                                                *)
(*                                                                         *)
(* cpu, memory and storage ask Prometheus, the log agent Prometheus and    *)
(* then Fluentd; without a real value the synthetic source answers, where  *)
(* it is allowed.                                                          *)
(***************************************************************************)
EXTENDS Integers, Sequences, SequencesExt, FiniteSetsExt

CONSTANTS
    Series,          \* a pod with a metric: each has one agent
    Values,          \* what can be measured
    HISTORY_SIZE,
    Z_THRESHOLD,     \* a pair <<a, b>>: the threshold is a / b
    MaxTime          \* bound on the clock, in poll intervals, for model checking

ASSUME AgentsAssumption ==
    /\ Values \subseteq Nat
    /\ HISTORY_SIZE \in Nat \ {0, 1}

VARIABLES
    clock,
    agent,     \* each loop: its place, recent values, and the sample it has
    spike,     \* _force_spike
    sent       \* samples posted: [series, time, flagged]

agentVars == <<clock, agent, spike, sent>>

AgentsInit ==
    /\ clock = 1
    /\ \E allowed \in SUBSET Series :    \* those with ALLOW_SYNTHETIC_METRICS
           agent = [s \in Series |-> [at |-> "sleeping", recent |-> <<>>, time |-> 0,
                                      synthetic |-> s \in allowed]]
    /\ spike = [s \in Series |-> FALSE]
    /\ sent = {}

Total(values) == FoldSeq(LAMBDA x, sum : x + sum, 0, values)

\* abs(z) > Z_THRESHOLD, with z the distance from the mean of the values in
\* standard deviations (of a sample), 0 if there are not two different ones.
Flagged(values, v) ==
    LET n == Len(values)
        distance == n * v - Total(values)
        spread == n * Total([i \in 1..n |-> values[i] * values[i]]) - Total(values) * Total(values)
    IN /\ n >= 2 /\ spread > 0
       /\ Z_THRESHOLD[2] * Z_THRESHOLD[2] * (n - 1) * distance * distance
              > Z_THRESHOLD[1] * Z_THRESHOLD[1] * n * spread

\* deque(maxlen=HISTORY_SIZE)
Remembered(values, v) ==
    LET all == Append(values, v)
    IN IF Len(all) > HISTORY_SIZE THEN Tail(all) ELSE all

Tick ==
    /\ clock < MaxTime
    /\ clock' = clock + 1
    /\ UNCHANGED <<agent, spike, sent>>

(* asyncio.sleep(POLL_INTERVAL) is over.                                     *)
Wake(s) ==
    /\ agent[s].at = "sleeping" /\ agent[s].time < clock
    /\ agent' = [agent EXCEPT ![s].at = "fetching"]
    /\ UNCHANGED <<clock, spike, sent>>

(* A value is judged by those before it, learnt whatever the judgement, and  *)
(* posted, without an await in between.                                      *)
Measured(s, v) ==
    /\ agent' = [agent EXCEPT ![s].at = "posting", ![s].recent = Remembered(@, v),
                              ![s].time = clock]
    /\ sent' = sent \cup {[series |-> s, time |-> clock, flagged |-> Flagged(agent[s].recent, v)]}
    /\ UNCHANGED clock

(* Prometheus, or Fluentd, has a value.                                      *)
FetchReal(s, v) ==
    /\ agent[s].at = "fetching"
    /\ Measured(s, v)
    /\ UNCHANGED spike

(* No real value, no synthetic one: RuntimeError, and the loop sleeps.       *)
FetchFails(s) ==
    /\ agent[s].at = "fetching" /\ ~agent[s].synthetic
    /\ agent' = [agent EXCEPT ![s].at = "sleeping", ![s].time = clock]
    /\ UNCHANGED <<clock, spike, sent>>

(* The synthetic source, if getattr(self, "_force_spike") is false ...       *)
FetchSynthetic(s, v) ==
    /\ agent[s].at = "fetching" /\ agent[s].synthetic /\ ~spike[s]
    /\ Measured(s, v)
    /\ UNCHANGED spike

(* ... or true; the other thread may come between the test and the reset.    *)
SeeSpike(s) ==
    /\ agent[s].at = "fetching" /\ agent[s].synthetic /\ spike[s]
    /\ agent' = [agent EXCEPT ![s].at = "spiking"]
    /\ UNCHANGED <<clock, spike, sent>>

ResetSpike(s, v) ==
    /\ agent[s].at = "spiking"
    /\ spike' = [spike EXCEPT ![s] = FALSE]
    /\ Measured(s, v)

(* POST /debug/spike, in the thread of the agent's server: the flag keeps no *)
(* count, so a request that comes before the last one was shown is lost.     *)
TriggerSpike(s) ==
    /\ spike' = [spike EXCEPT ![s] = TRUE]
    /\ UNCHANGED <<clock, agent, sent>>

(* The backend answers, or the client gives up after 5 s: the loop cares     *)
(* for neither, and the sample may reach the backend later or never.         *)
PostEnds(s) ==
    /\ agent[s].at = "posting"
    /\ agent' = [agent EXCEPT ![s].at = "sleeping"]
    /\ UNCHANGED <<clock, spike, sent>>

AgentStep(s) ==
    \/ Wake(s) \/ FetchFails(s) \/ SeeSpike(s) \/ TriggerSpike(s) \/ PostEnds(s)
    \/ \E v \in Values : FetchReal(s, v) \/ FetchSynthetic(s, v) \/ ResetSpike(s, v)
=============================================================================
