------------------------------ MODULE Detection -----------------------------
(***************************************************************************)
(* From a measurement to the windows of the correlation engine: the agents *)
(* post samples, the backend asks the engine about those that are flagged, *)
(* up to three times (tenacity), and a call it gave up on goes on in the   *)
(* engine.  The engine's two processes keep windows of their own.          *)
(***************************************************************************)
EXTENDS Agents, Correlation

CONSTANTS
    Attempts     \* stop_after_attempt(3)

ASSUME DetectionAssumption ==
    /\ HistoryKeys = Series
    /\ Attempts \in Nat \ {0}

VARIABLES
    asking       \* calls of the backend: [series, time, tries, on]

detectionVars == <<agentVars, engineVars, asking>>

DetectionInit == AgentsInit /\ CorrelationInit /\ asking = {}

(* POST /anomalies: the backend correlates only what the agent flagged.      *)
Ingest(m) ==
    /\ m.flagged /\ m \in sent
    /\ \A c \in asking : c.series # m.series \/ c.time # m.time
    /\ asking' = asking \cup {[series |-> m.series, time |-> m.time, tries |-> 0, on |-> {}]}
    /\ UNCHANGED <<agentVars, engineVars>>

Changed(c, new) == asking' = (asking \ {c}) \cup {new}

\* Mutant of Attempt: the attempts have no end.
Attempt_Endless(c, h) ==
    /\ c.on = {}
    /\ \A d \in asking : h \notin d.on
    /\ Correlate(h, c.series, c.time, TRUE)
    /\ Changed(c, [c EXCEPT !.on = {h}])
    /\ UNCHANGED agentVars

(* _call_correlation_engine, one attempt: any thread of any worker.          *)
Attempt(c, h) ==
    /\ c.on = {} /\ c.tries < Attempts
    /\ \A d \in asking : h \notin d.on
    /\ Correlate(h, c.series, c.time, TRUE)
    /\ Changed(c, [c EXCEPT !.tries = @ + 1, !.on = {h}])
    /\ UNCHANGED agentVars

(* An answer ends the call, a 500 as well; a timeout of 10 s or a broken     *)
(* connection leaves it to the next attempt, or to the backend's own rules   *)
(* after the last.                                                           *)
Answered(c, h) ==
    /\ h \in c.on /\ serving[h].at \in {"incident", "error"}
    /\ Changed(c, [c EXCEPT !.tries = Attempts, !.on = {}])
    /\ UNCHANGED <<agentVars, engineVars>>

GivenUp(c, h) ==
    /\ h \in c.on
    /\ Changed(c, [c EXCEPT !.on = {}])
    /\ UNCHANGED <<agentVars, engineVars>>

DetectionNext ==
    \/ Tick /\ UNCHANGED <<engineVars, asking>>
    \/ \E s \in Series : AgentStep(s) /\ UNCHANGED <<engineVars, asking>>
    \/ \E m \in sent : Ingest(m)
    \/ \E c \in asking, h \in Threads : Attempt(c, h) \/ Answered(c, h) \/ GivenUp(c, h)
    \/ \E h \in Threads : EngineStep(h) /\ UNCHANGED <<agentVars, asking>>

DetectionSpec == DetectionInit /\ [][DetectionNext]_detectionVars

-----------------------------------------------------------------------------
Held(w, s, t) == {<<w, i>> : i \in {j \in 1..Len(history[w][s]) : history[w][s][j] = t}}

Copies(s, t) == UNION {Held(w, s, t) : w \in Processes}

(* The windows hold nothing but what agents flagged, and of one sample no    *)
(* more copies, in all processes together, than the backend made attempts.   *)
LearnsWhatWasFlagged ==
    \A w \in Processes, s \in Series : \A i \in 1..Len(history[w][s]) :
        LET t == history[w][s][i]
        IN /\ \E m \in sent : m.flagged /\ m.series = s /\ m.time = t
           /\ \E c \in asking : /\ c.series = s /\ c.time = t
                                /\ Cardinality(Copies(s, t)) <= Attempts
=============================================================================
