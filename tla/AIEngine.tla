------------------------------ MODULE AIEngine ------------------------------
(***************************************************************************)
(* The AI engine: POST /analyze and the feed /ws/ai of one process.        *)
(*                                                                         *)
(* analyze awaits a model, may await an e-mail, then appends its entry to  *)
(* the activity log and awaits a send for each client of the feed.  Unlike *)
(* the backend's manager, the feed is one list that is changed in place:   *)
(* a client removed before the place of an iteration makes it skip one,    *)
(* and a removal of a client already gone raises ValueError, which ends    *)
(* the analysis in a 500.                                                  *)
(***************************************************************************)
EXTENDS Naturals, Sequences, SequencesExt

CONSTANTS
    Requests,   \* calls of /analyze
    Severity,   \* of the incident of a call
    Cause,      \* its root cause
    Words,      \* which of the rules' words its prompt has in it
    Configured, \* the language models the engine has a key for
    Clients,    \* sockets of /ws/ai
    LogSize,    \* maxlen of activity_log
    Replay      \* how many entries a new client is sent

ASSUME AIEngineAssumption ==
    /\ Severity \in [Requests -> {"medium", "high", "critical"}]
    /\ Requests = DOMAIN Cause
    /\ Words \in [Requests -> SUBSET {"cpu", "memory", "storage", "io"}]
    /\ Configured \subseteq {"gpt", "claude"}
    /\ LogSize \in Nat \ {0}
    /\ Replay \in Nat \ {0}

VARIABLES
    req,       \* each call of /analyze
    log,       \* activity_log; an entry is known by its request
    feed,      \* ws_clients
    client,    \* each socket: its endpoint, its peer, what is left of its replay
    mailed,    \* requests the developer got an e-mail about
    fixes,     \* requests with a row in the backend's fix_history
    shown,     \* history: the entries each connected client was sent
    owed,      \* history: those it should have been sent or be sent
    shifted    \* history: requests during whose sends a client was removed

aiVars == <<req, log, feed, client, mailed, fixes, shown, owed, shifted>>

Absent == [at |-> "absent", normal |-> FALSE, fix |-> FALSE, next |-> 1, dead |-> <<>>]

NoClient == [at |-> "away", alive |-> FALSE, todo |-> <<>>]

AIInit ==
    /\ req = [q \in Requests |-> Absent]
    /\ log = <<>>
    /\ feed = <<>>
    /\ client = [c \in Clients |-> NoClient]
    /\ mailed = {}
    /\ fixes = {}
    /\ shown = [c \in Clients |-> {}]
    /\ owed = [c \in Clients |-> {}]
    /\ shifted = {}

\* The end of a list: a deque of maxlen n, or list(...)[-n:].
Newest(list, n) == IF Len(list) <= n THEN list ELSE SubSeq(list, Len(list) - n + 1, Len(list))

\* A list without those that are gone.
Kept(list, gone) ==
    LET kept == {i \in 1..Len(list) : list[i] \notin gone}
        nth(j) == CHOOSE i \in kept : Cardinality({k \in kept : k <= i}) = j
    IN [j \in 1..Cardinality(kept) |-> list[nth(j)]]

Sending == {q \in Requests : req[q].at = "sending"}

-----------------------------------------------------------------------------
\* POST /analyze

Ask(q) ==
    /\ req[q].at = "absent"
    /\ req' = [req EXCEPT ![q].at = "asked"]
    /\ UNCHANGED <<log, feed, client, mailed, fixes, shown, owed, shifted>>

\* activity_log.append, and the first step of broadcast_activity.
Publish(q, r) ==
    /\ req' = [req EXCEPT ![q] = [r EXCEPT !.at = "sending"]]
    /\ log' = Newest(Append(log, q), LogSize)
    /\ owed' = [c \in Clients |->
                   IF c \in ToSet(feed) /\ client[c].alive THEN owed[c] \cup {q} ELSE owed[c]]

(* call_ai: GPT, or Claude when that has no key or fails, or the rules.      *)
Answering(failing) ==
    LET left == Configured \ failing
    IN  IF "gpt" \in left THEN "gpt" ELSE IF "claude" \in left THEN "claude" ELSE "rules"

\* What the rules know of the time of a call; nights are also weekends'.
Moments == {{}, {"monday morning"}, {"weekend"}, {"night"}, {"weekend", "night"}}

(* _rule_based_explanation looks for its words anywhere in the prompt: "io"  *)
(* is found in "cpu_saturation" and in "unknown_anomalous_behavior".         *)
Expected(words, moment) ==
    \/ "monday morning" \in moment /\ "cpu" \in words
    \/ "weekend" \in moment /\ words \cap {"cpu", "memory"} # {}
    \/ "night" \in moment /\ words \cap {"storage", "io"} # {}

(* What an analysis reads in the answer: whether the spike is a normal one,  *)
(* and whether to alert.  A model may say anything; when it does not answer  *)
(* in JSON the spike is taken as real and severity decides the alert.        *)
Opinions(q, failing, moment) ==
    IF Answering(failing) = "rules"
    THEN LET normal == Expected(Words[q], moment) IN {[normal |-> normal, alert |-> ~normal]}
    ELSE [normal : BOOLEAN, alert : BOOLEAN]
             \cup {[normal |-> FALSE, alert |-> Severity[q] # "medium"]}

\* AUTO_FIX_ACTIONS; SEVERITY_ACTIONS says auto_fix of a medium severity alone.
AutoFixes == {"cpu_saturation", "memory_pressure_or_oom", "storage_io_bottleneck",
              "application_error_spike", "application_crash_loop"}

\* Mutant of Fixing: an expected spike is fixed all the same.
Fixing_Normal(q, normal) == Severity[q] = "medium" /\ Cause[q] \in AutoFixes

\* A fix is only named for a spike that is not normal.
Fixing(q, normal) == Severity[q] = "medium" /\ Cause[q] \in AutoFixes /\ ~normal

(* A normal spike never alerts, and neither does one with a fix.             *)
Classify(q, opinion) ==
    /\ req[q].at = "asked"
    /\ LET r == [req[q] EXCEPT !.normal = opinion.normal, !.fix = Fixing(q, opinion.normal)] IN
       IF opinion.alert /\ ~r.normal /\ ~r.fix
       THEN /\ req' = [req EXCEPT ![q] = [r EXCEPT !.at = "mailing"]]
            /\ UNCHANGED <<log, owed>>
       ELSE Publish(q, r)
    /\ UNCHANGED <<feed, client, mailed, fixes, shown, shifted>>

(* send_developer_alert, in a thread: a failure is only printed.             *)
Mail(q, sent) ==
    /\ req[q].at = "mailing"
    /\ mailed' = IF sent THEN mailed \cup {q} ELSE mailed
    /\ Publish(q, req[q])
    /\ UNCHANGED <<feed, client, fixes, shown, shifted>>

\* Mutant of SendOne: the exception of a dead client ends the analysis.
SendOne_Raises(q) ==
    /\ req[q].at = "sending"
    /\ req[q].next <= Len(feed)
    /\ LET c == feed[req[q].next] IN
       IF client[c].alive
       THEN /\ req' = [req EXCEPT ![q].next = @ + 1]
            /\ shown' = [shown EXCEPT ![c] = @ \cup {q}]
       ELSE req' = [req EXCEPT ![q].at = "failed"] /\ UNCHANGED shown
    /\ UNCHANGED <<log, feed, client, mailed, fixes, owed, shifted>>

\* Mutant of SendOne: a dead client is tried again.
SendOne_Retries(q) ==
    /\ req[q].at = "sending"
    /\ req[q].next <= Len(feed)
    /\ LET c == feed[req[q].next] IN
       /\ client[c].alive
       /\ req' = [req EXCEPT ![q].next = @ + 1]
       /\ shown' = [shown EXCEPT ![c] = @ \cup {q}]
    /\ UNCHANGED <<log, feed, client, mailed, fixes, owed, shifted>>

(* One turn of the loop of broadcast_activity.                               *)
SendOne(q) ==
    /\ req[q].at = "sending"
    /\ req[q].next <= Len(feed)
    /\ LET c == feed[req[q].next] IN
       IF client[c].alive
       THEN /\ req' = [req EXCEPT ![q].next = @ + 1]
            /\ shown' = [shown EXCEPT ![c] = @ \cup {q}]
       ELSE /\ req' = [req EXCEPT ![q].next = @ + 1, ![q].dead = Append(@, c)]
            /\ UNCHANGED shown
    /\ UNCHANGED <<log, feed, client, mailed, fixes, owed, shifted>>

\* What follows the loop: an exception, the post of the fix, or the answer.
Ended(q, ok) ==
    IF ~ok THEN "failed" ELSE IF req[q].fix THEN "storing" ELSE "answered"

(* for ws in dead: ws_clients.remove(ws), up to the first that is not there. *)
EndSends(q) ==
    /\ req[q].at = "sending"
    /\ req[q].next > Len(feed)
    /\ LET dead == req[q].dead
           n == CHOOSE k \in 0..Len(dead) :
                    /\ \A i \in 1..k : dead[i] \in ToSet(feed)
                    /\ k = Len(dead) \/ dead[k + 1] \notin ToSet(feed)
           gone == {dead[i] : i \in 1..n}
       IN  /\ feed' = Kept(feed, gone)
           /\ shifted' = IF gone = {} THEN shifted ELSE shifted \cup (Sending \ {q})
           /\ req' = [req EXCEPT ![q].at = Ended(q, n = Len(dead)), ![q].next = 1, ![q].dead = <<>>]
    /\ UNCHANGED <<log, client, mailed, fixes, shown, owed>>

(* _store_fix_in_backend: a failure is only printed.                         *)
Store(q, ok) ==
    /\ req[q].at = "storing"
    /\ fixes' = IF ok THEN fixes \cup {q} ELSE fixes
    /\ req' = [req EXCEPT ![q].at = "answered"]
    /\ UNCHANGED <<log, feed, client, mailed, shown, owed, shifted>>

-----------------------------------------------------------------------------
\* /ws/ai

\* The endpoint receives, once nothing of the replay is left.
After(rest) == [at |-> IF rest = <<>> THEN "open" ELSE "replaying", alive |-> TRUE, todo |-> rest]

(* The client is listed before the replay is sent.                           *)
Join(c) ==
    /\ client[c].at = "away"
    /\ LET todo == Newest(log, Replay) IN
       /\ client' = [client EXCEPT ![c] = After(todo)]
       /\ owed' = [owed EXCEPT ![c] = ToSet(todo)]
    /\ feed' = Append(feed, c)
    /\ UNCHANGED <<req, log, mailed, fixes, shown, shifted>>

(* A send of the replay, outside the try: if it raises, the endpoint is gone *)
(* and the client stays listed until a broadcast finds it dead.              *)
ReplayOne(c) ==
    /\ client[c].at = "replaying"
    /\ IF client[c].alive
       THEN /\ shown' = [shown EXCEPT ![c] = @ \cup {Head(client[c].todo)}]
            /\ client' = [client EXCEPT ![c] = After(Tail(client[c].todo))]
       ELSE /\ client' = [client EXCEPT ![c].at = "closed", ![c].todo = <<>>]
            /\ UNCHANGED shown
    /\ UNCHANGED <<req, log, feed, mailed, fixes, owed, shifted>>

Lose(c) ==
    /\ client[c].alive
    /\ client' = [client EXCEPT ![c].alive = FALSE]
    /\ shown' = [shown EXCEPT ![c] = {}]
    /\ owed' = [owed EXCEPT ![c] = {}]
    /\ UNCHANGED <<req, log, feed, mailed, fixes, shifted>>

(* WebSocketDisconnect: removed if a broadcast has not done it.              *)
Disconnect(c) ==
    /\ client[c].at = "open"
    /\ ~client[c].alive
    /\ client' = [client EXCEPT ![c].at = "closed"]
    /\ feed' = Kept(feed, {c})
    /\ shifted' = IF c \in ToSet(feed) THEN shifted \cup Sending ELSE shifted
    /\ UNCHANGED <<req, log, mailed, fixes, shown, owed>>

-----------------------------------------------------------------------------

AINext ==
    \/ \E q \in Requests :
           \/ \E failing \in SUBSET Configured, moment \in Moments :
                  \E opinion \in Opinions(q, failing, moment) : Classify(q, opinion)
           \/ \E ok \in BOOLEAN : Mail(q, ok) \/ Store(q, ok)
           \/ Ask(q) \/ SendOne(q) \/ EndSends(q)
    \/ \E c \in Clients : Join(c) \/ ReplayOne(c) \/ Lose(c) \/ Disconnect(c)

(* Sends end as in the backend; the post of a fix has a timeout of 5 s.      *)
(* Nothing bounds the e-mail, so nothing is assumed of it.                   *)
AIFairness ==
    \A q \in Requests :
        WF_aiVars(SendOne(q) \/ EndSends(q) \/ \E ok \in BOOLEAN : Store(q, ok))

AISpec == AIInit /\ [][AINext]_aiVars /\ AIFairness

-----------------------------------------------------------------------------
\* Properties

Over == {"storing", "answered", "failed"}

(* "Only alerts developer for real threats" (main.py 5): no e-mail and no    *)
(* fix for a normal pattern, no e-mail beside a fix, and an analysis that    *)
(* ended in an exception recorded no fix.                                    *)
ActsOnRealOnes ==
    \A q \in mailed \cup fixes :
        /\ ~req[q].normal
        /\ q \in fixes => q \notin mailed /\ req[q].at = "answered"

(* A client misses nothing: what the log's end held when it joined is        *)
(* replayed, and what was logged since was sent to it, unless the removal of *)
(* a client shifted the list under that broadcast.                           *)
NothingMissed ==
    \A c \in Clients : client[c].at = "open" /\ client[c].alive =>
        \A q \in owed[c] :
            req[q].at \in Over /\ q \notin shifted => q \in shown[c]

(* What is logged is answered, in a 500 if a client was removed twice.       *)
PublishedIsAnswered ==
    \A q \in Requests : req[q].at = "sending" ~> req[q].at \in {"answered", "failed"}
=============================================================================
