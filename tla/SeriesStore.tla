----------------------------- MODULE SeriesStore ----------------------------
(***************************************************************************)
(* What the library koral keeps beside its detectors: the values it has    *)
(* seen of each label (CardinalityGuard, and a second tracker inside the   *)
(* VictoriaMetrics client), the series it wrote, and the pending events of *)
(* Falco.  Its writes are coroutines; everything else is done in one step. *)
(***************************************************************************)
EXTENDS Naturals, Sequences, FiniteSets

CONSTANTS
    Writers,       \* coroutines that write metrics
    LabelSets,     \* labels a metric may have: sequences of <<name, value>>
    FORBIDDEN, REQUIRED_LABELS,
    MAX_CARDINALITY,
    Pods, Rules,   \* Falco: pods, rules with an attack type or without
    Attack,        \* the rules whose tags name an attack
    TTL, Windows,  \* ttl_seconds, and the windows that are asked for
    MaxNow,        \* bound on the clock, for model checking
    MaxOps         \* bound on the operations, for model checking

ASSUME StoreAssumption ==
    /\ MAX_CARDINALITY \in Nat
    /\ TTL \in Nat /\ Windows \subseteq Nat
    /\ \A labels \in LabelSets : Len(labels) \in Nat

VARIABLES
    tracker,    \* CardinalityGuard: the values of each label since the last reset
    accepted,   \* history: <<name, value>> of the label sets it accepted since
    known,      \* the client's own tracker, which is never reset
    writing,    \* metrics of each writer that passed and are on their way
    written,    \* VictoriaMetrics: <<name, value>> of what it has stored
    events,     \* FalcoEventStore: the events of each pod
    stored,     \* history: events stored and not cleared since
    now,
    ops

storeVars == <<tracker, accepted, known, writing, written, events, stored, now, ops>>
labelVars == <<tracker, accepted, known, writing, written>>
falcoVars == <<events, stored>>

StoreInit ==
    /\ tracker = {} /\ accepted = {}
    /\ known = {}
    /\ writing = [w \in Writers |-> {}]
    /\ written = {}
    /\ events = [p \in Pods |-> {}]
    /\ stored = {}
    /\ now = 1
    /\ ops = 0

Operation == ops < MaxOps /\ ops' = ops + 1 /\ UNCHANGED now

Pairs(labels) == {labels[i] : i \in 1..Len(labels)}
Names(labels) == {labels[i][1] : i \in 1..Len(labels)}

\* Mutant of Exceeds: the limit is one value late.
Exceeds_Late(pairs, name) == Cardinality({p \in pairs : p[1] = name}) > MAX_CARDINALITY + 1

Exceeds(pairs, name) == Cardinality({p \in pairs : p[1] = name}) > MAX_CARDINALITY

\* Each value is added before the limit is compared; the first label that
\* exceeds it ends the check.
Counted(pairs, labels) ==
    LET after == [i \in 0..Len(labels) |-> pairs \cup {labels[j] : j \in 1..i}]
        over == {i \in 1..Len(labels) : Exceeds(after[i], labels[i][1])}
    IN IF over = {} THEN [ok |-> TRUE, pairs |-> after[Len(labels)]]
       ELSE [ok |-> FALSE, pairs |-> after[CHOOSE i \in over : \A j \in over : i <= j]]

(* CardinalityGuard.validate                                                 *)
validate(labels) ==
    LET well == Names(labels) \cap FORBIDDEN = {} /\ REQUIRED_LABELS \subseteq Names(labels)
        result == Counted(tracker, labels)
    IN /\ Operation
       /\ well
       /\ tracker' = result.pairs
       /\ accepted' = IF result.ok THEN accepted \cup Pairs(labels) ELSE accepted
       /\ UNCHANGED <<known, writing, written, falcoVars>>

reset ==
    /\ Operation
    /\ tracker' = {} /\ accepted' = {}
    /\ UNCHANGED <<known, writing, written, falcoVars>>

\* check_cardinality of the client, which requires no label.
check_cardinality(pairs, labels) ==
    IF Names(labels) \cap FORBIDDEN # {} THEN [ok |-> FALSE, pairs |-> pairs]
    ELSE Counted(pairs, labels)

\* The metrics are checked in turn, up to the first that is refused.
Checked(metrics) ==
    LET c[i \in 0..Len(metrics)] ==
            IF i = 0 THEN [ok |-> TRUE, pairs |-> known]
            ELSE IF c[i - 1].ok THEN check_cardinality(c[i - 1].pairs, metrics[i]) ELSE c[i - 1]
    IN c[Len(metrics)]

(* remote_write: one refused metric refuses them all; else a request.        *)
remote_write(w, metrics) ==
    /\ Operation
    /\ writing[w] = {}
    /\ known' = Checked(metrics).pairs
    /\ writing' = [writing EXCEPT ![w] =
                      IF Checked(metrics).ok
                      THEN UNION {Pairs(metrics[i]) : i \in 1..Len(metrics)} ELSE {}]
    /\ UNCHANGED <<tracker, accepted, written, falcoVars>>

(* The request is answered or fails; it may have been stored either way.     *)
WriteEnds(w, arrived) ==
    /\ writing[w] # {}
    /\ written' = IF arrived THEN written \cup writing[w] ELSE written
    /\ writing' = [writing EXCEPT ![w] = {}]
    /\ UNCHANGED <<tracker, accepted, known, falcoVars, now, ops>>

-----------------------------------------------------------------------------
\* The event's own time is not looked at; n tells equal events apart.  A
\* payload without pod or namespace, or of another form, makes no event.
parse_falcosidekick_payload(rule) == [rule |-> rule, time |-> now, n |-> ops]

(* FalcoEventStore.store                                                     *)
store(pod, rule) ==
    LET e == parse_falcosidekick_payload(rule)
    IN /\ Operation
       /\ events' = [events EXCEPT ![pod] = @ \cup {e}]
       /\ stored' = stored \cup {<<pod, e>>}
       /\ UNCHANGED labelVars

\* e.timestamp > now - window
Fresh(e, window) == e.time + window > now

Pending(pod, window) == {e \in events[pod] : Fresh(e, window)}

(* get_pending(window_seconds): what is not in the window is gone for good;  *)
(* 0 means the TTL.                                                          *)
get_pending(pod, window) ==
    LET w == IF window = 0 THEN TTL ELSE window
    IN /\ Operation
       /\ events' = [events EXCEPT ![pod] = Pending(pod, w)]
       /\ UNCHANGED <<labelVars, stored>>

\* What has_attack_signal answers; it asks for the TTL.
has_attack_signal(pod) == \E e \in Pending(pod, TTL) : e.rule \in Attack

clear_pod(pod) ==
    /\ Operation
    /\ events' = [events EXCEPT ![pod] = {}]
    /\ stored' = {s \in stored : s[1] # pod}
    /\ UNCHANGED labelVars

Pass ==
    /\ now < MaxNow /\ now' = now + 1
    /\ UNCHANGED <<labelVars, falcoVars, ops>>

StoreNext ==
    \/ \E labels \in LabelSets : validate(labels)
    \/ reset
    \/ \E w \in Writers :
           \/ \E metrics \in LabelSets \X LabelSets : remote_write(w, metrics)
           \/ \E arrived \in BOOLEAN : WriteEnds(w, arrived)
    \/ \E p \in Pods : \/ \E rule \in Rules : store(p, rule)
                       \/ \E window \in Windows : get_pending(p, window)
                       \/ clear_pod(p)
    \/ Pass

StoreSpec == StoreInit /\ [][StoreNext]_storeVars

-----------------------------------------------------------------------------
Values(pairs, name) == {p \in pairs : p[1] = name}

(* No label gets more values than the limit into the database, nor through   *)
(* the guard between two resets, though both count a value before they       *)
(* compare, refused ones too, and writes overlap.                            *)
LimitHolds ==
    /\ \A p \in written : Cardinality(Values(written, p[1])) <= MAX_CARDINALITY
    /\ \A p \in accepted : Cardinality(Values(accepted, p[1])) <= MAX_CARDINALITY

\* The attacks on a pod of the last TTL seconds, unless it was cleared since.
RecentAttacks(pod) ==
    {s \in stored : s[1] = pod /\ s[2].rule \in Attack /\ s[2].time + TTL > now}

(* "Events older than TTL are automatically pruned on access": Gate 3 sees   *)
(* every attack of the last TTL seconds.  It does not when a reader asked    *)
(* for a shorter window before.                                              *)
GateSeesEveryAttack == \A p \in Pods : RecentAttacks(p) # {} => has_attack_signal(p)
=============================================================================
