---------------------------- MODULE GatewayProofs ---------------------------
(***************************************************************************)
(* Proofs of the safety properties of Gateway, for any number of processes *)
(* and of requests, any limits, and any failures of Redis.                 *)
(***************************************************************************)
EXTENDS Gateway, FiniteSetTheorems, TLAPS

Places == {"new", "incr", "expire", "handler", "done", "lost"}

ReqState ==
    [at: Places, proc: Procs \cup {None}, key: Keys \cup {None}, exempt: BOOLEAN,
     bucket: Buckets \cup {<<>>}, admitted: SUBSET Buckets, routed: BOOLEAN, status: Nat]

ProcState == [at: {"starting", "serving", "gone"}, redis: BOOLEAN, shutting_down: BOOLEAN]

TypeInv ==
    /\ proc \in [Procs -> ProcState]
    /\ req \in [Requests -> ReqState]
    /\ counter \in [Buckets -> [n: Nat, ttl: BOOLEAN]]
    /\ memory \in [Procs -> [Buckets -> Nat]]
    /\ errors \in [Procs -> Nat]
    /\ window \in 0..MaxWindow

(* A request that came is in a process that serves, and is one of finitely   *)
(* many; only a process with Redis asks Redis.                               *)
PlaceInv ==
    /\ IsFiniteSet({r \in Requests : req[r].at # "new"})
    /\ \A r \in Requests :
           /\ req[r].at = "new" => req[r] = New
           /\ req[r].at # "new" => req[r].proc \in Procs /\ proc[req[r].proc].at # "starting"
           /\ req[r].at \in {"incr", "expire"} => proc[req[r].proc].redis /\ req[r].bucket \in Buckets
           /\ req[r].routed => req[r].at = "done"

(* What takes a place of a bucket's limit: the requests it let through, and  *)
(* one that has made its first count and will be let through.                *)
Holds(q, b) ==
    \/ b \in q.admitted
    \/ /\ q.at = "expire" /\ q.bucket = b
       /\ 1 <= Limit[b[1]]

Line(b) == {r \in Requests : proc[req[r].proc].redis /\ Holds(req[r], b)}

(* A counter of a window that is not over counts everyone in its line.       *)
LineInv ==
    \A b \in Buckets : b[3] >= window =>
        /\ Cardinality(Line(b)) <= counter[b].n
        /\ Cardinality(Line(b)) <= Limit[b[1]]

MemoryInv ==
    \A p \in Procs, b \in Buckets :
        /\ memory[p][b] <= Limit[b[1]]
        /\ ~proc[p].redis => Cardinality(CountedIn(b, p)) <= memory[p][b]

FailedOf(p) ==
    {r \in Requests : req[r].proc = p /\ req[r].at = "done" /\ req[r].routed /\ req[r].status >= 500}

\* The first conjunct of AccountsAgree.
ErrorsInv == \A p \in Procs : errors[p] = Cardinality(FailedOf(p))

RowsInv ==
    \A row \in rows :
        /\ row[1] \in Requests
        /\ req[row[1]].at = "done" /\ req[row[1]].status >= 400
        /\ row[2] = EventOf(req[row[1]].status)

Inv == TypeInv /\ PlaceInv /\ CountersExpire /\ LineInv /\ MemoryInv /\ ErrorsInv /\ RowsInv

-----------------------------------------------------------------------------
\* Sets of requests

\* The requests that came are finitely many, so are all those that do something.
LEMMA Came ==
    ASSUME PlaceInv, NEW S, S \subseteq Requests, \A r \in S : req[r].at # "new"
    PROVE  IsFiniteSet(S) /\ Cardinality(S) \in Nat
<1>1. S \subseteq {r \in Requests : req[r].at # "new"}
  OBVIOUS
<1> QED
  BY <1>1, FS_Subset, FS_CardinalityType DEF PlaceInv

\* One more element is at most one more.
LEMMA OneMore ==
    ASSUME NEW S, NEW T, NEW x, IsFiniteSet(S), T \subseteq S \cup {x}
    PROVE  /\ IsFiniteSet(T)
           /\ Cardinality(S) \in Nat /\ Cardinality(T) \in Nat
           /\ Cardinality(T) <= Cardinality(S) + 1
<1>1. /\ IsFiniteSet(S \cup {x})
      /\ Cardinality(S \cup {x}) \in Nat /\ Cardinality(S) \in Nat
      /\ Cardinality(S \cup {x}) <= Cardinality(S) + 1
  BY FS_AddElement, FS_CardinalityType
<1>2. IsFiniteSet(T) /\ Cardinality(T) <= Cardinality(S \cup {x}) /\ Cardinality(T) \in Nat
  BY <1>1, FS_Subset, FS_CardinalityType
<1> QED
  BY <1>1, <1>2

\* Fewer elements are not more.
LEMMA NoMore ==
    ASSUME NEW S, NEW T, IsFiniteSet(S), T \subseteq S
    PROVE  /\ IsFiniteSet(T)
           /\ Cardinality(S) \in Nat /\ Cardinality(T) \in Nat
           /\ Cardinality(T) <= Cardinality(S)
  BY FS_Subset, FS_CardinalityType

\* Who is in a line, or counted, or failed, has come.
LEMMA LinesFinite ==
    ASSUME TypeInv, PlaceInv
    PROVE  /\ \A b \in Buckets : IsFiniteSet(Line(b)) /\ Cardinality(Line(b)) \in Nat
           /\ \A b \in Buckets, p \in Procs :
                  IsFiniteSet(CountedIn(b, p)) /\ Cardinality(CountedIn(b, p)) \in Nat
           /\ \A p \in Procs : IsFiniteSet(FailedOf(p)) /\ Cardinality(FailedOf(p)) \in Nat
<1>1. \A b \in Buckets : Line(b) \subseteq Requests /\ \A r \in Line(b) : req[r].at # "new"
  BY DEF Line, Holds, PlaceInv, New
<1>2. \A b \in Buckets, p \in Procs :
          CountedIn(b, p) \subseteq Requests /\ \A r \in CountedIn(b, p) : req[r].at # "new"
  BY DEF CountedIn, PlaceInv, New
<1>3. \A p \in Procs : FailedOf(p) \subseteq Requests /\ \A r \in FailedOf(p) : req[r].at # "new"
  BY DEF FailedOf
<1> QED
  BY <1>1, <1>2, <1>3, Came

-----------------------------------------------------------------------------
\* One request moves

(* A step that changes one request that came, and neither the processes nor  *)
(* the memory, preserves what does not depend on the counters.               *)
LEMMA MoveInv ==
    ASSUME Inv, NEW r \in Requests, NEW q \in ReqState,
           req[r].at \notin {"new", "done", "lost"},
           req' = [req EXCEPT ![r] = q],
           q.at # "new", q.proc = req[r].proc, q.routed = req[r].routed,
           q.at \in {"incr", "expire"} => req[r].at \in {"incr", "expire"} /\ q.bucket \in Buckets,
           q.admitted \subseteq req[r].admitted \/ proc[q.proc].redis,
           proc' = proc, memory' = memory, rows' = rows, errors' = errors, window' = window,
           counter' \in [Buckets -> [n: Nat, ttl: BOOLEAN]]
    PROVE  TypeInv' /\ PlaceInv' /\ MemoryInv' /\ ErrorsInv' /\ RowsInv'
<1> USE DEF Inv
<1>1. /\ req \in [Requests -> ReqState] /\ req[r].at \in Places
      /\ \A s \in Requests : req'[s] = IF s = r THEN q ELSE req[s]
  BY DEF TypeInv, ReqState
<1>2. TypeInv'
  BY <1>1 DEF TypeInv
<1>3. {s \in Requests : req[s].at # "new"}' = {s \in Requests : req[s].at # "new"}
  BY <1>1
<1>4. PlaceInv'
  BY <1>1, <1>3 DEF PlaceInv
<1>5. \A p \in Procs : FailedOf(p)' = FailedOf(p)
  BY <1>1 DEF FailedOf, PlaceInv
<1>6. ErrorsInv'
  BY <1>5 DEF ErrorsInv
<1>7. RowsInv'
  BY <1>1 DEF RowsInv
<1>8. MemoryInv'
  <2> SUFFICES ASSUME NEW p \in Procs, ~proc[p].redis, NEW b \in Buckets
               PROVE  Cardinality(CountedIn(b, p)') <= memory[p][b]
    BY DEF MemoryInv
  <2>1. CountedIn(b, p)' \subseteq CountedIn(b, p)
    BY <1>1 DEF CountedIn
  <2>2. /\ IsFiniteSet(CountedIn(b, p))
        /\ Cardinality(CountedIn(b, p)) <= memory[p][b]
        /\ memory[p][b] \in Nat
    BY LinesFinite DEF MemoryInv, TypeInv
  <2>3. PICK T : T = CountedIn(b, p)'
    OBVIOUS
  <2>4. Cardinality(T) <= Cardinality(CountedIn(b, p))
    BY <2>1, <2>2, <2>3, NoMore
  <2>5. Cardinality(T) \in Nat /\ Cardinality(CountedIn(b, p)) \in Nat
    BY <2>1, <2>2, <2>3, NoMore
  <2> QED
    BY <2>2, <2>3, <2>4, <2>5
<1> QED
  BY <1>2, <1>4, <1>6, <1>7, <1>8

(* Its lines: a request that takes no new place lengthens none of them.      *)
LEMMA MoveLine ==
    ASSUME Inv, NEW r \in Requests, NEW q \in ReqState,
           req' = [req EXCEPT ![r] = q], q.proc = req[r].proc, proc' = proc,
           NEW b \in Buckets
    PROVE  /\ Line(b)' \subseteq Line(b) \cup {r}
           /\ (Holds(q, b) => Holds(req[r], b)) => Line(b)' \subseteq Line(b)
<1>1. \A s \in Requests : req'[s] = IF s = r THEN q ELSE req[s]
  BY DEF Inv, TypeInv
<1>2. Line(b)' = {s \in Requests : proc[req'[s].proc].redis /\ Holds(req'[s], b)}
  BY DEF Line, Holds
<1> QED
  BY <1>1, <1>2 DEF Line

(* A step that takes no new place and lowers no counter keeps the limits.    *)
LEMMA QuietLine ==
    ASSUME Inv, NEW r \in Requests, NEW q \in ReqState,
           req' = [req EXCEPT ![r] = q], q.proc = req[r].proc, proc' = proc, window' = window,
           \A b \in Buckets : Holds(q, b) => Holds(req[r], b),
           \A b \in Buckets : counter'[b].n \in Nat /\ counter'[b].n >= counter[b].n
    PROVE  LineInv'
<1> SUFFICES ASSUME NEW b \in Buckets, b[3] >= window
             PROVE  /\ Cardinality(Line(b)') <= counter'[b].n
                    /\ Cardinality(Line(b)') <= Limit[b[1]]
  BY DEF LineInv
<1>1. PICK T : T = Line(b)'
  OBVIOUS
<1>2. T \subseteq Line(b)
  BY <1>1, MoveLine
<1>3. IsFiniteSet(Line(b))
  BY LinesFinite DEF Inv
<1>4. Cardinality(T) <= Cardinality(Line(b)) /\ Cardinality(T) \in Nat /\ Cardinality(Line(b)) \in Nat
  BY <1>2, <1>3, NoMore
<1>5. Cardinality(Line(b)) <= counter[b].n /\ Cardinality(Line(b)) <= Limit[b[1]]
  BY DEF Inv, LineInv
<1>6. Limit[b[1]] \in Nat /\ counter[b].n \in Nat
  BY GatewayAssumption DEF Inv, TypeInv, Buckets
<1> QED
  BY <1>1, <1>4, <1>5, <1>6

-----------------------------------------------------------------------------
\* Redis

LEMMA DoneType ==
    ASSUME NEW q \in ReqState, NEW status \in Nat
    PROVE  Done(q, status) \in ReqState
<1>1. PICK p : p = Done(q, status)
  OBVIOUS
<1>2. p = [at |-> "done", proc |-> q.proc, key |-> None, exempt |-> q.exempt, bucket |-> <<>>,
           admitted |-> q.admitted, routed |-> q.routed, status |-> status]
  BY <1>1 DEF Done, ReqState
<1>3. p \in ReqState
  BY <1>2 DEF ReqState, Places
<1> QED
  BY <1>1, <1>3

\* Where an answered check_rate_limit leaves a request.
LEMMA CheckedMove ==
    ASSUME Inv, NEW r \in Requests, NEW q \in ReqState, q.bucket \in Buckets, q.at # "new",
           NEW allowed \in BOOLEAN
    PROVE  \E p \in ReqState :
               /\ Checked(r, q, allowed) = [req EXCEPT ![r] = p]
               /\ p.at \in {"incr", "handler", "done"}
               /\ p.at = "incr" => p.bucket \in Buckets
               /\ p.proc = q.proc /\ p.routed = q.routed /\ p.admitted = q.admitted
<1>1. CASE ~allowed
  <2>1. PICK p : p = Done(q, 429)
    OBVIOUS
  <2>2. p.at = "done" /\ p.proc = q.proc /\ p.routed = q.routed /\ p.admitted = q.admitted
    BY <2>1 DEF Done, ReqState
  <2>3. p \in ReqState
    BY <2>1, DoneType, 429 \in Nat
  <2>4. Checked(r, q, allowed) = [req EXCEPT ![r] = p]
    BY <1>1, <2>1 DEF Checked
  <2> QED
    BY <2>2, <2>3, <2>4
<1>2. CASE allowed /\ q.bucket[1] = "ip" /\ q.key # None
  <2>1. PICK b : b = <<"key", Prefix[q.key], window>>
    OBVIOUS
  <2>2. b \in Buckets
    <3>1. q.key \in Keys
      BY <1>2 DEF ReqState
    <3> QED
      BY <2>1, <3>1, GatewayAssumption DEF Buckets, Inv, TypeInv
  <2>3. PICK p : p = [q EXCEPT !.at = "incr", !.bucket = b]
    OBVIOUS
  <2>4. p \in ReqState /\ p.at = "incr" /\ p.bucket = b /\ p.proc = q.proc
        /\ p.routed = q.routed /\ p.admitted = q.admitted
    BY <2>2, <2>3 DEF ReqState, Places
  <2>5. Checked(r, q, allowed) = [req EXCEPT ![r] = p]
    BY <1>2, <2>1, <2>3 DEF Checked
  <2> QED
    BY <2>2, <2>4, <2>5
<1>3. CASE allowed /\ ~(q.bucket[1] = "ip" /\ q.key # None)
  <2>1. PICK p : p = [q EXCEPT !.at = "handler", !.bucket = <<>>]
    OBVIOUS
  <2>2. p \in ReqState /\ p.at = "handler" /\ p.proc = q.proc
        /\ p.routed = q.routed /\ p.admitted = q.admitted
    BY <2>1 DEF ReqState, Places
  <2>3. Checked(r, q, allowed) = [req EXCEPT ![r] = p]
    BY <1>3, <2>1 DEF Checked
  <2> QED
    BY <2>2, <2>3
<1> QED
  BY <1>1, <1>2, <1>3

\* A bucket with a count has a life, or a history, or a request about to give it one.
Accounted(b) ==
    \/ counter[b].ttl \/ b \in stranded
    \/ \E s \in Requests : req[s].at = "expire" /\ req[s].bucket = b

LEMMA IncrInv ==
    ASSUME Inv, NEW r \in Requests, Incr(r)
    PROVE  Inv'
<1>1. PICK b, n : b = req[r].bucket /\ n = counter[b].n + 1
  OBVIOUS
<1>2. /\ req[r] \in ReqState /\ req[r].at = "incr" /\ b \in Buckets
      /\ proc[req[r].proc].redis
      /\ counter[b].n \in Nat /\ Limit[b[1]] \in Nat
  BY <1>1, GatewayAssumption DEF Incr, Inv, TypeInv, PlaceInv, Buckets
<1>3. /\ counter' = [counter EXCEPT ![b].n = n]
      /\ counter' \in [Buckets -> [n: Nat, ttl: BOOLEAN]]
      /\ \A c \in Buckets : /\ counter'[c].n = IF c = b THEN n ELSE counter[c].n
                            /\ counter'[c].ttl = counter[c].ttl
  <2>1. counter' = [counter EXCEPT ![b].n = n]
    BY <1>1 DEF Incr
  <2>2. \A c \in Buckets : counter[c] \in [n: Nat, ttl: BOOLEAN]
    BY DEF Inv, TypeInv
  <2>3. PICK e : e = [counter[b] EXCEPT !.n = n]
    OBVIOUS
  <2>4. e.n = n /\ e.ttl = counter[b].ttl /\ e \in [n: Nat, ttl: BOOLEAN]
    BY <1>1, <1>2, <2>2, <2>3
  <2>5. counter' = [counter EXCEPT ![b] = e]
    BY <2>1, <2>3 DEF Inv, TypeInv
  <2> QED
    BY <1>2, <2>1, <2>4, <2>5 DEF Inv, TypeInv
<1>4. PICK q \in ReqState :
          /\ req' = [req EXCEPT ![r] = q]
          /\ q.at \in {"incr", "expire", "handler", "done"}
          /\ q.at \in {"incr", "expire"} => q.bucket \in Buckets
          /\ q.proc = req[r].proc /\ q.routed = req[r].routed
          /\ Creates(n) => q.at = "expire" /\ q.bucket = b
          /\ ~Creates(n) => q.at # "expire"
          /\ q.admitted = IF ~Creates(n) /\ Within(n, b[1]) THEN req[r].admitted \cup {b}
                          ELSE req[r].admitted
  <2>1. CASE Creates(n)
    <3>1. PICK q : q = [req[r] EXCEPT !.at = "expire"]
      OBVIOUS
    <3>2. /\ q \in ReqState /\ q.at = "expire" /\ q.bucket = b /\ q.proc = req[r].proc
          /\ q.routed = req[r].routed /\ q.admitted = req[r].admitted
      BY <1>1, <1>2, <3>1 DEF ReqState, Places
    <3>3. req' = [req EXCEPT ![r] = q]
      BY <1>1, <2>1, <3>1 DEF Incr, Inv, TypeInv
    <3> QED
      BY <1>2, <2>1, <3>2, <3>3
  <2>2. CASE ~Creates(n) /\ Within(n, b[1])
    <3>1. PICK c : c = Counted(req[r])
      OBVIOUS
    <3>2. /\ c \in ReqState /\ c.at = "incr" /\ c.bucket = b /\ c.proc = req[r].proc
          /\ c.routed = req[r].routed /\ c.admitted = req[r].admitted \cup {b}
      BY <1>1, <1>2, <3>1 DEF Counted, ReqState
    <3>3. req' = Checked(r, c, TRUE)
      BY <1>1, <2>2, <3>1 DEF Incr
    <3>4. PICK q \in ReqState :
              /\ Checked(r, c, TRUE) = [req EXCEPT ![r] = q]
              /\ q.at \in {"incr", "handler", "done"}
              /\ q.at = "incr" => q.bucket \in Buckets
              /\ q.proc = c.proc /\ q.routed = c.routed /\ q.admitted = c.admitted
      BY <1>2, <3>2, CheckedMove, TRUE \in BOOLEAN
    <3> QED
      BY <2>2, <3>2, <3>3, <3>4
  <2>3. CASE ~Creates(n) /\ ~Within(n, b[1])
    <3>1. req' = Checked(r, req[r], FALSE)
      BY <1>1, <2>3 DEF Incr
    <3>2. req[r].at # "new" /\ req[r].bucket \in Buckets
      BY <1>1, <1>2
    <3>3. PICK q \in ReqState :
              /\ Checked(r, req[r], FALSE) = [req EXCEPT ![r] = q]
              /\ q.at \in {"incr", "handler", "done"}
              /\ q.at = "incr" => q.bucket \in Buckets
              /\ q.proc = req[r].proc /\ q.routed = req[r].routed
              /\ q.admitted = req[r].admitted
      BY <1>2, <3>2, CheckedMove, FALSE \in BOOLEAN
    <3> QED
      BY <2>3, <3>1, <3>3
  <2> QED
    BY <2>1, <2>2, <2>3
<1>5. /\ proc' = proc /\ memory' = memory /\ rows' = rows /\ errors' = errors /\ window' = window
      /\ stranded' = stranded
  BY DEF Incr
<1>6. TypeInv' /\ PlaceInv' /\ MemoryInv' /\ ErrorsInv' /\ RowsInv'
  BY <1>2, <1>3, <1>4, <1>5, MoveInv
<1>7. LineInv'
  <2> SUFFICES ASSUME NEW c \in Buckets, c[3] >= window
               PROVE  /\ Cardinality(Line(c)') <= counter'[c].n
                      /\ Cardinality(Line(c)') <= Limit[c[1]]
    BY <1>5 DEF LineInv
  <2>1. PICK T : T = Line(c)'
    OBVIOUS
  <2>2. IsFiniteSet(Line(c)) /\ Cardinality(Line(c)) <= counter[c].n
        /\ Cardinality(Line(c)) <= Limit[c[1]]
        /\ counter[c].n \in Nat /\ Limit[c[1]] \in Nat
    BY LinesFinite, GatewayAssumption DEF Inv, LineInv, TypeInv, Buckets
  <2>3. CASE Holds(q, c) => Holds(req[r], c)
    <3>1. T \subseteq Line(c)
      BY <1>4, <1>5, <2>1, <2>3, MoveLine
    <3>2. Cardinality(T) <= Cardinality(Line(c)) /\ Cardinality(T) \in Nat
          /\ Cardinality(Line(c)) \in Nat
      BY <2>2, <3>1, NoMore
    <3>3. counter'[c].n >= counter[c].n
      BY <1>1, <1>2, <1>3
    <3>4. counter'[c].n \in Nat
      BY <1>3
    <3> QED
      BY <2>1, <2>2, <3>2, <3>3, <3>4
  <2>4. CASE Holds(q, c) /\ ~Holds(req[r], c)
    <3>1. c = b
      BY <1>1, <1>2, <1>4, <2>4 DEF Holds
    <3>2. T \subseteq Line(c) \cup {r}
      BY <1>4, <1>5, <2>1, MoveLine
    <3>3. Cardinality(T) <= Cardinality(Line(c)) + 1 /\ Cardinality(T) \in Nat
          /\ Cardinality(Line(c)) \in Nat
      BY <2>2, <3>2, OneMore
    <3>4. n <= Limit[b[1]]
      BY <1>2, <1>4, <2>4, <3>1 DEF Holds, Within, Creates
    <3>5. Cardinality(T) <= n /\ n \in Nat
      BY <1>1, <2>2, <3>1, <3>3
    <3>6. counter'[c].n = n
      BY <1>3, <3>1
    <3> QED
      BY <2>1, <2>2, <3>1, <3>3, <3>4, <3>5, <3>6
  <2> QED
    BY <2>3, <2>4
<1>8. \A s \in Requests : req'[s] = IF s = r THEN q ELSE req[s]
  BY <1>4 DEF Inv, TypeInv
<1>9. CountersExpire'
  <2> SUFFICES ASSUME NEW c \in Buckets, counter'[c].n > 0
               PROVE  Accounted(c)'
    BY DEF CountersExpire, Accounted
  <2>1. CASE c = b /\ Creates(n)
    BY <1>4, <1>8, <2>1 DEF Accounted
  <2>2. CASE ~(c = b /\ Creates(n))
    <3>1. counter[c].n > 0
      BY <1>1, <1>2, <1>3, <2>2 DEF Creates
    <3>2. Accounted(c)
      BY <3>1 DEF Inv, CountersExpire, Accounted
    <3> QED
      BY <1>2, <1>3, <1>5, <1>8, <3>2 DEF Accounted
  <2> QED
    BY <2>1, <2>2
<1> QED
  BY <1>6, <1>7, <1>9 DEF Inv

LEMMA ExpireInv ==
    ASSUME Inv, NEW r \in Requests, Expire(r)
    PROVE  Inv'
<1>1. PICK b : b = req[r].bucket
  OBVIOUS
<1>2. /\ req[r] \in ReqState /\ req[r].at = "expire" /\ b \in Buckets
      /\ proc[req[r].proc].redis
  BY <1>1 DEF Expire, Inv, TypeInv, PlaceInv
<1>3. /\ counter' = [counter EXCEPT ![b].ttl = counter[b].n > 0]
      /\ counter' \in [Buckets -> [n: Nat, ttl: BOOLEAN]]
      /\ \A c \in Buckets : /\ counter'[c].n = counter[c].n
                            /\ c # b => counter'[c].ttl = counter[c].ttl
      /\ counter[b].n > 0 => counter'[b].ttl
  <2>1. counter' = [counter EXCEPT ![b].ttl = counter[b].n > 0]
    BY <1>1 DEF Expire
  <2>2. \A c \in Buckets : counter[c] \in [n: Nat, ttl: BOOLEAN]
    BY DEF Inv, TypeInv
  <2>3. PICK live \in BOOLEAN : live = (counter[b].n > 0)
    <3>1. (counter[b].n > 0) \in BOOLEAN
      OBVIOUS
    <3> QED
      BY <3>1, Zenon
  <2>4. PICK e : e = [counter[b] EXCEPT !.ttl = live]
    OBVIOUS
  <2>5. e.n = counter[b].n /\ e.ttl = live /\ e \in [n: Nat, ttl: BOOLEAN]
    BY <1>2, <2>2, <2>4
  <2>6. counter' = [counter EXCEPT ![b] = e]
    BY <2>1, <2>3, <2>4 DEF Inv, TypeInv
  <2> QED
    BY <1>2, <2>1, <2>3, <2>5, <2>6 DEF Inv, TypeInv
<1>4. PICK q \in ReqState :
          /\ req' = [req EXCEPT ![r] = q]
          /\ q.at \in {"incr", "handler", "done"}
          /\ q.at = "incr" => q.bucket \in Buckets
          /\ q.proc = req[r].proc /\ q.routed = req[r].routed
          /\ q.admitted = IF Within(1, b[1]) THEN req[r].admitted \cup {b} ELSE req[r].admitted
  <2>1. CASE Within(1, b[1])
    <3>1. PICK c : c = Counted(req[r])
      OBVIOUS
    <3>2. /\ c \in ReqState /\ c.at = "expire" /\ c.bucket = b /\ c.proc = req[r].proc
          /\ c.routed = req[r].routed /\ c.admitted = req[r].admitted \cup {b}
      BY <1>1, <1>2, <3>1 DEF Counted, ReqState
    <3>3. req' = Checked(r, c, TRUE)
      BY <1>1, <2>1, <3>1 DEF Expire
    <3>4. PICK q \in ReqState :
              /\ Checked(r, c, TRUE) = [req EXCEPT ![r] = q]
              /\ q.at \in {"incr", "handler", "done"}
              /\ q.at = "incr" => q.bucket \in Buckets
              /\ q.proc = c.proc /\ q.routed = c.routed /\ q.admitted = c.admitted
      BY <1>2, <3>2, CheckedMove, TRUE \in BOOLEAN
    <3> QED
      BY <2>1, <3>2, <3>3, <3>4
  <2>2. CASE ~Within(1, b[1])
    <3>1. req' = Checked(r, req[r], FALSE)
      BY <1>1, <2>2 DEF Expire
    <3>2. req[r].at # "new" /\ req[r].bucket \in Buckets
      BY <1>1, <1>2
    <3>3. PICK q \in ReqState :
              /\ Checked(r, req[r], FALSE) = [req EXCEPT ![r] = q]
              /\ q.at \in {"incr", "handler", "done"}
              /\ q.at = "incr" => q.bucket \in Buckets
              /\ q.proc = req[r].proc /\ q.routed = req[r].routed
              /\ q.admitted = req[r].admitted
      BY <1>2, <3>2, CheckedMove, FALSE \in BOOLEAN
    <3> QED
      BY <2>2, <3>1, <3>3
  <2> QED
    BY <2>1, <2>2
<1>5. /\ proc' = proc /\ memory' = memory /\ rows' = rows /\ errors' = errors /\ window' = window
      /\ stranded' = stranded
  BY DEF Expire
<1>6. TypeInv' /\ PlaceInv' /\ MemoryInv' /\ ErrorsInv' /\ RowsInv'
  BY <1>2, <1>3, <1>4, <1>5, MoveInv
<1>7. \A c \in Buckets : Holds(q, c) => Holds(req[r], c)
  BY <1>1, <1>2, <1>4 DEF Holds, Within
<1>8. \A c \in Buckets : counter'[c].n \in Nat /\ counter'[c].n >= counter[c].n
  BY <1>3
<1>9. LineInv'
  BY <1>4, <1>5, <1>7, <1>8, QuietLine
<1>10. \A s \in Requests : req'[s] = IF s = r THEN q ELSE req[s]
  BY <1>4 DEF Inv, TypeInv
<1>11. CountersExpire'
  <2> SUFFICES ASSUME NEW c \in Buckets, counter'[c].n > 0
               PROVE  Accounted(c)'
    BY DEF CountersExpire, Accounted
  <2>1. counter[c].n > 0 /\ Accounted(c)
    BY <1>3 DEF Inv, CountersExpire, Accounted
  <2> QED
    BY <1>1, <1>3, <1>5, <1>10, <2>1 DEF Accounted
<1> QED
  BY <1>6, <1>9, <1>11 DEF Inv

LEMMA RedisFailsInv ==
    ASSUME Inv, NEW r \in Requests, NEW ran \in BOOLEAN, RedisFails(r, ran)
    PROVE  Inv'
<1>1. PICK b : b = req[r].bucket
  OBVIOUS
<1>2. /\ req[r] \in ReqState /\ req[r].at \in {"incr", "expire"} /\ b \in Buckets
      /\ proc[req[r].proc].redis /\ req[r].at # "new"
  BY <1>1 DEF RedisFails, Inv, TypeInv, PlaceInv
<1>3. PICK e : /\ e \in [n: Nat, ttl: BOOLEAN]
               /\ counter' = [counter EXCEPT ![b] = e]
               /\ e.n = IF ran /\ req[r].at = "incr" THEN counter[b].n + 1 ELSE counter[b].n
               /\ ran /\ req[r].at = "expire" /\ counter[b].n > 0 => e.ttl
               /\ ~(ran /\ req[r].at = "expire") => e.ttl = counter[b].ttl
  <2>1. counter[b] \in [n: Nat, ttl: BOOLEAN] /\ DOMAIN counter = Buckets
    BY <1>2 DEF Inv, TypeInv
  <2>2. CASE ~ran
    <3>1. counter' = counter
      BY <1>1, <2>2 DEF RedisFails
    <3>2. counter' = [counter EXCEPT ![b] = counter[b]]
      BY <1>2, <3>1 DEF Inv, TypeInv
    <3> QED
      BY <2>1, <2>2, <3>2
  <2>3. CASE ran /\ req[r].at = "incr"
    <3>1. PICK e : e = [counter[b] EXCEPT !.n = counter[b].n + 1]
      OBVIOUS
    <3>2. e \in [n: Nat, ttl: BOOLEAN] /\ e.n = counter[b].n + 1 /\ e.ttl = counter[b].ttl
      BY <2>1, <3>1
    <3>3. counter' = [counter EXCEPT ![b] = e]
      BY <1>1, <2>3, <3>1 DEF RedisFails, Inv, TypeInv
    <3> QED
      BY <2>3, <3>2, <3>3
  <2>4. CASE ran /\ req[r].at = "expire"
    <3>1. PICK live \in BOOLEAN : live = (counter[b].n > 0)
      <4>1. (counter[b].n > 0) \in BOOLEAN
        OBVIOUS
      <4> QED
        BY <4>1, Zenon
    <3>2. PICK e : e = [counter[b] EXCEPT !.ttl = live]
      OBVIOUS
    <3>3. e \in [n: Nat, ttl: BOOLEAN] /\ e.n = counter[b].n /\ e.ttl = live
      BY <2>1, <3>2
    <3>4. counter' = [counter EXCEPT ![b] = e]
      BY <1>1, <2>4, <3>1, <3>2 DEF RedisFails, Inv, TypeInv
    <3> QED
      BY <2>4, <3>1, <3>3, <3>4
  <2> QED
    BY <1>2, <2>2, <2>3, <2>4
<1>4. PICK q \in ReqState :
          /\ req' = [req EXCEPT ![r] = q]
          /\ q.at \in {"incr", "handler", "done"}
          /\ q.at = "incr" => q.bucket \in Buckets
          /\ q.proc = req[r].proc /\ q.routed = req[r].routed /\ q.admitted = req[r].admitted
  <2>1. req' = Checked(r, req[r], TRUE)
    BY DEF RedisFails
  <2>2. req[r].bucket \in Buckets
    BY <1>1, <1>2
  <2> QED
    BY <1>2, <2>1, <2>2, CheckedMove, TRUE \in BOOLEAN
<1>5. /\ proc' = proc /\ memory' = memory /\ rows' = rows /\ errors' = errors /\ window' = window
      /\ stranded \subseteq stranded'
      /\ ~ran /\ req[r].at = "expire" => b \in stranded'
      /\ ran /\ req[r].at = "incr" /\ counter[b].n = 0 => b \in stranded'
  BY <1>1 DEF RedisFails
<1>6. counter' \in [Buckets -> [n: Nat, ttl: BOOLEAN]]
      /\ \A c \in Buckets : counter'[c] = IF c = b THEN e ELSE counter[c]
  BY <1>2, <1>3 DEF Inv, TypeInv
<1>7. TypeInv' /\ PlaceInv' /\ MemoryInv' /\ ErrorsInv' /\ RowsInv'
  BY <1>2, <1>4, <1>5, <1>6, MoveInv
<1>8. \A c \in Buckets : Holds(q, c) => Holds(req[r], c)
  BY <1>4 DEF Holds
<1>9. \A c \in Buckets : counter'[c].n \in Nat /\ counter'[c].n >= counter[c].n
  <2>1. \A c \in Buckets : counter[c].n \in Nat
    BY DEF Inv, TypeInv
  <2> QED
    BY <1>2, <1>3, <1>6, <2>1
<1>10. LineInv'
  BY <1>4, <1>5, <1>8, <1>9, QuietLine
<1>11. \A s \in Requests : req'[s] = IF s = r THEN q ELSE req[s]
  BY <1>4 DEF Inv, TypeInv
<1>12. CountersExpire'
  <2> SUFFICES ASSUME NEW c \in Buckets, counter'[c].n > 0
               PROVE  Accounted(c)'
    BY DEF CountersExpire, Accounted
  <2>1. CASE counter[c].n > 0
    <3>1. Accounted(c)
      BY <2>1 DEF Inv, CountersExpire, Accounted
    <3>2. CASE c = b /\ req[r].at = "expire"
      <4>1. ran => counter'[c].ttl
        BY <1>3, <1>6, <2>1, <3>2
      <4>2. ~ran => c \in stranded'
        BY <1>5, <3>2
      <4> QED
        BY <4>1, <4>2 DEF Accounted
    <3>3. CASE ~(c = b /\ req[r].at = "expire")
      <4>1. counter[c].ttl => counter'[c].ttl
        BY <1>3, <1>6, <3>3
      <4>2. \A s \in Requests : req[s].at = "expire" /\ req[s].bucket = c => s # r
        BY <1>1, <3>3
      <4> QED
        BY <1>5, <1>11, <3>1, <4>1, <4>2 DEF Accounted
    <3> QED
      BY <3>2, <3>3
  <2>2. CASE ~(counter[c].n > 0)
    <3>1. c = b /\ ran /\ req[r].at = "incr" /\ counter[b].n = 0
      <4>1. counter[c].n \in Nat
        BY DEF Inv, TypeInv
      <4> QED
        BY <1>3, <1>6, <2>2, <4>1
    <3> QED
      BY <1>5, <3>1 DEF Accounted
  <2> QED
    BY <2>1, <2>2
<1> QED
  BY <1>7, <1>10, <1>12 DEF Inv

-----------------------------------------------------------------------------
\* The route

LEMMA AnswerInv ==
    ASSUME Inv, NEW r \in Requests, NEW out \in Outcomes(req[r].exempt), NEW written \in BOOLEAN,
           Answer(r, out, written)
    PROVE  Inv'
<1>1. req[r] \in ReqState /\ req[r].at = "handler" /\ req[r].proc \in Procs /\ ~req[r].routed
  BY DEF Answer, Inv, TypeInv, PlaceInv, ReqState
<1>2. PICK sent : sent = StatusSent(out)
  OBVIOUS
<1>3. sent \in Nat /\ StatusCounted(out) = sent
  BY <1>2 DEF Outcomes, Raised, StatusSent, StatusCounted
<1>4. PICK q : q = Done([req[r] EXCEPT !.routed = TRUE], sent)
  OBVIOUS
<1>5. /\ q \in ReqState /\ q.at = "done" /\ q.proc = req[r].proc /\ q.routed = TRUE
      /\ q.status = sent /\ q.admitted = req[r].admitted
  <2>1. PICK t : t = [req[r] EXCEPT !.routed = TRUE]
    OBVIOUS
  <2>2. /\ t \in ReqState /\ t.proc = req[r].proc /\ t.routed = TRUE
        /\ t.admitted = req[r].admitted
    BY <1>1, <2>1 DEF ReqState
  <2>3. q \in ReqState
    BY <1>3, <1>4, <2>1, <2>2, DoneType
  <2> QED
    BY <1>4, <2>1, <2>2, <2>3 DEF Done, ReqState
<1>6. /\ req' = [req EXCEPT ![r] = q]
      /\ \A s \in Requests : req'[s] = IF s = r THEN q ELSE req[s]
  BY <1>2, <1>4 DEF Answer, Inv, TypeInv
<1>7. /\ proc' = proc /\ memory' = memory /\ counter' = counter /\ window' = window
      /\ stranded' = stranded
      /\ errors' = IF sent >= 500 THEN [errors EXCEPT ![req[r].proc] = @ + 1] ELSE errors
      /\ rows' = rows \/ (rows' = rows \cup {<<r, EventOf(out)>>} /\ Audited(out, req[r].exempt))
  BY <1>3 DEF Answer
<1>8. TypeInv'
  BY <1>1, <1>5, <1>6, <1>7 DEF Inv, TypeInv
<1>9. PlaceInv'
  <2>1. {s \in Requests : req[s].at # "new"}' = {s \in Requests : req[s].at # "new"}
    BY <1>1, <1>5, <1>6
  <2>2. \A s \in Requests \ {r} : req'[s] = req[s]
    BY <1>6
  <2>3. req'[r].at = "done" /\ req'[r].proc = req[r].proc
    BY <1>5, <1>6
  <2>4. IsFiniteSet({s \in Requests : req[s].at # "new"}')
    BY <2>1 DEF Inv, PlaceInv
  <2>5. \A s \in Requests :
            /\ req'[s].at = "new" => req'[s] = New
            /\ req'[s].at # "new" =>
                   req'[s].proc \in Procs /\ proc'[req'[s].proc].at # "starting"
            /\ req'[s].at \in {"incr", "expire"} =>
                   proc'[req'[s].proc].redis /\ req'[s].bucket \in Buckets
            /\ req'[s].routed => req'[s].at = "done"
    BY <1>1, <1>7, <2>2, <2>3 DEF Inv, PlaceInv
  <2> QED
    BY <2>4, <2>5 DEF PlaceInv
<1>10. \A c \in Buckets : Holds(q, c) => Holds(req[r], c)
  BY <1>5 DEF Holds
<1>11. \A c \in Buckets : counter'[c].n \in Nat /\ counter'[c].n >= counter[c].n
  BY <1>7 DEF Inv, TypeInv
<1>12. LineInv'
  BY <1>5, <1>6, <1>7, <1>10, <1>11, QuietLine
<1>13. CountersExpire'
  BY <1>1, <1>6, <1>7 DEF Inv, CountersExpire
<1>14. MemoryInv'
  <2>1. \A p \in Procs, b \in Buckets : CountedIn(b, p)' = CountedIn(b, p)
    BY <1>5, <1>6 DEF CountedIn
  <2> QED
    BY <1>7, <2>1 DEF Inv, MemoryInv
<1>15. ErrorsInv'
  <2> SUFFICES ASSUME NEW p \in Procs
               PROVE  errors'[p] = Cardinality(FailedOf(p)')
    BY DEF ErrorsInv
  <2>1. /\ errors[p] = Cardinality(FailedOf(p)) /\ IsFiniteSet(FailedOf(p))
        /\ r \notin FailedOf(p) /\ errors \in [Procs -> Nat]
    BY <1>1, LinesFinite DEF Inv, ErrorsInv, FailedOf, TypeInv
  <2>2. CASE p = req[r].proc /\ sent >= 500
    <3>1. FailedOf(p)' = FailedOf(p) \cup {r}
      BY <1>5, <1>6, <2>2 DEF FailedOf
    <3>2. Cardinality(FailedOf(p) \cup {r}) = Cardinality(FailedOf(p)) + 1
      BY <2>1, FS_AddElement
    <3>3. errors'[p] = errors[p] + 1
      BY <1>7, <2>1, <2>2
    <3> QED
      BY <2>1, <3>1, <3>2, <3>3
  <2>3. CASE ~(p = req[r].proc /\ sent >= 500)
    <3>1. FailedOf(p)' = FailedOf(p)
      BY <1>1, <1>5, <1>6, <2>3 DEF FailedOf
    <3>2. errors'[p] = errors[p]
      BY <1>1, <1>7, <2>1, <2>3
    <3> QED
      BY <2>1, <3>1, <3>2
  <2> QED
    BY <2>2, <2>3
<1>16. RowsInv'
  <2>1. \A row \in rows : row[1] \in Requests /\ row[1] # r /\ req'[row[1]] = req[row[1]]
    BY <1>1, <1>6 DEF Inv, RowsInv
  <2>2. Audited(out, req[r].exempt) => out = sent /\ out >= 400
    BY <1>2 DEF Audited, StatusSent
  <2> QED
    BY <1>5, <1>6, <1>7, <2>1, <2>2 DEF Inv, RowsInv, EventOf
<1> QED
  BY <1>8, <1>9, <1>12, <1>13, <1>14, <1>15, <1>16 DEF Inv

\* Request r becomes t in process p, which counts it in its memory of counts.
EntersAs(r, p, t, counts) ==
    /\ req' = [req EXCEPT ![r] = t]
    /\ t.at \in {"handler", "done", "incr"} /\ t.proc = p /\ ~t.routed
    /\ t.at = "incr" => proc[p].redis /\ t.bucket \in Buckets
    /\ t.admitted \subseteq counts
    /\ counts # {} => ~proc[p].redis
    /\ memory' = [memory EXCEPT ![p] = [b \in Buckets |-> IF b \in counts THEN @[b] + 1 ELSE @[b]]]
    /\ \A b \in counts : memory[p][b] < Limit[b[1]]

\* A request that comes is counted by the memory of its process, or only let in.
LEMMA EnteredInv ==
    ASSUME Inv, NEW r \in Requests, NEW p \in Procs, NEW t \in ReqState,
           NEW counts \in SUBSET Buckets, EntersAs(r, p, t, counts),
           req[r].at = "new", proc[p].at = "serving",
           proc' = proc, counter' = counter, rows' = rows, errors' = errors,
           window' = window, stranded' = stranded
    PROVE  Inv'
<1>1. req[r].at = "new" /\ req[r] = New /\ proc[p].at = "serving"
  BY DEF Inv, PlaceInv
<1>2. EntersAs(r, p, t, counts)
  OBVIOUS
<1>3. \A s \in Requests : req'[s] = IF s = r THEN t ELSE req[s]
  BY <1>2 DEF Inv, TypeInv, EntersAs
<1>4. /\ memory \in [Procs -> [Buckets -> Nat]] /\ memory' \in [Procs -> [Buckets -> Nat]]
      /\ \A p2 \in Procs, b \in Buckets :
             memory'[p2][b] = IF p2 = p /\ b \in counts THEN memory[p2][b] + 1 ELSE memory[p2][b]
  <2>1. memory \in [Procs -> [Buckets -> Nat]]
    BY DEF Inv, TypeInv
  <2>2. PICK f : f = [b \in Buckets |-> IF b \in counts THEN memory[p][b] + 1 ELSE memory[p][b]]
    OBVIOUS
  <2>3. f \in [Buckets -> Nat]
    BY <2>1, <2>2
  <2>4. memory' = [memory EXCEPT ![p] = f]
    BY <1>2, <2>2 DEF EntersAs
  <2> QED
    BY <2>1, <2>2, <2>3, <2>4
<1>5. TypeInv'
  BY <1>1, <1>2, <1>3, <1>4 DEF Inv, TypeInv, EntersAs
<1>6. PlaceInv'
  <2>1. {s \in Requests : req[s].at # "new"}' \subseteq {s \in Requests : req[s].at # "new"} \cup {r}
    BY <1>3
  <2>2. IsFiniteSet({s \in Requests : req[s].at # "new"}')
    BY <2>1, FS_AddElement, FS_Subset DEF Inv, PlaceInv
  <2>3. \A s \in Requests :
            /\ req'[s].at = "new" => req'[s] = New
            /\ req'[s].at # "new" =>
                   req'[s].proc \in Procs /\ proc'[req'[s].proc].at # "starting"
            /\ req'[s].at \in {"incr", "expire"} =>
                   proc'[req'[s].proc].redis /\ req'[s].bucket \in Buckets
            /\ req'[s].routed => req'[s].at = "done"
    BY <1>1, <1>2, <1>3 DEF Inv, PlaceInv, EntersAs
  <2> QED
    BY <2>2, <2>3 DEF PlaceInv
<1>7. \A b \in Buckets : Line(b)' \subseteq Line(b)
  <2>1. \A b \in Buckets : proc[p].redis => ~Holds(t, b)
    BY <1>2 DEF Holds, EntersAs
  <2> QED
    BY <1>1, <1>2, <1>3, <2>1 DEF Line, Holds, EntersAs
<1>8. LineInv'
  <2> SUFFICES ASSUME NEW b \in Buckets, b[3] >= window
               PROVE  /\ Cardinality(Line(b)') <= counter[b].n
                      /\ Cardinality(Line(b)') <= Limit[b[1]]
    BY <1>1 DEF LineInv
  <2>1. PICK T : T = Line(b)'
    OBVIOUS
  <2>2. /\ IsFiniteSet(Line(b)) /\ counter[b].n \in Nat /\ Limit[b[1]] \in Nat
        /\ Cardinality(Line(b)) <= counter[b].n /\ Cardinality(Line(b)) <= Limit[b[1]]
    BY LinesFinite, GatewayAssumption DEF Inv, LineInv, TypeInv, Buckets
  <2>3. /\ Cardinality(T) <= Cardinality(Line(b))
        /\ Cardinality(T) \in Nat /\ Cardinality(Line(b)) \in Nat
    BY <1>7, <2>1, <2>2, NoMore
  <2> QED
    BY <2>1, <2>2, <2>3
<1>9. CountersExpire'
  BY <1>1, <1>3 DEF Inv, CountersExpire
<1>10. MemoryInv'
  <2> SUFFICES ASSUME NEW p2 \in Procs, NEW b \in Buckets
               PROVE  /\ memory'[p2][b] <= Limit[b[1]]
                      /\ ~proc[p2].redis => Cardinality(CountedIn(b, p2)') <= memory'[p2][b]
    BY <1>1 DEF MemoryInv
  <2>1. PICK T : T = CountedIn(b, p2)'
    OBVIOUS
  <2>2. /\ IsFiniteSet(CountedIn(b, p2)) /\ memory[p2][b] \in Nat /\ Limit[b[1]] \in Nat
        /\ memory[p2][b] <= Limit[b[1]]
        /\ ~proc[p2].redis => Cardinality(CountedIn(b, p2)) <= memory[p2][b]
    <3>1. IsFiniteSet(CountedIn(b, p2))
      BY LinesFinite DEF Inv
    <3>2. Limit[b[1]] \in Nat
      BY GatewayAssumption DEF Buckets
    <3> QED
      BY <1>4, <3>1, <3>2 DEF Inv, MemoryInv
  <2>3. CASE p2 = p /\ b \in counts
    <3>1. T \subseteq CountedIn(b, p2) \cup {r}
      BY <1>3, <2>1 DEF CountedIn
    <3>2. /\ Cardinality(T) <= Cardinality(CountedIn(b, p2)) + 1
          /\ Cardinality(T) \in Nat /\ Cardinality(CountedIn(b, p2)) \in Nat
      BY <2>2, <3>1, OneMore
    <3>3. memory'[p2][b] = memory[p2][b] + 1 /\ memory[p2][b] < Limit[b[1]]
      BY <1>2, <1>4, <2>3 DEF EntersAs
    <3> QED
      BY <2>1, <2>2, <3>2, <3>3
  <2>4. CASE ~(p2 = p /\ b \in counts)
    <3>1. T \subseteq CountedIn(b, p2)
      BY <1>2, <1>3, <2>1, <2>4 DEF CountedIn, EntersAs
    <3>2. /\ Cardinality(T) <= Cardinality(CountedIn(b, p2))
          /\ Cardinality(T) \in Nat /\ Cardinality(CountedIn(b, p2)) \in Nat
      BY <2>2, <3>1, NoMore
    <3>3. memory'[p2][b] = memory[p2][b]
      BY <1>4, <2>4
    <3> QED
      BY <2>1, <2>2, <3>2, <3>3
  <2> QED
    BY <2>3, <2>4
<1>11. ErrorsInv'
  <2>1. \A p2 \in Procs : FailedOf(p2)' = FailedOf(p2)
    BY <1>1, <1>2, <1>3 DEF FailedOf, EntersAs
  <2> QED
    BY <1>1, <2>1 DEF Inv, ErrorsInv
<1>12. RowsInv'
  <2>1. \A row \in rows : row[1] \in Requests /\ req'[row[1]] = req[row[1]]
    BY <1>1, <1>3 DEF Inv, RowsInv
  <2> QED
    BY <1>1, <2>1 DEF Inv, RowsInv
<1> QED
  BY <1>5, <1>6, <1>8, <1>9, <1>10, <1>11, <1>12 DEF Inv

\* A request comes: in memory it is counted at once, with Redis or none it is
\* only let in.
LEMMA EnterInv ==
    ASSUME Inv, NEW r \in Requests, NEW p \in Procs, NEW ip \in Ips, NEW key \in Keys \cup {None},
           NEW exempt \in BOOLEAN, Enter(r, p, ip, key, exempt)
    PROVE  Inv'
<1>1. PICK i, k : i = <<"ip", ip, window>> /\ k = <<"key", key, window>>
  OBVIOUS
<1>2. /\ i \in Buckets /\ (key # None => k \in Buckets) /\ i # k /\ window \in 0..MaxWindow
      /\ i[1] = "ip" /\ k[1] = "key"
  BY <1>1 DEF Buckets, Inv, TypeInv
<1>3. PICK q : q = [New EXCEPT !.at = "handler", !.proc = p, !.key = key, !.exempt = exempt]
  OBVIOUS
<1>4. q = [at |-> "handler", proc |-> p, key |-> key, exempt |-> exempt, bucket |-> <<>>,
           admitted |-> {}, routed |-> FALSE, status |-> 0]
  BY <1>3 DEF New
<1>5. q \in ReqState
  BY <1>4 DEF ReqState, Places
<1>6. /\ req[r].at = "new" /\ req[r] = New /\ proc[p].at = "serving"
      /\ proc' = proc /\ counter' = counter /\ rows' = rows /\ errors' = errors
      /\ window' = window /\ stranded' = stranded
  BY DEF Enter, Arrives, Inv, PlaceInv
<1>7. PICK t \in ReqState, counts \in SUBSET Buckets : EntersAs(r, p, t, counts)
  <2>1. memory = [memory EXCEPT ![p] = [b \in Buckets |-> IF b \in {} THEN @[b] + 1 ELSE @[b]]]
    <3>1. memory \in [Procs -> [Buckets -> Nat]]
      BY DEF Inv, TypeInv
    <3>2. [b \in Buckets |-> IF b \in {} THEN memory[p][b] + 1 ELSE memory[p][b]] = memory[p]
      BY <3>1
    <3> QED
      BY <3>1, <3>2
  <2>2. ASSUME NEW status \in Nat, req' = [req EXCEPT ![r] = Done(q, status)]
        PROVE  \E t \in ReqState : /\ req' = [req EXCEPT ![r] = t]
                                   /\ t.at = "done" /\ t.proc = p /\ ~t.routed /\ t.admitted = {}
    <3>1. PICK t : t = Done(q, status)
      OBVIOUS
    <3>2. t \in ReqState
      BY <1>5, <3>1, DoneType
    <3>3. t.at = "done" /\ t.proc = p /\ ~t.routed /\ t.admitted = {}
      BY <1>4, <3>1 DEF Done
    <3> QED
      BY <2>2, <3>1, <3>2, <3>3
  <2>3. CASE exempt /\ req' = [req EXCEPT ![r] = q] /\ memory' = memory
    <3>1. q.at = "handler" /\ q.proc = p /\ ~q.routed /\ q.admitted \subseteq {}
      BY <1>4
    <3>2. EntersAs(r, p, q, {})
      BY <2>1, <2>3, <3>1 DEF EntersAs
    <3> QED
      BY <1>5, <3>2
  <2>4. CASE req' = [req EXCEPT ![r] = Done(q, 503)] /\ memory' = memory
    <3>1. PICK t \in ReqState : /\ req' = [req EXCEPT ![r] = t]
                                /\ t.at = "done" /\ t.proc = p /\ ~t.routed /\ t.admitted = {}
      BY <2>2, <2>4, 503 \in Nat
    <3>2. EntersAs(r, p, t, {})
      BY <2>1, <2>4, <3>1 DEF EntersAs
    <3> QED
      BY <3>2
  <2>5. CASE /\ proc[p].redis /\ memory' = memory
             /\ req' = [req EXCEPT ![r] = [q EXCEPT !.at = "incr", !.bucket = i]]
    <3>1. PICK t : t = [q EXCEPT !.at = "incr", !.bucket = i]
      OBVIOUS
    <3>2. t = [at |-> "incr", proc |-> p, key |-> key, exempt |-> exempt, bucket |-> i,
               admitted |-> {}, routed |-> FALSE, status |-> 0]
      BY <1>4, <3>1
    <3>3. t \in ReqState
      BY <1>2, <3>2 DEF ReqState, Places
    <3>4. t.at = "incr" /\ t.proc = p /\ ~t.routed /\ t.admitted \subseteq {} /\ t.bucket = i
      BY <3>2
    <3>5. req' = [req EXCEPT ![r] = t]
      BY <2>5, <3>1
    <3>6. EntersAs(r, p, t, {})
      BY <1>2, <2>1, <2>5, <3>4, <3>5 DEF EntersAs
    <3> QED
      BY <3>3, <3>6
  <2>6. PICK overIp \in BOOLEAN : overIp = ~WithinMemory(memory[p][i], "ip")
    <3>1. (~WithinMemory(memory[p][i], "ip")) \in BOOLEAN
      BY Zenon
    <3> QED
      BY <3>1, Zenon
  <2>7. PICK overKey \in BOOLEAN : overKey = (key # None /\ ~WithinMemory(memory[p][k], "key"))
    <3>1. (key # None /\ ~WithinMemory(memory[p][k], "key")) \in BOOLEAN
      BY Zenon
    <3> QED
      BY <3>1, Zenon
  <2>8. CASE /\ ~proc[p].redis
             /\ req' = [req EXCEPT ![r] =
                           IF overIp \/ overKey THEN Done(q, 429)
                           ELSE [q EXCEPT !.admitted = {i} \cup (IF key = None THEN {} ELSE {k})]]
             /\ memory' = [memory EXCEPT ![p] =
                              [b \in Buckets |-> IF \/ b = i /\ ~overIp
                                                    \/ b = k /\ ~overIp /\ ~overKey
                                                 THEN @[b] + 1 ELSE @[b]]]
    <3>1. PICK counts : counts = {b \in Buckets : \/ b = i /\ ~overIp
                                                  \/ b = k /\ ~overIp /\ ~overKey}
      OBVIOUS
    <3>2. memory' = [memory EXCEPT ![p] = [b \in Buckets |-> IF b \in counts THEN @[b] + 1 ELSE @[b]]]
      <4>1. \A b \in Buckets : b \in counts <=> \/ b = i /\ ~overIp
                                                \/ b = k /\ ~overIp /\ ~overKey
        BY <3>1
      <4>2. [b \in Buckets |-> IF b \in counts THEN memory[p][b] + 1 ELSE memory[p][b]]
            = [b \in Buckets |-> IF \/ b = i /\ ~overIp
                                    \/ b = k /\ ~overIp /\ ~overKey
                                 THEN memory[p][b] + 1 ELSE memory[p][b]]
        BY <4>1
      <4> QED
        BY <2>8, <4>2
    <3>3. \A b \in counts : memory[p][b] < Limit[b[1]]
      <4>1. ~overIp => memory[p][i] < Limit["ip"]
        BY <2>6 DEF WithinMemory
      <4>2. ~overKey /\ key # None => memory[p][k] < Limit["key"]
        BY <2>7 DEF WithinMemory
      <4>3. k \in Buckets => key # None
        BY <1>1, GatewayAssumption DEF Buckets
      <4> QED
        BY <1>2, <3>1, <4>1, <4>2, <4>3
    <3>4. CASE overIp \/ overKey
      <4>1. req' = [req EXCEPT ![r] = Done(q, 429)]
        BY <2>8, <3>4
      <4>2. PICK t \in ReqState : /\ req' = [req EXCEPT ![r] = t]
                                  /\ t.at = "done" /\ t.proc = p /\ ~t.routed /\ t.admitted = {}
        BY <2>2, <4>1, 429 \in Nat
      <4>3. EntersAs(r, p, t, counts)
        BY <2>8, <3>2, <3>3, <4>2 DEF EntersAs
      <4>4. counts \in SUBSET Buckets
        BY <3>1
      <4> QED
        BY <4>3, <4>4
    <3>5. CASE ~overIp /\ ~overKey
      <4>1. PICK adm : adm = {i} \cup (IF key = None THEN {} ELSE {k})
        OBVIOUS
      <4>2. adm \subseteq counts
        BY <1>2, <3>1, <3>5, <4>1
      <4>3. PICK t : t = [q EXCEPT !.admitted = adm]
        OBVIOUS
      <4>4. t = [at |-> "handler", proc |-> p, key |-> key, exempt |-> exempt, bucket |-> <<>>,
                 admitted |-> adm, routed |-> FALSE, status |-> 0]
        BY <1>4, <4>3
      <4>5. t \in ReqState
        BY <3>1, <4>2, <4>4 DEF ReqState, Places
      <4>6. t.at = "handler" /\ t.proc = p /\ ~t.routed /\ t.admitted = adm
        BY <4>4
      <4>7. req' = [req EXCEPT ![r] = t]
        BY <2>8, <3>5, <4>1, <4>3
      <4>8. EntersAs(r, p, t, counts)
        BY <2>8, <3>2, <3>3, <4>2, <4>6, <4>7 DEF EntersAs
      <4>9. counts \in SUBSET Buckets
        BY <3>1
      <4> QED
        BY <4>5, <4>8, <4>9
    <3> QED
      BY <3>4, <3>5
  <2> QED
    BY <1>1, <1>3, <2>3, <2>4, <2>5, <2>6, <2>7, <2>8 DEF Enter
<1> QED
  BY <1>6, <1>7, EnteredInv

\* A preflight is answered and counted by nobody.
LEMMA PreflightInv ==
    ASSUME Inv, NEW r \in Requests, NEW p \in Procs, NEW status \in {200, 400},
           Preflight(r, p, status)
    PROVE  Inv'
<1>1. PICK q : q = [New EXCEPT !.proc = p]
  OBVIOUS
<1>2. q = [at |-> "new", proc |-> p, key |-> None, exempt |-> FALSE, bucket |-> <<>>,
           admitted |-> {}, routed |-> FALSE, status |-> 0]
  BY <1>1 DEF New
<1>3. q \in ReqState
  BY <1>2 DEF ReqState, Places
<1>4. PICK t : t = Done(q, status)
  OBVIOUS
<1>5. t \in ReqState /\ t.at = "done" /\ t.proc = p /\ ~t.routed /\ t.admitted = {}
  <2>1. status \in Nat
    OBVIOUS
  <2>2. t \in ReqState
    BY <1>3, <1>4, <2>1, DoneType
  <2> QED
    BY <1>2, <1>4, <2>2 DEF Done
<1>6. memory' = [memory EXCEPT ![p] = [b \in Buckets |-> IF b \in {} THEN @[b] + 1 ELSE @[b]]]
  <2>1. memory \in [Procs -> [Buckets -> Nat]] /\ memory' = memory
    BY DEF Preflight, Inv, TypeInv
  <2>2. [b \in Buckets |-> IF b \in {} THEN memory[p][b] + 1 ELSE memory[p][b]] = memory[p]
    BY <2>1
  <2> QED
    BY <2>1, <2>2
<1>7. req' = [req EXCEPT ![r] = t]
  BY <1>1, <1>4 DEF Preflight
<1>8. EntersAs(r, p, t, {})
  BY <1>5, <1>6, <1>7 DEF EntersAs
<1> QED
  BY <1>5, <1>8, EnteredInv DEF Preflight, Arrives

-----------------------------------------------------------------------------
\* Processes and time

LEMMA InitInv == Init => Inv
<1> SUFFICES ASSUME Init
             PROVE  Inv
  OBVIOUS
<1> USE DEF Init
<1>1. {r \in Requests : req[r].at # "new"} = {}
  BY DEF New
<1>2. New \in ReqState
  BY DEF New, ReqState, Places
<1>3. TypeInv
  BY <1>2, GatewayAssumption DEF TypeInv, ProcState, NoCounter
<1>4. PlaceInv
  BY <1>1, FS_EmptySet DEF PlaceInv, New
<1>5. /\ \A b \in Buckets : Line(b) = {}
      /\ \A b \in Buckets, p \in Procs : CountedIn(b, p) = {}
      /\ \A p \in Procs : FailedOf(p) = {}
  BY DEF Line, Holds, CountedIn, FailedOf, New
<1>6. \A b \in Buckets : Limit[b[1]] \in Nat
  BY GatewayAssumption DEF Buckets
<1>7. CountersExpire
  BY DEF CountersExpire, NoCounter
<1>8. LineInv
  <2>1. Cardinality({}) = 0
    BY FS_EmptySet
  <2>2. \A b \in Buckets : counter[b].n = 0
    BY DEF NoCounter
  <2>3. \A b \in Buckets : Cardinality(Line(b)) = 0
    BY <1>5, <2>1
  <2> QED
    BY <1>6, <2>2, <2>3 DEF LineInv
<1>9. MemoryInv
  <2>1. Cardinality({}) = 0
    BY FS_EmptySet
  <2>2. \A p \in Procs, b \in Buckets : memory[p][b] = 0
    OBVIOUS
  <2>3. \A p \in Procs, b \in Buckets : Cardinality(CountedIn(b, p)) = 0
    BY <1>5, <2>1
  <2> QED
    BY <1>6, <2>2, <2>3 DEF MemoryInv
<1>10. ErrorsInv /\ RowsInv
  BY <1>5, FS_EmptySet DEF ErrorsInv, RowsInv
<1> QED
  BY <1>3, <1>4, <1>7, <1>8, <1>9, <1>10 DEF Inv

\* A process that starts has no request yet, whether it finds Redis or not.
LEMMA StartInv ==
    ASSUME Inv, NEW p \in Procs, NEW redis \in BOOLEAN, Start(p, redis)
    PROVE  Inv'
<1>1. /\ proc[p].at = "starting"
      /\ req' = req /\ counter' = counter /\ memory' = memory /\ rows' = rows
      /\ errors' = errors /\ window' = window /\ stranded' = stranded
  BY DEF Start
<1>2. PICK e : e = [proc[p] EXCEPT !.at = "serving", !.redis = redis]
  OBVIOUS
<1>3. e \in ProcState /\ e.at = "serving"
  BY <1>2 DEF Inv, TypeInv, ProcState
<1>4. proc' = [proc EXCEPT ![p] = e]
  BY <1>2 DEF Start, Inv, TypeInv
<1>5. proc' \in [Procs -> ProcState] /\ \A p2 \in Procs : p2 # p => proc'[p2] = proc[p2]
  BY <1>3, <1>4 DEF Inv, TypeInv
<1>6. \A r \in Requests : req[r].at # "new" => req[r].proc \in Procs \ {p}
  BY <1>1 DEF Inv, PlaceInv
<1>7. \A r \in Requests : req[r].at # "new" => proc'[req[r].proc] = proc[req[r].proc]
  BY <1>5, <1>6
<1>8. TypeInv'
  BY <1>1, <1>5 DEF Inv, TypeInv
<1>9. PlaceInv'
  BY <1>1, <1>7 DEF Inv, PlaceInv
<1>10. CountersExpire'
  BY <1>1 DEF Inv, CountersExpire
<1>11. \A r \in Requests : req[r].at = "new" => \A b \in Buckets : ~Holds(req[r], b) /\ b \notin req[r].admitted
  BY DEF Inv, PlaceInv, Holds, New
<1>12. \A b \in Buckets : Line(b)' = Line(b)
  BY <1>1, <1>7, <1>11 DEF Line, Holds
<1>13. LineInv'
  BY <1>1, <1>12 DEF Inv, LineInv
<1>14. \A b \in Buckets, p2 \in Procs : CountedIn(b, p2)' = CountedIn(b, p2)
  BY <1>1 DEF CountedIn
<1>15. \A b \in Buckets : CountedIn(b, p) = {}
  BY <1>6, <1>11 DEF CountedIn
<1>16. MemoryInv'
  <2> SUFFICES ASSUME NEW p2 \in Procs, NEW b \in Buckets
               PROVE  /\ memory[p2][b] <= Limit[b[1]]
                      /\ ~proc'[p2].redis => Cardinality(CountedIn(b, p2)) <= memory[p2][b]
    BY <1>1, <1>14 DEF MemoryInv
  <2>1. CASE p2 # p
    BY <1>5, <2>1 DEF Inv, MemoryInv
  <2>2. CASE p2 = p
    <3>1. Cardinality(CountedIn(b, p2)) = 0
      BY <1>15, <2>2, FS_EmptySet
    <3>2. memory[p2][b] \in Nat /\ memory[p2][b] <= Limit[b[1]]
      BY DEF Inv, TypeInv, MemoryInv
    <3> QED
      BY <3>1, <3>2
  <2> QED
    BY <2>1, <2>2
<1>17. ErrorsInv'
  BY <1>1 DEF Inv, ErrorsInv, FailedOf
<1>18. RowsInv'
  BY <1>1 DEF Inv, RowsInv
<1> QED
  BY <1>8, <1>9, <1>10, <1>13, <1>16, <1>17, <1>18 DEF Inv

\* Nothing is asked of shutting_down, nor of the counters of windows that are over.
LEMMA TimeInv ==
    ASSUME Inv,
           \/ \E p \in Procs : RequestShutdown(p)
           \/ Tick
           \/ \E b \in Buckets : Expired(b)
    PROVE  Inv'
<1>1. /\ req' = req /\ memory' = memory /\ rows' = rows /\ errors' = errors
      /\ stranded' = stranded
  BY DEF RequestShutdown, Tick, Expired
<1>2. /\ proc' \in [Procs -> ProcState]
      /\ \A p \in Procs : proc'[p].at = proc[p].at /\ proc'[p].redis = proc[p].redis
  <2>1. ASSUME NEW p \in Procs, RequestShutdown(p)
        PROVE  <1>2!1 /\ <1>2!2
    <3>1. PICK e : e = [proc[p] EXCEPT !.shutting_down = TRUE]
      OBVIOUS
    <3>2. e \in ProcState /\ e.at = proc[p].at /\ e.redis = proc[p].redis
      BY <3>1 DEF Inv, TypeInv, ProcState
    <3>3. proc' = [proc EXCEPT ![p] = e]
      BY <2>1, <3>1 DEF RequestShutdown, Inv, TypeInv
    <3> QED
      BY <3>2, <3>3 DEF Inv, TypeInv
  <2>2. CASE proc' = proc
    BY <2>2 DEF Inv, TypeInv
  <2> QED
    BY <2>1, <2>2 DEF Tick, Expired
<1>3. window' \in 0..MaxWindow /\ window' >= window /\ window \in 0..MaxWindow
  BY GatewayAssumption DEF RequestShutdown, Tick, Expired, Inv, TypeInv
<1>4. /\ counter' \in [Buckets -> [n: Nat, ttl: BOOLEAN]]
      /\ \A b \in Buckets : \/ counter'[b] = counter[b]
                            \/ b[3] < window /\ counter'[b] = NoCounter
  <2>1. NoCounter \in [n: Nat, ttl: BOOLEAN]
    BY DEF NoCounter
  <2> QED
    BY <2>1 DEF RequestShutdown, Tick, Expired, Inv, TypeInv
<1>5. TypeInv'
  BY <1>1, <1>2, <1>3, <1>4 DEF Inv, TypeInv
<1>6. PlaceInv'
  <2>1. {r \in Requests : req[r].at # "new"}' = {r \in Requests : req[r].at # "new"}
    BY <1>1
  <2> QED
    BY <1>1, <1>2, <2>1 DEF Inv, PlaceInv
<1>7. CountersExpire'
  BY <1>1, <1>4 DEF Inv, CountersExpire, NoCounter
<1>8. \A b \in Buckets : Line(b)' = Line(b)
  <2>1. \A r \in Requests, b \in Buckets : Holds(req[r], b) => req[r].proc \in Procs
    BY DEF Holds, Inv, PlaceInv, New
  <2> QED
    BY <1>1, <1>2, <2>1 DEF Line, Holds
<1>9. \A b \in Buckets : b[3] >= window' => b[3] >= window /\ counter'[b] = counter[b]
  BY <1>3, <1>4 DEF Buckets
<1>10. LineInv'
  BY <1>8, <1>9 DEF Inv, LineInv
<1>11. MemoryInv'
  BY <1>1, <1>2 DEF Inv, MemoryInv, CountedIn
<1>12. ErrorsInv'
  BY <1>1 DEF Inv, ErrorsInv, FailedOf
<1>13. RowsInv'
  BY <1>1 DEF Inv, RowsInv
<1> QED
  BY <1>5, <1>6, <1>7, <1>10, <1>11, <1>12, <1>13 DEF Inv

\* The requests of a killed process are lost, and with them an EXPIRE to come.
LEMMA KillInv ==
    ASSUME Inv, NEW p \in Procs, Kill(p)
    PROVE  Inv'
<1>1. PICK lost : lost = {r \in Requests : req[r].at \notin {"new", "done"} /\ req[r].proc = p}
  OBVIOUS
<1>2. /\ req' = [r \in Requests |-> IF r \in lost THEN [req[r] EXCEPT !.at = "lost"] ELSE req[r]]
      /\ stranded' = stranded \cup {req[r].bucket : r \in {q \in lost : req[q].at = "expire"}}
      /\ counter' = counter /\ memory' = memory /\ rows' = rows /\ errors' = errors
      /\ window' = window
  BY <1>1 DEF Kill
<1>3. /\ proc' \in [Procs -> ProcState]
      /\ \A p2 \in Procs : /\ proc'[p2].redis = proc[p2].redis
                           /\ proc[p2].at # "starting" => proc'[p2].at # "starting"
  <2>1. PICK e : e = [proc[p] EXCEPT !.at = "gone"]
    OBVIOUS
  <2>2. e \in ProcState /\ e.at = "gone" /\ e.redis = proc[p].redis
    BY <2>1 DEF Inv, TypeInv, ProcState
  <2>3. proc' = [proc EXCEPT ![p] = e]
    BY <2>1 DEF Kill, Inv, TypeInv
  <2> QED
    BY <2>2, <2>3 DEF Inv, TypeInv
<1>4. \A r \in Requests :
          /\ req'[r] \in ReqState
          /\ req'[r].at = IF r \in lost THEN "lost" ELSE req[r].at
          /\ req'[r].proc = req[r].proc /\ req'[r].admitted = req[r].admitted
          /\ req'[r].routed = req[r].routed /\ req'[r].status = req[r].status
          /\ r \notin lost => req'[r] = req[r]
  <2> SUFFICES ASSUME NEW r \in Requests, r \in lost
               PROVE  /\ req'[r] \in ReqState
                      /\ req'[r].at = "lost"
                      /\ req'[r].proc = req[r].proc /\ req'[r].admitted = req[r].admitted
                      /\ req'[r].routed = req[r].routed /\ req'[r].status = req[r].status
    BY <1>2 DEF Inv, TypeInv
  <2>1. PICK q : q = req[r]
    OBVIOUS
  <2>2. q \in ReqState /\ req'[r] = [q EXCEPT !.at = "lost"]
    BY <1>2, <2>1 DEF Inv, TypeInv
  <2> QED
    BY <2>1, <2>2 DEF ReqState, Places
<1>5. TypeInv'
  BY <1>2, <1>3, <1>4 DEF Inv, TypeInv
<1>6. PlaceInv'
  <2>1. {r \in Requests : req[r].at # "new"}' = {r \in Requests : req[r].at # "new"}
    BY <1>1, <1>4
  <2>2. IsFiniteSet({r \in Requests : req[r].at # "new"}')
    BY <2>1 DEF Inv, PlaceInv
  <2>3. ASSUME NEW s \in Requests
        PROVE  /\ req'[s].at = "new" => req'[s] = New
               /\ req'[s].at # "new" =>
                      req'[s].proc \in Procs /\ proc'[req'[s].proc].at # "starting"
               /\ req'[s].at \in {"incr", "expire"} =>
                      proc'[req'[s].proc].redis /\ req'[s].bucket \in Buckets
               /\ req'[s].routed => req'[s].at = "done"
    <3>1. CASE s \in lost
      BY <1>1, <1>3, <1>4, <3>1 DEF Inv, PlaceInv
    <3>2. CASE s \notin lost
      BY <1>3, <1>4, <3>2 DEF Inv, PlaceInv
    <3> QED
      BY <3>1, <3>2
  <2> QED
    BY <2>2, <2>3 DEF PlaceInv
<1>7. CountersExpire'
  <2> SUFFICES ASSUME NEW c \in Buckets, counter[c].n > 0
               PROVE  Accounted(c)'
    BY <1>2 DEF CountersExpire, Accounted
  <2>1. Accounted(c)
    BY DEF Inv, CountersExpire, Accounted
  <2>2. ASSUME NEW s \in Requests, req[s].at = "expire", req[s].bucket = c
        PROVE  c \in stranded' \/ (req'[s].at = "expire" /\ req'[s].bucket = c)
    BY <1>2, <1>4, <2>2
  <2> QED
    BY <1>2, <2>1, <2>2 DEF Accounted
<1>8. \A b \in Buckets : Line(b)' \subseteq Line(b)
  <2>1. \A r \in Requests, b \in Buckets : Holds(req[r], b) => req[r].proc \in Procs
    BY DEF Holds, Inv, PlaceInv, New
  <2>2. \A r \in Requests, b \in Buckets : Holds(req'[r], b) => Holds(req[r], b)
    BY <1>4 DEF Holds
  <2>3. \A b \in Buckets :
            Line(b)' = {r \in Requests : proc'[req'[r].proc].redis /\ Holds(req'[r], b)}
    BY DEF Line, Holds
  <2> QED
    BY <1>3, <1>4, <2>1, <2>2, <2>3 DEF Line
<1>9. LineInv'
  <2> SUFFICES ASSUME NEW b \in Buckets, b[3] >= window
               PROVE  /\ Cardinality(Line(b)') <= counter[b].n
                      /\ Cardinality(Line(b)') <= Limit[b[1]]
    BY <1>2 DEF LineInv
  <2>1. PICK T : T = Line(b)'
    OBVIOUS
  <2>2. /\ IsFiniteSet(Line(b)) /\ counter[b].n \in Nat /\ Limit[b[1]] \in Nat
        /\ Cardinality(Line(b)) <= counter[b].n /\ Cardinality(Line(b)) <= Limit[b[1]]
    BY LinesFinite, GatewayAssumption DEF Inv, LineInv, TypeInv, Buckets
  <2>3. /\ Cardinality(T) <= Cardinality(Line(b))
        /\ Cardinality(T) \in Nat /\ Cardinality(Line(b)) \in Nat
    BY <1>8, <2>1, <2>2, NoMore
  <2> QED
    BY <2>1, <2>2, <2>3
<1>10. MemoryInv'
  <2>1. \A b \in Buckets, p2 \in Procs : CountedIn(b, p2)' = CountedIn(b, p2)
    BY <1>4 DEF CountedIn
  <2> QED
    BY <1>2, <1>3, <2>1 DEF Inv, MemoryInv
<1>11. ErrorsInv'
  <2>1. \A p2 \in Procs : FailedOf(p2)' = FailedOf(p2)
    BY <1>1, <1>4 DEF FailedOf
  <2> QED
    BY <1>2, <2>1 DEF Inv, ErrorsInv
<1>12. RowsInv'
  <2>1. \A row \in rows : row[1] \in Requests /\ req'[row[1]] = req[row[1]]
    BY <1>1, <1>4 DEF Inv, RowsInv
  <2>2. rows' = rows
    BY <1>2
  <2> QED
    BY <2>1, <2>2 DEF Inv, RowsInv
<1> QED
  BY <1>5, <1>6, <1>7, <1>9, <1>10, <1>11, <1>12 DEF Inv

-----------------------------------------------------------------------------
LEMMA NextInv == Inv /\ [Next]_vars => Inv'
<1> SUFFICES ASSUME Inv, [Next]_vars
             PROVE  Inv'
  OBVIOUS
<1>1. CASE UNCHANGED vars
  <2> USE <1>1 DEF vars, Inv
  <2>1. TypeInv' /\ PlaceInv' /\ CountersExpire' /\ RowsInv'
    BY DEF TypeInv, PlaceInv, CountersExpire, RowsInv
  <2>2. LineInv'
    BY DEF LineInv, Line, Holds
  <2>3. MemoryInv' /\ ErrorsInv'
    BY DEF MemoryInv, ErrorsInv, CountedIn, FailedOf
  <2> QED
    BY <2>1, <2>2, <2>3
<1>2. ASSUME NEW p \in Procs, NEW redis \in ConnectRedis, Start(p, redis)
      PROVE  Inv'
  BY <1>2, StartInv DEF ConnectRedis
<1>3. CASE \/ \E p \in Procs : RequestShutdown(p)
           \/ Tick
           \/ \E b \in Buckets : Expired(b)
  BY <1>3, TimeInv
<1>4. ASSUME NEW p \in Procs, Kill(p)
      PROVE  Inv'
  BY <1>4, KillInv
<1>5. ASSUME NEW r \in Requests, NEW p \in Procs, NEW ip \in Ips, NEW key \in Keys \cup {None},
             NEW exempt \in BOOLEAN, Enter(r, p, ip, key, exempt)
      PROVE  Inv'
  BY <1>5, EnterInv
<1>6. ASSUME NEW r \in Requests, NEW p \in Procs, NEW status \in {200, 400},
             Preflight(r, p, status)
      PROVE  Inv'
  BY <1>6, PreflightInv
<1>7. ASSUME NEW r \in Requests, Serve(r)
      PROVE  Inv'
  BY <1>7, IncrInv, ExpireInv, RedisFailsInv, AnswerInv DEF Serve
<1> QED
  BY <1>1, <1>2, <1>3, <1>4, <1>5, <1>6, <1>7 DEF Next

\* The inductive invariant of Gateway.
THEOREM Invariance == Spec => []Inv
  BY InitInv, NextInv, PTL DEF Spec

\* The processes, requests, counters and windows are what they are declared to be.
THEOREM TypeCorrect == Spec => []TypeInv
<1>1. Inv => TypeInv
  BY DEF Inv
<1> QED
  BY <1>1, Invariance, PTL

\* No limit of a window is ever passed, by the processes that share Redis
\* together or by one that counts alone.
THEOREM LimitsHold == Spec => []WithinLimit
<1>1. Inv => WithinLimit
  <2> SUFFICES ASSUME Inv, NEW b \in Buckets, b[3] = window
               PROVE  /\ Cardinality(UNION {CountedIn(b, p) : p \in {q \in Procs : proc[q].redis}})
                            <= Limit[b[1]]
                      /\ \A p \in Procs : ~proc[p].redis =>
                             Cardinality(CountedIn(b, p)) <= Limit[b[1]]
    BY DEF WithinLimit
  <2>1. Limit[b[1]] \in Nat
    BY GatewayAssumption DEF Buckets
  <2>2. PICK T : T = UNION {CountedIn(b, p) : p \in {q \in Procs : proc[q].redis}}
    OBVIOUS
  <2>3. T \subseteq Line(b)
    BY <2>2 DEF CountedIn, Line, Holds
  <2>4. /\ IsFiniteSet(Line(b)) /\ Cardinality(Line(b)) <= Limit[b[1]]
    <3>1. b[3] >= window
      BY DEF Inv, TypeInv
    <3> QED
      BY <3>1, LinesFinite DEF Inv, LineInv
  <2>5. /\ Cardinality(T) <= Cardinality(Line(b))
        /\ Cardinality(T) \in Nat /\ Cardinality(Line(b)) \in Nat
    BY <2>3, <2>4, NoMore
  <2>6. ASSUME NEW p \in Procs, ~proc[p].redis
        PROVE  Cardinality(CountedIn(b, p)) <= Limit[b[1]]
    <3>1. /\ Cardinality(CountedIn(b, p)) <= memory[p][b] /\ memory[p][b] <= Limit[b[1]]
          /\ memory[p][b] \in Nat /\ Cardinality(CountedIn(b, p)) \in Nat
      BY <2>6, LinesFinite DEF Inv, MemoryInv, TypeInv
    <3> QED
      BY <2>1, <3>1
  <2> QED
    BY <2>1, <2>2, <2>4, <2>5, <2>6
<1> QED
  BY <1>1, Invariance, PTL

\* No counter stays in Redis for ever, but those whose first request came to
\* grief between its INCR and its EXPIRE.
THEOREM CountersGoAway == Spec => []CountersExpire
<1>1. Inv => CountersExpire
  BY DEF Inv
<1> QED
  BY <1>1, Invariance, PTL

\* The error counters and the audit rows agree with the answers sent.
THEOREM AccountsAreTrue == Spec => []AccountsAgree
<1>1. Inv => AccountsAgree
  BY DEF Inv, ErrorsInv, FailedOf, RowsInv, AccountsAgree
<1> QED
  BY <1>1, Invariance, PTL
=============================================================================
