------------------------- MODULE LiveUpdatesProofs --------------------------
(***************************************************************************)
(* Proofs about the two live feeds, the backend's (LiveUpdates) and the AI *)
(* engine's with the analyses it tells of (AIEngine), for any number of    *)
(* sockets, calls and broadcasts that overlap in any way.                  *)
(***************************************************************************)
EXTENDS LiveUpdates, AIEngine, FiniteSetTheorems, WellFoundedInduction, TLAPS

\* No connection is twice in a list.
Distinct(list) == \A i, j \in 1..Len(list) : list[i] = list[j] => i = j

In(c, list) == \E i \in 1..Len(list) : list[i] = c

\* A connection of a list that is behind, or not behind, the loop of b.
Behind(b, c) == \E i \in 1..Len(job[b].list) : i < job[b].next /\ job[b].list[i] = c
Ahead(b, c) == \E i \in 1..Len(job[b].list) : i >= job[b].next /\ job[b].list[i] = c

(* A socket is in a list once and only if it has connected.                  *)
ListsInv ==
    /\ Distinct(active)
    /\ \A c \in Sockets : In(c, active) => socket[c].at # "away"
    /\ \A b \in Broadcasts :
           /\ Distinct(job[b].list)
           /\ \A c \in Sockets : In(c, job[b].list) => socket[c].at # "away"

(* What a socket was sent is of a broadcast whose loop is past it.           *)
SentInv ==
    \A c \in Sockets, b \in Broadcasts : In(b, inbox[c]) =>
        /\ socket[c].at # "away"
        /\ job[b].at # "idle"
        /\ job[b].at = "sending" => Behind(b, c)

(* Who is due a broadcast may have it and has it, or the loop comes to him.  *)
DueInv ==
    \A b \in Broadcasts : \A c \in due[b] :
        /\ job[b].at # "idle"
        /\ job[b].at = "sending" => socket[c].alive /\ Wants(c, b)
        /\ socket[c].at # "away"
        /\ In(b, inbox[c]) \/ (job[b].at = "sending" /\ Ahead(b, c))

\* A broadcast that has not begun will begin at the first of its list.
NotBegun == \A b \in Broadcasts : job[b].at = "idle" => job[b].next = 1

\* MissesNobody needs DueInv, which needs to know that a list keeps its order;
\* OnceAndAllowed needs SentInv and that no connection is twice in a list.
Inv == TypeOK /\ ListsInv /\ NotBegun /\ SentInv /\ DueInv /\ OnceAndAllowed

-----------------------------------------------------------------------------
\* Lists

\* The list object with a new connection.
LEMMA RegisteredProperties ==
    ASSUME NEW S, NEW list \in Seq(S), NEW c \in S
    PROVE  /\ Registered(list, c) \in Seq(S)
           /\ Len(Registered(list, c)) = Len(list) + 1
           /\ \A i \in 1..Len(list) : Registered(list, c)[i] = list[i]
           /\ Registered(list, c)[Len(list) + 1] = c
  BY DEF Registered

\* It has the new connection once, if it had it not.
LEMMA RegisteredDistinct ==
    ASSUME NEW S, NEW list \in Seq(S), NEW c \in S, Distinct(list), ~In(c, list)
    PROVE  /\ Distinct(Registered(list, c))
           /\ \A d : In(d, Registered(list, c)) => d = c \/ In(d, list)
<1>1. PICK more : more = Registered(list, c)
  OBVIOUS
<1>2. /\ more \in Seq(S) /\ Len(more) = Len(list) + 1
      /\ \A i \in 1..Len(list) : more[i] = list[i]
      /\ more[Len(list) + 1] = c
  BY <1>1, RegisteredProperties
<1>3. \A i \in 1..Len(more) : i \in 1..Len(list) \/ i = Len(list) + 1
  BY <1>2
<1>4. Distinct(more)
  BY <1>2, <1>3 DEF Distinct, In
<1>5. \A d : In(d, more) => d = c \/ In(d, list)
  BY <1>2, <1>3 DEF In
<1> QED
  BY <1>1, <1>4, <1>5

\* The new list without a connection.
LEMMA WithoutProperties ==
    ASSUME NEW S, NEW list \in Seq(S), NEW c \in S, Distinct(list)
    PROVE  /\ Without(list, c) \in Seq(S)
           /\ Distinct(Without(list, c))
           /\ \A d : In(d, Without(list, c)) => In(d, list)
<1>1. CASE ~In(c, list)
  <2>1. Without(list, c) = list
    BY <1>1 DEF Without, In
  <2> QED
    BY <2>1
<1>2. CASE In(c, list)
  <2>1. PICK k \in 1..Len(list) : Without(list, c) = RemoveAt(list, k)
    BY <1>2 DEF Without, In
  <2>2. PICK less : less = Without(list, c)
    OBVIOUS
  <2>3. /\ less \in Seq(S) /\ Len(less) = Len(list) - 1
        /\ \A i \in 1..Len(less) : less[i] = list[IF i < k THEN i ELSE i + 1]
    <3>1. PICK front, back : front = SubSeq(list, 1, k - 1) /\ back = SubSeq(list, k + 1, Len(list))
      OBVIOUS
    <3>2. /\ front \in Seq(S) /\ Len(front) = k - 1
          /\ \A i \in 1..(k - 1) : front[i] = list[i]
      BY <3>1
    <3>3. /\ back \in Seq(S) /\ Len(back) = Len(list) - k
          /\ \A i \in 1..(Len(list) - k) : back[i] = list[k + i]
      BY <3>1
    <3>4. less = front \o back
      BY <2>1, <2>2, <3>1 DEF RemoveAt
    <3>5. less \in Seq(S) /\ Len(less) = Len(list) - 1
      BY <3>2, <3>3, <3>4
    <3>6. ASSUME NEW i \in 1..Len(less)
          PROVE  less[i] = list[IF i < k THEN i ELSE i + 1]
      <4>1. CASE i < k
        BY <3>2, <3>3, <3>4, <3>5, <4>1
      <4>2. CASE i >= k
        <5>1. less[i] = back[i - (k - 1)]
          BY <3>2, <3>3, <3>4, <3>5, <4>2
        <5> QED
          BY <3>3, <3>5, <4>2, <5>1
      <4> QED
        BY <3>5, <4>1, <4>2
    <3> QED
      BY <3>5, <3>6
  <2>4. \A i \in 1..Len(less) : (IF i < k THEN i ELSE i + 1) \in 1..Len(list)
    BY <2>3
  <2>5. Distinct(less)
    <3>1. ASSUME NEW i \in 1..Len(less), NEW j \in 1..Len(less), less[i] = less[j]
          PROVE  i = j
      <4>1. (IF i < k THEN i ELSE i + 1) = (IF j < k THEN j ELSE j + 1)
        BY <2>3, <2>4, <3>1 DEF Distinct
      <4>2. QED
        BY <2>3, <4>1
    <3>2. QED
      BY <3>1 DEF Distinct
  <2>6. \A d : In(d, less) => In(d, list)
    BY <2>3, <2>4 DEF In
  <2> QED
    BY <2>2, <2>3, <2>5, <2>6
<1> QED
  BY <1>1, <1>2

-----------------------------------------------------------------------------
\* The steps

LEMMA InitInv == Init => Inv
  BY DEF Init, Inv, TypeOK, ListsInv, SentInv, DueInv, OnceAndAllowed, Away, Idle, SocketState,
         JobState, NotBegun, Distinct, In

LEMMA ConnectInv ==
    ASSUME Inv, NEW c \in Sockets, NEW r \in Levels, Connect(c, r)
    PROVE  Inv'
<1> USE DEF Inv
<1>1. /\ active \in Seq(Sockets) /\ ~In(c, active) /\ Distinct(active)
  BY DEF TypeOK, ListsInv, Connect
<1>2. PICK more : more = Registered(active, c)
  OBVIOUS
<1>3. /\ more \in Seq(Sockets) /\ Distinct(more) /\ Len(more) = Len(active) + 1
      /\ \A d : In(d, more) => d = c \/ In(d, active)
      /\ \A i \in 1..Len(active) : more[i] = active[i]
  BY <1>1, <1>2, RegisteredProperties, RegisteredDistinct
<1>4. /\ socket' = [socket EXCEPT ![c] = [at |-> "open", role |-> r, subs |-> {}, alive |-> TRUE]]
      /\ active' = more
      /\ \A b \in Broadcasts :
             job'[b] = IF job[b].shared THEN [job[b] EXCEPT !.list = more] ELSE job[b]
      /\ inbox' = inbox /\ due' = due
  BY <1>2 DEF Connect, TypeOK, JobState
<1>5. TypeOK'
  <2>1. socket' \in [Sockets -> SocketState]
    BY <1>4, LiveUpdatesAssumption DEF TypeOK, SocketState
  <2>2. \A b \in Broadcasts : job'[b] \in JobState
    BY <1>3, <1>4 DEF TypeOK, JobState
  <2>3. job' \in [Broadcasts -> JobState]
    BY <2>2 DEF Connect
  <2> QED
    BY <1>3, <1>4, <2>1, <2>3 DEF TypeOK, JobState
<1>6. \A b \in Broadcasts :
          /\ job'[b].at = job[b].at /\ job'[b].next = job[b].next
          /\ job'[b].list \in {job[b].list, more}
          /\ job'[b].list # job[b].list => job[b].list = active
  BY <1>4 DEF TypeOK, JobState
<1>7. \A d \in Sockets : socket[d].at # "away" => d # c /\ socket'[d] = socket[d]
  BY <1>4 DEF Connect, TypeOK
<1>8. \A b \in Broadcasts, d \in Sockets :
          /\ Behind(b, d) => Behind(b, d)'
          /\ Ahead(b, d) => Ahead(b, d)'
  <2> TAKE b \in Broadcasts, d \in Sockets
  <2>1. PICK list, list2, n, n2 : list = job[b].list /\ list2 = job'[b].list /\ n = job[b].next
                                  /\ n2 = job'[b].next
    OBVIOUS
  <2>2. n2 = n /\ Len(list2) >= Len(list) /\ \A i \in 1..Len(list) : list2[i] = list[i]
    BY <1>1, <1>3, <1>6, <2>1
  <2>3. list \in Seq(Sockets) /\ list2 \in Seq(Sockets)
    BY <1>1, <1>3, <1>6, <2>1 DEF TypeOK, JobState
  <2>4. 1..Len(list) \subseteq 1..Len(list2)
    BY <2>2, <2>3
  <2> QED
    BY <2>1, <2>2, <2>4 DEF Behind, Ahead
<1>9. ListsInv'
  BY <1>3, <1>4, <1>6, <1>7 DEF ListsInv, TypeOK
<1>10. SentInv'
  BY <1>4, <1>6, <1>7, <1>8 DEF SentInv, In
<1>11. DueInv'
  <2> SUFFICES ASSUME NEW b \in Broadcasts, NEW d \in due'[b]
               PROVE  /\ job'[b].at # "idle"
                      /\ job'[b].at = "sending" => socket'[d].alive /\ Wants(d, b)'
                      /\ socket'[d].at # "away"
                      /\ In(b, inbox[d])' \/ (job'[b].at = "sending" /\ Ahead(b, d)')
    BY DEF DueInv
  <2>1. d \in Sockets /\ d \in due[b]
    BY <1>4 DEF TypeOK
  <2>2. In(b, inbox[d])' <=> In(b, inbox[d])
    BY <1>4 DEF In
  <2>3. socket'[d] = socket[d]
    BY <1>7, <2>1 DEF DueInv
  <2>4. Wants(d, b)' <=> Wants(d, b)
    BY <2>3 DEF Wants
  <2> QED
    BY <1>6, <1>8, <2>1, <2>2, <2>3, <2>4 DEF DueInv
<1>12. OnceAndAllowed'
  <2>1. \A d \in Sockets : \A i \in 1..Len(inbox[d]) :
            inbox[d][i] \in Broadcasts /\ In(inbox[d][i], inbox[d])
    BY DEF In, TypeOK
  <2>2. \A d \in Sockets : \A i \in 1..Len(inbox[d]) : socket[d].at # "away"
    BY <2>1 DEF SentInv
  <2> QED
    BY <1>4, <1>7, <2>2 DEF OnceAndAllowed, TypeOK
<1>13. NotBegun'
  BY <1>6 DEF NotBegun
<1> QED
  BY <1>5, <1>9, <1>10, <1>11, <1>12, <1>13

\* A step that removes a connection from the manager's list: Leave and Drop.
LEMMA RebindInv ==
    ASSUME Inv, NEW c \in Sockets, NEW dead \in [Broadcasts -> SUBSET Sockets],
           active' = Without(active, c), inbox' = inbox, due' = due,
           socket' \in [Sockets -> SocketState],
           \A d \in Sockets : /\ socket[d].at # "away" => socket'[d].at # "away"
                              /\ socket'[d].role = socket[d].role
                              /\ socket'[d].subs = socket[d].subs
                              /\ socket'[d].alive = socket[d].alive,
           job' = [b \in Broadcasts |-> [job[b] EXCEPT !.shared = FALSE, !.dead = dead[b]]]
    PROVE  Inv'
<1> USE DEF Inv
<1>1. /\ active' \in Seq(Sockets) /\ Distinct(active')
      /\ \A d : In(d, active') => In(d, active)
  BY WithoutProperties DEF TypeOK, ListsInv
<1>2. \A b \in Broadcasts :
          /\ job'[b].at = job[b].at /\ job'[b].next = job[b].next /\ job'[b].list = job[b].list
          /\ job'[b].shared = FALSE
  BY DEF TypeOK, JobState
<1>3. TypeOK'
  <2>1. \A b \in Broadcasts : job'[b] \in JobState
    BY DEF TypeOK, JobState
  <2> QED
    BY <1>1, <1>2, <2>1 DEF TypeOK
<1>4. ListsInv'
  <2>1. PICK less : less = active'
    OBVIOUS
  <2>2. Distinct(less) /\ \A c2 \in Sockets : In(c2, less) => socket'[c2].at # "away"
    BY <1>1, <2>1 DEF ListsInv
  <2>3. \A b \in Broadcasts :
            /\ Distinct(job'[b].list)
            /\ \A c2 \in Sockets : In(c2, job'[b].list) => socket'[c2].at # "away"
    BY <1>2 DEF ListsInv
  <2> QED
    BY <2>1, <2>2, <2>3 DEF ListsInv, Distinct, In
<1>5. \A b \in Broadcasts, d \in Sockets : Behind(b, d)' <=> Behind(b, d)
  BY <1>2 DEF Behind
<1>6. \A b \in Broadcasts, d \in Sockets : Ahead(b, d)' <=> Ahead(b, d)
  BY <1>2 DEF Ahead
<1>7. \A b \in Broadcasts, d \in Sockets : Wants(d, b)' <=> Wants(d, b)
  BY DEF Wants
<1>8. SentInv'
  <2> SUFFICES ASSUME NEW d \in Sockets, NEW b \in Broadcasts, In(b, inbox[d])'
               PROVE  /\ socket'[d].at # "away"
                      /\ job'[b].at # "idle"
                      /\ job'[b].at = "sending" => Behind(b, d)'
    BY DEF SentInv
  <2>1. In(b, inbox[d])
    BY DEF In
  <2> QED
    BY <1>2, <1>5, <2>1 DEF SentInv
<1>9. DueInv'
  <2> SUFFICES ASSUME NEW b \in Broadcasts, NEW d \in due'[b]
               PROVE  /\ job'[b].at # "idle"
                      /\ job'[b].at = "sending" => socket'[d].alive /\ Wants(d, b)'
                      /\ socket'[d].at # "away"
                      /\ In(b, inbox[d])' \/ (job'[b].at = "sending" /\ Ahead(b, d)')
    BY DEF DueInv
  <2>1. d \in Sockets
    BY DEF TypeOK
  <2>2. In(b, inbox[d])' <=> In(b, inbox[d])
    BY DEF In
  <2>3. /\ job[b].at # "idle"
        /\ job[b].at = "sending" => socket[d].alive /\ Wants(d, b)
        /\ socket[d].at # "away"
        /\ In(b, inbox[d]) \/ (job[b].at = "sending" /\ Ahead(b, d))
    BY DEF DueInv
  <2>4. (Ahead(b, d)' <=> Ahead(b, d)) /\ (Wants(d, b)' <=> Wants(d, b))
    BY <1>6, <1>7, <2>1
  <2>5. job'[b].at = job[b].at /\ socket'[d].alive = socket[d].alive
        /\ (socket[d].at # "away" => socket'[d].at # "away")
    BY <1>2, <2>1
  <2> QED
    BY <2>2, <2>3, <2>4, <2>5
<1>10. OnceAndAllowed'
  BY DEF OnceAndAllowed
<1>11. NotBegun'
  BY <1>2 DEF NotBegun
<1> QED
  BY <1>3, <1>4, <1>8, <1>9, <1>10, <1>11

LEMMA LeaveInv ==
    ASSUME Inv, NEW c \in Sockets, Leave(c)
    PROVE  Inv'
<1>1. PICK dead : dead = [b \in Broadcasts |-> job[b].dead]
  OBVIOUS
<1>2. dead \in [Broadcasts -> SUBSET Sockets]
  BY <1>1 DEF Inv, TypeOK, JobState
<1>3. job' = [b \in Broadcasts |-> [job[b] EXCEPT !.shared = FALSE, !.dead = dead[b]]]
  <2>1. \A b \in Broadcasts : [job[b] EXCEPT !.shared = FALSE]
                              = [job[b] EXCEPT !.shared = FALSE, !.dead = dead[b]]
    BY <1>1 DEF Inv, TypeOK, JobState
  <2> QED
    BY <2>1 DEF Leave, Rebound
<1>4. /\ socket' \in [Sockets -> SocketState]
      /\ \A d \in Sockets : /\ socket[d].at # "away" => socket'[d].at # "away"
                            /\ socket'[d].role = socket[d].role
                            /\ socket'[d].subs = socket[d].subs
                            /\ socket'[d].alive = socket[d].alive
  BY DEF Leave, Inv, TypeOK, SocketState
<1>5. active' = Without(active, c) /\ inbox' = inbox /\ due' = due
  BY DEF Leave
<1> QED
  BY <1>2, <1>3, <1>4, <1>5, RebindInv

LEMMA DropInv ==
    ASSUME Inv, NEW b \in Broadcasts, NEW c \in Sockets, Drop(b, c)
    PROVE  Inv'
<1>1. PICK dead : dead = [e \in Broadcasts |-> IF e = b THEN job[e].dead \ {c} ELSE job[e].dead]
  OBVIOUS
<1>2. dead \in [Broadcasts -> SUBSET Sockets]
  BY <1>1 DEF Inv, TypeOK, JobState
<1>3. job' = [e \in Broadcasts |-> [job[e] EXCEPT !.shared = FALSE, !.dead = dead[e]]]
  <2>1. \A e \in Broadcasts : job[e] \in JobState
    BY DEF Inv, TypeOK
  <2>2. \A e \in Broadcasts : job'[e] = [job[e] EXCEPT !.shared = FALSE, !.dead = dead[e]]
    BY <1>1, <2>1 DEF Drop, Rebound, JobState
  <2>3. DOMAIN job' = Broadcasts /\ job' = [e \in Broadcasts |-> job'[e]]
    BY DEF Drop, Rebound
  <2> QED
    BY <2>2, <2>3
<1>4. socket' = socket /\ active' = Without(active, c) /\ inbox' = inbox /\ due' = due
  BY DEF Drop
<1>5. socket' \in [Sockets -> SocketState]
  BY <1>4 DEF Inv, TypeOK
<1> QED
  BY <1>2, <1>3, <1>4, <1>5, RebindInv

\* A step of a peer: it breaks, subscribes or unsubscribes.
LEMMA PeerInv ==
    ASSUME Inv, NEW c \in Sockets,
           \/ Break(c)
           \/ \E ch \in Channels : Subscribe(c, ch) \/ Unsubscribe(c, ch)
    PROVE  Inv'
<1> USE DEF Inv
<1>1. active' = active /\ job' = job /\ inbox' = inbox
  BY DEF Break, Subscribe, Unsubscribe
<1>2. /\ socket' \in [Sockets -> SocketState]
      /\ \A d \in Sockets : socket'[d].at = socket[d].at /\ socket'[d].role = socket[d].role
  <2>1. PICK f : socket' = [socket EXCEPT ![c] = f] /\ f \in SocketState
                 /\ f.at = socket[c].at /\ f.role = socket[c].role
    <3>1. socket[c] \in SocketState
      BY DEF TypeOK
    <3>2. CASE Break(c)
      <4>1. socket' = [socket EXCEPT ![c] = [socket[c] EXCEPT !.alive = FALSE]]
        BY <3>2 DEF Break, TypeOK
      <4>2. PICK f : f = [socket[c] EXCEPT !.alive = FALSE]
        OBVIOUS
      <4>3. f \in SocketState /\ f.at = socket[c].at /\ f.role = socket[c].role
        BY <3>1, <4>2 DEF SocketState
      <4> QED
        BY <4>1, <4>2, <4>3
    <3>3. ASSUME NEW ch \in Channels, NEW subs \in SUBSET Channels,
                 socket' = [socket EXCEPT ![c] = [socket[c] EXCEPT !.subs = subs]]
          PROVE  \E f : /\ socket' = [socket EXCEPT ![c] = f] /\ f \in SocketState
                        /\ f.at = socket[c].at /\ f.role = socket[c].role
      <4>1. PICK f : f = [socket[c] EXCEPT !.subs = subs]
        OBVIOUS
      <4>2. f \in SocketState /\ f.at = socket[c].at /\ f.role = socket[c].role
        BY <3>1, <4>1 DEF SocketState
      <4> QED
        BY <3>3, <4>1, <4>2
    <3>4. \A ch \in Channels : socket[c].subs \cup {ch} \in SUBSET Channels
                             /\ socket[c].subs \ {ch} \in SUBSET Channels
      BY <3>1 DEF SocketState
    <3>5. ASSUME NEW ch \in Channels, Subscribe(c, ch)
          PROVE  socket' = [socket EXCEPT ![c] = [socket[c] EXCEPT !.subs = @ \cup {ch}]]
      BY <3>5 DEF Subscribe, TypeOK
    <3>6. ASSUME NEW ch \in Channels, Unsubscribe(c, ch)
          PROVE  socket' = [socket EXCEPT ![c] = [socket[c] EXCEPT !.subs = @ \ {ch}]]
      BY <3>6 DEF Unsubscribe, TypeOK
    <3> QED
      BY <3>2, <3>3, <3>4, <3>5, <3>6
  <2> QED
    BY <2>1 DEF TypeOK
<1>3. /\ due' \in [Broadcasts -> SUBSET Sockets]
      /\ \A b \in Broadcasts : due'[b] \subseteq due[b]
  <2>1. PICK gone : due' = [b \in Broadcasts |-> due[b] \ gone[b]] \/ due' = due
    <3>1. CASE Break(c)
      <4>1. due' = [b \in Broadcasts |-> due[b] \ [e \in Broadcasts |-> {c}][b]]
        BY <3>1 DEF Break
      <4> QED
        BY <4>1
    <3>2. CASE \E ch \in Channels : Subscribe(c, ch)
      BY <3>2 DEF Subscribe
    <3>3. ASSUME NEW ch \in Channels, Unsubscribe(c, ch)
          PROVE  \E gone : due' = [b \in Broadcasts |-> due[b] \ gone[b]]
      <4>1. PICK gone : gone = [b \in Broadcasts |-> IF ChannelOf[b] = ch THEN {c} ELSE {}]
        OBVIOUS
      <4>2. \A b \in Broadcasts : (IF ChannelOf[b] = ch THEN due[b] \ {c} ELSE due[b])
                                  = due[b] \ gone[b]
        BY <4>1
      <4>3. due' = [b \in Broadcasts |-> due[b] \ gone[b]]
        BY <3>3, <4>2 DEF Unsubscribe
      <4> QED
        BY <4>3
    <3> QED
      BY <3>1, <3>2, <3>3
  <2> QED
    BY <2>1 DEF TypeOK
<1>4. \A b \in Broadcasts : \A d \in due'[b] :
          socket[d].alive /\ Wants(d, b) => socket'[d].alive /\ Wants(d, b)'
  <2>1. CASE Break(c)
    BY <2>1 DEF Break, Wants, TypeOK, SocketState
  <2>2. CASE \E ch \in Channels : Subscribe(c, ch)
    BY <2>2 DEF Subscribe, Wants, TypeOK, SocketState
  <2>3. ASSUME NEW ch \in Channels, Unsubscribe(c, ch)
        PROVE  \A b \in Broadcasts : \A d \in due'[b] :
                   socket[d].alive /\ Wants(d, b) => socket'[d].alive /\ Wants(d, b)'
    <3> TAKE b \in Broadcasts
    <3> TAKE d \in due'[b]
    <3>1. d # c \/ ChannelOf[b] # ch
      BY <2>3 DEF Unsubscribe, TypeOK
    <3>2. d \in Sockets
      BY <1>3
    <3>3. /\ socket'[d].alive = socket[d].alive /\ socket'[d].role = socket[d].role
          /\ socket'[d].subs = IF d = c THEN socket[d].subs \ {ch} ELSE socket[d].subs
      BY <2>3, <3>2 DEF Unsubscribe, TypeOK, SocketState
    <3> QED
      BY <3>1, <3>3 DEF Wants
  <2> QED
    BY <2>1, <2>2, <2>3
<1>5. TypeOK'
  BY <1>1, <1>2, <1>3 DEF TypeOK
<1>6. ListsInv'
  BY <1>1, <1>2 DEF ListsInv, Distinct, In
<1>7. SentInv'
  BY <1>1, <1>2 DEF SentInv, Behind, In
<1>8. DueInv'
  <2> SUFFICES ASSUME NEW b \in Broadcasts, NEW d \in due'[b]
               PROVE  /\ job'[b].at # "idle"
                      /\ job'[b].at = "sending" => socket'[d].alive /\ Wants(d, b)'
                      /\ socket'[d].at # "away"
                      /\ In(b, inbox[d])' \/ (job'[b].at = "sending" /\ Ahead(b, d)')
    BY DEF DueInv
  <2>1. d \in Sockets /\ d \in due[b]
    BY <1>3
  <2>2. (In(b, inbox[d])' <=> In(b, inbox[d])) /\ (Ahead(b, d)' <=> Ahead(b, d))
    BY <1>1 DEF In, Ahead
  <2> QED
    BY <1>1, <1>2, <1>4, <2>1, <2>2 DEF DueInv
<1>9. OnceAndAllowed'
  BY <1>1, <1>2 DEF OnceAndAllowed
<1>10. NotBegun'
  BY <1>1 DEF NotBegun
<1> QED
  BY <1>5, <1>6, <1>7, <1>8, <1>9, <1>10

LEMMA BroadcastInv ==
    ASSUME Inv, NEW b \in Broadcasts, Broadcast(b)
    PROVE  Inv'
<1> USE DEF Inv
<1>1. /\ socket' = socket /\ active' = active /\ inbox' = inbox
      /\ \A e \in Broadcasts : e # b => job'[e] = job[e] /\ due'[e] = due[e]
      /\ job[b].at = "idle"
  BY DEF Broadcast, TypeOK
<1>2. /\ job'[b].at = "sending" /\ job'[b].list = active /\ job'[b].shared = TRUE
      /\ job'[b].next = job[b].next /\ job'[b].dead = job[b].dead
      /\ due'[b] = {c \in ToSet(active) : socket[c].alive /\ Wants(c, b)}
  BY DEF Broadcast, TypeOK, JobState
<1>3. \A c \in Sockets : ~In(b, inbox[c])
  BY <1>1 DEF SentInv
<1>4. TypeOK'
  <2>1. job' \in [Broadcasts -> JobState]
    <3>1. job[b] \in JobState /\ active \in Seq(Sockets)
      BY DEF TypeOK
    <3>2. [job[b] EXCEPT !.at = "sending", !.list = active, !.shared = TRUE] \in JobState
      BY <3>1 DEF JobState
    <3> QED
      BY <3>2 DEF Broadcast, TypeOK
  <2>2. due' \in [Broadcasts -> SUBSET Sockets]
    BY DEF Broadcast, TypeOK, ToSet
  <2> QED
    BY <1>1, <1>2, <2>1, <2>2 DEF TypeOK
<1>5. ListsInv'
  <2>1. \A e \in Broadcasts : job'[e].list \in {job[e].list, active}
    BY <1>1, <1>2
  <2> QED
    BY <1>1, <2>1 DEF ListsInv, Distinct, In
<1>6. SentInv'
  <2> SUFFICES ASSUME NEW c \in Sockets, NEW e \in Broadcasts, In(e, inbox[c])'
               PROVE  /\ socket'[c].at # "away"
                      /\ job'[e].at # "idle"
                      /\ job'[e].at = "sending" => Behind(e, c)'
    BY DEF SentInv
  <2>1. In(e, inbox[c])
    BY <1>1 DEF In
  <2>2. e # b
    BY <1>3, <2>1
  <2>3. Behind(e, c)' <=> Behind(e, c)
    BY <1>1, <2>2 DEF Behind
  <2> QED
    BY <1>1, <2>1, <2>2, <2>3 DEF SentInv
<1>7. DueInv'
  <2> SUFFICES ASSUME NEW e \in Broadcasts, NEW d \in due'[e]
               PROVE  /\ job'[e].at # "idle"
                      /\ job'[e].at = "sending" => socket'[d].alive /\ Wants(d, e)'
                      /\ socket'[d].at # "away"
                      /\ In(e, inbox[d])' \/ (job'[e].at = "sending" /\ Ahead(e, d)')
    BY DEF DueInv
  <2>1. d \in Sockets
    BY <1>4 DEF TypeOK
  <2>2. (In(e, inbox[d])' <=> In(e, inbox[d])) /\ (Wants(d, e)' <=> Wants(d, e))
    BY <1>1 DEF In, Wants
  <2>3. CASE e # b
    <3>1. Ahead(e, d)' <=> Ahead(e, d)
      BY <1>1, <2>3 DEF Ahead
    <3> QED
      BY <1>1, <2>1, <2>2, <2>3, <3>1 DEF DueInv
  <2>4. CASE e = b
    <3>1. In(d, active) /\ socket[d].alive /\ Wants(d, b)
      BY <1>2, <2>4 DEF ToSet, In
    <3>2. job[b].next = 1
      BY <1>1 DEF NotBegun
    <3>3. Ahead(b, d)'
      BY <1>2, <3>1, <3>2 DEF Ahead, In
    <3> QED
      BY <1>1, <1>2, <2>1, <2>2, <2>4, <3>1, <3>3 DEF ListsInv
  <2> QED
    BY <2>3, <2>4
<1>8. OnceAndAllowed'
  BY <1>1 DEF OnceAndAllowed
<1>9. NotBegun'
  BY <1>1, <1>2 DEF NotBegun
<1> QED
  BY <1>4, <1>5, <1>6, <1>7, <1>8, <1>9

\* A step of the loop of b that passes c, who has the message from it (got) or
\* was not due it.
LEMMA PassInv ==
    ASSUME Inv, NEW b \in Broadcasts, NEW c \in Sockets, NEW got \in BOOLEAN,
           Visiting(b, c), got => socket[c].role >= MinRole[b],
           ~got => c \notin due[b],
           socket' = socket, active' = active, due' = due,
           inbox' = IF got THEN [inbox EXCEPT ![c] = Append(@, b)] ELSE inbox,
           NEW dead \in SUBSET Sockets,
           job' = [job EXCEPT ![b].next = @ + 1, ![b].dead = dead]
    PROVE  Inv'
<1> USE DEF Inv
<1>1. /\ job[b] \in JobState /\ job[b].at = "sending"
      /\ job[b].next \in 1..Len(job[b].list) /\ job[b].list[job[b].next] = c
  BY DEF Visiting, TypeOK, JobState
<1>2. /\ \A e \in Broadcasts : e # b => job'[e] = job[e]
      /\ job'[b].at = "sending" /\ job'[b].next = job[b].next + 1
      /\ job'[b].list = job[b].list /\ job'[b].shared = job[b].shared
      /\ job'[b] \in JobState
  <2>1. /\ \A e \in Broadcasts : e # b => job'[e] = job[e]
        /\ job'[b] = [job[b] EXCEPT !.next = @ + 1, !.dead = dead]
    BY DEF TypeOK
  <2>2. PICK t, u : t = job[b] /\ u = job'[b]
    OBVIOUS
  <2>3. t \in JobState /\ u = [t EXCEPT !.next = @ + 1, !.dead = dead]
    BY <1>1, <2>1, <2>2
  <2>4. u = [at |-> t.at, list |-> t.list, shared |-> t.shared, next |-> t.next + 1, dead |-> dead]
    BY <2>3 DEF JobState
  <2>5. u.at = t.at /\ u.next = t.next + 1 /\ u.list = t.list /\ u.shared = t.shared
    BY <2>4
  <2>6. u \in JobState
    BY <2>3, <2>4 DEF JobState
  <2> QED
    BY <1>1, <2>1, <2>2, <2>5, <2>6
<1>3. \A d \in Sockets :
          /\ inbox[d] \in Seq(Broadcasts)
          /\ inbox'[d] = IF got /\ d = c THEN Append(inbox[d], b) ELSE inbox[d]
  BY DEF TypeOK
<1>4. \A d \in Sockets, e \in Broadcasts : In(e, inbox'[d]) <=> In(e, inbox[d]) \/ (got /\ d = c /\ e = b)
  <2> TAKE d \in Sockets, e \in Broadcasts
  <2>1. CASE ~(got /\ d = c)
    BY <1>3, <2>1
  <2>2. CASE got /\ d = c
    <3>1. PICK old, new : old = inbox[d] /\ new = inbox'[d]
      OBVIOUS
    <3>2. new = Append(old, b) /\ old \in Seq(Broadcasts)
      BY <1>3, <2>2, <3>1
    <3>3. /\ Len(new) = Len(old) + 1 /\ new[Len(old) + 1] = b
          /\ \A i \in 1..Len(old) : new[i] = old[i]
      BY <3>2
    <3>4. In(e, new) <=> In(e, old) \/ e = b
      BY <3>2, <3>3 DEF In
    <3> QED
      BY <2>2, <3>1, <3>4
  <2> QED
    BY <2>1, <2>2
<1>5. TypeOK'
  <2>1. inbox' \in [Sockets -> Seq(Broadcasts)]
    BY DEF TypeOK
  <2>2. job' \in [Broadcasts -> JobState]
    BY <1>2 DEF TypeOK
  <2>3. \A e \in Broadcasts : job'[e].shared => job'[e].list = active'
    BY <1>2 DEF TypeOK
  <2> QED
    BY <2>1, <2>2, <2>3 DEF TypeOK
<1>6. \A e \in Broadcasts : job'[e].at = job[e].at /\ job'[e].list = job[e].list
  BY <1>1, <1>2
<1>7. ListsInv'
  <2>1. \A e \in Broadcasts :
            /\ Distinct(job'[e].list)
            /\ \A d \in Sockets : In(d, job'[e].list) => socket[d].at # "away"
    BY <1>6 DEF ListsInv
  <2> QED
    BY <2>1 DEF ListsInv, Distinct, In
<1>8. NotBegun'
  BY <1>1, <1>2 DEF NotBegun
<1>9. \A e \in Broadcasts, d \in Sockets : Behind(e, d)' <=> Behind(e, d) \/ (e = b /\ d = c)
  <2> TAKE e \in Broadcasts, d \in Sockets
  <2>1. CASE e # b
    BY <1>2, <2>1 DEF Behind
  <2>2. CASE e = b
    <3>1. \A i \in 1..Len(job[b].list) :
              i < job'[b].next <=> i < job[b].next \/ i = job[b].next
      BY <1>1, <1>2
    <3> QED
      BY <1>1, <1>2, <2>2, <3>1 DEF Behind
  <2> QED
    BY <2>1, <2>2
<1>10. \A e \in Broadcasts, d \in Sockets : Ahead(e, d) => Ahead(e, d)' \/ (e = b /\ d = c)
  <2> TAKE e \in Broadcasts, d \in Sockets
  <2>1. CASE e # b
    BY <1>2, <2>1 DEF Ahead
  <2>2. CASE e = b
    <3>1. \A i \in 1..Len(job[b].list) :
              i >= job[b].next <=> i >= job'[b].next \/ i = job[b].next
      BY <1>1, <1>2
    <3> QED
      BY <1>1, <1>2, <2>2, <3>1 DEF Ahead
  <2> QED
    BY <2>1, <2>2
<1>11. SentInv'
  <2> SUFFICES ASSUME NEW d \in Sockets, NEW e \in Broadcasts, In(e, inbox[d])'
               PROVE  /\ socket'[d].at # "away"
                      /\ job'[e].at # "idle"
                      /\ job'[e].at = "sending" => Behind(e, d)'
    BY DEF SentInv
  <2>1. In(e, inbox'[d])
    BY DEF In
  <2>2. CASE In(e, inbox[d])
    BY <1>6, <1>9, <2>2 DEF SentInv
  <2>3. CASE d = c /\ e = b
    <3>1. In(c, job[b].list)
      BY <1>1 DEF In
    <3> QED
      BY <1>1, <1>6, <1>9, <2>3, <3>1 DEF ListsInv
  <2> QED
    BY <1>4, <2>1, <2>2, <2>3
<1>12. DueInv'
  <2> SUFFICES ASSUME NEW e \in Broadcasts, NEW d \in due'[e]
               PROVE  /\ job'[e].at # "idle"
                      /\ job'[e].at = "sending" => socket'[d].alive /\ Wants(d, e)'
                      /\ socket'[d].at # "away"
                      /\ In(e, inbox[d])' \/ (job'[e].at = "sending" /\ Ahead(e, d)')
    BY DEF DueInv
  <2>1. d \in Sockets /\ d \in due[e]
    BY DEF TypeOK
  <2>2. (In(e, inbox[d])' <=> In(e, inbox'[d])) /\ (Wants(d, e)' <=> Wants(d, e))
    BY DEF In, Wants
  <2>3. e = b /\ d = c => got
    BY <2>1
  <2>4. /\ job[e].at # "idle"
        /\ job[e].at = "sending" => socket[d].alive /\ Wants(d, e)
        /\ socket[d].at # "away"
        /\ In(e, inbox[d]) \/ (job[e].at = "sending" /\ Ahead(e, d))
    BY <2>1 DEF DueInv
  <2>5. In(e, inbox'[d]) \/ (job[e].at = "sending" /\ Ahead(e, d)')
    <3>1. CASE In(e, inbox[d])
      BY <1>4, <2>1, <3>1
    <3>2. CASE job[e].at = "sending" /\ Ahead(e, d) /\ e = b /\ d = c
      BY <1>4, <2>1, <2>3, <3>2
    <3>3. CASE job[e].at = "sending" /\ Ahead(e, d) /\ ~(e = b /\ d = c)
      BY <1>10, <2>1, <3>3
    <3> QED
      BY <2>4, <3>1, <3>2, <3>3
  <2> QED
    BY <1>6, <2>1, <2>2, <2>4, <2>5
<1>13. OnceAndAllowed'
  <2>1. CASE ~got
    BY <2>1 DEF OnceAndAllowed
  <2>2. CASE got
    <3>1. ~In(b, inbox[c])
      <4>1. ~Behind(b, c)
        BY <1>1 DEF Behind, ListsInv, Distinct
      <4> QED
        BY <1>1, <4>1 DEF SentInv
    <3> SUFFICES ASSUME NEW d \in Sockets
                 PROVE  /\ \A i, j \in 1..Len(inbox'[d]) : inbox'[d][i] = inbox'[d][j] => i = j
                        /\ \A i \in 1..Len(inbox'[d]) : socket[d].role >= MinRole[inbox'[d][i]]
      BY DEF OnceAndAllowed
    <3>2. PICK old, new : old = inbox[d] /\ new = inbox'[d]
      OBVIOUS
    <3>3. /\ old \in Seq(Broadcasts)
          /\ \A i, j \in 1..Len(old) : old[i] = old[j] => i = j
          /\ \A i \in 1..Len(old) : socket[d].role >= MinRole[old[i]]
      BY <1>3, <3>2 DEF OnceAndAllowed
    <3>4. CASE d # c
      BY <1>3, <3>2, <3>3, <3>4
    <3>5. CASE d = c
      <4>1. new = Append(old, b) /\ \A i \in 1..Len(old) : old[i] # b
        BY <1>3, <2>2, <3>1, <3>2, <3>5 DEF In
      <4>2. /\ Len(new) = Len(old) + 1 /\ new[Len(old) + 1] = b
            /\ \A i \in 1..Len(old) : new[i] = old[i]
            /\ \A i \in 1..Len(new) : i \in 1..Len(old) \/ i = Len(old) + 1
        BY <3>3, <4>1
      <4> QED
        BY <2>2, <3>2, <3>3, <3>5, <4>1, <4>2
    <3> QED
      BY <3>4, <3>5
  <2> QED
    BY <2>1, <2>2
<1> QED
  BY <1>5, <1>7, <1>8, <1>11, <1>12, <1>13

LEMMA SkipInv ==
    ASSUME Inv, NEW b \in Broadcasts, NEW c \in Sockets, Skip(b, c)
    PROVE  Inv'
<1>1. c \notin due[b]
  BY DEF Skip, Visiting, Inv, DueInv
<1>2. job[b].dead \in SUBSET Sockets
  BY DEF Inv, TypeOK, JobState
<1>3. job' = [job EXCEPT ![b].next = @ + 1, ![b].dead = job[b].dead]
  BY DEF Skip, Inv, TypeOK, JobState
<1> QED
  BY <1>1, <1>2, <1>3, PassInv, FALSE \in BOOLEAN DEF Skip

LEMMA SendInv ==
    ASSUME Inv, NEW b \in Broadcasts, NEW c \in Sockets, Send(b, c)
    PROVE  Inv'
<1>1. job[b].dead \in SUBSET Sockets
  BY DEF Inv, TypeOK, JobState
<1>2. Visiting(b, c) /\ socket[c].role >= MinRole[b]
      /\ socket' = socket /\ active' = active /\ due' = due
  BY DEF Send, Wants
<1>3. CASE socket[c].alive
  <2>1. job' = [job EXCEPT ![b].next = @ + 1, ![b].dead = job[b].dead]
    BY <1>3 DEF Send, Inv, TypeOK, JobState
  <2>2. inbox' = IF TRUE THEN [inbox EXCEPT ![c] = Append(@, b)] ELSE inbox
    BY <1>3 DEF Send
  <2> QED
    BY <1>1, <1>2, <2>1, <2>2, PassInv, TRUE \in BOOLEAN
<1>4. CASE ~socket[c].alive
  <2>1. c \notin due[b]
    BY <1>2, <1>4 DEF Visiting, Inv, DueInv
  <2>2. job' = [job EXCEPT ![b].next = @ + 1, ![b].dead = job[b].dead \cup {c}]
    BY <1>4 DEF Send, Inv, TypeOK, JobState
  <2>3. inbox' = IF FALSE THEN [inbox EXCEPT ![c] = Append(@, b)] ELSE inbox
    BY <1>4 DEF Send
  <2>4. job[b].dead \cup {c} \in SUBSET Sockets
    BY <1>1
  <2> QED
    BY <1>2, <2>1, <2>2, <2>3, <2>4, PassInv, FALSE \in BOOLEAN
<1> QED
  BY <1>3, <1>4

\* The loop ends: nobody is ahead of it any more.
LEMMA FinishInv ==
    ASSUME Inv, NEW b \in Broadcasts, Finish(b)
    PROVE  Inv'
<1> USE DEF Inv
<1>1. /\ socket' = socket /\ active' = active /\ inbox' = inbox /\ due' = due
      /\ \A e \in Broadcasts : e # b => job'[e] = job[e]
      /\ job[b] \in JobState
      /\ job[b].at = "sending" /\ job[b].next > Len(job[b].list)
  BY DEF Finish, TypeOK
<1>2. /\ job'[b].at = "done" /\ job'[b].list = <<>> /\ job'[b].shared = FALSE
      /\ job'[b] \in JobState
  <2>1. job'[b] = [job[b] EXCEPT !.at = "done", !.list = <<>>, !.shared = FALSE]
    BY DEF Finish, TypeOK
  <2>2. PICK t, u : t = job[b] /\ u = job'[b]
    OBVIOUS
  <2>3. t \in JobState /\ u = [t EXCEPT !.at = "done", !.list = <<>>, !.shared = FALSE]
    BY <1>1, <2>1, <2>2
  <2>4. u = [at |-> "done", list |-> <<>>, shared |-> FALSE, next |-> t.next, dead |-> t.dead]
    BY <2>3 DEF JobState
  <2>5. u.at = "done" /\ u.list = <<>> /\ u.shared = FALSE
    BY <2>4
  <2>6. <<>> \in Seq(Sockets)
    OBVIOUS
  <2>7. u \in JobState
    BY <2>3, <2>4, <2>6 DEF JobState
  <2> QED
    BY <2>2, <2>5, <2>7
<1>3. TypeOK'
  <2>1. job' \in [Broadcasts -> JobState]
    BY <1>1, <1>2 DEF Finish, TypeOK
  <2> QED
    BY <1>1, <1>2, <2>1 DEF TypeOK
<1>4. ListsInv'
  BY <1>1, <1>2 DEF ListsInv, Distinct, In
<1>5. NotBegun'
  BY <1>1, <1>2 DEF NotBegun
<1>6. SentInv'
  BY <1>1, <1>2 DEF SentInv, Behind, In
<1>7. \A c \in Sockets : ~Ahead(b, c)
  BY <1>1 DEF Ahead, JobState
<1>8. DueInv'
  <2> SUFFICES ASSUME NEW e \in Broadcasts, NEW d \in due'[e]
               PROVE  /\ job'[e].at # "idle"
                      /\ job'[e].at = "sending" => socket'[d].alive /\ Wants(d, e)'
                      /\ socket'[d].at # "away"
                      /\ In(e, inbox[d])' \/ (job'[e].at = "sending" /\ Ahead(e, d)')
    BY DEF DueInv
  <2>1. d \in Sockets /\ d \in due[e]
    BY <1>1 DEF TypeOK
  <2>2. (In(e, inbox[d])' <=> In(e, inbox[d])) /\ (Wants(d, e)' <=> Wants(d, e))
        /\ (e # b => (Ahead(e, d)' <=> Ahead(e, d)))
    BY <1>1 DEF In, Wants, Ahead
  <2> QED
    BY <1>1, <1>2, <1>7, <2>1, <2>2 DEF DueInv
<1>9. OnceAndAllowed'
  BY <1>1 DEF OnceAndAllowed
<1> QED
  BY <1>3, <1>4, <1>5, <1>6, <1>8, <1>9

LEMMA NextInv == Inv /\ [Next]_vars => Inv'
<1> SUFFICES ASSUME Inv, [Next]_vars
             PROVE  Inv'
  OBVIOUS
<1>1. CASE UNCHANGED vars
  <2> USE <1>1 DEF vars, Inv
  <2>1. TypeOK' /\ NotBegun' /\ OnceAndAllowed'
    BY DEF TypeOK, NotBegun, OnceAndAllowed
  <2>2. ListsInv'
    BY DEF ListsInv, Distinct, In
  <2>3. SentInv'
    BY DEF SentInv, Behind, In
  <2>4. DueInv'
    BY DEF DueInv, Ahead, Wants, In
  <2> QED
    BY <2>1, <2>2, <2>3, <2>4
<1>2. ASSUME NEW c \in Sockets, NEW r \in Levels, Connect(c, r)
      PROVE  Inv'
  BY <1>2, ConnectInv
<1>3. ASSUME NEW c \in Sockets, Leave(c)
      PROVE  Inv'
  BY <1>3, LeaveInv
<1>4. ASSUME NEW c \in Sockets,
             Break(c) \/ \E ch \in Channels : Subscribe(c, ch) \/ Unsubscribe(c, ch)
      PROVE  Inv'
  BY <1>4, PeerInv
<1>5. ASSUME NEW b \in Broadcasts, Broadcast(b) \/ Finish(b)
      PROVE  Inv'
  BY <1>5, BroadcastInv, FinishInv
<1>6. ASSUME NEW b \in Broadcasts, NEW c \in Sockets, Skip(b, c) \/ Send(b, c) \/ Drop(b, c)
      PROVE  Inv'
  BY <1>6, SkipInv, SendInv, DropInv
<1> QED
  BY <1>1, <1>2, <1>3, <1>4, <1>5, <1>6 DEF Next, Deliver

\* The inductive invariant of LiveUpdates.
THEOREM Invariance == Spec => []Inv
  BY InitInv, NextInv, PTL DEF Spec

\* The state has its types, and a list shared with the manager is its list.
THEOREM TypeCorrect == Spec => []TypeOK
<1>1. Inv => TypeOK
  BY DEF Inv
<1> QED
  BY <1>1, Invariance, PTL

\* A broadcast misses nobody who stays while it awaits its sends.
THEOREM NobodyIsMissed == Spec => []MissesNobody
<1>1. Inv => MissesNobody
  <2> SUFFICES ASSUME Inv, NEW b \in Broadcasts, job[b].at = "done", NEW c \in due[b]
               PROVE  b \in ToSet(inbox[c])
    BY DEF MissesNobody
  <2>1. c \in Sockets /\ inbox[c] \in Seq(Broadcasts)
    BY DEF Inv, TypeOK
  <2>2. In(b, inbox[c])
    BY DEF Inv, DueInv
  <2> QED
    BY <2>1, <2>2 DEF In, ToSet
<1> QED
  BY <1>1, Invariance, PTL

\* No connection gets a message twice, nor one above its role.
THEOREM SentOnceAndAllowed == Spec => []OnceAndAllowed
<1>1. Inv => OnceAndAllowed
  BY DEF Inv
<1> QED
  BY <1>1, Invariance, PTL

-----------------------------------------------------------------------------
(***************************************************************************)
(* The AI engine: lists that lose clients in place.                        *)
(***************************************************************************)

LEMMA LeastExists ==
    ASSUME NEW T \in SUBSET Nat, T # {}
    PROVE  \E x \in T : \A y \in T : x <= y
<1>1. \E x \in T : \A y \in T : ~(<<y, x>> \in OpToRel(<, Nat))
  BY NatLessThanWellFounded, WFMin
<1>2. \A x, y \in Nat : <<y, x>> \in OpToRel(<, Nat) <=> y < x
  BY DEF OpToRel
<1>3. ASSUME NEW x \in T, NEW y \in T, ~(<<y, x>> \in OpToRel(<, Nat))
      PROVE  x <= y
  <2>1. x \in Nat /\ y \in Nat
    OBVIOUS
  <2>2. ~(y < x)
    BY <1>2, <1>3, <2>1
  <2>3. QED
    BY <2>1, <2>2
<1>4. QED
  BY <1>1, <1>3

Below(K, i) == {k \in K : k <= i}

\* The interval's size, for bounds in Nat.
LEMMA SizeOfInterval ==
    ASSUME NEW n \in Nat
    PROVE  IsFiniteSet(1..n) /\ Cardinality(1..n) = n
<1>1. 1 \in Int /\ n \in Int
  OBVIOUS
<1>2. IsFiniteSet(1..n) /\ Cardinality(1..n) = IF 1 > n THEN 0 ELSE n - 1 + 1
  BY <1>1, FS_Interval
<1>3. (IF 1 > n THEN 0 ELSE n - 1 + 1) = n
  OBVIOUS
<1>4. QED
  BY <1>2, <1>3

LEMMA IndicesAreFinite ==
    ASSUME NEW n \in Nat, NEW K \in SUBSET (1..n)
    PROVE  IsFiniteSet(K) /\ Cardinality(K) \in Nat
BY SizeOfInterval, FS_Subset, FS_CardinalityType

LEMMA BelowIsFinite ==
    ASSUME NEW n \in Nat, NEW K \in SUBSET (1..n), NEW i
    PROVE  /\ IsFiniteSet(Below(K, i)) /\ Cardinality(Below(K, i)) \in Nat
           /\ Below(K, i) \subseteq K
<1>1. Below(K, i) \in SUBSET (1..n) /\ Below(K, i) \subseteq K
  BY DEF Below
<1>2. QED
  BY <1>1, IndicesAreFinite

\* Of n indices, each rank up to their number is that of one of them.
LEMMA RankExists ==
    ASSUME NEW n \in Nat, NEW K \in SUBSET (1..n), NEW j \in 1..Cardinality(K)
    PROVE  \E i \in K : Cardinality(Below(K, i)) = j
<1> DEFINE T == {i \in 0..n : Cardinality(Below(K, i)) >= j}
<1>1. Cardinality(K) \in Nat /\ j \in Nat /\ j >= 1 /\ j <= Cardinality(K)
  BY IndicesAreFinite
<1>0. \A k \in K : k \in Nat /\ 1 <= k /\ k <= n
  OBVIOUS
<1>2. n \in T
  <2>1. Below(K, n) = K
    <3>1. \A k \in K : k \in Below(K, n)
      BY <1>0 DEF Below
    <3>2. QED
      BY <3>1, BelowIsFinite
  <2>2. QED
    BY <1>1, <2>1
<1>3. PICK i \in T : \A h \in T : i <= h
  <2>1. T \in SUBSET Nat
    OBVIOUS
  <2> HIDE DEF T
  <2>2. QED
    BY <1>2, <2>1, LeastExists
<1>4. i \in 0..n /\ Cardinality(Below(K, i)) >= j
  BY <1>3
<1>5. i # 0
  <2>1. Below(K, 0) = {}
    <3>1. \A k \in K : ~(k <= 0)
      BY <1>0
    <3>2. QED
      BY <3>1 DEF Below
  <2>2. Cardinality(Below(K, 0)) = 0
    BY <2>1, FS_EmptySet
  <2>3. QED
    BY <1>1, <1>4, <2>2
<1> DEFINE h == i - 1
<1>6. h \in 0..n /\ i = h + 1 /\ h < i
  BY <1>4, <1>5
<1>7. ~(Cardinality(Below(K, h)) >= j)
  <2>1. h \notin T
    <3>1. \A g \in T : ~(g < i)
      <4>1. \A g \in T : g \in Nat /\ i <= g
        BY <1>3
      <4>2. i \in Nat
        BY <1>4
      <4> HIDE DEF T
      <4>3. QED
        BY <4>1, <4>2
    <3> HIDE DEF T, h
    <3>2. QED
      BY <3>1, <1>6
  <2>2. QED
    BY <2>1, <1>6
<1> HIDE DEF h, T
<1>8. \A k \in K : k <= i <=> k <= h \/ k = i
  BY <1>4, <1>6
<1>9. i \in K
  <2>1. ASSUME i \notin K
        PROVE  Below(K, i) = Below(K, h)
    BY <1>8, <2>1 DEF Below
  <2>2. QED
    BY <1>4, <1>7, <2>1
<1>10. Below(K, i) = Below(K, h) \cup {i} /\ i \notin Below(K, h)
  <2>1. ~(i <= h)
    BY <1>4, <1>6
  <2>2. QED
    BY <2>1, <1>8, <1>9 DEF Below
<1>11. Cardinality(Below(K, i)) = Cardinality(Below(K, h)) + 1
  BY <1>10, BelowIsFinite, FS_AddElement
<1>12. Cardinality(Below(K, h)) \in Nat
  BY BelowIsFinite
<1>13. Cardinality(Below(K, i)) = j
  BY <1>1, <1>4, <1>7, <1>11, <1>12
<1>14. QED
  BY <1>9, <1>13

\* The places of those that stay, and the place of the jth of them.
Places(list, gone) == {i \in 1..Len(list) : list[i] \notin gone}

Nth(K, j) == CHOOSE i \in K : Cardinality(Below(K, i)) = j

LEMMA KeptByPlaces ==
    ASSUME NEW list, NEW gone
    PROVE  Kept(list, gone) = [j \in 1..Cardinality(Places(list, gone)) |->
                                   list[Nth(Places(list, gone), j)]]
BY DEF Kept, Places, Nth, Below

LEMMA KeptIsList ==
    ASSUME NEW S, NEW list \in Seq(S), NEW gone
    PROVE  Kept(list, gone) \in Seq(S)
<1> DEFINE K == Places(list, gone)
<1>1. Len(list) \in Nat /\ K \in SUBSET (1..Len(list)) /\ \A i \in 1..Len(list) : list[i] \in S
  BY DEF Places
<1> HIDE DEF K
<1>2. Cardinality(K) \in Nat
  BY <1>1, IndicesAreFinite
<1>3. ASSUME NEW j \in 1..Cardinality(K)
      PROVE  list[Nth(K, j)] \in S
  <2>1. \E i \in K : Cardinality(Below(K, i)) = j
    BY <1>1, RankExists
  <2>2. Nth(K, j) \in K
    BY <2>1 DEF Nth
  <2>3. QED
    BY <1>1, <2>2
<1>4. Kept(list, gone) = [j \in 1..Cardinality(K) |-> list[Nth(K, j)]]
  BY KeptByPlaces DEF K
<1>5. QED
  BY <1>2, <1>3, <1>4

\* Without anybody to remove, a list stays as it is.
LEMMA KeptAll ==
    ASSUME NEW S, NEW list \in Seq(S), NEW gone, \A i \in 1..Len(list) : list[i] \notin gone
    PROVE  Kept(list, gone) = list
<1> DEFINE n == Len(list)
           K == 1..n
<1>1. n \in Nat /\ Places(list, gone) = K
  BY DEF Places
<1>2. Cardinality(K) = n
  BY <1>1, SizeOfInterval
<1>3. ASSUME NEW i \in K
      PROVE  Cardinality(Below(K, i)) = i
  <2>1. i \in Nat /\ Below(K, i) = 1..i
    BY <1>1 DEF Below
  <2>2. QED
    BY <2>1, SizeOfInterval
<1>4. ASSUME NEW j \in K
      PROVE  Nth(K, j) = j
  <2> HIDE DEF K
  <2>1. Nth(K, j) \in K /\ Cardinality(Below(K, Nth(K, j))) = j
    BY <1>3 DEF Nth
  <2>2. QED
    BY <1>3, <2>1
<1>5. Kept(list, gone) = [j \in K |-> list[Nth(K, j)]]
  BY <1>1, <1>2, KeptByPlaces
<1>6. Kept(list, gone) = [j \in K |-> list[j]]
  BY <1>4, <1>5
<1>7. list = [j \in K |-> list[j]]
  OBVIOUS
<1>8. QED
  BY <1>6, <1>7
-----------------------------------------------------------------------------
(***************************************************************************)
(* The AI engine: its invariant.                                           *)
(***************************************************************************)

CallPlaces == {"absent", "asked", "mailing", "sending", "storing", "answered", "failed"}

Calls == [at : CallPlaces, normal : BOOLEAN, fix : BOOLEAN, next : Nat \ {0}, dead : Seq(Clients)]

Endpoints == [at : {"away", "replaying", "open", "closed"}, alive : BOOLEAN, todo : Seq(Requests)]

AITypes ==
    /\ req \in [Requests -> Calls]
    /\ log \in Seq(Requests)
    /\ feed \in Seq(Clients)
    /\ client \in [Clients -> Endpoints]
    /\ mailed \subseteq Requests
    /\ fixes \subseteq Requests
    /\ shifted \subseteq Requests
    /\ shown \in [Clients -> SUBSET Requests]
    /\ owed \in [Clients -> SUBSET Requests]

\* An iteration starts at the list's first, and an endpoint replays what is left.
Counted ==
    /\ \A q \in Requests : req[q].at \in {"absent", "asked", "mailing"} => req[q].next = 1
    /\ \A c \in Clients : /\ client[c].at = "replaying" => client[c].todo # <<>>
                          /\ client[c].at = "open" => client[c].todo = <<>>

\* Why an analysis acts on a real threat alone.
Deciding ==
    \A q \in Requests :
        /\ q \in mailed => /\ req[q].at \in {"sending", "answered", "failed"}
                           /\ ~req[q].normal /\ ~req[q].fix
        /\ q \in fixes => req[q].at = "answered" /\ req[q].fix
        /\ req[q].fix => ~req[q].normal
        /\ req[q].at = "mailing" => ~req[q].normal /\ ~req[q].fix
        /\ req[q].at = "storing" => req[q].fix

\* A broadcast that has still to come to a client.
ToCome(q, c) ==
    /\ req[q].at = "sending"
    /\ \E i \in 1..Len(feed) : i >= req[q].next /\ feed[i] = c

\* What a connected client is owed it has, or it will come to it, or was lost
\* when the list shifted.
Owing ==
    \A c \in Clients : client[c].alive =>
        \A q \in owed[c] :
            q \in shown[c] \/ q \in ToSet(client[c].todo) \/ q \in shifted \/ ToCome(q, c)

AIInv == AITypes /\ Counted /\ Deciding /\ Owing

-----------------------------------------------------------------------------

LEMMA NewestIsList ==
    ASSUME NEW S, NEW list \in Seq(S), NEW n \in Nat
    PROVE  Newest(list, n) \in Seq(S)
BY DEF Newest

LEMMA InitAI == AIInit => AIInv
<1> SUFFICES ASSUME AIInit
             PROVE  AIInv
  OBVIOUS
<1>1. Absent \in Calls /\ NoClient \in Endpoints
  BY DEF Absent, NoClient, Calls, CallPlaces, Endpoints
<1>2. AITypes
  BY <1>1 DEF AIInit, AITypes
<1>3. Counted /\ Deciding /\ Owing
  BY DEF AIInit, Counted, Deciding, Owing, Absent, NoClient
<1>4. QED
  BY <1>2, <1>3 DEF AIInv

LEMMA AskKeeps ==
    ASSUME AIInv, NEW q \in Requests, Ask(q)
    PROVE  AIInv'
<1>1. AITypes'
  BY DEF AIInv, AITypes, Ask, Calls, CallPlaces
<1>2. Counted' /\ Deciding'
  BY DEF AIInv, AITypes, Counted, Deciding, Ask, Calls
<1>3. Owing'
  BY DEF AIInv, AITypes, Owing, ToCome, Ask, Calls
<1>4. QED
  BY <1>1, <1>2, <1>3 DEF AIInv

\* What publishing does to the state, whatever was decided.
LEMMA PublishKeeps ==
    ASSUME AIInv, NEW q \in Requests, req[q].at \in {"asked", "mailing"},
           NEW r \in Calls, r.next = 1, Publish(q, r),
           UNCHANGED <<feed, client, shown, shifted, fixes>>,
           mailed' \subseteq Requests
    PROVE  AITypes' /\ Counted' /\ Owing'
<1> DEFINE s == [r EXCEPT !.at = "sending"]
<1>1. s \in Calls /\ s.at = "sending" /\ s.next = 1
  BY DEF Calls, CallPlaces
<1>2. req' = [req EXCEPT ![q] = s]
  BY DEF Publish
<1> HIDE DEF s
<1>3. AITypes'
  <2>1. log' \in Seq(Requests)
    <3>1. Append(log, q) \in Seq(Requests) /\ LogSize \in Nat
      BY AIEngineAssumption DEF AIInv, AITypes
    <3>2. QED
      BY <3>1, NewestIsList DEF Publish
  <2>2. owed' \in [Clients -> SUBSET Requests]
    BY DEF Publish, AIInv, AITypes
  <2>3. QED
    BY <1>1, <1>2, <2>1, <2>2 DEF AIInv, AITypes
<1>4. Counted'
  BY <1>1, <1>2 DEF AIInv, AITypes, Counted
<1>5. Owing'
  <2> SUFFICES ASSUME NEW c \in Clients, client[c].alive, NEW p \in owed'[c]
               PROVE  \/ p \in shown[c] \/ p \in ToSet(client[c].todo) \/ p \in shifted
                      \/ ToCome(p, c)'
    BY DEF Owing
  <2>1. CASE p = q /\ c \in ToSet(feed)
    <3>1. PICK i \in 1..Len(feed) : feed[i] = c
      BY <2>1 DEF ToSet, AIInv, AITypes
    <3>2. req'[q] = s
      BY <1>2 DEF AIInv, AITypes
    <3>3. QED
      BY <1>1, <2>1, <3>1, <3>2 DEF ToCome
  <2>2. CASE ~(p = q /\ c \in ToSet(feed))
    <3>1. p \in owed[c]
      BY <2>2 DEF Publish, AIInv, AITypes
    <3>2. ToCome(p, c) => p # q
      BY DEF ToCome
    <3>3. ToCome(p, c) => ToCome(p, c)'
      BY <1>2, <3>2 DEF ToCome, AIInv, AITypes
    <3>4. QED
      BY <3>1, <3>3 DEF AIInv, Owing
  <2>3. QED
    BY <2>1, <2>2
<1>6. QED
  BY <1>3, <1>4, <1>5

LEMMA ClassifyKeeps ==
    ASSUME AIInv, NEW q \in Requests, NEW failing, NEW moment,
           NEW opinion \in Opinions(q, failing, moment), Classify(q, opinion)
    PROVE  AIInv'
<1>1. opinion.normal \in BOOLEAN
  <2>1. Expected(Words[q], moment) \in BOOLEAN
    BY DEF Expected
  <2>2. CASE Answering(failing) = "rules"
    <3>1. opinion.normal = Expected(Words[q], moment)
      BY <2>2 DEF Opinions
    <3>2. QED
      BY <2>1, <3>1
  <2>3. CASE Answering(failing) # "rules"
    <3>1. \/ opinion \in [normal : BOOLEAN, alert : BOOLEAN]
          \/ opinion = [normal |-> FALSE, alert |-> Severity[q] # "medium"]
      BY <2>3 DEF Opinions
    <3>2. CASE opinion \in [normal : BOOLEAN, alert : BOOLEAN]
      BY <3>2
    <3>3. CASE opinion = [normal |-> FALSE, alert |-> Severity[q] # "medium"]
      BY <3>3
    <3>4. QED
      BY <3>1, <3>2, <3>3
  <2>4. QED
    BY <2>2, <2>3
<1>2. Fixing(q, opinion.normal) \in BOOLEAN /\ (Fixing(q, opinion.normal) => ~opinion.normal)
  BY DEF Fixing
<1>3. PICK f \in BOOLEAN : f = Fixing(q, opinion.normal)
  BY <1>2
<1> DEFINE r == [req[q] EXCEPT !.normal = opinion.normal, !.fix = f]
<1>4. req[q] \in Calls /\ req[q].at = "asked" /\ req[q].next = 1
  BY DEF Classify, AIInv, AITypes, Counted
<1>5. r \in Calls /\ r.at = "asked" /\ r.next = 1 /\ (r.fix => ~r.normal)
  BY <1>1, <1>2, <1>3, <1>4 DEF Calls
<1>6. \/ /\ ~r.normal /\ ~r.fix
         /\ req' = [req EXCEPT ![q] = [r EXCEPT !.at = "mailing"]]
         /\ UNCHANGED <<log, owed>>
      \/ Publish(q, r)
  BY <1>3 DEF Classify
<1>7. UNCHANGED <<feed, client, mailed, fixes, shown, shifted>>
  BY DEF Classify
<1> HIDE DEF r
<1>8. CASE /\ ~r.normal /\ ~r.fix
           /\ req' = [req EXCEPT ![q] = [r EXCEPT !.at = "mailing"]]
           /\ UNCHANGED <<log, owed>>
  <2> DEFINE s == [r EXCEPT !.at = "mailing"]
  <2>1. s \in Calls /\ s.at = "mailing" /\ s.next = 1 /\ ~s.normal /\ ~s.fix
    BY <1>5, <1>8 DEF Calls, CallPlaces
  <2>2. req' = [req EXCEPT ![q] = s]
    BY <1>8
  <2> HIDE DEF s
  <2>3. AITypes'
    BY <1>7, <1>8, <2>1, <2>2 DEF AIInv, AITypes
  <2>4. Counted' /\ Deciding'
    BY <1>4, <1>7, <2>1, <2>2 DEF AIInv, AITypes, Counted, Deciding
  <2>5. Owing'
    BY <1>4, <1>7, <1>8, <2>1, <2>2 DEF AIInv, AITypes, Owing, ToCome
  <2>6. QED
    BY <2>3, <2>4, <2>5 DEF AIInv
<1>9. CASE Publish(q, r)
  <2>1. AITypes' /\ Counted' /\ Owing'
    BY <1>4, <1>5, <1>7, <1>9, PublishKeeps DEF AIInv, AITypes
  <2> DEFINE s == [r EXCEPT !.at = "sending"]
  <2>2. s.at = "sending" /\ s.fix = r.fix /\ s.normal = r.normal
    BY <1>5 DEF Calls
  <2>3. req' = [req EXCEPT ![q] = s]
    BY <1>9 DEF Publish
  <2> HIDE DEF s
  <2>4. Deciding'
    BY <1>4, <1>5, <1>7, <2>2, <2>3 DEF AIInv, AITypes, Deciding
  <2>5. QED
    BY <2>1, <2>4 DEF AIInv
<1>10. QED
  BY <1>6, <1>8, <1>9

LEMMA MailKeeps ==
    ASSUME AIInv, NEW q \in Requests, NEW sent \in BOOLEAN, Mail(q, sent)
    PROVE  AIInv'
<1>1. req[q] \in Calls /\ req[q].at = "mailing" /\ req[q].next = 1
  BY DEF Mail, AIInv, AITypes, Counted
<1>2. Publish(q, req[q]) /\ UNCHANGED <<feed, client, fixes, shown, shifted>>
  BY DEF Mail
<1>3. mailed' \in {mailed, mailed \cup {q}}
  BY DEF Mail
<1>4. AITypes' /\ Counted' /\ Owing'
  BY <1>1, <1>2, <1>3, PublishKeeps DEF AIInv, AITypes
<1>5. Deciding'
  <2> DEFINE s == [req[q] EXCEPT !.at = "sending"]
  <2>1. s.at = "sending" /\ s.fix = req[q].fix /\ s.normal = req[q].normal
    BY <1>1 DEF Calls
  <2>2. req' = [req EXCEPT ![q] = s]
    BY <1>2 DEF Publish
  <2> HIDE DEF s
  <2>3. QED
    BY <1>1, <1>2, <1>3, <2>1, <2>2 DEF AIInv, AITypes, Deciding
<1>6. QED
  BY <1>4, <1>5 DEF AIInv

LEMMA SendOneKeeps ==
    ASSUME AIInv, NEW q \in Requests, SendOne(q)
    PROVE  AIInv'
<1> DEFINE n == req[q].next
           d == feed[n]
<1>1. n \in 1..Len(feed) /\ d \in Clients /\ req[q] \in Calls /\ req[q].at = "sending"
  BY DEF SendOne, AIInv, AITypes, Calls
<1>2. PICK s \in Calls :
          /\ s.at = "sending" /\ s.next = n + 1
          /\ s.normal = req[q].normal /\ s.fix = req[q].fix
          /\ req' = [req EXCEPT ![q] = s]
  <2>1. CASE client[d].alive
    <3> DEFINE s == [req[q] EXCEPT !.next = n + 1]
    <3>1. /\ s \in Calls /\ s.at = "sending" /\ s.next = n + 1
          /\ s.normal = req[q].normal /\ s.fix = req[q].fix
      BY <1>1 DEF Calls
    <3>2. req' = [req EXCEPT ![q] = s]
      BY <2>1 DEF SendOne, AIInv, AITypes
    <3> HIDE DEF s
    <3>3. QED
      BY <3>1, <3>2
  <2>2. CASE ~client[d].alive
    <3> DEFINE l == Append(req[q].dead, d)
               s == [req[q] EXCEPT !.next = n + 1, !.dead = l]
    <3>1. l \in Seq(Clients) /\ n + 1 \in Nat \ {0}
      BY <1>1 DEF Calls
    <3> HIDE DEF l
    <3>2. /\ s \in Calls /\ s.at = "sending" /\ s.next = n + 1
          /\ s.normal = req[q].normal /\ s.fix = req[q].fix
      BY <1>1, <3>1 DEF Calls
    <3>3. req' = [req EXCEPT ![q] = s]
      BY <2>2 DEF SendOne, AIInv, AITypes, l
    <3> HIDE DEF s
    <3>4. QED
      BY <3>2, <3>3
  <2>3. QED
    BY <2>1, <2>2
<1>3. UNCHANGED <<log, feed, client, mailed, fixes, owed, shifted>>
  BY DEF SendOne
<1>4. shown' = IF client[d].alive THEN [shown EXCEPT ![d] = @ \cup {q}] ELSE shown
  BY DEF SendOne
<1> HIDE DEF n, d
<1>5. AITypes'
  BY <1>1, <1>2, <1>3, <1>4 DEF AIInv, AITypes
<1>6. Counted' /\ Deciding'
  BY <1>1, <1>2, <1>3 DEF AIInv, AITypes, Counted, Deciding
<1>7. Owing'
  <2> SUFFICES ASSUME NEW c \in Clients, client[c].alive, NEW p \in owed[c]
               PROVE  \/ p \in shown'[c] \/ p \in ToSet(client[c].todo) \/ p \in shifted
                      \/ ToCome(p, c)'
    BY <1>3 DEF Owing
  <2>1. shown[c] \subseteq shown'[c]
    BY <1>1, <1>4 DEF AIInv, AITypes
  <2>2. ASSUME ToCome(p, c), p # q
        PROVE  ToCome(p, c)'
    BY <1>2, <1>3, <2>2 DEF ToCome, AIInv, AITypes
  <2>3. ASSUME ToCome(q, c), p = q
        PROVE  q \in shown'[c] \/ ToCome(q, c)'
    <3>1. PICK i \in 1..Len(feed) : i >= n /\ feed[i] = c
      BY <2>3 DEF ToCome, n
    <3>2. CASE i = n
      <4>1. c = d
        BY <3>1, <3>2 DEF d
      <4>2. QED
        BY <1>4, <4>1 DEF AIInv, AITypes
    <3>3. CASE i # n
      <4>1. req'[q] = s
        BY <1>2 DEF AIInv, AITypes
      <4>2. i >= n + 1
        BY <1>1, <3>1, <3>3 DEF AIInv, AITypes
      <4>3. QED
        BY <1>2, <1>3, <3>1, <4>1, <4>2 DEF ToCome
    <3>4. QED
      BY <3>2, <3>3
  <2>4. QED
    BY <2>1, <2>2, <2>3 DEF AIInv, Owing
<1>8. QED
  BY <1>5, <1>6, <1>7 DEF AIInv

\* A list that lost nobody, or the broadcasts under it are marked.
LEMMA ShiftKeeps ==
    ASSUME AIInv, NEW gone, NEW marked, UNCHANGED <<owed, shown>>,
           \A i \in 1..Len(feed) : feed[i] \in gone => marked \subseteq shifted',
           shifted \subseteq shifted',
           feed' = Kept(feed, gone),
           NEW q \in Requests, NEW c \in Clients, ToCome(q, c),
           q \in marked, req'[q] = req[q]
    PROVE  q \in shifted' \/ ToCome(q, c)'
<1>1. CASE \A i \in 1..Len(feed) : feed[i] \notin gone
  <2>1. feed' = feed
    BY <1>1, KeptAll DEF AIInv, AITypes
  <2>2. QED
    BY <2>1 DEF ToCome
<1>2. CASE \E i \in 1..Len(feed) : feed[i] \in gone
  BY <1>2
<1>3. QED
  BY <1>1, <1>2

LEMMA EndSendsKeeps ==
    ASSUME AIInv, NEW q \in Requests, EndSends(q)
    PROVE  AIInv'
<1>1. req[q] \in Calls /\ req[q].at = "sending" /\ req[q].next > Len(feed)
  BY DEF EndSends, AIInv, AITypes
<1>2. PICK gone, ok :
          /\ ok \in BOOLEAN
          /\ feed' = Kept(feed, gone)
          /\ shifted' = IF gone = {} THEN shifted ELSE shifted \cup (Sending \ {q})
          /\ req' = [req EXCEPT ![q].at = Ended(q, ok), ![q].next = 1, ![q].dead = <<>>]
  <2>1. \E n, dead :
            LET gone == {dead[i] : i \in 1..n}
            IN  /\ feed' = Kept(feed, gone)
                /\ shifted' = IF gone = {} THEN shifted ELSE shifted \cup (Sending \ {q})
                /\ req' = [req EXCEPT ![q].at = Ended(q, n = Len(dead)), ![q].next = 1,
                                      ![q].dead = <<>>]
    BY DEF EndSends
  <2>2. PICK n, dead :
            LET gone == {dead[i] : i \in 1..n}
            IN  /\ feed' = Kept(feed, gone)
                /\ shifted' = IF gone = {} THEN shifted ELSE shifted \cup (Sending \ {q})
                /\ req' = [req EXCEPT ![q].at = Ended(q, n = Len(dead)), ![q].next = 1,
                                      ![q].dead = <<>>]
    BY <2>1
  <2> DEFINE gone == {dead[i] : i \in 1..n}
             ok == n = Len(dead)
  <2>3. /\ feed' = Kept(feed, gone)
        /\ shifted' = IF gone = {} THEN shifted ELSE shifted \cup (Sending \ {q})
        /\ req' = [req EXCEPT ![q].at = Ended(q, ok), ![q].next = 1, ![q].dead = <<>>]
    BY <2>2
  <2>4. ok \in BOOLEAN
    OBVIOUS
  <2> HIDE DEF gone, ok
  <2>5. QED
    BY <2>3, <2>4
<1>3. UNCHANGED <<log, client, mailed, fixes, shown, owed>>
  BY DEF EndSends
<1>4. PICK s \in Calls :
          /\ s.at \in {"failed", "storing", "answered"} /\ s.next = 1
          /\ s.at = "storing" => req[q].fix
          /\ s.normal = req[q].normal /\ s.fix = req[q].fix
          /\ req' = [req EXCEPT ![q] = s]
  <2>1. <<>> \in Seq(Clients) /\ 1 \in Nat \ {0}
    OBVIOUS
  <2>2. /\ Ended(q, ok) \in {"failed", "storing", "answered"}
        /\ Ended(q, ok) = "storing" => req[q].fix
    BY DEF Ended
  <2>3. PICK a \in {"failed", "storing", "answered"} :
            /\ a = Ended(q, ok)
            /\ a = "storing" => req[q].fix
    BY <2>2
  <2> DEFINE s == [req[q] EXCEPT !.at = a, !.next = 1, !.dead = <<>>]
  <2>4. /\ s \in Calls /\ s.at = a /\ s.next = 1
        /\ s.normal = req[q].normal /\ s.fix = req[q].fix
    BY <1>1, <2>1, <2>3 DEF Calls, CallPlaces
  <2>5. req' = [req EXCEPT ![q] = s]
    BY <1>2, <2>3 DEF AIInv, AITypes
  <2> HIDE DEF s
  <2>6. QED
    BY <2>3, <2>4, <2>5
<1>5. AITypes'
  <2>1. feed' \in Seq(Clients)
    BY <1>2, KeptIsList DEF AIInv, AITypes
  <2>2. shifted' \subseteq Requests
    BY <1>2 DEF AIInv, AITypes, Sending
  <2>3. QED
    BY <1>3, <1>4, <2>1, <2>2 DEF AIInv, AITypes
<1>6. Counted'
  BY <1>3, <1>4 DEF AIInv, AITypes, Counted
<1>7. Deciding'
  BY <1>1, <1>3, <1>4 DEF AIInv, AITypes, Deciding
<1>8. Owing'
  <2> SUFFICES ASSUME NEW c \in Clients, client[c].alive, NEW p \in owed[c]
               PROVE  \/ p \in shown[c] \/ p \in ToSet(client[c].todo) \/ p \in shifted'
                      \/ ToCome(p, c)'
    BY <1>3 DEF Owing
  <2>1. ~ToCome(q, c)
    BY <1>1 DEF ToCome, AIInv, AITypes, Calls
  <2>2. ASSUME ToCome(p, c)
        PROVE  p \in shifted' \/ ToCome(p, c)'
    <3>1. p \in Requests /\ p # q /\ p \in Sending \ {q}
      BY <2>1, <2>2 DEF ToCome, Sending, AIInv, AITypes
    <3>2. req'[p] = req[p]
      BY <1>4, <3>1 DEF AIInv, AITypes
    <3>3. \A i \in 1..Len(feed) : feed[i] \in gone => Sending \ {q} \subseteq shifted'
      BY <1>2
    <3>4. QED
      BY <1>2, <1>3, <2>2, <3>1, <3>2, <3>3, ShiftKeeps
  <2>3. shifted \subseteq shifted'
    BY <1>2
  <2>4. QED
    BY <2>2, <2>3 DEF AIInv, Owing
<1>9. QED
  BY <1>5, <1>6, <1>7, <1>8 DEF AIInv

LEMMA StoreKeeps ==
    ASSUME AIInv, NEW q \in Requests, NEW ok \in BOOLEAN, Store(q, ok)
    PROVE  AIInv'
<1>1. AITypes'
  BY DEF AIInv, AITypes, Store, Calls, CallPlaces
<1>2. Counted' /\ Deciding'
  BY DEF AIInv, AITypes, Counted, Deciding, Store, Calls
<1>3. Owing'
  <2>1. ASSUME NEW p \in Requests, NEW c \in Clients, ToCome(p, c)
        PROVE  ToCome(p, c)'
    <3>1. p # q
      BY <2>1 DEF ToCome, Store
    <3>2. req'[p] = req[p]
      BY <3>1 DEF Store, AIInv, AITypes
    <3>3. QED
      BY <2>1, <3>2 DEF ToCome, Store
  <2>2. UNCHANGED <<client, shown, owed, shifted>>
    BY DEF Store
  <2>3. QED
    BY <2>1, <2>2 DEF AIInv, AITypes, Owing
<1>4. QED
  BY <1>1, <1>2, <1>3 DEF AIInv

-----------------------------------------------------------------------------

LEMMA AfterIsSocket ==
    ASSUME NEW rest \in Seq(Requests)
    PROVE  /\ After(rest) \in Endpoints
           /\ After(rest).alive /\ After(rest).todo = rest
           /\ After(rest).at = "replaying" => rest # <<>>
           /\ After(rest).at = "open" => rest = <<>>
BY DEF After, Endpoints

LEMMA JoinKeeps ==
    ASSUME AIInv, NEW c \in Clients, Join(c)
    PROVE  AIInv'
<1> DEFINE todo == Newest(log, Replay)
           e == After(todo)
<1>1. todo \in Seq(Requests)
  BY AIEngineAssumption, NewestIsList DEF AIInv, AITypes
<1>2. /\ client' = [client EXCEPT ![c] = e]
      /\ owed' = [owed EXCEPT ![c] = ToSet(todo)]
      /\ feed' = Append(feed, c)
      /\ UNCHANGED <<req, log, mailed, fixes, shown, shifted>>
  BY DEF Join
<1> HIDE DEF todo
<1>3. /\ e \in Endpoints /\ e.todo = todo
      /\ e.at = "replaying" => e.todo # <<>>
      /\ e.at = "open" => e.todo = <<>>
  BY <1>1, AfterIsSocket
<1> HIDE DEF e
<1>4. ToSet(todo) \subseteq Requests
  BY <1>1 DEF ToSet
<1>5. feed' \in Seq(Clients) /\ Len(feed') = Len(feed) + 1
      /\ \A i \in 1..Len(feed) : feed'[i] = feed[i]
  BY <1>2 DEF AIInv, AITypes
<1>6. AITypes'
  BY <1>2, <1>3, <1>4, <1>5 DEF AIInv, AITypes
<1>7. Counted'
  BY <1>2, <1>3 DEF AIInv, AITypes, Counted
<1>8. Deciding'
  BY <1>2 DEF AIInv, Deciding
<1>9. Owing'
  <2> SUFFICES ASSUME NEW d \in Clients, client'[d].alive, NEW p \in owed'[d]
               PROVE  \/ p \in shown[d] \/ p \in ToSet(client'[d].todo) \/ p \in shifted
                      \/ ToCome(p, d)'
    BY <1>2 DEF Owing
  <2>1. CASE d = c
    BY <1>2, <1>3, <2>1 DEF AIInv, AITypes
  <2>2. CASE d # c
    <3>1. client'[d] = client[d] /\ owed'[d] = owed[d]
      BY <1>2, <2>2 DEF AIInv, AITypes
    <3>2. ToCome(p, d) => ToCome(p, d)'
      <4> SUFFICES ASSUME ToCome(p, d)
                   PROVE  ToCome(p, d)'
        OBVIOUS
      <4>1. PICK i \in 1..Len(feed) : i >= req[p].next /\ feed[i] = d
        BY DEF ToCome
      <4>2. i \in 1..Len(feed') /\ feed'[i] = d
        BY <1>5, <4>1 DEF AIInv, AITypes
      <4>3. QED
        BY <1>2, <4>1, <4>2 DEF ToCome
    <3>3. QED
      BY <3>1, <3>2 DEF AIInv, Owing
  <2>3. QED
    BY <2>1, <2>2
<1>10. QED
  BY <1>6, <1>7, <1>8, <1>9 DEF AIInv

LEMMA ReplayKeeps ==
    ASSUME AIInv, NEW c \in Clients, ReplayOne(c)
    PROVE  AIInv'
<1> DEFINE todo == client[c].todo
<1>1. client[c] \in Endpoints /\ todo \in Seq(Requests) /\ todo # <<>>
  BY DEF ReplayOne, AIInv, AITypes, Counted, Endpoints
<1>2. Head(todo) \in Requests /\ Tail(todo) \in Seq(Requests)
      /\ ToSet(todo) = {Head(todo)} \cup ToSet(Tail(todo))
  <2>1. Len(Tail(todo)) = Len(todo) - 1
        /\ \A i \in 1..Len(Tail(todo)) : Tail(todo)[i] = todo[i + 1]
    BY <1>1
  <2>2. \A x : x \in ToSet(todo) => x = Head(todo) \/ x \in ToSet(Tail(todo))
    <3> SUFFICES ASSUME NEW i \in 1..Len(todo), i # 1
                 PROVE  todo[i] \in ToSet(Tail(todo))
      BY <1>1 DEF ToSet
    <3>1. i - 1 \in 1..Len(Tail(todo)) /\ Tail(todo)[i - 1] = todo[i]
      BY <1>1, <2>1
    <3>2. DOMAIN Tail(todo) = 1..Len(Tail(todo))
      BY <1>1
    <3>3. QED
      BY <3>1, <3>2 DEF ToSet
  <2>3. \A x : x = Head(todo) \/ x \in ToSet(Tail(todo)) => x \in ToSet(todo)
    BY <1>1, <2>1 DEF ToSet
  <2>4. QED
    BY <1>1, <2>2, <2>3
<1>3. UNCHANGED <<req, log, feed, mailed, fixes, owed, shifted>>
  BY DEF ReplayOne
<1>4. CASE client[c].alive
  <2> DEFINE e == After(Tail(todo))
  <2>1. /\ shown' = [shown EXCEPT ![c] = @ \cup {Head(todo)}]
        /\ client' = [client EXCEPT ![c] = e]
    BY <1>4 DEF ReplayOne
  <2>2. /\ e \in Endpoints /\ e.todo = Tail(todo)
        /\ e.at = "replaying" => e.todo # <<>>
        /\ e.at = "open" => e.todo = <<>>
    BY <1>2, AfterIsSocket
  <2> HIDE DEF e, todo
  <2>3. AITypes' /\ Counted' /\ Deciding'
    <3>1. AITypes'
      BY <1>2, <1>3, <2>1, <2>2 DEF AIInv, AITypes
    <3>2. Counted' /\ Deciding'
      BY <1>3, <2>1, <2>2 DEF AIInv, AITypes, Counted, Deciding
    <3>3. QED
      BY <3>1, <3>2
  <2>4. Owing'
    <3> SUFFICES ASSUME NEW d \in Clients, client'[d].alive, NEW p \in owed[d]
                 PROVE  \/ p \in shown'[d] \/ p \in ToSet(client'[d].todo) \/ p \in shifted
                        \/ ToCome(p, d)
      BY <1>3 DEF Owing, ToCome
    <3>1. CASE d = c
      <4>1. shown'[c] = shown[c] \cup {Head(todo)} /\ client'[c] = e
        BY <2>1 DEF AIInv, AITypes
      <4>2. \/ p \in shown[c] \/ p \in ToSet(todo) \/ p \in shifted \/ ToCome(p, c)
        BY <1>4, <3>1 DEF AIInv, Owing, todo
      <4>3. QED
        BY <1>2, <2>2, <3>1, <4>1, <4>2
    <3>2. CASE d # c
      <4>1. client'[d] = client[d] /\ shown'[d] = shown[d]
        BY <2>1, <3>2 DEF AIInv, AITypes
      <4>2. QED
        BY <4>1 DEF AIInv, Owing
    <3>3. QED
      BY <3>1, <3>2
  <2>5. QED
    BY <2>3, <2>4 DEF AIInv
<1>5. CASE ~client[c].alive
  <2> DEFINE e == [client[c] EXCEPT !.at = "closed", !.todo = <<>>]
  <2>1. client' = [client EXCEPT ![c] = e] /\ UNCHANGED shown
    BY <1>5 DEF ReplayOne, AIInv, AITypes
  <2>2. e \in Endpoints /\ e.at = "closed" /\ ~e.alive
    <3>1. <<>> \in Seq(Requests)
      OBVIOUS
    <3>2. e.at = "closed" /\ e.alive = client[c].alive
      BY <1>1 DEF Endpoints
    <3>3. e \in Endpoints
      BY <1>1, <3>1 DEF Endpoints
    <3>4. QED
      BY <1>5, <3>2, <3>3
  <2> HIDE DEF e
  <2>3. AITypes' /\ Counted' /\ Deciding'
    BY <1>3, <2>1, <2>2 DEF AIInv, AITypes, Counted, Deciding
  <2>4. Owing'
    BY <1>3, <2>1, <2>2 DEF AIInv, AITypes, Owing, ToCome
  <2>5. QED
    BY <2>3, <2>4 DEF AIInv
<1>6. QED
  BY <1>4, <1>5

LEMMA LoseKeeps ==
    ASSUME AIInv, NEW c \in Clients, Lose(c)
    PROVE  AIInv'
<1> DEFINE e == [client[c] EXCEPT !.alive = FALSE]
<1>1. client' = [client EXCEPT ![c] = e]
  BY DEF Lose, AIInv, AITypes
<1>2. e \in Endpoints /\ ~e.alive /\ e.at = client[c].at /\ e.todo = client[c].todo
  BY DEF Endpoints, AIInv, AITypes
<1>3. /\ shown' = [shown EXCEPT ![c] = {}]
      /\ owed' = [owed EXCEPT ![c] = {}]
      /\ UNCHANGED <<req, log, feed, mailed, fixes, shifted>>
  BY DEF Lose
<1> HIDE DEF e
<1>4. AITypes'
  BY <1>1, <1>2, <1>3 DEF AIInv, AITypes
<1>5. Counted' /\ Deciding'
  BY <1>1, <1>2, <1>3 DEF AIInv, AITypes, Counted, Deciding
<1>6. Owing'
  BY <1>1, <1>2, <1>3 DEF AIInv, AITypes, Owing, ToCome
<1>7. QED
  BY <1>4, <1>5, <1>6 DEF AIInv

LEMMA DisconnectKeeps ==
    ASSUME AIInv, NEW c \in Clients, Disconnect(c)
    PROVE  AIInv'
<1> DEFINE e == [client[c] EXCEPT !.at = "closed"]
<1>1. client' = [client EXCEPT ![c] = e]
  BY DEF Disconnect, AIInv, AITypes
<1>2. e \in Endpoints /\ ~e.alive /\ e.at = "closed"
  BY DEF Endpoints, Disconnect, AIInv, AITypes
<1>3. /\ feed' = Kept(feed, {c})
      /\ shifted' = IF c \in ToSet(feed) THEN shifted \cup Sending ELSE shifted
      /\ UNCHANGED <<req, log, mailed, fixes, shown, owed>>
  BY DEF Disconnect
<1> HIDE DEF e
<1>4. AITypes'
  <2>1. feed' \in Seq(Clients) /\ shifted' \subseteq Requests
    BY <1>3, KeptIsList DEF AIInv, AITypes, Sending
  <2>2. QED
    BY <1>1, <1>2, <1>3, <2>1 DEF AIInv, AITypes
<1>5. Counted' /\ Deciding'
  BY <1>1, <1>2, <1>3 DEF AIInv, AITypes, Counted, Deciding
<1>6. Owing'
  <2> SUFFICES ASSUME NEW d \in Clients, client'[d].alive, NEW p \in owed[d]
               PROVE  \/ p \in shown[d] \/ p \in ToSet(client'[d].todo) \/ p \in shifted'
                      \/ ToCome(p, d)'
    BY <1>3 DEF Owing
  <2>1. d # c /\ client'[d] = client[d]
    BY <1>1, <1>2 DEF AIInv, AITypes
  <2>2. ASSUME ToCome(p, d)
        PROVE  p \in shifted' \/ ToCome(p, d)'
    <3>1. p \in Requests /\ p \in Sending
      BY <2>2 DEF ToCome, Sending, AIInv, AITypes
    <3>2. \A i \in 1..Len(feed) : feed[i] \in {c} => Sending \subseteq shifted'
      BY <1>3 DEF ToSet, AIInv, AITypes
    <3>3. QED
      BY <1>3, <2>2, <3>1, <3>2, ShiftKeeps
  <2>3. shifted \subseteq shifted'
    BY <1>3
  <2>4. QED
    BY <2>1, <2>2, <2>3 DEF AIInv, Owing
<1>7. QED
  BY <1>4, <1>5, <1>6 DEF AIInv

LEMMA AIStep == AIInv /\ [AINext]_aiVars => AIInv'
<1> SUFFICES ASSUME AIInv, [AINext]_aiVars
             PROVE  AIInv'
  OBVIOUS
<1>1. ASSUME NEW q \in Requests, NEW failing \in SUBSET Configured, NEW moment \in Moments,
             NEW opinion \in Opinions(q, failing, moment), Classify(q, opinion)
      PROVE  AIInv'
  BY <1>1, ClassifyKeeps
<1>2. ASSUME NEW q \in Requests, NEW ok \in BOOLEAN, Mail(q, ok) \/ Store(q, ok)
      PROVE  AIInv'
  BY <1>2, MailKeeps, StoreKeeps
<1>3. ASSUME NEW q \in Requests, Ask(q) \/ SendOne(q) \/ EndSends(q)
      PROVE  AIInv'
  BY <1>3, AskKeeps, SendOneKeeps, EndSendsKeeps
<1>4. ASSUME NEW c \in Clients, Join(c) \/ ReplayOne(c) \/ Lose(c) \/ Disconnect(c)
      PROVE  AIInv'
  BY <1>4, JoinKeeps, ReplayKeeps, LoseKeeps, DisconnectKeeps
<1>5. CASE UNCHANGED aiVars
  BY <1>5 DEF aiVars, AIInv, AITypes, Counted, Deciding, Owing, ToCome
<1>6. QED
  BY <1>1, <1>2, <1>3, <1>4, <1>5 DEF AINext

LEMMA AIInvariance == AISpec => []AIInv
<1> QED
  BY InitAI, AIStep, PTL DEF AISpec

-----------------------------------------------------------------------------
\* The AI engine: its theorems

\* The engine's calls, log, feed and sockets are well-typed in every state.
THEOREM EngineTypes == AISpec => []AITypes
<1>1. AIInv => AITypes
  BY DEF AIInv
<1> QED
  BY <1>1, AIInvariance, PTL

\* No e-mail and no fix for a normal pattern, no e-mail beside a fix, and no
\* fix by an analysis that ended in an exception.
THEOREM ActsOnThreats == AISpec => []ActsOnRealOnes
<1>1. AIInv => ActsOnRealOnes
  BY DEF AIInv, AITypes, Deciding, ActsOnRealOnes
<1> QED
  BY <1>1, AIInvariance, PTL

\* A client of the feed misses an entry only if the list shifted under it.
THEOREM FeedMissesNothing == AISpec => []NothingMissed
<1>1. AIInv => NothingMissed
  <2> SUFFICES ASSUME AIInv, NEW c \in Clients, client[c].at = "open", client[c].alive,
                      NEW q \in owed[c], req[q].at \in Over, q \notin shifted
               PROVE  q \in shown[c]
    BY DEF NothingMissed
  <2>1. ToSet(client[c].todo) = {}
    BY DEF AIInv, Counted, ToSet
  <2>2. ~ToCome(q, c)
    BY DEF ToCome, Over
  <2>3. QED
    BY <2>1, <2>2 DEF AIInv, Owing
<1> QED
  BY <1>1, AIInvariance, PTL
=============================================================================
