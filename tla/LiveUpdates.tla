---------------------------- MODULE LiveUpdates -----------------------------
(***************************************************************************)
(* /ws/live of one backend process: the connection manager, the endpoints  *)
(* of its sockets and the broadcasts of the incident pipeline.             *)
(*                                                                         *)
(* A broadcast awaits a send for each connection of the list object it     *)
(* began with.  connect appends to the manager's list object, disconnect   *)
(* binds the manager to a new one: a broadcast under way sees later        *)
(* connections while the object is still the manager's, and never a        *)
(* removal.  job[b].list is what broadcast b iterates over, job[b].shared  *)
(* says that it is the manager's own list.                                 *)
(*                                                                         *)
(* close_all finds no connection: uvicorn ends the endpoints first.        *)
(***************************************************************************)
EXTENDS Naturals, Sequences, SequencesExt

CONSTANTS
    Sockets,      \* WebSocket objects; a client that returns has a new one
    Broadcasts,   \* calls of broadcast
    Levels,       \* the roles of those who connect
    Channels,     \* but "all": whether a client subscribed to it is never asked
    MinRole,      \* the least role and the channel of each broadcast; the
    ChannelOf     \* pipeline's are all for viewers and for "all"

ASSUME LiveUpdatesAssumption ==
    /\ Levels \subseteq 1..3
    /\ "all" \notin Channels
    /\ MinRole \in [Broadcasts -> 1..3]
    /\ ChannelOf \in [Broadcasts -> Channels \cup {"all"}]

VARIABLES
    socket,   \* each socket's endpoint, role, subscriptions, and whether its peer is there
    active,   \* manager.active
    job,      \* each broadcast
    inbox,    \* what was sent to each socket, in order
    due       \* history: who was to get a broadcast since it began

vars == <<socket, active, job, inbox, due>>

Away == [at |-> "away", role |-> 0, subs |-> {}, alive |-> FALSE]

Idle == [at |-> "idle", list |-> <<>>, shared |-> FALSE, next |-> 1, dead |-> {}]

Init ==
    /\ socket = [c \in Sockets |-> Away]
    /\ active = <<>>
    /\ job = [b \in Broadcasts |-> Idle]
    /\ inbox = [c \in Sockets |-> <<>>]
    /\ due = [b \in Broadcasts |-> {}]

\* The two tests of the loop of broadcast.
Wants(c, b) ==
    /\ socket[c].role >= MinRole[b]
    /\ ChannelOf[b] \in {"all"} \cup socket[c].subs

\* Mutant of Registered: the newest connection comes first.
Registered_InFront(list, c) == <<c>> \o list

\* self.active.append(conn)
Registered(list, c) == Append(list, c)

(* The endpoint, from the key's role (env or users table, looked up once for *)
(* the life of the connection) to its registration.                          *)
Connect(c, r) ==
    /\ socket[c].at = "away"
    /\ socket' = [socket EXCEPT ![c] =
                      [at |-> "open", role |-> r, subs |-> {}, alive |-> TRUE]]
    /\ active' = Registered(active, c)
    /\ job' = [b \in Broadcasts |->
                  IF job[b].shared THEN [job[b] EXCEPT !.list = Registered(@, c)] ELSE job[b]]
    /\ UNCHANGED <<inbox, due>>

Without(list, c) ==
    IF \E i \in 1..Len(list) : list[i] = c
    THEN RemoveAt(list, CHOOSE i \in 1..Len(list) : list[i] = c)
    ELSE list

\* Mutant of Rebound: the list object itself loses the connection, so that an
\* iteration under way skips the one that moves up.
Rebound_InPlace(c) ==
    [b \in Broadcasts |->
        IF job[b].shared THEN [job[b] EXCEPT !.list = Without(@, c)] ELSE job[b]]

\* The broadcasts after self.active = [...]: each keeps the list it iterates.
Rebound(c) == [b \in Broadcasts |-> [job[b] EXCEPT !.shared = FALSE]]

(* The endpoint's receive raises WebSocketDisconnect or another exception.   *)
Leave(c) ==
    /\ socket[c].at = "open"
    /\ ~socket[c].alive
    /\ socket' = [socket EXCEPT ![c].at = "closed"]
    /\ active' = Without(active, c)
    /\ job' = Rebound(c)
    /\ UNCHANGED <<inbox, due>>

(* The peer goes away, or the keepalive ping finds it gone.                  *)
Break(c) ==
    /\ socket[c].alive
    /\ socket' = [socket EXCEPT ![c].alive = FALSE]
    /\ due' = [b \in Broadcasts |-> due[b] \ {c}]
    /\ UNCHANGED <<active, job, inbox>>

Subscribe(c, ch) ==
    /\ socket[c].at = "open"
    /\ socket[c].alive
    /\ socket' = [socket EXCEPT ![c].subs = @ \cup {ch}]
    /\ UNCHANGED <<active, job, inbox, due>>

Unsubscribe(c, ch) ==
    /\ socket[c].at = "open"
    /\ socket[c].alive
    /\ socket' = [socket EXCEPT ![c].subs = @ \ {ch}]
    /\ due' = [b \in Broadcasts |-> IF ChannelOf[b] = ch THEN due[b] \ {c} ELSE due[b]]
    /\ UNCHANGED <<active, job, inbox>>

Broadcast(b) ==
    /\ job[b].at = "idle"
    /\ job' = [job EXCEPT ![b].at = "sending", ![b].list = active, ![b].shared = TRUE]
    /\ due' = [due EXCEPT ![b] = {c \in ToSet(active) : socket[c].alive /\ Wants(c, b)}]
    /\ UNCHANGED <<socket, active, inbox>>

Visiting(b, c) ==
    /\ job[b].at = "sending"
    /\ job[b].next <= Len(job[b].list)
    /\ c = job[b].list[job[b].next]

Skip(b, c) ==
    /\ Visiting(b, c)
    /\ ~Wants(c, b)
    /\ job' = [job EXCEPT ![b].next = @ + 1]
    /\ UNCHANGED <<socket, active, inbox, due>>

\* Mutant of Send: a dead client is tried again.
Send_Retried(b, c) ==
    /\ Visiting(b, c)
    /\ Wants(c, b)
    /\ socket[c].alive
    /\ job' = [job EXCEPT ![b].next = @ + 1]
    /\ inbox' = [inbox EXCEPT ![c] = Append(@, b)]
    /\ UNCHANGED <<socket, active, due>>

(* await send_json: to a peer that is gone, or a socket that was closed, it  *)
(* raises.                                                                   *)
Send(b, c) ==
    /\ Visiting(b, c)
    /\ Wants(c, b)
    /\ IF socket[c].alive
       THEN /\ job' = [job EXCEPT ![b].next = @ + 1]
            /\ inbox' = [inbox EXCEPT ![c] = Append(@, b)]
       ELSE /\ job' = [job EXCEPT ![b].next = @ + 1, ![b].dead = @ \cup {c}]
            /\ UNCHANGED inbox
    /\ UNCHANGED <<socket, active, due>>

Finish(b) ==
    /\ job[b].at = "sending"
    /\ job[b].next > Len(job[b].list)
    /\ job' = [job EXCEPT ![b].at = "done", ![b].list = <<>>, ![b].shared = FALSE]
    /\ UNCHANGED <<socket, active, inbox, due>>

(* After the loop the dead are disconnected, all in one go.                  *)
Drop(b, c) ==
    /\ job[b].at = "done"
    /\ c \in job[b].dead
    /\ active' = Without(active, c)
    /\ job' = [Rebound(c) EXCEPT ![b].dead = @ \ {c}]
    /\ UNCHANGED <<socket, inbox, due>>

Deliver(b) == \E c \in Sockets : Skip(b, c) \/ Send(b, c) \/ Drop(b, c)

Next ==
    \/ \E c \in Sockets :
           \/ \E r \in Levels : Connect(c, r)
           \/ Leave(c) \/ Break(c)
           \/ \E ch \in Channels : Subscribe(c, ch) \/ Unsubscribe(c, ch)
    \/ \E b \in Broadcasts :
           \/ Broadcast(b) \/ Deliver(b) \/ Finish(b)

(* A send ends: the socket takes the message, or the keepalive finds the     *)
(* peer gone; the endpoint of a broken socket is told.                       *)
Fairness ==
    /\ \A b \in Broadcasts : WF_vars(Deliver(b) \/ Finish(b))
    /\ \A c \in Sockets : WF_vars(Leave(c))

Spec == Init /\ [][Next]_vars /\ Fairness

-----------------------------------------------------------------------------
\* Properties

SocketState == [at: {"away", "open", "closed"}, role: 0..3, subs: SUBSET Channels,
                alive: BOOLEAN]

JobState == [at: {"idle", "sending", "done"}, list: Seq(Sockets), shared: BOOLEAN,
             next: Nat \ {0}, dead: SUBSET Sockets]

\* The state has its types, and a list shared with the manager is its list.
TypeOK ==
    /\ socket \in [Sockets -> SocketState]
    /\ active \in Seq(Sockets)
    /\ job \in [Broadcasts -> JobState]
    /\ inbox \in [Sockets -> Seq(Broadcasts)]
    /\ due \in [Broadcasts -> SUBSET Sockets]
    /\ \A b \in Broadcasts : job[b].shared => job[b].list = active

(* A broadcast misses nobody: whoever was connected when it began, may read  *)
(* it, stayed and stayed subscribed has it when the loop is over, although   *)
(* connections come and go while it awaits its sends.                        *)
MissesNobody ==
    \A b \in Broadcasts : job[b].at = "done" =>
        \A c \in due[b] : b \in ToSet(inbox[c])

(* No connection gets a message twice, nor one above its role.               *)
OnceAndAllowed ==
    \A c \in Sockets :
        /\ \A i, j \in 1..Len(inbox[c]) : inbox[c][i] = inbox[c][j] => i = j
        /\ \A i \in 1..Len(inbox[c]) : socket[c].role >= MinRole[inbox[c][i]]

(* A broadcast, and the pipeline step that awaits it, comes to its end.      *)
EveryBroadcastEnds ==
    \A b \in Broadcasts :
        job[b].at = "sending" ~> (job[b].at = "done" /\ job[b].dead = {})
=============================================================================
