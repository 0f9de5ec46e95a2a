----------------------------- MODULE MqttLink ------------------------------
(***************************************************************************)
(* The push channel: PopurEvents (events.py) over MqttWireClient            *)
(* (sdk/mqtt_client.py) and the subscription table of MqttServerManager     *)
(* (sdk/mqtt_session.py).                                                   *)
(*                                                                          *)
(* Any thread may run connect(): the application's, a reader thread that    *)
(* has lost its connection, and whoever asks is_real_connect() (a prober)   *)
(* long enough after the last attempt.  All of them work on the same        *)
(* attributes (_sock, _connected, _closing, _pending) without a lock, and a *)
(* thread may be preempted between any two of its actions.  Two statements  *)
(* share an action in three places: the test and the two writes on entering *)
(* connect() (Enter), the two flags of close(), and the start of reader and *)
(* pinger.                                                                  *)
(*                                                                          *)
(* Left out: publishing, the messages themselves, and the pinger, whose     *)
(* failed send only ends its thread.                                        *)
(***************************************************************************)
EXTENDS Naturals, FiniteSets

CONSTANTS Probers,     \* threads that ask is_real_connect()
          Topics,      \* the topics the application wants
          FirstTopics, \* the ones PopurEvents.connect subscribes
          MaxDials     \* connections opened, and reader threads (bound)

App     == 0             \* the application's thread
Conns   == 1..MaxDials   \* sockets, in the order they were opened
Readers == 1..MaxDials   \* reader threads, in the order they were started
Threads == {App} \cup Probers \cup Readers
MaxPid  == MaxDials + 1 + Cardinality(Topics)   \* SUBSCRIBE packets (bound)

ASSUME DialAssumption   == MaxDials \in Nat \ {0}
ASSUME TopicAssumption  == IsFiniteSet(Topics) /\ FirstTopics \subseteq Topics
ASSUME ThreadAssumption == Probers \cap (Readers \cup {App}) = {}

VARIABLES pc,        \* where each thread is
          wanted,    \* the topics of its subscribe call
          pid,       \* the packet id of its subscribe call
          held,      \* the socket its recv waits on, or the one close() took
          sock,      \* MqttWireClient._sock, 0 for None
          connected, \* _connected
          closing,   \* _closing
          recent,    \* the last attempt is at most 120 s old
          lastPid,   \* _packet_id
          pending,   \* _pending: packet id and topics of the SUBSCRIBEs in flight
          conn,      \* the sockets, and the broker's session behind each
          dials,     \* sockets opened so far
          started,   \* reader threads started so far
          desired,   \* PopurEvents._subscriptions
          state,     \* MqttServerManager.subscribe_state
          app        \* history: how far the application has come

threadVars == <<pc, wanted, pid, held>>
clientVars == <<sock, connected, closing, recent, lastPid, pending>>
vars       == <<threadVars, clientVars, conn, dials, started, desired, state, app>>

\* open: not closed by the client; up: the broker is still there; session: the broker has
\* accepted CONNECT; subs: the topics it delivers; acks: packet ids it has acknowledged and
\* nobody has read yet, 0 for CONNACK.
Conn == [open : BOOLEAN, up : BOOLEAN, session : BOOLEAN,
         subs : SUBSET Topics, acks : SUBSET (0..MaxPid)]

Unused  == [open |-> FALSE, up |-> FALSE, session |-> FALSE, subs |-> {}, acks |-> {}]
NewConn == [open |-> TRUE, up |-> TRUE, session |-> FALSE, subs |-> {}, acks |-> {}]

Pcs == {"idle", "done",
        "enter", "dial", "hello", "connack", "resub", "start",   \* connect()
        "mark", "check", "store", "send",                        \* subscribe()
        "rmark", "rcheck", "rstore", "rsend",                    \* the same, inside connect()
        "first", "take", "shut", "flush",                        \* PopurEvents.connect, close()
        "loop", "recv", "resolve", "lost", "wasUp", "wasDown", "down", "fail", "drop"} \* the reader

Goto(t, where) == pc' = [pc EXCEPT ![t] = where]

\* What the broker makes of a packet on connection k. It ends a connection on which CONNECT
\* comes twice, or a SUBSCRIBE before it.
OnConnect(k) ==
    CASE ~k.up     -> k
      [] k.up /\ k.session -> [k EXCEPT !.up = FALSE]
      [] OTHER     -> [k EXCEPT !.session = TRUE, !.acks = @ \cup {0}]

OnSubscribe(k, topics, id) ==
    CASE ~k.up      -> k
      [] k.up /\ ~k.session -> [k EXCEPT !.up = FALSE]
      [] OTHER      -> [k EXCEPT !.subs = @ \cup topics, !.acks = @ \cup {id}]

\* A send on sock goes out: the socket exists and the client has not closed it.
Sendable == sock # 0 /\ conn[sock].open

CloseConn(c) == conn' = IF c = 0 THEN conn ELSE [conn EXCEPT ![c].open = FALSE]

-----------------------------------------------------------------------------
(* connect(), in whichever thread. *)

\* Where a thread goes on when connect() is over: PopurEvents.connect only after a success,
\* the reader thread ends, a prober has its answer.
AfterConnect(t, ok) ==
    CASE t = App     -> Goto(t, IF ok THEN "first" ELSE "idle")
      [] t \in Readers -> Goto(t, "done")
      [] OTHER       -> Goto(t, "idle")

Enter(t) ==
    /\ pc[t] = "enter"
    /\ \/ /\ connected
          /\ AfterConnect(t, TRUE)
          /\ UNCHANGED <<recent, closing>>
       \/ /\ ~connected
          /\ recent' = TRUE
          /\ closing' = FALSE
          /\ Goto(t, "dial")
    /\ UNCHANGED <<wanted, pid, held, sock, connected, lastPid, pending, conn, dials,
                   started, desired, state, app>>

Dial(t) ==
    /\ pc[t] = "dial"
    /\ dials < MaxDials
    /\ dials' = dials + 1
    /\ conn' = [conn EXCEPT ![dials + 1] = NewConn]
    /\ sock' = dials + 1
    /\ Goto(t, "hello")
    /\ UNCHANGED <<wanted, pid, held, connected, closing, recent, lastPid, pending,
                   started, desired, state, app>>

\* The broker cannot be reached, refuses, does not answer in time, or what answers is no
\* CONNACK. The socket is not closed.
ConnectFails(t) ==
    /\ pc[t] \in {"dial", "hello", "connack"}
    /\ AfterConnect(t, FALSE)
    /\ UNCHANGED <<wanted, pid, held, clientVars, conn, dials, started, desired, state, app>>

\* CONNECT goes out on whatever _sock is now.
Hello(t) ==
    /\ pc[t] = "hello"
    /\ Sendable
    /\ conn' = [conn EXCEPT ![sock] = OnConnect(conn[sock])]
    /\ Goto(t, "connack")
    /\ UNCHANGED <<wanted, pid, held, clientVars, dials, started, desired, state, app>>

Connack(t) ==
    /\ pc[t] = "connack"
    /\ Sendable
    /\ 0 \in conn[sock].acks
    /\ conn' = [conn EXCEPT ![sock].acks = @ \ {0}]
    /\ connected' = TRUE
    /\ Goto(t, "resub")
    /\ UNCHANGED <<wanted, pid, held, sock, closing, recent, lastPid, pending, dials,
                   started, desired, state, app>>

\* Mutant of Resubscribe: topics of the previous session still count as live.
ResubscribeKeeps(t) ==
    /\ pc[t] = "resub"
    /\ wanted' = [wanted EXCEPT ![t] = desired]
    /\ Goto(t, "rmark")
    /\ UNCHANGED <<pid, held, clientVars, conn, dials, started, desired, state, app>>

\* on_connect_success: _resubscribe turns the topics of the previous session into pending
\* ones and subscribes to everything.
Resubscribe(t) ==
    /\ pc[t] = "resub"
    /\ wanted' = [wanted EXCEPT ![t] = desired]
    /\ state' = [x \in Topics |-> IF x \in desired /\ state[x] = "live" THEN "pending"
                                  ELSE state[x]]
    /\ Goto(t, "rmark")
    /\ UNCHANGED <<pid, held, clientVars, conn, dials, started, desired, app>>

\* The reader thread (and the pinger) start, connect() returns.
StartReader(t) ==
    /\ pc[t] = "start"
    /\ started < MaxDials
    /\ started' = started + 1
    /\ pc' = [pc EXCEPT ![started + 1] = "loop",
                        ![t] = CASE t = App       -> "first"
                                 [] t \in Readers -> "done"
                                 [] OTHER         -> "idle"]
    /\ UNCHANGED <<wanted, pid, held, clientVars, conn, dials, desired, state, app>>

ConnectStep(t) == \/ Enter(t) \/ Dial(t) \/ Hello(t) \/ Connack(t) \/ ConnectFails(t)
                  \/ Resubscribe(t) \/ StartReader(t)

-----------------------------------------------------------------------------
(* subscribe(), called by the application or from on_connect_success, where its exceptions *)
(* are swallowed.                                                                          *)

AfterSubscribe(t) == Goto(t, IF pc[t] \in {"rmark", "rcheck", "rsend"} THEN "start" ELSE "idle")

\* MqttServerManager.subscribe: topics that are live are skipped.
Mark(t) ==
    /\ pc[t] \in {"mark", "rmark"}
    /\ LET asked == {x \in wanted[t] : state[x] # "live"}
       IN  /\ wanted' = [wanted EXCEPT ![t] = asked]
           /\ state' = [x \in Topics |-> IF x \in asked THEN "pending" ELSE state[x]]
           /\ IF asked = {} THEN AfterSubscribe(t)
              ELSE Goto(t, IF pc[t] = "mark" THEN "check" ELSE "rcheck")
    /\ UNCHANGED <<pid, held, clientVars, conn, dials, started, desired, app>>

CheckConnected(t) ==
    /\ pc[t] \in {"check", "rcheck"}
    /\ \/ /\ connected
          /\ Goto(t, IF pc[t] = "check" THEN "store" ELSE "rstore")
          /\ UNCHANGED wanted
       \/ /\ ~connected
          /\ AfterSubscribe(t)
          /\ wanted' = [wanted EXCEPT ![t] = {}]
    /\ UNCHANGED <<pid, held, clientVars, conn, dials, started, desired, state, app>>

\* The request gets its packet id and waits for its SUBACK.
Store(t) ==
    /\ pc[t] \in {"store", "rstore"}
    /\ lastPid < MaxPid
    /\ lastPid' = lastPid + 1
    /\ pid' = [pid EXCEPT ![t] = lastPid + 1]
    /\ pending' = pending \cup {<<lastPid + 1, wanted[t]>>}
    /\ Goto(t, IF pc[t] = "store" THEN "send" ELSE "rsend")
    /\ UNCHANGED <<wanted, held, sock, connected, closing, recent, conn, dials, started,
                   desired, state, app>>

\* SUBSCRIBE goes out on whatever _sock is now, or the send raises.
Send(t) ==
    /\ pc[t] \in {"send", "rsend"}
    /\ conn' = IF Sendable
               THEN [conn EXCEPT ![sock] = OnSubscribe(conn[sock], wanted[t], pid[t])]
               ELSE conn
    /\ wanted' = [wanted EXCEPT ![t] = {}]
    /\ pid' = [pid EXCEPT ![t] = 0]
    /\ AfterSubscribe(t)
    /\ UNCHANGED <<held, clientVars, dials, started, desired, state, app>>

SubscribeStep(t) == Mark(t) \/ CheckConnected(t) \/ Store(t) \/ Send(t)

-----------------------------------------------------------------------------
(* The application. *)

\* PopurEvents.connect, once.
Open ==
    /\ pc[App] = "idle" /\ app = "new"
    /\ app' = "open"
    /\ Goto(App, "enter")
    /\ UNCHANGED <<wanted, pid, held, clientVars, conn, dials, started, desired, state>>

\* It goes on with the device and user topics.
First ==
    /\ pc[App] = "first"
    /\ desired' = desired \cup FirstTopics
    /\ wanted' = [wanted EXCEPT ![App] = desired']
    /\ Goto(App, "mark")
    /\ UNCHANGED <<pid, held, clientVars, conn, dials, started, state, app>>

\* subscribe_device.
SubscribeDevice(x) ==
    /\ pc[App] = "idle" /\ app = "open" /\ x \notin desired
    /\ desired' = desired \cup {x}
    /\ wanted' = [wanted EXCEPT ![App] = {x}]
    /\ Goto(App, "mark")
    /\ UNCHANGED <<pid, held, clientVars, conn, dials, started, state, app>>

\* close(): the flags ...
Close ==
    /\ pc[App] = "idle" /\ app = "open"
    /\ app' = "closed"
    /\ closing' = TRUE
    /\ connected' = FALSE
    /\ Goto(App, "take")
    /\ UNCHANGED <<wanted, pid, held, sock, recent, lastPid, pending, conn, dials, started,
                   desired, state>>

\* ... the socket is taken ...
CloseTake ==
    /\ pc[App] = "take"
    /\ held' = [held EXCEPT ![App] = sock]
    /\ sock' = 0
    /\ Goto(App, "shut")
    /\ UNCHANGED <<wanted, pid, connected, closing, recent, lastPid, pending, conn, dials,
                   started, desired, state, app>>

\* ... and closed after a DISCONNECT ...
CloseShut ==
    /\ pc[App] = "shut"
    /\ CloseConn(held[App])
    /\ held' = [held EXCEPT ![App] = 0]
    /\ Goto(App, "flush")
    /\ UNCHANGED <<wanted, pid, clientVars, dials, started, desired, state, app>>

\* ... and everything in flight fails.
CloseFlush ==
    /\ pc[App] = "flush"
    /\ pending' = {}
    /\ Goto(App, "idle")
    /\ UNCHANGED <<wanted, pid, held, sock, connected, closing, recent, lastPid, conn, dials,
                   started, desired, state, app>>

AppStep == First \/ CloseTake \/ CloseShut \/ CloseFlush

\* is_real_connect(): the side effect of asking while the connection is down.
IsRealConnect(t) ==
    /\ pc[t] = "idle" /\ t \in Probers
    /\ ~connected /\ ~recent
    /\ recent' = TRUE
    /\ Goto(t, "enter")
    /\ UNCHANGED <<wanted, pid, held, sock, connected, closing, lastPid, pending, conn,
                   dials, started, desired, state, app>>

-----------------------------------------------------------------------------
(* The reader threads. *)

\* Mutant of Loop: recv is called on whatever _sock is, None included.
LoopUnchecked(r) ==
    /\ pc[r] = "loop"
    /\ \/ /\ connected /\ ~closing
          /\ held' = [held EXCEPT ![r] = sock]
          /\ Goto(r, "recv")
       \/ /\ ~connected \/ closing
          /\ Goto(r, "lost")
          /\ UNCHANGED held
    /\ UNCHANGED <<wanted, pid, clientVars, conn, dials, started, desired, state, app>>

\* The loop condition, and the lookup of _sock for the next recv; None has no recv.
Loop(r) ==
    /\ pc[r] = "loop"
    /\ \/ /\ connected /\ ~closing /\ sock # 0
          /\ held' = [held EXCEPT ![r] = sock]
          /\ Goto(r, "recv")
       \/ /\ ~connected \/ closing \/ sock = 0
          /\ Goto(r, "lost")
          /\ UNCHANGED held
    /\ UNCHANGED <<wanted, pid, clientVars, conn, dials, started, desired, state, app>>

\* An acknowledgement arrives, and _dispatch_packet takes its request out of _pending if it
\* is still there.
Recv(r) ==
    /\ pc[r] = "recv"
    /\ conn[held[r]].open
    /\ \E a \in conn[held[r]].acks :
         LET mine == {q \in pending : q[1] = a}
         IN  /\ conn' = [conn EXCEPT ![held[r]].acks = @ \ {a}]
             /\ pending' = pending \ mine
             /\ wanted' = [wanted EXCEPT ![r] = UNION {q[2] : q \in mine}]
    /\ held' = [held EXCEPT ![r] = 0]
    /\ Goto(r, "resolve")
    /\ UNCHANGED <<pid, sock, connected, closing, recent, lastPid, dials, started, desired,
                   state, app>>

\* resolve(True, ...): mark_subscribe for every topic of the request.
Resolve(r) ==
    /\ pc[r] = "resolve"
    /\ state' = [x \in Topics |-> IF x \in wanted[r] THEN "live" ELSE state[x]]
    /\ wanted' = [wanted EXCEPT ![r] = {}]
    /\ Goto(r, "loop")
    /\ UNCHANGED <<pid, held, clientVars, conn, dials, started, desired, app>>

\* Mutant of RecvFails: the end of a connection is not noticed, only its close.
RecvFailsClosed(r) ==
    /\ pc[r] = "recv"
    /\ ~conn[held[r]].open
    /\ held' = [held EXCEPT ![r] = 0]
    /\ Goto(r, "lost")
    /\ UNCHANGED <<wanted, pid, clientVars, conn, dials, started, desired, state, app>>

\* The socket is closed, the broker gone, two readers tear a packet apart, or the socket's
\* timeout passes without traffic.
RecvFails(r) ==
    /\ pc[r] = "recv"
    /\ held' = [held EXCEPT ![r] = 0]
    /\ Goto(r, "lost")
    /\ UNCHANGED <<wanted, pid, clientVars, conn, dials, started, desired, state, app>>

\* _link_lost looks at _connected, whichever session it speaks of by now ...
LinkLost(r) ==
    /\ pc[r] = "lost"
    /\ Goto(r, IF connected THEN "wasUp" ELSE "wasDown")
    /\ UNCHANGED <<wanted, pid, held, clientVars, conn, dials, started, desired, state, app>>

\* Mutant of LinkDown: the flag is left to the reconnect.
LinkDownKeeps(r) ==
    /\ pc[r] \in {"wasUp", "wasDown"}
    /\ Goto(r, IF pc[r] = "wasUp" THEN "down" ELSE "done")
    /\ UNCHANGED <<wanted, pid, held, clientVars, conn, dials, started, desired, state, app>>

\* ... ends that session ...
LinkDown(r) ==
    /\ pc[r] \in {"wasUp", "wasDown"}
    /\ connected' = FALSE
    /\ Goto(r, IF pc[r] = "wasUp" THEN "down" ELSE "done")
    /\ UNCHANGED <<wanted, pid, held, sock, closing, recent, lastPid, pending, conn, dials,
                   started, desired, state, app>>

\* ... and goes on if there was one and nobody is closing it.
AskClosing(r) ==
    /\ pc[r] = "down"
    /\ Goto(r, IF closing THEN "done" ELSE "fail")
    /\ UNCHANGED <<wanted, pid, held, clientVars, conn, dials, started, desired, state, app>>

FailPending(r) ==
    /\ pc[r] = "fail"
    /\ pending' = {}
    /\ Goto(r, "drop")
    /\ UNCHANGED <<wanted, pid, held, sock, connected, closing, recent, lastPid, conn,
                   dials, started, desired, state, app>>

\* The socket _sock names by now is closed, and the one reconnect follows.
DropSock(r) ==
    /\ pc[r] = "drop"
    /\ CloseConn(sock)
    /\ Goto(r, "enter")
    /\ UNCHANGED <<wanted, pid, held, clientVars, dials, started, desired, state, app>>

ReaderStep(r) == \/ Loop(r) \/ Recv(r) \/ Resolve(r)
                 \/ LinkLost(r) \/ LinkDown(r) \/ AskClosing(r) \/ FailPending(r) \/ DropSock(r)

-----------------------------------------------------------------------------
(* The environment. *)

BrokerGone(c) ==
    /\ conn[c].up
    /\ conn' = [conn EXCEPT ![c].up = FALSE]
    /\ UNCHANGED <<threadVars, clientVars, dials, started, desired, state, app>>

\* Two minutes pass.
AttemptAges ==
    /\ recent
    /\ recent' = FALSE
    /\ UNCHANGED <<threadVars, sock, connected, closing, lastPid, pending, conn, dials,
                   started, desired, state, app>>

-----------------------------------------------------------------------------
Init ==
    /\ pc = [t \in Threads |-> "idle"]
    /\ wanted = [t \in Threads |-> {}]
    /\ pid = [t \in Threads |-> 0]
    /\ held = [t \in Threads |-> 0]
    /\ sock = 0 /\ connected = FALSE /\ closing = FALSE /\ recent = FALSE
    /\ lastPid = 0 /\ pending = {}
    /\ conn = [c \in Conns |-> Unused]
    /\ dials = 0 /\ started = 0
    /\ desired = {}
    /\ state = [x \in Topics |-> "none"]
    /\ app = "new"

ThreadStep(t) == ConnectStep(t) \/ SubscribeStep(t)

Next ==
    \/ \E t \in Threads : ThreadStep(t)
    \/ Open \/ Close \/ AppStep
    \/ \E x \in Topics : SubscribeDevice(x)
    \/ \E t \in Probers : IsRealConnect(t)
    \/ \E r \in Readers : ReaderStep(r) \/ RecvFails(r)
    \/ \E c \in Conns : BrokerGone(c)
    \/ AttemptAges

Spec == Init /\ [][Next]_vars

ConnectionOver(r) == held[r] # 0 /\ ~(conn[held[r]].open /\ conn[held[r]].up)

\* Every thread goes on: the calls of connect() and subscribe() end, by an error if need be
\* (the sockets have a timeout), and a recv ends once its connection has.
Fairness ==
    /\ \A t \in Threads : WF_vars(ThreadStep(t))
    /\ WF_vars(AppStep)
    /\ \A r \in Readers : WF_vars(ReaderStep(r))
    /\ \A r \in Readers : WF_vars(ConnectionOver(r) /\ RecvFails(r))

FairSpec == Spec /\ Fairness

-----------------------------------------------------------------------------
\* The variables have their types; a recv that waits has a socket to wait on.
TypeOK ==
    /\ pc \in [Threads -> Pcs]
    /\ wanted \in [Threads -> SUBSET Topics]
    /\ pid \in [Threads -> 0..MaxPid]
    /\ held \in [Threads -> 0..MaxDials]
    /\ sock \in 0..MaxDials
    /\ connected \in BOOLEAN /\ closing \in BOOLEAN /\ recent \in BOOLEAN
    /\ lastPid \in 0..MaxPid
    /\ pending \subseteq (1..MaxPid) \X SUBSET Topics
    /\ conn \in [Conns -> Conn]
    /\ dials \in 0..MaxDials /\ started \in 0..MaxDials
    /\ desired \subseteq Topics
    /\ state \in [Topics -> {"none", "pending", "live"}]
    /\ app \in {"new", "open", "closed"}
    /\ \A t \in Threads : pc[t] = "recv" => held[t] \in Conns

\* A thread that has set _connected and has not yet started its reader.
Announcing(t) == pc[t] \in {"resub", "rmark", "rcheck", "rstore", "rsend", "start"}

\* A reader on its way to _link_lost.
Watching(r) == pc[r] \in {"loop", "recv", "resolve", "lost", "wasUp", "wasDown"}

\* Whenever _connected is set, some reader thread is running, or about to be started, that
\* will clear it when the connection ends (_reader_loop's finally, mqtt_client.py:407-418),
\* however many threads connect, lose and close connections at the same time.
ConnectedIsWatched ==
    connected => (\E t \in Threads : Announcing(t)) \/ (\E r \in Readers : Watching(r))

Alive(c) == conn[c].open /\ conn[c].up

\* The flag does not outlive the connections: when none is left, _connected is cleared
\* (_link_lost), unless another connection is opened first.
LossNoticed ==
    (connected /\ \A c \in Conns : ~Alive(c)) ~> (~connected \/ \E c \in Conns : Alive(c))

\* A session that stays up gets all its subscriptions: whatever the application subscribed to
\* before or during a loss of the link, the broker delivers it on the present connection, or
\* that one is over (_resubscribe, events.py:364-374, and subscribe racing it).
SubscriptionsRestored ==
    (connected /\ desired # {}) ~> (~connected \/ (sock # 0 /\ desired \subseteq conn[sock].subs))
=============================================================================
