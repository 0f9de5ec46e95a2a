----------------------------- MODULE PushProofs -----------------------------
(***************************************************************************)
(* Proofs about the two ends of the pushes: the channel they come over     *)
(* (MqttLink) and the coordinator that merges them into what is shown      *)
(* (Coordinator).  Spec, Next and TypeOK are those of the channel.         *)
(***************************************************************************)
EXTENDS MqttLink, Coordinator, FiniteSetTheorems, TLAPS

-----------------------------------------------------------------------------
(* The channel, for any number of topics, connections and threads that ask *)
(* is_real_connect(): the types, and that a client which calls itself      *)
(* connected has a reader that will find the connection's end.             *)

\* Reader threads are numbered as they start; one that has not started does nothing.
ReadersInOrder == \A r \in Readers : r > started => pc[r] = "idle"

IInv == TypeOK /\ ReadersInOrder /\ ConnectedIsWatched

\* The bound on packet ids is a number, because there are finitely many topics.
LEMMA MaxPidNat == MaxPid \in Nat \ {0}
  BY DialAssumption, TopicAssumption, FS_CardinalityType DEF MaxPid

\* What the broker makes of a packet leaves a connection well-formed.
LEMMA ConnUpdates ==
  ASSUME NEW k \in Conn, NEW topics \in SUBSET Topics, NEW id \in 0..MaxPid
  PROVE  OnConnect(k) \in Conn /\ OnSubscribe(k, topics, id) \in Conn
<1>1. k.subs \cup topics \in SUBSET Topics
  BY DEF Conn
<1>2. k.acks \cup {id} \in SUBSET (0..MaxPid) /\ k.acks \cup {0} \in SUBSET (0..MaxPid)
  BY MaxPidNat DEF Conn
<1>3. OnConnect(k) \in Conn
  BY <1>2 DEF Conn, OnConnect
<1>4. OnSubscribe(k, topics, id) \in Conn
  BY <1>1, <1>2 DEF Conn, OnSubscribe
<1>5. QED
  BY <1>3, <1>4

\* Closing a socket, its loss, and a packet taken from it leave the connections well-formed.
LEMMA ConnTable ==
  ASSUME conn \in [Conns -> Conn], NEW c \in Conns, NEW k \in Conn, NEW down \in BOOLEAN
  PROVE  /\ [conn EXCEPT ![c] = k] \in [Conns -> Conn]
         /\ [conn EXCEPT ![c].open = down] \in [Conns -> Conn]
         /\ [conn EXCEPT ![c].up = down] \in [Conns -> Conn]
         /\ [conn EXCEPT ![c].acks = @ \ {0}] \in [Conns -> Conn]
<1>1. conn[c] \in Conn
  OBVIOUS
<1>2. [conn[c] EXCEPT !.open = down] \in Conn /\ [conn[c] EXCEPT !.up = down] \in Conn
  BY <1>1 DEF Conn
<1>3. [conn[c] EXCEPT !.acks = @ \ {0}] \in Conn
  BY <1>1 DEF Conn
<1>4. QED
  BY <1>2, <1>3

\* Every action keeps the types.
LEMMA TypeStep ==
  ASSUME TypeOK, [Next]_vars
  PROVE  TypeOK'
<1> USE DialAssumption, MaxPidNat DEF TypeOK
<1>1. ASSUME NEW t \in Threads, Enter(t)
      PROVE  TypeOK'
  <2>1. \E to \in Pcs \ {"recv"} : pc' = [pc EXCEPT ![t] = to]
    BY <1>1 DEF Enter, Goto, AfterConnect, Pcs
  <2>2. pc' \in [Threads -> Pcs] /\ \A s \in Threads : pc'[s] = "recv" => pc[s] = "recv"
    BY <2>1
  <2>3. QED
    BY <1>1, <2>2 DEF Enter
<1>2. ASSUME NEW t \in Threads, Dial(t)
      PROVE  TypeOK'
  <2>1. conn' \in [Conns -> Conn]
    <3>1. NewConn \in Conn /\ dials + 1 \in Conns
      BY <1>2 DEF Dial, NewConn, Conn, Conns
    <3>2. QED
      BY <1>2, <3>1, ConnTable DEF Dial
  <2>2. QED
    BY <1>2, <2>1 DEF Dial, Goto, threadVars, clientVars, Threads, Readers, Conns, App, Pcs
<1>3. ASSUME NEW t \in Threads, ConnectFails(t)
      PROVE  TypeOK'
  <2>1. \E to \in Pcs \ {"recv"} : pc' = [pc EXCEPT ![t] = to]
    BY <1>3 DEF ConnectFails, Goto, AfterConnect, Pcs
  <2>2. pc' \in [Threads -> Pcs] /\ \A s \in Threads : pc'[s] = "recv" => pc[s] = "recv"
    BY <2>1
  <2>3. QED
    BY <1>3, <2>2 DEF ConnectFails, clientVars
<1>4. ASSUME NEW t \in Threads, Hello(t)
      PROVE  TypeOK'
  <2>1. conn' \in [Conns -> Conn]
    <3>1. sock # 0
      BY <1>4 DEF Hello, Sendable
    <3>2. PICK c \in Conns, k \in Conn : c = sock /\ k = OnConnect(conn[sock])
      <4>1. sock \in Conns
        BY <3>1 DEF Conns
      <4> QED
        BY <4>1, ConnUpdates
    <3>3. conn' = [conn EXCEPT ![c] = k]
      BY <1>4, <3>2 DEF Hello
    <3>4. QED
      BY <3>3, ConnTable
  <2>2. QED
    BY <1>4, <2>1 DEF Hello, Goto, Sendable, threadVars, clientVars, Threads, Readers, Conns, App, Pcs
<1>5. ASSUME NEW t \in Threads, Connack(t)
      PROVE  TypeOK'
  <2>1. conn' \in [Conns -> Conn]
    <3>1. sock \in Conns
      BY <1>5 DEF Connack, Sendable, Conns
    <3>2. QED
      BY <1>5, <3>1, ConnTable DEF Connack
  <2>2. QED
    BY <1>5, <2>1 DEF Connack, Goto, Sendable, threadVars, clientVars, Threads, Readers, Conns, App, Pcs
<1>6. ASSUME NEW t \in Threads, Resubscribe(t)
      PROVE  TypeOK'
  BY <1>6 DEF Resubscribe, Goto, threadVars, clientVars, Threads, Readers, Conns, App, Pcs
<1>7. ASSUME NEW t \in Threads, StartReader(t)
      PROVE  TypeOK'
  <2>1. started + 1 \in Threads /\ started + 1 \in 0..MaxDials
    BY <1>7 DEF StartReader, Threads, Readers
  <2>2. pc' \in [Threads -> Pcs]
    BY <1>7, <2>1 DEF StartReader, Pcs
  <2>3. \A s \in Threads : pc'[s] = "recv" => pc[s] = "recv"
    BY <1>7, <2>1 DEF StartReader
  <2>4. QED
    BY <1>7, <2>1, <2>2, <2>3 DEF StartReader, clientVars
<1>8. ASSUME NEW t \in Threads, Mark(t)
      PROVE  TypeOK'
  <2>1. \E to \in Pcs \ {"recv"} : pc' = [pc EXCEPT ![t] = to]
    BY <1>8 DEF Mark, Goto, AfterSubscribe, Pcs
  <2>2. pc' \in [Threads -> Pcs] /\ \A s \in Threads : pc'[s] = "recv" => pc[s] = "recv"
    BY <2>1
  <2>3. wanted' \in [Threads -> SUBSET Topics]
    BY <1>8 DEF Mark
  <2>4. state' \in [Topics -> {"none", "pending", "live"}]
    BY <1>8 DEF Mark
  <2>5. QED
    BY <1>8, <2>2, <2>3, <2>4 DEF Mark, clientVars
<1>9. ASSUME NEW t \in Threads, CheckConnected(t)
      PROVE  TypeOK'
  <2>1. \E to \in Pcs \ {"recv"} : pc' = [pc EXCEPT ![t] = to]
    BY <1>9 DEF CheckConnected, Goto, AfterSubscribe, Pcs
  <2>2. pc' \in [Threads -> Pcs] /\ \A s \in Threads : pc'[s] = "recv" => pc[s] = "recv"
    BY <2>1
  <2>3. QED
    BY <1>9, <2>2 DEF CheckConnected, threadVars, clientVars
<1>10. ASSUME NEW t \in Threads, Store(t)
      PROVE  TypeOK'
  <2>1. lastPid + 1 \in 1..MaxPid
    BY <1>10 DEF Store
  <2>2. pc' \in [Threads -> Pcs] /\ \A s \in Threads : pc'[s] = "recv" => pc[s] = "recv"
    BY <1>10 DEF Store, Goto, Pcs
  <2>3. pid' \in [Threads -> 0..MaxPid]
    BY <1>10, <2>1 DEF Store
  <2>4. pending' \subseteq (1..MaxPid) \X SUBSET Topics
    BY <1>10, <2>1 DEF Store
  <2>5. QED
    BY <1>10, <2>1, <2>2, <2>3, <2>4 DEF Store
<1>11. ASSUME NEW t \in Threads, Send(t)
      PROVE  TypeOK'
  <2>1. conn' \in [Conns -> Conn]
    <3>1. CASE ~Sendable
      BY <1>11, <3>1 DEF Send
    <3>2. CASE Sendable
      <4>1. sock \in Conns /\ conn[sock] \in Conn
        BY <3>2 DEF Sendable, Conns
      <4>2. wanted[t] \in SUBSET Topics /\ pid[t] \in 0..MaxPid
        OBVIOUS
      <4>3. OnSubscribe(conn[sock], wanted[t], pid[t]) \in Conn
        BY <4>1, <4>2, ConnUpdates
      <4>4. QED
        BY <1>11, <3>2, <4>1, <4>3 DEF Send
    <3>3. QED
      BY <3>1, <3>2
  <2>2. QED
    BY <1>11, <2>1 DEF Send, Goto, AfterSubscribe, Sendable, threadVars, clientVars, Threads, Readers, Conns, App, Pcs
<1>12. ASSUME Open
      PROVE  TypeOK'
  BY <1>12 DEF Open, Goto, threadVars, clientVars, Threads, Readers, Conns, App, Pcs
<1>13. ASSUME Close
      PROVE  TypeOK'
  BY <1>13 DEF Close, Goto, threadVars, clientVars, Threads, Readers, Conns, App, Pcs
<1>14. ASSUME First
      PROVE  TypeOK'
  <2>1. App \in Threads
    BY DEF Threads
  <2>2. desired' \subseteq Topics
    BY <1>14, TopicAssumption DEF First
  <2>3. wanted' \in [Threads -> SUBSET Topics]
    BY <1>14, <2>1, <2>2 DEF First
  <2>4. pc' \in [Threads -> Pcs] /\ \A s \in Threads : pc'[s] = "recv" => pc[s] = "recv"
    BY <1>14, <2>1 DEF First, Goto, Pcs
  <2>5. QED
    BY <1>14, <2>2, <2>3, <2>4 DEF First, clientVars
<1>15. ASSUME CloseTake
      PROVE  TypeOK'
  <2>1. App \in Threads
    BY DEF Threads
  <2>2. held' \in [Threads -> 0..MaxDials]
    BY <1>15, <2>1 DEF CloseTake
  <2>3. pc' \in [Threads -> Pcs] /\ \A s \in Threads : pc'[s] = "recv" => pc[s] = "recv"
    BY <1>15, <2>1 DEF CloseTake, Goto, Pcs
  <2>4. \A s \in Threads : pc'[s] = "recv" => held'[s] \in Conns
    BY <1>15, <2>1, <2>3 DEF CloseTake, Goto, Pcs
  <2>5. QED
    BY <1>15, <2>2, <2>3, <2>4 DEF CloseTake
<1>16. ASSUME CloseShut
      PROVE  TypeOK'
  <2>1. conn' \in [Conns -> Conn]
    <3>1. held[App] = 0 \/ held[App] \in Conns
      BY DEF Threads, App, Conns
    <3>2. QED
      BY <1>16, <3>1, ConnTable DEF CloseShut, CloseConn
  <2>2. QED
    BY <1>16, <2>1 DEF CloseShut, Goto, CloseConn, threadVars, clientVars, Threads, Readers, Conns, App, Pcs
<1>17. ASSUME CloseFlush
      PROVE  TypeOK'
  BY <1>17 DEF CloseFlush, Goto, threadVars, clientVars, Threads, Readers, Conns, App, Pcs
<1>18. ASSUME NEW x \in Topics, SubscribeDevice(x)
      PROVE  TypeOK'
  BY <1>18 DEF SubscribeDevice, Goto, threadVars, clientVars, Threads, Readers, Conns, App, Pcs
<1>19. ASSUME NEW t \in Probers, IsRealConnect(t)
      PROVE  TypeOK'
  BY <1>19 DEF IsRealConnect, Goto, threadVars, clientVars, Threads, Readers, Conns, App, Pcs
<1>20. ASSUME NEW r \in Readers, Loop(r)
      PROVE  TypeOK'
  <2>1. r \in Threads
    BY DEF Threads
  <2>2. pc' \in [Threads -> Pcs] /\ held' \in [Threads -> 0..MaxDials]
    BY <1>20, <2>1 DEF Loop, Goto, Pcs
  <2>3. pc'[r] = "recv" => held'[r] \in Conns
    BY <1>20, <2>1 DEF Loop, Goto, Conns
  <2>4. \A s \in Threads \ {r} : pc'[s] = pc[s] /\ held'[s] = held[s]
    BY <1>20, <2>1 DEF Loop, Goto
  <2>5. \A s \in Threads : pc'[s] = "recv" => held'[s] \in Conns
    BY <2>3, <2>4
  <2>6. QED
    BY <1>20, <2>2, <2>5 DEF Loop, clientVars
<1>21. ASSUME NEW r \in Readers, Recv(r)
      PROVE  TypeOK'
  <2>1. conn' \in [Conns -> Conn]
    <3>1. held[r] \in Conns /\ conn[held[r]] \in Conn
      BY <1>21 DEF Recv, Threads
    <3>2. PICK a \in conn[held[r]].acks : conn' = [conn EXCEPT ![held[r]].acks = @ \ {a}]
      BY <1>21 DEF Recv
    <3>3. [conn[held[r]] EXCEPT !.acks = @ \ {a}] \in Conn
      BY <3>1 DEF Conn
    <3>4. QED
      BY <3>1, <3>2, <3>3
  <2>2. QED
    BY <1>21, <2>1 DEF Recv, Goto, threadVars, clientVars, Threads, Readers, Conns, App, Pcs
<1>22. ASSUME NEW r \in Readers, Resolve(r)
      PROVE  TypeOK'
  BY <1>22 DEF Resolve, Goto, threadVars, clientVars, Threads, Readers, Conns, App, Pcs
<1>23. ASSUME NEW r \in Readers, RecvFails(r)
      PROVE  TypeOK'
  BY <1>23 DEF RecvFails, Goto, threadVars, clientVars, Threads, Readers, Conns, App, Pcs
<1>24. ASSUME NEW r \in Readers, LinkLost(r)
      PROVE  TypeOK'
  BY <1>24 DEF LinkLost, Goto, threadVars, clientVars, Threads, Readers, Conns, App, Pcs
<1>25. ASSUME NEW r \in Readers, LinkDown(r)
      PROVE  TypeOK'
  BY <1>25 DEF LinkDown, Goto, threadVars, clientVars, Threads, Readers, Conns, App, Pcs
<1>31. ASSUME NEW r \in Readers, AskClosing(r)
      PROVE  TypeOK'
  BY <1>31 DEF AskClosing, Goto, threadVars, clientVars, Threads, Readers, Conns, App, Pcs
<1>26. ASSUME NEW r \in Readers, FailPending(r)
      PROVE  TypeOK'
  BY <1>26 DEF FailPending, Goto, threadVars, clientVars, Threads, Readers, Conns, App, Pcs
<1>27. ASSUME NEW r \in Readers, DropSock(r)
      PROVE  TypeOK'
  <2>1. conn' \in [Conns -> Conn]
    <3>1. sock = 0 \/ sock \in Conns
      BY DEF Conns
    <3>2. QED
      BY <1>27, <3>1, ConnTable DEF DropSock, CloseConn
  <2>2. QED
    BY <1>27, <2>1 DEF DropSock, Goto, CloseConn, threadVars, clientVars, Threads, Readers, Conns, App, Pcs
<1>28. ASSUME NEW c \in Conns, BrokerGone(c)
      PROVE  TypeOK'
  <2>1. conn' \in [Conns -> Conn]
    BY <1>28, ConnTable DEF BrokerGone
  <2>2. QED
    BY <1>28, <2>1 DEF BrokerGone, threadVars, clientVars, Threads, Readers, Conns, App, Pcs
<1>29. ASSUME AttemptAges
      PROVE  TypeOK'
  BY <1>29 DEF AttemptAges, threadVars, clientVars, Threads, Readers, Conns, App, Pcs
<1>30. CASE UNCHANGED vars
  BY <1>30 DEF vars, threadVars, clientVars
<1> QED
  BY <1>1, <1>2, <1>3, <1>4, <1>5, <1>6, <1>7, <1>8, <1>9, <1>10, <1>11, <1>12, <1>13, <1>14, <1>15, <1>16, <1>17, <1>18, <1>19, <1>20, <1>21, <1>22, <1>23, <1>24, <1>25, <1>26, <1>27, <1>28, <1>29, <1>30, <1>31
     DEF Next, ThreadStep, ConnectStep, SubscribeStep, AppStep, ReaderStep

\* Every action keeps the readers' order and a watcher for a connected client.
LEMMA WatchedStep ==
  ASSUME IInv, [Next]_vars
  PROVE  ReadersInOrder' /\ ConnectedIsWatched'
<1> USE DialAssumption DEF IInv
<1>0. /\ pc \in [Threads -> Pcs] /\ started \in 0..MaxDials /\ connected \in BOOLEAN
      /\ Readers \subseteq Threads /\ App \in Threads /\ Probers \subseteq Threads
      /\ Readers \subseteq Nat /\ App \notin Readers /\ Probers \cap Readers = {}
  BY ThreadAssumption DEF TypeOK, Threads, Readers, App
<1>1. ASSUME NEW t \in Threads, Enter(t)
      PROVE  ReadersInOrder' /\ ConnectedIsWatched'
  BY <1>0, <1>1 DEF Enter, Goto, AfterConnect, ReadersInOrder, ConnectedIsWatched, Announcing, Watching, clientVars, threadVars
<1>2. ASSUME NEW t \in Threads, Dial(t)
      PROVE  ReadersInOrder' /\ ConnectedIsWatched'
  BY <1>0, <1>2 DEF Dial, Goto, ReadersInOrder, ConnectedIsWatched, Announcing, Watching, clientVars, threadVars
<1>3. ASSUME NEW t \in Threads, ConnectFails(t)
      PROVE  ReadersInOrder' /\ ConnectedIsWatched'
  BY <1>0, <1>3 DEF ConnectFails, Goto, AfterConnect, ReadersInOrder, ConnectedIsWatched, Announcing, Watching, clientVars, threadVars
<1>4. ASSUME NEW t \in Threads, Hello(t)
      PROVE  ReadersInOrder' /\ ConnectedIsWatched'
  BY <1>0, <1>4 DEF Hello, Goto, Sendable, ReadersInOrder, ConnectedIsWatched, Announcing, Watching, clientVars, threadVars
<1>5. ASSUME NEW t \in Threads, Connack(t)
      PROVE  ReadersInOrder' /\ ConnectedIsWatched'
  BY <1>0, <1>5 DEF Connack, Goto, Sendable, ReadersInOrder, ConnectedIsWatched, Announcing, Watching, clientVars, threadVars
<1>6. ASSUME NEW t \in Threads, Resubscribe(t)
      PROVE  ReadersInOrder' /\ ConnectedIsWatched'
  BY <1>0, <1>6 DEF Resubscribe, Goto, ReadersInOrder, ConnectedIsWatched, Announcing, Watching, clientVars, threadVars
<1>7. ASSUME NEW t \in Threads, StartReader(t)
      PROVE  ReadersInOrder' /\ ConnectedIsWatched'
  BY <1>0, <1>7 DEF StartReader, ReadersInOrder, ConnectedIsWatched, Announcing, Watching, clientVars, threadVars, Readers
<1>8. ASSUME NEW t \in Threads, Mark(t)
      PROVE  ReadersInOrder' /\ ConnectedIsWatched'
  BY <1>0, <1>8 DEF Mark, Goto, AfterSubscribe, ReadersInOrder, ConnectedIsWatched, Announcing, Watching, clientVars, threadVars
<1>9. ASSUME NEW t \in Threads, CheckConnected(t)
      PROVE  ReadersInOrder' /\ ConnectedIsWatched'
  BY <1>0, <1>9 DEF CheckConnected, Goto, AfterSubscribe, ReadersInOrder, ConnectedIsWatched, Announcing, Watching, clientVars, threadVars
<1>10. ASSUME NEW t \in Threads, Store(t)
      PROVE  ReadersInOrder' /\ ConnectedIsWatched'
  BY <1>0, <1>10 DEF Store, Goto, ReadersInOrder, ConnectedIsWatched, Announcing, Watching, clientVars, threadVars
<1>11. ASSUME NEW t \in Threads, Send(t)
      PROVE  ReadersInOrder' /\ ConnectedIsWatched'
  BY <1>0, <1>11 DEF Send, Goto, AfterSubscribe, Sendable, ReadersInOrder, ConnectedIsWatched, Announcing, Watching, clientVars, threadVars
<1>12. ASSUME Open
      PROVE  ReadersInOrder' /\ ConnectedIsWatched'
  BY <1>0, <1>12 DEF Open, Goto, ReadersInOrder, ConnectedIsWatched, Announcing, Watching, clientVars, threadVars
<1>13. ASSUME Close
      PROVE  ReadersInOrder' /\ ConnectedIsWatched'
  BY <1>0, <1>13 DEF Close, Goto, ReadersInOrder, ConnectedIsWatched, Announcing, Watching, clientVars, threadVars
<1>14. ASSUME First
      PROVE  ReadersInOrder' /\ ConnectedIsWatched'
  BY <1>0, <1>14 DEF First, Goto, ReadersInOrder, ConnectedIsWatched, Announcing, Watching, clientVars, threadVars
<1>15. ASSUME CloseTake
      PROVE  ReadersInOrder' /\ ConnectedIsWatched'
  BY <1>0, <1>15 DEF CloseTake, Goto, ReadersInOrder, ConnectedIsWatched, Announcing, Watching, clientVars, threadVars
<1>16. ASSUME CloseShut
      PROVE  ReadersInOrder' /\ ConnectedIsWatched'
  BY <1>0, <1>16 DEF CloseShut, Goto, CloseConn, ReadersInOrder, ConnectedIsWatched, Announcing, Watching, clientVars, threadVars
<1>17. ASSUME CloseFlush
      PROVE  ReadersInOrder' /\ ConnectedIsWatched'
  BY <1>0, <1>17 DEF CloseFlush, Goto, ReadersInOrder, ConnectedIsWatched, Announcing, Watching, clientVars, threadVars
<1>18. ASSUME NEW x \in Topics, SubscribeDevice(x)
      PROVE  ReadersInOrder' /\ ConnectedIsWatched'
  BY <1>0, <1>18 DEF SubscribeDevice, Goto, ReadersInOrder, ConnectedIsWatched, Announcing, Watching, clientVars, threadVars
<1>19. ASSUME NEW t \in Probers, IsRealConnect(t)
      PROVE  ReadersInOrder' /\ ConnectedIsWatched'
  BY <1>0, <1>19 DEF IsRealConnect, Goto, ReadersInOrder, ConnectedIsWatched, Announcing, Watching, clientVars, threadVars
<1>20. ASSUME NEW r \in Readers, Loop(r)
      PROVE  ReadersInOrder' /\ ConnectedIsWatched'
  BY <1>0, <1>20 DEF Loop, Goto, ReadersInOrder, ConnectedIsWatched, Announcing, Watching, clientVars, threadVars
<1>21. ASSUME NEW r \in Readers, Recv(r)
      PROVE  ReadersInOrder' /\ ConnectedIsWatched'
  BY <1>0, <1>21 DEF Recv, Goto, ReadersInOrder, ConnectedIsWatched, Announcing, Watching, clientVars, threadVars
<1>22. ASSUME NEW r \in Readers, Resolve(r)
      PROVE  ReadersInOrder' /\ ConnectedIsWatched'
  BY <1>0, <1>22 DEF Resolve, Goto, ReadersInOrder, ConnectedIsWatched, Announcing, Watching, clientVars, threadVars
<1>23. ASSUME NEW r \in Readers, RecvFails(r)
      PROVE  ReadersInOrder' /\ ConnectedIsWatched'
  BY <1>0, <1>23 DEF RecvFails, Goto, ReadersInOrder, ConnectedIsWatched, Announcing, Watching, clientVars, threadVars
<1>24. ASSUME NEW r \in Readers, LinkLost(r)
      PROVE  ReadersInOrder' /\ ConnectedIsWatched'
  BY <1>0, <1>24 DEF LinkLost, Goto, ReadersInOrder, ConnectedIsWatched, Announcing, Watching, clientVars, threadVars
<1>25. ASSUME NEW r \in Readers, LinkDown(r)
      PROVE  ReadersInOrder' /\ ConnectedIsWatched'
  BY <1>0, <1>25 DEF LinkDown, Goto, ReadersInOrder, ConnectedIsWatched, Announcing, Watching, clientVars, threadVars
<1>31. ASSUME NEW r \in Readers, AskClosing(r)
      PROVE  ReadersInOrder' /\ ConnectedIsWatched'
  BY <1>0, <1>31 DEF AskClosing, Goto, ReadersInOrder, ConnectedIsWatched, Announcing, Watching, clientVars, threadVars
<1>26. ASSUME NEW r \in Readers, FailPending(r)
      PROVE  ReadersInOrder' /\ ConnectedIsWatched'
  BY <1>0, <1>26 DEF FailPending, Goto, ReadersInOrder, ConnectedIsWatched, Announcing, Watching, clientVars, threadVars
<1>27. ASSUME NEW r \in Readers, DropSock(r)
      PROVE  ReadersInOrder' /\ ConnectedIsWatched'
  BY <1>0, <1>27 DEF DropSock, Goto, CloseConn, ReadersInOrder, ConnectedIsWatched, Announcing, Watching, clientVars, threadVars
<1>28. ASSUME NEW c \in Conns, BrokerGone(c)
      PROVE  ReadersInOrder' /\ ConnectedIsWatched'
  BY <1>0, <1>28 DEF BrokerGone, ReadersInOrder, ConnectedIsWatched, Announcing, Watching, clientVars, threadVars
<1>29. ASSUME AttemptAges
      PROVE  ReadersInOrder' /\ ConnectedIsWatched'
  BY <1>0, <1>29 DEF AttemptAges, ReadersInOrder, ConnectedIsWatched, Announcing, Watching, clientVars, threadVars
<1>30. CASE UNCHANGED vars
  BY <1>30 DEF vars, threadVars, clientVars, ReadersInOrder, ConnectedIsWatched, Announcing, Watching
<1> QED
  BY <1>1, <1>2, <1>3, <1>4, <1>5, <1>6, <1>7, <1>8, <1>9, <1>10, <1>11, <1>12, <1>13, <1>14, <1>15, <1>16, <1>17, <1>18, <1>19, <1>20, <1>21, <1>22, <1>23, <1>24, <1>25, <1>26, <1>27, <1>28, <1>29, <1>30, <1>31
     DEF Next, ThreadStep, ConnectStep, SubscribeStep, AppStep, ReaderStep

\* The inductive invariant: initially nobody is connected and no reader has started.
THEOREM Invariance == Spec => []IInv
<1>1. Init => IInv
  <2> SUFFICES ASSUME Init PROVE IInv
    OBVIOUS
  <2> USE DialAssumption, MaxPidNat DEF Init
  <2>1. conn \in [Conns -> Conn]
    BY DEF Conn, Unused
  <2>2. pc \in [Threads -> Pcs] /\ \A t \in Threads : pc[t] # "recv"
    BY DEF Pcs
  <2>3. TypeOK
    <3>1. wanted \in [Threads -> SUBSET Topics] /\ state \in [Topics -> {"none", "pending", "live"}]
      OBVIOUS
    <3>2. pid \in [Threads -> 0..MaxPid] /\ held \in [Threads -> 0..MaxDials]
      OBVIOUS
    <3>3. sock \in 0..MaxDials /\ dials \in 0..MaxDials /\ started \in 0..MaxDials /\ lastPid \in 0..MaxPid
      OBVIOUS
    <3>4. pending \subseteq (1..MaxPid) \X SUBSET Topics /\ desired \subseteq Topics
      OBVIOUS
    <3>5. /\ connected \in BOOLEAN /\ closing \in BOOLEAN /\ recent \in BOOLEAN
          /\ app \in {"new", "open", "closed"}
      OBVIOUS
    <3> HIDE DEF Init
    <3>6. QED
      BY <2>1, <2>2, <3>1, <3>2, <3>3, <3>4, <3>5 DEF TypeOK
  <2>4. ReadersInOrder /\ ConnectedIsWatched
    BY DEF ReadersInOrder, ConnectedIsWatched, Threads
  <2>5. QED
    BY <2>3, <2>4 DEF IInv
<1>2. IInv /\ [Next]_vars => IInv'
  BY TypeStep, WatchedStep DEF IInv
<1>3. QED
  BY <1>1, <1>2, PTL DEF Spec

\* The types hold in every state of every behaviour, for any topics, threads and bounds.
THEOREM TypeCorrect == Spec => []TypeOK
  BY Invariance, PTL DEF IInv

\* Whatever connect(), close(), is_real_connect() and dying readers do to one another, a set
\* _connected never stays behind without a reader thread to clear it.
THEOREM AlwaysWatched == Spec => []ConnectedIsWatched
  BY Invariance, PTL DEF IInv

-----------------------------------------------------------------------------
(* The coordinator, for any addresses, any events and any number of        *)
(* fetches: what a refresh that the device answered shows is no older than *)
(* what it replaces, unless a push was merged while it was under way.      *)

\* A map of datapoints has no newer state of the device than the device.
NotNewer(dps) ==
    DOMAIN dps \subseteq Dps /\ \A d \in DOMAIN dps : dps[d] \in Nat /\ dps[d] <= dev[d]

\* The fields of a snapshot.
IsSnapshot(x) == x = [dps |-> x.dps, via |-> x.via, visits |-> x.visits]

\* The device was read, and the refresh has not published what it got.
Underway == rpc \in {"answer", "scan", "probe", "shadow", "pets"}

\* What the device answered is no older than what is shown, unless a push came since.
ReadIsNewer ==
    Underway /\ channel = "lan" =>
        /\ "live" \in DOMAIN rd.dps
        /\ since \/ ("live" \in DOMAIN data.dps => data.dps["live"] <= rd.dps["live"])

\* Whatever is shown, kept or under way is a state the device has been in.
SnapshotInv ==
    /\ dev \in [Dps -> Nat] /\ cloud \in [Dps -> Nat] /\ NotNewer(cloud)
    /\ NotNewer(shadow) /\ NotNewer(data.dps) /\ NotNewer(rd.dps) /\ NotNewer(lan)
    /\ IsSnapshot(data) /\ IsSnapshot(rd)
    /\ ReadIsNewer

\* One map laid over another.
LEMMA LaidOver ==
    ASSUME NEW f, NEW g, NotNewer(f), NotNewer(g)
    PROVE  /\ NotNewer(Over(f, g)) /\ DOMAIN Over(f, g) = DOMAIN f \cup DOMAIN g
           /\ \A d \in DOMAIN f : Over(f, g)[d] = f[d]
  BY DEF NotNewer, Over

\* A push laid over what is shown.
LEMMA PushedOver ==
    ASSUME NEW d \in Dps, NEW v \in Nat, v <= dev[d], NEW g, NotNewer(g)
    PROVE  /\ NotNewer(Over([x \in {d} |-> v], g))
           /\ "live" \in DOMAIN g => "live" \in DOMAIN Over([x \in {d} |-> v], g)
<1>1. NotNewer([x \in {d} |-> v])
  BY DEF NotNewer
<1> QED
  BY <1>1, LaidOver

\* The device only gets newer.
LEMMA StillNotNewer ==
    ASSUME dev \in [Dps -> Nat], dev' \in [Dps -> Nat], \A d \in Dps : dev[d] <= dev'[d],
           NEW g, NotNewer(g)
    PROVE  DOMAIN g \subseteq Dps /\ \A d \in DOMAIN g : g[d] \in Nat /\ g[d] <= dev'[d]
  BY DEF NotNewer

\* Steps of the device, of commands and of the transport: the snapshots stay as they are.
LEMMA SnapshotsStay ==
    ASSUME SnapshotInv, UNCHANGED <<cloud, shadow, data, rd, channel, since>>,
           dev' \in [Dps -> Nat], \A d \in Dps : dev[d] <= dev'[d],
           NotNewer(lan)', Underway' => Underway
    PROVE  SnapshotInv'
<1>1. NotNewer(cloud)' /\ NotNewer(shadow)' /\ NotNewer(data.dps)' /\ NotNewer(rd.dps)'
  BY StillNotNewer DEF SnapshotInv, NotNewer
<1> QED
  BY <1>1 DEF SnapshotInv, ReadIsNewer, IsSnapshot

\* The end of a refresh shows what was read.
LEMMA PublishKeeps ==
    ASSUME SnapshotInv, NEW new, Publish(new), IsSnapshot(new), NotNewer(new.dps),
           UNCHANGED <<dev, cloud, shadow, lan>>
    PROVE  SnapshotInv'
<1>1. NotNewer(NoData.dps) /\ IsSnapshot(NoData)
  BY DEF NoData, Nothing, NotNewer, IsSnapshot
<1>2. data' = new /\ rd' = NoData /\ ~Underway'
  BY DEF Publish, Underway
<1> QED
  BY <1>1, <1>2 DEF SnapshotInv, ReadIsNewer, IsSnapshot, NotNewer

\* What the device has now, laid over what the primary remembers.
LEMMA FrameOver ==
    ASSUME SnapshotInv, NEW K, K \subseteq Dps
    PROVE  /\ NotNewer(Over([d \in K |-> dev[d]], lan))
           /\ \A d \in K : /\ d \in DOMAIN Over([x \in K |-> dev[x]], lan)
                          /\ Over([x \in K |-> dev[x]], lan)[d] = dev[d]
<1>1. PICK f : f = [d \in K |-> dev[d]]
  OBVIOUS
<1>2. NotNewer(f) /\ DOMAIN f = K /\ \A d \in K : f[d] = dev[d]
  BY <1>1 DEF NotNewer, SnapshotInv
<1>3. NotNewer(lan)
  BY DEF SnapshotInv
<1> QED
  BY <1>1, <1>2, <1>3, LaidOver

\* What the device, the primary's memory or the cloud answered.
LEMMA ReadKeeps ==
    ASSUME SnapshotInv, RefreshLan \/ RefreshCloud
    PROVE  SnapshotInv'
<1>1. UNCHANGED <<dev, cloud, shadow, data>>
  BY DEF RefreshLan, RefreshCloud, Read, device
<1>2. CASE MergeDps({"live"}) /\ Read(lan', "lan")
  <2>1. PICK f : f = lan'
    OBVIOUS
  <2>2. NotNewer(f) /\ "live" \in DOMAIN f /\ f["live"] = dev["live"]
    BY <1>2, <2>1, FrameOver DEF MergeDps, Dps
  <2>3. rd' = [dps |-> f, via |-> "none", visits |-> 0]
    BY <1>2, <2>1 DEF Read, NoData
  <2>4. "live" \in DOMAIN data.dps => data.dps["live"] <= f["live"]
    BY <2>2 DEF SnapshotInv, NotNewer
  <2> QED
    BY <1>1, <2>1, <2>2, <2>3, <2>4 DEF SnapshotInv, ReadIsNewer, IsSnapshot, NotNewer
<1>3. CASE \E ch \in {"cached", "fallback", "skip"} :
              UNCHANGED lan /\ (Read(lan, ch) \/ Read(cloud, ch))
  <2>1. PICK f \in {lan, cloud}, ch \in {"cached", "fallback", "skip"} : Read(f, ch)
    BY <1>3
  <2>2. rd' = [dps |-> f, via |-> "none", visits |-> 0] /\ channel' # "lan" /\ lan' = lan
    BY <1>3, <2>1 DEF Read, NoData
  <2> QED
    BY <1>1, <2>2 DEF SnapshotInv, ReadIsNewer, IsSnapshot, NotNewer
<1> QED
  BY <1>2, <1>3 DEF RefreshLan, RefreshCloud

\* What lies under a snapshot leaves what it has alone.
LEMMA UnderSnapshot ==
    ASSUME NEW dps, NotNewer(dps), NEW s, NotNewer(s), NEW via, NEW n, NEW new,
           new = [dps |-> ApplyShadow(s, dps), via |-> via, visits |-> n]
    PROVE  /\ IsSnapshot(new) /\ NotNewer(new.dps) /\ new.via = via
           /\ \A d \in DOMAIN dps : d \in DOMAIN new.dps /\ new.dps[d] = dps[d]
<1>1. PICK laid : laid = Over(dps, s)
  OBVIOUS
<1>2. new = [dps |-> laid, via |-> via, visits |-> n]
  BY <1>1 DEF ApplyShadow
<1>3. new.dps = laid /\ new.via = via /\ new.visits = n
  BY <1>2
<1>4. /\ NotNewer(laid)
      /\ \A d \in DOMAIN dps : d \in DOMAIN laid /\ laid[d] = dps[d]
  BY <1>1, LaidOver
<1>5. IsSnapshot(new)
  BY <1>2, <1>3 DEF IsSnapshot
<1> QED
  BY <1>3, <1>4, <1>5

\* The answer with the shadow under it.
Answer == [dps |-> ApplyShadow(shadow, rd.dps), visits |-> data.visits,
           via |-> IF Served = "primary" THEN "lan" ELSE "cloud"]

LEMMA AnswerUnder ==
    ASSUME SnapshotInv
    PROVE  /\ IsSnapshot(Answer) /\ NotNewer(Answer.dps) /\ Answer.visits = data.visits
           /\ \A d \in DOMAIN rd.dps : d \in DOMAIN Answer.dps /\ Answer.dps[d] = rd.dps[d]
<1>1. PICK dps, s, via, n : /\ dps = rd.dps /\ s = shadow /\ n = data.visits
                            /\ via = IF Served = "primary" THEN "lan" ELSE "cloud"
  OBVIOUS
<1>2. NotNewer(dps) /\ NotNewer(s)
  BY <1>1 DEF SnapshotInv
<1>3. PICK new : new = Answer
  OBVIOUS
<1>4. new = [dps |-> ApplyShadow(s, dps), via |-> via, visits |-> n]
  BY <1>1, <1>3 DEF Answer
<1>5. /\ IsSnapshot(new) /\ NotNewer(new.dps)
      /\ \A d \in DOMAIN dps : d \in DOMAIN new.dps /\ new.dps[d] = dps[d]
  BY <1>2, <1>4, UnderSnapshot
<1> QED
  BY <1>1, <1>3, <1>4, <1>5

\* Answered goes on with this answer, or ends the refresh with it.
LEMMA AnsweredIs ==
    ASSUME Answered
    PROVE  /\ rpc = "answer" /\ UNCHANGED <<dev, cloud, shadow, lan>>
           /\ \/ due /\ rd' = Answer /\ UNCHANGED <<data, channel, since, fetch>>
              \/ ~due /\ Publish(Answer)
  BY DEF Answered, Answer, device

\* The answer gets the shadow under it; the refresh ends or goes on with the cloud tier.
LEMMA AnsweredKeeps == ASSUME SnapshotInv, Answered PROVE SnapshotInv'
<1>1. PICK new : new = Answer
  OBVIOUS
<1>2. /\ IsSnapshot(new) /\ NotNewer(new.dps)
      /\ \A d \in DOMAIN rd.dps : d \in DOMAIN new.dps /\ new.dps[d] = rd.dps[d]
  BY <1>1, AnswerUnder
<1>3. UNCHANGED <<dev, cloud, shadow, lan>> /\ rpc = "answer"
  BY AnsweredIs
<1>4. CASE rd' = new /\ UNCHANGED <<channel, since, data>>
  BY <1>2, <1>3, <1>4 DEF SnapshotInv, ReadIsNewer, IsSnapshot, NotNewer, Underway
<1>5. CASE Publish(new)
  BY <1>2, <1>3, <1>5, PublishKeeps
<1> QED
  BY <1>1, <1>4, <1>5, AnsweredIs

\* The cloud's datapoints are kept and laid under the snapshot.
LEMMA ShadowKeeps == ASSUME SnapshotInv, Shadow PROVE SnapshotInv'
<1>1. UNCHANGED <<dev, cloud, channel, since, data, lan>> /\ rpc = "shadow"
  BY DEF Shadow, device, transport
<1>2. CASE UNCHANGED <<shadow, rd>>
  <2>1. Underway' => Underway
    BY <1>1 DEF Underway
  <2>2. NotNewer(lan)'
    BY <1>1 DEF SnapshotInv, NotNewer
  <2> QED
    BY <1>1, <1>2, <2>1, <2>2, SnapshotsStay DEF SnapshotInv
<1>3. CASE KeepShadow /\ rd' = [rd EXCEPT !.dps = ApplyShadow(cloud, @)]
  <2>1. PICK old, dps, via, s, n, new : /\ old = rd /\ dps = old.dps /\ via = old.via
                                        /\ s = cloud /\ n = old.visits /\ new = rd'
    OBVIOUS
  <2>2. /\ NotNewer(dps) /\ NotNewer(s)
        /\ old = [dps |-> dps, via |-> via, visits |-> n]
    BY <2>1 DEF SnapshotInv, IsSnapshot
  <2>3. new = [old EXCEPT !.dps = ApplyShadow(s, dps)]
    BY <1>3, <2>1
  <2>4. new = [dps |-> ApplyShadow(s, dps), via |-> via, visits |-> n]
    BY <2>2, <2>3
  <2>5. /\ IsSnapshot(new) /\ NotNewer(new.dps) /\ new.via = via
        /\ \A d \in DOMAIN dps : d \in DOMAIN new.dps /\ new.dps[d] = dps[d]
    BY <2>2, <2>4, UnderSnapshot
  <2>6. /\ IsSnapshot(rd') /\ NotNewer(rd'.dps) /\ rd'.via = rd.via
        /\ \A d \in DOMAIN rd.dps : d \in DOMAIN rd'.dps /\ rd'.dps[d] = rd.dps[d]
    BY <2>1, <2>5
  <2>7. shadow' = cloud
    BY <1>3 DEF KeepShadow
  <2> QED
    BY <1>1, <2>1, <2>6, <2>7 DEF SnapshotInv, ReadIsNewer, IsSnapshot, NotNewer, Underway
<1> QED
  BY <1>2, <1>3 DEF Shadow

\* The visits are the last of what a refresh gets.
LEMMA PetsKeep == ASSUME SnapshotInv, RefreshPets PROVE SnapshotInv'
<1>1. UNCHANGED <<dev, cloud, shadow, lan>>
  BY DEF RefreshPets, device, transport
<1>2. PICK new : /\ Publish(new)
                 /\ new = rd \/ new = [rd EXCEPT !.visits = record]
  BY DEF RefreshPets
<1>3. IsSnapshot(new) /\ NotNewer(new.dps)
  BY <1>2 DEF SnapshotInv, IsSnapshot
<1> QED
  BY <1>1, <1>2, <1>3, PublishKeeps

\* A report reaches the cloud, and its push what is shown.
LEMMA ReportKeeps == ASSUME SnapshotInv, NEW d \in Dps, Report(d) PROVE SnapshotInv'
<1>1. /\ cloud' = [cloud EXCEPT ![d] = @ + 1] /\ cloud[d] < dev[d]
      /\ UNCHANGED <<dev, shadow, rd, rpc, channel, lan>>
  BY DEF Report, transport
<1>2. /\ cloud' \in [Dps -> Nat] /\ NotNewer(cloud)'
      /\ cloud'[d] \in Nat /\ cloud'[d] <= dev[d]
  BY <1>1 DEF SnapshotInv, NotNewer
<1>3. CASE PushDps(d, cloud'[d])
  <2>1. Underway' => since'
    BY <1>1, <1>3 DEF PushDps, Underway
  <2>2. NotNewer(data'.dps) /\ IsSnapshot(data')
    <3>1. PICK old, v : old = data /\ v = cloud'[d]
      OBVIOUS
    <3>2. NotNewer(old.dps) /\ old = [dps |-> old.dps, via |-> old.via, visits |-> old.visits]
      BY <3>1 DEF SnapshotInv, IsSnapshot
    <3>3. PICK g, f : g = old.dps /\ f = Over([x \in {d} |-> v], g)
      OBVIOUS
    <3>4. NotNewer(f)
      BY <1>2, <3>1, <3>2, <3>3, PushedOver
    <3>5. data' = old \/ data' = [old EXCEPT !.dps = f]
      BY <1>3, <3>1, <3>3 DEF PushDps
    <3> QED
      BY <3>2, <3>4, <3>5 DEF IsSnapshot
  <2> QED
    BY <1>1, <1>2, <2>1, <2>2 DEF SnapshotInv, ReadIsNewer, IsSnapshot, NotNewer, Underway
<1>4. CASE UNCHANGED <<data, since>>
  BY <1>1, <1>2, <1>4 DEF SnapshotInv, ReadIsNewer, IsSnapshot, NotNewer, Underway
<1> QED
  BY <1>3, <1>4 DEF Report

\* What a fetch of pet records and the clock change are not datapoints.
LEMMA FetchKeeps ==
    ASSUME SnapshotInv, NEW f \in Fetches, FetchEnds(f)
    PROVE  SnapshotInv'
<1>1. UNCHANGED <<dev, cloud, shadow, rd, channel, since, rpc, lan>>
  BY DEF FetchEnds, device, transport
<1>2. data' = data \/ data' = [data EXCEPT !.visits = record]
  BY DEF FetchEnds, FetchedInto
<1>3. IsSnapshot(data') /\ data'.dps = data.dps
  BY <1>2 DEF SnapshotInv, IsSnapshot
<1> QED
  BY <1>1, <1>3 DEF SnapshotInv, ReadIsNewer, NotNewer, IsSnapshot, Underway

\* What the primary remembers in a step of another part, or of a command.
LEMMA RemembersOlder ==
    ASSUME SnapshotInv, dev' \in [Dps -> Nat], \A d \in Dps : dev[d] <= dev'[d],
           \/ UNCHANGED lan
           \/ lan' = Nothing
           \/ \E d \in Dps : MergeDps({d})
           \/ Change("setting") /\ lan' = Over([d \in {"setting"} |-> dev[d] + 1], lan)
    PROVE  NotNewer(lan)'
<1>1. NotNewer(lan)
  BY DEF SnapshotInv
<1>2. CASE UNCHANGED lan
  BY <1>1, <1>2, StillNotNewer DEF SnapshotInv, NotNewer
<1>3. CASE lan' = Nothing
  BY <1>3 DEF Nothing, NotNewer
<1>4. CASE \E d \in Dps : MergeDps({d})
  <2>1. PICK d, f : d \in Dps /\ f = Over([x \in {d} |-> dev[x]], lan) /\ lan' = f
    BY <1>4 DEF MergeDps
  <2>2. NotNewer(f)
    BY <2>1, FrameOver
  <2>3. DOMAIN f \subseteq Dps /\ \A x \in DOMAIN f : f[x] \in Nat /\ f[x] <= dev'[x]
    BY <2>2, StillNotNewer DEF SnapshotInv
  <2> QED
    BY <2>1, <2>3 DEF NotNewer
<1>5. CASE Change("setting") /\ lan' = Over([d \in {"setting"} |-> dev[d] + 1], lan)
  <2>1. PICK f, g : /\ f = [d \in {"setting"} |-> dev[d] + 1] /\ g = Over(f, lan) /\ lan' = g
    BY <1>5
  <2>2. DOMAIN f = {"setting"} /\ f["setting"] = dev'["setting"] /\ dev'["setting"] \in Nat
    BY <1>5, <2>1 DEF Change, SnapshotInv, Dps
  <2>3. DOMAIN lan \subseteq Dps /\ \A x \in DOMAIN lan : lan[x] \in Nat /\ lan[x] <= dev'[x]
    BY <1>1, StillNotNewer DEF SnapshotInv
  <2>4. DOMAIN g \subseteq Dps /\ \A x \in DOMAIN g : g[x] \in Nat /\ g[x] <= dev'[x]
    BY <2>1, <2>2, <2>3 DEF Over, Dps
  <2> QED
    BY <2>1, <2>4 DEF NotNewer
<1> QED
  BY <1>2, <1>3, <1>4, <1>5

\* Every other step leaves the snapshots as they are.
LEMMA OthersKeep ==
    ASSUME SnapshotInv,
           \/ Poll \/ RefreshLanFails \/ RefreshFails \/ Scan \/ Probe \/ CloudDue
           \/ CommandBegin \/ CommandStep \/ BackoffEnds \/ DeviceChanges \/ DeviceMoves
           \/ CatLeft \/ RecordLands \/ (\E f \in Fetches : FetchBegins(f) \/ FetchFails(f))
           \/ (\E d \in Dps : LanFrame(d)) \/ UNCHANGED coordinatorVars
    PROVE  SnapshotInv'
<1>1. UNCHANGED <<cloud, shadow, data, rd, channel, since>>
  BY DEF Poll, RefreshLanFails, RefreshFails, Scan, Probe, CloudDue, CommandBegin, CommandStep,
         Command, CommandFails, BackoffEnds, DeviceChanges, DeviceMoves, CatLeft, RecordLands,
         FetchBegins, FetchFails, LanFrame, coordinatorVars, device, refresh
<1>2. Underway' => Underway
  BY DEF Poll, RefreshLanFails, RefreshFails, Scan, Probe, CloudDue, CommandBegin, CommandStep,
         Command, CommandFails, BackoffEnds, DeviceChanges, DeviceMoves, CatLeft, RecordLands,
         FetchBegins, FetchFails, LanFrame, coordinatorVars, refresh, Underway, Channel
<1>3. dev' = dev \/ \E d \in Dps : Change(d)
  BY DEF Poll, RefreshLanFails, RefreshFails, Scan, Probe, CloudDue, CommandBegin, CommandStep,
         Command, CommandFails, BackoffEnds, DeviceChanges, DeviceMoves, CatLeft,
         RecordLands, FetchBegins, FetchFails, LanFrame, coordinatorVars, device, Dps
<1>4. dev' \in [Dps -> Nat] /\ \A d \in Dps : dev[d] <= dev'[d]
  BY <1>3 DEF Change, SnapshotInv
<1>5. \/ UNCHANGED lan
      \/ lan' = Nothing
      \/ \E d \in Dps : MergeDps({d})
      \/ Change("setting") /\ lan' = Over([d \in {"setting"} |-> dev[d] + 1], lan)
  BY DEF Poll, RefreshLanFails, RefreshFails, MarkPrimaryDead, Scan, Probe, Swap, CloudDue,
         CommandBegin, CommandStep, Command, CommandFails, BackoffEnds, DeviceChanges, DeviceMoves,
         CatLeft, RecordLands, FetchBegins, FetchFails, LanFrame, coordinatorVars, transport
<1>6. NotNewer(lan)'
  BY <1>4, <1>5, RemembersOlder
<1> QED
  BY <1>1, <1>2, <1>4, <1>6, SnapshotsStay

\* Every step keeps the snapshots.
LEMMA SnapshotStep ==
    ASSUME SnapshotInv, [CoordinatorNext]_coordinatorVars
    PROVE  SnapshotInv'
  BY ReadKeeps, AnsweredKeeps, ShadowKeeps, PetsKeep, ReportKeeps, FetchKeeps, OthersKeep
     DEF CoordinatorNext, RefreshStep, FetchStep

\* What ends a refresh that the device answered with an older state was overtaken by a push.
LEMMA BackIsOverlapped ==
    ASSUME SnapshotInv, [CoordinatorNext]_coordinatorVars,
           "live" \in DOMAIN data.dps, data'.dps["live"] < data.dps["live"],
           channel = "lan", rpc # "idle", rpc' = "idle"
    PROVE  since
<1>1. data' # data
  BY DEF SnapshotInv, NotNewer
<1>2. Answered \/ RefreshPets
  BY <1>1 DEF CoordinatorNext, RefreshStep, Poll, RefreshLan, RefreshCloud, Read, RefreshLanFails,
     RefreshFails, Scan, Probe, Shadow, CloudDue, CommandBegin, CommandStep, Command, CommandFails,
     BackoffEnds, DeviceChanges, DeviceMoves, CatLeft, RecordLands, FetchStep, FetchBegins,
     FetchEnds, FetchFails, Report, LanFrame, coordinatorVars, refresh
<1>3. PICK dps : dps = rd.dps
  OBVIOUS
<1>4. Underway /\ ("live" \in DOMAIN dps => data'.dps["live"] = dps["live"])
  <2>1. CASE Answered
    <3>1. rpc = "answer" /\ data' = Answer
      BY <1>1, <2>1, AnsweredIs DEF Publish
    <3> QED
      BY <1>3, <3>1, AnswerUnder DEF Underway
  <2>2. CASE RefreshPets
    <3>1. data' = rd \/ data' = [rd EXCEPT !.visits = record]
      BY <2>2 DEF RefreshPets, Publish
    <3>2. rpc = "pets"
      BY <2>2 DEF RefreshPets
    <3> QED
      BY <1>3, <3>1, <3>2 DEF SnapshotInv, IsSnapshot, Underway
  <2> QED
    BY <1>2, <2>1, <2>2
<1>5. "live" \in DOMAIN dps /\ (since \/ data.dps["live"] <= dps["live"])
  BY <1>3, <1>4 DEF SnapshotInv, ReadIsNewer
<1> QED
  BY <1>3, <1>4, <1>5 DEF SnapshotInv, NotNewer

\* A poll that the device itself answered shows an older state of it than before only if a
\* push was merged since the read: neither the datapoints the LAN transport remembers, nor
\* the shadow laid under them, the cloud tier or a record fetch makes it older
\* (coordinator.py, _async_update_data, _apply_shadow, push_dps; local.py, read_dps).
THEOREM OnlyPushesAreUndone == CoordinatorSpec => OnlyOverlapsGoBack
<1>1. CoordinatorInit => SnapshotInv
  BY DEF CoordinatorInit, SnapshotInv, NotNewer, IsSnapshot, ReadIsNewer, NoData, Nothing, Zero, Underway
<1>2. SnapshotInv /\ [CoordinatorNext]_coordinatorVars => SnapshotInv'
  BY SnapshotStep
<1>3. SnapshotInv /\ [CoordinatorNext]_coordinatorVars
        => [(/\ rpc # "idle" /\ rpc' = "idle" /\ channel = "lan"
             /\ "live" \in DOMAIN data.dps /\ data'.dps["live"] < data.dps["live"])
              => since]_coordinatorVars
  BY BackIsOverlapped
<1> QED
  BY <1>1, <1>2, <1>3, PTL DEF CoordinatorSpec, OnlyOverlapsGoBack

-----------------------------------------------------------------------------
(* The coordinator's types, and how many fetches of pet records a visit    *)
(* can lead to.                                                            *)

\* The positions of the refresh and the command, the addresses and the bounds.
PlaceTypes ==
    /\ budget \in [Events -> Nat]
    /\ host \in Hosts /\ primary \in Hosts \cup {None}
    /\ stranger \in (Hosts \ {host}) \cup {None}
    /\ backoff \in BOOLEAN /\ active \in {"none", "primary", "fallback"}
    /\ rpc \in {"idle", "lan", "fallback", "skip", "answer", "scan", "probe", "shadow", "pets"}
    /\ channel \in ReadChannels \cup {None}
    /\ cpc \in {"idle", "lan", "left", "fallback", "skip"}
    /\ rpc = "probe" => rhost \in Hosts

\* Events that happen leave a natural number of them.
LEMMA Spent ==
    ASSUME PlaceTypes, NEW K, Spend(K) \/ UNCHANGED budget
    PROVE  budget' \in [Events -> Nat]
  BY DEF Spend, PlaceTypes

LEMMA PlaceInit == ASSUME CoordinatorInit PROVE PlaceTypes
<1>1. PICK h \in Hosts : host = h /\ primary \in {h, None}
  BY DEF CoordinatorInit, FirstHost
<1>2. /\ budget \in Budgets /\ stranger = None /\ backoff = FALSE
      /\ active = "none" /\ channel = None /\ rpc = "idle" /\ cpc = "idle"
  BY DEF CoordinatorInit
<1> QED
  BY <1>1, <1>2, CoordinatorAssumption DEF PlaceTypes

\* What happens to the events, and to the addresses and the positions, in a step.
LEMMA PlaceStep == ASSUME PlaceTypes, [CoordinatorNext]_coordinatorVars PROVE PlaceTypes'
<1>1. budget' \in [Events -> Nat]
  <2>1. UNCHANGED budget \/ \E K \in SUBSET Events : Spend(K)
    BY DEF CoordinatorNext, RefreshStep, CommandStep, FetchStep, Poll, RefreshLan, RefreshCloud,
       Read, RefreshLanFails, RefreshFails, Answered, Scan, Probe, Shadow, RefreshPets, CloudDue,
       CommandBegin, Command, CommandFails, BackoffEnds, DeviceChanges, DeviceMoves, Report,
       CatLeft, RecordLands, FetchBegins, FetchEnds, FetchFails, LanFrame, Fault,
       coordinatorVars, Events
  <2> QED
    BY <2>1, Spent
<1>2. CASE Poll \/ RefreshLan \/ RefreshCloud \/ RefreshLanFails \/ RefreshFails
  <2>1. UNCHANGED <<host, stranger, cpc, primary>>
    BY <1>2 DEF Poll, RefreshLan, RefreshCloud, Read, RefreshLanFails, RefreshFails,
       MarkPrimaryDead, device, command, transport
  <2>2. backoff' \in BOOLEAN
    BY <1>2 DEF PlaceTypes, Poll, RefreshLan, RefreshCloud, Read, RefreshLanFails, RefreshFails,
       MarkPrimaryDead, transport
  <2>3. active' \in {active, "fallback"}
    BY <1>2 DEF Poll, Chosen, RefreshLan, RefreshCloud, Read, RefreshLanFails, RefreshFails,
       MarkPrimaryDead, transport
  <2>4. rpc' \in {"lan", "skip", "answer", "fallback", "idle"}
    BY <1>2 DEF Poll, Channel, RefreshLan, RefreshCloud, Read, RefreshLanFails, RefreshFails
  <2>5. channel' \in ReadChannels \cup {None}
    BY <1>2 DEF PlaceTypes, ReadChannels, Poll, RefreshLan, RefreshCloud, Read, RefreshLanFails,
       RefreshFails
  <2> QED
    BY <1>1, <2>1, <2>2, <2>3, <2>4, <2>5 DEF PlaceTypes
<1>3. CASE Answered \/ Shadow \/ RefreshPets
  <2>1. UNCHANGED <<host, stranger, cpc, primary, backoff>>
    BY <1>3 DEF Answered, Shadow, RefreshPets, device, command, transport
  <2>2. active' \in {active, "fallback", "primary"}
    BY <1>3 DEF Answered, Served, Shadow, RefreshPets, transport
  <2>3. rpc' \in {"idle", "scan", "shadow", "pets"} /\ channel' \in {channel, None}
    BY <1>3 DEF Answered, Publish, Shadow, RefreshPets
  <2> QED
    BY <1>1, <2>1, <2>2, <2>3 DEF PlaceTypes
<1>4. CASE Scan
  BY <1>1, <1>4 DEF PlaceTypes, Scan, device, command, transport
<1>5. CASE Probe
  <2>1. UNCHANGED <<host, stranger, active, channel>> /\ rpc' = "shadow"
    BY <1>5 DEF Probe, device
  <2>2. primary' \in Hosts \cup {None}
    BY <1>5 DEF PlaceTypes, Probe, Swap
  <2>3. backoff' \in BOOLEAN
    BY <1>5 DEF PlaceTypes, Probe, Swap
  <2>4. cpc' \in {cpc, "left"}
    BY <1>5 DEF Probe, Swap
  <2> QED
    BY <1>1, <2>1, <2>2, <2>3, <2>4 DEF PlaceTypes
<1>6. CASE CommandBegin \/ CommandStep \/ BackoffEnds
  <2>1. UNCHANGED <<host, stranger, primary, rpc, rhost, channel>>
    BY <1>6 DEF CommandBegin, CommandStep, Command, CommandFails, BackoffEnds, MarkPrimaryDead,
       device, refresh, transport
  <2>2. backoff' \in BOOLEAN
    BY <1>6 DEF PlaceTypes, CommandBegin, CommandStep, Command, CommandFails, BackoffEnds,
       MarkPrimaryDead, transport
  <2>3. active' \in {active, "fallback", "primary"}
    BY <1>6 DEF CommandBegin, Chosen, CommandStep, Command, CommandFails, BackoffEnds,
       MarkPrimaryDead, transport
  <2>4. cpc' \in {cpc, "idle", "lan", "skip", "fallback"}
    BY <1>6 DEF CommandBegin, Channel, CommandStep, Command, CommandFails, BackoffEnds, command
  <2> QED
    BY <1>1, <2>1, <2>2, <2>3, <2>4 DEF PlaceTypes
<1>7. CASE DeviceMoves
  BY <1>1, <1>7 DEF PlaceTypes, DeviceMoves, transport, refresh, command
<1>8. CASE \/ CloudDue \/ DeviceChanges \/ (\E d \in Dps : Report(d)) \/ CatLeft \/ RecordLands
           \/ (\E f \in Fetches : FetchStep(f)) \/ (\E d \in Dps : LanFrame(d))
           \/ UNCHANGED coordinatorVars
  <2>1. UNCHANGED <<host, stranger, primary, backoff, active, rpc, rhost, channel, cpc>>
    BY <1>8 DEF CloudDue, DeviceChanges, Report, CatLeft, RecordLands, FetchStep, FetchBegins,
       FetchEnds, FetchFails, LanFrame, coordinatorVars, device, transport, refresh, command
  <2> QED
    BY <1>1, <2>1 DEF PlaceTypes
<1> QED
  BY <1>2, <1>3, <1>4, <1>5, <1>6, <1>7, <1>8 DEF CoordinatorNext, RefreshStep

\* The fetches that wait for their answer, and the timers that will start one.
Running == {f \in Fetches : fetch[f].run}
Waiting == orphans + (IF timer THEN 1 ELSE 0)

\* What counts visits and fetches, and the visits that are shown.
VisitTypes ==
    /\ timer \in BOOLEAN /\ orphans \in Nat /\ attempt \in Nat
    /\ visits \in Nat /\ record \in Nat /\ record <= visits
    /\ fetch \in [Fetches -> [run : BOOLEAN, current : BOOLEAN, old : Nat]]
    /\ \A x \in {data, rd} : x.visits \in Nat /\ x.visits <= record

\* A visit starts one timer, a first attempt hands its turn on and a later one drops it: the
\* timers and the fetches are no more than the visits, and what is still waiting after the
\* second attempt can raise the count of attempts to one more than the visits.
FewFetches ==
    /\ Waiting + Cardinality(Running) <= visits
    /\ attempt >= 2 => attempt + Waiting <= visits + 1
    /\ orphans > 0 => orphans < visits

FetchInv == VisitTypes /\ FewFetches

\* How many fetches run.
LEMMA RunningCount == ASSUME VisitTypes PROVE IsFiniteSet(Running) /\ Cardinality(Running) \in Nat
<1>1. IsFiniteSet(Running)
  BY CoordinatorAssumption, FS_Subset DEF Running
<1> QED
  BY <1>1, FS_CardinalityType

\* A fetch that begins is one more, and one that ends one less.
LEMMA OneMore ==
    ASSUME VisitTypes, NEW f \in Fetches, ~fetch[f].run, NEW v, v.run,
           fetch' = [fetch EXCEPT ![f] = v]
    PROVE  Cardinality(Running') = Cardinality(Running) + 1
<1>1. Running' = Running \cup {f} /\ f \notin Running
  BY DEF VisitTypes, Running
<1> QED
  BY <1>1, RunningCount, FS_AddElement

LEMMA OneLess ==
    ASSUME VisitTypes, NEW f \in Fetches, fetch[f].run, fetch' = [fetch EXCEPT ![f] = NoFetch]
    PROVE  Cardinality(Running') = Cardinality(Running) - 1 /\ Cardinality(Running') \in Nat
<1>1. Running' = Running \ {f} /\ f \in Running
  BY DEF VisitTypes, Running, NoFetch
<1>2. IsFiniteSet(Running')
  BY <1>1, RunningCount, FS_RemoveElement
<1> QED
  BY <1>1, <1>2, RunningCount, FS_RemoveElement, FS_CardinalityType

\* The pending timer counts for one.
LEMMA TimerCounts ==
    ASSUME VisitTypes
    PROVE  /\ Waiting \in Nat /\ orphans \in Nat
           /\ timer => Waiting = orphans + 1
           /\ ~timer => Waiting = orphans
  BY DEF VisitTypes, Waiting

LEMMA TimerCountsThen ==
    ASSUME timer' \in BOOLEAN
    PROVE  /\ timer' => Waiting' = orphans' + 1
           /\ ~timer' => Waiting' = orphans' + 0
  BY DEF Waiting

\* Steps that leave the pet records alone, as Publish does but for what it makes outdated.
LEMMA FetchesStay ==
    ASSUME FetchInv, UNCHANGED <<timer, orphans, attempt, visits, record>>,
           \/ UNCHANGED fetch
           \/ fetch' = [f \in Fetches |-> [fetch[f] EXCEPT !.current = FALSE]],
           \A x \in {data', rd'} : x.visits \in Nat /\ x.visits <= record
    PROVE  FetchInv'
<1>1. fetch' \in [Fetches -> [run : BOOLEAN, current : BOOLEAN, old : Nat]]
  BY DEF FetchInv, VisitTypes
<1>2. Running' = Running
  BY DEF FetchInv, VisitTypes, Running
<1> QED
  BY <1>1, <1>2 DEF FetchInv, VisitTypes, FewFetches, Waiting

\* The visits of what is shown, and of what the refresh builds, are copies of what the record
\* fetches and the cloud tier found.
LEMMA RefreshLeavesFetches ==
    ASSUME SnapshotInv, FetchInv, Poll \/ RefreshStep
    PROVE  FetchInv'
<1>1. UNCHANGED <<timer, orphans, attempt, visits, record>>
  BY DEF Poll, RefreshStep, RefreshLan, RefreshCloud, Read, RefreshLanFails, RefreshFails,
     Answered, Scan, Probe, Shadow, RefreshPets, pets
<1>2. /\ data.visits \in Nat /\ data.visits <= record /\ rd.visits \in Nat /\ rd.visits <= record
      /\ record \in Nat /\ NoData.visits = 0
  BY DEF FetchInv, VisitTypes, NoData
<1>3. CASE Poll \/ RefreshLanFails \/ RefreshFails \/ Scan \/ Probe
  <2>1. UNCHANGED <<fetch, data, rd>>
    BY <1>3 DEF Poll, RefreshLanFails, RefreshFails, Scan, Probe, pets
  <2> QED
    BY <1>1, <1>2, <2>1, FetchesStay
<1>4. CASE RefreshLan \/ RefreshCloud
  <2>1. UNCHANGED <<fetch, data>> /\ rd'.visits = 0
    BY <1>4 DEF RefreshLan, RefreshCloud, Read, NoData, pets
  <2> QED
    BY <1>1, <1>2, <2>1, FetchesStay
<1>5. CASE Answered
  <2>1. PICK new : new = Answer /\ new.visits = data.visits
    BY AnswerUnder
  <2>2. /\ rd' = new /\ UNCHANGED <<data, fetch>>
        \/ Publish(new)
    BY <1>5, <2>1, AnsweredIs
  <2> QED
    BY <1>1, <1>2, <2>1, <2>2, FetchesStay DEF Publish
<1>6. CASE Shadow
  <2>1. UNCHANGED <<fetch, data>> /\ rd'.visits = rd.visits
    <3>1. rd' = rd \/ rd' = [rd EXCEPT !.dps = ApplyShadow(cloud, @)]
      BY <1>6 DEF Shadow
    <3>2. PICK old, laid : /\ old = rd /\ laid = ApplyShadow(cloud, old.dps)
                           /\ old = [dps |-> old.dps, via |-> old.via, visits |-> old.visits]
      BY DEF SnapshotInv, IsSnapshot
    <3>3. rd' = old \/ rd' = [old EXCEPT !.dps = laid]
      BY <3>1, <3>2
    <3>4. UNCHANGED <<fetch, data>>
      BY <1>6 DEF Shadow, pets
    <3> QED
      BY <3>2, <3>3, <3>4
  <2> QED
    BY <1>1, <1>2, <2>1, FetchesStay
<1>7. CASE RefreshPets
  <2>1. PICK new : /\ Publish(new)
                   /\ new = rd \/ new = [rd EXCEPT !.visits = record]
    BY <1>7 DEF RefreshPets
  <2>2. new.visits \in {rd.visits, record}
    BY <2>1 DEF SnapshotInv, IsSnapshot
  <2> QED
    BY <1>1, <1>2, <2>1, <2>2, FetchesStay DEF Publish
<1> QED
  BY <1>3, <1>4, <1>5, <1>6, <1>7 DEF RefreshStep

\* A timer fires.
LEMMA FetchBeginsStep ==
    ASSUME SnapshotInv, FetchInv, NEW f \in Fetches, FetchBegins(f)
    PROVE  FetchInv'
<1>1. /\ attempt' = attempt + 1 /\ UNCHANGED <<data, rd, visits, record>>
      /\ ~fetch[f].run
      /\ fetch' = [fetch EXCEPT ![f] = [run |-> TRUE, current |-> TRUE, old |-> data.visits]]
  BY DEF FetchBegins, refresh
<1>2. timer' \in BOOLEAN /\ orphans' \in Nat /\ orphans' <= orphans /\ Waiting' = Waiting - 1
  <2>1. VisitTypes
    BY DEF FetchInv
  <2>2. timer' \in BOOLEAN
    BY DEF FetchBegins, FetchInv, VisitTypes
  <2>3. \/ timer /\ ~timer' /\ orphans' = orphans
        \/ /\ orphans > 0 /\ orphans' = orphans - 1
           /\ (timer' /\ timer) \/ (~timer' /\ ~timer)
    <3>1. CASE timer /\ timer' = FALSE /\ orphans' = orphans
      BY <3>1
    <3>2. CASE orphans > 0 /\ orphans' = orphans - 1 /\ timer' = timer
      <4>1. timer \in BOOLEAN /\ timer' = timer
        BY <3>2 DEF FetchInv, VisitTypes
      <4>2. (timer' /\ timer) \/ (~timer' /\ ~timer)
        BY <4>1
      <4> QED
        BY <3>2, <4>2
    <3> QED
      BY <3>1, <3>2 DEF FetchBegins
  <2> QED
    BY <2>1, <2>2, <2>3, TimerCounts, TimerCountsThen
<1>3. Cardinality(Running') = Cardinality(Running) + 1
  <2>1. PICK v : v = [run |-> TRUE, current |-> TRUE, old |-> data.visits]
    OBVIOUS
  <2>2. v.run /\ fetch' = [fetch EXCEPT ![f] = v]
    BY <1>1, <2>1
  <2> QED
    BY <1>1, <2>2, OneMore DEF FetchInv
<1>4. /\ Cardinality(Running) \in Nat /\ Waiting \in Nat
  BY RunningCount, TimerCounts DEF FetchInv
<1>5. VisitTypes'
  BY <1>1, <1>2 DEF FetchInv, VisitTypes
<1>6. FewFetches'
  BY <1>1, <1>2, <1>3, <1>4 DEF FetchInv, VisitTypes, FewFetches
<1> QED
  BY <1>5, <1>6 DEF FetchInv

\* An answer, or none: the turn goes back to the timer after a first attempt only.
LEMMA FetchOverStep ==
    ASSUME SnapshotInv, FetchInv, NEW f \in Fetches, FetchEnds(f) \/ FetchFails(f)
    PROVE  FetchInv'
<1>1. /\ fetch[f].run /\ fetch' = [fetch EXCEPT ![f] = NoFetch]
      /\ UNCHANGED <<rd, attempt, visits, record>>
  BY DEF FetchEnds, FetchFails, refresh
<1>2. /\ Cardinality(Running') = Cardinality(Running) - 1
      /\ Cardinality(Running) \in Nat /\ Cardinality(Running') \in Nat
  BY <1>1, OneLess, RunningCount DEF FetchInv
<1>3. data'.visits \in {data.visits, record}
  <2>1. data' = data \/ data' = [data EXCEPT !.visits = record]
    BY DEF FetchEnds, FetchedInto, FetchFails, refresh
  <2> QED
    BY <2>1 DEF SnapshotInv, IsSnapshot
<1>4. /\ timer' \in BOOLEAN /\ orphans' \in Nat /\ Waiting \in Nat
      /\ \/ UNCHANGED <<timer, orphans>> /\ Waiting' = Waiting
         \/ attempt < 2 /\ Waiting' = Waiting + 1 /\ orphans' = Waiting
  <2>1. VisitTypes /\ Waiting \in Nat /\ orphans \in Nat
    BY TimerCounts DEF FetchInv
  <2>2. CASE FetchEnds(f) /\ FetchAgain(f)
    <3>1. timer' \in BOOLEAN /\ timer' /\ attempt < 2
      BY <2>2 DEF FetchEnds, FetchAgain
    <3>2. orphans' = Waiting
      BY <2>1, <2>2, TimerCounts DEF FetchEnds
    <3> QED
      BY <2>1, <3>1, <3>2, TimerCountsThen
  <2>3. CASE (FetchEnds(f) /\ ~FetchAgain(f)) \/ FetchFails(f)
    <3>1. timer' = timer /\ orphans' = orphans
      BY <2>1, <2>3 DEF FetchEnds, FetchFails, VisitTypes
    <3>2. timer' \in BOOLEAN /\ Waiting' = Waiting
      BY <2>1, <3>1 DEF Waiting, VisitTypes
    <3> QED
      BY <2>1, <3>1, <3>2
  <2> QED
    BY <2>2, <2>3
<1>5. VisitTypes'
  BY <1>1, <1>3, <1>4 DEF FetchInv, VisitTypes, NoFetch
<1>6. FewFetches'
  BY <1>1, <1>2, <1>4 DEF FetchInv, VisitTypes, FewFetches
<1> QED
  BY <1>5, <1>6 DEF FetchInv

\* A cat leaves: one more visit, and at most one more timer.
LEMMA CatLeftStep == ASSUME FetchInv, CatLeft PROVE FetchInv'
<1>1. visits' = visits + 1 /\ UNCHANGED <<data, rd, orphans, fetch, record>>
  BY DEF CatLeft, refresh
<1>2. (timer' = TRUE /\ attempt' = 0) \/ UNCHANGED <<timer, attempt>>
  BY DEF CatLeft
<1>3. Running' = Running /\ Cardinality(Running) \in Nat
  BY <1>1, RunningCount DEF Running, FetchInv
<1>4. timer' \in BOOLEAN /\ attempt' \in Nat
  <2>1. timer \in BOOLEAN /\ attempt \in Nat
    BY DEF FetchInv, VisitTypes
  <2>2. attempt' = 0 \/ attempt' = attempt
    BY <1>2
  <2>3. timer' \in BOOLEAN
    BY <1>2, <2>1
  <2>4. attempt' \in Nat
    BY <2>1, <2>2
  <2> QED
    BY <2>3, <2>4
<1>5. VisitTypes'
  BY <1>1, <1>4 DEF FetchInv, VisitTypes
<1>6. FewFetches'
  <2>1. /\ VisitTypes /\ Waiting \in Nat /\ orphans \in Nat /\ visits \in Nat
        /\ Waiting' \in {orphans, orphans + 1}
    BY <1>1, <1>4, TimerCounts, TimerCountsThen DEF FetchInv, VisitTypes
  <2>2. Waiting \in {orphans, orphans + 1}
    BY <2>1, TimerCounts
  <2>3. attempt' = 0 \/ (attempt' = attempt /\ Waiting' = Waiting)
    <3>1. CASE timer' = TRUE /\ attempt' = 0
      BY <3>1
    <3>2. CASE UNCHANGED <<timer, attempt>>
      <4>1. timer \in BOOLEAN /\ timer' = timer /\ attempt' = attempt /\ orphans' = orphans
        BY <1>1, <3>2 DEF FetchInv, VisitTypes
      <4> QED
        BY <4>1 DEF Waiting
    <3> QED
      BY <1>2, <3>1, <3>2
  <2>4. /\ Waiting + Cardinality(Running) <= visits
        /\ attempt >= 2 => attempt + Waiting <= visits + 1
        /\ orphans > 0 => orphans < visits
    BY DEF FetchInv, FewFetches
  <2>5. attempt \in Nat /\ visits' = visits + 1 /\ orphans' = orphans
    BY <1>1 DEF FetchInv, VisitTypes
  <2>6. attempt' >= 2 => attempt' + Waiting' <= visits' + 1
    BY <2>1, <2>3, <2>4, <2>5
  <2> QED
    BY <1>3, <2>1, <2>2, <2>4, <2>5, <2>6 DEF FewFetches
<1> QED
  BY <1>5, <1>6 DEF FetchInv

LEMMA FetchCountStep ==
    ASSUME SnapshotInv, FetchInv, [CoordinatorNext]_coordinatorVars
    PROVE  FetchInv'
<1>1. CASE \E d \in Dps : Report(d)
  <2>1. UNCHANGED <<rd, timer, orphans, attempt, fetch, visits, record>>
    BY <1>1 DEF Report, pets
  <2>2. data'.visits = data.visits
    <3>1. PICK d \in Dps : Report(d)
      BY <1>1
    <3>2. PICK old, new : /\ old = data /\ new = Over([x \in {d} |-> cloud'[d]], old.dps)
                          /\ old = [dps |-> old.dps, via |-> old.via, visits |-> old.visits]
      BY DEF SnapshotInv, IsSnapshot
    <3>3. data' = old \/ data' = [old EXCEPT !.dps = new]
      BY <3>1, <3>2 DEF Report, PushDps
    <3> QED
      BY <3>2, <3>3
  <2> QED
    BY <2>1, <2>2, FetchesStay DEF FetchInv, VisitTypes
<1>2. CASE RecordLands
  <2>1. record' = record + 1 /\ record < visits
        /\ UNCHANGED <<data, rd, timer, orphans, attempt, fetch, visits>>
    BY <1>2 DEF RecordLands, refresh
  <2> QED
    BY <2>1 DEF FetchInv, VisitTypes, FewFetches, Waiting, Running
<1>3. CASE \/ CloudDue \/ CommandBegin \/ CommandStep \/ BackoffEnds \/ DeviceChanges
           \/ DeviceMoves \/ (\E d \in Dps : LanFrame(d)) \/ UNCHANGED coordinatorVars
  <2>1. UNCHANGED <<data, rd, timer, orphans, attempt, fetch, visits, record>>
    BY <1>3 DEF CloudDue, CommandBegin, CommandStep, Command, CommandFails, BackoffEnds,
       DeviceChanges, DeviceMoves, LanFrame, coordinatorVars, refresh, pets
  <2> QED
    BY <2>1, FetchesStay DEF FetchInv, VisitTypes
<1> QED
  BY <1>1, <1>2, <1>3, RefreshLeavesFetches, FetchBeginsStep, FetchOverStep, CatLeftStep
     DEF CoordinatorNext, FetchStep

\* Whatever the network, the device and the tasks do: datapoints that are shown, under way,
\* remembered by the LAN transport or in the cloud are states the device has been in, the
\* visits that are shown have records, the candidate that is probed is an address, the fetches
\* of pet records that pushes, overwritten timers and second attempts can start are bounded by
\* the visits, and _record_fetch_attempt never exceeds them by more than one (coordinator.py,
\* _schedule_record_fetch and _fetch_pet_records).
THEOREM CoordinatorTypes == CoordinatorSpec => [](CoordinatorTypeOK /\ FewFetches)
<1>1. CoordinatorInit => SnapshotInv /\ PlaceTypes /\ FetchInv
  <2> SUFFICES ASSUME CoordinatorInit PROVE SnapshotInv /\ PlaceTypes /\ FetchInv
    OBVIOUS
  <2>1. SnapshotInv
    BY DEF CoordinatorInit, SnapshotInv, NotNewer, IsSnapshot, ReadIsNewer, NoData, Nothing, Zero,
       Underway
  <2>2. VisitTypes
    <3>1. NoFetch \in [run : BOOLEAN, current : BOOLEAN, old : Nat]
      BY DEF NoFetch
    <3>2. fetch \in [Fetches -> [run : BOOLEAN, current : BOOLEAN, old : Nat]]
      BY <3>1 DEF CoordinatorInit
    <3>3. data.visits = 0 /\ rd.visits = 0
      BY DEF CoordinatorInit, NoData
    <3>4. timer \in BOOLEAN /\ orphans = 0 /\ attempt = 0 /\ visits = 0 /\ record = 0
      BY DEF CoordinatorInit
    <3> QED
      BY <3>2, <3>3, <3>4 DEF VisitTypes
  <2>3. Running = {}
    BY DEF CoordinatorInit, Running, NoFetch
  <2>4. FewFetches
    BY <2>3, FS_EmptySet DEF CoordinatorInit, FewFetches, Waiting
  <2> QED
    BY <2>1, <2>2, <2>4, PlaceInit DEF FetchInv
<1>2. SnapshotInv /\ PlaceTypes /\ FetchInv /\ [CoordinatorNext]_coordinatorVars
        => (SnapshotInv /\ PlaceTypes /\ FetchInv)'
  BY SnapshotStep, PlaceStep, FetchCountStep
<1>3. SnapshotInv /\ PlaceTypes /\ FetchInv => CoordinatorTypeOK /\ FewFetches
  <2> SUFFICES ASSUME SnapshotInv, PlaceTypes, FetchInv PROVE CoordinatorTypeOK /\ FewFetches
    OBVIOUS
  <2>1. attempt \in 0..visits + 1 /\ (orphans > 0 => orphans < visits)
    BY DEF FetchInv, VisitTypes, FewFetches, Waiting
  <2>2. /\ \A x \in {data.dps, rd.dps, lan} : /\ DOMAIN x \subseteq Dps
                                            /\ \A d \in DOMAIN x : x[d] <= dev[d]
        /\ data.visits <= record /\ rd.visits <= record
    BY DEF SnapshotInv, NotNewer, FetchInv, VisitTypes
  <2>3. dev \in [Dps -> Nat] /\ cloud \in [Dps -> Nat] /\ \A d \in Dps : cloud[d] <= dev[d]
    BY DEF SnapshotInv, NotNewer
  <2> QED
    BY <2>1, <2>2, <2>3 DEF CoordinatorTypeOK, PlaceTypes, FetchInv, VisitTypes
<1> QED
  BY <1>1, <1>2, <1>3, PTL DEF CoordinatorSpec
=============================================================================
