-------------------------- MODULE ClientDpsProofs --------------------------
(***************************************************************************)
(* The settings of the device are safe from the client's own mutations, for *)
(* any number of tasks, mutations and foreign edits.                        *)
(***************************************************************************)
EXTENDS ClientDps, SequenceTheorems, TLAPS

USE ValueAssumption, WireAssumption

-----------------------------------------------------------------------------
(* The inductive invariant. *)

\* Settings in which the fields nobody touches are intact.
Intact == {s \in Settings : Base \in s}

\* TypeOK, and wherever settings are kept or on their way they are intact.
IntactType ==
    /\ kind \in [Tasks -> {"none", "refresh", "mutate", "replace", "close"}]
    /\ pc \in [Tasks -> Pcs]
    /\ upd \in [Tasks -> Updates \cup {None}]
    /\ val \in [Tasks -> Intact \cup {Absent}]
    /\ fresh \in [Tasks -> BOOLEAN]
    /\ lifeq \in Seq(Tasks) /\ mutq \in Seq(Tasks) /\ lq \in Seq(Tasks)
    /\ loop \in Tasks \cup {None}
    /\ connected \in BOOLEAN /\ backoff \in BOOLEAN
    /\ session \in {"none", "live", "evicted"}
    /\ failed \in SUBSET Tasks
    /\ got \in BOOLEAN
    /\ cache \in Intact \cup {Absent}
    /\ wire \in Seq(Intact \cup {Absent})
    /\ dev \in Intact
    /\ made \in SUBSET (Updates \cup Foreign)

\* What a task's position says about it.
PositionOf(t) ==
    /\ pc[t] = "idle" => kind[t] = "none"
    /\ pc[t] = "mutex" => val[t] = Absent
    /\ pc[t] = "fill" => kind[t] = "mutate"
    /\ kind[t] = "mutate" => upd[t] \in Updates
    /\ kind[t] = "close" => pc[t] \in {"life", "lclose", "tear"}
    /\ val[t] # Absent => kind[t] \in {"mutate", "replace"}
    /\ kind[t] = "replace" => val[t] \subseteq Foreign \cup {Base}

\* The transport's lock is held where a step relies on it, the lifecycle lock until the
\* end of a close.
LocksOf(t) ==
    /\ pc[t] \in {"hshake", "query", "sent", "tear"} => Holds(lq, t)
    /\ kind[t] = "close" /\ pc[t] \in {"lclose", "tear"} => Holds(lifeq, t)

\* CurrentReadLosesNothing, of one task.
CurrentOf(t) ==
    kind[t] = "mutate" /\ Writing(t) /\ fresh[t]
      => dev \subseteq val[t] \cup Foreign

Positions == \A t \in Tasks : PositionOf(t)
LocksHeld == \A t \in Tasks : LocksOf(t)

InQ(q, t)   == \E i \in 1..Len(q) : q[i] = t
Distinct(q) == \A i, j \in 1..Len(q) : q[i] = q[j] => i = j

\* The mutation lock is a queue of the tasks that mutate, and only its head works.
MutationQueue ==
    /\ Distinct(mutq)
    /\ \A t \in Tasks : InQ(mutq, t) => kind[t] = "mutate"
    /\ \A t \in Tasks : kind[t] = "mutate" /\ pc[t] # "mutex" => Holds(mutq, t)

IInv == IntactType /\ Positions /\ LocksHeld /\ MutationQueue /\ CurrentReadLosesNothing

-----------------------------------------------------------------------------
(* Queues. *)

\* Queueing for a lock does not take it from its holder.
LEMMA QueueAppend ==
    ASSUME NEW q \in Seq(Tasks), NEW t \in Tasks
    PROVE  /\ Append(q, t) \in Seq(Tasks)
           /\ \A u : Holds(q, u) => Holds(Append(q, t), u)
<1>1. Append(q, t) \in Seq(Tasks) /\ Len(Append(q, t)) = Len(q) + 1 /\ Len(q) \in Nat
  BY AppendProperties, LenProperties
<1>2. ASSUME NEW u, Holds(q, u) PROVE Holds(Append(q, t), u)
  <2>1. q # <<>> /\ Head(q) = u /\ Len(q) >= 1
    BY <1>2, <1>1, EmptySeq DEF Holds
  <2>2. Append(q, t)[1] = q[1]
    BY <2>1, <1>1, AppendProperties
  <2> QED BY <1>1, <2>1, <2>2 DEF Holds
<1> QED BY <1>1, <1>2

\* What is left when the holder releases a lock is a queue.
LEMMA QueueTail ==
    ASSUME NEW q \in Seq(Tasks), NEW t, Holds(q, t)
    PROVE  Tail(q) \in Seq(Tasks)
BY HeadTailProperties DEF Holds

\* A task that is not in a queue may join it.
LEMMA DistinctAppend ==
    ASSUME NEW q \in Seq(Tasks), NEW t \in Tasks, Distinct(q), ~InQ(q, t)
    PROVE  /\ Distinct(Append(q, t))
           /\ \A u : InQ(Append(q, t), u) => InQ(q, u) \/ u = t
<1>1. /\ Len(q) \in Nat
      /\ Len(Append(q, t)) = Len(q) + 1
      /\ \A i \in 1..Len(q) : Append(q, t)[i] = q[i]
      /\ Append(q, t)[Len(q) + 1] = t
  BY AppendProperties, LenProperties
<1> QED BY <1>1 DEF Distinct, InQ

\* The holder leaves a queue for good.
LEMMA DistinctTail ==
    ASSUME NEW q \in Seq(Tasks), NEW t, Holds(q, t), Distinct(q)
    PROVE  /\ Distinct(Tail(q))
           /\ \A u : InQ(Tail(q), u) => InQ(q, u) /\ u # t
<1>1. /\ Len(q) \in Nat /\ Len(q) >= 1 /\ q[1] = t
      /\ Len(Tail(q)) = Len(q) - 1
      /\ \A i \in 1..Len(Tail(q)) : Tail(q)[i] = q[i + 1]
  BY HeadTailProperties, LenProperties, EmptySeq DEF Holds
<1> QED BY <1>1 DEF Distinct, InQ

\* Sending and receiving keep the frames on the wire well formed.
LEMMA WireFacts ==
    ASSUME wire \in Seq(Intact \cup {Absent})
    PROVE  /\ wire # <<>> => /\ Head(wire) \in Intact \cup {Absent}
                             /\ Tail(wire) \in Seq(Intact \cup {Absent})
           /\ \A v \in Intact \cup {Absent} : Append(wire, v) \in Seq(Intact \cup {Absent})
           /\ <<>> \in Seq(Intact \cup {Absent})
<1>1. <<>> \in Seq(Intact \cup {Absent})
  BY EmptySeq
<1> QED BY <1>1, HeadTailProperties, AppendProperties

-----------------------------------------------------------------------------
(* What the shared continuations do. *)

TaskTypes == /\ kind \in [Tasks -> {"none", "refresh", "mutate", "replace", "close"}]
             /\ pc \in [Tasks -> Pcs]
             /\ upd \in [Tasks -> Updates \cup {None}]
             /\ val \in [Tasks -> Intact \cup {Absent}]
             /\ fresh \in [Tasks -> BOOLEAN]
             /\ mutq \in Seq(Tasks)

\* The end of an operation keeps the task's types; a mutation has a lock to release.
LEMMA FinishTypes ==
    ASSUME IInv, NEW t \in Tasks, Finish(t), pc[t] # "mutex"
    PROVE  TaskTypes'
<1>1. mutq' \in Seq(Tasks)
  <2>1. CASE kind[t] = "mutate"
    <3>1. Holds(mutq, t)
      BY <2>1 DEF IInv, MutationQueue
    <3>2. mutq' = Tail(mutq)
      BY <2>1 DEF Finish
    <3> QED BY <3>1, <3>2, QueueTail DEF IInv, IntactType
  <2>2. CASE kind[t] # "mutate"
    BY <2>2 DEF Finish, IInv, IntactType
  <2> QED BY <2>1, <2>2
<1>2. pc' \in [Tasks -> Pcs]
  BY DEF Finish, Goto, Pcs, IInv, IntactType
<1>3. /\ kind' \in [Tasks -> {"none", "refresh", "mutate", "replace", "close"}]
      /\ upd' \in [Tasks -> Updates \cup {None}]
      /\ val' \in [Tasks -> Intact \cup {Absent}]
  BY DEF Finish, IInv, IntactType
<1>4. fresh' \in [Tasks -> BOOLEAN]
  BY DEF Finish, IInv, IntactType
<1> QED BY <1>1, <1>2, <1>3, <1>4 DEF TaskTypes

\* What a mutation makes of its read is intact, or it ends.
LEMMA AfterReadTypes ==
    ASSUME IInv, NEW t \in Tasks, NEW v \in Intact \cup {Absent}, AfterRead(t, v),
           kind[t] = "mutate", pc[t] # "mutex"
    PROVE  TaskTypes' /\ lifeq' \in Seq(Tasks)
<1>1. CASE v = Absent /\ Finish(t) /\ UNCHANGED lifeq
  BY <1>1, FinishTypes DEF IInv, IntactType
<1>2. CASE /\ v # Absent
           /\ val' = [val EXCEPT ![t] = v \cup {upd[t]}]
           /\ fresh' = [fresh EXCEPT ![t] = (v = dev)]
           /\ lifeq' = Append(lifeq, t)
           /\ Goto(t, "life")
           /\ UNCHANGED <<kind, upd, mutq>>
  <2>1. v \in Intact /\ upd[t] \in Updates
    BY <1>2 DEF IInv, Positions, PositionOf
  <2>2. v \cup {upd[t]} \in Intact
    BY <2>1 DEF Intact, Settings
  <2>3. val' \in [Tasks -> Intact \cup {Absent}]
    BY <1>2, <2>2 DEF IInv, IntactType
  <2>4. fresh' \in [Tasks -> BOOLEAN]
    BY <1>2 DEF IInv, IntactType
  <2>5. lifeq' \in Seq(Tasks)
    BY <1>2, QueueAppend DEF IInv, IntactType
  <2>6. pc' \in [Tasks -> Pcs]
    BY <1>2 DEF Goto, Pcs, IInv, IntactType
  <2> QED BY <1>2, <2>3, <2>4, <2>5, <2>6 DEF TaskTypes, IInv, IntactType
<1> QED BY <1>1, <1>2 DEF AfterRead

\* The same for a read of any caller.
LEMMA ReadReturnsTypes ==
    ASSUME IInv, NEW t \in Tasks, NEW v \in Intact \cup {Absent}, ReadReturns(t, v),
           pc[t] # "mutex"
    PROVE  TaskTypes' /\ lifeq' \in Seq(Tasks)
<1>1. CASE kind[t] = "mutate"
  BY <1>1, AfterReadTypes DEF ReadReturns
<1>2. CASE kind[t] # "mutate"
  BY <1>2, FinishTypes DEF ReadReturns, IInv, IntactType
<1> QED BY <1>1, <1>2

\* Starting a datapoint operation keeps the types.
LEMMA BeginOpTypes ==
    ASSUME IInv, NEW t \in Tasks, NEW q \in Seq(Tasks), BeginOp(t, q)
    PROVE  pc' \in [Tasks -> Pcs] /\ lq' \in Seq(Tasks)
<1>1. CASE backoff
  BY <1>1 DEF BeginOp, Goto, Pcs, IInv, IntactType
<1>2. CASE ~backoff
  <2>1. lq' = Append(q, t) /\ Goto(t, "lconn")
    BY <1>2 DEF BeginOp
  <2>2. pc' \in [Tasks -> Pcs]
    BY <2>1 DEF Goto, Pcs, IInv, IntactType
  <2> QED BY <2>1, <2>2, QueueAppend
<1> QED BY <1>1, <1>2

\* The end of transport.connect() keeps the types.
LEMMA ConnectReturnsTypes ==
    ASSUME IInv, NEW t \in Tasks, NEW q \in Seq(Tasks), ConnectReturns(t, q), Holds(lifeq, t)
    PROVE  /\ pc' \in [Tasks -> Pcs] /\ lq' \in Seq(Tasks) /\ lifeq' \in Seq(Tasks)
           /\ connected' \in BOOLEAN
BY BeginOpTypes, QueueTail DEF ConnectReturns, IInv, IntactType

\* The end of the primary's connect() keeps the types.
LEMMA LocalConnectedTypes ==
    ASSUME IInv, NEW t \in Tasks, NEW q \in Seq(Tasks), LocalConnected(t, q)
    PROVE  /\ pc' \in [Tasks -> Pcs] /\ lq' \in Seq(Tasks) /\ lifeq' \in Seq(Tasks)
           /\ connected' \in BOOLEAN
<1>1. CASE Opening(t)
  BY <1>1, ConnectReturnsTypes DEF LocalConnected, Opening
<1>2. CASE ~Opening(t)
  <2>1. lq' = Append(q, t) /\ Goto(t, "lop") /\ UNCHANGED <<connected, lifeq>>
    BY <1>2 DEF LocalConnected
  <2>2. pc' \in [Tasks -> Pcs]
    BY <2>1 DEF Goto, Pcs, IInv, IntactType
  <2>3. lq' \in Seq(Tasks)
    BY <2>1, QueueAppend
  <2> QED BY <2>1, <2>2, <2>3 DEF IInv, IntactType
<1> QED BY <1>1, <1>2

\* A failure of the primary keeps the types.
LEMMA MarkPrimaryDeadTypes ==
    ASSUME IInv, NEW t \in Tasks, MarkPrimaryDead(t), Holds(lq, t)
    PROVE  /\ pc' \in [Tasks -> Pcs] /\ lq' \in Seq(Tasks)
           /\ backoff' \in BOOLEAN /\ failed' \in SUBSET Tasks
<1>1. pc' \in [Tasks -> Pcs]
  BY DEF MarkPrimaryDead, Goto, Pcs, IInv, IntactType
<1>2. Tail(lq) \in Seq(Tasks)
  BY QueueTail DEF IInv, IntactType
<1>3. lq' \in Seq(Tasks)
  BY <1>2, QueueAppend DEF MarkPrimaryDead
<1>4. backoff' \in BOOLEAN
  BY DEF MarkPrimaryDead
<1>5. failed' \in SUBSET Tasks
  BY DEF MarkPrimaryDead, IInv, IntactType
<1> QED BY <1>1, <1>3, <1>4, <1>5

\* A report of the device keeps the wire well formed.
LEMMA PushTypes ==
    ASSUME IInv, NEW v \in Intact \cup {Absent}, Push(v)
    PROVE  wire' \in Seq(Intact \cup {Absent})
<1>1. CASE session = "live"
  BY <1>1, WireFacts DEF Push, IInv, IntactType
<1>2. CASE session # "live"
  BY <1>2 DEF Push, IInv, IntactType
<1> QED BY <1>1, <1>2

-----------------------------------------------------------------------------
(* Every step keeps the types, and the untouched fields. *)

\* Every step keeps IntactType.
LEMMA TypeStep == IInv /\ [Next]_vars => IntactType'
<1> SUFFICES ASSUME IInv, [Next]_vars PROVE IntactType'
  OBVIOUS
<1> USE DEF IInv, IntactType
<1>1. ASSUME NEW t \in Tasks, Refresh(t) PROVE IntactType'
  <2>1. pc' \in [Tasks -> Pcs] /\ lifeq' \in Seq(Tasks)
    BY <1>1, QueueAppend DEF Refresh, Goto, Pcs
  <2> QED BY <1>1, <2>1 DEF Refresh, localVars
<1>2. ASSUME NEW t \in Tasks, Close(t) PROVE IntactType'
  <2>1. pc' \in [Tasks -> Pcs] /\ lifeq' \in Seq(Tasks)
    BY <1>2, QueueAppend DEF Close, Goto, Pcs
  <2> QED BY <1>2, <2>1 DEF Close, localVars
<1>3. ASSUME NEW t \in Tasks, NEW u \in Updates, Mutate(t, u) PROVE IntactType'
  <2>1. pc' \in [Tasks -> Pcs] /\ mutq' \in Seq(Tasks)
    BY <1>3, QueueAppend DEF Mutate, Goto, Pcs
  <2> QED BY <1>3, <2>1 DEF Mutate, localVars
<1>4. ASSUME NEW t \in Tasks, MutationLock(t) PROVE IntactType'
  <2>1. pc' \in [Tasks -> Pcs] /\ lifeq' \in Seq(Tasks)
    BY <1>4, QueueAppend DEF MutationLock, Goto, Pcs
  <2> QED BY <1>4, <2>1 DEF MutationLock, localVars
<1>5. ASSUME NEW t \in Tasks, LifecycleLock(t) PROVE IntactType'
  <2>1. CASE lifeq' = Tail(lifeq) /\ BeginOp(t, lq)
    <3>1. lifeq' \in Seq(Tasks)
      BY <1>5, <2>1, QueueTail DEF LifecycleLock
    <3>2. pc' \in [Tasks -> Pcs] /\ lq' \in Seq(Tasks)
      BY <2>1, BeginOpTypes
    <3> QED BY <1>5, <3>1, <3>2 DEF LifecycleLock, localVars
  <2>2. CASE lq' = Append(lq, t) /\ UNCHANGED lifeq /\ (Goto(t, "lconn") \/ Goto(t, "lclose"))
    <3>1. pc' \in [Tasks -> Pcs] /\ lq' \in Seq(Tasks)
      BY <2>2, QueueAppend DEF Goto, Pcs
    <3> QED BY <1>5, <2>2, <3>1 DEF LifecycleLock, localVars
  <2> QED BY <1>5, <2>1, <2>2 DEF LifecycleLock
<1>6. ASSUME NEW t \in Tasks, LocalConnect(t) PROVE IntactType'
  <2>1. Tail(lq) \in Seq(Tasks)
    BY <1>6, QueueTail DEF LocalConnect
  <2>2. CASE LocalConnected(t, Tail(lq)) /\ UNCHANGED session
    <3>1. /\ pc' \in [Tasks -> Pcs] /\ lq' \in Seq(Tasks) /\ lifeq' \in Seq(Tasks)
          /\ connected' \in BOOLEAN
      BY <2>1, <2>2, LocalConnectedTypes
    <3> QED BY <1>6, <2>2, <3>1 DEF LocalConnect
  <2>3. CASE session' = "none" /\ Goto(t, "hshake") /\ UNCHANGED <<connected, lifeq, lq>>
    <3>1. pc' \in [Tasks -> Pcs]
      BY <2>3 DEF Goto, Pcs
    <3> QED BY <1>6, <2>3, <3>1 DEF LocalConnect
  <2> QED BY <1>6, <2>2, <2>3 DEF LocalConnect
<1>7. ASSUME NEW t \in Tasks, HandshakeOk(t) PROVE IntactType'
  <2>1. Tail(lq) \in Seq(Tasks)
    BY <1>7, QueueTail DEF HandshakeOk, LocksHeld, LocksOf
  <2>2. /\ pc' \in [Tasks -> Pcs] /\ lq' \in Seq(Tasks) /\ lifeq' \in Seq(Tasks)
        /\ connected' \in BOOLEAN
    BY <1>7, <2>1, LocalConnectedTypes DEF HandshakeOk
  <2>3. wire' \in Seq(Intact \cup {Absent})
    BY <1>7, WireFacts DEF HandshakeOk
  <2> QED BY <1>7, <2>2, <2>3 DEF HandshakeOk
<1>8. ASSUME NEW t \in Tasks, HandshakeFails(t) PROVE IntactType'
  <2>1. /\ pc' \in [Tasks -> Pcs] /\ lq' \in Seq(Tasks)
        /\ backoff' \in BOOLEAN /\ failed' \in SUBSET Tasks
    BY <1>8, MarkPrimaryDeadTypes DEF HandshakeFails, LocksHeld, LocksOf
  <2> QED BY <1>8, <2>1 DEF HandshakeFails
<1>9. ASSUME NEW t \in Tasks, LocalOpFails(t) PROVE IntactType'
  <2>1. /\ pc' \in [Tasks -> Pcs] /\ lq' \in Seq(Tasks)
        /\ backoff' \in BOOLEAN /\ failed' \in SUBSET Tasks
    BY <1>9, MarkPrimaryDeadTypes DEF LocalOpFails
  <2>2. wire' \in Seq(Intact \cup {Absent})
    BY <1>9, WireFacts DEF LocalOpFails
  <2> QED BY <1>9, <2>1, <2>2 DEF LocalOpFails
<1>10. ASSUME NEW t \in Tasks, Query(t) PROVE IntactType'
  <2>1. wire' \in Seq(Intact \cup {Absent})
    BY <1>10, PushTypes DEF Query
  <2>2. pc' \in [Tasks -> Pcs]
    BY <1>10 DEF Query, Goto, Pcs
  <2> QED BY <1>10, <2>1, <2>2 DEF Query, lockVars
<1>11. ASSUME NEW t \in Tasks, QueryAnswered(t) PROVE IntactType'
  <2>1. lq' \in Seq(Tasks)
    BY <1>11, QueueTail DEF QueryAnswered, LocksHeld, LocksOf
  <2>2. CASE Goto(t, "fill") /\ UNCHANGED <<kind, upd, val, fresh, lifeq, mutq>>
    <3>1. pc' \in [Tasks -> Pcs]
      BY <2>2 DEF Goto, Pcs
    <3> QED BY <1>11, <2>1, <2>2, <3>1 DEF QueryAnswered
  <2>3. CASE ReadReturns(t, cache)
    <3>1. TaskTypes' /\ lifeq' \in Seq(Tasks)
      BY <1>11, <2>3, ReadReturnsTypes DEF QueryAnswered
    <3> QED BY <1>11, <2>1, <3>1 DEF QueryAnswered, TaskTypes
  <2> QED BY <1>11, <2>2, <2>3 DEF QueryAnswered
<1>12. ASSUME NEW t \in Tasks, QueryTimesOut(t) PROVE IntactType'
  <2>1. /\ pc' \in [Tasks -> Pcs] /\ lq' \in Seq(Tasks)
        /\ backoff' \in BOOLEAN /\ failed' \in SUBSET Tasks
    BY <1>12, MarkPrimaryDeadTypes DEF QueryTimesOut, LocksHeld, LocksOf
  <2> QED BY <1>12, <2>1 DEF QueryTimesOut
<1>13. ASSUME NEW t \in Tasks, WriteSent(t) PROVE IntactType'
  <2>1. val[t] \in Intact
    BY <1>13 DEF WriteSent, Writing
  <2>2. wire' \in Seq(Intact \cup {Absent})
    BY <1>13, <2>1, PushTypes DEF WriteSent
  <2>3. pc' \in [Tasks -> Pcs]
    BY <1>13 DEF WriteSent, Goto, Pcs
  <2> QED BY <1>13, <2>1, <2>2, <2>3 DEF WriteSent, lockVars
<1>14. ASSUME NEW t \in Tasks, WriteCached(t) PROVE IntactType'
  <2>1. lq' \in Seq(Tasks)
    BY <1>14, QueueTail DEF WriteCached, LocksHeld, LocksOf
  <2>2. TaskTypes'
    BY <1>14, FinishTypes DEF WriteCached
  <2> QED BY <1>14, <2>1, <2>2 DEF WriteCached, TaskTypes
<1>15. ASSUME NEW t \in Tasks, LocalClose(t) PROVE IntactType'
  <2>1. pc' \in [Tasks -> Pcs]
    BY <1>15 DEF LocalClose, Goto, Pcs
  <2> QED BY <1>15, <2>1 DEF LocalClose, lockVars
<1>16. ASSUME NEW t \in Tasks, LocalClosed(t) PROVE IntactType'
  <2>1. lq' \in Seq(Tasks)
    BY <1>16, QueueTail DEF LocalClosed, LocksHeld, LocksOf
  <2>2. wire' \in Seq(Intact \cup {Absent})
    BY <1>16, WireFacts DEF LocalClosed
  <2>3. CASE kind[t] = "close" /\ connected' = FALSE /\ lifeq' = Tail(lifeq) /\ Finish(t)
    <3>1. TaskTypes'
      BY <1>16, <2>3, FinishTypes DEF LocalClosed
    <3>2. lifeq' \in Seq(Tasks)
      BY <1>16, <2>3, QueueTail DEF LocalClosed, LocksHeld, LocksOf
    <3> QED BY <1>16, <2>1, <2>2, <2>3, <3>1, <3>2 DEF LocalClosed, TaskTypes
  <2>4. CASE Goto(t, "cloud") /\ UNCHANGED <<kind, upd, val, fresh, connected, lifeq, mutq>>
    <3>1. pc' \in [Tasks -> Pcs]
      BY <2>4 DEF Goto, Pcs
    <3> QED BY <1>16, <2>1, <2>2, <2>4, <3>1 DEF LocalClosed
  <2> QED BY <1>16, <2>3, <2>4 DEF LocalClosed
<1>17. ASSUME NEW t \in Tasks, CloudConnect(t) PROVE IntactType'
  <2>1. /\ pc' \in [Tasks -> Pcs] /\ lq' \in Seq(Tasks) /\ lifeq' \in Seq(Tasks)
        /\ connected' \in BOOLEAN
    BY <1>17, ConnectReturnsTypes DEF CloudConnect, Opening
  <2> QED BY <1>17, <2>1 DEF CloudConnect, localVars
<1>18. ASSUME NEW t \in Tasks, CloudRead(t) PROVE IntactType'
  <2>1. TaskTypes' /\ lifeq' \in Seq(Tasks)
    BY <1>18, ReadReturnsTypes DEF CloudRead
  <2> QED BY <1>18, <2>1 DEF CloudRead, TaskTypes, localVars
<1>19. ASSUME NEW t \in Tasks, CloudWrite(t) PROVE IntactType'
  <2>1. val[t] \in Intact
    BY <1>19 DEF CloudWrite, Writing
  <2>2. wire' \in Seq(Intact \cup {Absent})
    BY <1>19, <2>1, PushTypes DEF CloudWrite
  <2>3. TaskTypes'
    BY <1>19, FinishTypes DEF CloudWrite
  <2> QED BY <1>19, <2>1, <2>2, <2>3 DEF CloudWrite, TaskTypes
<1>20. ASSUME NEW t \in Tasks, CloudFails(t) PROVE IntactType'
  <2>1. TaskTypes'
    BY <1>20, FinishTypes DEF CloudFails
  <2>2. lifeq' \in Seq(Tasks)
    <3>1. CASE Opening(t)
      BY <1>20, <3>1, QueueTail DEF CloudFails, Opening
    <3>2. CASE ~Opening(t)
      BY <1>20, <3>2 DEF CloudFails
    <3> QED BY <3>1, <3>2
  <2> QED BY <1>20, <2>1, <2>2 DEF CloudFails, TaskTypes, localVars
<1>21. ASSUME NEW t \in Tasks, CloudFill(t) PROVE IntactType'
  <2>1. TaskTypes' /\ lifeq' \in Seq(Tasks)
    BY <1>21, AfterReadTypes DEF CloudFill, Positions, PositionOf
  <2> QED BY <1>21, <2>1 DEF CloudFill, TaskTypes, localVars
<1>22. CASE Deliver
  <2>1. wire' \in Seq(Intact \cup {Absent}) /\ cache' \in Intact \cup {Absent}
    BY <1>22, WireFacts DEF Deliver
  <2>2. got' \in BOOLEAN
    BY <1>22 DEF Deliver
  <2> QED BY <1>22, <2>1, <2>2 DEF Deliver, taskVars, lockVars
<1>23. CASE BackoffEnds
  BY <1>23 DEF BackoffEnds, taskVars, lockVars, localVars
<1>24. CASE LinkDies
  <2>1. wire' \in Seq(Intact \cup {Absent})
    BY <1>24, WireFacts DEF LinkDies
  <2> QED BY <1>24, <2>1 DEF LinkDies, taskVars, lockVars
<1>25. ASSUME NEW u \in Foreign, PhoneEdit(u) PROVE IntactType'
  <2>1. dev \cup {u} \in Intact
    BY <1>25 DEF Intact, Settings
  <2>2. wire' \in Seq(Intact \cup {Absent})
    BY <1>25, <2>1, PushTypes DEF PhoneEdit
  <2> QED BY <1>25, <2>1, <2>2 DEF PhoneEdit, taskVars, lockVars
<1>26. ASSUME NEW t \in Tasks, WriteFails(t) PROVE IntactType'
  <2>1. /\ pc' \in [Tasks -> Pcs] /\ lq' \in Seq(Tasks)
        /\ backoff' \in BOOLEAN /\ failed' \in SUBSET Tasks
    BY <1>26, MarkPrimaryDeadTypes DEF WriteFails, LocksHeld, LocksOf
  <2> QED BY <1>26, <2>1 DEF WriteFails
<1>27. ASSUME NEW t \in Tasks, NEW u \in Foreign, Replace(t, u) PROVE IntactType'
  <2>1. {Base, u} \in Intact
    BY <1>27 DEF Intact, Settings
  <2>2. pc' \in [Tasks -> Pcs] /\ lifeq' \in Seq(Tasks)
    BY <1>27, QueueAppend DEF Replace, Goto, Pcs
  <2> QED BY <1>27, <2>1, <2>2 DEF Replace, localVars
<1>28. CASE UNCHANGED vars
  BY <1>28 DEF vars, taskVars, lockVars, localVars
<1> QED
  BY <1>1, <1>2, <1>3, <1>4, <1>5, <1>6, <1>7, <1>8, <1>9, <1>10, <1>11, <1>12, <1>13,
     <1>14, <1>15, <1>16, <1>17, <1>18, <1>19, <1>20, <1>21, <1>22, <1>23, <1>24, <1>25,
     <1>26, <1>27, <1>28 DEF Next, Call, TaskStep

-----------------------------------------------------------------------------
(* What a step of task t does to the rest of the invariant. *)

TaskKeep(t) ==
    \A u \in Tasks \ {t} :
      /\ kind'[u] = kind[u] /\ pc'[u] = pc[u]
      /\ upd'[u] = upd[u] /\ val'[u] = val[u] /\ fresh'[u] = fresh[u]

LockKeep(t) ==
    \A u \in Tasks \ {t} : /\ Holds(lq, u) => Holds(lq', u)
                           /\ Holds(lifeq, u) => Holds(lifeq', u)

\* The mutation lock is left alone, queued for, or released by its holder.
MutexEffect(t) ==
    \/ /\ mutq' = mutq
       /\ kind'[t] = "mutate" <=> kind[t] = "mutate"
       /\ kind[t] = "mutate" => Holds(mutq, t)
    \/ /\ mutq' = Append(mutq, t)
       /\ kind[t] # "mutate" /\ kind'[t] = "mutate" /\ pc'[t] = "mutex"
    \/ /\ mutq' = Tail(mutq)
       /\ Holds(mutq, t)
       /\ kind'[t] # "mutate"

\* Only the holder of the mutation lock changes what another mutation may have set.
Writes(t) ==
    \/ dev' = dev
    \/ kind[t] = "mutate" /\ pc[t] # "mutex"
    \/ dev' \subseteq Foreign \cup {Base}

Effect(t) ==
    /\ TaskKeep(t) /\ LockKeep(t) /\ MutexEffect(t)
    /\ PositionOf(t)' /\ LocksOf(t)' /\ CurrentOf(t)'
    /\ Writes(t)

\* A step with such an effect keeps the invariant.
LEMMA EffectKeepsInv ==
    ASSUME IInv, NEW t \in Tasks, Effect(t)
    PROVE  (Positions /\ LocksHeld /\ MutationQueue /\ CurrentReadLosesNothing)'
<1>1. Positions'
  BY DEF Effect, TaskKeep, IInv, Positions, PositionOf
<1>2. LocksHeld'
  BY DEF Effect, TaskKeep, LockKeep, IInv, LocksHeld, LocksOf
<1>3. MutationQueue'
  <2>1. CASE /\ mutq' = mutq
             /\ kind'[t] = "mutate" <=> kind[t] = "mutate"
             /\ kind[t] = "mutate" => Holds(mutq, t)
    BY <2>1 DEF Effect, TaskKeep, IInv, MutationQueue
  <2>2. CASE /\ mutq' = Append(mutq, t)
             /\ kind[t] # "mutate" /\ kind'[t] = "mutate" /\ pc'[t] = "mutex"
    <3>1. ~InQ(mutq, t) /\ Distinct(mutq) /\ mutq \in Seq(Tasks)
      BY <2>2 DEF IInv, MutationQueue, IntactType
    <3>2. Distinct(mutq') /\ \A u : InQ(mutq', u) => InQ(mutq, u) \/ u = t
      BY <2>2, <3>1, DistinctAppend
    <3>3. \A u : Holds(mutq, u) => Holds(mutq', u)
      BY <2>2, <3>1, QueueAppend
    <3> QED BY <2>2, <3>2, <3>3 DEF Effect, TaskKeep, IInv, MutationQueue
  <2>3. CASE /\ mutq' = Tail(mutq)
             /\ Holds(mutq, t)
             /\ kind'[t] # "mutate"
    <3>1. Distinct(mutq') /\ \A u : InQ(mutq', u) => InQ(mutq, u) /\ u # t
      BY <2>3, DistinctTail DEF IInv, MutationQueue, IntactType
    <3>2. \A u \in Tasks \ {t} : ~Holds(mutq, u)
      BY <2>3 DEF Holds
    <3> QED BY <2>3, <3>1, <3>2 DEF Effect, TaskKeep, IInv, MutationQueue
  <2> QED BY <2>1, <2>2, <2>3 DEF Effect, MutexEffect
<1>4. CurrentReadLosesNothing'
  <2> SUFFICES ASSUME NEW u \in Tasks PROVE CurrentOf(u)'
    BY DEF CurrentReadLosesNothing, CurrentOf
  <2>1. CASE u = t
    BY <2>1 DEF Effect
  <2>2. CASE u # t /\ dev' = dev
    BY <2>2 DEF Effect, TaskKeep, CurrentOf, Writing, IInv, CurrentReadLosesNothing
  <2>3. CASE u # t /\ kind[t] = "mutate" /\ pc[t] # "mutex"
    <3>1. ~Holds(mutq, u)
      BY <2>3 DEF IInv, MutationQueue, Holds
    <3>2. kind[u] # "mutate" \/ pc[u] = "mutex"
      BY <3>1 DEF IInv, MutationQueue
    <3>3. kind[u] # "mutate" \/ val[u] = Absent
      BY <3>2 DEF IInv, Positions, PositionOf
    <3> QED BY <2>3, <3>3 DEF Effect, TaskKeep, CurrentOf, Writing
  <2>4. CASE u # t /\ dev' \subseteq Foreign \cup {Base}
    <3>1. Writing(u)' => Base \in val'[u]
      BY <2>4 DEF Effect, TaskKeep, Writing, IInv, IntactType, Intact
    <3> QED BY <2>4, <3>1 DEF CurrentOf
  <2> QED BY <2>1, <2>2, <2>3, <2>4 DEF Effect, Writes
<1> QED BY <1>1, <1>2, <1>3, <1>4

-----------------------------------------------------------------------------
(* Every step of a task has such an effect. *)

\* A task that queues for a lock, or gives up one it has, takes none from another.
LEMMA QueueStep ==
    ASSUME NEW q \in Seq(Tasks), NEW t \in Tasks, NEW r,
           r = q \/ r = Append(q, t) \/ Holds(q, t)
    PROVE  \A u \in Tasks \ {t} : Holds(q, u) => Holds(r, u)
<1>1. CASE r = q
  BY <1>1
<1>2. CASE r = Append(q, t)
  BY <1>2, QueueAppend
<1>3. CASE Holds(q, t)
  BY <1>3 DEF Holds
<1> QED BY <1>1, <1>2, <1>3

\* The same for the two locks at once.
LEMMA LockStep ==
    ASSUME IInv, NEW t \in Tasks,
           lq' = lq \/ lq' = Append(lq, t) \/ Holds(lq, t),
           lifeq' = lifeq \/ lifeq' = Append(lifeq, t) \/ Holds(lifeq, t)
    PROVE  LockKeep(t)
<1>1. \A u \in Tasks \ {t} : Holds(lq, u) => Holds(lq', u)
  BY QueueStep DEF IInv, IntactType
<1>2. \A u \in Tasks \ {t} : Holds(lifeq, u) => Holds(lifeq', u)
  BY QueueStep DEF IInv, IntactType
<1> QED BY <1>1, <1>2 DEF LockKeep

\* The operation ends.
LEMMA FinishEffect ==
    ASSUME IInv, NEW t \in Tasks, Finish(t), pc[t] # "mutex"
    PROVE  /\ TaskKeep(t) /\ MutexEffect(t)
           /\ PositionOf(t)' /\ LocksOf(t)' /\ CurrentOf(t)'
<1>1. pc'[t] = "idle" /\ kind'[t] = "none" /\ val'[t] = Absent
  BY DEF Finish, Goto, IInv, IntactType
<1>2. TaskKeep(t)
  BY DEF Finish, Goto, IInv, IntactType, TaskKeep
<1>3. MutexEffect(t)
  BY <1>1 DEF Finish, MutexEffect, IInv, MutationQueue
<1>4. PositionOf(t)' /\ LocksOf(t)' /\ CurrentOf(t)'
  BY <1>1 DEF PositionOf, LocksOf, CurrentOf
<1> QED BY <1>2, <1>3, <1>4

\* The operation goes on at another point.
LEMMA GotoEffect ==
    ASSUME IInv, NEW t \in Tasks, NEW w, Goto(t, w),
           UNCHANGED <<kind, upd, val, fresh, mutq>>,
           pc[t] # "mutex" \/ (Holds(mutq, t) /\ val[t] = Absent),
           w \notin {"idle", "mutex"},
           w = "fill" => kind[t] = "mutate",
           kind[t] = "close" => w \in {"life", "lclose", "tear"},
           dev' = dev \/ dev' = val[t]
    PROVE  TaskKeep(t) /\ MutexEffect(t) /\ PositionOf(t)' /\ CurrentOf(t)'
<1>1. /\ pc'[t] = w /\ kind'[t] = kind[t] /\ upd'[t] = upd[t] /\ val'[t] = val[t]
      /\ fresh'[t] = fresh[t]
  BY DEF Goto, IInv, IntactType
<1>2. TaskKeep(t)
  BY DEF Goto, IInv, IntactType, TaskKeep
<1>3. MutexEffect(t)
  BY <1>1 DEF MutexEffect, IInv, MutationQueue
<1>4. PositionOf(t)'
  BY <1>1 DEF IInv, Positions, PositionOf
<1>5. CurrentOf(t)'
  BY <1>1 DEF CurrentOf, Writing, IInv, CurrentReadLosesNothing
<1> QED BY <1>2, <1>3, <1>4, <1>5

\* A mutation that has read either ends or holds a current copy.
LEMMA AfterReadEffect ==
    ASSUME IInv, NEW t \in Tasks, NEW v \in Intact \cup {Absent}, AfterRead(t, v),
           kind[t] = "mutate", pc[t] # "mutex", dev' = dev
    PROVE  /\ TaskKeep(t) /\ MutexEffect(t)
           /\ PositionOf(t)' /\ LocksOf(t)' /\ CurrentOf(t)'
           /\ lifeq' = lifeq \/ lifeq' = Append(lifeq, t)
<1>1. CASE v = Absent /\ Finish(t) /\ UNCHANGED lifeq
  BY <1>1, FinishEffect
<1>2. CASE /\ v # Absent
           /\ val' = [val EXCEPT ![t] = v \cup {upd[t]}]
           /\ fresh' = [fresh EXCEPT ![t] = (v = dev)]
           /\ lifeq' = Append(lifeq, t)
           /\ Goto(t, "life")
           /\ UNCHANGED <<kind, upd, mutq>>
  <2>1. /\ pc'[t] = "life" /\ kind'[t] = "mutate" /\ upd'[t] = upd[t]
        /\ val'[t] = v \cup {upd[t]}
    BY <1>2 DEF Goto, IInv, IntactType
  <2>2. fresh'[t] = (v = dev)
    BY <1>2 DEF IInv, IntactType
  <2>3. TaskKeep(t)
    BY <1>2 DEF Goto, IInv, IntactType, TaskKeep
  <2>4. MutexEffect(t)
    BY <1>2, <2>1 DEF MutexEffect, IInv, MutationQueue
  <2>5. PositionOf(t)'
    BY <2>1 DEF IInv, Positions, PositionOf
  <2>6. CurrentOf(t)'
    BY <2>1, <2>2 DEF CurrentOf
  <2>7. LocksOf(t)'
    BY <2>1 DEF LocksOf
  <2> QED BY <1>2, <2>3, <2>4, <2>5, <2>6, <2>7
<1> QED BY <1>1, <1>2 DEF AfterRead

\* The same for a read of any caller.
LEMMA ReadReturnsEffect ==
    ASSUME IInv, NEW t \in Tasks, NEW v \in Intact \cup {Absent}, ReadReturns(t, v),
           pc[t] # "mutex", dev' = dev
    PROVE  /\ TaskKeep(t) /\ MutexEffect(t)
           /\ PositionOf(t)' /\ LocksOf(t)' /\ CurrentOf(t)'
           /\ lifeq' = lifeq \/ lifeq' = Append(lifeq, t)
<1>1. CASE kind[t] = "mutate"
  BY <1>1, AfterReadEffect DEF ReadReturns
<1>2. CASE kind[t] # "mutate"
  BY <1>2, FinishEffect DEF ReadReturns
<1> QED BY <1>1, <1>2

\* A new call has such an effect.
LEMMA CallEffect ==
    ASSUME IInv, NEW t \in Tasks, Call(t)
    PROVE  Effect(t)
<1> USE DEF IInv, IntactType
<1>1. CASE Refresh(t)
  <2>1. pc'[t] = "life" /\ kind'[t] = "refresh" /\ val'[t] = Absent
    BY <1>1 DEF Refresh, Goto, Positions, PositionOf
  <2>2. TaskKeep(t)
    BY <1>1 DEF Refresh, Goto, TaskKeep
  <2>3. MutexEffect(t)
    BY <1>1, <2>1 DEF Refresh, MutexEffect, Positions, PositionOf
  <2>4. LockKeep(t)
    BY <1>1, LockStep DEF Refresh
  <2>5. PositionOf(t)' /\ LocksOf(t)' /\ CurrentOf(t)'
    BY <2>1 DEF PositionOf, LocksOf, CurrentOf
  <2> QED BY <1>1, <2>2, <2>3, <2>4, <2>5 DEF Refresh, Effect, Writes
<1>2. CASE Close(t)
  <2>1. pc'[t] = "life" /\ kind'[t] = "close" /\ val'[t] = Absent
    BY <1>2 DEF Close, Goto, Positions, PositionOf
  <2>2. TaskKeep(t)
    BY <1>2 DEF Close, Goto, TaskKeep
  <2>3. MutexEffect(t)
    BY <1>2, <2>1 DEF Close, MutexEffect, Positions, PositionOf
  <2>4. LockKeep(t)
    BY <1>2, LockStep DEF Close
  <2>5. PositionOf(t)' /\ LocksOf(t)' /\ CurrentOf(t)'
    BY <2>1 DEF PositionOf, LocksOf, CurrentOf
  <2> QED BY <1>2, <2>2, <2>3, <2>4, <2>5 DEF Close, Effect, Writes
<1>3. ASSUME NEW u \in Updates, Mutate(t, u) PROVE Effect(t)
  <2>1. /\ pc'[t] = "mutex" /\ kind'[t] = "mutate" /\ val'[t] = Absent /\ upd'[t] = u
        /\ kind[t] = "none"
    BY <1>3 DEF Mutate, Goto, Positions, PositionOf
  <2>2. TaskKeep(t)
    BY <1>3 DEF Mutate, Goto, TaskKeep
  <2>3. MutexEffect(t)
    BY <1>3, <2>1 DEF Mutate, MutexEffect
  <2>4. LockKeep(t)
    BY <1>3, LockStep DEF Mutate
  <2>5. PositionOf(t)' /\ LocksOf(t)' /\ CurrentOf(t)'
    BY <2>1 DEF PositionOf, LocksOf, CurrentOf, Writing
  <2> QED BY <1>3, <2>2, <2>3, <2>4, <2>5 DEF Mutate, Effect, Writes
<1>4. ASSUME NEW u \in Foreign, Replace(t, u) PROVE Effect(t)
  <2>1. /\ pc'[t] = "life" /\ kind'[t] = "replace" /\ val'[t] = {Base, u}
        /\ kind[t] = "none"
    BY <1>4 DEF Replace, Goto, Positions, PositionOf
  <2>2. TaskKeep(t)
    BY <1>4 DEF Replace, Goto, TaskKeep
  <2>3. MutexEffect(t)
    BY <1>4, <2>1 DEF Replace, MutexEffect
  <2>4. LockKeep(t)
    BY <1>4, LockStep DEF Replace
  <2>5. PositionOf(t)' /\ LocksOf(t)' /\ CurrentOf(t)'
    BY <2>1 DEF PositionOf, LocksOf, CurrentOf, Writing
  <2> QED BY <1>4, <2>2, <2>3, <2>4, <2>5 DEF Replace, Effect, Writes
<1> QED BY <1>1, <1>2, <1>3, <1>4 DEF Call

\* Going on at another point has such an effect.
LEMMA MoveEffect ==
    ASSUME IInv, NEW t \in Tasks, NEW w, Goto(t, w),
           UNCHANGED <<kind, upd, val, fresh, mutq>>,
           pc[t] # "mutex" \/ (Holds(mutq, t) /\ val[t] = Absent),
           w \notin {"idle", "mutex"},
           w = "fill" => kind[t] = "mutate",
           kind[t] = "close" => w \in {"life", "lclose", "tear"},
           dev' = dev \/ dev' = val[t], Writes(t),
           lq' = lq \/ lq' = Append(lq, t) \/ Holds(lq, t),
           lifeq' = lifeq \/ lifeq' = Append(lifeq, t) \/ Holds(lifeq, t),
           w \in {"hshake", "query", "sent", "tear"} => Holds(lq', t),
           kind[t] = "close" /\ w \in {"lclose", "tear"} => Holds(lifeq', t)
    PROVE  Effect(t)
<1>1. TaskKeep(t) /\ MutexEffect(t) /\ PositionOf(t)' /\ CurrentOf(t)'
  BY GotoEffect
<1>2. LockKeep(t)
  BY LockStep
<1>3. pc'[t] = w /\ kind'[t] = kind[t]
  BY DEF Goto, IInv, IntactType
<1>4. LocksOf(t)'
  BY <1>3 DEF LocksOf
<1> QED BY <1>1, <1>2, <1>4 DEF Effect

\* Ending the operation has such an effect.
LEMMA EndEffect ==
    ASSUME IInv, NEW t \in Tasks, Finish(t), pc[t] # "mutex",
           Writes(t),
           lq' = lq \/ lq' = Append(lq, t) \/ Holds(lq, t),
           lifeq' = lifeq \/ lifeq' = Append(lifeq, t) \/ Holds(lifeq, t)
    PROVE  Effect(t)
BY FinishEffect, LockStep DEF Effect

\* Returning from a read has such an effect.
LEMMA ReadEffect ==
    ASSUME IInv, NEW t \in Tasks, NEW v \in Intact \cup {Absent},
           ReadReturns(t, v) \/ (AfterRead(t, v) /\ kind[t] = "mutate"),
           pc[t] # "mutex", dev' = dev, lq' = lq \/ Holds(lq, t)
    PROVE  Effect(t)
<1>1. ReadReturns(t, v)
  BY DEF ReadReturns
<1>2. /\ TaskKeep(t) /\ MutexEffect(t)
      /\ PositionOf(t)' /\ LocksOf(t)' /\ CurrentOf(t)'
      /\ lifeq' = lifeq \/ lifeq' = Append(lifeq, t)
  BY <1>1, ReadReturnsEffect
<1>3. LockKeep(t)
  BY <1>2, LockStep
<1> QED BY <1>2, <1>3 DEF Effect, Writes

\* Starting a datapoint operation has such an effect.
LEMMA BeginOpEffect ==
    ASSUME IInv, NEW t \in Tasks, NEW q, BeginOp(t, q),
           UNCHANGED <<kind, upd, val, fresh, mutq, dev>>,
           pc[t] # "mutex", kind[t] # "close",
           q = lq \/ Holds(lq, t),
           lifeq' = lifeq \/ Holds(lifeq, t)
    PROVE  Effect(t)
<1>1. CASE backoff
  BY <1>1, MoveEffect DEF Writes, BeginOp
<1>2. CASE ~backoff
  BY <1>2, MoveEffect DEF Writes, BeginOp
<1> QED BY <1>1, <1>2

\* Returning from the primary's connect() has such an effect.
LEMMA LocalConnectedEffect ==
    ASSUME IInv, NEW t \in Tasks, NEW q, LocalConnected(t, q),
           UNCHANGED <<kind, upd, val, fresh, mutq, dev>>,
           pc[t] \in {"lconn", "hshake"}, Holds(lq, t)
    PROVE  Effect(t)
<1>1. kind[t] # "close"
  BY DEF IInv, Positions, PositionOf
<1>2. CASE Opening(t)
  BY <1>1, <1>2, BeginOpEffect DEF LocalConnected, ConnectReturns, Opening
<1>3. CASE ~Opening(t)
  BY <1>1, <1>3, MoveEffect DEF Writes, LocalConnected
<1> QED BY <1>2, <1>3

\* A failure of the primary has such an effect.
LEMMA MarkPrimaryDeadEffect ==
    ASSUME IInv, NEW t \in Tasks, MarkPrimaryDead(t),
           UNCHANGED <<kind, upd, val, fresh, lifeq, mutq, dev>>,
           pc[t] \in {"hshake", "lop", "query", "sent"}, Holds(lq, t)
    PROVE  Effect(t)
<1>1. kind[t] # "close"
  BY DEF IInv, Positions, PositionOf
<1> QED BY <1>1, MoveEffect DEF Writes, MarkPrimaryDead

\* Every step of a running operation has such an effect.
LEMMA TaskStepEffect ==
    ASSUME IInv, NEW t \in Tasks, TaskStep(t)
    PROVE  Effect(t)
<1> USE DEF IInv, Positions, PositionOf, LocksHeld, LocksOf
<1>1. CASE MutationLock(t)
  BY <1>1, MoveEffect DEF Writes, MutationLock
<1>2. CASE LifecycleLock(t)
  <2>1. CASE kind[t] # "close" /\ lifeq' = Tail(lifeq) /\ BeginOp(t, lq)
    BY <1>2, <2>1, BeginOpEffect DEF LifecycleLock
  <2>2. CASE kind[t] # "close" /\ lq' = Append(lq, t) /\ Goto(t, "lconn") /\ UNCHANGED lifeq
    BY <1>2, <2>2, MoveEffect DEF Writes, LifecycleLock
  <2>3. CASE kind[t] = "close" /\ lq' = Append(lq, t) /\ Goto(t, "lclose") /\ UNCHANGED lifeq
    BY <1>2, <2>3, MoveEffect DEF Writes, LifecycleLock
  <2> QED BY <1>2, <2>1, <2>2, <2>3 DEF LifecycleLock
<1>3. CASE LocalConnect(t)
  <2>1. CASE LocalConnected(t, Tail(lq))
    BY <1>3, <2>1, LocalConnectedEffect DEF LocalConnect
  <2>2. CASE Goto(t, "hshake") /\ UNCHANGED <<connected, lifeq, lq>>
    BY <1>3, <2>2, MoveEffect DEF Writes, LocalConnect
  <2> QED BY <1>3, <2>1, <2>2 DEF LocalConnect
<1>4. CASE HandshakeOk(t)
  BY <1>4, LocalConnectedEffect DEF HandshakeOk
<1>5. CASE HandshakeFails(t)
  BY <1>5, MarkPrimaryDeadEffect DEF HandshakeFails
<1>6. CASE LocalOpFails(t)
  BY <1>6, MarkPrimaryDeadEffect DEF LocalOpFails
<1>7. CASE Query(t)
  BY <1>7, MoveEffect DEF Writes, Query, lockVars
<1>8. CASE QueryAnswered(t)
  <2>1. Holds(lq, t)
    BY <1>8 DEF QueryAnswered
  <2>2. CASE kind[t] = "mutate" /\ Goto(t, "fill") /\ UNCHANGED <<kind, upd, val, fresh, lifeq, mutq>>
    BY <1>8, <2>1, <2>2, MoveEffect DEF Writes, QueryAnswered
  <2>3. CASE ReadReturns(t, cache)
    BY <1>8, <2>1, <2>3, ReadEffect DEF QueryAnswered, IntactType
  <2> QED BY <1>8, <2>2, <2>3 DEF QueryAnswered
<1>9. CASE QueryTimesOut(t)
  BY <1>9, MarkPrimaryDeadEffect DEF QueryTimesOut
<1>10. CASE WriteSent(t)
  BY <1>10, MoveEffect DEF Writes, WriteSent, Writing, lockVars
<1>11. CASE WriteCached(t)
  BY <1>11, EndEffect DEF Writes, WriteCached
<1>12. CASE LocalClose(t)
  BY <1>12, MoveEffect DEF Writes, LocalClose, lockVars
<1>13. CASE LocalClosed(t)
  <2>1. CASE kind[t] = "close" /\ lifeq' = Tail(lifeq) /\ Finish(t)
    BY <1>13, <2>1, EndEffect DEF Writes, LocalClosed
  <2>2. CASE kind[t] # "close" /\ Goto(t, "cloud") /\ UNCHANGED <<kind, upd, val, fresh, lifeq, mutq>>
    BY <1>13, <2>2, MoveEffect DEF Writes, LocalClosed
  <2> QED BY <1>13, <2>1, <2>2 DEF LocalClosed
<1>14. CASE CloudConnect(t)
  BY <1>14, BeginOpEffect DEF CloudConnect, ConnectReturns, Opening
<1>15. CASE CloudRead(t)
  BY <1>15, ReadEffect DEF CloudRead, IntactType
<1>16. CASE CloudWrite(t)
  BY <1>16, EndEffect DEF Writes, CloudWrite, Writing
<1>17. CASE CloudFails(t)
  BY <1>17, EndEffect DEF Writes, CloudFails, Opening
<1>18. CASE CloudFill(t)
  BY <1>18, ReadEffect DEF CloudFill, IntactType
<1>19. CASE WriteFails(t)
  BY <1>19, MarkPrimaryDeadEffect DEF WriteFails
<1> QED
  BY <1>1, <1>2, <1>3, <1>4, <1>5, <1>6, <1>7, <1>8, <1>9, <1>10, <1>11, <1>12, <1>13,
     <1>14, <1>15, <1>16, <1>17, <1>18, <1>19 DEF TaskStep

-----------------------------------------------------------------------------
(* The theorems. *)

\* The invariant holds initially.
LEMMA InitIInv == Init => IInv
<1> SUFFICES ASSUME Init PROVE IInv
  OBVIOUS
<1>1. <<>> \in Seq(Tasks) /\ <<>> \in Seq(Intact \cup {Absent}) /\ Len(<<>>) = 0
  BY EmptySeq
<1>2. dev \in Intact
  BY DEF Init, Intact, Settings
<1>3. IntactType
  BY <1>1, <1>2 DEF Init, IntactType, Pcs
<1>4. Positions /\ LocksHeld
  BY DEF Init, Positions, PositionOf, LocksHeld, LocksOf
<1>5. MutationQueue
  BY <1>1 DEF Init, MutationQueue, Distinct, InQ
<1>6. CurrentReadLosesNothing
  BY DEF Init, CurrentReadLosesNothing
<1> QED BY <1>3, <1>4, <1>5, <1>6 DEF IInv

\* Every step keeps the invariant.
LEMMA NextIInv == IInv /\ [Next]_vars => IInv'
<1> SUFFICES ASSUME IInv, [Next]_vars PROVE IInv'
  OBVIOUS
<1>1. IntactType'
  BY TypeStep
<1> SUFFICES (Positions /\ LocksHeld /\ MutationQueue /\ CurrentReadLosesNothing)'
  BY <1>1 DEF IInv
<1>2. ASSUME NEW t \in Tasks, Call(t) \/ TaskStep(t)
      PROVE  (Positions /\ LocksHeld /\ MutationQueue /\ CurrentReadLosesNothing)'
  <2>1. Effect(t)
    BY <1>2, CallEffect, TaskStepEffect
  <2> QED BY <2>1, EffectKeepsInv
<1>3. CASE Deliver \/ BackoffEnds \/ LinkDies \/ UNCHANGED vars
  <2>1. UNCHANGED <<kind, pc, upd, val, fresh, lifeq, mutq, lq, dev>>
    BY <1>3 DEF Deliver, BackoffEnds, LinkDies, vars, taskVars, lockVars
  <2> QED
    BY <2>1 DEF IInv, Positions, PositionOf, LocksHeld, LocksOf, MutationQueue,
                CurrentReadLosesNothing, Writing
\* A change made elsewhere is the one thing a current read may miss.
<1>4. ASSUME NEW u \in Foreign, PhoneEdit(u)
      PROVE  (Positions /\ LocksHeld /\ MutationQueue /\ CurrentReadLosesNothing)'
  <2>1. UNCHANGED <<kind, pc, upd, val, fresh, lifeq, mutq, lq>> /\ dev' = dev \cup {u}
    BY <1>4 DEF PhoneEdit, taskVars, lockVars
  <2>2. (Positions /\ LocksHeld /\ MutationQueue)'
    BY <2>1 DEF IInv, Positions, PositionOf, LocksHeld, LocksOf, MutationQueue
  <2>3. CurrentReadLosesNothing'
    BY <2>1 DEF IInv, CurrentReadLosesNothing, Writing
  <2> QED BY <2>2, <2>3
<1> QED BY <1>2, <1>3, <1>4 DEF Next

\* The invariant that carries the others.
THEOREM Invariance == Spec => []IInv
BY InitIInv, NextIInv, PTL DEF Spec

\* Every variable of the client keeps its type.
THEOREM TypeCorrect == Spec => []TypeOK
<1>1. IInv => TypeOK
  <2> SUFFICES ASSUME IInv PROVE TypeOK
    OBVIOUS
  <2>1. Intact \subseteq Settings
    BY DEF Intact
  <2>2. wire \in Seq(Settings \cup {Absent})
    BY <2>1, SeqMonotonic DEF IInv, IntactType
  <2>3. val \in [Tasks -> Settings \cup {Absent}]
    BY <2>1 DEF IInv, IntactType
  <2>4. fresh \in [Tasks -> BOOLEAN]
    BY DEF IInv, IntactType
  <2> QED BY <2>1, <2>2, <2>3, <2>4 DEF IInv, IntactType, TypeOK
<1> QED BY Invariance, <1>1, PTL

\* "refusing to overwrite unknown system settings": for any number of tasks, mutations and
\* foreign edits, no mutation resets a field that nobody changed.
THEOREM UnknownNeverWritten == Spec => []UntouchedFieldsSurvive
<1>1. IInv => UntouchedFieldsSurvive
  BY DEF IInv, IntactType, Intact, UntouchedFieldsSurvive
<1> QED BY Invariance, <1>1, PTL

\* "serialized as one transaction": a mutation whose read was current undoes no other
\* mutation of the client, whatever the channel, the failures and the other tasks.
THEOREM SerializedMutations == Spec => []CurrentReadLosesNothing
<1>1. IInv => CurrentReadLosesNothing
  BY DEF IInv
<1> QED BY Invariance, <1>1, PTL

\* A task that gave up on the session waits to close it.
FailedWaits == \A t \in failed : pc[t] = "lclose"

\* A step of a task ends the session, leaves its failures alone, or is a failure itself.
LEMMA FailureStep ==
    ASSUME IInv, NEW t \in Tasks, Call(t) \/ TaskStep(t)
    PROVE  \/ failed' = {}
           \/ failed' = failed /\ pc[t] # "lclose"
           \/ failed' \subseteq failed \cup {t} /\ pc'[t] = "lclose"
<1>1. ASSUME MarkPrimaryDead(t)
      PROVE  failed' \subseteq failed \cup {t} /\ pc'[t] = "lclose"
  BY <1>1 DEF MarkPrimaryDead, Goto, IInv, IntactType
<1>2. CASE Call(t)
  BY <1>2 DEF Call, Refresh, Close, Mutate, Replace, localVars
<1>3. CASE HandshakeFails(t) \/ LocalOpFails(t) \/ QueryTimesOut(t) \/ WriteFails(t)
  BY <1>1, <1>3 DEF HandshakeFails, LocalOpFails, QueryTimesOut, WriteFails
<1>4. CASE HandshakeOk(t) \/ LocalClose(t)
  BY <1>4 DEF HandshakeOk, LocalClose
<1>5. CASE MutationLock(t) \/ LifecycleLock(t) \/ LocalConnect(t) \/ Query(t)
  BY <1>5 DEF MutationLock, LifecycleLock, LocalConnect, Query, localVars
<1>6. CASE QueryAnswered(t) \/ WriteSent(t) \/ WriteCached(t) \/ LocalClosed(t)
  BY <1>6 DEF QueryAnswered, WriteSent, WriteCached, LocalClosed
<1>7. CASE CloudConnect(t) \/ CloudRead(t) \/ CloudWrite(t) \/ CloudFails(t) \/ CloudFill(t)
  BY <1>7 DEF CloudConnect, CloudRead, CloudWrite, CloudFails, CloudFill, localVars
<1> QED BY <1>2, <1>3, <1>4, <1>5, <1>6, <1>7 DEF TaskStep

\* "On failure the primary is closed ..., the operation retries on fallback": whatever the
\* other tasks do with the primary, a task only turns to the fallback once the session it
\* failed on is gone.
THEOREM FailuresClose == Spec => []FailedSessionGone
<1>1. Init => FailedWaits
  BY DEF Init, FailedWaits
<1>2. IInv /\ FailedWaits /\ [Next]_vars => FailedWaits'
  <2> SUFFICES ASSUME IInv, FailedWaits, [Next]_vars PROVE FailedWaits'
    OBVIOUS
  <2>1. ASSUME NEW t \in Tasks, Call(t) \/ TaskStep(t) PROVE FailedWaits'
    <3>1. TaskKeep(t)
      BY <2>1, CallEffect, TaskStepEffect DEF Effect
    <3>2. failed \subseteq Tasks
      BY DEF IInv, IntactType
    <3> QED BY <2>1, <3>1, <3>2, FailureStep DEF FailedWaits, TaskKeep
  <2>2. CASE Deliver \/ BackoffEnds \/ LinkDies \/ UNCHANGED vars
    BY <2>2 DEF Deliver, BackoffEnds, LinkDies, vars, taskVars, localVars, FailedWaits
  <2>3. ASSUME NEW u \in Foreign, PhoneEdit(u) PROVE FailedWaits'
    BY <2>3 DEF PhoneEdit, taskVars, FailedWaits
  <2> QED BY <2>1, <2>2, <2>3 DEF Next
<1>3. IInv /\ FailedWaits => FailedSessionGone
  BY DEF FailedWaits, FailedSessionGone
<1> QED BY Invariance, <1>1, <1>2, <1>3, PTL DEF Spec

-----------------------------------------------------------------------------
(* Closing. *)

\* The positions of a task that waits for the transport's lock or holds it, and of one that
\* may open a session.
Queued     == {"lconn", "hshake", "lop", "query", "sent", "lclose", "tear"}
Connecting == {"lconn", "hshake"}

\* PopurClient.close has queued for the transport's lock.
Closing(c) == kind[c] = "close" /\ pc[c] \in {"lclose", "tear"}

\* A datapoint operation that opens a session without the client's connect().
Direct(t) == pc[t] \in Connecting /\ ~Opening(t)

Before(q, t, c) == \A i, j \in 1..Len(q) : q[i] = c /\ q[j] = t => j < i

\* The transport's lock is a queue of the tasks at such a position, and a close waits behind
\* every operation that may still open a session.
TransportQueue ==
    /\ Distinct(lq)
    /\ \A t \in Tasks : InQ(lq, t) <=> pc[t] \in Queued
    /\ \A c, t \in Tasks : Closing(c) /\ Direct(t) => Before(lq, t, c)

\* A client that is not connected has no session, and only its connect() may open one.
Unconnected ==
    /\ ~connected => session # "live" /\ \A t \in Tasks : ~Direct(t)
    /\ \A t \in Tasks : pc[t] = "tear" => session # "live"

ClosingInv == TransportQueue /\ Unconnected

\* What a step of a task does to the transport's queue ...
QueueMove(t) ==
    \/ lq' = lq /\ (pc'[t] \in Queued <=> pc[t] \in Queued)
    \/ lq' = Append(lq, t) /\ pc[t] \notin Queued /\ pc'[t] \in Queued
    \/ Holds(lq, t) /\ lq' = Tail(lq) /\ pc'[t] \notin Queued
    \/ Holds(lq, t) /\ lq' = Append(Tail(lq), t) /\ pc'[t] \in Queued

\* ... and to the session.
SessionMove(t) ==
    /\ pc'[t] = "tear" => session' # "live"
    /\ session' = "live" => session = "live" \/ (pc[t] = "hshake" /\ (Opening(t) => connected'))
    /\ ~connected' => ~connected \/ (Closing(t) /\ pc[t] = "tear" /\ session' = session)
    /\ Direct(t)' => \/ Direct(t) /\ lq' = lq /\ (connected' => connected)
                     \/ connected' /\ Holds(lifeq, t) /\ kind[t] # "close"
    /\ Closing(t)' => (Closing(t) /\ lq' = lq) \/ pc[t] \notin Queued

\* Joining a queue leaves the order of the others as it was, and comes after them.
LEMMA AppendOrder ==
    ASSUME NEW q \in Seq(Tasks), NEW t \in Tasks, ~InQ(q, t), Distinct(q)
    PROVE  /\ Append(q, t) \in Seq(Tasks) /\ Distinct(Append(q, t))
           /\ \A u : InQ(Append(q, t), u) <=> InQ(q, u) \/ u = t
           /\ \A u, v \in Tasks : u # v /\ v # t /\ u # t /\ Before(q, u, v)
                                     => Before(Append(q, t), u, v)
           /\ \A u \in Tasks \ {t} : Before(Append(q, t), u, t)
<1>1. /\ Len(q) \in Nat
      /\ Len(Append(q, t)) = Len(q) + 1
      /\ \A i \in 1..Len(q) : Append(q, t)[i] = q[i]
      /\ Append(q, t)[Len(q) + 1] = t
      /\ Append(q, t) \in Seq(Tasks)
  BY AppendProperties, LenProperties
<1> DEFINE r == Append(q, t)
<1> HIDE DEF r
<1>2. /\ Len(r) = Len(q) + 1
      /\ \A i \in 1..Len(r) : IF i = Len(q) + 1 THEN r[i] = t ELSE i \in 1..Len(q) /\ r[i] = q[i]
      /\ \A i \in 1..Len(q) : i \in 1..Len(r) /\ r[i] = q[i]
      /\ Len(q) + 1 \in 1..Len(r) /\ r[Len(q) + 1] = t
  BY <1>1 DEF r
<1>3. Distinct(r)
  BY <1>1, <1>2 DEF Distinct, InQ
<1>4. \A u : InQ(r, u) <=> InQ(q, u) \/ u = t
  BY <1>2 DEF InQ
<1>5. \A u, v \in Tasks : u # v /\ v # t /\ u # t /\ Before(q, u, v) => Before(r, u, v)
  BY <1>2 DEF Before
<1>6. \A u \in Tasks \ {t} : Before(r, u, t)
  <2> SUFFICES ASSUME NEW u \in Tasks \ {t}, NEW i \in 1..Len(r), NEW j \in 1..Len(r),
                      r[i] = t, r[j] = u
               PROVE  j < i
    BY DEF Before
  <2>1. i = Len(q) + 1
    BY <1>2 DEF InQ
  <2>2. j \in 1..Len(q)
    BY <1>2
  <2> QED
    BY <1>1, <2>1, <2>2
<1> QED
  BY <1>1, <1>3, <1>4, <1>5, <1>6 DEF r

\* So does leaving it.
LEMMA TailOrder ==
    ASSUME NEW q \in Seq(Tasks), NEW t \in Tasks, Holds(q, t), Distinct(q)
    PROVE  /\ Tail(q) \in Seq(Tasks) /\ Distinct(Tail(q))
           /\ \A u : InQ(Tail(q), u) <=> InQ(q, u) /\ u # t
           /\ \A u, v \in Tasks : Before(q, u, v) => Before(Tail(q), u, v)
           /\ \A u \in Tasks : Before(q, u, t) => ~InQ(q, u)
<1>1. /\ Len(q) \in Nat /\ Len(q) >= 1 /\ q[1] = t
      /\ Tail(q) \in Seq(Tasks) /\ Len(Tail(q)) = Len(q) - 1
      /\ \A i \in 1..Len(Tail(q)) : Tail(q)[i] = q[i + 1]
  BY HeadTailProperties, LenProperties, EmptySeq DEF Holds
<1> DEFINE r == Tail(q)
<1> HIDE DEF r
<1>2. /\ \A i \in 1..Len(r) : i + 1 \in 1..Len(q) /\ r[i] = q[i + 1]
      /\ \A i \in 1..Len(q) : i # 1 => i - 1 \in 1..Len(r) /\ r[i - 1] = q[i]
      /\ Len(r) \in Nat
  BY <1>1 DEF r
<1>3. Distinct(r)
  <2> SUFFICES ASSUME NEW i \in 1..Len(r), NEW j \in 1..Len(r), r[i] = r[j] PROVE i = j
    BY DEF Distinct
  <2>1. i + 1 = j + 1
    BY <1>2 DEF Distinct
  <2> QED
    BY <1>2, <2>1
<1>4. ASSUME NEW u PROVE InQ(r, u) <=> InQ(q, u) /\ u # t
  <2>1. InQ(r, u) => InQ(q, u) /\ u # t
    <3> SUFFICES ASSUME NEW i \in 1..Len(r), r[i] = u PROVE InQ(q, u) /\ u # t
      BY DEF InQ
    <3>1. i + 1 \in 1..Len(q) /\ q[i + 1] = u /\ i + 1 # 1 /\ 1 \in 1..Len(q)
      BY <1>1, <1>2
    <3> QED
      BY <1>1, <3>1 DEF InQ, Distinct
  <2>2. InQ(q, u) /\ u # t => InQ(r, u)
    <3> SUFFICES ASSUME NEW i \in 1..Len(q), q[i] = u, u # t PROVE InQ(r, u)
      BY DEF InQ
    <3>1. i - 1 \in 1..Len(r) /\ r[i - 1] = u
      BY <1>1, <1>2
    <3> QED
      BY <3>1 DEF InQ
  <2> QED
    BY <2>1, <2>2
<1>5. ASSUME NEW u \in Tasks, NEW v \in Tasks, Before(q, u, v) PROVE Before(r, u, v)
  <2> SUFFICES ASSUME NEW i \in 1..Len(r), NEW j \in 1..Len(r), r[i] = v, r[j] = u PROVE j < i
    BY DEF Before
  <2>1. j + 1 < i + 1
    BY <1>2, <1>5 DEF Before
  <2> QED
    BY <1>2, <2>1
<1>6. ASSUME NEW u \in Tasks, Before(q, u, t) PROVE ~InQ(q, u)
  <2> SUFFICES ASSUME NEW j \in 1..Len(q), q[j] = u PROVE FALSE
    BY DEF InQ
  <2>1. 1 \in 1..Len(q)
    BY <1>1
  <2>2. j < 1
    BY <1>1, <1>6, <2>1 DEF Before
  <2> QED
    BY <1>1, <2>2
<1> QED
  BY <1>1, <1>3, <1>4, <1>5, <1>6 DEF r

\* A step with such effects keeps the queue in order ...
LEMMA QueueMoves ==
    ASSUME IInv, TransportQueue, NEW t \in Tasks, TaskKeep(t), LockKeep(t), QueueMove(t), SessionMove(t)
    PROVE  TransportQueue'
<1>1. lq \in Seq(Tasks) /\ Distinct(lq) /\ \A u \in Tasks : InQ(lq, u) <=> pc[u] \in Queued
  BY DEF IInv, IntactType, TransportQueue
<1>2. /\ Distinct(lq')
      /\ \A u \in Tasks : InQ(lq', u) <=> pc'[u] \in Queued
      /\ \A u, v \in Tasks \ {t} : u # v /\ Before(lq, u, v) => Before(lq', u, v)
      /\ lq' = lq \/ \A u \in Tasks \ {t} : pc[t] \notin Queued => Before(lq', u, t)
  <2>1. CASE lq' = lq /\ (pc'[t] \in Queued <=> pc[t] \in Queued)
    BY <1>1, <2>1 DEF TaskKeep
  <2>2. CASE lq' = Append(lq, t) /\ pc[t] \notin Queued /\ pc'[t] \in Queued
    BY <1>1, <2>2, AppendOrder DEF TaskKeep
  <2>3. CASE Holds(lq, t) /\ lq' = Tail(lq) /\ pc'[t] \notin Queued
    <3>1. InQ(lq, t)
      BY <1>1, <2>3, HeadTailProperties, LenProperties, EmptySeq DEF Holds, InQ
    <3> QED
      BY <1>1, <2>3, <3>1, TailOrder DEF TaskKeep
  <2>4. CASE Holds(lq, t) /\ lq' = Append(Tail(lq), t) /\ pc'[t] \in Queued
    <3>1. InQ(lq, t)
      BY <1>1, <2>4, HeadTailProperties, LenProperties, EmptySeq DEF Holds, InQ
    <3>2. /\ Tail(lq) \in Seq(Tasks) /\ Distinct(Tail(lq)) /\ ~InQ(Tail(lq), t)
          /\ \A u \in Tasks : InQ(Tail(lq), u) <=> InQ(lq, u) /\ u # t
          /\ \A u, v \in Tasks : Before(lq, u, v) => Before(Tail(lq), u, v)
      BY <1>1, <2>4, TailOrder
    <3>3. /\ Distinct(lq')
          /\ \A u \in Tasks : InQ(lq', u) <=> InQ(Tail(lq), u) \/ u = t
          /\ \A u, v \in Tasks \ {t} : u # v /\ Before(Tail(lq), u, v) => Before(lq', u, v)
      BY <2>4, <3>2, AppendOrder
    <3> QED
      BY <1>1, <2>4, <3>1, <3>2, <3>3 DEF TaskKeep
  <2> QED
    BY <2>1, <2>2, <2>3, <2>4 DEF QueueMove
<1>3. ASSUME NEW c \in Tasks, NEW u \in Tasks, Closing(c)', Direct(u)' PROVE Before(lq', u, c)
  <2>1. c # u
    BY <1>3 DEF Closing, Direct, Connecting
  <2>2. c # t => Closing(c) /\ Holds(lifeq, c)
    BY <1>3 DEF Closing, TaskKeep, IInv, LocksHeld, LocksOf
  <2>3. u # t => Direct(u)
    BY <1>3 DEF Direct, Opening, TaskKeep, LockKeep
  <2>4. Closing(c) /\ Direct(u) => Before(lq, u, c)
    BY DEF TransportQueue
  <2>5. CASE c # t /\ u # t
    BY <1>2, <2>1, <2>2, <2>3, <2>4, <2>5
  <2>6. CASE c = t
    <3>1. (Closing(t) /\ lq' = lq) \/ pc[t] \notin Queued
      BY <1>3, <2>6 DEF SessionMove
    <3>2. CASE lq' # lq
      <4>1. pc[t] \notin Queued
        BY <3>1, <3>2
      <4> QED
        BY <1>2, <2>1, <2>6, <3>2, <4>1
    <3>3. CASE lq' = lq
      <4>1. InQ(lq', t)
        BY <1>2, <1>3, <2>6 DEF Closing, Queued
      <4>2. Closing(t)
        BY <1>1, <3>1, <3>3, <4>1
      <4> QED
        BY <2>1, <2>3, <2>4, <2>6, <3>3, <4>2
    <3> QED
      BY <3>2, <3>3
  <2>7. CASE u = t
    <3>1. Closing(c) /\ Holds(lifeq, c)
      BY <2>1, <2>2, <2>7
    <3>2. ~Holds(lifeq, t)
      BY <2>1, <2>7, <3>1 DEF Holds
    <3>3. Direct(t) /\ lq' = lq
      BY <1>3, <2>7, <3>2 DEF SessionMove
    <3> QED
      BY <2>4, <2>7, <3>1, <3>3
  <2> QED
    BY <2>5, <2>6, <2>7
<1> QED
  BY <1>2, <1>3 DEF TransportQueue

\* ... and an unconnected client without a session.
LEMMA SessionMoves ==
    ASSUME IInv, ClosingInv, NEW t \in Tasks, TaskKeep(t), LockKeep(t), SessionMove(t)
    PROVE  Unconnected'
<1>1. ASSUME NEW u \in Tasks, pc'[u] = "tear" PROVE session' # "live"
  <2>1. CASE u = t
    BY <1>1, <2>1 DEF SessionMove
  <2>2. CASE u # t
    <3>1. pc[u] = "tear" /\ session # "live" /\ Holds(lq, u)
      BY <1>1, <2>2 DEF TaskKeep, ClosingInv, Unconnected, IInv, LocksHeld, LocksOf
    <3>2. pc[t] # "hshake"
      BY <2>2, <3>1 DEF IInv, LocksHeld, LocksOf, Holds
    <3> QED
      BY <3>1, <3>2 DEF SessionMove
  <2> QED
    BY <2>1, <2>2
<1>2. ASSUME ~connected' PROVE session' # "live" /\ \A u \in Tasks : ~Direct(u)'
  <2>1. \A u \in Tasks : u # t /\ Direct(u)' => Direct(u)
    BY DEF Direct, Opening, TaskKeep, LockKeep
  <2>2. CASE ~connected
    <3>1. session # "live" /\ \A u \in Tasks : ~Direct(u)
      BY <2>2 DEF ClosingInv, Unconnected
    <3>2. ~Direct(t)'
      BY <1>2, <3>1 DEF SessionMove
    <3>3. session' # "live"
      BY <1>2, <3>1 DEF SessionMove, Direct, Connecting
    <3> QED
      BY <2>1, <3>1, <3>2, <3>3
  <2>3. CASE Closing(t) /\ pc[t] = "tear" /\ session' = session
    <3>1. session' # "live"
      BY <2>3 DEF ClosingInv, Unconnected
    <3>2. Holds(lq, t) /\ Distinct(lq) /\ lq \in Seq(Tasks)
      BY <2>3 DEF ClosingInv, TransportQueue, IInv, IntactType, LocksHeld, LocksOf
    <3>3. ASSUME NEW u \in Tasks, Direct(u) PROVE FALSE
      <4>1. Before(lq, u, t) /\ InQ(lq, u)
        BY <2>3, <3>3 DEF ClosingInv, TransportQueue, Direct, Connecting, Queued
      <4> QED
        BY <3>2, <4>1, TailOrder
    <3>4. ~Direct(t)'
      BY <1>2, <3>3 DEF SessionMove
    <3> QED
      BY <2>1, <3>1, <3>3, <3>4
  <2> QED
    BY <1>2, <2>2, <2>3 DEF SessionMove
<1> QED
  BY <1>1, <1>2 DEF Unconnected

\* A task of the transport that returns to transport.connect() or goes on with its operation.
LEMMA ConnectedMoves ==
    ASSUME IInv, NEW t \in Tasks, LocalConnected(t, Tail(lq)), Holds(lq, t), pc[t] \in Connecting,
           UNCHANGED kind, session' = session \/ pc[t] = "hshake"
    PROVE  QueueMove(t) /\ SessionMove(t)
<1> USE DEF Queued, Connecting
<1>1. pc \in [Tasks -> Pcs] /\ kind[t] # "close"
  BY DEF IInv, IntactType, Positions, PositionOf
<1>2. CASE Opening(t)
  <2>1. connected' /\ Holds(lifeq, t) /\ BeginOp(t, Tail(lq))
    BY <1>2 DEF LocalConnected, ConnectReturns, Opening
  <2>2. QueueMove(t) /\ pc'[t] # "tear"
    BY <1>1, <2>1 DEF QueueMove, BeginOp, Goto
  <2>3. SessionMove(t)
    BY <1>1, <2>1, <2>2 DEF SessionMove, Closing
  <2> QED
    BY <2>2, <2>3
<1>3. CASE ~Opening(t)
  <2>1. /\ lq' = Append(Tail(lq), t) /\ pc'[t] = "lop"
        /\ UNCHANGED <<connected, lifeq>>
    BY <1>1, <1>3 DEF LocalConnected, Goto
  <2> QED
    BY <1>1, <1>3, <2>1 DEF QueueMove, SessionMove, Closing, Direct
<1> QED
  BY <1>2, <1>3

\* A step that leaves the session alone and neither connects nor closes.
LEMMA QuietMoves ==
    ASSUME NEW t \in Tasks, QueueMove(t), UNCHANGED connected,
           session' = session \/ session' # "live",
           pc'[t] \notin {"lconn", "hshake", "tear"}, ~Closing(t)'
    PROVE  SessionMove(t)
BY DEF SessionMove, Direct, Connecting

\* Every step of a task has these effects.
LEMMA TaskMoves ==
    ASSUME IInv, NEW t \in Tasks, Call(t) \/ TaskStep(t)
    PROVE  QueueMove(t) /\ SessionMove(t)
<1> USE DEF Queued
<1>1. /\ pc \in [Tasks -> Pcs] /\ kind \in [Tasks -> {"none", "refresh", "mutate", "replace", "close"}]
      /\ kind[t] = "close" => pc[t] \in {"life", "lclose", "tear"}
      /\ pc[t] \in {"hshake", "query", "sent", "tear"} => Holds(lq, t)
      /\ kind[t] = "close" /\ pc[t] \in {"lclose", "tear"} => Holds(lifeq, t)
  BY DEF IInv, IntactType, Positions, PositionOf, LocksHeld, LocksOf
\* The operation ends or, after a read, queues for the lifecycle lock.
<1>2. ASSUME Finish(t) PROVE pc'[t] = "idle"
  BY <1>1, <1>2 DEF Finish, Goto
<1>3. ASSUME NEW v, AfterRead(t, v) \/ ReadReturns(t, v) PROVE pc'[t] \in {"idle", "life"}
  BY <1>1, <1>2, <1>3 DEF AfterRead, ReadReturns, Goto
<1>4. ASSUME MarkPrimaryDead(t), Holds(lq, t), kind[t] # "close", UNCHANGED <<kind, connected>>,
             session' = session \/ session' # "live"
      PROVE  QueueMove(t) /\ SessionMove(t)
  <2>1. lq' = Append(Tail(lq), t) /\ pc'[t] = "lclose"
    BY <1>1, <1>4 DEF MarkPrimaryDead, Goto
  <2>2. QueueMove(t) /\ ~Closing(t)'
    BY <1>4, <2>1 DEF QueueMove, Closing
  <2> QED
    BY <1>4, <2>1, <2>2, QuietMoves
<1>5. CASE Call(t) \/ MutationLock(t)
  <2>1. /\ pc[t] \in {"idle", "mutex"} /\ pc'[t] \in {"mutex", "life"}
        /\ UNCHANGED <<lq, connected, session>>
    BY <1>1, <1>5 DEF Call, Refresh, Close, Mutate, Replace, MutationLock, Goto, localVars
  <2>2. QueueMove(t) /\ ~Closing(t)'
    BY <2>1 DEF QueueMove, Closing
  <2> QED
    BY <2>1, <2>2, QuietMoves
<1>6. CASE LifecycleLock(t)
  <2>1. pc[t] = "life" /\ Holds(lifeq, t) /\ UNCHANGED <<kind, connected, session>>
    BY <1>6 DEF LifecycleLock, localVars
  <2>2. CASE kind[t] # "close" /\ connected /\ BeginOp(t, lq)
    <3>1. QueueMove(t) /\ pc'[t] \in {"cloud", "lconn"}
      BY <1>1, <2>1, <2>2 DEF QueueMove, BeginOp, Goto
    <3> QED
      BY <2>1, <2>2, <3>1 DEF SessionMove, Closing
  <2>3. CASE kind[t] # "close" /\ lq' = Append(lq, t) /\ Goto(t, "lconn") /\ UNCHANGED lifeq
    <3>1. pc'[t] = "lconn" /\ ~Direct(t)' /\ ~Closing(t)'
      BY <1>1, <2>1, <2>3 DEF Goto, Direct, Opening, Closing
    <3> QED
      BY <2>1, <2>3, <3>1 DEF QueueMove, SessionMove
  <2>4. CASE kind[t] = "close" /\ lq' = Append(lq, t) /\ Goto(t, "lclose")
    <3>1. pc'[t] = "lclose" /\ ~Direct(t)'
      BY <1>1, <2>4 DEF Goto, Direct, Connecting
    <3> QED
      BY <2>1, <2>4, <3>1 DEF QueueMove, SessionMove
  <2> QED
    BY <1>6, <2>2, <2>3, <2>4 DEF LifecycleLock
<1>7. CASE LocalConnect(t)
  <2>1. pc[t] = "lconn" /\ Holds(lq, t) /\ UNCHANGED kind
    BY <1>7 DEF LocalConnect
  <2>2. CASE LocalConnected(t, Tail(lq)) /\ UNCHANGED session
    BY <2>1, <2>2, ConnectedMoves DEF Connecting
  <2>3. CASE session' = "none" /\ Goto(t, "hshake") /\ UNCHANGED <<connected, lifeq, lq>>
    <3>1. pc'[t] = "hshake" /\ (Direct(t)' => Direct(t)) /\ ~Closing(t)'
      BY <1>1, <2>1, <2>3 DEF Goto, Direct, Connecting, Opening, Closing
    <3> QED
      BY <2>1, <2>3, <3>1 DEF QueueMove, SessionMove
  <2> QED
    BY <1>7, <2>2, <2>3 DEF LocalConnect
<1>8. CASE HandshakeOk(t)
  BY <1>1, <1>8, ConnectedMoves DEF HandshakeOk, Connecting
<1>9. CASE HandshakeFails(t) \/ LocalOpFails(t) \/ QueryTimesOut(t) \/ WriteFails(t)
  BY <1>1, <1>4, <1>9 DEF HandshakeFails, LocalOpFails, QueryTimesOut, WriteFails
<1>10. CASE Query(t) \/ WriteSent(t)
  <2>1. /\ pc[t] = "lop" /\ pc'[t] \in {"query", "sent"}
        /\ UNCHANGED <<lq, connected, session>>
    BY <1>1, <1>10 DEF Query, WriteSent, Goto, lockVars
  <2>2. QueueMove(t) /\ ~Closing(t)'
    BY <2>1 DEF QueueMove, Closing
  <2> QED
    BY <2>1, <2>2, QuietMoves
<1>11. CASE QueryAnswered(t) \/ WriteCached(t)
  <2>1. /\ Holds(lq, t) /\ lq' = Tail(lq) /\ pc'[t] \in {"idle", "life", "fill"}
        /\ UNCHANGED <<connected, session>>
    BY <1>1, <1>2, <1>3, <1>11 DEF QueryAnswered, WriteCached, Goto
  <2>2. QueueMove(t) /\ ~Closing(t)'
    BY <2>1 DEF QueueMove, Closing
  <2> QED
    BY <2>1, <2>2, QuietMoves
<1>12. CASE LocalClose(t)
  <2>1. /\ pc[t] = "lclose" /\ pc'[t] = "tear" /\ session' = "none"
        /\ UNCHANGED <<kind, lq, connected>>
    BY <1>1, <1>12 DEF LocalClose, Goto, lockVars
  <2> QED
    BY <2>1 DEF QueueMove, SessionMove, Closing, Direct, Connecting
<1>13. CASE LocalClosed(t)
  <2>1. /\ pc[t] = "tear" /\ Holds(lq, t) /\ lq' = Tail(lq) /\ UNCHANGED session
        /\ pc'[t] \in {"idle", "cloud"}
        /\ kind[t] = "close" \/ UNCHANGED connected
    BY <1>1, <1>2, <1>13 DEF LocalClosed, Goto
  <2>2. QueueMove(t) /\ ~Closing(t)' /\ ~Direct(t)'
    BY <2>1 DEF QueueMove, Closing, Direct, Connecting
  <2> QED
    BY <2>1, <2>2 DEF SessionMove, Closing
<1>14. CASE CloudConnect(t)
  <2>1. /\ pc[t] = "cloud" /\ kind[t] # "close" /\ Holds(lifeq, t) /\ connected'
        /\ BeginOp(t, lq) /\ UNCHANGED <<kind, session>>
    BY <1>14 DEF CloudConnect, ConnectReturns, Opening, localVars
  <2>2. QueueMove(t) /\ pc'[t] \in {"cloud", "lconn"}
    BY <1>1, <2>1 DEF QueueMove, BeginOp, Goto
  <2> QED
    BY <2>1, <2>2 DEF SessionMove, Closing
<1>15. CASE CloudRead(t) \/ CloudWrite(t) \/ CloudFails(t) \/ CloudFill(t)
  <2>1. /\ pc[t] \in {"cloud", "fill"} /\ pc'[t] \in {"idle", "life"}
        /\ UNCHANGED <<lq, connected, session>>
    BY <1>2, <1>3, <1>15 DEF CloudRead, CloudWrite, CloudFails, CloudFill, localVars
  <2>2. QueueMove(t) /\ ~Closing(t)'
    BY <2>1 DEF QueueMove, Closing
  <2> QED
    BY <2>1, <2>2, QuietMoves
<1> QED
  BY <1>5, <1>6, <1>7, <1>8, <1>9, <1>10, <1>11, <1>12, <1>13, <1>14, <1>15 DEF TaskStep

\* "Close idempotently; suitable for HA config-entry unload": a client that is not connected
\* holds no LAN session, whatever operations were under way when it was closed.
THEOREM ClosingIsFinal == Spec => []ClosedStaysClosed
<1>1. Init => ClosingInv
  BY DEF Init, ClosingInv, TransportQueue, Unconnected, Distinct, InQ, Before, Closing, Direct,
         Queued, Connecting
<1>2. IInv /\ ClosingInv /\ [Next]_vars => ClosingInv'
  <2> SUFFICES ASSUME IInv, ClosingInv, [Next]_vars PROVE ClosingInv'
    OBVIOUS
  <2>1. ASSUME NEW t \in Tasks, Call(t) \/ TaskStep(t) PROVE ClosingInv'
    <3>1. TaskKeep(t) /\ LockKeep(t)
      BY <2>1, CallEffect, TaskStepEffect DEF Effect
    <3> QED
      BY <2>1, <3>1, TaskMoves, QueueMoves, SessionMoves DEF ClosingInv
  <2>2. CASE UNCHANGED <<taskVars, lockVars, connected>> /\ (session' = session \/ session' # "live")
    BY <2>2 DEF ClosingInv, TransportQueue, Unconnected, Closing, Direct, Opening, taskVars, lockVars
  <2>3. CASE Deliver \/ BackoffEnds \/ LinkDies \/ UNCHANGED vars
    BY <2>2, <2>3 DEF Deliver, BackoffEnds, LinkDies, vars, localVars
  <2>4. ASSUME NEW u \in Foreign, PhoneEdit(u) PROVE ClosingInv'
    BY <2>2, <2>4 DEF PhoneEdit
  <2> QED
    BY <2>1, <2>3, <2>4 DEF Next
<1>3. ClosingInv => ClosedStaysClosed
  BY DEF ClosingInv, Unconnected, ClosedStaysClosed
<1> QED
  BY Invariance, <1>1, <1>2, <1>3, PTL DEF Spec
=============================================================================
