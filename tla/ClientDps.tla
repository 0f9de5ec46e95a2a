----------------------------- MODULE ClientDps -----------------------------
(***************************************************************************)
(* PopurClient's operations on one device, as asyncio tasks of one loop:    *)
(*                                                                          *)
(*  - PopurClient: the lifecycle lock and the connected flag, the mutation  *)
(*    lock, refresh, close, and the read-modify-write of a packed settings  *)
(*    datapoint (client.py);                                                *)
(*  - FallbackTransport: primary first, backoff, fallback, gap filling      *)
(*    (transport.py);                                                       *)
(*  - LocalTuyaTransport: its lock, its session and the datapoint cache     *)
(*    _last_dps, which the reader thread merges into (local.py).  What a    *)
(*    handshake goes through is LanLink's subject; here it works or fails;  *)
(*  - the device and the cloud, which keep the settings.                    *)
(*                                                                          *)
(* The settings datapoint (102, 104 or 105) is packed: a write replaces all *)
(* its fields.  Each change sets one field of its own, so a settings value  *)
(* is the set of the changes it shows, Base standing for every field nobody *)
(* touches.  transport.active and last_error are left out: they only *)
(* report.                                                                  *)
(***************************************************************************)
EXTENDS Naturals, Sequences, FiniteSets

CONSTANTS Tasks,         \* concurrent callers of the client
          Updates,       \* the mutations the client may make, each once (bound)
          Foreign,       \* the changes that are no mutations: made in the phone app, or by a
                         \* payload that is written whole (bound)
          Base,          \* the untouched fields
          MaxWire,       \* LAN frames sent by the device and not yet read (bound)
          None

ASSUME ValueAssumption == /\ Base \notin Updates \cup Foreign
                          /\ Updates \cap Foreign = {}
                          /\ None \notin Updates \cup Foreign \cup {Base}
                          /\ None \notin Tasks
ASSUME WireAssumption  == MaxWire \in Nat

Settings == SUBSET (Updates \cup Foreign \cup {Base})

\* None has to differ from every value: one that holds no datapoint is a set of its own.
Absent == {None}

VARIABLES kind,      \* what each task was asked to do
          pc,        \* where it is suspended
          upd,       \* the update it makes
          val,       \* the settings it writes, Absent before it has read them
          fresh,     \* history: what it read is what the device had
          lifeq,     \* queue of _lifecycle_lock, its holder first
          mutq,      \* queue of _mutation_lock
          lq,        \* queue of LocalTuyaTransport._lock
          loop,      \* the task that keeps the loop blocked in Event.wait, or None
          connected, \* PopurClient._connected
          backoff,   \* time.monotonic() < _primary_retry_at
          session,   \* _device and live_gw: "none", "live", or "evicted"
          failed,    \* history: tasks that gave up on the session that still stands
          got,       \* the pending _read_wait has been set
          cache,     \* the settings in _last_dps, or Absent
          wire,      \* LAN frames on their way to the reader
          dev,       \* the settings the device has
          made       \* updates made so far

taskVars   == <<kind, pc, upd, val, fresh>>
lockVars   == <<lifeq, mutq, lq>>
localVars  == <<session, failed, got, cache, wire>>
vars       == <<taskVars, lockVars, loop, connected, backoff, localVars, dev, made>>

Pcs == {"idle", "mutex", "life", "lconn", "hshake", "lop", "query", "sent", "lclose",
        "tear", "cloud", "fill"}

Holds(q, t) == q # <<>> /\ Head(q) = t

\* The loop is free for task t.
Runs(t) == loop \in {None, t}

\* The device reports changed settings on its LAN session.
Push(v) == wire' = IF session = "live" THEN Append(wire, v) ELSE wire
Room    == session = "live" => Len(wire) < MaxWire

\* transport.connect() is being awaited inside PopurClient.connect().
Opening(t) == kind[t] # "close" /\ Holds(lifeq, t)

\* The datapoint operation is a write, else a read.
Writing(t) == val[t] # Absent

-----------------------------------------------------------------------------
(* Shared continuations of a task: what follows without an await. *)

Goto(t, where) == pc' = [pc EXCEPT ![t] = where]

\* The operation ends, normally or with an exception, and its locals are gone; a mutation
\* releases its lock on the way.
Finish(t) ==
    /\ Goto(t, "idle")
    /\ kind' = [kind EXCEPT ![t] = "none"]
    /\ upd' = [upd EXCEPT ![t] = None]
    /\ val' = [val EXCEPT ![t] = Absent]
    /\ fresh' = [fresh EXCEPT ![t] = FALSE]
    /\ mutq' = IF kind[t] = "mutate" THEN Tail(mutq) ELSE mutq

\* FallbackTransport.read_dps and write_dps: skip the primary within the backoff window,
\* else queue behind q for its lock.
BeginOp(t, q) ==
    IF backoff THEN Goto(t, "cloud") /\ lq' = q
               ELSE Goto(t, "lconn") /\ lq' = Append(q, t)

\* _mark_primary_dead up to the wait of primary.close() for the lock, which the failing
\* operation has just released.
MarkPrimaryDead(t) ==
    /\ backoff' = TRUE
    /\ lq' = Append(Tail(lq), t)
    /\ Goto(t, "lclose")
    /\ failed' = IF session = "none" THEN failed ELSE failed \cup {t}

\* Mutant of AfterRead: settings that could not be read are not refused.
AfterReadUnchecked(t, v) ==
    /\ val' = [val EXCEPT ![t] = v \cup {upd[t]}]
    /\ fresh' = [fresh EXCEPT ![t] = (v = dev)]
    /\ lifeq' = Append(lifeq, t)
    /\ Goto(t, "life")
    /\ UNCHANGED <<kind, upd, mutq>>

\* The middle of _mutate_system_settings (update_dustbin_settings, set_key_lock and
\* set_all_keys_locked alike): unknown settings are refused, known ones written back with
\* the task's own field changed, through write_dps and its connect().
AfterRead(t, v) ==
    \/ /\ v = Absent
       /\ Finish(t)
       /\ UNCHANGED lifeq
    \/ /\ v # Absent
       /\ val' = [val EXCEPT ![t] = v \cup {upd[t]}]
       /\ fresh' = [fresh EXCEPT ![t] = (v = dev)]
       /\ lifeq' = Append(lifeq, t)
       /\ Goto(t, "life")
       /\ UNCHANGED <<kind, upd, mutq>>

\* What a read hands back to refresh or to a mutation.
ReadReturns(t, v) ==
    IF kind[t] = "mutate" THEN AfterRead(t, v)
    ELSE Finish(t) /\ UNCHANGED lifeq

-----------------------------------------------------------------------------
(* The client. *)

Refresh(t) ==
    /\ pc[t] = "idle" /\ Runs(t)
    /\ kind' = [kind EXCEPT ![t] = "refresh"]
    /\ lifeq' = Append(lifeq, t)
    /\ Goto(t, "life")
    /\ UNCHANGED <<upd, val, fresh, mutq, lq, loop, connected, backoff, localVars, dev, made>>

Mutate(t, u) ==
    /\ pc[t] = "idle" /\ Runs(t)
    /\ u \notin made
    /\ made' = made \cup {u}
    /\ kind' = [kind EXCEPT ![t] = "mutate"]
    /\ upd' = [upd EXCEPT ![t] = u]
    /\ mutq' = Append(mutq, t)
    /\ Goto(t, "mutex")
    /\ UNCHANGED <<val, fresh, lifeq, lq, loop, connected, backoff, localVars, dev>>

Close(t) ==
    /\ pc[t] = "idle" /\ Runs(t)
    /\ kind' = [kind EXCEPT ![t] = "close"]
    /\ lifeq' = Append(lifeq, t)
    /\ Goto(t, "life")
    /\ UNCHANGED <<upd, val, fresh, mutq, lq, loop, connected, backoff, localVars, dev, made>>

\* set_system_settings, set_dustbin_settings and set_key_settings: a payload of the caller's,
\* who knows its own change alone, is written whole and without the mutation lock.
Replace(t, u) ==
    /\ pc[t] = "idle" /\ Runs(t)
    /\ u \notin made
    /\ made' = made \cup {u}
    /\ kind' = [kind EXCEPT ![t] = "replace"]
    /\ val' = [val EXCEPT ![t] = {Base, u}]
    /\ lifeq' = Append(lifeq, t)
    /\ Goto(t, "life")
    /\ UNCHANGED <<upd, fresh, mutq, lq, loop, connected, backoff, localVars, dev>>

\* Mutant of MutationLock: the mutation does not wait for its turn.
MutationUnlocked(t) ==
    /\ pc[t] = "mutex" /\ Runs(t)
    /\ lifeq' = Append(lifeq, t)
    /\ Goto(t, "life")
    /\ UNCHANGED <<kind, upd, val, fresh, mutq, lq, loop, connected, backoff, localVars,
                   dev, made>>

\* _mutation_lock is acquired and read_dps calls connect().
MutationLock(t) ==
    /\ pc[t] = "mutex" /\ Runs(t) /\ Holds(mutq, t)
    /\ lifeq' = Append(lifeq, t)
    /\ Goto(t, "life")
    /\ UNCHANGED <<kind, upd, val, fresh, mutq, lq, loop, connected, backoff, localVars,
                   dev, made>>

\* PopurClient.connect: already connected, or transport.connect() tries the primary,
\* whatever the backoff. PopurClient.close: the primary is closed first.
LifecycleLock(t) ==
    /\ pc[t] = "life" /\ Runs(t) /\ Holds(lifeq, t)
    /\ \/ /\ kind[t] # "close" /\ connected
          /\ lifeq' = Tail(lifeq)
          /\ BeginOp(t, lq)
       \/ /\ kind[t] # "close" /\ ~connected
          /\ lq' = Append(lq, t)
          /\ Goto(t, "lconn")
          /\ UNCHANGED lifeq
       \/ /\ kind[t] = "close"
          /\ lq' = Append(lq, t)
          /\ Goto(t, "lclose")
          /\ UNCHANGED lifeq
    /\ UNCHANGED <<kind, upd, val, fresh, mutq, loop, connected, backoff, localVars,
                   dev, made>>

\* transport.connect() has returned, q being what is left of the transport's queue.
ConnectReturns(t, q) ==
    /\ connected' = TRUE
    /\ lifeq' = Tail(lifeq)
    /\ BeginOp(t, q)

-----------------------------------------------------------------------------
(* LocalTuyaTransport. *)

\* connect() finds a live session: it returns to transport.connect(), or to read_dps or
\* write_dps, which queues for the lock again behind whoever waits.
LocalConnected(t, q) ==
    IF Opening(t) THEN ConnectReturns(t, q)
    ELSE /\ lq' = Append(q, t)
         /\ Goto(t, "lop")
         /\ UNCHANGED <<connected, lifeq>>

LocalConnect(t) ==
    /\ pc[t] = "lconn" /\ Runs(t) /\ Holds(lq, t)
    /\ \/ /\ session = "live"
          /\ LocalConnected(t, Tail(lq))
          /\ UNCHANGED session
       \/ /\ session # "live"
          /\ session' = "none"
          /\ Goto(t, "hshake")
          /\ UNCHANGED <<connected, lifeq, lq>>
    /\ UNCHANGED <<kind, upd, val, fresh, mutq, loop, backoff, failed, got, cache, wire,
                   dev, made>>

\* _connect_once ends in its thread.
HandshakeOk(t) ==
    /\ pc[t] = "hshake" /\ Runs(t)
    /\ session' = "live"
    /\ failed' = {}
    /\ wire' = <<>>
    /\ LocalConnected(t, Tail(lq))
    /\ UNCHANGED <<kind, upd, val, fresh, mutq, loop, backoff, got, cache, dev, made>>

HandshakeFails(t) ==
    /\ pc[t] = "hshake" /\ Runs(t)
    /\ MarkPrimaryDead(t)
    /\ UNCHANGED <<kind, upd, val, fresh, lifeq, mutq, loop, connected, session, got,
                   cache, wire, dev, made>>

\* Mutant of LocalOpFails: an operation that finds no session opens one.
LocalOpReconnects(t) ==
    /\ pc[t] = "lop" /\ Runs(t) /\ Holds(lq, t)
    /\ session # "live"
    /\ session' = "none"
    /\ Goto(t, "hshake")
    /\ UNCHANGED <<kind, upd, val, fresh, lockVars, loop, connected, backoff, failed, got,
                   cache, wire, dev, made>>

\* read_dps or write_dps finds no session, or its send is refused and evicts it.
LocalOpFails(t) ==
    /\ pc[t] = "lop" /\ Runs(t) /\ Holds(lq, t)
    /\ session' = IF session = "none" THEN "none" ELSE "evicted"
    /\ wire' = <<>>
    /\ MarkPrimaryDead(t)
    /\ UNCHANGED <<kind, upd, val, fresh, lifeq, mutq, loop, connected, got, cache,
                   dev, made>>

\* read_dps registers its event and sends the query; the loop blocks. The reply leaves
\* out the settings: it is the empty frame here. The device may also fail to answer.
Query(t) ==
    /\ pc[t] = "lop" /\ Runs(t) /\ Holds(lq, t) /\ ~Writing(t)
    /\ session = "live" /\ Room
    /\ \/ Push(Absent)
       \/ UNCHANGED wire
    /\ loop' = t
    /\ Goto(t, "query")
    /\ UNCHANGED <<kind, upd, val, fresh, lockVars, connected, backoff, session, failed,
                   got, cache, dev, made>>

\* The event was set: read_dps returns what _last_dps holds. A mutation whose datapoint
\* is missing has it filled in from the fallback.
QueryAnswered(t) ==
    /\ pc[t] = "query" /\ got
    /\ got' = FALSE
    /\ loop' = None
    /\ lq' = Tail(lq)
    /\ \/ /\ kind[t] = "mutate" /\ cache = Absent
          /\ Goto(t, "fill")
          /\ UNCHANGED <<kind, upd, val, fresh, lifeq, mutq>>
       \/ /\ kind[t] = "mutate" => cache # Absent
          /\ ReadReturns(t, cache)
    /\ UNCHANGED <<connected, backoff, session, failed, cache, wire, dev, made>>

\* The wait timed out, or the device answered with an error.
QueryTimesOut(t) ==
    /\ pc[t] = "query" /\ ~got
    /\ loop' = None
    /\ MarkPrimaryDead(t)
    /\ UNCHANGED <<kind, upd, val, fresh, lifeq, mutq, connected, session, got, cache,
                   wire, dev, made>>

\* write_dps sends; the device takes the new settings over and reports them ...
WriteSent(t) ==
    /\ pc[t] = "lop" /\ Runs(t) /\ Holds(lq, t) /\ Writing(t)
    /\ session = "live" /\ Room
    /\ dev' = val[t]
    /\ Push(val[t])
    /\ loop' = t
    /\ Goto(t, "sent")
    /\ UNCHANGED <<kind, upd, val, fresh, lockVars, connected, backoff, session, failed,
                   got, cache, made>>

\* ... and _last_dps is updated, after what the reader merged in the meantime.
WriteCached(t) ==
    /\ pc[t] = "sent"
    /\ cache' = val[t]
    /\ loop' = None
    /\ lq' = Tail(lq)
    /\ Finish(t)
    /\ UNCHANGED <<lifeq, connected, backoff, session, failed, got, wire,
                   dev, made>>

\* ... unless the send reports an error or nothing in time, although the device has the new
\* settings: the write is repeated on the fallback.
WriteFails(t) ==
    /\ pc[t] = "sent"
    /\ loop' = None
    /\ MarkPrimaryDead(t)
    /\ UNCHANGED <<kind, upd, val, fresh, lifeq, mutq, connected, session, got, cache,
                   wire, dev, made>>

\* Mutant of LocalClose: close() only forgets the bean and leaves the session in place.
LocalCloseKeeps(t) ==
    /\ pc[t] = "lclose" /\ Runs(t) /\ Holds(lq, t)
    /\ Goto(t, "tear")
    /\ UNCHANGED <<kind, upd, val, fresh, lockVars, loop, connected, backoff, localVars,
                   dev, made>>

\* close(): the session is given up, its teardown runs in a thread.
LocalClose(t) ==
    /\ pc[t] = "lclose" /\ Runs(t) /\ Holds(lq, t)
    /\ session' = "none"
    /\ failed' = {}
    /\ Goto(t, "tear")
    /\ UNCHANGED <<kind, upd, val, fresh, lockVars, loop, connected, backoff, got, cache,
                   wire, dev, made>>

\* Mutant of LocalClosed: the failed operation is tried on the primary again.
LocalClosedRetries(t) ==
    /\ pc[t] = "tear" /\ Runs(t)
    /\ wire' = <<>>
    /\ \/ /\ kind[t] = "close"
          /\ connected' = FALSE
          /\ lq' = Tail(lq)
          /\ lifeq' = Tail(lifeq)
          /\ Finish(t)
       \/ /\ kind[t] # "close"
          /\ lq' = Append(Tail(lq), t)
          /\ Goto(t, "lconn")
          /\ UNCHANGED <<kind, upd, val, fresh, connected, lifeq, mutq>>
    /\ UNCHANGED <<loop, backoff, session, failed, got, cache, dev, made>>

\* The teardown is over and the lock free. PopurClient.close ends (the fallback's close
\* keeps no state); _mark_primary_dead goes on to the fallback.
LocalClosed(t) ==
    /\ pc[t] = "tear" /\ Runs(t)
    /\ wire' = <<>>
    /\ lq' = Tail(lq)
    /\ \/ /\ kind[t] = "close"
          /\ connected' = FALSE
          /\ lifeq' = Tail(lifeq)
          /\ Finish(t)
       \/ /\ kind[t] # "close"
          /\ Goto(t, "cloud")
          /\ UNCHANGED <<kind, upd, val, fresh, connected, lifeq, mutq>>
    /\ UNCHANGED <<loop, backoff, session, failed, got, cache, dev, made>>

-----------------------------------------------------------------------------
(* The fallback: a request to the cloud, whose copy of the settings is taken to be     *)
(* current.                                                                            *)

CloudConnect(t) ==
    /\ pc[t] = "cloud" /\ Runs(t) /\ Opening(t)
    /\ ConnectReturns(t, lq)
    /\ UNCHANGED <<kind, upd, val, fresh, mutq, loop, backoff, localVars, dev, made>>

CloudRead(t) ==
    /\ pc[t] = "cloud" /\ Runs(t) /\ ~Opening(t) /\ ~Writing(t)
    /\ \E v \in {dev, Absent} : ReadReturns(t, v)
    /\ UNCHANGED <<lq, loop, connected, backoff, localVars, dev, made>>

\* The answer may be lost: the operation then ends with an exception.
CloudWrite(t) ==
    /\ pc[t] = "cloud" /\ Runs(t) /\ ~Opening(t) /\ Writing(t)
    /\ Room
    /\ dev' = val[t]
    /\ Push(val[t])
    /\ Finish(t)
    /\ UNCHANGED <<lifeq, lq, loop, connected, backoff, session, failed,
                   got, cache, made>>

\* The request fails before the cloud has carried it out; nothing is left to try.
CloudFails(t) ==
    /\ pc[t] = "cloud" /\ Runs(t)
    /\ lifeq' = IF Opening(t) THEN Tail(lifeq) ELSE lifeq
    /\ Finish(t)
    /\ UNCHANGED <<lq, loop, connected, backoff, localVars, dev, made>>

\* read_dps fills the gap of a LAN read, or fails to.
CloudFill(t) ==
    /\ pc[t] = "fill" /\ Runs(t)
    /\ \E v \in {dev, Absent} : AfterRead(t, v)
    /\ UNCHANGED <<lq, loop, connected, backoff, localVars, dev, made>>

-----------------------------------------------------------------------------
(* The reader thread, the clock, the network and other users of the device. *)

\* _DpListener: the frame is merged into _last_dps, and whatever it is, it completes a
\* pending read.
Deliver ==
    /\ wire # <<>>
    /\ wire' = Tail(wire)
    /\ cache' = IF Head(wire) = Absent THEN cache ELSE Head(wire)
    /\ got' = (loop # None /\ pc[loop] = "query")
    /\ UNCHANGED <<taskVars, lockVars, loop, connected, backoff, session, failed, dev, made>>

BackoffEnds ==
    /\ backoff
    /\ backoff' = FALSE
    /\ UNCHANGED <<taskVars, lockVars, loop, connected, localVars, dev, made>>

\* The link dies and its upcall evicts the gateway.
LinkDies ==
    /\ session = "live"
    /\ session' = "evicted"
    /\ wire' = <<>>
    /\ UNCHANGED <<taskVars, lockVars, loop, connected, backoff, failed, got, cache, dev, made>>

PhoneEdit(u) ==
    /\ u \notin made
    /\ Room
    /\ made' = made \cup {u}
    /\ dev' = dev \cup {u}
    /\ Push(dev \cup {u})
    /\ UNCHANGED <<taskVars, lockVars, loop, connected, backoff, session, failed, got, cache>>

-----------------------------------------------------------------------------
Init ==
    /\ kind = [t \in Tasks |-> "none"]
    /\ pc = [t \in Tasks |-> "idle"]
    /\ upd = [t \in Tasks |-> None]
    /\ val = [t \in Tasks |-> Absent]
    /\ fresh = [t \in Tasks |-> FALSE]
    /\ lifeq = <<>> /\ mutq = <<>> /\ lq = <<>>
    /\ loop = None
    /\ connected = FALSE /\ backoff = FALSE
    /\ session = "none" /\ failed = {} /\ got = FALSE /\ cache = Absent /\ wire = <<>>
    /\ dev = {Base} /\ made = {}

TaskStep(t) ==
    \/ MutationLock(t) \/ LifecycleLock(t)
    \/ LocalConnect(t) \/ HandshakeOk(t) \/ HandshakeFails(t) \/ LocalOpFails(t)
    \/ Query(t) \/ QueryAnswered(t) \/ QueryTimesOut(t) \/ WriteSent(t) \/ WriteCached(t)
    \/ WriteFails(t)
    \/ LocalClose(t) \/ LocalClosed(t)
    \/ CloudConnect(t) \/ CloudRead(t) \/ CloudWrite(t) \/ CloudFails(t) \/ CloudFill(t)

Call(t) ==
    \/ Refresh(t) \/ Close(t)
    \/ \E u \in Updates : Mutate(t, u)
    \/ \E u \in Foreign : Replace(t, u)

Next ==
    \/ \E t \in Tasks : Call(t) \/ TaskStep(t)
    \/ Deliver \/ BackoffEnds \/ LinkDies
    \/ \E u \in Foreign : PhoneEdit(u)

Spec == Init /\ [][Next]_vars

\* The reader thread keeps running, and every await ends: the handshake, the read and the
\* requests to the cloud all have timeouts. A task that is ready time and again, though
\* others keep the loop blocked in between, gets its turn: the loop runs what is ready in
\* the order it became so.
Fairness == WF_vars(Deliver) /\ \A t \in Tasks : SF_vars(TaskStep(t))

FairSpec == Spec /\ Fairness

-----------------------------------------------------------------------------
(* Properties. *)

\* Every variable keeps its type; in particular no task ever holds settings it made up from
\* a read that returned none.
TypeOK ==
    /\ kind \in [Tasks -> {"none", "refresh", "mutate", "replace", "close"}]
    /\ pc \in [Tasks -> Pcs]
    /\ upd \in [Tasks -> Updates \cup {None}]
    /\ val \in [Tasks -> Settings \cup {Absent}]
    /\ fresh \in [Tasks -> BOOLEAN]
    /\ lifeq \in Seq(Tasks) /\ mutq \in Seq(Tasks) /\ lq \in Seq(Tasks)
    /\ loop \in Tasks \cup {None}
    /\ connected \in BOOLEAN /\ backoff \in BOOLEAN
    /\ session \in {"none", "live", "evicted"}
    /\ failed \in SUBSET Tasks
    /\ got \in BOOLEAN
    /\ cache \in Settings \cup {Absent}
    /\ wire \in Seq(Settings \cup {Absent})
    /\ dev \in Settings
    /\ made \in SUBSET (Updates \cup Foreign)

\* "refusing to overwrite unknown system settings" (client.py): whichever channel serves
\* the read, whatever fails in between, no mutation ever resets a field nobody changed.
UntouchedFieldsSurvive == Base \in dev

\* "serialized as one transaction" (set_system_settings): a mutation whose read showed
\* what the device had then loses no other mutation of this client, however the tasks,
\* the channels, the failures and the writes without the lock interleave until its end.
CurrentReadLosesNothing ==
    \A t \in Tasks :
      kind[t] = "mutate" /\ Writing(t) /\ fresh[t]
        => dev \subseteq val[t] \cup Foreign

\* "On failure the primary is closed (so the next attempt re-handshakes), the operation
\* retries on fallback": when a task turns to the fallback, the session it failed on is
\* gone, although other tasks go on using the primary.
FailedSessionGone == \A t \in Tasks : pc[t] = "cloud" => t \notin failed

\* Every operation of the client ends: its three locks never wait for each other.
OperationsEnd == \A t \in Tasks : pc[t] # "idle" ~> pc[t] = "idle"

\* "Close idempotently; suitable for HA config-entry unload" (PopurClient.close): once
\* everything has ended, a client that is not connected holds no LAN session, although
\* operations that were under way used the transport after its close.
ClosedStaysClosed ==
    (\A t \in Tasks : pc[t] = "idle") /\ ~connected => session # "live"

\* "prefer update_system_settings ... so the fresh read and write are serialized as one
\* transaction" (set_system_settings): no write of the client undoes an earlier change.
NoLostUpdate == [][dev \subseteq dev']_vars
=============================================================================
