------------------------------ MODULE LanLink ------------------------------
(***************************************************************************)
(* The life of one device's LAN session, from LocalTuyaTransport.connect   *)
(* down to the socket threads.                                             *)
(*                                                                         *)
(*  - the caller: connect / close / the send of a read or a write, one at  *)
(*    a time under the transport's asyncio lock (local.py);                *)
(*  - DevTransfer's two maps for the gateway, connecting_gw and live_gw    *)
(*    (sdk/lan_session.py), which every thread changes without a lock;     *)
(*  - per TCP link a reader and a negotiator thread, and one heartbeat     *)
(*    thread over all links (sdk/lan_socket.py);                           *)
(*  - the device at the other end, which may fall silent or go away.       *)
(*                                                                         *)
(* A thread may be preempted between any two statements.  An identity     *)
(* check and the upcall it guards are separate actions, and so are the two *)
(* halves of _on_gw_online_changed(True); statements whose interleavings   *)
(* add no new outcome (the two pops of an eviction, a failed send and the  *)
(* check in its except branch) are one action.                             *)
(***************************************************************************)
EXTENDS Naturals, Sequences, FiniteSets

CONSTANTS Links,         \* slots for TCP links that still have a thread (bound)
          AutoVersions,  \* LocalTuyaTransport.AUTO_PROTOCOL_VERSIONS
          FixedVersion,  \* the configured protocol_version, or None
          DeviceProto,   \* the handshake the device answers
          MaxFaults,     \* how often the device falls silent or goes away (bound)
          None

Versions == {"3.3", "3.4", "3.5", "3.5.1"}
Protos   == {"3.4", "3.5"}

ASSUME VersionAssumption == /\ AutoVersions \in Seq(Versions)
                            /\ AutoVersions # <<>>
                            /\ \A i, j \in 1..Len(AutoVersions) :
                                 AutoVersions[i] = AutoVersions[j] => i = j
                            /\ FixedVersion \in Versions \cup {None}
ASSUME NoneAssumption    == None \notin Versions /\ None \notin Links
ASSUME FaultAssumption   == MaxFaults \in Nat

VARIABLES cur,        \* SocketThingNetworkApi._links[dev_id], or None
          link,       \* the _Link object in each slot
          rd,         \* its reader thread's position
          ng,         \* its negotiator thread's position
          pair,       \* the bean a negotiator popped and has not yet stored
          connecting, \* DevTransfer.connecting_gw[dev_id]: the bean's version
          live,       \* DevTransfer.live_gw[dev_id]: the bean's version
          closeCb,    \* a link-close callback is registered
          pc,         \* the caller's position
          todo,       \* the versions connect() has yet to probe
          ver,        \* the version being probed
          victim,     \* a link the caller took out of _links and has yet to close
          device,     \* LocalTuyaTransport._device: the version, or None
          selected,   \* LocalTuyaTransport._selected_protocol_version
          hb,         \* the heartbeat thread's position
          faults      \* faults of the device so far

linkVars   == <<link, rd, ng, pair>>
gwVars     == <<connecting, live, closeCb>>
callerVars == <<pc, todo, ver, victim, device, selected>>
vars       == <<cur, linkVars, gwVars, callerVars, hb, faults>>

-----------------------------------------------------------------------------
(* Version tests. *)

\* float(version) in tenths; "3.5.1" does not parse, so every test of it fails.
VersionFloat == [v \in Versions |-> CASE v = "3.3" -> 33
                                      [] v = "3.4" -> 34
                                      [] v = "3.5" -> 35
                                      [] OTHER     -> 0]

CheckHgwVersion(v, minimum) == VersionFloat[v] >= minimum

\* The handshake _build_connect starts for a bean of this version.
HandshakeProto(v) == IF CheckHgwVersion(v, 35) THEN "3.5" ELSE "3.4"

\* DevTransfer._send_bytes takes the session-encrypted path.
SessionSend(v) == CheckHgwVersion(v, 35) \/ CheckHgwVersion(v, 34)

\* AUTO_PROTOCOL_VERSIONS without v.
Without(v) ==
    IF \E i \in 1..Len(AutoVersions) : AutoVersions[i] = v
    THEN LET i == CHOOSE j \in 1..Len(AutoVersions) : AutoVersions[j] = v
         IN  SubSeq(AutoVersions, 1, i - 1)
               \o SubSeq(AutoVersions, i + 1, Len(AutoVersions))
    ELSE AutoVersions

\* Mutant of Probes: the configured version and the absence of a previous one forgotten.
ProbesUnset == <<selected>> \o Without(selected)

\* The probe order of connect(): the previously negotiated version comes first.
Probes == IF FixedVersion # None THEN <<FixedVersion>>
          ELSE IF selected # None THEN <<selected>> \o Without(selected)
          ELSE AutoVersions

-----------------------------------------------------------------------------
(* Links. *)

Link == [proto : Protos, online : BOOLEAN, closed : BOOLEAN, key : BOOLEAN,
         resp : {"none", "good", "bad"}, peer : {"ok", "silent", "gone"}]

\* A slot no thread and no map refers to.
FreeLink == [proto |-> "3.4", online |-> FALSE, closed |-> TRUE, key |-> FALSE,
             resp |-> "none", peer |-> "gone"]

NewLink(p) == [proto |-> p, online |-> TRUE, closed |-> FALSE, key |-> FALSE,
               resp |-> "none", peer |-> "ok"]

RdPc == {"free", "new", "run", "evict", "close", "done"}
NgPc == {"none", "start", "wait", "finish", "pop", "set", "evict", "done"}

CallerPc == {"idle", "add", "open", "swap", "key", "poll", "pollc",
             "unlink", "shut", "delete", "bean"}

CheckOnline == cur # None /\ link[cur].online /\ ~link[cur].closed

\* _close_link on the slots in S (a second close returns at once): both ends of the
\* connection are gone.
CloseLinks(S) ==
    link' = [l \in Links |-> IF l \in S
                             THEN [link[l] EXCEPT !.closed = TRUE, !.online = FALSE, !.peer = "gone"]
                             ELSE link[l]]

\* _on_gw_online_changed(dev_id, False).
EvictGw == connecting' = None /\ live' = None

-----------------------------------------------------------------------------
(* The caller. *)

Connect ==
    /\ pc = "idle"
    /\ ~(device # None /\ live # None)
    /\ device' = None
    /\ todo' = Probes
    /\ pc' = "add"
    /\ UNCHANGED <<cur, linkVars, gwVars, ver, victim, selected, hb, faults>>

\* Mutant of AddDev: the link is replaced without asking check_online.
AddDevBlind ==
    /\ pc = "add"
    /\ ver' = Head(todo)
    /\ todo' = Tail(todo)
    /\ live' = None
    /\ connecting' = Head(todo)
    /\ closeCb' = TRUE
    /\ pc' = "open"
    /\ UNCHANGED <<cur, linkVars, victim, device, selected, hb, faults>>

\* _connect_once up to the end of add_dev's bookkeeping (held under DevTransfer._lock).
\* A pending entry younger than the connecting window ends it, an older one is dropped;
\* whether the window has passed is left open.
AddDev ==
    /\ pc = "add"
    /\ ver' = Head(todo)
    /\ todo' = Tail(todo)
    /\ \/ connecting # None
          /\ pc' = "poll"
          /\ UNCHANGED gwVars
       \/ CheckOnline
          /\ connecting' = None
          /\ pc' = "poll"
          /\ UNCHANGED <<live, closeCb>>
       \/ ~CheckOnline
          /\ live' = None
          /\ connecting' = Head(todo)
          /\ closeCb' = TRUE
          /\ pc' = "open"
    /\ UNCHANGED <<cur, linkVars, victim, device, selected, hb, faults>>

\* create_connection raises: _check_connect_result takes the gateway offline.
OpenFails ==
    /\ pc = "open"
    /\ EvictGw
    /\ pc' = "poll"
    /\ UNCHANGED <<cur, linkVars, closeCb, todo, ver, victim, device, selected, hb, faults>>

\* create_connection succeeds and _links is swapped.
OpenLink ==
    /\ pc = "open"
    /\ \E l \in Links :
         /\ rd[l] = "free"
         /\ link' = [link EXCEPT ![l] = NewLink(HandshakeProto(ver))]
         /\ rd' = [rd EXCEPT ![l] = "new"]
         /\ cur' = l
    /\ victim' = cur
    /\ pc' = "swap"
    /\ UNCHANGED <<ng, pair, gwVars, todo, ver, device, selected, hb, faults>>

\* The replaced link is closed and the new one's reader starts.
StartReader ==
    /\ pc = "swap"
    /\ CloseLinks({victim})
    /\ victim' = None
    /\ rd' = [rd EXCEPT ![cur] = "run"]
    /\ pc' = "key"
    /\ UNCHANGED <<cur, ng, pair, gwVars, todo, ver, device, selected, hb, faults>>

\* start_swap_key: no negotiation for a link that is already offline.
StartSwapKey ==
    /\ pc = "key"
    /\ ng' = IF link[cur].online THEN [ng EXCEPT ![cur] = "start"] ELSE ng
    /\ pc' = "poll"
    /\ UNCHANGED <<cur, link, rd, pair, gwVars, todo, ver, victim, device, selected,
                   hb, faults>>

\* The wait loop of _connect_once: live_gw is looked at first, then connecting_gw.
PollLive ==
    /\ pc = "poll"
    /\ \/ live # None
          /\ device' = ver
          /\ selected' = ver
          /\ todo' = <<>>
          /\ pc' = "idle"
       \/ live = None
          /\ pc' = "pollc"
          /\ UNCHANGED <<device, selected, todo>>
    /\ UNCHANGED <<cur, linkVars, gwVars, ver, victim, hb, faults>>

\* Mutant of PollConnecting: it waits for the entry to come back, without the clock.
PollConnectingForever ==
    /\ pc = "pollc"
    /\ pc' = "pollc"
    /\ UNCHANGED <<cur, linkVars, gwVars, todo, ver, victim, device, selected, hb, faults>>

PollConnecting ==
    /\ pc = "pollc"
    /\ pc' = IF connecting # None THEN "poll" ELSE "unlink"
    /\ UNCHANGED <<cur, linkVars, gwVars, todo, ver, victim, device, selected, hb, faults>>

\* Mutant of Deadline: the timeout is raised without _teardown_probe.
DeadlineNoTeardown ==
    /\ pc = "poll"
    /\ pc' = IF todo = <<>> THEN "idle" ELSE "add"
    /\ UNCHANGED <<cur, linkVars, gwVars, todo, ver, victim, device, selected, hb, faults>>

Deadline ==
    /\ pc = "poll"
    /\ pc' = "unlink"
    /\ UNCHANGED <<cur, linkVars, gwVars, todo, ver, victim, device, selected, hb, faults>>

Close ==
    /\ pc = "idle"
    /\ device' = None
    /\ selected' = None
    /\ pc' = "unlink"
    /\ UNCHANGED <<cur, linkVars, gwVars, todo, ver, victim, hb, faults>>

\* _teardown_probe: close_device takes the link out of _links ...
Unlink ==
    /\ pc = "unlink"
    /\ victim' = cur
    /\ cur' = None
    /\ pc' = "shut"
    /\ UNCHANGED <<linkVars, gwVars, todo, ver, device, selected, hb, faults>>

\* Mutant of Shut: the link leaves _links but its socket is not closed.
ShutForgets ==
    /\ pc = "shut"
    /\ victim' = None
    /\ pc' = "delete"
    /\ UNCHANGED <<cur, linkVars, gwVars, todo, ver, device, selected, hb, faults>>

\* ... closes it ...
Shut ==
    /\ pc = "shut"
    /\ CloseLinks({victim})
    /\ victim' = None
    /\ pc' = "delete"
    /\ UNCHANGED <<cur, rd, ng, pair, gwVars, todo, ver, device, selected, hb, faults>>

\* ... delete_dev acts only on a live gateway (its own close_device finds no link) ...
FindLive ==
    /\ pc = "delete"
    /\ live # None
    /\ pc' = "bean"
    /\ UNCHANGED <<cur, linkVars, gwVars, todo, ver, victim, device, selected, hb, faults>>

\* ... and the connecting entry goes. The next probe follows, or the call ends. When the
\* gateway was evicted since it was found, looking up its version raises KeyError, which
\* connect() does not expect: it ends there, with the connecting entry as it is.
DeleteDev ==
    /\ \/ /\ IF live = None THEN pc = "delete" ELSE pc = "bean"
          /\ EvictGw
          /\ closeCb' = (closeCb /\ live = None)
          /\ pc' = IF todo = <<>> THEN "idle" ELSE "add"
          /\ UNCHANGED todo
       \/ /\ pc = "bean" /\ live = None
          /\ todo' = <<>>
          /\ pc' = "idle"
          /\ UNCHANGED gwVars
    /\ UNCHANGED <<cur, linkVars, ver, victim, device, selected, hb, faults>>

\* Mutant of SendRefused: an offline link is not looked at, as if the bytes were sent.
SendRefusedOnline ==
    /\ CheckOnline
    /\ \/ SessionSend(live) /\ link[cur].proto = "3.4" /\ ~link[cur].key
       \/ link[cur].peer = "gone"

\* control_by_binary: the link is offline, or the native send returns -1 (a 3.4 link
\* without session key) or -2 (OSError). A send that succeeds changes nothing here.
SendRefused ==
    CheckOnline => \/ SessionSend(live) /\ link[cur].proto = "3.4" /\ ~link[cur].key
                   \/ link[cur].peer = "gone"

SendFails ==
    /\ pc = "idle"
    /\ device # None
    /\ live # None
    /\ SendRefused
    /\ EvictGw
    /\ UNCHANGED <<cur, linkVars, closeCb, callerVars, hb, faults>>

-----------------------------------------------------------------------------
(* The negotiator thread of link l: _negotiate, _negotiate_34, _negotiate_35. *)

\* A send on the link succeeds; on one whose peer is gone it may still do so.
CanSend(l) == ~link[l].closed

NgGoto(l, where) == ng' = [ng EXCEPT ![l] = where]

\* The except branch of _negotiate: only the current link reports its failure.
NegFails(l) == NgGoto(l, IF cur = l THEN "evict" ELSE "done")

SendError(l) == link[l].closed \/ link[l].peer = "gone"

\* SESS_KEY_NEG_START.
NegStart(l) ==
    /\ ng[l] = "start"
    /\ \/ CanSend(l) /\ NgGoto(l, "wait")
       \/ SendError(l) /\ NegFails(l)
    /\ UNCHANGED <<cur, link, rd, pair, gwVars, callerVars, hb, faults>>

\* _wait_neg_resp and the checks on what it returns; the wait may time out.
NegResponse(l) ==
    /\ ng[l] = "wait"
    /\ \/ link[l].resp = "good" /\ NgGoto(l, "finish")
       \/ link[l].resp # "good" /\ NegFails(l)
    /\ link' = [link EXCEPT ![l].resp = "none"]
    /\ UNCHANGED <<cur, rd, pair, gwVars, callerVars, hb, faults>>

\* SESS_KEY_NEG_FINISH, link.session_key is set, and only the current link goes on to
\* dispatch_handshake_success.
NegFinish(l) ==
    /\ ng[l] = "finish"
    /\ \/ /\ CanSend(l)
          /\ link' = [link EXCEPT ![l].key = TRUE]
          /\ NgGoto(l, IF cur = l THEN "pop" ELSE "done")
       \/ /\ SendError(l)
          /\ NegFails(l)
          /\ UNCHANGED link
    /\ UNCHANGED <<cur, rd, pair, gwVars, callerVars, hb, faults>>

\* _on_gw_online_changed(dev_id, True): the bean leaves connecting_gw ...
NegPop(l) ==
    /\ ng[l] = "pop"
    /\ pair' = [pair EXCEPT ![l] = connecting]
    /\ connecting' = None
    /\ NgGoto(l, "set")
    /\ UNCHANGED <<cur, link, rd, live, closeCb, callerVars, hb, faults>>

\* ... and, if there was one, enters live_gw.
NegSetLive(l) ==
    /\ ng[l] = "set"
    /\ live' = IF pair[l] # None THEN pair[l] ELSE live
    /\ pair' = [pair EXCEPT ![l] = None]
    /\ NgGoto(l, "done")
    /\ UNCHANGED <<cur, link, rd, connecting, closeCb, callerVars, hb, faults>>

\* dispatch_handshake_error.
NegEvict(l) ==
    /\ ng[l] = "evict"
    /\ EvictGw
    /\ NgGoto(l, "done")
    /\ UNCHANGED <<cur, link, rd, pair, closeCb, callerVars, hb, faults>>

NegotiatorStep(l) == \/ NegStart(l) \/ NegResponse(l) \/ NegFinish(l)
                     \/ NegPop(l) \/ NegSetLive(l) \/ NegEvict(l)

-----------------------------------------------------------------------------
(* The reader thread of link l: _reader. *)

RdGoto(l, where) == rd' = [rd EXCEPT ![l] = where]

\* A SESS_KEY_NEG_RESP frame of a negotiating link goes to neg_queue.
ReaderNegResp(l) ==
    /\ rd[l] = "run"
    /\ link[l].online /\ ~link[l].closed /\ link[l].peer = "ok"
    /\ ng[l] = "wait" /\ link[l].resp = "none"
    /\ link' = [link EXCEPT ![l].resp = IF link[l].proto = DeviceProto THEN "good" ELSE "bad"]
    /\ UNCHANGED <<cur, rd, ng, pair, gwVars, callerVars, hb, faults>>

\* The loop ends: EOF, a socket error, a frame error, or the link is offline. Only the
\* current, unclosed link's end is dispatched.
ReaderEnds(l) ==
    /\ rd[l] = "run"
    /\ ~link[l].online \/ link[l].peer = "gone"
    /\ RdGoto(l, IF link[l].online /\ ~link[l].closed /\ cur = l /\ closeCb
                 THEN "evict" ELSE "close")
    /\ link' = [link EXCEPT ![l].online = FALSE]
    /\ UNCHANGED <<cur, ng, pair, gwVars, callerVars, hb, faults>>

\* dispatch_link_close.
ReaderEvict(l) ==
    /\ rd[l] = "evict"
    /\ EvictGw
    /\ RdGoto(l, "close")
    /\ UNCHANGED <<cur, link, ng, pair, closeCb, callerVars, hb, faults>>

ReaderClose(l) ==
    /\ rd[l] = "close"
    /\ CloseLinks({l})
    /\ RdGoto(l, "done")
    /\ UNCHANGED <<cur, ng, pair, gwVars, callerVars, hb, faults>>

ReaderStep(l) == ReaderEnds(l) \/ ReaderEvict(l) \/ ReaderClose(l)

-----------------------------------------------------------------------------
(* The heartbeat thread. *)

\* A link that was in _links when the round began and has been silent for too long.
HbExpired(l) == /\ l \in {cur, victim}
                /\ link[l].online /\ ~link[l].closed /\ link[l].peer = "silent"

\* Mutant of HbClose: the close is dispatched but the socket is left open.
HbCloseDispatchOnly(l) ==
    /\ hb = "idle"
    /\ HbExpired(l)
    /\ hb' = IF closeCb THEN "evict" ELSE "idle"
    /\ UNCHANGED <<cur, linkVars, gwVars, callerVars, faults>>

\* It is closed, whoever else may be about to close it ...
HbClose(l) ==
    /\ hb = "idle"
    /\ HbExpired(l)
    /\ CloseLinks({l})
    /\ hb' = IF closeCb THEN "evict" ELSE "idle"
    /\ UNCHANGED <<cur, rd, ng, pair, gwVars, callerVars, faults>>

\* ... and its close dispatched, whichever link is current by then.
HbEvict ==
    /\ hb = "evict"
    /\ EvictGw
    /\ hb' = "idle"
    /\ UNCHANGED <<cur, linkVars, closeCb, callerVars, faults>>

HeartbeatStep == HbEvict \/ \E l \in Links : HbClose(l)

-----------------------------------------------------------------------------
(* The environment. *)

\* The device stops answering for longer than the heartbeat allows, or its end of the
\* connection goes away (or sends bytes that are no frame).
DeviceFault(l, how) ==
    /\ rd[l] # "free" /\ ~link[l].closed /\ link[l].peer = "ok"
    /\ faults < MaxFaults
    /\ faults' = faults + 1
    /\ link' = [link EXCEPT ![l].peer = how]
    /\ UNCHANGED <<cur, rd, ng, pair, gwVars, callerVars, hb>>

\* A link no thread runs on and no map holds is garbage: its slot is free again.
Reclaim(l) ==
    /\ rd[l] = "done" /\ ng[l] \in {"none", "done"}
    /\ l # cur /\ l # victim
    /\ link' = [link EXCEPT ![l] = FreeLink]
    /\ RdGoto(l, "free")
    /\ NgGoto(l, "none")
    /\ UNCHANGED <<cur, pair, gwVars, callerVars, hb, faults>>

-----------------------------------------------------------------------------
Init ==
    /\ cur = None
    /\ link = [l \in Links |-> FreeLink]
    /\ rd = [l \in Links |-> "free"]
    /\ ng = [l \in Links |-> "none"]
    /\ pair = [l \in Links |-> None]
    /\ connecting = None /\ live = None /\ closeCb = FALSE
    /\ pc = "idle" /\ todo = <<>> /\ ver = None /\ victim = None
    /\ device = None /\ selected = None
    /\ hb = "idle"
    /\ faults = 0

CallerStep ==
    \/ AddDev \/ OpenFails \/ OpenLink \/ StartReader \/ StartSwapKey
    \/ PollLive \/ PollConnecting \/ Deadline
    \/ Unlink \/ Shut \/ FindLive \/ DeleteDev

Next ==
    \/ Connect \/ Close \/ SendFails
    \/ CallerStep
    \/ HeartbeatStep
    \/ \E l \in Links :
         \/ NegotiatorStep(l) \/ ReaderStep(l) \/ ReaderNegResp(l) \/ Reclaim(l)
         \/ \E how \in {"silent", "gone"} : DeviceFault(l, how)

Spec == Init /\ [][Next]_vars

\* Threads keep running; the deadline of the wait loop is read off the clock on every
\* turn, so it fires although the loop also has other work; callers poll the device.
Fairness ==
    /\ WF_vars(CallerStep) /\ SF_vars(Deadline) /\ WF_vars(SendFails)
    /\ WF_vars(HeartbeatStep)
    /\ \A l \in Links : WF_vars(NegotiatorStep(l)) /\ WF_vars(ReaderStep(l))
                      /\ WF_vars(Reclaim(l))

FairSpec == Spec /\ Fairness

-----------------------------------------------------------------------------
(* Properties. *)

\* Every variable keeps its type: no probe, bean or session ever carries a version the code
\* does not know, and no map a link that has no slot.
TypeOK ==
    /\ cur \in Links \cup {None}
    /\ link \in [Links -> Link]
    /\ rd \in [Links -> RdPc]
    /\ ng \in [Links -> NgPc]
    /\ pair \in [Links -> Versions \cup {None}]
    /\ connecting \in Versions \cup {None}
    /\ live \in Versions \cup {None}
    /\ closeCb \in BOOLEAN
    /\ pc \in CallerPc
    /\ todo \in Seq(Versions)
    /\ ver \in Versions \cup {None}
    /\ victim \in Links \cup {None}
    /\ device \in Versions \cup {None}
    /\ selected \in Versions \cup {None}
    /\ hb \in {"idle", "evict"}
    /\ faults \in 0..MaxFaults

\* Nobody is about to close the socket of link l.
Held(l) == ~link[l].closed /\ rd[l] \notin {"evict", "close"}

\* An open socket is reachable: it is the one in _links, or the caller holds it between
\* taking it out of _links and closing it, or its own reader is on its way to close it.
NoOrphanLink == \A l \in Links : Held(l) => l \in {cur, victim}

\* "the S7 allows a single LAN session, so a lingering socket/link would reject the
\* follow-up handshake" (_teardown_probe): when create_connection is called no earlier
\* socket is held open, whichever threads of earlier links are still running.
SingleSession == pc = "open" => \A l \in Links : ~Held(l)

\* A connect() that failed and a close() leave no session behind.
FailureLeavesNoLink == pc = "idle" /\ device = None => \A l \in Links : ~Held(l)

\* connect() and close() return.
CallReturns == pc # "idle" ~> pc = "idle"

\* A gateway that is in live_gw without an online link does not stay believed: the next
\* read or write finds out, whatever order the upcalls came in.
DeadSessionEvicted ==
    (device # None /\ live # None /\ ~CheckOnline)
        ~> (device = None \/ live = None \/ CheckOnline)

\* The heartbeat closes a link whose device fell silent.
SilentLinkClosed == \A l \in Links : link[l].peer = "silent" ~> link[l].closed
=============================================================================
