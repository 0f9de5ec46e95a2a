--------------------------- MODULE LanLinkProofs ---------------------------
(***************************************************************************)
(* Type correctness and the session-safety invariants of LanLink, for any  *)
(* set of link slots, any probe list and any number of device faults.      *)
(***************************************************************************)
EXTENDS LanLink, SequenceTheorems, TLAPS

USE VersionAssumption, NoneAssumption, FaultAssumption

-----------------------------------------------------------------------------
(* The inductive invariant. *)

\* A link goes offline without being closed only at the end of its own reader.
OfflineIsClosing ==
    \A l \in Links : ~link[l].closed /\ ~link[l].online => rd[l] \in {"evict", "close"}

\* The caller holds a victim only between taking it out of _links and closing it.
VictimIsBrief == pc \notin {"swap", "shut"} => victim = None

\* Between the swap of _links and the start of the negotiation the new link is current,
\* and its reader, not yet started, leaves it alone.
NewLinkIsCurrent == /\ pc \in {"swap", "key"} => cur # None
                    /\ pc = "swap" => rd[cur] = "new"

\* A teardown has emptied _links, and outside a call only a connected transport has a link.
TornDown == /\ pc \in {"shut", "delete", "bean"} => cur = None
            /\ pc = "idle" /\ device = None => cur = None
            /\ pc # "idle" => device = None

\* A probe in progress has a version, and another one is started only while some are left.
Probing == /\ pc \in {"open", "swap", "key", "poll", "pollc"} => ver \in Versions
           /\ pc = "add" => todo # <<>>

IInv == /\ TypeOK
        /\ OfflineIsClosing /\ VictimIsBrief /\ NewLinkIsCurrent /\ TornDown /\ Probing
        /\ NoOrphanLink /\ SingleSession

-----------------------------------------------------------------------------
(* The probe list is a nonempty sequence of versions. *)

\* Leaving a version out of the probe list leaves a list of versions.
LEMMA WithoutType == ASSUME NEW v PROVE Without(v) \in Seq(Versions)
<1>1. CASE \E i \in 1..Len(AutoVersions) : AutoVersions[i] = v
  <2> DEFINE i == CHOOSE j \in 1..Len(AutoVersions) : AutoVersions[j] = v
  <2>1. i \in 1..Len(AutoVersions)
    BY <1>1
  <2> HIDE DEF i
  <2>2. Len(AutoVersions) \in Nat
    BY LenProperties
  <2>3. SubSeq(AutoVersions, 1, i - 1) \in Seq(Versions)
    BY <2>1, <2>2, SubSeqProperties
  <2>4. SubSeq(AutoVersions, i + 1, Len(AutoVersions)) \in Seq(Versions)
    BY <2>1, <2>2, SubSeqProperties
  <2>5. Without(v) = SubSeq(AutoVersions, 1, i - 1)
                       \o SubSeq(AutoVersions, i + 1, Len(AutoVersions))
    BY <1>1 DEF Without, i
  <2> QED BY <2>3, <2>4, <2>5, ConcatProperties
<1>2. CASE ~\E i \in 1..Len(AutoVersions) : AutoVersions[i] = v
  BY <1>2 DEF Without
<1> QED BY <1>1, <1>2

\* connect() has at least one version to probe, whatever was negotiated before.
LEMMA ProbesType == ASSUME selected \in Versions \cup {None}
                    PROVE  Probes \in Seq(Versions) /\ Probes # <<>>
<1>1. CASE FixedVersion # None
  <2>1. Probes = <<FixedVersion>> /\ FixedVersion \in Versions
    BY <1>1 DEF Probes
  <2> QED BY <2>1
<1>2. CASE FixedVersion = None /\ selected # None
  <2>1. Probes = <<selected>> \o Without(selected)
    BY <1>2 DEF Probes
  <2>2. <<selected>> \in Seq(Versions) /\ Len(<<selected>>) = 1
    BY <1>2
  <2>3. Without(selected) \in Seq(Versions) /\ Len(Without(selected)) \in Nat
    BY WithoutType, LenProperties
  <2>4. Probes \in Seq(Versions) /\ Len(Probes) = 1 + Len(Without(selected))
    BY <2>1, <2>2, <2>3, ConcatProperties
  <2> QED BY <2>3, <2>4
<1>3. CASE FixedVersion = None /\ selected = None
  BY <1>3 DEF Probes
<1> QED BY <1>1, <1>2, <1>3

\* Every version has a handshake.
LEMMA HandshakeProtoType == ASSUME NEW v \in Versions PROVE HandshakeProto(v) \in Protos
BY DEF HandshakeProto, Protos

\* The updates of a link's fields keep it a link.
LEMMA LinkUpdates ==
    ASSUME NEW r \in Link
    PROVE  /\ [r EXCEPT !.key = TRUE] \in Link
           /\ [r EXCEPT !.online = FALSE] \in Link
           /\ \A x \in {"none", "good", "bad"} : [r EXCEPT !.resp = x] \in Link
           /\ \A x \in {"ok", "silent", "gone"} : [r EXCEPT !.peer = x] \in Link
           /\ [r EXCEPT !.closed = TRUE, !.online = FALSE, !.peer = "gone"] \in Link
BY DEF Link

\* Closing links keeps the links' type.
LEMMA CloseLinksType ==
    ASSUME link \in [Links -> Link], NEW S, CloseLinks(S)
    PROVE  link' \in [Links -> Link]
BY LinkUpdates DEF CloseLinks

\* What closing a set of links does to each link.
LEMMA CloseLinksEffect ==
    ASSUME link \in [Links -> Link], NEW S, CloseLinks(S), NEW l \in Links
    PROVE  IF l \in S THEN link'[l].closed ELSE link'[l] = link[l]
<1>1. CASE l \in S
  <2>1. link'[l] = [link[l] EXCEPT !.closed = TRUE, !.online = FALSE, !.peer = "gone"]
    BY <1>1 DEF CloseLinks
  <2>2. link[l] \in Link
    OBVIOUS
  <2>3. [link[l] EXCEPT !.closed = TRUE, !.online = FALSE, !.peer = "gone"].closed
    BY <2>2 DEF Link
  <2> QED BY <1>1, <2>1, <2>3
<1>2. CASE l \notin S
  BY <1>2 DEF CloseLinks
<1> QED BY <1>1, <1>2

-----------------------------------------------------------------------------
(* Type correctness is preserved by every step that starts in IInv. *)

\* Every step keeps the types.
LEMMA TypeStep == IInv /\ [Next]_vars => TypeOK'
<1> SUFFICES ASSUME IInv, [Next]_vars PROVE TypeOK'
  OBVIOUS
<1> USE DEF IInv, TypeOK, RdPc, NgPc, CallerPc
<1>1. CASE Connect
  BY <1>1, ProbesType DEF Connect, Probing, linkVars, gwVars, callerVars
<1>2. CASE Close
  BY <1>2 DEF Close, Probing, linkVars, gwVars, callerVars
<1>3. CASE SendFails
  BY <1>3 DEF SendFails, Probing, linkVars, gwVars, callerVars, EvictGw
<1>4. CASE AddDev
  <2>1. Head(todo) \in Versions /\ Tail(todo) \in Seq(Versions)
    BY <1>4, HeadTailProperties DEF AddDev, Probing
  <2>2. CASE UNCHANGED gwVars /\ pc' = "poll"
    BY <1>4, <2>1, <2>2 DEF AddDev, linkVars, gwVars, callerVars
  <2>3. CASE connecting' = None /\ pc' = "poll" /\ UNCHANGED <<live, closeCb>>
    BY <1>4, <2>1, <2>3 DEF AddDev, linkVars, gwVars, callerVars
  <2>4. CASE live' = None /\ connecting' = Head(todo) /\ closeCb' = TRUE /\ pc' = "open"
    BY <1>4, <2>1, <2>4 DEF AddDev, linkVars, gwVars, callerVars
  <2> QED BY <1>4, <2>2, <2>3, <2>4 DEF AddDev
<1>5. CASE OpenFails
  BY <1>5 DEF OpenFails, Probing, linkVars, gwVars, callerVars, EvictGw
<1>6. CASE OpenLink
  <2>1. link' \in [Links -> Link]
    BY <1>6, HandshakeProtoType DEF OpenLink, Probing, NewLink, Link
  <2> QED BY <1>6, <2>1 DEF OpenLink, linkVars, gwVars, callerVars
<1>7. CASE StartReader
  <2>1. link' \in [Links -> Link]
    BY <1>7, CloseLinksType DEF StartReader
  <2> QED BY <1>7, <2>1 DEF StartReader, linkVars, gwVars, callerVars
<1>8. CASE StartSwapKey
  BY <1>8 DEF StartSwapKey, Probing, linkVars, gwVars, callerVars
<1>9. CASE PollLive
  <2>1. CASE live # None /\ device' = ver /\ selected' = ver /\ todo' = <<>> /\ pc' = "idle"
    BY <1>9, <2>1 DEF PollLive, Probing, linkVars, gwVars, callerVars
  <2>2. CASE pc' = "pollc" /\ UNCHANGED <<device, selected, todo>>
    BY <1>9, <2>2 DEF PollLive, linkVars, gwVars, callerVars
  <2> QED BY <1>9, <2>1, <2>2 DEF PollLive
<1>10. CASE PollConnecting
  BY <1>10 DEF PollConnecting, Probing, linkVars, gwVars, callerVars
<1>11. CASE Deadline
  BY <1>11 DEF Deadline, Probing, linkVars, gwVars, callerVars
<1>12. CASE Unlink
  BY <1>12 DEF Unlink, Probing, linkVars, gwVars, callerVars
<1>13. CASE Shut
  <2>1. link' \in [Links -> Link]
    BY <1>13, CloseLinksType DEF Shut
  <2> QED BY <1>13, <2>1 DEF Shut, linkVars, gwVars, callerVars
<1>14. CASE DeleteDev
  <2>1. todo' \in Seq(Versions)
    <3>1. <<>> \in Seq(Versions)
      OBVIOUS
    <3>2. todo' = todo \/ todo' = <<>>
      BY <1>14 DEF DeleteDev
    <3> QED BY <3>1, <3>2
  <2>2. closeCb' \in BOOLEAN /\ connecting' \in {connecting, None} /\ live' \in {live, None}
    BY <1>14 DEF DeleteDev, EvictGw, gwVars
  <2>3. pc' \in CallerPc
    BY <1>14 DEF DeleteDev
  <2> QED BY <1>14, <2>1, <2>2, <2>3 DEF DeleteDev, linkVars
<1>15. ASSUME NEW l \in Links, HbClose(l) PROVE TypeOK'
  <2>1. link' \in [Links -> Link]
    BY <1>15, CloseLinksType DEF HbClose
  <2> QED BY <1>15, <2>1 DEF HbClose, linkVars, gwVars, callerVars
<1>16. CASE HbEvict
  BY <1>16 DEF HbEvict, Probing, linkVars, gwVars, callerVars, EvictGw
<1>17. ASSUME NEW l \in Links, NegStart(l) PROVE TypeOK'
  BY <1>17 DEF NegStart, linkVars, gwVars, callerVars, NgGoto, NegFails
<1>18. ASSUME NEW l \in Links, NegResponse(l) PROVE TypeOK'
  <2>1. link' \in [Links -> Link]
    BY <1>18, LinkUpdates DEF NegResponse
  <2> QED BY <1>18, <2>1 DEF NegResponse, NgGoto, NegFails, linkVars, gwVars, callerVars
<1>19. ASSUME NEW l \in Links, NegFinish(l) PROVE TypeOK'
  <2>1. link' \in [Links -> Link]
    <3>1. link' = link \/ link' = [link EXCEPT ![l].key = TRUE]
      BY <1>19 DEF NegFinish
    <3>2. link[l] \in Link
      BY <1>19
    <3>3. [link[l] EXCEPT !.key = TRUE] \in Link
      BY <3>2, LinkUpdates
    <3> QED BY <3>1, <3>3
  <2> QED BY <1>19, <2>1 DEF NegFinish, NgGoto, NegFails, linkVars, gwVars, callerVars
<1>20. ASSUME NEW l \in Links, NegPop(l) PROVE TypeOK'
  BY <1>20 DEF NegPop, linkVars, gwVars, callerVars, NgGoto
<1>21. ASSUME NEW l \in Links, NegSetLive(l) PROVE TypeOK'
  BY <1>21 DEF NegSetLive, linkVars, gwVars, callerVars, NgGoto
<1>22. ASSUME NEW l \in Links, NegEvict(l) PROVE TypeOK'
  BY <1>22 DEF NegEvict, linkVars, gwVars, callerVars, EvictGw, NgGoto
<1>23. ASSUME NEW l \in Links, ReaderEnds(l) PROVE TypeOK'
  <2>1. link' \in [Links -> Link]
    BY <1>23, LinkUpdates DEF ReaderEnds
  <2> QED BY <1>23, <2>1 DEF ReaderEnds, RdGoto, linkVars, gwVars, callerVars
<1>24. ASSUME NEW l \in Links, ReaderEvict(l) PROVE TypeOK'
  BY <1>24 DEF ReaderEvict, linkVars, gwVars, callerVars, EvictGw, RdGoto
<1>25. ASSUME NEW l \in Links, ReaderClose(l) PROVE TypeOK'
  <2>1. link' \in [Links -> Link]
    BY <1>25, CloseLinksType DEF ReaderClose
  <2>2. rd' \in [Links -> RdPc]
    BY <1>25 DEF ReaderClose, RdGoto
  <2>3. UNCHANGED <<cur, ng, pair, connecting, live, closeCb, pc, todo, ver, victim, device,
                    selected, hb, faults>>
    BY <1>25 DEF ReaderClose, gwVars, callerVars
  <2> QED BY <2>1, <2>2, <2>3
<1>26. ASSUME NEW l \in Links, ReaderNegResp(l) PROVE TypeOK'
  <2>1. link' \in [Links -> Link]
    BY <1>26, LinkUpdates DEF ReaderNegResp
  <2> QED BY <1>26, <2>1 DEF ReaderNegResp, RdGoto, linkVars, gwVars, callerVars
<1>27. ASSUME NEW l \in Links, Reclaim(l) PROVE TypeOK'
  <2>1. link' \in [Links -> Link]
    BY <1>27 DEF Reclaim, FreeLink, Link, Protos
  <2> QED BY <1>27, <2>1 DEF Reclaim, RdGoto, NgGoto, linkVars, gwVars, callerVars
<1>28. ASSUME NEW l \in Links, NEW how \in {"silent", "gone"}, DeviceFault(l, how)
      PROVE  TypeOK'
  <2>1. link' \in [Links -> Link]
    BY <1>28, LinkUpdates DEF DeviceFault
  <2> QED BY <1>28, <2>1 DEF DeviceFault, linkVars, gwVars, callerVars
<1>29. CASE FindLive
  BY <1>29 DEF FindLive, linkVars, gwVars
<1>30. CASE UNCHANGED vars
  BY <1>30 DEF vars, linkVars, gwVars, callerVars
<1> QED
  BY <1>1, <1>2, <1>3, <1>4, <1>5, <1>6, <1>7, <1>8, <1>9, <1>10, <1>11, <1>12, <1>13, <1>14, <1>15, <1>16, <1>17, <1>18, <1>19, <1>20, <1>21, <1>22, <1>23, <1>24, <1>25, <1>26, <1>27, <1>28, <1>29, <1>30
     DEF Next, CallerStep, HeartbeatStep, NegotiatorStep, ReaderStep

-----------------------------------------------------------------------------
(* Steps of the link threads, the heartbeat and the device: they leave the   *)
(* caller and _links alone and never open a socket.                          *)

BackgroundStep ==
    \/ HeartbeatStep
    \/ \E l \in Links :
         \/ NegotiatorStep(l) \/ ReaderStep(l) \/ ReaderNegResp(l) \/ Reclaim(l)
         \/ \E how \in {"silent", "gone"} : DeviceFault(l, how)

\* Open and offline at once only at the end of the reader; open sockets stay held or
\* are let go.
Quiet == /\ \A l \in Links : Held(l)' => Held(l)
         /\ \A l \in Links : rd[l] = "new" => rd'[l] = "new"
         /\ OfflineIsClosing'
         /\ UNCHANGED <<cur, callerVars>>

\* The threads behind the caller's back disturb nothing the invariant says.
LEMMA BackgroundIsQuiet == IInv /\ BackgroundStep => Quiet
<1> SUFFICES ASSUME IInv, BackgroundStep PROVE Quiet
  OBVIOUS
<1> USE DEF IInv, TypeOK, OfflineIsClosing, Quiet, Held, Link
<1>1. ASSUME NEW l \in Links, HbClose(l) PROVE Quiet
  <2>1. /\ UNCHANGED <<cur, rd, callerVars>>
        /\ link' = [k \in Links |-> IF k \in {l}
                      THEN [link[k] EXCEPT !.closed = TRUE, !.online = FALSE, !.peer = "gone"]
                      ELSE link[k]]
    BY <1>1 DEF HbClose, CloseLinks
  <2>2. ASSUME NEW k \in Links PROVE link'[k].closed \/ link'[k] = link[k]
    <3>1. CASE k = l
      <4>1. link'[l] = [link[l] EXCEPT !.closed = TRUE, !.online = FALSE, !.peer = "gone"]
        BY <2>1
      <4>2. link[l] \in Link
        OBVIOUS
      <4> QED
        BY <3>1, <4>1, <4>2
    <3>2. CASE k # l
      BY <2>1, <3>2
    <3> QED
      BY <3>1, <3>2
  <2> QED
    BY <2>1, <2>2
<1>2. CASE HbEvict
  BY <1>2 DEF HbEvict, linkVars, callerVars
<1>3. ASSUME NEW l \in Links, NegStart(l) \/ NegPop(l) \/ NegSetLive(l) \/ NegEvict(l)
      PROVE  Quiet
  BY <1>3 DEF NegStart, NegPop, NegSetLive, NegEvict, callerVars
<1>4. ASSUME NEW l \in Links, NegResponse(l) PROVE Quiet
  BY <1>4 DEF NegResponse, callerVars
<1>5. ASSUME NEW l \in Links, NegFinish(l) PROVE Quiet
  <2>1. link' = link \/ link' = [link EXCEPT ![l].key = TRUE]
    BY <1>5 DEF NegFinish
  <2>2. \A k \in Links : link'[k].closed = link[k].closed /\ link'[k].online = link[k].online
    BY <2>1
  <2>3. rd' = rd /\ UNCHANGED <<cur, callerVars>>
    BY <1>5 DEF NegFinish
  <2> QED BY <2>2, <2>3
<1>6. ASSUME NEW l \in Links, ReaderEnds(l) PROVE Quiet
  BY <1>6 DEF ReaderEnds, RdGoto, callerVars, RdPc
<1>7. ASSUME NEW l \in Links, ReaderEvict(l) PROVE Quiet
  BY <1>7 DEF ReaderEvict, RdGoto, callerVars, RdPc
<1>8. ASSUME NEW l \in Links, ReaderClose(l) PROVE Quiet
  <2>1. UNCHANGED <<cur, callerVars>>
    BY <1>8 DEF ReaderClose
  <2>2. ASSUME NEW k \in Links, k # l
        PROVE  link'[k] = link[k] /\ rd'[k] = rd[k]
    BY <1>8, <2>2 DEF ReaderClose, RdGoto, CloseLinks
  <2>3. link'[l].closed
    BY <1>8, CloseLinksEffect DEF ReaderClose
  <2>4. rd[l] = "close"
    BY <1>8 DEF ReaderClose
  <2> QED BY <2>1, <2>2, <2>3, <2>4
<1>9. ASSUME NEW l \in Links, ReaderNegResp(l) PROVE Quiet
  BY <1>9 DEF ReaderNegResp, callerVars
<1>10. ASSUME NEW l \in Links, Reclaim(l) PROVE Quiet
  BY <1>10 DEF Reclaim, RdGoto, FreeLink, callerVars, RdPc
<1>11. ASSUME NEW l \in Links, NEW how \in {"silent", "gone"}, DeviceFault(l, how)
       PROVE  Quiet
  BY <1>11 DEF DeviceFault, callerVars
<1> QED
  BY <1>1, <1>2, <1>3, <1>4, <1>5, <1>6, <1>7, <1>8, <1>9, <1>10, <1>11
     DEF BackgroundStep, HeartbeatStep, NegotiatorStep, ReaderStep

-----------------------------------------------------------------------------
(* The theorems. *)

\* The invariant holds initially.
LEMMA InitIInv == Init => IInv
<1> SUFFICES ASSUME Init PROVE IInv
  OBVIOUS
<1>1. TypeOK
  <2>1. FreeLink \in Link
    BY DEF Link, FreeLink, Protos
  <2>2. link \in [Links -> Link]
    BY <2>1 DEF Init
  <2>3. todo \in Seq(Versions)
    BY DEF Init
  <2>4. rd \in [Links -> RdPc] /\ ng \in [Links -> NgPc]
    BY DEF Init, RdPc, NgPc
  <2>5. pair \in [Links -> Versions \cup {None}] /\ closeCb \in BOOLEAN
    BY DEF Init
  <2>6. faults \in 0..MaxFaults
    BY DEF Init
  <2> QED BY <2>2, <2>3, <2>4, <2>5, <2>6 DEF Init, TypeOK, CallerPc
<1>2. \A l \in Links : link[l].closed
  BY DEF Init, FreeLink
<1> QED
  BY <1>1, <1>2 DEF Init, IInv, OfflineIsClosing, VictimIsBrief, NewLinkIsCurrent,
                    TornDown, Probing, NoOrphanLink, SingleSession, Held

\* What the caller's steps do to the invariants, and the background steps by Quiet.
LEMMA NextIInv == IInv /\ [Next]_vars => IInv'
<1> SUFFICES ASSUME IInv, [Next]_vars PROVE IInv'
  OBVIOUS
<1>0. TypeOK'
  BY TypeStep
<1> DEFINE Rest == /\ OfflineIsClosing /\ VictimIsBrief /\ NewLinkIsCurrent /\ TornDown
                   /\ Probing /\ NoOrphanLink /\ SingleSession
<1> SUFFICES Rest'
  BY <1>0 DEF IInv
<1> USE DEF IInv, TypeOK, CallerPc
<1>1. CASE Connect
  BY <1>1, ProbesType
     DEF Connect, linkVars, OfflineIsClosing, VictimIsBrief, NewLinkIsCurrent,
         TornDown, Probing, NoOrphanLink, SingleSession, Held
<1>2. CASE Close
  BY <1>2 DEF Close, linkVars, OfflineIsClosing, VictimIsBrief, NewLinkIsCurrent,
         TornDown, Probing, NoOrphanLink, SingleSession, Held
<1>3. CASE SendFails
  BY <1>3 DEF SendFails, linkVars, callerVars, OfflineIsClosing, VictimIsBrief,
         NewLinkIsCurrent, TornDown, Probing, NoOrphanLink, SingleSession, Held
<1>4. CASE AddDev
  <2>1. Head(todo) \in Versions /\ Tail(todo) \in Seq(Versions)
    BY <1>4, HeadTailProperties DEF AddDev, Probing
  <2>2. UNCHANGED <<cur, link, rd, victim, device>> /\ pc' \in {"poll", "open"}
    BY <1>4 DEF AddDev, linkVars
  <2>3. ASSUME pc' = "open" PROVE \A l \in Links : ~Held(l)
    <3>1. ~CheckOnline /\ victim = None
      BY <1>4, <2>3 DEF AddDev, VictimIsBrief
    <3> QED BY <3>1 DEF CheckOnline, Held, NoOrphanLink, OfflineIsClosing
  <2> QED
    BY <1>4, <2>1, <2>2, <2>3
       DEF AddDev, OfflineIsClosing, VictimIsBrief, NewLinkIsCurrent, TornDown, Probing,
           NoOrphanLink, SingleSession, Held
<1>5. CASE OpenFails \/ PollConnecting \/ Deadline \/ FindLive \/ DeleteDev
  <2>1. UNCHANGED <<cur, link, rd, victim, device, ver>>
    BY <1>5 DEF OpenFails, PollConnecting, Deadline, FindLive, DeleteDev, linkVars
  <2>2. \/ pc \in {"open", "pollc"} /\ pc' = "poll"
        \/ pc \in {"poll", "pollc"} /\ pc' = "unlink"
        \/ pc = "delete" /\ pc' = "bean"
        \/ pc \in {"delete", "bean"} /\ (pc' = "idle" \/ (pc' = "add" /\ todo' # <<>>))
    <3>1. CASE OpenFails
      BY <3>1 DEF OpenFails
    <3>2. CASE PollConnecting
      BY <3>2 DEF PollConnecting
    <3>3. CASE Deadline
      BY <3>3 DEF Deadline
    <3>4. CASE FindLive
      BY <3>4 DEF FindLive
    <3>5. CASE DeleteDev
      BY <3>5 DEF DeleteDev
    <3> QED BY <1>5, <3>1, <3>2, <3>3, <3>4, <3>5
  <2> QED
    BY <2>1, <2>2 DEF OfflineIsClosing, VictimIsBrief, NewLinkIsCurrent, TornDown,
       Probing, NoOrphanLink, SingleSession, Held
<1>6. CASE OpenLink
  <2>1. PICK l \in Links : /\ link' = [link EXCEPT ![l] = NewLink(HandshakeProto(ver))]
                           /\ rd' = [rd EXCEPT ![l] = "new"]
                           /\ cur' = l
    BY <1>6 DEF OpenLink
  <2>2. pc = "open" /\ pc' = "swap" /\ victim' = cur /\ UNCHANGED <<todo, ver, device>>
    BY <1>6 DEF OpenLink
  <2>3. link'[l].online
    BY <2>1 DEF NewLink
  <2>4. \A k \in Links : k # l => link'[k] = link[k] /\ rd'[k] = rd[k]
    BY <2>1
  <2>5. OfflineIsClosing'
    BY <2>3, <2>4 DEF OfflineIsClosing
  <2>6. NoOrphanLink'
    BY <2>1, <2>2, <2>4 DEF NoOrphanLink, Held, SingleSession
  <2> QED
    BY <2>1, <2>2, <2>5, <2>6
       DEF VictimIsBrief, NewLinkIsCurrent, TornDown, Probing, SingleSession
<1>7. CASE StartReader \/ Shut
  <2>1. CloseLinks({victim}) /\ victim' = None /\ UNCHANGED <<cur, todo, ver, device>>
    BY <1>7 DEF StartReader, Shut
  <2>2. \/ pc = "swap" /\ pc' = "key" /\ rd' = [rd EXCEPT ![cur] = "run"]
        \/ pc = "shut" /\ pc' = "delete" /\ rd' = rd
    BY <1>7 DEF StartReader, Shut
  <2>3. \A l \in Links : IF l = victim THEN link'[l].closed ELSE link'[l] = link[l]
    BY <2>1, CloseLinksEffect
  <2>4. \A l \in Links : l # cur => rd'[l] = rd[l]
    BY <2>2
  <2>5. pc = "shut" => cur = None
    BY DEF TornDown
  <2>6. NoOrphanLink'
    BY <2>1, <2>3, <2>4 DEF NoOrphanLink, Held
  <2>7. OfflineIsClosing'
    <3>1. CASE pc = "swap"
      BY <2>2, <2>3, <2>4, <3>1 DEF OfflineIsClosing, NewLinkIsCurrent
    <3>2. CASE pc = "shut"
      BY <2>2, <2>3, <3>2 DEF OfflineIsClosing
    <3> QED BY <2>2, <3>1, <3>2
  <2> QED
    BY <2>1, <2>2, <2>6, <2>7
       DEF VictimIsBrief, NewLinkIsCurrent, TornDown, Probing, SingleSession
<1>8. CASE StartSwapKey \/ PollLive
  BY <1>8 DEF StartSwapKey, PollLive, linkVars, OfflineIsClosing, VictimIsBrief,
       NewLinkIsCurrent, TornDown, Probing, NoOrphanLink, SingleSession, Held
<1>9. CASE Unlink
  BY <1>9 DEF Unlink, linkVars, OfflineIsClosing, VictimIsBrief, NewLinkIsCurrent,
       TornDown, Probing, NoOrphanLink, SingleSession, Held
<1>10. CASE BackgroundStep
  <2>1. Quiet
    BY <1>10, BackgroundIsQuiet
  <2> QED
    BY <2>1 DEF Quiet, callerVars, VictimIsBrief, NewLinkIsCurrent, TornDown, Probing,
       NoOrphanLink, SingleSession
<1>11. CASE UNCHANGED vars
  BY <1>11 DEF vars, linkVars, callerVars, OfflineIsClosing, VictimIsBrief,
       NewLinkIsCurrent, TornDown, Probing, NoOrphanLink, SingleSession, Held
<1> QED
  BY <1>1, <1>2, <1>3, <1>4, <1>5, <1>6, <1>7, <1>8, <1>9, <1>10, <1>11
     DEF Next, CallerStep, BackgroundStep

\* The inductive invariant holds in every reachable state.
THEOREM Invariance == Spec => []IInv
BY InitIInv, NextIInv, PTL DEF Spec

\* Type correctness, for every set of link slots and every probe list.
THEOREM TypeCorrect == Spec => []TypeOK
<1>1. IInv => TypeOK
  BY DEF IInv
<1> QED BY Invariance, <1>1, PTL

\* No socket is lost from view: an open one is in _links, in the caller's hands or about
\* to be closed by its reader.
THEOREM NoLinkLost == Spec => []NoOrphanLink
<1>1. IInv => NoOrphanLink
  BY DEF IInv
<1> QED BY Invariance, <1>1, PTL

\* No second session is opened to the device while an earlier socket is held open.
THEOREM OneSession == Spec => []SingleSession
<1>1. IInv => SingleSession
  BY DEF IInv
<1> QED BY Invariance, <1>1, PTL

\* A connect() that failed and a close() leave no socket held open.
THEOREM FailureIsClean == Spec => []FailureLeavesNoLink
<1>1. IInv => FailureLeavesNoLink
  BY DEF IInv, TypeOK, FailureLeavesNoLink, TornDown, VictimIsBrief, NoOrphanLink
<1> QED BY Invariance, <1>1, PTL

=============================================================================
