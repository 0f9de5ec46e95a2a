--------------------------- MODULE PipelineProofs ---------------------------
(***************************************************************************)
(* Proofs about Pipeline and the wake-up manager it extends: what is known *)
(* of every command, that a LAN answer settles it, that the pipeline        *)
(* implements Command, and that the manager by itself loses no wake-up, for *)
(* any number of commands and any mode lists.                               *)
(***************************************************************************)
EXTENDS Pipeline, TLAPS

USE DEF CommunicationEnum, EnvFields, Stages, Inline, PubPc, Channels, Threads, StartPc,
        FanState, regVars

\* The types the proofs need; those of flags are not among them.
LowPowerShape ==
    /\ cbs \in Callers \cup {None}
    /\ lists \in [Callers -> SUBSET Callers]
    /\ held \in [Callers -> Callers \cup {None}]
    /\ start \in [Callers -> StartPc]
    /\ answers \in [Callers -> 0..MaxAnswers]
    /\ fan \in [Threads -> FanState]

PipeShape ==
    /\ pub \in [Callers -> PubPc]
    /\ watchdog \in [Callers -> {"none", "armed", "fired"}]
    /\ lanDone \in [Callers -> BOOLEAN] /\ lanFirst \in [Callers -> BOOLEAN]
    /\ woken \in [Callers -> Nat]
    /\ jobs \in [Callers -> [Stages -> Nat]]
    /\ got \in [Callers -> SUBSET {"ok", "err"}]
    /\ ret \in [Callers -> {"none", "ok", "error"}]
    /\ carried \in [Callers -> SUBSET Channels]

\* The wake-up manager has not heard of a command: its thread has not entered awake(), no
\* list and no fan-out has its callback, and it was given no result.
Untouched(w) ==
    /\ start[w] = "idle" /\ answers[w] = 0
    /\ \A l \in Callers : w \notin lists[l]
    /\ \A th \in Threads : w \notin fan[th].todo
    /\ fan[<<w, "start">>].todo = {} /\ fan[<<w, "start">>].cur = None

\* Positions of the publishing thread before any channel but the LAN is tried.
Early == {"idle", "LAN", "lancall", "lanonly", "lanfirst", "lanok"}

\* A command that has tried nothing but the LAN, or that the LAN settled in time, is
\* unknown to the manager.
LanOnly(w) == pub[w] \in Early \/ lanFirst[w] => Untouched(w) /\ woken[w] = 0

\* Until the watchdog fires such a command has no cloud send, and only the LAN may have it.
NoSendYet(w) ==
    pub[w] \in Early /\ watchdog[w] # "fired" =>
        /\ \A s \in Stages : jobs[w][s] = 0
        /\ carried[w] = IF pub[w] = "lanok" THEN {"lan"} ELSE {}

\* A command whose handler has not been entered has no watchdog, and write_dps goes on.
NotBegun(w) ==
    pub[w] \in {"idle", "LAN"} => watchdog[w] = "none" /\ ret[w] = "none"

\* A LAN answer before the watchdog ended the publishing thread and set the done flag.
Settled(w) ==
    lanFirst[w] =>
        /\ pub[w] = "sent" /\ lanDone[w]
        /\ carried[w] = {"lan"} /\ \A s \in Stages : jobs[w][s] = 0

\* A success, and an acknowledgement still to come, have a channel behind them.
OkTaken(w) ==
    /\ "ok" \in got[w] => carried[w] # {}
    /\ pub[w] = "lanok" => carried[w] # {}
    /\ jobs[w]["ack"] # 0 \/ jobs[w]["ackonly"] # 0 => carried[w] # {}

\* What is known of one command.
Known(w) == LanOnly(w) /\ NoSendYet(w) /\ NotBegun(w) /\ Settled(w) /\ OkTaken(w)

IInv == LowPowerShape /\ PipeShape /\ \A w \in Callers : Known(w)

\* A step of one command leaves the others as they were.
Apart(w) ==
    \A v \in Callers \ {w} :
        /\ pub'[v] = pub[v] /\ watchdog'[v] = watchdog[v] /\ lanDone'[v] = lanDone[v]
        /\ woken'[v] = woken[v] /\ jobs'[v] = jobs[v] /\ got'[v] = got[v]
        /\ ret'[v] = ret[v] /\ carried'[v] = carried[v] /\ lanFirst'[v] = lanFirst[v]
        /\ Untouched(v) => Untouched(v)'

\* What a step means to the caller: write_dps begins, a channel may take the command, or
\* write_dps ends.
Begins(w) == /\ pub[w] = "idle" /\ pub'[w] # "idle"
             /\ ret' = ret /\ carried' = carried
Goes(w)   == /\ pub[w] # "idle" /\ pub'[w] # "idle"
             /\ ret' = ret /\ carried[w] \subseteq carried'[w]
Ends(w)   == /\ pub[w] # "idle" /\ pub' = pub /\ ret[w] = "none" /\ carried' = carried
             /\ \/ ret'[w] = "ok" /\ carried[w] # {}
                \/ ret'[w] = "error"

\* What every step of command w is shown to do.
Moves(w) == /\ LowPowerShape' /\ PipeShape' /\ Apart(w) /\ Known(w)'
            /\ Begins(w) \/ Goes(w) \/ Ends(w)

-----------------------------------------------------------------------------
(* The wake-up manager. *)

\* The manager starts with nobody registered (low_power.py, __init__).
LEMMA LowPowerStarts ==
    ASSUME LowPowerInit
    PROVE  LowPowerShape /\ \A w \in Callers : Untouched(w)
  BY LowPowerAssumption DEF LowPowerInit, LowPowerShape, Untouched, NoFan

\* A dispatch hands the result to registered callbacks only
\* (low_power.py, dispatch_result).
LEMMA DispatchKeeps ==
    ASSUME LowPowerShape, NEW th \in Threads, NEW stopped, Dispatch(th, stopped)
    PROVE  /\ fan' \in [Threads -> FanState]
           /\ fan'[th].todo = Registered
           /\ \A x \in Threads \ {th} : fan'[x] = fan[x]
<1>1. Registered \subseteq Callers /\ cbs \in Callers \cup {None}
  BY DEF LowPowerShape, Registered
<1>2. fan' = [fan EXCEPT ![th] = [todo |-> Registered, cur |-> None, list |-> cbs]]
  BY DEF Dispatch
<1> QED
  BY <1>1, <1>2 DEF LowPowerShape

\* A dispatch on a thread that is not that of a waiting awake() touches no command the
\* manager has not heard of.
LEMMA DispatchQuiet ==
    ASSUME LowPowerShape, NEW th \in Threads, NEW stopped, Dispatch(th, stopped),
           UNCHANGED <<regVars, answers>>, start' \in [Callers -> StartPc],
           \A w \in Callers : start[w] = "idle" => start'[w] = "idle" /\ th # <<w, "start">>
    PROVE  LowPowerShape' /\ \A w \in Callers : Untouched(w) => Untouched(w)'
<1>1. LowPowerShape'
  BY DispatchKeeps DEF LowPowerShape
<1>2. ASSUME NEW w \in Callers, Untouched(w) PROVE Untouched(w)'
  <2>1. start'[w] = "idle" /\ <<w, "start">> \in Threads \ {th}
    BY <1>2 DEF Untouched
  <2>2. fan'[<<w, "start">>] = fan[<<w, "start">>]
    BY <2>1, DispatchKeeps
  <2>3. ASSUME NEW x \in Threads PROVE w \notin fan'[x].todo
    <3>1. CASE x = th
      BY <1>2, <3>1, DispatchKeeps DEF Untouched, Registered, LowPowerShape
    <3>2. CASE x # th
      BY <1>2, <3>2, DispatchKeeps DEF Untouched
    <3> QED
      BY <3>1, <3>2
  <2> QED
    BY <1>2, <2>1, <2>2, <2>3 DEF Untouched
<1> QED
  BY <1>1, <1>2

\* No step of the manager that is not the command's own awake() touches a command it has
\* not heard of.
LEMMA LowPowerStep ==
    ASSUME LowPowerShape,
           \/ \E c \in Callers : Waking(c)
           \/ \E th \in Threads : Fanning(th)
           \/ Release \/ Destroy
    PROVE  LowPowerShape' /\ \A w \in Callers : Untouched(w) => Untouched(w)'
<1> USE LowPowerAssumption
<1>1. ASSUME NEW c \in Callers, Waking(c)
      PROVE  LowPowerShape' /\ \A w \in Callers : Untouched(w) => Untouched(w)'
  <2> <<c, "start">> \in Threads /\ <<c, "timer">> \in Threads
    OBVIOUS
  <2>1. CASE Look(c) \/ StillAsleep(c) \/ Arm(c) \/ Store(c) \/ Prod(c) \/ ProdRaises(c)
    <3>1. UNCHANGED <<regVars, answers, fan>>
      BY <2>1 DEF Look, StillAsleep, Arm, Store, Prod, ProdRaises
    <3>2. start' = start \/ \E to \in StartPc : start' = [start EXCEPT ![c] = to]
      BY <2>1 DEF Look, StillAsleep, Arm, Store, Prod, ProdRaises
    <3>3. start' = start \/ start[c] # "idle"
      BY <2>1 DEF Look, StillAsleep, Arm, Store, Prod, ProdRaises
    <3>4. LowPowerShape'
      <4>1. start' \in [Callers -> StartPc]
        BY <3>2 DEF LowPowerShape
      <4>2. UNCHANGED <<cbs, lists, held, answers, fan>>
        BY <3>1
      <4> QED
        BY <4>1, <4>2 DEF LowPowerShape
    <3>5. ASSUME NEW w \in Callers, Untouched(w) PROVE Untouched(w)'
      <4>1. start'[w] = start[w]
        BY <3>2, <3>3, <3>5 DEF LowPowerShape, Untouched
      <4> QED
        BY <3>1, <3>5, <4>1 DEF Untouched
    <3> QED
      BY <3>4, <3>5
  <2>2. CASE CheckDispatches(c)
    <3>1. Dispatch(<<c, "start">>, {}) /\ UNCHANGED <<regVars, answers>>
      BY <2>2 DEF CheckDispatches
    <3>2. start[c] = "check" /\ start' = [start EXCEPT ![c] = "arm"]
      BY <2>2 DEF CheckDispatches
    <3>3. start' \in [Callers -> StartPc]
      BY <3>2 DEF LowPowerShape
    <3>4. ASSUME NEW w \in Callers, start[w] = "idle"
          PROVE  start'[w] = "idle" /\ <<c, "start">> # <<w, "start">>
      BY <3>2, <3>4 DEF LowPowerShape
    <3> QED
      BY <3>1, <3>3, <3>4, DispatchQuiet
  <2>3. CASE CheckRaises(c) \/ RunRaises(c)
    <3>1. Dispatch(<<c, "start">>, {}) /\ UNCHANGED <<regVars, answers>>
      BY <2>3 DEF CheckRaises, RunRaises
    <3>2. start[c] \in {"check", "run"} /\ start' = [start EXCEPT ![c] = "done"]
      BY <2>3 DEF CheckRaises, RunRaises
    <3>3. start' \in [Callers -> StartPc]
      BY <3>2 DEF LowPowerShape
    <3>4. ASSUME NEW w \in Callers, start[w] = "idle"
          PROVE  start'[w] = "idle" /\ <<c, "start">> # <<w, "start">>
      BY <3>2, <3>4 DEF LowPowerShape
    <3> QED
      BY <3>1, <3>3, <3>4, DispatchQuiet
  <2>4. CASE RunInline(c) /\ deadline
    <3>1. start[c] = "run" /\ start' = [start EXCEPT ![c] = "store"]
      BY <2>4 DEF RunInline
    <3>2. UNCHANGED <<regVars, answers, fan>>
      BY <2>4 DEF RunInline
    <3> QED
      BY <3>1, <3>2 DEF LowPowerShape, Untouched
  <2>5. CASE RunInline(c) /\ ~deadline
    <3>1. Dispatch(<<c, "start">>, {}) /\ UNCHANGED <<regVars, answers>>
      BY <2>5 DEF RunInline
    <3>2. start[c] = "run" /\ start' = [start EXCEPT ![c] = "store"]
      BY <2>5 DEF RunInline
    <3>3. start' \in [Callers -> StartPc]
      BY <3>2 DEF LowPowerShape
    <3>4. ASSUME NEW w \in Callers, start[w] = "idle"
          PROVE  start'[w] = "idle" /\ <<c, "start">> # <<w, "start">>
      BY <3>2, <3>4 DEF LowPowerShape
    <3> QED
      BY <3>1, <3>3, <3>4, DispatchQuiet
  <2>6. CASE Expire(c)
    <3>1. Dispatch(<<c, "timer">>, {c}) /\ UNCHANGED <<regVars, answers, start>>
      BY <2>6 DEF Expire
    <3>2. start' \in [Callers -> StartPc]
      BY <3>1 DEF LowPowerShape
    <3>3. ASSUME NEW w \in Callers PROVE <<c, "timer">> # <<w, "start">>
      OBVIOUS
    <3> QED
      BY <3>1, <3>2, <3>3, DispatchQuiet
  <2>7. CASE Join(c)
    <3>1. /\ start[c] = "join" /\ start' = [start EXCEPT ![c] = "look"]
          /\ UNCHANGED <<answers, fan, held>>
      BY <2>7 DEF Join
    <3>2. /\ cbs' \in Callers \cup {None} /\ lists' \in [Callers -> SUBSET Callers]
          /\ \A l \in Callers : lists'[l] \subseteq lists[l] \cup {c}
      <4>1. CASE held[c] = None
        <5>1. cbs' = c /\ lists' = [lists EXCEPT ![c] = {c}]
          BY <2>7, <4>1 DEF Join
        <5> QED
          BY <5>1 DEF LowPowerShape
      <4>2. CASE held[c] # None
        <5>1. held[c] \in Callers
          BY <4>2 DEF LowPowerShape
        <5>2. cbs' = cbs /\ lists' = [lists EXCEPT ![held[c]] = lists[held[c]] \cup {c}]
          BY <2>7, <4>2 DEF Join
        <5> QED
          BY <5>1, <5>2 DEF LowPowerShape
      <4> QED
        BY <4>1, <4>2
    <3>3. LowPowerShape'
      BY <3>1, <3>2 DEF LowPowerShape
    <3>4. ASSUME NEW w \in Callers, Untouched(w) PROVE Untouched(w)'
      <4>1. w # c /\ start'[w] = start[w]
        BY <3>1, <3>4 DEF LowPowerShape, Untouched
      <4>2. \A l \in Callers : w \notin lists'[l]
        BY <3>2, <3>4, <4>1 DEF Untouched
      <4> QED
        BY <3>1, <3>4, <4>1, <4>2 DEF Untouched
    <3> QED
      BY <3>3, <3>4
  <2> QED
    BY <1>1, <2>1, <2>2, <2>3, <2>4, <2>5, <2>6, <2>7 DEF Waking
<1>2. ASSUME NEW th \in Threads, Fanning(th)
      PROVE  LowPowerShape' /\ \A w \in Callers : Untouched(w) => Untouched(w)'
  <2> th = <<th[1], th[2]>>
    OBVIOUS
  <2> th[1] \in Callers /\ fan[th].todo \subseteq Callers /\ fan[th].cur \in Callers \cup {None}
    BY DEF LowPowerShape
  <2>1. CASE FanCall(th)
    <3>1. PICK c \in fan[th].todo : Answer(c) /\ fan' = [fan EXCEPT ![th].cur = c]
      BY <2>1 DEF FanCall
    <3>2. c \in Callers /\ UNCHANGED <<cbs, lists, held, start>>
      BY <2>1 DEF FanCall
    <3>3. fan' \in [Threads -> FanState]
      BY <3>1, <3>2 DEF LowPowerShape
    <3>4. answers' \in [Callers -> 0..MaxAnswers]
      BY <3>1, <3>2 DEF LowPowerShape, Answer
    <3>5. ASSUME NEW w \in Callers, Untouched(w) PROVE Untouched(w)'
      <4>1. w # c /\ th # <<w, "start">>
        BY <3>1, <3>5 DEF Untouched
      <4>2. answers'[w] = answers[w]
        BY <3>1, <3>2, <4>1 DEF LowPowerShape, Answer
      <4>3. /\ \A x \in Threads : fan'[x].todo = fan[x].todo
            /\ fan'[<<w, "start">>] = fan[<<w, "start">>]
        BY <3>1, <4>1 DEF LowPowerShape
      <4> QED
        BY <3>2, <3>5, <4>2, <4>3 DEF Untouched
    <3> QED
      BY <3>2, <3>3, <3>4, <3>5 DEF LowPowerShape
  <2>2. CASE FanRemove(th)
    BY <2>2 DEF FanRemove, LowPowerShape, Untouched
  <2>3. CASE FanAborts(th) /\ th[2] = "start" /\ start[th[1]] \in {"arm", "store"}
    <3>1. Dispatch(th, {}) /\ start' = [start EXCEPT ![th[1]] = "done"]
      BY <2>3 DEF FanAborts
    <3>2. UNCHANGED <<regVars, answers>>
      BY <2>3 DEF FanAborts
    <3>3. LowPowerShape'
      BY <3>1, <3>2, DispatchKeeps DEF LowPowerShape
    <3>4. ASSUME NEW w \in Callers, Untouched(w) PROVE Untouched(w)'
      <4>1. w # th[1]
        BY <2>3, <3>4 DEF Untouched
      <4>2. <<w, "start">> \in Threads /\ th # <<w, "start">>
        BY <4>1
      <4>3. start'[w] = start[w]
        BY <3>1, <4>1 DEF LowPowerShape
      <4>4. fan'[<<w, "start">>] = fan[<<w, "start">>] /\ fan'[th].todo = Registered
        BY <3>1, <4>2, DispatchKeeps
      <4>5. ASSUME NEW x \in Threads PROVE w \notin fan'[x].todo
        <5>1. CASE x = th
          BY <3>4, <4>4, <5>1 DEF Untouched, Registered, LowPowerShape
        <5>2. CASE x # th
          BY <3>1, <3>4, <5>2, DispatchKeeps DEF Untouched
        <5> QED
          BY <5>1, <5>2
      <4> QED
        BY <3>2, <3>4, <4>3, <4>4, <4>5 DEF Untouched
    <3> QED
      BY <3>3, <3>4
  <2>4. CASE FanAborts(th) /\ ~(th[2] = "start" /\ start[th[1]] \in {"arm", "store"})
    <3>1. /\ fan' = [fan EXCEPT ![th] = NoFan]
          /\ start' = [start EXCEPT ![th[1]] = IF th[2] = "start" THEN "raised" ELSE @]
          /\ fan[th].cur # None
      BY <2>4 DEF FanAborts
    <3>2. UNCHANGED <<regVars, answers>>
      BY <2>4 DEF FanAborts
    <3>3. LowPowerShape'
      BY <3>1, <3>2 DEF LowPowerShape, NoFan
    <3>4. ASSUME NEW w \in Callers, Untouched(w) PROVE Untouched(w)'
      <4>1. <<w, "start">> \in Threads /\ th # <<w, "start">>
        BY <3>1, <3>4 DEF Untouched
      <4>2. th[2] = "start" => th[1] # w
        BY <4>1
      <4>3. start'[w] = start[w]
        BY <3>1, <4>2 DEF LowPowerShape
      <4>4. fan'[<<w, "start">>] = fan[<<w, "start">>] /\ fan'[th].todo = {}
        BY <3>1, <4>1 DEF LowPowerShape, NoFan
      <4>5. ASSUME NEW x \in Threads PROVE w \notin fan'[x].todo
        BY <3>1, <3>4, <4>4 DEF Untouched, LowPowerShape
      <4> QED
        BY <3>2, <3>4, <4>3, <4>4, <4>5 DEF Untouched
    <3> QED
      BY <3>3, <3>4
  <2> QED
    BY <1>2, <2>1, <2>2, <2>3, <2>4 DEF Fanning
<1>3. CASE Release \/ Destroy
  BY <1>3 DEF Release, Destroy, Cleared, LowPowerShape, Untouched
<1> QED
  BY <1>1, <1>2, <1>3

-----------------------------------------------------------------------------
(* The steps of one command. *)

\* A step that leaves the wake-up manager alone keeps what it had not heard of.
LEMMA ManagerAlone ==
    ASSUME LowPowerShape, UNCHANGED lpVars
    PROVE  LowPowerShape' /\ \A v \in Callers : Untouched(v)' <=> Untouched(v)
  BY DEF LowPowerShape, Untouched, lpVars

\* A command other than the one that moves stays as known as it was.
LEMMA ApartKnown ==
    ASSUME NEW w \in Callers, NEW v \in Callers \ {w}, Apart(w), Known(v)
    PROVE  Known(v)'
<1>1. LanOnly(v)'
  BY DEF Apart, Known, LanOnly
<1>2. NoSendYet(v)'
  BY DEF Apart, Known, NoSendYet
<1>3. NotBegun(v)'
  BY DEF Apart, Known, NotBegun
<1>4. Settled(v)'
  BY DEF Apart, Known, Settled
<1>5. OkTaken(v)'
  BY DEF Apart, Known, OkTaken
<1> QED
  BY <1>1, <1>2, <1>3, <1>4, <1>5 DEF Known

\* A send handed to another thread is one of this command's.
LEMMA AddJobStep ==
    ASSUME PipeShape, NEW w \in Callers, NEW s \in Stages, AddJob(w, s)
    PROVE  /\ jobs' \in [Callers -> [Stages -> Nat]]
           /\ \A v \in Callers \ {w} : jobs'[v] = jobs[v]
           /\ \A x \in Stages \ {s} : jobs'[w][x] = jobs[w][x]
<1> DEFINE row == [jobs[w] EXCEPT ![s] = jobs[w][s] + 1]
<1>1. jobs[w] \in [Stages -> Nat]
  BY DEF PipeShape
<1>2. row \in [Stages -> Nat] /\ \A x \in Stages \ {s} : row[x] = jobs[w][x]
  BY <1>1
<1>3. jobs' = [jobs EXCEPT ![w] = row]
  BY DEF AddJob
<1> HIDE DEF row
<1> QED
  BY <1>2, <1>3 DEF PipeShape

\* A thread that goes on from s either is the publishing thread or uses up one of the sends
\* on other threads; a send that is there afterwards was there before or is the new one.
LEMMA GoOnStep ==
    ASSUME PipeShape, NEW w \in Callers, NEW s \in Inline \cup Stages, NEW t, GoOn(w, s, t)
    PROVE  /\ pub' \in [Callers -> PubPc] /\ jobs' \in [Callers -> [Stages -> Nat]]
           /\ \A v \in Callers \ {w} : pub'[v] = pub[v] /\ jobs'[v] = jobs[v]
           /\ \/ pub[w] = s /\ pub'[w] \in Inline \cup {"sent"}
              \/ pub'[w] = pub[w] /\ s \in Stages /\ jobs[w][s] # 0
           /\ \A x \in Stages \ {t} : jobs'[w][x] # 0 => jobs[w][x] # 0
<1>1. CASE /\ pub[w] = s
           /\ pub' = [pub EXCEPT ![w] = IF t \in Inline THEN t ELSE "sent"]
           /\ IF t \in {"ack", "ackonly"} THEN AddJob(w, t) ELSE UNCHANGED jobs
  <2>1. pub' \in [Callers -> PubPc] /\ pub'[w] \in Inline \cup {"sent"}
        /\ \A v \in Callers \ {w} : pub'[v] = pub[v]
    BY <1>1 DEF PipeShape
  <2>2. CASE t \in {"ack", "ackonly"}
    BY <1>1, <2>1, <2>2, AddJobStep
  <2>3. CASE t \notin {"ack", "ackonly"}
    BY <1>1, <2>1, <2>3 DEF PipeShape
  <2> QED
    BY <2>2, <2>3
<1>2. CASE /\ s \in Stages /\ jobs[w][s] > 0
           /\ jobs' = [jobs EXCEPT ![w] = [x \in Stages |->
                 jobs[w][x] + (IF x = t THEN 1 ELSE 0) - (IF x = s THEN 1 ELSE 0)]]
           /\ UNCHANGED pub
  <2> DEFINE row == [x \in Stages |->
                 jobs[w][x] + (IF x = t THEN 1 ELSE 0) - (IF x = s THEN 1 ELSE 0)]
  <2>1. jobs[w] \in [Stages -> Nat]
    BY DEF PipeShape
  <2>2. ASSUME NEW x \in Stages
        PROVE  /\ row[x] \in Nat
               /\ x # t => (row[x] # 0 => jobs[w][x] # 0)
    BY <1>2, <2>1
  <2>3. row \in [Stages -> Nat]
    BY <2>2
  <2>4. jobs' = [jobs EXCEPT ![w] = row] /\ pub' = pub
    BY <1>2
  <2> HIDE DEF row
  <2>5. jobs'[w] = row /\ jobs' \in [Callers -> [Stages -> Nat]]
    BY <2>3, <2>4 DEF PipeShape
  <2>6. \A v \in Callers \ {w} : jobs'[v] = jobs[v]
    BY <2>4 DEF PipeShape
  <2> QED
    BY <1>2, <2>2, <2>4, <2>5, <2>6 DEF PipeShape
<1> QED
  BY <1>1, <1>2 DEF GoOn

\* A result given to the callback (pipeline.py, write_dps) is this command's.
LEMMA ReplyStep ==
    ASSUME PipeShape, NEW w \in Callers, NEW r \in {"ok", "err"}, Reply(w, r)
    PROVE  /\ got' \in [Callers -> SUBSET {"ok", "err"}]
           /\ \A v \in Callers \ {w} : got'[v] = got[v]
           /\ got'[w] \subseteq got[w] \cup {r}
  BY DEF PipeShape, Reply

\* A channel that takes the command takes this one.
LEMMA CarryStep ==
    ASSUME PipeShape, NEW w \in Callers, NEW ch \in Channels, Carry(w, ch)
    PROVE  /\ carried' \in [Callers -> SUBSET Channels]
           /\ \A v \in Callers \ {w} : carried'[v] = carried[v]
           /\ carried'[w] = carried[w] \cup {ch}
  BY DEF PipeShape, Carry

\* The steps of the internet half (lan_control.py, control_by_server and the sends behind
\* it) keep what is known of the command, provided that a success and an acknowledgement
\* to come have a channel behind them.
LEMMA ServerStep ==
    ASSUME IInv, NEW w \in Callers, NEW s \in Inline \cup Stages, NEW t, GoOn(w, s, t),
           UNCHANGED <<lpVars, watchdog, lanDone, woken, ret, lanFirst>>,
           got' \in [Callers -> SUBSET {"ok", "err"}],
           \A v \in Callers \ {w} : got'[v] = got[v],
           carried' \in [Callers -> SUBSET Channels],
           \A v \in Callers \ {w} : carried'[v] = carried[v],
           carried[w] \subseteq carried'[w],
           "ok" \in got'[w] => "ok" \in got[w] \/ carried'[w] # {},
           t \in {"ack", "ackonly"} => carried'[w] # {}
    PROVE  Moves(w)
<1> USE DEF IInv
<1>0. Known(w)
  OBVIOUS
<1>1. LowPowerShape' /\ \A v \in Callers : Untouched(v)' <=> Untouched(v)
  BY ManagerAlone
<1>2. PipeShape'
  BY GoOnStep DEF PipeShape
<1>3. Apart(w)
  BY <1>1, GoOnStep DEF Apart
<1>4. ~lanFirst[w]
  BY <1>0, GoOnStep DEF Known, Settled
<1>5. pub'[w] \in Early => /\ pub'[w] = pub[w] /\ s \in Stages /\ jobs[w][s] # 0
  BY GoOnStep DEF Early
<1>6. pub'[w] \in Early => watchdog[w] = "fired"
  BY <1>0, <1>5 DEF Known, NoSendYet
<1>7. pub[w] # "idle" /\ pub'[w] \notin {"idle", "LAN"}
  BY <1>0, <1>5, <1>6, GoOnStep DEF Known, NotBegun, Early
<1>8. LanOnly(w)'
  BY <1>0, <1>1, <1>4, <1>5 DEF Known, LanOnly
<1>9. NoSendYet(w)' /\ NotBegun(w)' /\ Settled(w)'
  BY <1>4, <1>6, <1>7 DEF NoSendYet, NotBegun, Settled
<1>10. OkTaken(w)'
  BY <1>0, <1>5, GoOnStep DEF Known, OkTaken, Early
<1>11. Goes(w)
  BY <1>7 DEF Goes
<1> QED
  BY <1>1, <1>2, <1>3, <1>8, <1>9, <1>10, <1>11 DEF Moves, Known

\* The internet half of lan_control.py, action by action.
LEMMA InternetMoves ==
    ASSUME IInv, NEW w \in Callers,
           \/ ControlByServer(w) \/ Nowhere(w) \/ MqttRefused(w) \/ MqttSent(w)
           \/ MqttAcked(w) \/ MqttLost(w) \/ HttpTakes(w) \/ HttpFails(w)
    PROVE  Moves(w)
<1> PipeShape /\ Known(w)
  BY DEF IInv
<1>1. CASE ControlByServer(w)
  <2>1. PICK t \in {"end", "http", "mqtt"} :
          /\ GoOn(w, "internet", t)
          /\ Reply(w, "err") \/ UNCHANGED got
    BY <1>1 DEF ControlByServer
  <2>2. UNCHANGED <<lpVars, watchdog, lanDone, woken, ret, carried, lanFirst>>
    BY <1>1 DEF ControlByServer
  <2>3. /\ got' \in [Callers -> SUBSET {"ok", "err"}]
        /\ \A v \in Callers \ {w} : got'[v] = got[v]
        /\ got'[w] \subseteq got[w] \cup {"err"}
    BY <2>1, ReplyStep DEF PipeShape
  <2>4. carried' \in [Callers -> SUBSET Channels]
    BY <2>2 DEF PipeShape
  <2> QED
    BY <2>1, <2>2, <2>3, <2>4, ServerStep
<1>2. CASE MqttRefused(w)
  <2>1. PICK s \in {"mqtt", "mqttonly"}, t \in {"http", "end"} :
          GoOn(w, s, t) /\ (Reply(w, "err") \/ UNCHANGED got)
    BY <1>2 DEF MqttRefused
  <2>2. UNCHANGED <<lpVars, watchdog, lanDone, woken, ret, carried, lanFirst>>
    BY <1>2 DEF MqttRefused
  <2>3. /\ got' \in [Callers -> SUBSET {"ok", "err"}]
        /\ \A v \in Callers \ {w} : got'[v] = got[v]
        /\ got'[w] \subseteq got[w] \cup {"err"}
    BY <2>1, ReplyStep DEF PipeShape
  <2>4. carried' \in [Callers -> SUBSET Channels]
    BY <2>2 DEF PipeShape
  <2> QED
    BY <2>1, <2>2, <2>3, <2>4, ServerStep
<1>3. CASE MqttSent(w)
  <2>1. PICK s \in {"mqtt", "mqttonly"}, t \in {"ack", "ackonly"} : GoOn(w, s, t)
    BY <1>3 DEF MqttSent
  <2>2. UNCHANGED <<lpVars, watchdog, lanDone, woken, got, ret, lanFirst>>
    BY <1>3 DEF MqttSent
  <2>3. /\ carried' \in [Callers -> SUBSET Channels]
        /\ \A v \in Callers \ {w} : carried'[v] = carried[v]
        /\ carried'[w] = carried[w] \cup {"mqtt"}
    BY <1>3, CarryStep DEF MqttSent
  <2> QED
    BY <2>1, <2>2, <2>3, ServerStep DEF PipeShape
<1>4. CASE MqttAcked(w)
  <2>1. PICK s \in {"ack", "ackonly"} : GoOn(w, s, "end")
    BY <1>4 DEF MqttAcked
  <2>2. UNCHANGED <<lpVars, watchdog, lanDone, woken, ret, carried, lanFirst>>
    BY <1>4 DEF MqttAcked
  <2>3. /\ got' \in [Callers -> SUBSET {"ok", "err"}]
        /\ \A v \in Callers \ {w} : got'[v] = got[v]
    BY <1>4, ReplyStep DEF MqttAcked
  <2>4. carried[w] # {}
    <3>1. pub[w] = s \/ jobs[w][s] # 0
      BY <2>1, GoOnStep
    <3>2. pub[w] # s
      BY DEF PipeShape
    <3> QED
      BY <3>1, <3>2 DEF Known, OkTaken
  <2> QED
    BY <2>1, <2>2, <2>3, <2>4, ServerStep DEF PipeShape
<1>5. CASE MqttLost(w)
  <2>1. PICK s \in {"ack", "ackonly"}, t \in {"http", "end"} :
          GoOn(w, s, t) /\ (Reply(w, "err") \/ UNCHANGED got)
    BY <1>5 DEF MqttLost
  <2>2. UNCHANGED <<lpVars, watchdog, lanDone, woken, ret, carried, lanFirst>>
    BY <1>5 DEF MqttLost
  <2>3. /\ got' \in [Callers -> SUBSET {"ok", "err"}]
        /\ \A v \in Callers \ {w} : got'[v] = got[v]
        /\ got'[w] \subseteq got[w] \cup {"err"}
    BY <2>1, ReplyStep DEF PipeShape
  <2>4. carried' \in [Callers -> SUBSET Channels]
    BY <2>2 DEF PipeShape
  <2> QED
    BY <2>1, <2>2, <2>3, <2>4, ServerStep
<1>6. CASE HttpTakes(w) \/ HttpFails(w)
  <2>1. PICK s \in {"http", "api"}, r \in {"ok", "err"} :
          /\ GoOn(w, s, "end") /\ Reply(w, r)
          /\ Carry(w, "http") \/ (UNCHANGED carried /\ r = "err")
    BY <1>6 DEF HttpTakes, HttpFails
  <2>2. UNCHANGED <<lpVars, watchdog, lanDone, woken, ret, lanFirst>>
    BY <1>6 DEF HttpTakes, HttpFails
  <2>3. /\ got' \in [Callers -> SUBSET {"ok", "err"}]
        /\ \A v \in Callers \ {w} : got'[v] = got[v]
        /\ got'[w] \subseteq got[w] \cup {r}
    BY <2>1, ReplyStep
  <2>4. /\ carried' \in [Callers -> SUBSET Channels]
        /\ \A v \in Callers \ {w} : carried'[v] = carried[v]
        /\ carried[w] \subseteq carried'[w]
        /\ r = "ok" => carried'[w] # {}
    <3>1. CASE Carry(w, "http")
      BY <3>1, CarryStep
    <3>2. CASE UNCHANGED carried /\ r = "err"
      BY <3>2 DEF PipeShape
    <3> QED
      BY <2>1, <3>1, <3>2
  <2> QED
    BY <2>1, <2>2, <2>3, <2>4, ServerStep
<1>7. CASE Nowhere(w)
  <2>1. PICK s \in {"mqtt", "http"} : GoOn(w, s, "end")
    BY <1>7 DEF Nowhere
  <2>2. UNCHANGED <<lpVars, watchdog, lanDone, woken, got, ret, carried, lanFirst>>
    BY <1>7 DEF Nowhere
  <2> QED
    BY <2>1, <2>2, ServerStep DEF PipeShape
<1> QED
  BY <1>1, <1>2, <1>3, <1>4, <1>5, <1>6, <1>7

\* publish_dps, publish_dps_mode and DeviceCommController.send: the publishing thread has
\* chosen where to go, or reports an error.
LEMMA EntryMoves ==
    ASSUME IInv, NEW w \in Callers, Entry(w)
    PROVE  Moves(w)
<1> DEFINE First == CommunicationEnum \cup {"internet", "lanonly", "mqttonly", "api",
                                            "lanfirst", "sent"}
<1> LowPowerShape /\ PipeShape /\ Known(w)
  BY DEF IInv
<1>1. /\ pub[w] = "idle"
      /\ UNCHANGED <<lpVars, watchdog, lanDone, woken, jobs, ret, carried, lanFirst>>
  BY DEF Entry, Publish, PublishMode, CloudSend
<1>2. \E next \in First : pub' = [pub EXCEPT ![w] = next]
  <2>1. ASSUME NEW modes \in ModeLists, NEW parent \in Parents, NEW valid \in BOOLEAN,
               Publish(w, modes, parent, valid)
        PROVE  \E next \in First : pub' = [pub EXCEPT ![w] = next]
    <3> DEFINE chain == IF ~valid \/ modes = <<>> THEN <<>> ELSE Chain(modes, parent)
    <3>1. \A i \in DOMAIN chain : chain[i] \in CommunicationEnum
      BY ChainAssumption
    <3> QED
      BY <2>1, <3>1 DEF Publish
  <2>2. ASSUME NEW mode \in {"Internet", "Local", "Mqtt", "Http"}, PublishMode(w, mode)
        PROVE  \E next \in First : pub' = [pub EXCEPT ![w] = next]
    BY <2>2 DEF PublishMode
  <2>3. ASSUME CloudSend(w)
        PROVE  \E next \in First : pub' = [pub EXCEPT ![w] = next]
    BY <2>3 DEF CloudSend
  <2> QED
    BY <2>1, <2>2, <2>3 DEF Entry
<1>3. Reply(w, "err") \/ UNCHANGED got
  BY DEF Entry, Publish, PublishMode, CloudSend
<1>4. /\ got' \in [Callers -> SUBSET {"ok", "err"}]
      /\ \A v \in Callers \ {w} : got'[v] = got[v]
      /\ got'[w] \subseteq got[w] \cup {"err"}
  BY <1>3, ReplyStep DEF PipeShape
<1>5. /\ pub' \in [Callers -> PubPc] /\ pub'[w] \in First
      /\ \A v \in Callers \ {w} : pub'[v] = pub[v]
  BY <1>2 DEF PipeShape
<1>6. LowPowerShape' /\ \A v \in Callers : Untouched(v)' <=> Untouched(v)
  BY <1>1, ManagerAlone
<1>7. PipeShape' /\ Apart(w)
  BY <1>1, <1>4, <1>5, <1>6 DEF PipeShape, Apart
<1>8. Begins(w)
  BY <1>1, <1>5 DEF Begins
<1>9. LanOnly(w)' /\ NoSendYet(w)' /\ NotBegun(w)'
  BY <1>1, <1>5, <1>6 DEF Known, LanOnly, NoSendYet, NotBegun, Early
<1>10. Settled(w)' /\ OkTaken(w)'
  BY <1>1, <1>4, <1>5 DEF Known, Settled, OkTaken
<1> QED
  BY <1>6, <1>7, <1>8, <1>9, <1>10 DEF Moves, Known

\* The LAN steps (comm_pipeline.py, LanCommHandler; lan_control.py, publish_dps_lan), the
\* watchdog's included.
LEMMA LanMoves ==
    ASSUME IInv, NEW w \in Callers,
           \/ SendLan(w) \/ LanRaises(w) \/ LanFails(w) \/ LanSilent(w) \/ LanSent(w)
           \/ LanAnswer(w) \/ Watchdog(w)
    PROVE  Moves(w)
<1> USE DEF LanCalls
<1> LowPowerShape /\ PipeShape /\ Known(w)
  BY DEF IInv
<1>0. LowPowerShape' /\ \A v \in Callers : Untouched(v)' <=> Untouched(v)
  BY ManagerAlone DEF SendLan, LanRaises, LanFails, LanSilent, LanSent, LanAnswer, Watchdog
<1>1. CASE SendLan(w)
  <2>1. PipeShape' /\ Apart(w)
    BY <1>0, <1>1 DEF SendLan, PipeShape, Apart
  <2>2. Goes(w)
    BY <1>1 DEF SendLan, PipeShape, Goes
  <2>3. Known(w)'
    BY <1>0, <1>1 DEF SendLan, PipeShape, Known, LanOnly, NoSendYet, NotBegun, Settled,
                      OkTaken, Early
  <2> QED
    BY <1>0, <2>1, <2>2, <2>3 DEF Moves
<1>2. CASE LanRaises(w) \/ LanSilent(w)
  <2>1. PipeShape' /\ Apart(w)
    BY <1>0, <1>2 DEF LanRaises, LanSilent, PipeShape, Apart
  <2>2. Goes(w)
    BY <1>2 DEF LanRaises, LanSilent, PipeShape, Goes
  <2>3. Known(w)'
    BY <1>0, <1>2 DEF LanRaises, LanSilent, PipeShape, Known, LanOnly, NoSendYet, NotBegun,
                      Settled, OkTaken, Early
  <2> QED
    BY <1>0, <2>1, <2>2, <2>3 DEF Moves
<1>3. CASE LanFails(w)
  <2>1. /\ got' \in [Callers -> SUBSET {"ok", "err"}]
        /\ \A v \in Callers \ {w} : got'[v] = got[v]
        /\ got'[w] \subseteq got[w] \cup {"err"}
    BY <1>3, ReplyStep DEF LanFails, PipeShape
  <2>2. /\ pub' \in [Callers -> PubPc] /\ pub'[w] \in {"sent", "internet"}
        /\ \A v \in Callers \ {w} : pub'[v] = pub[v]
    BY <1>3 DEF LanFails, PipeShape
  <2>3. PipeShape' /\ Apart(w)
    BY <1>0, <1>3, <2>1, <2>2 DEF LanFails, PipeShape, Apart
  <2>4. Goes(w)
    BY <1>3, <2>2 DEF LanFails, Goes
  <2>5. Known(w)'
    BY <1>0, <1>3, <2>1, <2>2 DEF LanFails, Known, LanOnly, NoSendYet, NotBegun, Settled,
                                  OkTaken, Early
  <2> QED
    BY <1>0, <2>3, <2>4, <2>5 DEF Moves
<1>4. CASE LanSent(w)
  <2>1. /\ carried' \in [Callers -> SUBSET Channels]
        /\ \A v \in Callers \ {w} : carried'[v] = carried[v]
        /\ carried'[w] = carried[w] \cup {"lan"}
    BY <1>4, CarryStep DEF LanSent
  <2>2. PipeShape' /\ Apart(w) /\ pub'[w] = "lanok"
    <3>1. /\ pub' \in [Callers -> PubPc] /\ pub'[w] = "lanok"
          /\ \A v \in Callers \ {w} : pub'[v] = pub[v]
      BY <1>4 DEF LanSent, PipeShape
    <3>2. UNCHANGED <<watchdog, lanDone, woken, jobs, got, ret, lanFirst>>
      BY <1>4 DEF LanSent
    <3> QED
      BY <1>0, <2>1, <3>1, <3>2 DEF PipeShape, Apart
  <2>3. Goes(w)
    BY <1>4, <2>1, <2>2 DEF LanSent, Goes
  <2>4. Known(w)'
    BY <1>0, <1>4, <2>1, <2>2 DEF LanSent, Known, LanOnly, NoSendYet, NotBegun, Settled,
                                  OkTaken, Early
  <2> QED
    BY <1>0, <2>2, <2>3, <2>4 DEF Moves
<1>5. CASE LanAnswer(w)
  <2>1. /\ got' \in [Callers -> SUBSET {"ok", "err"}]
        /\ \A v \in Callers \ {w} : got'[v] = got[v]
    BY <1>5, ReplyStep DEF LanAnswer
  <2>2. PipeShape' /\ Apart(w) /\ pub'[w] = "sent" /\ lanDone'[w]
    BY <1>0, <1>5, <2>1 DEF LanAnswer, PipeShape, Apart
  <2>3. Goes(w)
    BY <1>5, <2>2 DEF LanAnswer, Goes
  <2>4. lanFirst'[w] => watchdog[w] = "armed"
    BY <1>5 DEF LanAnswer, PipeShape
  <2>5. pub[w] = "lanok" /\ UNCHANGED <<watchdog, woken, jobs, carried>>
    BY <1>5 DEF LanAnswer
  <2>6. Untouched(w)' /\ woken'[w] = 0 /\ carried[w] # {}
    BY <1>0, <2>5 DEF Known, LanOnly, OkTaken, Early
  <2>7. LanOnly(w)' /\ NoSendYet(w)' /\ NotBegun(w)' /\ OkTaken(w)'
    BY <2>2, <2>5, <2>6 DEF LanOnly, NoSendYet, NotBegun, OkTaken, Early
  <2>8. Settled(w)'
    BY <2>2, <2>4, <2>5 DEF Known, NoSendYet, Settled, Early
  <2> QED
    BY <1>0, <2>2, <2>3, <2>7, <2>8 DEF Moves, Known
<1>6. CASE Watchdog(w)
  <2>1. /\ watchdog[w] = "armed" /\ watchdog'[w] = "fired"
        /\ UNCHANGED <<pub, lanDone, woken, got, ret, carried, lanFirst>>
    BY <1>6 DEF Watchdog, PipeShape
  <2>2. pub[w] # "idle"
    BY <2>1 DEF Known, NotBegun
  <2>3. /\ jobs' \in [Callers -> [Stages -> Nat]]
        /\ \A v \in Callers \ {w} : jobs'[v] = jobs[v]
        /\ \A x \in Stages \ {"internet"} : jobs'[w][x] = jobs[w][x]
        /\ lanDone[w] => jobs'[w] = jobs[w]
    BY <1>6, AddJobStep DEF Watchdog, PipeShape
  <2>4. PipeShape' /\ Apart(w)
    BY <1>0, <1>6, <2>1, <2>3 DEF Watchdog, PipeShape, Apart
  <2>5. Goes(w)
    BY <2>1, <2>2 DEF Goes
  <2>6. LanOnly(w)' /\ NoSendYet(w)' /\ NotBegun(w)'
    BY <1>0, <2>1, <2>2 DEF Known, LanOnly, NoSendYet, NotBegun
  <2>7. Settled(w)'
    BY <2>1, <2>3 DEF Known, Settled
  <2>8. OkTaken(w)'
    BY <2>1, <2>3 DEF Known, OkTaken
  <2> QED
    BY <1>0, <2>4, <2>5, <2>6, <2>7, <2>8 DEF Moves, Known
<1> QED
  BY <1>1, <1>2, <1>3, <1>4, <1>5, <1>6

\* The handlers that leave the publishing thread done or on its way to the API
\* (comm_pipeline.py), and the end of write_dps (pipeline.py).
LEMMA OtherMoves ==
    ASSUME IInv, NEW w \in Callers, SendApi(w) \/ SendPlugin(w) \/ AwakeReturns(w) \/ Return(w)
    PROVE  Moves(w)
<1> LowPowerShape /\ PipeShape /\ Known(w)
  BY DEF IInv
<1>0. LowPowerShape' /\ \A v \in Callers : Untouched(v)' <=> Untouched(v)
  BY ManagerAlone DEF SendApi, SendPlugin, AwakeReturns, Return
<1>1. CASE SendApi(w) \/ AwakeReturns(w)
  <2>1. PipeShape' /\ Apart(w)
    BY <1>0, <1>1 DEF SendApi, AwakeReturns, PipeShape, Apart
  <2>2. Goes(w)
    BY <1>1 DEF SendApi, AwakeReturns, PipeShape, Goes
  <2>3. /\ pub[w] \notin Early \cup {"sent"} /\ pub'[w] \in {"api", "sent", "raised"}
        /\ UNCHANGED <<watchdog, lanDone, woken, jobs, got, ret, carried, lanFirst>>
    BY <1>1 DEF SendApi, AwakeReturns, PipeShape, Early
  <2>4. ~lanFirst[w]
    BY <2>3 DEF Known, Settled
  <2>5. Known(w)'
    BY <2>3, <2>4 DEF Known, LanOnly, NoSendYet, NotBegun, Settled, OkTaken, Early
  <2> QED
    BY <1>0, <2>1, <2>2, <2>5 DEF Moves
<1>2. CASE SendPlugin(w)
  <2>1. PICK r \in {"ok", "err"} :
          /\ Reply(w, r) \/ UNCHANGED got
          /\ Carry(w, "plugin") \/ (UNCHANGED carried /\ (r = "err" \/ UNCHANGED got))
    BY <1>2 DEF SendPlugin
  <2>2. /\ got' \in [Callers -> SUBSET {"ok", "err"}]
        /\ \A v \in Callers \ {w} : got'[v] = got[v]
        /\ got'[w] \subseteq got[w] \cup {r}
    BY <2>1, ReplyStep DEF PipeShape
  <2>3. /\ carried' \in [Callers -> SUBSET Channels]
        /\ \A v \in Callers \ {w} : carried'[v] = carried[v]
        /\ carried[w] \subseteq carried'[w]
        /\ carried'[w] # {} \/ r = "err" \/ got' = got
    <3>1. CASE Carry(w, "plugin")
      BY <3>1, CarryStep
    <3>2. CASE UNCHANGED carried /\ (r = "err" \/ UNCHANGED got)
      BY <3>2 DEF PipeShape
    <3> QED
      BY <2>1, <3>1, <3>2
  <2>4. /\ pub' \in [Callers -> PubPc] /\ pub'[w] = "sent"
        /\ \A v \in Callers \ {w} : pub'[v] = pub[v]
        /\ pub[w] \notin Early \cup {"sent"}
    BY <1>2 DEF SendPlugin, PipeShape, Early
  <2>5. UNCHANGED <<watchdog, lanDone, woken, jobs, ret, lanFirst>>
    BY <1>2 DEF SendPlugin
  <2>6. PipeShape' /\ Apart(w)
    BY <1>0, <2>2, <2>3, <2>4, <2>5 DEF PipeShape, Apart
  <2>7. Goes(w)
    BY <2>3, <2>4, <2>5 DEF Goes, Early
  <2>8. ~lanFirst[w]
    BY <2>4 DEF Known, Settled
  <2>9. LanOnly(w)' /\ NoSendYet(w)' /\ NotBegun(w)' /\ Settled(w)'
    BY <2>4, <2>5, <2>8 DEF LanOnly, NoSendYet, NotBegun, Settled, Early
  <2>10. OkTaken(w)'
    BY <2>2, <2>3, <2>4, <2>5 DEF Known, OkTaken
  <2> QED
    BY <1>0, <2>6, <2>7, <2>9, <2>10 DEF Moves, Known
<1>3. CASE Return(w)
  <2>1. /\ ret[w] = "none" /\ pub[w] \in {"sent", "raised"}
        /\ UNCHANGED <<pub, watchdog, lanDone, woken, jobs, got, carried, lanFirst>>
    BY <1>3 DEF Return
  <2>2. PipeShape' /\ Apart(w)
    BY <1>0, <1>3 DEF Return, PipeShape, Apart
  <2>3. ret'[w] = "error" \/ (ret'[w] = "ok" /\ "ok" \in got[w])
    BY <1>3 DEF Return, PipeShape
  <2>4. Ends(w)
    BY <2>1, <2>3 DEF Ends, Known, OkTaken
  <2>5. Known(w)'
    BY <1>0, <2>1 DEF Known, LanOnly, NoSendYet, NotBegun, Settled, OkTaken, Early
  <2> QED
    BY <1>0, <2>2, <2>4, <2>5 DEF Moves
<1> QED
  BY <1>1, <1>2, <1>3

\* A call of awake() keeps the shape of the dictionaries.
LEMMA AwakeShape == ASSUME LowPowerShape, NEW c \in Callers, Awake(c) PROVE LowPowerShape'
<1> USE LowPowerAssumption
<1>1. \E to \in {"done", "raised", "join"} : start' = [start EXCEPT ![c] = to]
  BY DEF Awake
<1>2. \/ answers' = answers
      \/ answers[c] < MaxAnswers /\ answers' = [answers EXCEPT ![c] = @ + 1]
  BY DEF Awake, Answer
<1>3. UNCHANGED <<fan, cbs, lists>> /\ held' \in [Callers -> Callers \cup {None}]
  BY DEF Awake, LowPowerShape
<1>4. start' \in [Callers -> StartPc]
  BY <1>1 DEF LowPowerShape, StartPc
<1>5. answers' \in [Callers -> 0..MaxAnswers]
  BY <1>2 DEF LowPowerShape
<1> QED
  BY <1>3, <1>4, <1>5 DEF LowPowerShape

\* MqttCommHandler.send (comm_pipeline.py): awake() is entered for this command, and a
\* result the manager has given it becomes a cloud send.
LEMMA WakeMoves ==
    ASSUME IInv, NEW w \in Callers, SendMqtt(w) \/ Woken(w)
    PROVE  Moves(w)
<1> LowPowerShape /\ PipeShape /\ Known(w)
  BY DEF IInv
<1>1. CASE SendMqtt(w)
  <2>1. /\ pub[w] = "MQTT" /\ (Awake(w) \/ UNCHANGED lpVars)
        /\ UNCHANGED <<watchdog, lanDone, jobs, got, ret, carried, lanFirst>>
    BY <1>1 DEF SendMqtt
  <2>2. LowPowerShape' /\ \A v \in Callers \ {w} : Untouched(v) => Untouched(v)'
    <3>1. CASE Awake(w)
      <4>1. LowPowerShape'
        BY <3>1, AwakeShape
      <4>2. \A v \in Callers \ {w} : start'[v] = start[v] /\ answers'[v] = answers[v]
        BY <3>1 DEF Awake, Answer, LowPowerShape
      <4>3. UNCHANGED <<lists, fan>>
        BY <3>1 DEF Awake
      <4> QED
        BY <4>1, <4>2, <4>3 DEF Untouched
    <3>2. CASE UNCHANGED lpVars
      BY <3>2, ManagerAlone
    <3> QED
      BY <2>1, <3>1, <3>2
  <2>3. /\ pub' \in [Callers -> PubPc] /\ pub'[w] \in {"internet", "waking"}
        /\ \A v \in Callers \ {w} : pub'[v] = pub[v]
        /\ woken' \in [Callers -> Nat] /\ \A v \in Callers \ {w} : woken'[v] = woken[v]
    <3>1. \/ pub' = [pub EXCEPT ![w] = "internet"]
          \/ pub' = [pub EXCEPT ![w] = "waking"]
      BY <1>1 DEF SendMqtt
    <3>2. woken' = [woken EXCEPT ![w] = @ + 1] \/ woken' = woken
      BY <1>1 DEF SendMqtt
    <3>3. woken' \in [Callers -> Nat] /\ \A v \in Callers \ {w} : woken'[v] = woken[v]
      BY <3>2 DEF PipeShape
    <3>4. /\ pub' \in [Callers -> PubPc] /\ pub'[w] \in {"internet", "waking"}
          /\ \A v \in Callers \ {w} : pub'[v] = pub[v]
      BY <3>1 DEF PipeShape
    <3> QED
      BY <3>3, <3>4
  <2>4. PipeShape' /\ Apart(w)
    BY <2>1, <2>2, <2>3 DEF PipeShape, Apart
  <2>5. Goes(w)
    BY <2>1, <2>3 DEF Goes
  <2>6. ~lanFirst[w]
    BY <2>1 DEF Known, Settled
  <2>7. Known(w)'
    BY <2>1, <2>3, <2>6 DEF Known, LanOnly, NoSendYet, NotBegun, Settled, OkTaken, Early
  <2> QED
    BY <2>2, <2>4, <2>5, <2>7 DEF Moves
<1>2. CASE Woken(w)
  <2>0. LowPowerShape' /\ \A v \in Callers : Untouched(v)' <=> Untouched(v)
    BY <1>2, ManagerAlone DEF Woken
  <2>1. /\ woken[w] < answers[w]
        /\ UNCHANGED <<pub, watchdog, lanDone, got, ret, carried, lanFirst>>
    BY <1>2 DEF Woken
  <2>2. pub[w] \notin Early /\ ~lanFirst[w]
    BY <2>1 DEF Known, LanOnly, Untouched
  <2>3. /\ jobs' \in [Callers -> [Stages -> Nat]]
        /\ \A v \in Callers \ {w} : jobs'[v] = jobs[v]
        /\ \A x \in Stages \ {"internet"} : jobs'[w][x] = jobs[w][x]
    BY <1>2, AddJobStep DEF Woken
  <2>4. woken' \in [Callers -> Nat] /\ \A v \in Callers \ {w} : woken'[v] = woken[v]
    BY <1>2 DEF Woken, PipeShape
  <2>5. PipeShape' /\ Apart(w)
    BY <2>0, <2>1, <2>3, <2>4 DEF PipeShape, Apart
  <2>6. Goes(w)
    BY <2>1, <2>2 DEF Goes, Early
  <2>7. LanOnly(w)' /\ NoSendYet(w)' /\ NotBegun(w)' /\ Settled(w)'
    BY <2>1, <2>2 DEF LanOnly, NoSendYet, NotBegun, Settled, Early
  <2>8. OkTaken(w)'
    BY <2>1, <2>3 DEF Known, OkTaken
  <2> QED
    BY <2>0, <2>5, <2>6, <2>7, <2>8 DEF Moves, Known
<1> QED
  BY <1>1, <1>2

-----------------------------------------------------------------------------
(* The invariant and the refinement. *)

\* Every step is a move of one command or leaves the commands alone.
LEMMA StepMoves ==
    ASSUME IInv, [Next]_vars
    PROVE  \/ \E w \in Callers : Moves(w)
           \/ IInv' /\ UNCHANGED <<pub, ret, carried>>
<1> LowPowerShape /\ PipeShape /\ \A w \in Callers : Known(w)
  BY DEF IInv
<1>1. ASSUME LowPowerShape', \A w \in Callers : Untouched(w) => Untouched(w)',
             UNCHANGED <<pub, watchdog, lanDone, woken, jobs, got, ret, carried, lanFirst>>
      PROVE  IInv' /\ UNCHANGED <<pub, ret, carried>>
  <2>1. PipeShape'
    BY <1>1 DEF PipeShape
  <2>2. ASSUME NEW w \in Callers PROVE Known(w)'
    BY <1>1 DEF Known, LanOnly, NoSendYet, NotBegun, Settled, OkTaken
  <2> QED
    BY <1>1, <2>1, <2>2 DEF IInv
<1>2. ASSUME NEW w \in Callers, Entry(w) \/ Progress(w) \/ LanSilent(w) \/ Return(w), ~Manager(w)
      PROVE  Moves(w)
  BY <1>2, EntryMoves, LanMoves, InternetMoves, OtherMoves, WakeMoves DEF Progress
<1>3. CASE \/ \E w \in Callers : Manager(w)
           \/ \E th \in Threads : ManagerFan(th)
           \/ Connects \/ Closes
  <2>1. /\ LowPowerShape' /\ \A w \in Callers : Untouched(w) => Untouched(w)'
    BY <1>3, LowPowerStep DEF Manager, ManagerFan, Connects, Closes
  <2> QED
    BY <1>1, <1>3, <2>1 DEF Manager, ManagerFan, Connects, Closes, pipeVars
<1>4. CASE Change \/ UNCHANGED vars
  <2>1. LowPowerShape' /\ \A w \in Callers : Untouched(w)' <=> Untouched(w)
    BY <1>4, ManagerAlone DEF Change, vars
  <2> QED
    BY <1>1, <1>4, <2>1 DEF Change, vars, pipeVars
<1> QED
  BY <1>2, <1>3, <1>4 DEF Next

\* A move of one command keeps the invariant.
LEMMA MovesKeep ==
    ASSUME IInv, NEW w \in Callers, Moves(w)
    PROVE  IInv'
<1>1. ASSUME NEW v \in Callers PROVE Known(v)'
  BY ApartKnown DEF Moves, IInv
<1> QED
  BY <1>1 DEF Moves, IInv

\* The shapes and what is known of every command hold in every reachable state.
THEOREM Invariance == Spec => []IInv
<1>1. Init => IInv
  <2> SUFFICES ASSUME Init PROVE IInv
    OBVIOUS
  <2>1. LowPowerShape /\ \A w \in Callers : Untouched(w)
    BY LowPowerStarts DEF Init
  <2>2. PipeShape
    BY DEF Init, PipeShape
  <2>3. ASSUME NEW w \in Callers PROVE Known(w)
    BY <2>1 DEF Init, Known, LanOnly, NoSendYet, NotBegun, Settled, OkTaken, Early
  <2> QED
    BY <2>1, <2>2, <2>3 DEF IInv
<1>2. IInv /\ [Next]_vars => IInv'
  BY StepMoves, MovesKeep
<1> QED
  BY <1>1, <1>2, PTL DEF Spec

\* A command the LAN took before the watchdog fired goes nowhere else
\* (comm_pipeline.py:549-562), for any number of commands, wake-ups and results.
THEOREM LanInTime == Spec => []LanInTimeIsAlone
<1>1. IInv => LanInTimeIsAlone
  BY DEF IInv, Known, Settled, LanInTimeIsAlone
<1> QED
  BY <1>1, Invariance, PTL

\* write_dps (pipeline.py:366-389) ends at most once, and well only after some channel has
\* taken the command.
THEOREM Refinement == Spec => ImplementsCommand
<1> DEFINE absState == [w \in Callers |-> IF pub[w] = "idle" THEN "idle"
                                         ELSE IF ret[w] = "none" THEN "pending" ELSE ret[w]]
           absTaken == [w \in Callers |-> carried[w] # {}]
<1>1. Init => Abstract!Init
  BY DEF Init, Abstract!Init
<1>2. IInv /\ [Next]_vars => [Abstract!Next]_(Abstract!vars)
  <2> SUFFICES ASSUME IInv, [Next]_vars PROVE Abstract!Next \/ UNCHANGED Abstract!vars
    OBVIOUS
  <2>1. CASE UNCHANGED <<pub, ret, carried>>
    BY <2>1 DEF Abstract!vars
  <2>2. ASSUME NEW w \in Callers, Moves(w)
        PROVE  Abstract!Next \/ UNCHANGED Abstract!vars
    <3>1. \A v \in Callers \ {w} : absState'[v] = absState[v] /\ absTaken'[v] = absTaken[v]
      BY <2>2 DEF Moves, Apart
    <3>2. CASE Begins(w)
      <4>1. ret[w] = "none" /\ ret'[w] = "none"
        BY <3>2 DEF Begins, IInv, Known, NotBegun
      <4>2. absState[w] = "idle" /\ absState'[w] = "pending"
        BY <3>2, <4>1 DEF Begins
      <4>3. absState' = [absState EXCEPT ![w] = "pending"]
        BY <3>1, <4>2
      <4>4. absTaken' = absTaken
        BY <3>2 DEF Begins
      <4> QED
        BY <4>2, <4>3, <4>4 DEF Abstract!Begin, Abstract!Next
    <3>3. CASE Goes(w)
      <4>1. absState' = absState
        BY <3>1, <3>3 DEF Goes
      <4>2. absTaken' = absTaken \/ absTaken' = [absTaken EXCEPT ![w] = TRUE]
        <5>1. CASE carried'[w] = {}
          <6>1. carried[w] = {}
            BY <3>3, <5>1 DEF Goes
          <6>2. \A v \in Callers : (carried'[v] # {}) = (carried[v] # {})
            BY <2>2, <5>1, <6>1 DEF Moves, Apart
          <6> QED
            BY <6>2
        <5>2. CASE carried'[w] # {}
          <6>1. \A v \in Callers \ {w} : (carried'[v] # {}) = (carried[v] # {})
            BY <2>2 DEF Moves, Apart
          <6> QED
            BY <5>2, <6>1
        <5> QED
          BY <5>1, <5>2
      <4>3. absState[w] # "idle"
        BY <2>2, <3>3 DEF Goes, IInv, PipeShape
      <4> QED
        BY <4>1, <4>2, <4>3 DEF Abstract!Take, Abstract!Next, Abstract!vars
    <3>4. CASE Ends(w)
      <4>1. absState[w] = "pending" /\ absState'[w] = ret'[w]
        BY <3>4 DEF Ends
      <4>2. absState' = [absState EXCEPT ![w] = ret'[w]]
        BY <3>1, <4>1
      <4>3. absTaken' = absTaken
        BY <3>4 DEF Ends
      <4>4. ret'[w] = "error" \/ (ret'[w] = "ok" /\ absTaken[w])
        BY <3>4 DEF Ends
      <4> QED
        BY <4>1, <4>2, <4>3, <4>4 DEF Abstract!End, Abstract!Next
    <3> QED
      BY <2>2, <3>2, <3>3, <3>4 DEF Moves
  <2> QED
    BY <2>1, <2>2, StepMoves
<1> QED
  BY <1>1, <1>2, Invariance, PTL DEF Spec, ImplementsCommand, Abstract!Spec

-----------------------------------------------------------------------------
(* The manager by itself: no wake-up is lost but by the two races. *)

\* What the manager's dictionaries, threads and timers have to do with each other.
WakeShape ==
    /\ LowPowerShape
    /\ task \in Callers \cup {None}
    /\ DOMAIN timer = Callers

\* Without a race a callback that was registered and not called is on the device's list.
Listed(c) ==
    /\ start[c] \notin {"idle", "join", "raised"} /\ answers[c] = 0
    /\ ~destroyed /\ ~raced
    => c \in Registered

\* The callback that a fan-out is about to remove is one it has called.
Called(th) == fan[th].cur # None => fan[th].cur \in fan[th].todo /\ answers[fan[th].cur] # 0

\* A caller fans out only after its check, and before its task or after it.
Free(c) ==
    start[c] \in {"idle", "join", "look", "check", "run"} =>
        fan[<<c, "start">>].todo = {} /\ fan[<<c, "start">>].cur = None

\* The stored task is that of a caller whose awake() is over.
TaskDone == task # None => start[task] \in {"done", "raised"}

\* Without a race a task that is about to run has its deadline, and one that has run, or is
\* stored, its timer.
Timed ==
    /\ \A c \in Callers : /\ start[c] = "run" => deadline
                          /\ start[c] = "store" => timer[c]
    /\ task # None => timer[task]

WakeInv ==
    /\ WakeShape /\ TaskDone
    /\ \A c \in Callers : Listed(c) /\ Free(c)
    /\ \A th \in Threads : Called(th)
    /\ raced \/ (Timed /\ WaiterCovered)

\* Who waits is covered when somebody is going to dispatch.
LEMMA DispatcherCovers ==
    ASSUME NEW c \in Callers, ~raced, Listed(c),
           start'[c] = "done" => start[c] \notin {"idle", "join", "raised"},
           UNCHANGED <<regVars, answers, destroyed>>, Dispatcher', Waits(c)'
    PROVE  destroyed' \/ Reaching(c)' \/ (c \in Registered' /\ Dispatcher')
  BY DEF Listed, Waits, Registered

\* A step of a caller that neither dispatches nor calls: somebody is going to dispatch
\* afterwards, unless one of the races has happened.
LEMMA QuietWake ==
    ASSUME WakeInv, NEW c \in Callers, start[c] \notin {"idle", "join", "raised"},
           NEW to \in StartPc \ {"idle", "join", "raised"},
           start' = [start EXCEPT ![c] = to], UNCHANGED <<regVars, answers, fan, destroyed, raced>>,
           to \in {"look", "check", "run"} => fan[<<c, "start">>].todo = {},
           task' \in Callers \cup {None}, DOMAIN timer' = Callers, TaskDone',
           raced \/ (Timed' /\ Dispatcher')
    PROVE  WakeInv'
<1> USE LowPowerAssumption
<1>1. LowPowerShape' /\ start'[c] = to /\ \A x \in Callers \ {c} : start'[x] = start[x]
  BY DEF WakeInv, WakeShape, LowPowerShape
<1>2. \A th \in Threads : Called(th)'
  BY DEF WakeInv, Called
<1>3. ASSUME NEW x \in Callers PROVE Listed(x)' /\ Free(x)'
  <2>1. Listed(x)'
    BY <1>1 DEF WakeInv, Listed, Registered
  <2>2. CASE x # c
    BY <1>1, <2>1, <2>2 DEF WakeInv, Free
  <2>3. CASE x = c
    <3>1. <<c, "start">> \in Threads /\ Called(<<c, "start">>)
      BY DEF WakeInv
    <3> QED
      BY <1>1, <2>1, <2>3, <3>1 DEF Free, Called
  <2> QED
    BY <2>2, <2>3
<1>4. raced' \/ WaiterCovered'
  <2> SUFFICES ASSUME ~raced, NEW x \in Callers, Waits(x)'
               PROVE  destroyed' \/ Reaching(x)' \/ (x \in Registered' /\ Dispatcher')
    BY DEF WaiterCovered, Dispatcher, Reaching, Waits
  <2> QED
    BY <1>1, DispatcherCovers DEF WakeInv
<1> QED
  BY <1>1, <1>2, <1>3, <1>4 DEF WakeInv, WakeShape

\* A dispatch: whoever waits is going to be called by it.
LEMMA DispatchWake ==
    ASSUME WakeInv, NEW th \in Threads, NEW stopped, Dispatch(th, stopped),
           UNCHANGED <<regVars, answers, destroyed>>, start' \in [Callers -> StartPc],
           start'[th[1]] # "run",
           \A c \in Callers :
              /\ start'[c] \notin {"idle", "join", "raised"} =>
                    start[c] \notin {"idle", "join", "raised"}
              /\ start'[c] \in {"idle", "join", "look", "check", "run"} =>
                    start'[c] = start[c] /\ th # <<c, "start">>
              /\ raced \/ (start'[c] = "store" => start[c] = "store" /\ c \notin stopped)
    PROVE  WakeInv'
<1> USE LowPowerAssumption
<1>1. /\ fan' \in [Threads -> FanState]
      /\ fan'[th].todo = Registered /\ \A x \in Threads \ {th} : fan'[x] = fan[x]
  BY DispatchKeeps DEF WakeInv, WakeShape
<1>2. fan'[th].cur = None
  BY DEF Dispatch, WakeInv, WakeShape, LowPowerShape
<1>3. /\ task' = None /\ deadline' = FALSE
      /\ raced' = (raced \/ LosesDeadline(Callers \ {th[1]}))
      /\ DOMAIN timer' = Callers
      /\ \A c \in Callers : timer[c] /\ c # task /\ c \notin stopped => timer'[c]
  BY DEF Dispatch
<1>4. WakeShape' /\ TaskDone'
  BY <1>1, <1>3 DEF WakeInv, WakeShape, LowPowerShape, TaskDone
<1>5. ASSUME NEW c \in Callers PROVE Listed(c)' /\ Free(c)'
  <2>1. Listed(c)'
    BY <1>3 DEF WakeInv, Listed, Registered
  <2>2. Free(c)'
    <3> SUFFICES ASSUME start'[c] \in {"idle", "join", "look", "check", "run"}
                 PROVE  fan'[<<c, "start">>].todo = {} /\ fan'[<<c, "start">>].cur = None
      BY DEF Free
    <3>1. <<c, "start">> \in Threads \ {th} /\ start[c] \in {"idle", "join", "look", "check", "run"}
      OBVIOUS
    <3>2. fan'[<<c, "start">>] = fan[<<c, "start">>]
      BY <1>1, <3>1
    <3> QED
      BY <3>1, <3>2 DEF WakeInv, Free
  <2> QED
    BY <2>1, <2>2
<1>6. ASSUME NEW x \in Threads PROVE Called(x)'
  <2>1. CASE x = th
    BY <1>2, <2>1 DEF Called
  <2>2. CASE x # th
    <3>1. fan'[x] = fan[x]
      BY <1>1, <2>2
    <3> QED
      BY <3>1 DEF WakeInv, Called
  <2> QED
    BY <2>1, <2>2
<1>7. ASSUME ~raced' PROVE Timed'
  <2>1. ~raced /\ ~LosesDeadline(Callers \ {th[1]}) /\ Timed
    BY <1>3, <1>7 DEF WakeInv
  <2>2. \A c \in Callers : start'[c] # "run"
    BY <2>1 DEF LosesDeadline, Timed
  <2>3. ASSUME NEW c \in Callers, start'[c] = "store" PROVE timer'[c]
    <3>1. start[c] = "store" /\ c \notin stopped /\ timer[c]
      BY <2>1, <2>3 DEF Timed
    <3>2. c # task
      BY <3>1 DEF WakeInv, TaskDone
    <3> QED
      BY <1>3, <3>1, <3>2
  <2> QED
    BY <1>3, <2>2, <2>3 DEF Timed
<1>8. raced' \/ WaiterCovered'
  <2> SUFFICES ASSUME ~raced', NEW c \in Callers, Waits(c)', ~destroyed'
               PROVE  Reaching(c)'
    BY DEF WaiterCovered, Dispatcher, Reaching, Waits
  <2>1. c \in Registered
    BY <1>3 DEF WakeInv, Listed, Waits
  <2> QED
    BY <1>1, <1>2, <2>1 DEF Reaching
<1> QED
  BY <1>4, <1>5, <1>6, <1>7, <1>8 DEF WakeInv

\* The steps of awake() and of the timer that dispatch.
LEMMA DispatchingWake ==
    ASSUME WakeInv, NEW c \in Callers,
           \/ CheckDispatches(c) \/ CheckRaises(c) \/ (RunInline(c) /\ ~deadline)
           \/ RunRaises(c) \/ Expire(c)
    PROVE  WakeInv'
<1>1. <<c, "start">> \in Threads /\ <<c, "timer">> \in Threads /\ start \in [Callers -> StartPc]
  BY DEF WakeInv, WakeShape, LowPowerShape
<1>2. CASE CheckDispatches(c) \/ CheckRaises(c) \/ RunRaises(c)
  <2>1. PICK to \in {"arm", "done"} :
           /\ start[c] \in {"check", "run"} /\ start' = [start EXCEPT ![c] = to]
           /\ Dispatch(<<c, "start">>, {}) /\ UNCHANGED <<regVars, answers, destroyed>>
    BY <1>2 DEF CheckDispatches, CheckRaises, RunRaises
  <2>2. /\ start' \in [Callers -> StartPc] /\ start'[c] = to
        /\ \A x \in Callers \ {c} : start'[x] = start[x]
    BY <1>1, <2>1
  <2>3. ASSUME NEW x \in Callers
        PROVE  /\ start'[x] \notin {"idle", "join", "raised"} =>
                     start[x] \notin {"idle", "join", "raised"}
               /\ start'[x] \in {"idle", "join", "look", "check", "run"} =>
                     start'[x] = start[x] /\ <<c, "start">> # <<x, "start">>
               /\ raced \/ (start'[x] = "store" => start[x] = "store" /\ x \notin {})
    BY <2>1, <2>2
  <2> QED
    BY <1>1, <2>1, <2>2, <2>3, DispatchWake
<1>3. CASE RunInline(c) /\ ~deadline
  <2>1. /\ start[c] = "run" /\ start' = [start EXCEPT ![c] = "store"]
        /\ Dispatch(<<c, "start">>, {}) /\ UNCHANGED <<regVars, answers, destroyed>>
    BY <1>3 DEF RunInline
  <2>2. /\ start' \in [Callers -> StartPc] /\ start'[c] = "store"
        /\ \A x \in Callers \ {c} : start'[x] = start[x]
    BY <1>1, <2>1
  <2>3. raced
    BY <1>3, <2>1 DEF WakeInv, Timed
  <2>4. ASSUME NEW x \in Callers
        PROVE  /\ start'[x] \notin {"idle", "join", "raised"} =>
                     start[x] \notin {"idle", "join", "raised"}
               /\ start'[x] \in {"idle", "join", "look", "check", "run"} =>
                     start'[x] = start[x] /\ <<c, "start">> # <<x, "start">>
    BY <2>1, <2>2
  <2> QED
    BY <1>1, <2>1, <2>2, <2>3, <2>4, DispatchWake
<1>4. CASE Expire(c)
  <2>1. /\ start' = start /\ start[c] \notin {"run", "store"}
        /\ Dispatch(<<c, "timer">>, {c}) /\ UNCHANGED <<regVars, answers, destroyed>>
    BY <1>4 DEF Expire, Fires
  <2>2. ASSUME NEW x \in Callers
        PROVE  /\ start'[x] \notin {"idle", "join", "raised"} =>
                     start[x] \notin {"idle", "join", "raised"}
               /\ start'[x] \in {"idle", "join", "look", "check", "run"} =>
                     start'[x] = start[x] /\ <<c, "timer">> # <<x, "start">>
               /\ raced \/ (start'[x] = "store" => start[x] = "store" /\ x \notin {c})
    BY <2>1
  <2> QED
    BY <1>1, <2>1, <2>2, DispatchWake
<1> QED
  BY <1>2, <1>3, <1>4

\* The steps of awake() that do not dispatch.
LEMMA CallerWake ==
    ASSUME WakeInv, NEW c \in Callers,
           Look(c) \/ StillAsleep(c) \/ Arm(c) \/ (RunInline(c) /\ deadline) \/ Store(c)
    PROVE  WakeInv'
<1> USE LowPowerAssumption
<1>1. /\ start \in [Callers -> StartPc] /\ task \in Callers \cup {None} /\ DOMAIN timer = Callers
      /\ Free(c) /\ TaskDone /\ (raced \/ Timed)
  BY DEF WakeInv, WakeShape, LowPowerShape
<1>2. CASE Look(c)
  <2>1. PICK to \in {"done", "check"} :
           /\ start[c] = "look" /\ start' = [start EXCEPT ![c] = to]
           /\ to = "done" => task # None
           /\ UNCHANGED <<task, deadline, timer, regVars, answers, fan, destroyed, raced>>
    BY <1>2 DEF Look
  <2>2. start'[c] = to /\ \A x \in Callers \ {c} : start'[x] = start[x]
    BY <1>1, <2>1
  <2>3. TaskDone'
    BY <1>1, <2>1, <2>2 DEF TaskDone
  <2>4. ASSUME ~raced PROVE Timed' /\ Dispatcher'
    <3>1. Timed'
      BY <1>1, <2>1, <2>2, <2>4 DEF Timed
    <3>2. Dispatcher'
      BY <1>1, <2>1, <2>2, <2>4 DEF Timed, Dispatcher
    <3> QED
      BY <3>1, <3>2
  <2> QED
    BY <1>1, <2>1, <2>3, <2>4, QuietWake DEF Free
<1>3. CASE StillAsleep(c)
  <2>1. /\ start[c] = "check" /\ start' = [start EXCEPT ![c] = "arm"]
        /\ UNCHANGED <<task, deadline, timer, regVars, answers, fan, destroyed, raced>>
    BY <1>3 DEF StillAsleep
  <2>2. start'[c] = "arm" /\ \A x \in Callers \ {c} : start'[x] = start[x]
    BY <1>1, <2>1
  <2>3. TaskDone' /\ Dispatcher' /\ (raced \/ Timed')
    BY <1>1, <2>1, <2>2 DEF TaskDone, Dispatcher, Timed
  <2> QED
    BY <1>1, <2>1, <2>3, QuietWake
<1>4. CASE Arm(c)
  <2>1. /\ start[c] = "arm" /\ start' = [start EXCEPT ![c] = "run"] /\ deadline'
        /\ fan[<<c, "start">>].todo = {}
        /\ UNCHANGED <<task, timer, regVars, answers, fan, destroyed, raced>>
    BY <1>4 DEF Arm, Idle
  <2>2. start'[c] = "run" /\ \A x \in Callers \ {c} : start'[x] = start[x]
    BY <1>1, <2>1
  <2>3. TaskDone' /\ Dispatcher' /\ (raced \/ Timed')
    BY <1>1, <2>1, <2>2 DEF TaskDone, Dispatcher, Timed
  <2> QED
    BY <1>1, <2>1, <2>3, QuietWake
<1>5. CASE RunInline(c) /\ deadline
  <2>1. /\ start[c] = "run" /\ start' = [start EXCEPT ![c] = "store"]
        /\ timer' = [timer EXCEPT ![c] = TRUE]
        /\ UNCHANGED <<task, deadline, regVars, answers, fan, destroyed, raced>>
    BY <1>5 DEF RunInline
  <2>2. /\ start'[c] = "store" /\ \A x \in Callers \ {c} : start'[x] = start[x]
        /\ DOMAIN timer' = Callers /\ timer'[c] /\ \A x \in Callers : timer[x] => timer'[x]
    BY <1>1, <2>1
  <2>3. TaskDone' /\ Dispatcher' /\ (raced \/ Timed')
    BY <1>1, <2>1, <2>2 DEF TaskDone, Dispatcher, Timed
  <2> QED
    BY <1>1, <2>1, <2>2, <2>3, QuietWake
<1>6. CASE Store(c)
  <2>1. /\ start[c] = "store" /\ start' = [start EXCEPT ![c] = "done"] /\ task' = c
        /\ UNCHANGED <<deadline, timer, regVars, answers, fan, destroyed, raced>>
    BY <1>6 DEF Store
  <2>2. start'[c] = "done" /\ \A x \in Callers \ {c} : start'[x] = start[x]
    BY <1>1, <2>1
  <2>3. TaskDone' /\ (raced \/ (Dispatcher' /\ Timed'))
    BY <1>1, <2>1, <2>2 DEF TaskDone, Dispatcher, Timed
  <2> QED
    BY <1>1, <2>1, <2>3, QuietWake
<1> QED
  BY <1>2, <1>3, <1>4, <1>5, <1>6

\* awake() is entered: the callback is called at once, or the list looked up.
LEMMA AwakeWake == ASSUME WakeInv, NEW c \in Callers, Awake(c) PROVE WakeInv'
<1> USE LowPowerAssumption
<1>1. /\ start[c] = "idle" /\ WakeShape /\ TaskDone
      /\ UNCHANGED <<task, deadline, timer, fan, cbs, lists, destroyed, raced>>
  BY DEF Awake, WakeInv
<1>2. PICK to \in {"done", "raised", "join"} :
         /\ start' = [start EXCEPT ![c] = to]
         /\ to = "done" => /\ answers[c] < MaxAnswers
                           /\ answers' = [answers EXCEPT ![c] = answers[c] + 1]
         /\ to # "done" => answers' = answers
         /\ held' = held \/ held' = [held EXCEPT ![c] = cbs]
  BY DEF Awake, Answer
<1>3. /\ start' \in [Callers -> StartPc] /\ start'[c] = to
      /\ \A x \in Callers \ {c} : start'[x] = start[x] /\ answers'[x] = answers[x]
      /\ answers' \in [Callers -> 0..MaxAnswers]
      /\ \A x \in Callers : answers'[x] = 0 => answers[x] = 0
      /\ to = "done" => answers'[c] # 0
  BY <1>1, <1>2 DEF WakeShape, LowPowerShape
<1>4. Registered' = Registered /\ held' \in [Callers -> Callers \cup {None}]
  BY <1>1, <1>2 DEF Registered, WakeShape, LowPowerShape
<1>5. WakeShape' /\ TaskDone'
  BY <1>1, <1>3, <1>4 DEF WakeShape, LowPowerShape, TaskDone
<1>6. ASSUME NEW x \in Callers PROVE Listed(x)' /\ Free(x)'
  <2>1. Listed(x) /\ Free(x)
    BY DEF WakeInv
  <2>2. Listed(x)'
    BY <1>1, <1>3, <1>4, <2>1 DEF Listed
  <2>3. Free(x)'
    BY <1>1, <1>3, <2>1 DEF Free
  <2> QED
    BY <2>2, <2>3
<1>7. ASSUME NEW th \in Threads PROVE Called(th)'
  <2>1. Called(th) /\ fan[th].cur \in Callers \cup {None}
    BY <1>1 DEF WakeInv, WakeShape, LowPowerShape
  <2> QED
    BY <1>1, <1>3, <2>1 DEF Called
<1>8. raced \/ Timed'
  BY <1>1, <1>3 DEF WakeInv, Timed
<1>9. raced \/ WaiterCovered'
  <2> SUFFICES ASSUME ~raced, NEW x \in Callers, Waits(x)'
               PROVE  destroyed' \/ Reaching(x)' \/ (x \in Registered' /\ Dispatcher')
    BY DEF WaiterCovered, Dispatcher, Reaching, Waits
  <2>1. x # c /\ Waits(x)
    BY <1>3 DEF Waits
  <2>2. destroyed \/ Reaching(x) \/ (x \in Registered /\ Dispatcher)
    BY <2>1 DEF WakeInv, WaiterCovered
  <2>3. Reaching(x) => Reaching(x)'
    BY <1>1 DEF Reaching
  <2>4. Dispatcher => Dispatcher'
    BY <1>1, <1>3 DEF Dispatcher
  <2> QED
    BY <1>1, <1>4, <2>2, <2>3, <2>4
<1> QED
  BY <1>1, <1>5, <1>6, <1>7, <1>8, <1>9 DEF WakeInv

\* The callback joins the list that was found, or becomes a new one: unless another caller
\* changed the dictionary in between, nobody leaves the device's list.
LEMMA JoinWake == ASSUME WakeInv, NEW c \in Callers, Join(c) PROVE WakeInv'
<1> USE LowPowerAssumption
<1>1. /\ start[c] = "join" /\ start' = [start EXCEPT ![c] = "look"]
      /\ raced' = (raced \/ held[c] # cbs)
      /\ UNCHANGED <<task, deadline, held, timer, fan, answers, destroyed>>
  BY DEF Join
<1>2. WakeShape /\ TaskDone /\ cbs \in Callers \cup {None} /\ lists \in [Callers -> SUBSET Callers]
  BY DEF WakeInv, WakeShape, LowPowerShape
<1>3. /\ start' \in [Callers -> StartPc] /\ start'[c] = "look"
      /\ \A x \in Callers \ {c} : start'[x] = start[x]
  BY <1>1, <1>2 DEF WakeShape, LowPowerShape
<1>4. /\ cbs' \in Callers \cup {None} /\ lists' \in [Callers -> SUBSET Callers]
      /\ held[c] = cbs => Registered \subseteq Registered' /\ c \in Registered'
  <2>1. CASE held[c] = None
    <3>1. cbs' = c /\ lists' = [lists EXCEPT ![c] = {c}]
      BY <2>1 DEF Join
    <3> QED
      BY <1>2, <2>1, <3>1 DEF Registered
  <2>2. CASE held[c] # None
    <3>1. held[c] \in Callers
      BY <1>2, <2>2 DEF WakeShape, LowPowerShape
    <3>2. cbs' = cbs /\ lists' = [lists EXCEPT ![held[c]] = lists[held[c]] \cup {c}]
      BY <2>2 DEF Join
    <3> QED
      BY <1>2, <2>2, <3>1, <3>2 DEF Registered
  <2> QED
    BY <2>1, <2>2
<1>5. WakeShape'
  BY <1>1, <1>2, <1>3, <1>4 DEF WakeShape, LowPowerShape
<1>6. TaskDone'
  BY <1>1, <1>2, <1>3 DEF TaskDone
<1>7. ASSUME NEW x \in Callers PROVE Listed(x)' /\ Free(x)'
  <2>1. Listed(x) /\ Free(x)
    BY DEF WakeInv
  <2>2. Listed(x)'
    BY <1>1, <1>3, <1>4, <2>1 DEF Listed
  <2>3. Free(x)'
    BY <1>1, <1>3, <2>1 DEF Free
  <2> QED
    BY <2>2, <2>3
<1>8. ASSUME NEW th \in Threads PROVE Called(th)'
  BY <1>1 DEF WakeInv, Called
<1>9. raced' \/ Timed'
  BY <1>1, <1>3 DEF WakeInv, Timed
<1>10. raced' \/ WaiterCovered'
  <2> SUFFICES ASSUME ~raced', NEW x \in Callers, Waits(x)'
               PROVE  destroyed' \/ Reaching(x)' \/ (x \in Registered' /\ Dispatcher')
    BY DEF WaiterCovered, Dispatcher, Reaching, Waits
  <2>1. ~raced /\ held[c] = cbs /\ x # c /\ Waits(x)
    BY <1>1, <1>3 DEF Waits
  <2>2. destroyed \/ Reaching(x) \/ (x \in Registered /\ Dispatcher)
    BY <2>1 DEF WakeInv, WaiterCovered
  <2>3. Reaching(x) => Reaching(x)'
    BY <1>1 DEF Reaching
  <2>4. Dispatcher'
    BY <1>3 DEF Dispatcher
  <2> QED
    BY <1>1, <1>4, <2>1, <2>2, <2>3, <2>4
<1> QED
  BY <1>5, <1>6, <1>7, <1>8, <1>9, <1>10 DEF WakeInv

\* A prod that raises ends its timer, and that is one of the races.
LEMMA ProdRaisesWake == ASSUME WakeInv, NEW c \in Callers, ProdRaises(c) PROVE WakeInv'
<1>1. /\ timer' = [timer EXCEPT ![c] = FALSE] /\ raced'
      /\ UNCHANGED <<task, regVars, start, fan, answers, destroyed>>
  BY DEF ProdRaises
<1>2. WakeShape' /\ TaskDone'
  BY <1>1 DEF WakeInv, WakeShape, LowPowerShape, TaskDone
<1>3. /\ \A x \in Callers : Listed(x)' /\ Free(x)'
      /\ \A th \in Threads : Called(th)'
  BY <1>1 DEF WakeInv, Listed, Free, Called
<1> QED
  BY <1>1, <1>2, <1>3 DEF WakeInv

\* The maps are cleared: whoever runs goes on running.
LEMMA ClearedWake == ASSUME WakeInv, Release \/ Destroy PROVE WakeInv'
<1>1. /\ task' = None /\ deadline' = FALSE /\ raced' = (raced \/ LosesDeadline(Callers))
      /\ UNCHANGED <<start, timer, fan, answers>>
      /\ destroyed' \/ UNCHANGED <<cbs, destroyed>>
      /\ cbs' \in {cbs, None} /\ UNCHANGED <<lists, held>>
  <2>1. CASE Release
    BY <2>1 DEF Release, Cleared
  <2>2. CASE Destroy
    BY <2>2 DEF Destroy, Cleared
  <2> QED
    BY <2>1, <2>2
<1>2. WakeShape' /\ TaskDone'
  BY <1>1 DEF WakeInv, WakeShape, LowPowerShape, TaskDone
<1>3. /\ \A c \in Callers : Listed(c)' /\ Free(c)'
      /\ \A th \in Threads : Called(th)'
  <2>1. \A c \in Callers : Listed(c)'
    <3>1. CASE UNCHANGED <<cbs, destroyed>>
      BY <1>1, <3>1 DEF WakeInv, Listed, Registered
    <3>2. CASE destroyed'
      BY <3>2 DEF Listed
    <3> QED
      BY <1>1, <3>1, <3>2
  <2>2. /\ \A c \in Callers : Free(c)'
        /\ \A th \in Threads : Called(th)'
    BY <1>1 DEF WakeInv, Free, Called
  <2> QED
    BY <2>1, <2>2
<1>4. raced' \/ Timed'
  BY <1>1 DEF WakeInv, Timed, LosesDeadline
<1>5. raced' \/ WaiterCovered'
  <2> SUFFICES ASSUME ~raced', NEW x \in Callers, Waits(x)', ~destroyed'
               PROVE  Reaching(x)' \/ (x \in Registered' /\ Dispatcher')
    BY DEF WaiterCovered, Dispatcher, Reaching, Waits
  <2>1. ~raced /\ UNCHANGED <<cbs, destroyed>> /\ Waits(x)
    BY <1>1 DEF Waits
  <2>2. Reaching(x) \/ (x \in Registered /\ Dispatcher)
    BY <2>1 DEF WakeInv, WaiterCovered
  <2> QED
    BY <1>1, <2>1, <2>2 DEF Reaching, Dispatcher, Registered
<1> QED
  BY <1>2, <1>3, <1>4, <1>5 DEF WakeInv

\* A callback is called.
LEMMA FanCallWake == ASSUME WakeInv, NEW th \in Threads, FanCall(th) PROVE WakeInv'
<1> USE LowPowerAssumption
<1>1. PICK c \in fan[th].todo :
         /\ answers[c] < MaxAnswers /\ answers' = [answers EXCEPT ![c] = answers[c] + 1]
         /\ fan' = [fan EXCEPT ![th].cur = c]
  BY DEF FanCall, Answer
<1>2. UNCHANGED <<task, deadline, regVars, start, timer, destroyed, raced>>
  BY DEF FanCall
<1>3. WakeShape /\ TaskDone /\ fan[th] \in FanState
  BY DEF WakeInv, WakeShape, LowPowerShape
<1>4. /\ c \in Callers /\ fan'[th].todo = fan[th].todo /\ fan'[th].cur = c
      /\ \A x \in Threads \ {th} : fan'[x] = fan[x]
      /\ fan' \in [Threads -> FanState]
  BY <1>1, <1>3 DEF WakeShape, LowPowerShape
<1>5. /\ answers' \in [Callers -> 0..MaxAnswers] /\ answers'[c] # 0
      /\ \A x \in Callers : answers'[x] = 0 => answers[x] = 0
  BY <1>1, <1>3, <1>4 DEF WakeShape, LowPowerShape
<1>6. WakeShape' /\ TaskDone' /\ (raced \/ Timed')
  BY <1>2, <1>3, <1>4, <1>5 DEF WakeInv, WakeShape, LowPowerShape, TaskDone, Timed
<1>7. ASSUME NEW x \in Callers PROVE Listed(x)' /\ Free(x)'
  <2>1. Listed(x)'
    BY <1>2, <1>5 DEF WakeInv, Listed, Registered
  <2>2. Free(x)'
    <3> SUFFICES ASSUME start[x] \in {"idle", "join", "look", "check", "run"}
                 PROVE  fan'[<<x, "start">>].todo = {} /\ fan'[<<x, "start">>].cur = None
      BY <1>2 DEF Free
    <3>1. fan[<<x, "start">>].todo = {} /\ fan[<<x, "start">>].cur = None
      BY DEF WakeInv, Free
    <3>2. <<x, "start">> \in Threads \ {th}
      BY <1>1, <3>1
    <3> QED
      BY <1>4, <3>1, <3>2
  <2> QED
    BY <2>1, <2>2
<1>8. ASSUME NEW x \in Threads PROVE Called(x)'
  <2>1. CASE x = th
    BY <1>1, <1>4, <1>5, <2>1 DEF Called
  <2>2. CASE x # th
    <3>1. fan'[x] = fan[x] /\ Called(x) /\ fan[x].cur \in Callers \cup {None}
      BY <1>3, <1>4, <2>2 DEF WakeInv, WakeShape, LowPowerShape
    <3> QED
      BY <1>5, <3>1 DEF Called
  <2> QED
    BY <2>1, <2>2
<1>9. raced \/ WaiterCovered'
  <2> SUFFICES ASSUME ~raced, NEW x \in Callers, Waits(x)'
               PROVE  destroyed' \/ Reaching(x)' \/ (x \in Registered' /\ Dispatcher')
    BY DEF WaiterCovered, Dispatcher, Reaching, Waits
  <2>1. x # c /\ Waits(x)
    BY <1>2, <1>5 DEF Waits
  <2>2. Reaching(x) => Reaching(x)'
    BY <1>4, <2>1 DEF Reaching
  <2>3. Dispatcher => Dispatcher'
    BY <1>2 DEF Dispatcher
  <2> QED
    BY <1>2, <2>1, <2>2, <2>3 DEF WakeInv, WaiterCovered, Registered
<1> QED
  BY <1>2, <1>6, <1>7, <1>8, <1>9 DEF WakeInv

\* A callback that was called leaves the list and the copy.
LEMMA FanRemoveWake == ASSUME WakeInv, NEW th \in Threads, FanRemove(th) PROVE WakeInv'
<1> USE LowPowerAssumption
<1>1. PICK c, l : c = fan[th].cur /\ l = fan[th].list
  OBVIOUS
<1>2. /\ c # None /\ l # None /\ lists' = [lists EXCEPT ![l] = lists[l] \ {c}]
      /\ fan' = [fan EXCEPT ![th].todo = fan[th].todo \ {c}, ![th].cur = None]
      /\ UNCHANGED <<task, deadline, cbs, held, start, timer, answers, destroyed, raced>>
  BY <1>1 DEF FanRemove
<1>3. WakeShape /\ TaskDone /\ fan[th] \in FanState
  BY DEF WakeInv, WakeShape, LowPowerShape
<1>4. c \in fan[th].todo /\ answers[c] # 0
  BY <1>1, <1>2 DEF WakeInv, Called
<1>5. /\ fan'[th].todo = fan[th].todo \ {c} /\ fan'[th].cur = None
      /\ \A x \in Threads \ {th} : fan'[x] = fan[x]
      /\ fan' \in [Threads -> FanState]
  BY <1>2, <1>3 DEF WakeShape, LowPowerShape
<1>10. /\ lists' \in [Callers -> SUBSET Callers]
       /\ Registered \ {c} \subseteq Registered'
  BY <1>1, <1>2, <1>3 DEF Registered, WakeShape, LowPowerShape
<1>6. WakeShape' /\ TaskDone' /\ (raced \/ Timed')
  BY <1>2, <1>3, <1>5, <1>10 DEF WakeInv, WakeShape, LowPowerShape, TaskDone, Timed
<1>7. ASSUME NEW x \in Callers PROVE Listed(x)' /\ Free(x)'
  <2>1. Listed(x)'
    BY <1>2, <1>4, <1>10 DEF WakeInv, Listed
  <2>2. Free(x)'
    <3> SUFFICES ASSUME start[x] \in {"idle", "join", "look", "check", "run"}
                 PROVE  fan'[<<x, "start">>].todo = {} /\ fan'[<<x, "start">>].cur = None
      BY <1>2 DEF Free
    <3>1. fan[<<x, "start">>].todo = {} /\ fan[<<x, "start">>].cur = None
      BY DEF WakeInv, Free
    <3>2. <<x, "start">> \in Threads \ {th}
      BY <1>4, <3>1
    <3> QED
      BY <1>5, <3>1, <3>2
  <2> QED
    BY <2>1, <2>2
<1>8. ASSUME NEW x \in Threads PROVE Called(x)'
  <2>1. CASE x = th
    BY <1>5, <2>1 DEF Called
  <2>2. CASE x # th
    <3>1. fan'[x] = fan[x] /\ Called(x)
      BY <1>5, <2>2 DEF WakeInv
    <3> QED
      BY <1>2, <3>1 DEF Called
  <2> QED
    BY <2>1, <2>2
<1>9. raced \/ WaiterCovered'
  <2> SUFFICES ASSUME ~raced, NEW x \in Callers, Waits(x)'
               PROVE  destroyed' \/ Reaching(x)' \/ (x \in Registered' /\ Dispatcher')
    BY DEF WaiterCovered, Dispatcher, Reaching, Waits
  <2>1. x # c /\ Waits(x)
    BY <1>2, <1>4 DEF Waits
  <2>2. Reaching(x) => Reaching(x)'
    <3> SUFFICES ASSUME NEW y \in Threads, x \in fan[y].todo
                 PROVE  (x \in fan'[y].todo /\ fan'[y].cur # x) \/ fan[y].cur = x
      BY DEF Reaching
    <3> QED
      BY <1>5, <2>1
  <2>3. Dispatcher => Dispatcher'
    BY <1>2 DEF Dispatcher
  <2> QED
    BY <1>2, <1>10, <2>1, <2>2, <2>3 DEF WakeInv, WaiterCovered
<1> QED
  BY <1>2, <1>6, <1>7, <1>8, <1>9 DEF WakeInv

\* A callback raises or is gone: UNSUPPORT is dispatched, or the copy is dropped,
\* and that is a race if anybody else was on it.
LEMMA FanAbortsWake == ASSUME WakeInv, NEW th \in Threads, FanAborts(th) PROVE WakeInv'
<1> USE LowPowerAssumption
<1>1. PICK c \in Callers : c = th[1] /\ (th[2] = "start" => th = <<c, "start">>)
  OBVIOUS
<1>2. /\ WakeShape /\ TaskDone /\ fan[th] \in FanState
      /\ start \in [Callers -> StartPc]
  BY DEF WakeInv, WakeShape, LowPowerShape
<1>3. fan[th].cur # None /\ UNCHANGED <<regVars, answers, destroyed>>
  BY DEF FanAborts
<1>4. th[2] = "start" => start[c] \in {"arm", "store", "done", "raised"}
  BY <1>1, <1>2, <1>3 DEF WakeInv, Free
<1>5. CASE th[2] = "start" /\ start[c] \in {"arm", "store"}
  <2>1. Dispatch(th, {}) /\ start' = [start EXCEPT ![c] = "done"]
    BY <1>1, <1>5 DEF FanAborts
  <2>2. /\ start' \in [Callers -> StartPc] /\ start'[c] = "done"
        /\ \A x \in Callers \ {c} : start'[x] = start[x]
    BY <1>2, <2>1
  <2>3. ASSUME NEW x \in Callers
        PROVE  /\ start'[x] \notin {"idle", "join", "raised"} =>
                     start[x] \notin {"idle", "join", "raised"}
               /\ start'[x] \in {"idle", "join", "look", "check", "run"} =>
                     start'[x] = start[x] /\ th # <<x, "start">>
               /\ raced \/ (start'[x] = "store" => start[x] = "store" /\ x \notin {})
    BY <1>1, <1>5, <2>2
  <2>4. start'[th[1]] # "run"
    BY <1>1, <2>2
  <2> QED
    BY <1>3, <2>1, <2>2, <2>3, <2>4, DispatchWake
<1>6. CASE ~(th[2] = "start" /\ start[c] \in {"arm", "store"})
  <2>1. /\ fan' = [fan EXCEPT ![th] = NoFan]
        /\ start' = [start EXCEPT ![c] = IF th[2] = "start" THEN "raised" ELSE start[c]]
        /\ raced' = (raced \/ fan[th].todo # {fan[th].cur})
        /\ UNCHANGED <<task, deadline, timer>>
    BY <1>1, <1>6 DEF FanAborts
  <2>2. /\ start' \in [Callers -> StartPc]
        /\ \A x \in Callers :
              start'[x] = start[x] \/ (start[x] \in {"done", "raised"} /\ start'[x] = "raised")
    <3>1. PICK to \in StartPc :
             /\ start' = [start EXCEPT ![c] = to]
             /\ to = start[c] \/ (start[c] \in {"done", "raised"} /\ to = "raised")
      <4>1. CASE th[2] = "start"
        <5>1. start[c] \in {"done", "raised"}
          BY <1>4, <1>6, <4>1
        <5>2. start' = [start EXCEPT ![c] = "raised"]
          BY <2>1, <4>1
        <5> QED
          BY <5>1, <5>2
      <4>2. CASE th[2] # "start"
        <5>1. start' = [start EXCEPT ![c] = start[c]] /\ start[c] \in StartPc
          BY <1>2, <2>1, <4>2
        <5> QED
          BY <5>1
      <4> QED
        BY <4>1, <4>2
    <3>2. start \in [Callers -> StartPc]
      BY <1>2
    <3>3. start' \in [Callers -> StartPc]
      BY <3>1, <3>2
    <3>4. ASSUME NEW x \in Callers
          PROVE  start'[x] = start[x] \/ (start[x] \in {"done", "raised"} /\ start'[x] = "raised")
      BY <3>1, <3>2
    <3> QED
      BY <3>3, <3>4
  <2>3. /\ fan'[th].todo = {} /\ fan'[th].cur = None
        /\ \A x \in Threads \ {th} : fan'[x] = fan[x]
        /\ fan' \in [Threads -> FanState]
    BY <1>2, <2>1 DEF WakeShape, LowPowerShape, NoFan
  <2>4. WakeShape' /\ TaskDone' /\ (raced' \/ Timed')
    BY <1>2, <1>3, <2>1, <2>2, <2>3 DEF WakeInv, WakeShape, LowPowerShape, TaskDone, Timed
  <2>5. ASSUME NEW x \in Callers PROVE Listed(x)' /\ Free(x)'
    <3>1. Listed(x) /\ Free(x) /\ <<x, "start">> \in Threads
      BY DEF WakeInv
    <3>2. Listed(x)'
      BY <1>3, <2>1, <2>2, <3>1 DEF Listed, Registered
    <3>3. Free(x)'
      BY <2>2, <2>3, <3>1 DEF Free
    <3> QED
      BY <3>2, <3>3
  <2>6. ASSUME NEW x \in Threads PROVE Called(x)'
    <3>1. CASE x = th
      BY <2>3, <3>1 DEF Called
    <3>2. CASE x # th
      <4>1. fan'[x] = fan[x] /\ Called(x)
        BY <2>3, <3>2 DEF WakeInv
      <4> QED
        BY <1>3, <4>1 DEF Called
    <3> QED
      BY <3>1, <3>2
  <2>7. raced' \/ WaiterCovered'
    <3> SUFFICES ASSUME ~raced', NEW x \in Callers, Waits(x)'
                 PROVE  destroyed' \/ Reaching(x)' \/ (x \in Registered' /\ Dispatcher')
      BY DEF WaiterCovered, Dispatcher, Reaching, Waits
    <3>1. ~raced /\ fan[th].todo = {fan[th].cur} /\ Waits(x)
      BY <1>3, <2>1, <2>2 DEF Waits
    <3>2. Reaching(x) => Reaching(x)'
      <4> SUFFICES ASSUME NEW y \in Threads, x \in fan[y].todo, fan[y].cur # x
                   PROVE  x \in fan'[y].todo /\ fan'[y].cur # x
        BY DEF Reaching
      <4>1. y # th
        BY <3>1
      <4> QED
        BY <2>3, <4>1
    <3>3. Dispatcher => Dispatcher'
      BY <2>1, <2>2 DEF Dispatcher
    <3> QED
      BY <1>3, <3>1, <3>2, <3>3 DEF WakeInv, WaiterCovered, Registered
  <2> QED
    BY <2>4, <2>5, <2>6, <2>7 DEF WakeInv
<1> QED
  BY <1>5, <1>6

\* OnlyTheRacesLoseWakeups for any number of callers, timers, runs and connect events: in
\* LowPowerDeviceManager (low_power.py) every callback that waits has somebody who will call
\* it, unless two registrations overlapped, a deadline was dropped before its task ran, a
\* fan-out was cut short or a timer's prod raised.
THEOREM WakeupsAreNotLost == LowPowerSpec => []OnlyTheRacesLoseWakeups
<1> USE LowPowerAssumption
<1>1. LowPowerInit => WakeInv
  <2> SUFFICES ASSUME LowPowerInit PROVE WakeInv
    OBVIOUS
  <2>1. WakeShape /\ TaskDone
    BY DEF LowPowerInit, WakeShape, LowPowerShape, TaskDone, NoFan
  <2>2. /\ \A c \in Callers : Listed(c) /\ Free(c)
        /\ \A th \in Threads : Called(th)
    BY DEF LowPowerInit, Listed, Free, Called, NoFan
  <2>3. Timed /\ WaiterCovered
    BY DEF LowPowerInit, Timed, WaiterCovered, Waits
  <2> QED
    BY <2>1, <2>2, <2>3 DEF WakeInv
<1>2. WakeInv /\ [LowPowerNext]_lpVars => WakeInv'
  <2> SUFFICES ASSUME WakeInv, [LowPowerNext]_lpVars PROVE WakeInv'
    OBVIOUS
  <2>1. CASE UNCHANGED <<task, deadline, regVars, start, timer, fan, answers, destroyed, raced>>
    BY <2>1 DEF WakeInv, WakeShape, LowPowerShape, TaskDone, Listed, Free, Called, Timed,
                WaiterCovered, Waits, Reaching, Dispatcher, Registered
  <2>2. ASSUME NEW c \in Callers, Prod(c) PROVE WakeInv'
    BY <2>1, <2>2 DEF Prod
  <2>3. ASSUME NEW c \in Callers, Awake(c) \/ Waking(c) PROVE WakeInv'
    BY <2>2, <2>3, AwakeWake, JoinWake, CallerWake, DispatchingWake, ProdRaisesWake DEF Waking
  <2>4. ASSUME NEW th \in Threads, Fanning(th) PROVE WakeInv'
    BY <2>4, FanCallWake, FanRemoveWake, FanAbortsWake DEF Fanning
  <2>5. CASE UNCHANGED lpVars
    BY <2>1, <2>5 DEF lpVars
  <2> QED
    BY <2>3, <2>4, <2>5, ClearedWake DEF LowPowerNext
<1>3. WakeInv => OnlyTheRacesLoseWakeups
  BY DEF WakeInv, OnlyTheRacesLoseWakeups
<1> QED
  BY <1>1, <1>2, <1>3, PTL DEF LowPowerSpec

-----------------------------------------------------------------------------
(* Type correctness. *)

\* The types the proofs above do without.
ManagerTypes ==
    /\ sleepy \in BOOLEAN /\ deadline \in BOOLEAN /\ flag \in BOOLEAN
    /\ destroyed \in BOOLEAN /\ raced \in BOOLEAN
    /\ task \in Callers \cup {None}
    /\ timer \in [Callers -> BOOLEAN]
    /\ age \in [Callers -> 0..MaxRuns]
    /\ releases \in 0..MaxReleases

\* A step of the wake-up manager.
ManagerStep ==
    \/ \E c \in Callers : Awake(c) \/ Waking(c)
    \/ \E th \in Threads : Fanning(th)
    \/ Release \/ Destroy

\* Every step of the manager keeps the types of its flags, task, timers and counters.
LEMMA ManagerTypesStep ==
    ASSUME ManagerTypes, ManagerStep
    PROVE  ManagerTypes'
<1> USE LowPowerAssumption
<1>1. /\ sleepy' = sleepy
      /\ deadline' = deadline \/ deadline' = TRUE \/ deadline' = FALSE
      /\ flag' = flag \/ flag' = TRUE \/ flag' = FALSE
      /\ destroyed' = destroyed \/ destroyed' = TRUE
  BY DEF ManagerStep, Awake, Waking, Join, Look, StillAsleep, CheckDispatches, CheckRaises,
         Arm, RunInline, RunRaises, Store, Prod, ProdRaises, Expire, Fanning, FanCall,
         FanRemove, FanAborts, Release,
         Destroy, Cleared, Dispatch
<1>2. /\ raced' = raced \/ \E b \in BOOLEAN : raced' = (raced \/ b)
      /\ task' = task \/ task' = None \/ task' \in Callers
  BY DEF ManagerStep, Awake, Waking, Join, Look, StillAsleep, CheckDispatches, CheckRaises,
         Arm, RunInline, RunRaises, Store, Prod, ProdRaises, Expire, Fanning, FanCall,
         FanRemove, FanAborts, Release,
         Destroy, Cleared, Dispatch
<1>3. \/ timer' = timer
      \/ \E c \in Callers, b \in BOOLEAN : timer' = [timer EXCEPT ![c] = b]
      \/ \E th, stopped : Dispatch(th, stopped)
  BY DEF ManagerStep, Awake, Waking, Join, Look, StillAsleep, CheckDispatches, CheckRaises,
         Arm, RunInline, RunRaises, Store, Prod, ProdRaises, Expire, Fanning, FanCall,
         FanRemove, FanAborts, Release,
         Destroy, Cleared
<1>4. \/ age' = age
      \/ \E c \in Callers : age' = [age EXCEPT ![c] = 0]
      \/ \E c \in Callers : age[c] < MaxRuns /\ age' = [age EXCEPT ![c] = @ + 1]
  BY DEF ManagerStep, Awake, Waking, Join, Look, StillAsleep, CheckDispatches, CheckRaises,
         Arm, RunInline, RunRaises, Store, Prod, ProdRaises, Expire, Fanning, FanCall,
         FanRemove, FanAborts, Release,
         Destroy, Cleared, Dispatch
<1>5. releases' = releases \/ (releases < MaxReleases /\ releases' = releases + 1)
  BY DEF ManagerStep, Awake, Waking, Join, Look, StillAsleep, CheckDispatches, CheckRaises,
         Arm, RunInline, RunRaises, Store, Prod, ProdRaises, Expire, Fanning, FanCall,
         FanRemove, FanAborts, Release,
         Destroy, Cleared, Dispatch
<1>6. timer' \in [Callers -> BOOLEAN]
  BY <1>3 DEF ManagerTypes, Dispatch
<1>7. age' \in [Callers -> 0..MaxRuns]
  BY <1>4 DEF ManagerTypes
<1>8. task' \in Callers \cup {None} /\ releases' \in 0..MaxReleases
  BY <1>2, <1>5 DEF ManagerTypes
<1>9. sleepy' \in BOOLEAN /\ deadline' \in BOOLEAN /\ flag' \in BOOLEAN /\ destroyed' \in BOOLEAN
  BY <1>1 DEF ManagerTypes
<1>10. raced' \in BOOLEAN
  BY <1>2 DEF ManagerTypes
<1> QED
  BY <1>6, <1>7, <1>8, <1>9, <1>10 DEF ManagerTypes

\* No result that a callback was given is taken back.
LEMMA AnswersGrow ==
    ASSUME LowPowerShape, ManagerStep
    PROVE  \A c \in Callers : answers[c] <= answers'[c]
<1>1. \/ answers' = answers
      \/ \E c \in Callers : answers' = [answers EXCEPT ![c] = @ + 1]
  BY DEF ManagerStep, Awake, Waking, Join, Look, StillAsleep, CheckDispatches, CheckRaises,
         Arm, RunInline, RunRaises, Store, Prod, ProdRaises, Expire, Fanning, FanCall,
         FanRemove, FanAborts, Release,
         Destroy, Cleared, Answer, LowPowerShape
<1> QED
  BY <1>1, LowPowerAssumption DEF LowPowerShape

\* The manager starts with the types.
LEMMA ManagerStarts == ASSUME LowPowerInit PROVE ManagerTypes
<1>1. age = [c \in Callers |-> 0] /\ age \in [Callers -> 0..MaxRuns]
  BY LowPowerAssumption DEF LowPowerInit
<1>2. timer = [c \in Callers |-> FALSE] /\ timer \in [Callers -> BOOLEAN]
  BY DEF LowPowerInit
<1>3. task \in Callers \cup {None} /\ releases \in 0..MaxReleases
  BY LowPowerAssumption DEF LowPowerInit
<1>4. /\ sleepy \in BOOLEAN /\ deadline \in BOOLEAN /\ flag \in BOOLEAN
      /\ destroyed \in BOOLEAN /\ raced \in BOOLEAN
  BY DEF LowPowerInit
<1> QED
  BY <1>1, <1>2, <1>3, <1>4 DEF ManagerTypes

\* Types of the manager by itself (low_power.py).
THEOREM LowPowerTypes == LowPowerSpec => []LowPowerTypeOK
<1> DEFINE Inv == LowPowerShape /\ ManagerTypes
<1>1. LowPowerInit => Inv
  <2> SUFFICES ASSUME LowPowerInit PROVE Inv
    OBVIOUS
  <2>1. LowPowerShape
    BY LowPowerStarts
  <2>2. ManagerTypes
    BY ManagerStarts
  <2> QED
    BY <2>1, <2>2
<1>2. Inv /\ [LowPowerNext]_lpVars => Inv'
  <2> SUFFICES ASSUME LowPowerShape, ManagerTypes, [LowPowerNext]_lpVars
               PROVE  LowPowerShape' /\ ManagerTypes'
    OBVIOUS
  <2>1. CASE UNCHANGED lpVars
    BY <2>1 DEF lpVars, LowPowerShape, ManagerTypes
  <2>2. CASE LowPowerNext
    <3>1. ManagerStep
      BY <2>2 DEF LowPowerNext, ManagerStep
    <3>2. LowPowerShape'
      BY <2>2, LowPowerStep, AwakeShape DEF LowPowerNext
    <3> QED
      BY <3>1, <3>2, ManagerTypesStep
  <2> QED
    BY <2>1, <2>2
<1>3. Inv => LowPowerTypeOK
  BY DEF LowPowerShape, ManagerTypes, LowPowerTypeOK
<1> QED
  BY <1>1, <1>2, <1>3, PTL DEF LowPowerSpec

\* The rest of the pipeline's types; the MQTT handler acts on no result it was not given.
PipeTypes ==
    /\ ManagerTypes
    /\ env \in EnvStates /\ changes \in 0..MaxChanges
    /\ looped \subseteq Callers
    /\ \A w \in Callers : woken[w] <= answers[w]

\* The steps in which the MQTT handler acts on a result.
LEMMA WokenStep ==
    ASSUME IInv, PipeTypes, NEW w \in Callers, SendMqtt(w) \/ Woken(w)
    PROVE  \A v \in Callers : woken'[v] <= answers'[v]
<1>1. DOMAIN woken = Callers /\ \A v \in Callers : woken[v] \in Nat
  BY DEF IInv, PipeShape
<1>2. DOMAIN answers = Callers /\ \A v \in Callers : answers[v] \in Nat
  BY LowPowerAssumption DEF IInv, LowPowerShape
<1>3. CASE Woken(w)
  <2>1. /\ woken[w] < answers[w] /\ woken' = [woken EXCEPT ![w] = @ + 1]
        /\ UNCHANGED answers
    BY <1>3 DEF Woken, lpVars
  <2> QED
    BY <1>1, <1>2, <2>1 DEF PipeTypes
<1>4. CASE SendMqtt(w)
  <2>1. CASE Awake(w)
    <3>1. answers' = answers \/ answers' = [answers EXCEPT ![w] = @ + 1]
      BY <2>1 DEF Awake, Answer
    <3>2. \/ woken' = woken
          \/ woken' = [woken EXCEPT ![w] = @ + 1] /\ answers' # answers
      BY <1>4 DEF SendMqtt, lpVars
    <3> QED
      BY <1>1, <1>2, <3>1, <3>2 DEF PipeTypes
  <2>2. CASE ~Awake(w)
    <3>1. UNCHANGED <<answers, woken>>
      BY <1>4, <2>2 DEF SendMqtt, lpVars
    <3> QED
      BY <3>1 DEF PipeTypes
  <2> QED
    BY <2>1, <2>2
<1> QED
  BY <1>3, <1>4

\* Every step keeps the types of the environment and of the manager.
LEMMA PipeTypesStep ==
    ASSUME IInv, PipeTypes, [Next]_vars
    PROVE  PipeTypes'
<1>1. CASE Change \/ UNCHANGED vars
  <2>1. UNCHANGED <<lpVars, woken, looped>>
    BY <1>1 DEF Change, vars, pipeVars
  <2>2. changes' \in 0..MaxChanges
    BY <1>1, PipelineAssumption DEF Change, vars, pipeVars, PipeTypes
  <2>3. env' \in EnvStates
    <3>1. CASE UNCHANGED vars
      BY <3>1 DEF vars, PipeTypes
    <3>2. CASE Change
      <4>1. PICK f \in EnvFields \ {"cloud"} :
               env' = [env EXCEPT ![f] = ~env[f]] /\ (f = "mqtt" => env["cloud"])
        BY <3>2 DEF Change
      <4>2. env \in [EnvFields -> BOOLEAN] /\ (env["mqtt"] => env["cloud"])
        BY DEF PipeTypes, EnvStates
      <4>3. env' \in [EnvFields -> BOOLEAN]
        BY <4>1, <4>2, Zenon
      <4>4. env'["cloud"] = env["cloud"]
        BY <4>1, <4>2
      <4>5. f # "mqtt" => env'["mqtt"] = env["mqtt"]
        BY <4>1, <4>2
      <4> QED
        BY <4>1, <4>2, <4>3, <4>4, <4>5 DEF EnvStates
    <3> QED
      BY <1>1, <3>1, <3>2
  <2> QED
    BY <2>1, <2>2, <2>3 DEF PipeTypes, ManagerTypes, lpVars
<1>2. CASE \/ \E w \in Callers : Manager(w)
           \/ \E th \in Threads : ManagerFan(th)
           \/ Connects \/ Closes
  <2>1. ManagerStep /\ UNCHANGED <<env, pipeVars>>
    BY <1>2 DEF Manager, ManagerFan, Connects, Closes, ManagerStep
  <2>2. \A c \in Callers : answers[c] <= answers'[c]
    BY <2>1, AnswersGrow DEF IInv
  <2>3. LowPowerShape' /\ looped' = looped
    BY <1>2, <2>1, LowPowerStep DEF pipeVars, IInv, Manager, ManagerFan, Connects, Closes
  <2>4. \A c \in Callers : answers[c] \in Nat /\ answers'[c] \in Nat /\ woken[c] \in Nat
    BY <2>3, LowPowerAssumption DEF IInv, LowPowerShape, PipeShape
  <2>5. \A c \in Callers : woken'[c] <= answers'[c]
    BY <2>1, <2>2, <2>4 DEF PipeTypes, pipeVars
  <2>6. ManagerTypes'
    BY <2>1, ManagerTypesStep DEF PipeTypes
  <2> QED
    BY <2>1, <2>3, <2>5, <2>6 DEF PipeTypes, pipeVars
<1>3. ASSUME NEW w \in Callers, Entry(w) \/ Progress(w) \/ LanSilent(w) \/ Return(w), ~Manager(w)
      PROVE  PipeTypes'
  <2>1. \/ UNCHANGED <<lpVars, woken>>
        \/ SendMqtt(w) \/ Woken(w)
    BY <1>3 DEF Entry, Publish, PublishMode, CloudSend, Progress, LanSilent, SendLan, LanRaises,
       LanFails, LanSent, LanAnswer, Watchdog, AwakeReturns, SendApi, SendPlugin,
       ControlByServer, Nowhere, MqttRefused, MqttSent, MqttAcked, MqttLost,
       HttpTakes, HttpFails, Return
  <2>2. UNCHANGED <<env, changes>> /\ looped' \subseteq looped \cup {w}
    BY <1>3 DEF Entry, Publish, PublishMode, CloudSend, Progress, LanSilent, SendLan, LanRaises,
       LanFails, LanSent, LanAnswer, Watchdog, AwakeReturns, SendApi, SendPlugin, SendMqtt, Woken,
       ControlByServer, Nowhere, MqttRefused, MqttSent, MqttAcked, MqttLost,
       HttpTakes, HttpFails, Return
  <2>3. \A v \in Callers : woken'[v] <= answers'[v]
    BY <2>1, WokenStep DEF PipeTypes, lpVars
  <2>4. ManagerTypes'
    <3>1. CASE UNCHANGED lpVars
      BY <3>1 DEF PipeTypes, ManagerTypes, lpVars
    <3>2. CASE SendMqtt(w)
      <4>1. ManagerStep \/ UNCHANGED lpVars
        BY <3>2 DEF SendMqtt, ManagerStep
      <4> QED
        BY <3>1, <4>1, ManagerTypesStep DEF PipeTypes
    <3>3. CASE Woken(w)
      BY <3>1, <3>3 DEF Woken
    <3> QED
      BY <2>1, <3>1, <3>2, <3>3
  <2> QED
    BY <2>2, <2>3, <2>4 DEF PipeTypes
<1> QED
  BY <1>1, <1>2, <1>3 DEF Next

\* Types of the pipeline and of the manager under it (pipeline.py, comm_pipeline.py).
THEOREM PipelineTypes == Spec => []TypeOK
<1>1. Init => PipeTypes
  <2> SUFFICES ASSUME Init PROVE PipeTypes
    OBVIOUS
  <2>1. ManagerTypes
    BY ManagerStarts DEF Init
  <2>2. changes \in 0..MaxChanges /\ env \in EnvStates /\ looped \subseteq Callers
    BY PipelineAssumption DEF Init
  <2>3. \A w \in Callers : woken[w] <= answers[w]
    BY DEF Init, LowPowerInit
  <2> QED
    BY <2>1, <2>2, <2>3 DEF PipeTypes
<1>2. IInv /\ PipeTypes /\ [Next]_vars => PipeTypes'
  BY PipeTypesStep
<1>3. IInv /\ PipeTypes => TypeOK
  <2> SUFFICES ASSUME IInv, PipeTypes PROVE TypeOK
    OBVIOUS
  <2>1. LowPowerTypeOK
    BY DEF IInv, PipeTypes, LowPowerShape, ManagerTypes, LowPowerTypeOK
  <2>2. woken \in [Callers -> 0..MaxAnswers]
    BY LowPowerAssumption DEF IInv, PipeTypes, LowPowerShape, PipeShape
  <2> QED
    BY <2>1, <2>2 DEF IInv, PipeTypes, PipeShape, TypeOK
<1> QED
  BY <1>1, <1>2, <1>3, Invariance, PTL DEF Spec
=============================================================================
