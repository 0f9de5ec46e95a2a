--------------------------- MODULE AccountProofs ---------------------------
(***************************************************************************)
(* Proofs about Account: what a retry may repeat, which clock it uses,     *)
(* which sessions the server refuses and which ones the client forgets,    *)
(* for any number of tasks, logins and regions.                            *)
(***************************************************************************)
EXTENDS Account, TLAPS

USE DEF Steps, Answers, Places, AtTheClock, Skews, Torn, Sessions, SessionSteps

\* The requests there are.
Calls == [step : Steps, op : {None, "login", "register"}, at : Places \cup {None},
          sid : 0..MaxLogins, host : Regions \cup {None}, stamp : Skews \cup {Torn},
          retried : BOOLEAN, answer : Answers \cup {None}, time : Skews,
          grant : 0..MaxLogins, effects : {0, 1}, unsteady : BOOLEAN, stray : BOOLEAN,
          met : BOOLEAN]

Shape ==
    /\ session \in 0..granted /\ adopted \in 0..granted /\ granted \in 0..MaxLogins
    /\ host \in Regions /\ built \in 0..granted
    /\ offset \in Skews /\ bizOffset \in Skews /\ skew \in Skews
    /\ home \in [Sessions -> Regions \cup {None}]
    /\ alive \subseteq 1..granted
    /\ strayed \in BOOLEAN /\ crossed \in BOOLEAN
    /\ plan \in Plans
    /\ call \in [Tasks -> Calls]

\* A request is under way while its task is in a step, has an answer at its end, and is
\* about sessions that were granted.
Placed(c) ==
    /\ c.at = None <=> c.step = "idle"
    /\ c.answer = None <=> c.at # "answered"
    /\ c.sid <= granted /\ c.grant <= granted
    /\ c.at \in AtTheClock => c.step = "publish"
    /\ c.step = "publish" => built # 0
    /\ c.answer = "ok" /\ c.step \in {"password", "code"} => c.grant # 0

\* Only an answer of success, or the loss of it, leaves a request that was carried out.
Once(c) == c.answer \notin {"ok", "error"} => c.effects = 0

\* As long as the clocks keep their distance, a refusal tells it, and the retry has it, unless
\* it met another worker at the clock of the Business.
InTime(c) ==
    /\ c.answer = "timeless" => c.unsteady
    /\ c.met => c.step = "publish"
    /\ c.answer = "time" \/ c.at = "setting" => c.unsteady \/ c.time = skew
    /\ c.answer = "time" /\ c.retried => c.unsteady \/ c.met
    /\ c.at = "sent" /\ c.retried => c.unsteady \/ c.met \/ c.stamp = skew
    /\ c.at = "stamping" /\ c.retried => c.unsteady \/ c.met \/ bizOffset = skew

\* A logout is about the session that is adopted, unless one was adopted meanwhile; what it
\* was granted is not honoured any more.
Leaving(c) ==
    c.step = "logout" => /\ c.sid = adopted \/ crossed
                         /\ c.answer = "ok" => c.sid \notin alive

\* A request went to the host of its session, unless it is marked.
Addressed(c) ==
    (c.at = "sent" /\ c.step \in SessionSteps /\ c.sid # 0 /\ ~c.stray)
       => home[c.sid] \in {None, c.host}

Sound(c) == Placed(c) /\ Once(c) /\ InTime(c) /\ Leaving(c) /\ Addressed(c)

\* The session is the one that was adopted, and its host is the API's unless a login moved it.
Attached ==
    /\ session # 0 => session = adopted
    /\ session # 0 /\ ~strayed => home[session] \in {None, host}

IInv == Shape /\ Attached /\ OnlyCrossingsForget /\ \A t \in Tasks : Sound(call[t])

-----------------------------------------------------------------------------
(* Requests. *)

\* A task without a request.
LEMMA IdleCall ==
    /\ Idle \in Calls
    /\ Idle.step = "idle" /\ Idle.op = None /\ Idle.at = None /\ Idle.sid = 0
    /\ Idle.retried = FALSE /\ Idle.answer = None /\ Idle.grant = 0 /\ Idle.effects = 0
    /\ Idle.unsteady = FALSE /\ Idle.met = FALSE
  BY AccountAssumption DEF Idle, Calls

\* What _request_once (mobile.py) sends.
LEMMA RequestCall ==
    ASSUME NEW c \in Calls, NEW sid \in 0..MaxLogins, NEW h \in Regions, NEW off \in Skews \cup {Torn},
           NEW r, r = Request(c, sid, h, off)
    PROVE  /\ r \in Calls
           /\ r.step = c.step /\ r.op = c.op /\ r.at = "sent" /\ r.sid = sid /\ r.host = h
           /\ r.stamp = off /\ r.retried = c.retried /\ r.answer = None
           /\ r.grant = c.grant /\ r.effects = c.effects /\ r.unsteady = c.unsteady
           /\ r.met = c.met
           /\ r.stray \/ c.step = "publish" \/ (~strayed /\ sid = session)
<1>1. (c.step # "publish" /\ (strayed \/ sid # session)) \in BOOLEAN
  OBVIOUS
<1>2. PICK b \in BOOLEAN : b = (c.step # "publish" /\ (strayed \/ sid # session))
  BY <1>1
<1>3. r = [c EXCEPT !.at = "sent", !.sid = sid, !.host = h, !.stamp = off,
                    !.answer = None, !.time = 0, !.stray = b]
  BY <1>2 DEF Request
<1>4. r \in Calls
  <2>1. PICK d : d = [c EXCEPT !.at = "sent", !.sid = sid, !.host = h, !.stamp = off]
    OBVIOUS
  <2>2. d \in Calls
    BY <2>1 DEF Calls
  <2>3. r = [d EXCEPT !.answer = None, !.time = 0, !.stray = b]
    BY <1>3, <2>1
  <2> QED
    BY <2>2, <2>3 DEF Calls
<1>5. /\ r.step = c.step /\ r.op = c.op /\ r.at = "sent" /\ r.sid = sid /\ r.host = h
      /\ r.stamp = off /\ r.retried = c.retried /\ r.answer = None
      /\ r.grant = c.grant /\ r.effects = c.effects /\ r.unsteady = c.unsteady /\ r.stray = b
      /\ r.met = c.met
  BY <1>3 DEF Calls
<1> QED
  BY <1>2, <1>4, <1>5

\* What get_request_body (atop.py) is about to stamp.
ToStamp(c, b) == [c EXCEPT !.at = "stamping", !.answer = None, !.time = 0, !.met = b]

LEMMA ClockCall ==
    ASSUME NEW c \in Calls, NEW b \in BOOLEAN, NEW r, r = ToStamp(c, b)
    PROVE  /\ r \in Calls
           /\ r.step = c.step /\ r.at = "stamping" /\ r.answer = None /\ r.effects = c.effects
           /\ r.sid = c.sid /\ r.grant = c.grant /\ r.retried = c.retried
           /\ r.unsteady = c.unsteady
  BY DEF Calls, ToStamp

\* What comes back.
LEMMA AnsweredCall ==
    ASSUME NEW c \in Calls, NEW a \in Answers, NEW r, r = Answered(c, a)
    PROVE  /\ r \in Calls
           /\ r.step = c.step /\ r.op = c.op /\ r.at = "answered" /\ r.sid = c.sid
           /\ r.retried = c.retried /\ r.answer = a /\ r.time = c.time
           /\ r.grant = c.grant /\ r.effects = c.effects /\ r.unsteady = c.unsteady
           /\ r.met = c.met
  BY AccountAssumption DEF Answered, Calls

\* A fresh request of a step that is not refused is sound.
LEMMA FreshSound ==
    ASSUME IInv, NEW op \in {None, "login", "register"}, NEW step \in Steps \ {"idle", "publish"},
           NEW h \in Regions, NEW off \in Skews, NEW c,
           c = Fresh(op, step, Captured(step), h, off),
           step \in SessionSteps => session # 0 /\ h = host
    PROVE  c \in Calls /\ Sound(c)
<1> DEFINE i == [Idle EXCEPT !.op = op, !.step = step]
<1>1. /\ i \in Calls /\ i.step = step /\ i.retried = FALSE /\ i.grant = 0 /\ i.effects = 0
      /\ i.met = FALSE
  <2>1. PICK d \in Calls : /\ d = Idle /\ d.retried = FALSE /\ d.grant = 0 /\ d.effects = 0
                           /\ d.met = FALSE
    BY IdleCall
  <2>2. PICK e : e = [d EXCEPT !.op = op]
    OBVIOUS
  <2>3. e \in Calls /\ e.retried = FALSE /\ e.grant = 0 /\ e.effects = 0 /\ e.met = FALSE
    BY <2>1, <2>2 DEF Calls
  <2>4. i = [e EXCEPT !.step = step]
    BY <2>1, <2>2
  <2> HIDE DEF i
  <2> QED
    BY <2>3, <2>4 DEF Calls
<1>2. Captured(step) \in 0..MaxLogins /\ Captured(step) <= granted
  BY AccountAssumption DEF Captured, IInv, Shape
<1>3. c = Request(i, Captured(step), h, off)
  BY DEF Fresh
<1> HIDE DEF i
<1>4. /\ c \in Calls /\ c.step = step /\ c.at = "sent" /\ c.sid = Captured(step)
      /\ c.host = h /\ ~c.retried /\ c.answer = None /\ c.grant = 0 /\ c.effects = 0 /\ ~c.met
      /\ c.stray \/ (~strayed /\ c.sid = session)
  BY <1>1, <1>2, <1>3, RequestCall
<1>5. Placed(c) /\ Once(c) /\ InTime(c)
  BY <1>2, <1>4, AccountAssumption DEF Placed, Once, InTime, IInv, Shape
<1>6. Leaving(c)
  BY <1>4, AccountAssumption DEF Leaving, Captured, IInv, Attached
<1>7. Addressed(c)
  BY <1>4 DEF Addressed, Captured, IInv, Attached
<1> QED
  BY <1>4, <1>5, <1>6, <1>7 DEF Sound

\* A request that is sent again is sound when it was not carried out and its time stamp is
\* right whenever the clocks have kept their distance.
LEMMA RetrySound ==
    ASSUME IInv, NEW t \in Tasks, NEW c, NEW off \in Skews,
           call[t].answer = "time", call[t].step # "publish",
           c = Request([call[t] EXCEPT !.retried = TRUE], call[t].sid, host, off),
           ~call[t].unsteady => off = skew
    PROVE  c \in Calls /\ Sound(c)
<1> DEFINE i == [call[t] EXCEPT !.retried = TRUE]
<1>1. call[t] \in Calls /\ Sound(call[t]) /\ call[t].sid \in 0..MaxLogins /\ host \in Regions
  BY AccountAssumption DEF IInv, Shape, Calls
<1>2. /\ i \in Calls /\ i.step = call[t].step /\ i.grant = call[t].grant
      /\ i.effects = call[t].effects /\ i.unsteady = call[t].unsteady /\ i.met = call[t].met
  BY <1>1 DEF Calls
<1>3. call[t].step # "idle" /\ call[t].effects = 0 /\ call[t].sid <= granted
  BY <1>1, AccountAssumption DEF Sound, Placed, Once
<1>4. c = Request(i, call[t].sid, host, off)
  OBVIOUS
<1> HIDE DEF i
<1>5. /\ c \in Calls /\ c.step = call[t].step /\ c.at = "sent" /\ c.sid = call[t].sid
      /\ c.host = host /\ c.answer = None /\ c.grant = call[t].grant /\ c.effects = 0
      /\ c.unsteady = call[t].unsteady /\ c.stamp = off /\ c.met = call[t].met
      /\ c.stray \/ (~strayed /\ call[t].sid = session)
  BY <1>1, <1>2, <1>3, <1>4, RequestCall
<1>6. Placed(c) /\ Once(c)
  BY <1>1, <1>3, <1>5, AccountAssumption DEF Placed, Once, Sound, IInv, Shape
<1>7. InTime(c)
  BY <1>1, <1>5, AccountAssumption DEF InTime, Sound
<1>8. Leaving(c)
  BY <1>1, <1>5, AccountAssumption DEF Leaving, Sound
<1>9. Addressed(c)
  BY <1>5 DEF Addressed, IInv, Attached
<1> QED
  BY <1>5, <1>6, <1>7, <1>8, <1>9 DEF Sound

\* A task without a request is sound.
LEMMA IdleSound == ASSUME Shape PROVE Idle \in Calls /\ Sound(Idle)
  BY IdleCall, AccountAssumption DEF Sound, Placed, Once, InTime, Leaving, Addressed, Shape

-----------------------------------------------------------------------------
(* Steps. *)

\* A step of one task that leaves the server and the adopted session alone.
LEMMA OwnStep ==
    ASSUME IInv, NEW t \in Tasks, NEW c \in Calls, Sound(c), call' = [call EXCEPT ![t] = c],
           UNCHANGED <<session, built, bizOffset, server, adopted, crossed, plan>>,
           host' \in Regions, offset' \in Skews, strayed' \in BOOLEAN,
           session # 0 /\ ~strayed' => home[session] \in {None, host'}
    PROVE  IInv'
<1>1. Shape'
  BY DEF IInv, Shape, server
<1>2. Attached' /\ OnlyCrossingsForget'
  BY DEF IInv, Attached, OnlyCrossingsForget, server
<1>3. ASSUME NEW x \in Tasks PROVE Sound(call[x])'
  <2>1. call'[x] = c \/ call'[x] = call[x]
    BY DEF IInv, Shape
  <2>2. ASSUME NEW k, Sound(k) PROVE Sound(k)'
    BY <2>2 DEF Sound, Placed, Once, InTime, Leaving, Addressed, server
  <2>3. Sound(call[x])
    BY DEF IInv
  <2>4. PICK k : k = call'[x] /\ Sound(k)
    BY <2>1, <2>3
  <2> QED
    BY <2>2, <2>4 DEF Sound, Placed, Once, InTime, Leaving, Addressed
<1> QED
  BY <1>1, <1>2, <1>3 DEF IInv

\* A fresh request takes the place of the task's last one.
LEMMA FreshStep ==
    ASSUME IInv, NEW t \in Tasks, NEW op \in {None, "login", "register"},
           NEW step \in Steps \ {"idle", "publish"}, NEW h \in Regions,
           step \in SessionSteps => session # 0 /\ h = host,
           call' = [call EXCEPT ![t] = Fresh(op, step, Captured(step), h, offset)],
           UNCHANGED <<session, offset, built, bizOffset, server, adopted, crossed, plan>>,
           host' = h, strayed' = (strayed \/ host # h)
    PROVE  IInv'
<1>1. PICK c : c = Fresh(op, step, Captured(step), h, offset)
  OBVIOUS
<1>2. offset \in Skews /\ strayed \in BOOLEAN
  BY DEF IInv, Shape
<1>3. c \in Calls /\ Sound(c)
  BY <1>1, <1>2, FreshSound
<1>4. session # 0 /\ ~strayed' => home[session] \in {None, host'}
  BY DEF IInv, Attached
<1>5. call' = [call EXCEPT ![t] = c]
  BY <1>1
<1>6. strayed' \in BOOLEAN /\ host' \in Regions /\ offset' \in Skews
  BY <1>2
<1> QED
  BY <1>3, <1>4, <1>5, <1>6, OwnStep

\* The task has no request any more.
LEMMA IdleStep ==
    ASSUME IInv, NEW t \in Tasks, call' = [call EXCEPT ![t] = Idle],
           UNCHANGED <<session, host, offset, built, bizOffset, server, adopted, strayed,
                       crossed, plan>>
    PROVE  IInv'
<1>1. Idle \in Calls /\ Sound(Idle)
  BY IdleSound DEF IInv
<1>2. /\ host' \in Regions /\ offset' \in Skews /\ strayed' \in BOOLEAN
      /\ session # 0 /\ ~strayed' => home[session] \in {None, host'}
  BY DEF IInv, Shape, Attached
<1> QED
  BY <1>1, <1>2, OwnStep

\* The request of a task changes, and nothing that it shares with the others but the offset.
LEMMA SoundStep ==
    ASSUME IInv, NEW t \in Tasks, NEW c \in Calls, Sound(c), call' = [call EXCEPT ![t] = c],
           UNCHANGED <<session, host, built, bizOffset, server, adopted, strayed, crossed, plan>>,
           offset' \in Skews
    PROVE  IInv'
<1>1. /\ host' \in Regions /\ strayed' \in BOOLEAN
      /\ session # 0 /\ ~strayed' => home[session] \in {None, host'}
  BY DEF IInv, Shape, Attached
<1> QED
  BY <1>1, OwnStep

-----------------------------------------------------------------------------
(* Calls. *)

\* The operations that begin with a request of the account API.
LEMMA BeginStep ==
    ASSUME IInv, NEW t \in Tasks, NEW op,
           NEW step \in {"plain", "ask", "detail", "code", "logout"}, Begin(t, op, step),
           UNCHANGED <<session, offset, built, bizOffset, server, adopted, crossed, plan>>
    PROVE  IInv'
<1>1. /\ step \in SessionSteps => session # 0
      /\ call' = [call EXCEPT ![t] = Fresh(None, step, Captured(step), host, offset)]
      /\ host' = host /\ strayed' = strayed
  BY DEF Begin, Refused
<1>2. host \in Regions /\ strayed' = (strayed \/ host # host)
  BY <1>1 DEF IInv, Shape
<1>3. step \in Steps \ {"idle", "publish"}
  OBVIOUS
<1> QED
  BY <1>1, <1>2, <1>3, FreshStep

\* login() and register_email() begin by moving the host.
LEMMA LoginTokenStep ==
    ASSUME IInv, NEW t \in Tasks, LoginToken(t),
           UNCHANGED <<session, offset, built, bizOffset, server, adopted, crossed, plan>>
    PROVE  IInv'
<1>1. PICK op \in {"login", "register"} :
         /\ host' = UsHost /\ strayed' = (strayed \/ host # UsHost)
         /\ call' = [call EXCEPT ![t] = Fresh(op, "token", 0, UsHost, offset)]
  BY DEF LoginToken
<1>2. UsHost \in Regions
  BY AccountAssumption
<1>3. Captured("token") = 0 /\ "token" \in Steps \ {"idle", "publish"} /\ "token" \notin SessionSteps
  BY DEF Captured
<1> QED
  BY <1>1, <1>2, <1>3, FreshStep

\* A request of the Business goes to the clock, where it is sound.
LEMMA BusinessSound ==
    ASSUME IInv, NEW t \in Tasks, NEW i \in Calls, NEW c, c = BusinessRequest(i, t),
           i.step = "publish", i.effects = 0, i.sid <= granted, i.grant <= granted, built # 0,
           i.retried => i.unsteady
    PROVE  c \in Calls /\ Sound(c)
<1>1. OthersSetting(t) \in BOOLEAN
  BY DEF OthersSetting
<1>2. PICK b \in BOOLEAN : b = OthersSetting(t)
  BY <1>1
<1>3. c = ToStamp(i, b)
  BY <1>2 DEF BusinessRequest, ToStamp
<1>4. /\ c \in Calls /\ c.step = "publish" /\ c.at = "stamping" /\ c.answer = None
      /\ c.effects = 0 /\ c.sid = i.sid /\ c.grant = i.grant /\ c.retried = i.retried
      /\ c.unsteady = i.unsteady
  BY <1>2, <1>3, ClockCall
<1>5. Placed(c) /\ Once(c) /\ InTime(c) /\ Leaving(c) /\ Addressed(c)
  BY <1>4, AccountAssumption DEF Placed, Once, InTime, Leaving, Addressed
<1> QED
  BY <1>4, <1>5 DEF Sound

\* A publish begins at the clock of its Business.
LEMMA PublishStep ==
    ASSUME IInv, NEW t \in Tasks, Publish(t),
           UNCHANGED <<session, offset, built, bizOffset, server, adopted, crossed, plan>>
    PROVE  IInv'
<1> DEFINE i == [Idle EXCEPT !.step = "publish"]
<1>1. /\ i \in Calls /\ i.step = "publish" /\ i.retried = FALSE /\ i.grant = 0 /\ i.effects = 0
      /\ i.sid = 0
  BY IdleCall DEF Calls
<1>2. PICK c : c = BusinessRequest(i, t)
  OBVIOUS
<1>3. call' = [call EXCEPT ![t] = c] /\ UNCHANGED <<host, strayed>> /\ built # 0
  BY <1>2 DEF Publish, Refused
<1>4. granted \in Nat /\ offset \in Skews
  BY AccountAssumption DEF IInv, Shape
<1> HIDE DEF i
<1>5. c \in Calls /\ Sound(c)
  BY <1>1, <1>2, <1>3, <1>4, BusinessSound
<1> QED
  BY <1>3, <1>4, <1>5, SoundStep

LEMMA CallStep ==
    ASSUME IInv, NEW t \in Tasks, Call(t), UNCHANGED plan
    PROVE  IInv'
<1>1. UNCHANGED <<session, offset, built, bizOffset, server, adopted, crossed, plan>>
  BY DEF Call
<1>2. CASE SendEmailCode(t)
  BY <1>1, <1>2, BeginStep DEF SendEmailCode
<1>3. CASE UpdateAccount(t) \/ ReadDevice(t) \/ FetchHome(t)
  BY <1>1, <1>3, BeginStep DEF UpdateAccount, ReadDevice, FetchHome
<1>4. CASE BootstrapLocalConfig(t) \/ LoginWithEmailCode(t) \/ Logout(t)
  BY <1>1, <1>4, BeginStep DEF BootstrapLocalConfig, LoginWithEmailCode, Logout
<1>5. CASE LoginToken(t)
  BY <1>1, <1>5, LoginTokenStep
<1>6. CASE Publish(t)
  BY <1>1, <1>6, PublishStep
<1> QED
  BY <1>2, <1>3, <1>4, <1>5, <1>6 DEF Call

-----------------------------------------------------------------------------
(* The server. *)

\* An answer other than a success, to a request that is under way.
LEMMA RefusalStep ==
    ASSUME IInv, NEW t \in Tasks, NEW a \in {"error", "session"}, Answer(t, a),
           call[t].at = "sent" \/ (a = "error" /\ call[t].at = "answered"),
           UNCHANGED <<session, host, offset, built, bizOffset, server, adopted, strayed,
                       crossed, plan>>
    PROVE  IInv'
<1>1. call[t] \in Calls /\ Sound(call[t]) /\ offset \in Skews /\ bizOffset \in Skews
  BY DEF IInv, Shape
<1>2. PICK c : c = Answered(call[t], a)
  OBVIOUS
<1>3. /\ c \in Calls /\ c.step = call[t].step /\ c.at = "answered" /\ c.sid = call[t].sid
      /\ c.retried = call[t].retried /\ c.answer = a /\ c.grant = call[t].grant
      /\ c.effects = call[t].effects /\ c.unsteady = call[t].unsteady /\ c.met = call[t].met
  BY <1>1, <1>2, AnsweredCall
<1>4. Placed(c)
  BY <1>1, <1>3, AccountAssumption DEF Sound, Placed
<1>5. Once(c)
  BY <1>1, <1>3, AccountAssumption DEF Sound, Placed, Once
<1>6. InTime(c) /\ Leaving(c) /\ Addressed(c)
  BY <1>1, <1>3 DEF Sound, InTime, Leaving, Addressed
<1>7. call' = [call EXCEPT ![t] = c]
  BY <1>2 DEF Answer
<1> QED
  BY <1>1, <1>3, <1>4, <1>5, <1>6, <1>7, SoundStep DEF Sound

\* The time stamp is refused: a retry with the server's time is to come, or came too late.
LEMMA RefuseTimeStep ==
    ASSUME IInv, NEW t \in Tasks, RefuseTime(t), call[t].at = "sent",
           UNCHANGED <<session, host, offset, built, bizOffset, adopted, strayed, crossed, plan>>
    PROVE  IInv'
<1>1. /\ call[t] \in Calls /\ Sound(call[t]) /\ offset \in Skews /\ bizOffset \in Skews
      /\ skew \in Skews /\ call[t].stamp # skew
  BY DEF IInv, Shape, RefuseTime
<1>2. PICK k, m : k = Answered(call[t], "time") /\ m = Answered(call[t], "timeless")
  OBVIOUS
<1>3. /\ k \in Calls /\ k.step = call[t].step /\ k.at = "answered" /\ k.sid = call[t].sid
      /\ k.retried = call[t].retried /\ k.answer = "time" /\ k.grant = call[t].grant
      /\ k.effects = call[t].effects /\ k.unsteady = call[t].unsteady /\ k.met = call[t].met
  BY <1>1, <1>2, AnsweredCall
<1>4. /\ m \in Calls /\ m.step = call[t].step /\ m.at = "answered" /\ m.sid = call[t].sid
      /\ m.answer = "timeless" /\ m.grant = call[t].grant /\ m.effects = call[t].effects
      /\ m.met = call[t].met
  BY <1>1, <1>2, AnsweredCall
<1>5. PICK c : /\ call' = [call EXCEPT ![t] = c]
               /\ \/ c = [k EXCEPT !.time = skew]
                  \/ c = [m EXCEPT !.unsteady = TRUE]
  BY <1>2 DEF RefuseTime
<1>6. /\ c \in Calls /\ c.step = call[t].step /\ c.at = "answered" /\ c.sid = call[t].sid
      /\ c.grant = call[t].grant /\ c.effects = call[t].effects /\ c.met = call[t].met
      /\ \/ /\ c.answer = "time" /\ c.time = skew /\ c.retried = call[t].retried
            /\ c.unsteady = call[t].unsteady
         \/ c.answer = "timeless" /\ c.unsteady
  <2>1. CASE c = [k EXCEPT !.time = skew]
    BY <1>1, <1>3, <2>1 DEF Calls
  <2>2. CASE c = [m EXCEPT !.unsteady = TRUE]
    BY <1>4, <2>2 DEF Calls
  <2> QED
    BY <1>5, <2>1, <2>2
<1>7. Placed(c) /\ Once(c)
  BY <1>1, <1>6, AccountAssumption DEF Sound, Placed, Once
<1>8. InTime(c)
  BY <1>1, <1>6 DEF Sound, InTime
<1>9. Leaving(c) /\ Addressed(c)
  BY <1>1, <1>6 DEF Sound, Leaving, Addressed
<1>10. UNCHANGED server
  BY DEF RefuseTime
<1> QED
  BY <1>1, <1>5, <1>6, <1>7, <1>8, <1>9, <1>10, SoundStep DEF Sound

\* What CarryOut leaves of a request.
Done(c) == [Answered(c, "ok") EXCEPT !.effects = c.effects + 1]

LEMMA CarriedOut ==
    ASSUME IInv, NEW t \in Tasks, NEW c, call[t].at = "sent", c = Done(call[t])
    PROVE  /\ c \in Calls /\ c.step = call[t].step /\ c.at = "answered" /\ c.answer = "ok"
           /\ c.sid = call[t].sid /\ c.grant = call[t].grant /\ c.met = call[t].met
<1>1. call[t] \in Calls /\ Sound(call[t])
  BY DEF IInv, Shape
<1>2. PICK k : k = Answered(call[t], "ok")
  OBVIOUS
<1>3. /\ k \in Calls /\ k.step = call[t].step /\ k.at = "answered" /\ k.sid = call[t].sid
      /\ k.answer = "ok" /\ k.grant = call[t].grant /\ k.met = call[t].met
  BY <1>1, <1>2, AnsweredCall
<1>4. PICK e \in {0, 1} : e = call[t].effects + 1
  BY <1>1, AccountAssumption DEF Sound, Placed, Once
<1>5. c = [k EXCEPT !.effects = e]
  BY <1>2, <1>4 DEF Done
<1> QED
  BY <1>3, <1>5 DEF Calls

\* A request is carried out that neither logs in nor out.
LEMMA CarryOutPlain ==
    ASSUME IInv, NEW t \in Tasks, NEW c, call[t].at = "sent",
           call[t].step \notin {"password", "code", "logout"},
           c = Done(call[t]),
           call' = [call EXCEPT ![t] = c],
           UNCHANGED <<session, host, offset, built, bizOffset, server, adopted, strayed,
                       crossed, plan>>
    PROVE  IInv'
<1>1. /\ call[t] \in Calls /\ Sound(call[t]) /\ offset \in Skews /\ bizOffset \in Skews
      /\ call[t].grant \in 0..MaxLogins
  BY DEF IInv, Shape, Calls
<1>2. /\ c \in Calls /\ c.step = call[t].step /\ c.at = "answered" /\ c.answer = "ok"
      /\ c.sid = call[t].sid /\ c.grant = call[t].grant /\ c.met = call[t].met
  BY <1>1, CarriedOut
<1>3. Sound(c)
  BY <1>1, <1>2, AccountAssumption DEF Sound, Placed, Once, InTime, Leaving, Addressed
<1> QED
  BY <1>1, <1>2, <1>3, SoundStep

\* A session ends: what is under way stays sound.
LEMMA CarryOutLogout ==
    ASSUME IInv, NEW t \in Tasks, NEW c, call[t].at = "sent", call[t].step = "logout",
           c = Done(call[t]),
           call' = [call EXCEPT ![t] = c], alive' = alive \ {call[t].sid},
           UNCHANGED <<session, host, offset, built, bizOffset, skew, granted, home, adopted,
                       strayed, crossed, plan>>
    PROVE  IInv'
<1>1. /\ call[t] \in Calls /\ Sound(call[t]) /\ call[t].grant \in 0..MaxLogins
  BY DEF IInv, Shape, Calls
<1>2. /\ c \in Calls /\ c.step = call[t].step /\ c.at = "answered" /\ c.answer = "ok"
      /\ c.sid = call[t].sid /\ c.grant = call[t].grant /\ c.met = call[t].met
  BY <1>1, CarriedOut
<1>3. Shape'
  BY <1>2 DEF IInv, Shape
<1>4. Attached' /\ OnlyCrossingsForget'
  BY DEF IInv, Attached, OnlyCrossingsForget
<1>5. ASSUME NEW x \in Tasks PROVE Sound(call[x])'
  <2>1. PICK k : k = call'[x]
    OBVIOUS
  <2>2. CASE x = t
    <3>1. k = c
      BY <2>1, <2>2 DEF IInv, Shape
    <3>2. Placed(k)' /\ Once(k)' /\ InTime(k)' /\ Addressed(k)'
      BY <1>1, <1>2, <3>1, AccountAssumption DEF Sound, Placed, Once, InTime, Addressed
    <3>3. Leaving(k)'
      BY <1>1, <1>2, <3>1 DEF Sound, Leaving
    <3> QED
      BY <2>1, <3>2, <3>3 DEF Sound, Placed, Once, InTime, Leaving, Addressed
  <2>3. CASE x # t
    <3>1. k = call[x] /\ Sound(k)
      BY <2>1, <2>3 DEF IInv, Shape
    <3>2. Placed(k)' /\ Once(k)' /\ InTime(k)' /\ Addressed(k)' /\ Leaving(k)'
      BY <3>1 DEF Sound, Placed, Once, InTime, Addressed, Leaving
    <3> QED
      BY <2>1, <3>2 DEF Sound, Placed, Once, InTime, Leaving, Addressed
  <2> QED
    BY <2>2, <2>3
<1> QED
  BY <1>3, <1>4, <1>5 DEF IInv

\* A session is granted: no request under way is about it.
LEMMA CarryOutLogin ==
    ASSUME IInv, NEW t \in Tasks, NEW c, NEW r \in Regions \cup {None},
           call[t].at = "sent", call[t].step \in {"password", "code"},
           granted + 1 \in Sessions, granted' = granted + 1, alive' = alive \cup {granted'},
           home' = [home EXCEPT ![granted'] = r],
           NEW d, d = Done(call[t]), c = [d EXCEPT !.grant = granted'],
           call' = [call EXCEPT ![t] = c],
           UNCHANGED <<session, host, offset, built, bizOffset, skew, adopted, strayed,
                       crossed, plan>>
    PROVE  IInv'
<1>1. /\ call[t] \in Calls /\ Sound(call[t]) /\ granted' \in 0..MaxLogins
  BY AccountAssumption DEF IInv, Shape
<1>2. /\ c \in Calls /\ c.step = call[t].step /\ c.at = "answered" /\ c.answer = "ok"
      /\ c.sid = call[t].sid /\ c.grant = granted' /\ c.met = call[t].met
  <2>1. /\ d \in Calls /\ d.step = call[t].step /\ d.at = "answered" /\ d.answer = "ok"
        /\ d.sid = call[t].sid /\ d.met = call[t].met
    BY CarriedOut
  <2>2. PICK g \in 0..MaxLogins : g = granted'
    BY <1>1
  <2>3. c = [d EXCEPT !.grant = g]
    BY <2>2
  <2>4. /\ c \in Calls /\ c.step = d.step /\ c.at = d.at /\ c.answer = d.answer
        /\ c.sid = d.sid /\ c.grant = g /\ c.met = d.met
    BY <2>1, <2>3 DEF Calls
  <2> QED
    BY <2>1, <2>2, <2>4
<1>3. Shape'
  <2>1. /\ session' \in 0..granted' /\ adopted' \in 0..granted' /\ built' \in 0..granted'
        /\ alive' \subseteq 1..granted'
    BY AccountAssumption DEF IInv, Shape
  <2>2. home' \in [Sessions -> Regions \cup {None}] /\ call' \in [Tasks -> Calls]
    BY <1>2 DEF IInv, Shape
  <2> QED
    BY <1>1, <2>1, <2>2 DEF IInv, Shape
<1>4. \A n \in 1..granted : home'[n] = home[n] /\ (n \in alive' <=> n \in alive)
  BY AccountAssumption DEF IInv, Shape
<1>5. granted \in Nat /\ session \in 0..granted /\ adopted \in 0..granted /\ 0 \notin alive'
  BY <1>3, AccountAssumption DEF IInv, Shape
<1>6. Attached' /\ OnlyCrossingsForget'
  BY <1>4, <1>5 DEF IInv, Attached, OnlyCrossingsForget
<1>7. ASSUME NEW x \in Tasks PROVE Sound(call[x])'
  <2>1. PICK k : k = call'[x]
    OBVIOUS
  <2>2. CASE x = t
    <3>1. k = c
      BY <2>1, <2>2 DEF IInv, Shape
    <3>2. Placed(k)' /\ Once(k)' /\ InTime(k)' /\ Addressed(k)' /\ Leaving(k)'
      BY <1>1, <1>2, <1>5, <3>1, AccountAssumption
         DEF Sound, Placed, Once, InTime, Addressed, Leaving, Calls
    <3> QED
      BY <2>1, <3>2 DEF Sound, Placed, Once, InTime, Leaving, Addressed
  <2>3. CASE x # t
    <3>1. k = call[x] /\ Sound(k) /\ k.sid \in 0..granted /\ k.grant \in 0..granted
      BY <2>1, <2>3, AccountAssumption DEF IInv, Shape, Sound, Placed, Calls
    <3>2. Placed(k)' /\ Once(k)' /\ InTime(k)'
      BY <1>5, <3>1 DEF Sound, Placed, Once, InTime
    <3>3. Addressed(k)' /\ Leaving(k)'
      BY <1>4, <1>5, <3>1 DEF Sound, Addressed, Leaving
    <3> QED
      BY <2>1, <3>2, <3>3 DEF Sound, Placed, Once, InTime, Leaving, Addressed
  <2> QED
    BY <2>2, <2>3
<1> QED
  BY <1>3, <1>6, <1>7 DEF IInv

LEMMA ServeStep ==
    ASSUME IInv, NEW t \in Tasks, Serve(t), UNCHANGED plan
    PROVE  IInv'
<1>1. /\ call[t].at = "sent"
      /\ UNCHANGED <<session, host, offset, built, bizOffset, adopted, strayed, crossed, plan>>
  BY DEF Serve
<1>2. CASE RefuseTime(t)
  BY <1>1, <1>2, RefuseTimeStep
<1>3. CASE RefuseSession(t)
  BY <1>1, <1>3, RefusalStep DEF RefuseSession
<1>4. CASE Lose(t)
  BY <1>1, <1>4, RefusalStep DEF Lose
<1>5. CASE CarryOut(t)
  <2>1. PICK c : c = Done(call[t])
    OBVIOUS
  <2>2. UNCHANGED skew
    BY <1>5 DEF CarryOut
  <2>3. CASE /\ call[t].step \notin {"password", "code", "logout"}
             /\ call' = [call EXCEPT ![t] = c]
             /\ UNCHANGED <<granted, home, alive>>
    BY <1>1, <2>1, <2>2, <2>3, CarryOutPlain DEF server
  <2>4. CASE /\ call[t].step = "logout"
             /\ call' = [call EXCEPT ![t] = c]
             /\ alive' = alive \ {call[t].sid}
             /\ UNCHANGED <<granted, home>>
    BY <1>1, <2>1, <2>2, <2>4, CarryOutLogout
  <2>5. CASE /\ call[t].step \in {"password", "code"}
             /\ granted < plan.logins
             /\ granted' = granted + 1
             /\ alive' = alive \cup {granted'}
             /\ \E r \in Domains[granted'] : home' = [home EXCEPT ![granted'] = r]
             /\ call' = [call EXCEPT ![t] = [c EXCEPT !.grant = granted']]
    <3>1. granted \in 0..MaxLogins /\ plan.logins \in 0..MaxLogins /\ MaxLogins \in Nat
      BY AccountAssumption DEF IInv, Shape
    <3>2. granted + 1 \in Sessions
      BY <2>5, <3>1
    <3>3. Domains[granted'] \subseteq Regions \cup {None}
      BY <2>5, <3>2, AccountAssumption
    <3>4. PICK r \in Regions \cup {None} : home' = [home EXCEPT ![granted'] = r]
      BY <2>5, <3>3
    <3>5. PICK d : d = [c EXCEPT !.grant = granted']
      OBVIOUS
    <3> QED
      BY <1>1, <2>1, <2>2, <2>5, <3>2, <3>4, <3>5, CarryOutLogin
  <2> QED
    BY <1>5, <2>1, <2>3, <2>4, <2>5 DEF CarryOut, Done
<1> QED
  BY <1>2, <1>3, <1>4, <1>5 DEF Serve

LEMMA LoseAnswerStep ==
    ASSUME IInv, NEW t \in Tasks, LoseAnswer(t), UNCHANGED plan
    PROVE  IInv'
<1>1. Sound(call[t]) /\ call[t].answer = "ok"
  BY DEF IInv, LoseAnswer
<1>2. call[t].at = "answered"
  BY <1>1, AccountAssumption DEF Sound, Placed
<1> QED
  BY <1>2, RefusalStep DEF LoseAnswer

\* The clocks drift: only a request that begins afterwards can count on them.
LEMMA DriftStep ==
    ASSUME IInv, Drift, UNCHANGED plan
    PROVE  IInv'
<1>1. /\ skew' \in Skews
      /\ UNCHANGED <<session, host, offset, built, bizOffset, granted, home, alive, adopted,
                     strayed, crossed>>
  BY DEF Drift, IInv, Shape
<1>2. ASSUME NEW x \in Tasks, NEW k, k = call'[x]
      PROVE  k \in Calls /\ Sound(k)'
  <2>1. call[x] \in Calls /\ Sound(call[x])
    BY DEF IInv, Shape
  <2>2. CASE call[x].step = "idle" /\ k = call[x]
    BY <1>1, <2>1, <2>2, AccountAssumption
       DEF Sound, Placed, Once, InTime, Leaving, Addressed
  <2>3. CASE k = [call[x] EXCEPT !.unsteady = TRUE]
    <3>1. /\ k \in Calls /\ k.step = call[x].step /\ k.at = call[x].at /\ k.sid = call[x].sid
          /\ k.host = call[x].host /\ k.answer = call[x].answer /\ k.grant = call[x].grant
          /\ k.effects = call[x].effects /\ k.unsteady /\ k.stray = call[x].stray
          /\ k.met = call[x].met
      BY <2>1, <2>3 DEF Calls
    <3>2. Placed(k)' /\ Once(k)' /\ InTime(k)'
      BY <1>1, <2>1, <3>1 DEF Sound, Placed, Once, InTime
    <3>3. Leaving(k)' /\ Addressed(k)'
      BY <1>1, <2>1, <3>1 DEF Sound, Leaving, Addressed
    <3> QED
      BY <3>1, <3>2, <3>3 DEF Sound
  <2> QED
    BY <1>2, <2>2, <2>3 DEF Drift
<1>3. call' \in [Tasks -> Calls]
  <2>1. \A x \in Tasks : call'[x] \in Calls
    BY <1>2
  <2>2. PICK f : f = call' /\ f = [x \in Tasks |-> f[x]]
    BY DEF Drift
  <2> QED
    BY <2>1, <2>2
<1>4. Shape'
  BY <1>1, <1>3 DEF IInv, Shape
<1>5. Attached' /\ OnlyCrossingsForget'
  BY <1>1 DEF IInv, Attached, OnlyCrossingsForget
<1>6. ASSUME NEW x \in Tasks PROVE Sound(call[x])'
  BY <1>2 DEF Sound, Placed, Once, InTime, Leaving, Addressed
<1> QED
  BY <1>4, <1>5, <1>6 DEF IInv

-----------------------------------------------------------------------------
(* Answers. *)

LEMMA RetryStep ==
    ASSUME IInv, NEW t \in Tasks, Retry(t), UNCHANGED plan
    PROVE  IInv'
<1>1. /\ call[t] \in Calls /\ Sound(call[t]) /\ host \in Regions
      /\ call[t].answer = "time" /\ call[t].step # "publish" /\ offset' = call[t].time
  BY DEF IInv, Shape, Retry
<1>2. call[t].time \in Skews /\ call[t].sid \in 0..granted
  BY <1>1, AccountAssumption DEF Calls, Sound, Placed, IInv, Shape
<1>3. ~call[t].unsteady => call[t].time = skew
  BY <1>1 DEF Sound, InTime
<1>4. PICK c : c = Request([call[t] EXCEPT !.retried = TRUE], call[t].sid, host, call[t].time)
  OBVIOUS
<1>5. c \in Calls /\ Sound(c)
  BY <1>1, <1>2, <1>3, <1>4, RetrySound
<1>6. /\ call' = [call EXCEPT ![t] = c]
      /\ UNCHANGED <<session, host, built, bizOffset, server, adopted, strayed, crossed>>
  BY <1>4 DEF Retry
<1> QED
  BY <1>1, <1>2, <1>5, <1>6, SoundStep

\* A worker at the clock marks the others there; then the clock may be set.
LEMMA MeetingStep ==
    ASSUME IInv, NEW t \in Tasks, NEW c \in Calls, Meeting(t, c), Sound(c)', bizOffset' \in Skews,
           UNCHANGED <<session, host, offset, built, server, adopted, strayed, crossed, plan>>
    PROVE  IInv'
<1>1. ASSUME NEW x \in Tasks, NEW k, k = call'[x]
      PROVE  k \in Calls /\ Sound(k)'
  <2>1. call[x] \in Calls /\ Sound(call[x])
    BY DEF IInv, Shape
  <2>2. CASE x = t
    BY <1>1, <2>2 DEF Meeting, Sound, Placed, Once, InTime, Leaving, Addressed
  <2>3. CASE x # t /\ call[x].at \in AtTheClock
    <3>1. k = [call[x] EXCEPT !.met = TRUE]
      BY <1>1, <2>3 DEF Meeting
    <3>2. /\ k \in Calls /\ k.step = call[x].step /\ k.at = call[x].at /\ k.sid = call[x].sid
          /\ k.host = call[x].host /\ k.answer = call[x].answer /\ k.grant = call[x].grant
          /\ k.effects = call[x].effects /\ k.unsteady = call[x].unsteady /\ k.met
          /\ k.stray = call[x].stray /\ k.time = call[x].time /\ k.retried = call[x].retried
      BY <2>1, <3>1 DEF Calls
    <3>3. Placed(k)' /\ Once(k)'
      BY <2>1, <3>2 DEF Sound, Placed, Once, server
    <3>4. InTime(k)'
      BY <2>1, <2>3, <3>2, AccountAssumption DEF Sound, Placed, InTime, server
    <3>5. Leaving(k)' /\ Addressed(k)'
      BY <2>1, <3>2 DEF Sound, Leaving, Addressed, server
    <3> QED
      BY <3>2, <3>3, <3>4, <3>5 DEF Sound
  <2>4. CASE x # t /\ call[x].at \notin AtTheClock
    <3>1. k = call[x]
      BY <1>1, <2>4 DEF Meeting
    <3> QED
      BY <2>1, <2>4, <3>1 DEF Sound, Placed, Once, InTime, Leaving, Addressed, server
  <2> QED
    BY <2>2, <2>3, <2>4
<1>2. call' \in [Tasks -> Calls]
  <2>1. \A x \in Tasks : call'[x] \in Calls
    BY <1>1
  <2>2. PICK f : f = call' /\ f = [x \in Tasks |-> f[x]]
    BY DEF Meeting
  <2> QED
    BY <2>1, <2>2
<1>3. Shape'
  BY <1>2 DEF IInv, Shape, server
<1>4. Attached' /\ OnlyCrossingsForget'
  BY DEF IInv, Attached, OnlyCrossingsForget, server
<1>5. ASSUME NEW x \in Tasks PROVE Sound(call[x])'
  BY <1>1 DEF Sound, Placed, Once, InTime, Leaving, Addressed
<1> QED
  BY <1>3, <1>4, <1>5 DEF IInv

\* A request that was refused, or is at the clock, was not carried out.
LEMMA NotCarriedOut ==
    ASSUME IInv, NEW t \in Tasks,
           call[t].answer \in {"time", "timeless"} \/ call[t].at \in AtTheClock
    PROVE  /\ call[t] \in Calls /\ Sound(call[t]) /\ call[t].effects = 0
           /\ call[t].sid <= granted /\ call[t].grant <= granted
           /\ call[t].step = "publish" => call[t].at # None
  BY AccountAssumption DEF IInv, Shape, Sound, Placed, Once

\* While a publish is under way there is a Business.
LEMMA SyncBusinessStep ==
    ASSUME IInv, NEW t \in Tasks, SyncBusiness(t), UNCHANGED plan
    PROVE  IInv'
<1>1. /\ call[t] \in Calls /\ Sound(call[t]) /\ call[t].effects = 0
      /\ call[t].answer = "time" /\ call[t].step = "publish"
      /\ UNCHANGED <<session, host, offset, built, bizOffset, server, adopted, strayed, crossed>>
  BY NotCarriedOut DEF SyncBusiness
<1>2. OthersSetting(t) \in BOOLEAN
  BY DEF OthersSetting
<1>3. PICK b \in BOOLEAN : b = OthersSetting(t)
  BY <1>2
<1>4. PICK c : c = [call[t] EXCEPT !.at = "setting", !.retried = TRUE, !.answer = None, !.met = b]
  OBVIOUS
<1>5. Meeting(t, c)
  BY <1>3, <1>4 DEF SyncBusiness
<1>6. /\ c \in Calls /\ c.step = "publish" /\ c.at = "setting" /\ c.sid = call[t].sid
      /\ c.answer = None /\ c.grant = call[t].grant /\ c.effects = 0
      /\ c.unsteady = call[t].unsteady /\ c.time = call[t].time
  <2>1. PICK d \in Calls : d = call[t]
    BY <1>1
  <2>2. c = [d EXCEPT !.at = "setting", !.retried = TRUE, !.answer = None, !.met = b]
    BY <1>4, <2>1
  <2>3. c \in Calls
    BY <2>2 DEF Calls
  <2>4. /\ c.step = d.step /\ c.at = "setting" /\ c.sid = d.sid /\ c.answer = None
        /\ c.grant = d.grant /\ c.effects = d.effects /\ c.unsteady = d.unsteady
        /\ c.time = d.time
    BY <2>2 DEF Calls
  <2> QED
    BY <1>1, <2>1, <2>3, <2>4
<1>7. Sound(c)'
  <2>1. Placed(c)' /\ Once(c)'
    BY <1>1, <1>6, AccountAssumption DEF Sound, Placed, Once, server
  <2>2. InTime(c)'
    BY <1>1, <1>6, AccountAssumption DEF Sound, InTime, server
  <2>3. Leaving(c)' /\ Addressed(c)'
    BY <1>6 DEF Leaving, Addressed
  <2> QED
    BY <2>1, <2>2, <2>3 DEF Sound
<1>8. bizOffset' \in Skews
  BY <1>1 DEF IInv, Shape
<1> QED
  BY <1>1, <1>5, <1>6, <1>7, <1>8, MeetingStep

LEMMA SetClockStep ==
    ASSUME IInv, NEW t \in Tasks, SetClock(t), UNCHANGED plan
    PROVE  IInv'
<1>1. /\ call[t] \in Calls /\ Sound(call[t]) /\ call[t].effects = 0 /\ call[t].at = "setting"
      /\ bizOffset' = call[t].time
      /\ UNCHANGED <<session, host, offset, built, server, adopted, strayed, crossed>>
  BY NotCarriedOut DEF SetClock
<1>2. PICK c : c = [call[t] EXCEPT !.at = "stamping", !.time = 0]
  OBVIOUS
<1>3. Meeting(t, c)
  BY <1>2 DEF SetClock
<1>4. /\ c \in Calls /\ c.step = call[t].step /\ c.at = "stamping" /\ c.sid = call[t].sid
      /\ c.answer = call[t].answer /\ c.grant = call[t].grant /\ c.effects = 0
      /\ c.unsteady = call[t].unsteady /\ c.met = call[t].met
  <2>1. PICK d \in Calls : d = call[t]
    BY <1>1
  <2>2. c = [d EXCEPT !.at = "stamping", !.time = 0]
    BY <1>2, <2>1
  <2>3. c \in Calls
    BY <2>2 DEF Calls
  <2>4. /\ c.step = d.step /\ c.at = "stamping" /\ c.sid = d.sid /\ c.answer = d.answer
        /\ c.grant = d.grant /\ c.effects = d.effects /\ c.unsteady = d.unsteady
        /\ c.met = d.met
    BY <2>2 DEF Calls
  <2> QED
    BY <1>1, <2>1, <2>3, <2>4
<1>5. Sound(c)'
  <2>1. Placed(c)' /\ Once(c)'
    BY <1>1, <1>4, AccountAssumption DEF Sound, Placed, Once, server
  <2>2. InTime(c)'
    BY <1>1, <1>4, AccountAssumption DEF Sound, Placed, InTime, server
  <2>3. Leaving(c)' /\ Addressed(c)'
    BY <1>1, <1>4, AccountAssumption DEF Sound, Placed, Leaving, Addressed
  <2> QED
    BY <2>1, <2>2, <2>3 DEF Sound
<1>6. bizOffset' \in Skews
  BY <1>1 DEF Calls
<1> QED
  BY <1>1, <1>3, <1>4, <1>5, <1>6, MeetingStep

LEMMA RetryTimelessStep ==
    ASSUME IInv, NEW t \in Tasks, RetryTimeless(t), UNCHANGED plan
    PROVE  IInv'
<1>1. /\ call[t] \in Calls /\ Sound(call[t]) /\ call[t].effects = 0
      /\ call[t].sid <= granted /\ call[t].grant <= granted
      /\ call[t].answer = "timeless" /\ call[t].step = "publish"
      /\ UNCHANGED <<session, host, offset, built, bizOffset, server, adopted, strayed, crossed>>
  BY NotCarriedOut DEF RetryTimeless
<1>2. PICK i : i = [call[t] EXCEPT !.retried = TRUE]
  OBVIOUS
<1>3. /\ i \in Calls /\ i.step = "publish" /\ i.effects = 0 /\ i.sid = call[t].sid
      /\ i.grant = call[t].grant /\ i.unsteady = call[t].unsteady
  <2>1. PICK d \in Calls : d = call[t]
    BY <1>1
  <2>2. i = [d EXCEPT !.retried = TRUE]
    BY <1>2, <2>1
  <2>3. i \in Calls /\ i.step = d.step /\ i.effects = d.effects /\ i.sid = d.sid
        /\ i.grant = d.grant /\ i.unsteady = d.unsteady
    BY <2>2 DEF Calls
  <2> QED
    BY <1>1, <2>1, <2>3
<1>4. i.unsteady /\ built # 0
  BY <1>1, <1>3, AccountAssumption DEF Sound, InTime, Placed
<1>5. PICK c : c = BusinessRequest(i, t)
  OBVIOUS
<1>6. c \in Calls /\ Sound(c)
  BY <1>1, <1>3, <1>4, <1>5, BusinessSound
<1>7. call' = [call EXCEPT ![t] = c] /\ offset' \in Skews
  BY <1>1, <1>2, <1>5 DEF RetryTimeless, IInv, Shape
<1> QED
  BY <1>1, <1>6, <1>7, SoundStep

LEMMA StampBusinessStep ==
    ASSUME IInv, NEW t \in Tasks, StampBusiness(t), UNCHANGED plan
    PROVE  IInv'
<1>1. /\ call[t] \in Calls /\ Sound(call[t]) /\ call[t].effects = 0 /\ call[t].at = "stamping"
      /\ call[t].step = "publish" /\ call[t].sid <= granted /\ call[t].grant <= granted
      /\ built # 0
      /\ UNCHANGED <<session, host, offset, built, server, adopted, strayed, crossed>>
  BY NotCarriedOut, AccountAssumption DEF StampBusiness, Sound, Placed
<1>2. /\ built \in 0..MaxLogins /\ built <= granted /\ ProfileHost \in Regions
      /\ bizOffset \in Skews /\ offset \in Skews
  BY AccountAssumption DEF IInv, Shape
<1>3. ASSUME NEW now \in Skews \cup {Torn}, NEW c, c = Request(call[t], built, ProfileHost, now),
             call[t].met \/ now = bizOffset
      PROVE  c \in Calls /\ Sound(c)
  <2>1. /\ c \in Calls /\ c.step = "publish" /\ c.at = "sent" /\ c.sid = built
        /\ c.answer = None /\ c.grant = call[t].grant /\ c.effects = 0 /\ c.stamp = now
        /\ c.unsteady = call[t].unsteady /\ c.met = call[t].met /\ c.retried = call[t].retried
    BY <1>1, <1>2, <1>3, RequestCall
  <2>2. Placed(c) /\ Once(c)
    BY <1>1, <1>2, <2>1, AccountAssumption DEF Placed, Once
  <2>3. InTime(c)
    BY <1>1, <1>3, <2>1, AccountAssumption DEF Sound, InTime
  <2>4. Leaving(c) /\ Addressed(c)
    BY <2>1 DEF Leaving, Addressed
  <2> QED
    BY <2>1, <2>2, <2>3, <2>4 DEF Sound
<1>4. ASSUME NEW now \in {bizOffset} \cup (IF call[t].met THEN {Torn} ELSE {}),
             call' = [call EXCEPT ![t] = Request(call[t], built, ProfileHost, now)],
             UNCHANGED bizOffset
      PROVE  IInv'
  <2>1. PICK c : c = Request(call[t], built, ProfileHost, now)
    OBVIOUS
  <2>2. now \in Skews \cup {Torn} /\ (call[t].met \/ now = bizOffset)
    BY <1>2
  <2>3. c \in Calls /\ Sound(c)
    BY <1>3, <2>1, <2>2
  <2> QED
    BY <1>1, <1>2, <1>4, <2>1, <2>3, SoundStep
<1>5. CASE /\ call[t].met
           /\ bizOffset' = 0
           /\ Meeting(t, Request(call[t], built, ProfileHost, 0))
  <2>1. PICK c : c = Request(call[t], built, ProfileHost, 0)
    OBVIOUS
  <2>2. c \in Calls /\ Sound(c) /\ c.at = "sent"
    <3>1. 0 \in Skews \cup {Torn}
      OBVIOUS
    <3>2. c \in Calls /\ Sound(c)
      BY <1>3, <1>5, <2>1, <3>1
    <3>3. c.at = "sent"
      BY <1>1, <1>2, <2>1, RequestCall
    <3> QED
      BY <3>2, <3>3
  <2>3. Sound(c)'
    BY <1>1, <2>2 DEF Sound, Placed, Once, InTime, Leaving, Addressed, server
  <2>4. bizOffset' \in Skews
    BY <1>5
  <2> QED
    BY <1>1, <1>5, <2>1, <2>2, <2>3, <2>4, MeetingStep
<1> QED
  BY <1>4, <1>5 DEF StampBusiness

LEMMA BusinessStep ==
    ASSUME IInv, NEW t \in Tasks, Business(t), UNCHANGED plan
    PROVE  IInv'
  BY SyncBusinessStep, SetClockStep, RetryTimelessStep, StampBusinessStep DEF Business

LEMMA ProceedStep ==
    ASSUME IInv, NEW t \in Tasks, NEW from, NEW step \in {"password", "register", "keys"},
           Proceed(t, from, step), UNCHANGED plan
    PROVE  IInv'
<1>1. /\ host \in Regions /\ step \in Steps \ {"idle", "publish"}
      /\ UNCHANGED <<session, host, offset, built, bizOffset, server, adopted, strayed, crossed>>
      /\ strayed' = (strayed \/ host # host)
  BY DEF IInv, Shape, Proceed
<1>2. CASE Refused(step)
  BY <1>1, <1>2, IdleStep DEF Proceed
<1>3. CASE ~Refused(step)
  <2>1. step \in SessionSteps => session # 0
    BY <1>3 DEF Refused
  <2>2. call' = [call EXCEPT ![t] = Fresh(None, step, Captured(step), host, offset)]
    BY <1>3 DEF Proceed
  <2> QED
    BY <1>1, <2>1, <2>2, FreshStep
<1> QED
  BY <1>2, <1>3

\* A session is adopted: a logout that is under way is one that it crosses.
LEMMA AdoptStep ==
    ASSUME IInv, NEW s \in 1..granted, Adopt(s),
           \/ call' = call
           \/ \E t \in Tasks : call' = [call EXCEPT ![t] = Idle],
           UNCHANGED <<offset, built, bizOffset, server, plan>>
    PROVE  IInv'
<1>1. /\ session' = s /\ adopted' = s /\ s # 0 /\ s \in Sessions
      /\ host' = IF home[s] = None THEN host ELSE home[s]
      /\ strayed' = (home[s] = None /\ strayed)
      /\ crossed' = LogoutUnderWay(Tasks)
  BY AccountAssumption DEF Adopt, IInv, Shape
<1>2. host' \in Regions /\ strayed' \in BOOLEAN
  BY <1>1 DEF IInv, Shape
<1>3. crossed' \in BOOLEAN
  BY <1>1 DEF LogoutUnderWay
<1>4. call' \in [Tasks -> Calls]
  BY IdleCall DEF IInv, Shape
<1>5. Shape'
  BY <1>1, <1>2, <1>3, <1>4 DEF IInv, Shape, server
<1>6. Attached' /\ OnlyCrossingsForget'
  BY <1>1 DEF IInv, Attached, OnlyCrossingsForget, server
<1>7. ASSUME NEW x \in Tasks PROVE Sound(call[x])'
  <2>1. PICK k : k = call'[x] /\ Sound(k) /\ (k.step = "logout" => crossed')
    <3>1. Sound(call[x]) /\ Sound(Idle) /\ Idle.step # "logout"
      BY IdleSound, IdleCall DEF IInv
    <3>2. call'[x] = call[x] \/ call'[x] = Idle
      BY DEF IInv, Shape
    <3>3. call[x].step = "logout" => crossed'
      BY <1>1 DEF LogoutUnderWay
    <3> QED
      BY <3>1, <3>2, <3>3
  <2>2. Placed(k)' /\ Once(k)' /\ InTime(k)' /\ Leaving(k)' /\ Addressed(k)'
    BY <2>1 DEF Sound, Placed, Once, InTime, Leaving, Addressed, server
  <2> QED
    BY <2>1, <2>2 DEF Sound, Placed, Once, InTime, Leaving, Addressed
<1> QED
  BY <1>5, <1>6, <1>7 DEF IInv

LEMMA LoggedInStep ==
    ASSUME IInv, NEW t \in Tasks, LoggedIn(t), UNCHANGED plan
    PROVE  IInv'
<1>1. call[t] \in Calls /\ Sound(call[t]) /\ granted \in Nat
  BY AccountAssumption DEF IInv, Shape
<1>2. call[t].grant \in 1..granted
  BY <1>1, AccountAssumption DEF Sound, Placed, LoggedIn, Calls
<1> QED
  BY <1>2, AdoptStep DEF LoggedIn

\* A logout forgets the adopted session, which the server does not honour any more, unless
\* another one was adopted meanwhile.
LEMMA LoggedOutStep ==
    ASSUME IInv, NEW t \in Tasks, LoggedOut(t), UNCHANGED plan
    PROVE  IInv'
<1>1. /\ session' = 0 /\ call' = [call EXCEPT ![t] = Idle]
      /\ UNCHANGED <<host, offset, built, bizOffset, server, adopted, strayed, crossed>>
  BY DEF LoggedOut
<1>2. Shape'
  BY <1>1, IdleCall DEF IInv, Shape, server
<1>3. Attached'
  BY <1>1 DEF Attached
<1>4. OnlyCrossingsForget'
  <2>1. /\ call[t].sid = adopted \/ crossed
        /\ call[t].sid \notin alive
    BY DEF IInv, Sound, Leaving, LoggedOut
  <2> QED
    BY <1>1, <2>1 DEF OnlyCrossingsForget, server
<1>5. ASSUME NEW x \in Tasks PROVE Sound(call[x])'
  <2>1. PICK k : k = call'[x] /\ Sound(k)
    BY <1>1, IdleSound DEF IInv, Shape
  <2>2. Placed(k)' /\ Once(k)' /\ InTime(k)' /\ Leaving(k)' /\ Addressed(k)'
    BY <1>1, <2>1 DEF Sound, Placed, Once, InTime, Leaving, Addressed, server
  <2> QED
    BY <2>1, <2>2 DEF Sound, Placed, Once, InTime, Leaving, Addressed
<1> QED
  BY <1>2, <1>3, <1>4, <1>5 DEF IInv

LEMMA HandleStep ==
    ASSUME IInv, NEW t \in Tasks, Handle(t), UNCHANGED plan
    PROVE  IInv'
<1>1. CASE Retry(t) \/ Business(t)
  BY <1>1, RetryStep, BusinessStep
<1>2. CASE Fail(t) \/ Finish(t)
  BY <1>2, IdleStep DEF Fail, Finish
<1>3. CASE Login(t) \/ RegisterEmail(t) \/ LocalKeys(t)
  BY <1>3, ProceedStep DEF Login, RegisterEmail, LocalKeys
<1>4. CASE LoggedIn(t) \/ LoggedOut(t)
  BY <1>4, LoggedInStep, LoggedOutStep
<1> QED
  BY <1>1, <1>2, <1>3, <1>4 DEF Handle

-----------------------------------------------------------------------------
(* The invariant, and what follows from it. *)

\* Nobody is at the clock of a Business that is only being built.
LEMMA BuildStep ==
    ASSUME IInv, Build, UNCHANGED plan
    PROVE  IInv'
<1>1. /\ built = 0 /\ built' = session /\ session # 0 /\ bizOffset' = 0
      /\ UNCHANGED <<session, host, offset, server, call, adopted, strayed, crossed>>
  BY DEF Build
<1>2. Shape'
  BY <1>1 DEF IInv, Shape, server
<1>3. Attached' /\ OnlyCrossingsForget'
  BY <1>1 DEF IInv, Attached, OnlyCrossingsForget, server
<1>4. ASSUME NEW x \in Tasks PROVE Sound(call[x])'
  <2>1. PICK k : k = call[x] /\ Sound(k)
    BY DEF IInv
  <2>2. k.step # "publish" /\ k.at \notin AtTheClock
    BY <1>1, <2>1 DEF Sound, Placed
  <2>3. Placed(k)' /\ Once(k)' /\ Leaving(k)' /\ Addressed(k)'
    BY <1>1, <2>1, <2>2 DEF Sound, Placed, Once, Leaving, Addressed, server
  <2>4. InTime(k)'
    BY <1>1, <2>1, <2>2 DEF Sound, InTime, server
  <2> QED
    BY <1>1, <2>1, <2>3, <2>4 DEF Sound, Placed, Once, InTime, Leaving, Addressed
<1> QED
  BY <1>2, <1>3, <1>4 DEF IInv

LEMMA InitIInv == Init => IInv
<1> SUFFICES ASSUME Init PROVE IInv
  OBVIOUS
<1>1. Shape
  <2>1. call \in [Tasks -> Calls]
    BY IdleCall DEF Init
  <2>2. home \in [Sessions -> Regions \cup {None}]
    BY DEF Init
  <2>3. strayed \in BOOLEAN /\ crossed \in BOOLEAN /\ plan \in Plans /\ alive \subseteq 1..granted
    BY DEF Init
  <2> QED
    BY <2>1, <2>2, <2>3, AccountAssumption DEF Init, Shape
<1>2. Attached /\ OnlyCrossingsForget
  BY DEF Init, Attached, OnlyCrossingsForget
<1>3. \A t \in Tasks : Sound(call[t])
  BY <1>1, IdleSound DEF Init
<1> QED
  BY <1>1, <1>2, <1>3 DEF IInv

LEMMA NextIInv == IInv /\ [Next]_vars => IInv'
<1> SUFFICES ASSUME IInv, [Next]_vars PROVE IInv'
  OBVIOUS
<1>1. ASSUME NEW t \in Tasks, Call(t) \/ Serve(t) \/ LoseAnswer(t) \/ Handle(t), UNCHANGED plan
      PROVE  IInv'
  BY <1>1, CallStep, ServeStep, LoseAnswerStep, HandleStep
<1>2. CASE RestoreSession /\ UNCHANGED plan
  BY <1>2, AdoptStep DEF RestoreSession
<1>3. CASE (Build \/ Drift) /\ UNCHANGED plan
  BY <1>3, BuildStep, DriftStep
<1>4. CASE UNCHANGED vars
  BY <1>4 DEF vars, IInv, Shape, Attached, OnlyCrossingsForget, Sound, Placed, Once, InTime,
              Leaving, Addressed
<1> QED
  BY <1>1, <1>2, <1>3, <1>4 DEF Next

\* The inductive invariant: every request under way agrees with the sessions, the hosts and
\* the clocks it was built from, as long as nothing has marked it.
THEOREM AccountInvariant == Spec => []IInv
  BY InitIInv, NextIInv, PTL DEF Spec

\* Type correctness of the account API, its Business and the server.
THEOREM AccountTypes == Spec => []TypeOK
<1>1. IInv => TypeOK
  <2> SUFFICES ASSUME IInv PROVE TypeOK
    OBVIOUS
  <2>1. ASSUME NEW t \in Tasks
        PROVE  /\ call[t].step \in Steps /\ call[t].at \in Places \cup {None}
               /\ call[t].at = None <=> call[t].step = "idle"
               /\ call[t].answer \in Answers \cup {None}
               /\ call[t].answer = None <=> call[t].at # "answered"
               /\ call[t].sid \in 0..granted /\ call[t].stamp \in Skews \cup {Torn}
               /\ call[t].at \in AtTheClock => call[t].step = "publish"
    <3>1. call[t] \in Calls /\ Sound(call[t]) /\ granted \in Nat
      BY AccountAssumption DEF IInv, Shape
    <3> QED
      BY <3>1, AccountAssumption DEF Calls, Sound, Placed
  <2>2. /\ session \in 0..MaxLogins /\ built \in 0..MaxLogins
        /\ granted \in 0..MaxLogins /\ adopted \in 0..MaxLogins
    BY AccountAssumption DEF IInv, Shape
  <2> QED
    BY <2>1, <2>2 DEF TypeOK, IInv, Shape
<1> QED
  BY <1>1, AccountInvariant, PTL

\* AtMostOnce for any number of tasks: request() (mobile.py) and Business.request (atop.py)
\* never send again what the server has carried out.
THEOREM RetriesNeverRepeat == Spec => []AtMostOnce
<1>1. IInv => AtMostOnce
  BY DEF IInv, Shape, Calls, AtMostOnce
<1> QED
  BY <1>1, AccountInvariant, PTL

\* OnlyCrossingsForget for any number of tasks and sessions: logout() (mobile.py) drops a
\* session that is honoured only if it was adopted while a logout was under way.
THEOREM ForgottenSessionsAreGone == Spec => []OnlyCrossingsForget
<1>1. IInv => OnlyCrossingsForget
  BY DEF IInv
<1> QED
  BY <1>1, AccountInvariant, PTL

\* The request of a task changes by a step of the task, of the server or of the clocks, or by
\* another worker at the clock of the Business, which only marks it.
Marked(t) == /\ call[t].at \in AtTheClock
             /\ call'[t] = [call[t] EXCEPT !.met = TRUE]

LEMMA WhoChangesACall ==
    ASSUME IInv, Next, NEW t \in Tasks
    PROVE  \/ call'[t] = call[t]
           \/ Call(t) \/ Serve(t) \/ LoseAnswer(t) \/ Handle(t)
           \/ Drift \/ Marked(t)
<1>1. ASSUME NEW x \in Tasks, Call(x) \/ Serve(x) \/ LoseAnswer(x) \/ Handle(x), x # t
      PROVE  call'[t] = call[t] \/ Marked(t)
  <2>1. (\E c : call' = [call EXCEPT ![x] = c]) \/ (\E c : Meeting(x, c))
    <3>1. CASE Call(x)
      BY <3>1 DEF Call, SendEmailCode, UpdateAccount, ReadDevice, FetchHome,
                  BootstrapLocalConfig, LoginWithEmailCode, Logout, Begin, LoginToken, Publish
    <3>2. CASE Serve(x)
      BY <3>2 DEF Serve, RefuseTime, RefuseSession, CarryOut, Lose, Answer
    <3>3. CASE LoseAnswer(x)
      BY <3>3 DEF LoseAnswer, Answer
    <3>4. CASE Handle(x) /\ ~Business(x)
      BY <3>4 DEF Handle, Retry, Fail, Login, RegisterEmail, LocalKeys, Proceed,
                  Finish, LoggedIn, LoggedOut
    <3>5. CASE Business(x)
      BY <3>5 DEF Business, SyncBusiness, SetClock, RetryTimeless, StampBusiness
    <3> QED
      BY <1>1, <3>1, <3>2, <3>3, <3>4, <3>5
  <2>2. ASSUME NEW c, Meeting(x, c) PROVE call'[t] = call[t] \/ Marked(t)
    BY <1>1, <2>2 DEF Meeting, Marked
  <2> QED
    BY <1>1, <2>1, <2>2 DEF IInv, Shape
<1>2. CASE Build \/ RestoreSession
  BY <1>2 DEF Build, RestoreSession
<1> QED
  BY <1>1, <1>2 DEF Next

\* SteadyClockSuffices for any number of tasks: the retry of request() and of
\* Business.request is enough, whatever the others make of the offset they share, except for
\* a request of the Business that met another worker at its clock.
THEOREM OneRetrySuffices == Spec => SteadyClockSuffices
<1>1. ASSUME IInv, Next, NEW t \in Tasks, call[t].answer \in {"time", "timeless"},
             call'[t].step = "idle"
      PROVE  call[t].unsteady \/ (call[t].step = "publish" /\ call[t].met)
  <2>1. call[t] \in Calls /\ Sound(call[t]) /\ call \in [Tasks -> Calls]
    BY <1>1 DEF IInv, Shape
  <2>2. call[t].at = "answered" /\ call[t].step # "idle"
    BY <1>1, <2>1, AccountAssumption DEF Sound, Placed, Calls
  <2>3. CASE Drift
    <3>1. call'[t] = [call[t] EXCEPT !.unsteady = TRUE]
      BY <2>2, <2>3 DEF Drift
    <3> QED
      BY <1>1, <2>1, <2>2, <3>1 DEF Calls
  <2>4. CASE Call(t) \/ Serve(t) \/ LoseAnswer(t) \/ Marked(t)
    BY <1>1, <2>2, <2>4 DEF Call, Serve, LoseAnswer, Marked
  <2>5. CASE Retry(t)
    <3>1. PICK sid, h, off :
             call' = [call EXCEPT ![t] = Request([call[t] EXCEPT !.retried = TRUE], sid, h, off)]
      BY <2>5 DEF Retry
    <3>2. call'[t].step = call[t].step
      BY <2>1, <3>1 DEF Request, Calls
    <3> QED
      BY <1>1, <2>2, <3>2
  <2>6. CASE Business(t)
    <3>1. ~SetClock(t) /\ ~StampBusiness(t)
      BY <2>2 DEF SetClock, StampBusiness
    <3>2. CASE SyncBusiness(t)
      <4>1. PICK b : call'[t] = [call[t] EXCEPT !.at = "setting", !.retried = TRUE,
                                                !.answer = None, !.met = b]
        BY <3>2 DEF SyncBusiness, Meeting
      <4> QED
        BY <1>1, <2>1, <2>2, <4>1 DEF Calls
    <3>3. CASE RetryTimeless(t)
      <4>1. PICK i : i = [call[t] EXCEPT !.retried = TRUE]
        OBVIOUS
      <4>2. i \in Calls /\ i.step = call[t].step
        BY <2>1, <4>1 DEF Calls
      <4>3. PICK b : call'[t] = [i EXCEPT !.at = "stamping", !.answer = None, !.time = 0, !.met = b]
        BY <2>1, <3>3, <4>1 DEF RetryTimeless, BusinessRequest
      <4> QED
        BY <1>1, <2>2, <4>2, <4>3 DEF Calls
    <3> QED
      BY <2>6, <3>1, <3>2, <3>3 DEF Business
  <2>7. CASE Fail(t)
    BY <1>1, <2>1, <2>7 DEF Fail, GivesUp, Sound, InTime
  <2>8. CASE Handle(t) /\ ~Fail(t) /\ ~Retry(t) /\ ~Business(t)
    BY <1>1, <2>8 DEF Handle, Login, RegisterEmail, LocalKeys, Proceed, Finish, LoggedIn, LoggedOut
  <2> QED
    BY <1>1, <2>2, <2>3, <2>4, <2>5, <2>6, <2>7, <2>8, WhoChangesACall
<1>2. IInv /\ [Next]_vars =>
        [\A t \in Tasks :
           (call[t].answer \in {"time", "timeless"} /\ call'[t].step = "idle")
           => call[t].unsteady \/ (call[t].step = "publish" /\ call[t].met)]_vars
  BY <1>1
<1> QED
  BY <1>2, AccountInvariant, PTL DEF Spec, SteadyClockSuffices

\* LiveSessionRefused for any number of tasks, sessions and regions: on_session_invalid is
\* told of a session that lives only after a login moved the host or took its place.
THEOREM RefusalsHaveAReason == Spec => LiveSessionRefused
<1>1. ASSUME IInv, Next, NEW t \in Tasks, call[t].at = "sent", call[t].step \in SessionSteps,
             call'[t].answer = "session", call[t].sid \in alive
      PROVE  call[t].stray
  <2>1. /\ call[t] \in Calls /\ Sound(call[t]) /\ call \in [Tasks -> Calls]
        /\ call[t].sid # 0 /\ skew \in Skews
    BY <1>1 DEF IInv, Shape
  <2>2. call[t].answer = None /\ call[t].step # "idle"
    BY <1>1, <2>1, AccountAssumption DEF Sound, Placed, Calls
  <2>3. CASE RefuseSession(t)
    <3>1. home[call[t].sid] \notin {None, call[t].host}
      BY <1>1, <2>1, <2>3 DEF RefuseSession, Honoured
    <3> QED
      BY <1>1, <2>1, <3>1 DEF Sound, Addressed
  <2>4. CASE Serve(t) /\ ~RefuseSession(t)
    <3>1. ASSUME NEW a \in Answers \ {"session"}, NEW k, k = Answered(call[t], a)
          PROVE  k \in Calls /\ k.answer # "session"
      BY <2>1, <3>1, AnsweredCall
    <3>2. CASE RefuseTime(t)
      <4>1. PICK k, m : k = Answered(call[t], "time") /\ m = Answered(call[t], "timeless")
        OBVIOUS
      <4>2. /\ k \in Calls /\ k.answer # "session"
            /\ m \in Calls /\ m.answer # "session"
        BY <3>1, <4>1
      <4>3. call'[t] = [k EXCEPT !.time = skew] \/ call'[t] = [m EXCEPT !.unsteady = TRUE]
        BY <2>1, <3>2, <4>1 DEF RefuseTime
      <4> QED
        BY <1>1, <4>2, <4>3 DEF Calls
    <3>3. CASE Lose(t)
      <4>1. PICK k : k = Answered(call[t], "error")
        OBVIOUS
      <4>2. k.answer # "session"
        BY <3>1, <4>1
      <4>3. call'[t] = k
        BY <2>1, <3>3, <4>1 DEF Lose, Answer
      <4> QED
        BY <1>1, <4>2, <4>3
    <3>4. CASE CarryOut(t)
      <4>1. PICK k, n : k = Done(call[t]) /\ n = granted'
        OBVIOUS
      <4>2. k \in Calls /\ k.answer = "ok"
        BY <1>1, <4>1, CarriedOut
      <4>3. call'[t] = k \/ call'[t] = [k EXCEPT !.grant = n]
        BY <2>1, <3>4, <4>1 DEF CarryOut, Done
      <4> QED
        BY <1>1, <4>2, <4>3 DEF Calls
    <3> QED
      BY <2>4, <3>2, <3>3, <3>4 DEF Serve
  <2>5. CASE Drift
    <3>1. call'[t] = [call[t] EXCEPT !.unsteady = TRUE]
      BY <2>2, <2>5 DEF Drift
    <3> QED
      BY <1>1, <2>1, <2>2, <3>1, AccountAssumption DEF Calls
  <2>6. CASE Call(t) \/ LoseAnswer(t) \/ Handle(t) \/ Marked(t)
    <3>1. ~Call(t) /\ ~LoseAnswer(t) /\ ~Marked(t)
      BY <1>1, <2>2, AccountAssumption DEF Call, LoseAnswer, Marked
    <3>2. ~Handle(t)
      BY <1>1, <2>2, AccountAssumption DEF Handle, Retry, Business, SyncBusiness, SetClock,
         RetryTimeless, StampBusiness, Fail, GivesUp, Login,
         RegisterEmail, LocalKeys, Proceed, Finish, LoggedIn, LoggedOut
    <3> QED
      BY <2>6, <3>1, <3>2
  <2> QED
    BY <1>1, <2>2, <2>3, <2>4, <2>5, <2>6, WhoChangesACall, AccountAssumption
<1>2. IInv /\ [Next]_vars =>
        [\A t \in Tasks :
           (/\ call[t].at = "sent" /\ call[t].step \in SessionSteps
            /\ call'[t].answer = "session" /\ call[t].sid \in alive)
           => call[t].stray]_vars
  BY <1>1
<1> QED
  BY <1>2, AccountInvariant, PTL DEF Spec, LiveSessionRefused
=============================================================================
