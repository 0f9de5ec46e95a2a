------------------------------ MODULE Account ------------------------------
(***************************************************************************)
(* The account API (mobile.py: ThingMobileApi, PopurAccount) and the       *)
(* Business of the command path (sdk/atop.py, built by cloud.py).          *)
(*                                                                         *)
(* One ThingMobileApi is shared by every asyncio task of the program: its  *)
(* session, its host and its clock offset are plain attributes that a      *)
(* request reads before it awaits the HTTP exchange and that another task  *)
(* may have changed when the answer is handled.  A Business keeps a host,  *)
(* a session and a clock of its own, taken once when it is built; its      *)
(* requests run on worker threads (asyncio.to_thread), which share the two *)
(* numbers of that clock (timestamp.py) without a lock.                    *)
(*                                                                         *)
(* A request is one step up to the await (Call, or the continuation of an  *)
(* earlier answer), one step of the server, and one step when its answer   *)
(* is handled; setting the clock of a Business and stamping a request of   *)
(* it are steps of their own.  Payloads, signatures and encryption are     *)
(* left out: what an answer depends on is the session, the host and the    *)
(* time stamp that the request carries.                                    *)
(***************************************************************************)
EXTENDS Naturals, FiniteSets

CONSTANTS Tasks,      \* concurrent callers of the API
          Plans,      \* the operations each task may call and the sessions the
                      \* server grants: one of them is picked
          Regions,    \* the service hosts of POPUR_APP2_REGION_HOSTS
          UsHost,     \* the host the e-mail login goes to
          ProfileHost,\* MobileAppProfile.api_host
          MaxLogins,  \* sessions the server grants (bound)
          Domains,    \* the domain.mobileApiUrl each of them may name, or None
          None

Answers == {"ok", "error", "time", "timeless", "session"}

\* Where a request is that is under way; "setting" and "stamping" are the places of a
\* worker that uses the clock of the Business.
Places == {"setting", "stamping", "sent", "answered"}
AtTheClock == {"setting", "stamping"}

\* The time stamp of a worker that has read one of the clock's two numbers before another
\* worker set them and the other one after it.
Torn == 2

ASSUME AccountAssumption == /\ {UsHost, ProfileHost} \subseteq Regions
                            /\ MaxLogins \in Nat
                            /\ None \notin Regions \cup Answers \cup Places
                            /\ \A p \in Plans : p.logins \in 0..MaxLogins
                            /\ Domains \in [1..MaxLogins -> SUBSET (Regions \cup {None})]

VARIABLES plan,       \* the plan of this run
          session,    \* api.session: 0, or the number of the session
          host,       \* api._api_host
          offset,     \* api._time_offset, as the skew it corrects
          built,      \* the session a Business was built with
          bizOffset,  \* the clock offset of that Business
          skew,       \* how far the server's clock is from the client's
          granted,    \* sessions granted so far
          home,       \* the host of each session, None: any
          alive,      \* the sessions the server honours
          call,       \* the request each task has under way
          adopted,    \* the session api.session was last set to
          strayed,    \* a login has moved the host since then
          crossed     \* a logout was under way when it was set

server == <<skew, granted, home, alive>>
vars == <<plan, session, host, offset, built, bizOffset, skew, granted, home,
          alive, call, adopted, strayed, crossed>>

Sessions == 1..MaxLogins
Skews == {0, 1}
Steps == {"idle", "plain", "ask", "detail", "keys", "token", "password",
          "register", "code", "logout", "publish"}

\* A task that has no request under way.
Idle == [step |-> "idle", op |-> None, at |-> None, sid |-> 0, host |-> None,
         stamp |-> 0, retried |-> FALSE, answer |-> None, time |-> 0,
         grant |-> 0, effects |-> 0, unsteady |-> FALSE, stray |-> FALSE,
         met |-> FALSE]

TypeOK ==
    /\ plan \in Plans
    /\ session \in 0..MaxLogins /\ built \in 0..MaxLogins
    /\ granted \in 0..MaxLogins /\ adopted \in 0..MaxLogins
    /\ host \in Regions
    /\ {offset, bizOffset, skew} \subseteq Skews
    /\ home \in [Sessions -> Regions \cup {None}]
    /\ alive \subseteq 1..granted
    /\ strayed \in BOOLEAN /\ crossed \in BOOLEAN
    /\ \A t \in Tasks :
          /\ call[t].step \in Steps
          /\ call[t].at \in Places \cup {None}
          /\ call[t].at = None <=> call[t].step = "idle"
          /\ call[t].answer \in Answers \cup {None}
          /\ call[t].answer = None <=> call[t].at # "answered"
          /\ call[t].sid \in 0..granted
          /\ call[t].stamp \in Skews \cup {Torn}
          /\ call[t].at \in AtTheClock => call[t].step = "publish"

-----------------------------------------------------------------------------
(* request(): one exchange with the server.                                *)

SessionSteps == {"ask", "detail", "keys", "logout"}

\* The request built by _request_once: the session given to request(), the
\* host and the clock offset of this moment.  A Business takes all three from
\* its own fields.  The list in a batch is stamped once, before request(), and
\* that inner stamp, which only the inner answers depend on, is left out.
Request(c, sid, h, off) ==
    [c EXCEPT !.at = "sent", !.sid = sid, !.host = h, !.stamp = off,
              !.answer = None, !.time = 0,
              !.stray = c.step # "publish" /\ (strayed \/ sid # session)]

\* A fresh request() for the next step of operation op.
Fresh(op, step, sid, h, off) ==
    Request([Idle EXCEPT !.op = op, !.step = step], sid, h, off)

\* request() of a step that needs a session fails on the spot without one.
Captured(step) == IF step \in SessionSteps THEN session ELSE 0
Refused(step) == \/ step \in SessionSteps /\ session = 0
                 \/ step = "publish" /\ built = 0

\* An operation of PopurAccount begins with request() for its first step.
Begin(t, op, step) ==
    /\ op \in plan.ops[t]
    /\ ~Refused(step)
    /\ call' = [call EXCEPT ![t] = Fresh(None, step, Captured(step), host, offset)]
    /\ UNCHANGED <<host, strayed>>

\* The operations that need no session: verification codes, password reset.
SendEmailCode(t) == Begin(t, "mail", "plain")

\* Those that ask one thing of the session's account: profile and homes, the
\* records of its devices, and the batch (a list of requests in one).
UpdateAccount(t) == Begin(t, "manage", "ask")
ReadDevice(t) == Begin(t, "read", "ask")
FetchHome(t) == Begin(t, "batch", "ask")

BootstrapLocalConfig(t) == Begin(t, "bootstrap", "detail")
LoginWithEmailCode(t) == Begin(t, "code", "code")
Logout(t) == Begin(t, "logout", "logout")

\* login() and register_email() begin with _login_token(), which moves the
\* host for everybody before it asks for the token, as it does for the country
\* selector of the Popur app.
LoginToken(t) ==
    \E op \in plan.ops[t] \cap {"login", "register"} :
       /\ host' = UsHost
       /\ strayed' = (strayed \/ host # UsHost)
       /\ call' = [call EXCEPT ![t] = Fresh(op, "token", 0, UsHost, offset)]

\* A worker at the clock of the Business: somebody else may be setting it.
OthersSetting(t) == \E x \in Tasks \ {t} : call[x].at = "setting"

\* One exchange of Business.request, the HTTP leg of the command path: it goes to the
\* clock first.
BusinessRequest(c, t) == [c EXCEPT !.at = "stamping", !.answer = None, !.time = 0,
                                   !.met = OthersSetting(t)]

Publish(t) ==
    /\ "publish" \in plan.ops[t]
    /\ ~Refused("publish")
    /\ call' = [call EXCEPT ![t] = BusinessRequest([Idle EXCEPT !.step = "publish"], t)]
    /\ UNCHANGED <<host, strayed>>

Call(t) ==
    /\ call[t].step = "idle"
    /\ \/ SendEmailCode(t) \/ UpdateAccount(t) \/ ReadDevice(t) \/ FetchHome(t)
       \/ BootstrapLocalConfig(t) \/ LoginWithEmailCode(t) \/ Logout(t)
       \/ LoginToken(t) \/ Publish(t)
    /\ UNCHANGED <<session, offset, built, bizOffset, server, adopted, crossed>>

\* build_business(profile, account.session): what it takes is never renewed.
Build ==
    /\ \E t \in Tasks : "publish" \in plan.ops[t]
    /\ built = 0 /\ session # 0
    /\ built' = session
    /\ bizOffset' = 0
    /\ UNCHANGED <<session, host, offset, server, call, adopted, strayed, crossed>>

-----------------------------------------------------------------------------
(* The server.                                                             *)

Honoured(c) == c.sid = 0 \/ (c.sid \in alive /\ home[c.sid] \in {None, c.host})

\* What the client gets back; where and when it was asked no longer matters.
Answered(c, a) == [c EXCEPT !.at = "answered", !.answer = a, !.host = None,
                            !.stamp = 0, !.stray = FALSE]

Answer(t, a) == call' = [call EXCEPT ![t] = Answered(call[t], a)]

\* The time stamp is checked first; the refusal usually says what time it is.
RefuseTime(t) ==
    /\ call[t].stamp # skew
    /\ \/ call' = [call EXCEPT ![t] = [Answered(call[t], "time") EXCEPT !.time = skew]]
       \/ call' = [call EXCEPT ![t] = [Answered(call[t], "timeless") EXCEPT !.unsteady = TRUE]]
    /\ UNCHANGED server

RefuseSession(t) ==
    /\ call[t].stamp = skew
    /\ ~Honoured(call[t])
    /\ Answer(t, "session")
    /\ UNCHANGED server

\* A request that is carried out.  A login is granted the next session, at
\* some host of the account's domain or at none in particular.
CarryOut(t) ==
    LET c == call[t]
        done == [Answered(c, "ok") EXCEPT !.effects = c.effects + 1]
    IN  /\ c.stamp = skew
        /\ Honoured(c)
        /\ \/ /\ c.step \notin {"password", "code", "logout"}
              /\ call' = [call EXCEPT ![t] = done]
              /\ UNCHANGED <<granted, home, alive>>
           \/ /\ c.step = "logout"
              /\ call' = [call EXCEPT ![t] = done]
              /\ alive' = alive \ {c.sid}
              /\ UNCHANGED <<granted, home>>
           \/ /\ c.step \in {"password", "code"}
              /\ granted < plan.logins
              /\ granted' = granted + 1
              /\ alive' = alive \cup {granted'}
              /\ \E r \in Domains[granted'] : home' = [home EXCEPT ![granted'] = r]
              /\ call' = [call EXCEPT ![t] = [done EXCEPT !.grant = granted']]
        /\ UNCHANGED skew

\* The exchange fails, before the server acts on it or after: by a refusal of
\* any other kind, a timeout, an HTTP status that is not 2xx, or an answer that
\* does not decode.
Lose(t) == /\ Answer(t, "error")
           /\ UNCHANGED server

LoseAnswer(t) ==
    /\ call[t].answer = "ok"
    /\ Answer(t, "error")
    /\ UNCHANGED <<session, host, offset, built, bizOffset, server, adopted, strayed, crossed>>

Serve(t) ==
    /\ call[t].at = "sent"
    /\ RefuseTime(t) \/ RefuseSession(t) \/ CarryOut(t) \/ Lose(t)
    /\ UNCHANGED <<session, host, offset, built, bizOffset, adopted, strayed, crossed>>

\* The clocks move apart or together.
Drift ==
    /\ skew' = 1 - skew
    /\ call' = [t \in Tasks |-> IF call[t].step = "idle" THEN call[t]
                                ELSE [call[t] EXCEPT !.unsteady = TRUE]]
    /\ UNCHANGED <<session, host, offset, built, bizOffset, granted, home, alive,
                   adopted, strayed, crossed>>

-----------------------------------------------------------------------------
(* The answer is handled.                                                  *)

\* TIME_VALIDATE_FAILED: the clock is set from the answer and the request is
\* sent once more, with the session that request() was called with and the
\* host of now.
MayRetryAlways(c) == TRUE
MayRetry(c) == ~c.retried

RetryLost(t) ==
    LET c == call[t] IN
    /\ c.answer \in {"time", "error"} /\ c.step # "publish" /\ MayRetry(c)
    /\ offset' = IF c.answer = "time" THEN c.time ELSE offset
    /\ call' = [call EXCEPT ![t] =
                   Request([c EXCEPT !.retried = TRUE], c.sid, host, offset')]
    /\ UNCHANGED <<session, host, built, bizOffset, server, adopted, strayed, crossed>>

RetryThenSync(t) ==
    LET c == call[t] IN
    /\ c.answer = "time" /\ c.step # "publish" /\ MayRetry(c)
    /\ offset' = c.time
    /\ call' = [call EXCEPT ![t] =
                   Request([c EXCEPT !.retried = TRUE], c.sid, host, offset)]
    /\ UNCHANGED <<session, host, built, bizOffset, server, adopted, strayed, crossed>>

Retry(t) ==
    LET c == call[t] IN
    /\ c.answer = "time" /\ c.step # "publish" /\ MayRetry(c)
    /\ offset' = c.time
    /\ call' = [call EXCEPT ![t] =
                   Request([c EXCEPT !.retried = TRUE], c.sid, host, c.time)]
    /\ UNCHANGED <<session, host, built, bizOffset, server, adopted, strayed, crossed>>

\* Whoever is at the clock of the Business when another worker sets it may read one number
\* of before and one of after, or use the time that the other was told.
Meeting(t, c) ==
    call' = [x \in Tasks |-> IF x = t THEN c
                             ELSE IF call[x].at \in AtTheClock
                                  THEN [call[x] EXCEPT !.met = TRUE]
                                  ELSE call[x]]

\* A Business retries also when the answer does not tell the time, and then
\* keeps the clock it has.  update_timestamp sets two numbers; the time counts
\* with the second one, and the stamp of the retry is taken after that.
SyncBusiness(t) ==
    LET c == call[t] IN
    /\ c.answer = "time" /\ c.step = "publish" /\ MayRetry(c)
    /\ Meeting(t, [c EXCEPT !.at = "setting", !.retried = TRUE, !.answer = None,
                            !.met = OthersSetting(t)])
    /\ UNCHANGED <<session, host, offset, built, bizOffset, server, adopted, strayed, crossed>>

SetClock(t) ==
    LET c == call[t] IN
    /\ c.at = "setting"
    /\ bizOffset' = c.time
    /\ Meeting(t, [c EXCEPT !.at = "stamping", !.time = 0])
    /\ UNCHANGED <<session, host, offset, built, server, adopted, strayed, crossed>>

RetryTimeless(t) ==
    LET c == call[t] IN
    /\ c.answer = "timeless" /\ c.step = "publish" /\ MayRetry(c)
    /\ call' = [call EXCEPT ![t] = BusinessRequest([c EXCEPT !.retried = TRUE], t)]
    /\ UNCHANGED <<session, host, offset, built, bizOffset, server, adopted, strayed, crossed>>

\* get_request_body stamps the request, and it is sent.  To a worker that met another one
\* the clock may seem to run backwards: get_current_timestamp then sets it anew, from the
\* client's own time.
StampBusiness(t) ==
    LET c == call[t] IN
    /\ c.at = "stamping"
    /\ \/ /\ \E now \in {bizOffset} \cup (IF c.met THEN {Torn} ELSE {}) :
                call' = [call EXCEPT ![t] = Request(c, built, ProfileHost, now)]
          /\ UNCHANGED bizOffset
       \/ /\ c.met
          /\ bizOffset' = 0
          /\ Meeting(t, Request(c, built, ProfileHost, 0))
    /\ UNCHANGED <<session, host, offset, built, server, adopted, strayed, crossed>>

\* What a worker of the Business does to send a request again.
Business(t) == SyncBusiness(t) \/ SetClock(t) \/ RetryTimeless(t) \/ StampBusiness(t)

\* Every other failure ends the operation; a lost session is also reported
\* through on_session_invalid, which changes nothing here.
GivesUp(c) == CASE c.answer = "time" -> c.retried
                [] c.answer = "timeless" -> c.step # "publish" \/ c.retried
                [] OTHER -> c.answer \in {"error", "session"}

Fail(t) ==
    /\ GivesUp(call[t])
    /\ call' = [call EXCEPT ![t] = Idle]
    /\ UNCHANGED <<session, host, offset, built, bizOffset, server, adopted, strayed, crossed>>

\* The second request of an operation that has one: request() reads the
\* session, the host and the clock again.
Proceed(t, from, step) ==
    /\ call[t].answer = "ok" /\ call[t].step = from
    /\ call' = [call EXCEPT ![t] =
                   IF Refused(step) THEN Idle
                   ELSE Fresh(None, step, Captured(step), host, offset)]
    /\ UNCHANGED <<session, host, offset, built, bizOffset, server, adopted, strayed, crossed>>

Login(t) == call[t].op = "login" /\ Proceed(t, "token", "password")
RegisterEmail(t) == call[t].op = "register" /\ Proceed(t, "token", "register")
LocalKeys(t) == Proceed(t, "detail", "keys")

\* bootstrap_local_config is done when the detail has the key, and the other
\* operations when their last request is answered.
Finish(t) ==
    /\ call[t].answer = "ok"
    /\ call[t].step \in {"plain", "ask", "detail", "keys", "register", "publish"}
    /\ call' = [call EXCEPT ![t] = Idle]
    /\ UNCHANGED <<session, host, offset, built, bizOffset, server, adopted, strayed, crossed>>

LogoutUnderWay(ts) == \E t \in ts : call[t].step = "logout"

\* _adopt_login_user and restore_session set the session and, when the domain
\* names one, the host.
AdoptSession(s) ==
    /\ session' = s
    /\ adopted' = s
    /\ host' = host
    /\ strayed' = (home[s] = None /\ strayed)
    /\ crossed' = LogoutUnderWay(Tasks)

Adopt(s) ==
    /\ session' = s
    /\ adopted' = s
    /\ host' = IF home[s] = None THEN host ELSE home[s]
    /\ strayed' = (home[s] = None /\ strayed)
    /\ crossed' = LogoutUnderWay(Tasks)

LoggedIn(t) ==
    /\ call[t].answer = "ok" /\ call[t].step \in {"password", "code"}
    /\ Adopt(call[t].grant)
    /\ call' = [call EXCEPT ![t] = Idle]
    /\ UNCHANGED <<offset, built, bizOffset, server>>

RestoreSession ==
    \E s \in 1..granted :
       /\ s # session
       /\ Adopt(s)
       /\ UNCHANGED <<offset, built, bizOffset, server, call>>

\* logout() and cancel_account() forget the session once the server has.
LoggedOutAlways(t) ==
    /\ call[t].at = "answered" /\ call[t].step = "logout"
    /\ session' = 0
    /\ call' = [call EXCEPT ![t] = Idle]
    /\ UNCHANGED <<host, offset, built, bizOffset, server, adopted, strayed, crossed>>

LoggedOut(t) ==
    /\ call[t].answer = "ok" /\ call[t].step = "logout"
    /\ session' = 0
    /\ call' = [call EXCEPT ![t] = Idle]
    /\ UNCHANGED <<host, offset, built, bizOffset, server, adopted, strayed, crossed>>

Handle(t) == \/ Retry(t) \/ Business(t) \/ Fail(t) \/ Login(t)
             \/ RegisterEmail(t) \/ LocalKeys(t) \/ Finish(t) \/ LoggedIn(t) \/ LoggedOut(t)

-----------------------------------------------------------------------------
Init ==
    /\ plan \in Plans
    /\ session = 0 /\ built = 0 /\ granted = 0 /\ adopted = 0
    /\ host = ProfileHost
    /\ offset = 0 /\ bizOffset = 0 /\ skew = 0
    /\ home = [s \in Sessions |-> None]
    /\ alive = {}
    /\ call = [t \in Tasks |-> Idle]
    /\ strayed = FALSE /\ crossed = FALSE

Next == /\ \/ \E t \in Tasks : Call(t) \/ Serve(t) \/ LoseAnswer(t) \/ Handle(t)
           \/ Build \/ RestoreSession \/ Drift
        /\ UNCHANGED plan

\* An HTTP exchange ends by its timeout, and asyncio runs what is ready.
Fairness == \A t \in Tasks : /\ WF_vars(Serve(t) /\ UNCHANGED plan)
                             /\ WF_vars(Handle(t) /\ UNCHANGED plan)

Spec == Init /\ [][Next]_vars /\ Fairness

-----------------------------------------------------------------------------
(* Properties.                                                             *)

\* The retry of request() and of Business.request never repeats what the
\* server has carried out, whatever is lost on the way: a request that may
\* have had its effect (a new home, a datapoint write) is not sent again.
AtMostOnce == \A t \in Tasks : call[t].effects <= 1

\* A request during which the two clocks keep their distance, and whose refusals
\* tell the time, is never refused for its time stamp in the end, however wrong
\* the offset was and whatever other tasks, with older answers, set it to in
\* between: one retry suffices (mobile.py, request; atop.py, Business.request).
\* The one exception is a request of the Business that was at the unlocked clock
\* while another worker was setting it (timestamp.py, update_timestamp).
SteadyClockSuffices ==
    [][\A t \in Tasks :
          (call[t].answer \in {"time", "timeless"} /\ call'[t].step = "idle")
          => call[t].unsteady \/ (call[t].step = "publish" /\ call[t].met)]_vars

\* A session that the server honours is refused (and reported as lost through
\* on_session_invalid) only if a login attempt had moved the host away from
\* the session's region, or the session had been replaced while its request
\* waited for a retry.
LiveSessionRefused ==
    [][\A t \in Tasks :
          (/\ call[t].at = "sent" /\ call[t].step \in SessionSteps
           /\ call'[t].answer = "session" /\ call[t].sid \in alive)
          => call[t].stray]_vars

\* The client forgets a session that the server still honours only if a
\* logout was under way when that session was adopted.
OnlyCrossingsForget == session = 0 /\ adopted \in alive => crossed

\* Every operation of the account ends, also under a server clock that never
\* comes to rest.
CallsEnd == \A t \in Tasks : call[t].step # "idle" ~> call[t].step = "idle"
=============================================================================
