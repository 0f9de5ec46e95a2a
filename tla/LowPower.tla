------------------------------ MODULE LowPower ------------------------------
(***************************************************************************)
(* LowPowerDeviceManager (sdk/low_power.py): waking a sleeping device      *)
(* before a command is sent to it.                                         *)
(*                                                                         *)
(* Every caller of awake() runs in a thread of its own.  The manager keeps *)
(* three plain dictionaries without a lock - the wake task, its deadline   *)
(* and the callbacks of the device - and three kinds of thread change      *)
(* them: the callers, the threading.Timer of each wake task, and whoever   *)
(* reports an MQTT connect (release(False)) or closes the transport        *)
(* (release(True)).                                                        *)
(*                                                                         *)
(* A wake task is named after the caller that started it.  A thread may be *)
(* preempted between any two statements, with one exception that the clock *)
(* justifies: a timer of one second does not fire before the statement     *)
(* after the one that started it.  dispatch_result is one action: it takes  *)
(* the task first and copies the list last, and whoever relies on a task    *)
(* has registered before it looked, so it is on the copy whatever happens   *)
(* in between.                                                              *)
(*                                                                         *)
(* A list of callbacks is an object: it is named after the caller that      *)
(* created it, and lives on in whoever holds it when the dictionary has     *)
(* another one or none.                                                     *)
(***************************************************************************)
EXTENDS Naturals, FiniteSets

CONSTANTS Callers,      \* the callbacks handed to awake(), one per command
          MaxRuns,      \* runs of a wake task before its deadline (bound)
          MaxReleases,  \* MQTT connect events (bound)
          MaxAnswers,   \* results one callback may be given (bound)
          None

ASSUME LowPowerAssumption == /\ MaxRuns \in Nat
                             /\ MaxReleases \in Nat
                             /\ MaxAnswers \in Nat \ {0}
                             /\ None \notin Callers

VARIABLES sleepy,    \* the product's configMetas has low_power_wakeup
          task,      \* wake_tasks[dev]: the caller whose task it is, or None
          deadline,  \* wake_deadlines has an entry for the device
          cbs,       \* callbacks[dev]: the creator of the list, or None
          lists,     \* the callbacks on the list each caller created
          held,      \* what each caller's callbacks.get(dev) returned
          flag,      \* awake_flags and awake_change_times have an entry
          start,     \* each caller's position in awake()
          timer,     \* whether the timer of the caller's task is running
          age,       \* how often the caller's task has run: its elapsed time
          fan,       \* the fan-out each thread has in progress
          answers,   \* results each callback was given
          releases,  \* MQTT connect events so far
          destroyed, \* release(True) was called
          raced      \* one of the events that lose a wake-up has happened

regVars == <<cbs, lists, held>>
lpVars  == <<sleepy, task, deadline, regVars, flag, start, timer, age, fan,
             answers, releases, destroyed, raced>>

Threads == Callers \X {"start", "timer"}

StartPc == {"idle", "join", "look", "check", "arm", "run", "store", "done", "raised"}

FanState == [todo : SUBSET Callers, cur : Callers \cup {None}, list : Callers \cup {None}]

NoFan == [todo |-> {}, cur |-> None, list |-> None]

\* The callbacks a dispatch copies.
Registered == IF cbs = None THEN {} ELSE lists[cbs]

LowPowerTypeOK ==
    /\ sleepy \in BOOLEAN /\ deadline \in BOOLEAN /\ flag \in BOOLEAN
    /\ destroyed \in BOOLEAN /\ raced \in BOOLEAN
    /\ task \in Callers \cup {None}
    /\ cbs \in Callers \cup {None}
    /\ lists \in [Callers -> SUBSET Callers]
    /\ held \in [Callers -> Callers \cup {None}]
    /\ start \in [Callers -> StartPc]
    /\ timer \in [Callers -> BOOLEAN]
    /\ age \in [Callers -> 0..MaxRuns]
    /\ fan \in [Threads -> FanState]
    /\ answers \in [Callers -> 0..MaxAnswers]
    /\ releases \in 0..MaxReleases

LowPowerInit ==
    /\ sleepy \in BOOLEAN
    /\ task = None /\ deadline = FALSE /\ cbs = None /\ flag = FALSE
    /\ lists = [c \in Callers |-> {}] /\ held = [c \in Callers |-> None]
    /\ start = [c \in Callers |-> "idle"]
    /\ timer = [c \in Callers |-> FALSE]
    /\ age = [c \in Callers |-> 0]
    /\ fan = [th \in Threads |-> NoFan]
    /\ answers = [c \in Callers |-> 0]
    /\ releases = 0 /\ destroyed = FALSE /\ raced = FALSE

-----------------------------------------------------------------------------
(* Dispatching a result. *)

Idle(th) == fan[th].todo = {}

\* Whether dropping the deadline now hits another caller's task that is about to run for the
\* first time.
LosesDeadline(others) == deadline /\ \E c \in others : start[c] = "run"

\* dispatch_result on thread th: the stored task is taken out and its timer cancelled, the
\* deadline is dropped, and the thread begins to hand the result to the callbacks it copied.
\* The timers in `stopped` have fired, which is why th runs; the cancellation comes too late
\* for a timer that has just fired.
Dispatch(th, stopped) ==
    /\ task' = None
    /\ \E late \in BOOLEAN :
         timer' = [c \in Callers |-> timer[c] /\ (c # task \/ late) /\ c \notin stopped]
    /\ deadline' = FALSE
    /\ raced' = (raced \/ LosesDeadline(Callers \ {th[1]}))
    /\ fan' = [fan EXCEPT ![th] = [todo |-> Registered, cur |-> None, list |-> cbs]]

\* cb.on_success(rsp) or cb.on_error(code, msg): both make MqttCommHandler send.
Answer(c) ==
    /\ answers[c] < MaxAnswers
    /\ answers' = [answers EXCEPT ![c] = @ + 1]

\* _fan_out: the next callback of the copy is called ...
FanCall(th) ==
    /\ fan[th].cur = None
    /\ \E c \in fan[th].todo :
         /\ Answer(c)
         /\ fan' = [fan EXCEPT ![th].cur = c]
    /\ UNCHANGED <<sleepy, task, deadline, regVars, flag, start, timer, age,
                   releases, destroyed, raced>>

\* ... and removed from the list that was copied.
FanRemove(th) ==
    LET c == fan[th].cur  l == fan[th].list IN
    /\ c # None /\ l # None
    /\ c \in lists[l]
    /\ lists' = [lists EXCEPT ![l] = @ \ {c}]
    /\ fan' = [fan EXCEPT ![th].todo = @ \ {c}, ![th].cur = None]
    /\ UNCHANGED <<sleepy, task, deadline, cbs, held, flag, start, timer, age, answers,
                   releases, destroyed, raced>>

\* The callback raises, or list.remove(cb) does because another fan-out has removed it.  On
\* a timer's thread that ends the thread, whoever was still to be called; on a caller's
\* thread _start_wake_task catches it and dispatches UNSUPPORT, and a second error leaves
\* awake().
FanAborts(th) ==
    LET c == th[1] IN
    /\ fan[th].cur # None
    /\ IF th[2] = "start" /\ start[c] \in {"arm", "store"}
       THEN /\ Dispatch(th, {})
            /\ start' = [start EXCEPT ![c] = "done"]
       ELSE /\ fan' = [fan EXCEPT ![th] = NoFan]
            /\ start' = [start EXCEPT ![c] = IF th[2] = "start" THEN "raised" ELSE @]
            /\ raced' = (raced \/ fan[th].todo # {fan[th].cur})
            /\ UNCHANGED <<task, deadline, timer>>
    /\ UNCHANGED <<sleepy, regVars, flag, age, answers, releases, destroyed>>

-----------------------------------------------------------------------------
(* awake(dev_id, 8000, callback) on the caller's thread. *)

\* The early results: no low-power product (or no bean, or a virtual device), or a device
\* recorded as awake that is still online, which is prodded first; the prod, or the callback,
\* may raise.  Otherwise the device's list of callbacks is looked up ...
Awake(c) ==
    /\ start[c] = "idle"
    /\ \/ /\ ~sleepy \/ flag
          /\ Answer(c)
          /\ start' = [start EXCEPT ![c] = "done"]
          /\ UNCHANGED held
       \/ /\ flag
          /\ start' = [start EXCEPT ![c] = "raised"]
          /\ UNCHANGED <<answers, held>>
       \/ /\ sleepy
          /\ held' = [held EXCEPT ![c] = cbs]
          /\ start' = [start EXCEPT ![c] = "join"]
          /\ UNCHANGED answers
    /\ UNCHANGED <<sleepy, task, deadline, cbs, lists, flag, timer, age, fan, releases,
                   destroyed, raced>>

\* ... and the callback put on it, or on a new list that becomes the device's; neither knows
\* what another caller did since.
Join(c) ==
    /\ start[c] = "join"
    /\ IF held[c] = None
       THEN cbs' = c /\ lists' = [lists EXCEPT ![c] = {c}]
       ELSE lists' = [lists EXCEPT ![held[c]] = @ \cup {c}] /\ UNCHANGED cbs
    /\ raced' = (raced \/ held[c] # cbs)
    /\ start' = [start EXCEPT ![c] = "look"]
    /\ UNCHANGED <<sleepy, task, deadline, held, flag, timer, age, fan, answers, releases,
                   destroyed>>

\* A stored task means that somebody else will dispatch.
Look(c) ==
    /\ start[c] = "look"
    /\ start' = [start EXCEPT ![c] = IF task # None THEN "done" ELSE "check"]
    /\ UNCHANGED <<sleepy, task, deadline, regVars, flag, timer, age, fan, answers,
                   releases, destroyed, raced>>

\* check_awake_status: the device sleeps or the request fails ...
StillAsleep(c) ==
    /\ start[c] = "check"
    /\ start' = [start EXCEPT ![c] = "arm"]
    /\ UNCHANGED <<sleepy, task, deadline, regVars, flag, timer, age, fan, answers,
                   releases, destroyed, raced>>

\* ... the device is awake (recorded, SUCCESS), or the cloud knows nothing of it
\* (UNSUPPORT); either way a task is started all the same ...
CheckDispatches(c) ==
    /\ start[c] = "check"
    /\ Dispatch(<<c, "start">>, {})
    /\ flag' \in {flag, TRUE}
    /\ start' = [start EXCEPT ![c] = "arm"]
    /\ UNCHANGED <<sleepy, regVars, age, answers, releases, destroyed>>

\* ... or the call raises: UNSUPPORT, and no task.
CheckRaises(c) ==
    /\ start[c] = "check"
    /\ Dispatch(<<c, "start">>, {})
    /\ start' = [start EXCEPT ![c] = "done"]
    /\ UNCHANGED <<sleepy, regVars, flag, age, answers, releases, destroyed>>

\* The deadline is set (unless there is one) and the clock read.
Arm(c) ==
    /\ start[c] = "arm" /\ Idle(<<c, "start">>)
    /\ deadline' = TRUE
    /\ age' = [age EXCEPT ![c] = 0]
    /\ start' = [start EXCEPT ![c] = "run"]
    /\ UNCHANGED <<sleepy, task, regVars, flag, timer, fan, answers, releases,
                   destroyed, raced>>

\* handler.post runs the task inline, before it is stored: without a deadline it expires
\* at once.
RunInline(c) ==
    /\ start[c] = "run"
    /\ start' = [start EXCEPT ![c] = "store"]
    /\ IF deadline
       THEN /\ timer' = [timer EXCEPT ![c] = TRUE]
            /\ UNCHANGED <<task, deadline, fan, raced>>
       ELSE Dispatch(<<c, "start">>, {})
    /\ UNCHANGED <<sleepy, regVars, flag, age, answers, releases, destroyed>>

\* The prod of the first run raises: caught, UNSUPPORT is dispatched and nothing stored.
RunRaises(c) ==
    /\ start[c] = "run" /\ deadline
    /\ Dispatch(<<c, "start">>, {})
    /\ start' = [start EXCEPT ![c] = "done"]
    /\ UNCHANGED <<sleepy, regVars, flag, age, answers, releases, destroyed>>

Store(c) ==
    /\ start[c] = "store" /\ Idle(<<c, "start">>)
    /\ task' = c
    /\ start' = [start EXCEPT ![c] = "done"]
    /\ UNCHANGED <<sleepy, deadline, regVars, flag, timer, age, fan, answers,
                   releases, destroyed, raced>>

-----------------------------------------------------------------------------
(* The timer of a wake task. *)

Fires(c) == timer[c] /\ start[c] \notin {"run", "store"}

\* Within the deadline the device is prodded again and the timer restarted ...
Prod(c) ==
    /\ Fires(c)
    /\ deadline /\ age[c] < MaxRuns
    /\ age' = [age EXCEPT ![c] = @ + 1]
    /\ UNCHANGED <<sleepy, task, deadline, regVars, flag, start, timer, fan, answers,
                   releases, destroyed, raced>>

\* ... or the prod raises, which ends the timer's thread: the task stays stored.
ProdRaises(c) ==
    /\ Fires(c)
    /\ deadline /\ age[c] < MaxRuns
    /\ timer' = [timer EXCEPT ![c] = FALSE]
    /\ raced' = TRUE
    /\ UNCHANGED <<sleepy, task, deadline, regVars, flag, start, age, fan, answers, releases,
                   destroyed>>

\* Mutant of Expire: a task without a deadline ends silently.
ExpireSilently(c) ==
    /\ Fires(c)
    /\ ~deadline \/ age[c] = MaxRuns
    /\ Idle(<<c, "timer">>)
    /\ IF deadline THEN Dispatch(<<c, "timer">>, {c})
       ELSE /\ timer' = [timer EXCEPT ![c] = FALSE]
            /\ UNCHANGED <<task, deadline, raced, fan>>
    /\ UNCHANGED <<sleepy, regVars, flag, start, age, answers, releases, destroyed>>

\* ... and past it, or when the deadline is gone, AWAKE_TIMEOUT is dispatched.
Expire(c) ==
    /\ Fires(c)
    /\ ~deadline \/ age[c] = MaxRuns
    /\ Idle(<<c, "timer">>)
    /\ Dispatch(<<c, "timer">>, {c})
    /\ UNCHANGED <<sleepy, regVars, flag, start, age, answers, releases, destroyed>>

-----------------------------------------------------------------------------
(* release(destroy): the maps are cleared, the timers run on. *)

Cleared ==
    /\ task' = None /\ deadline' = FALSE /\ flag' = FALSE
    /\ raced' = (raced \/ LosesDeadline(Callers))
    /\ UNCHANGED <<sleepy, start, timer, age, fan, answers>>

\* An MQTT connect succeeded or failed.
Release ==
    /\ releases < MaxReleases
    /\ releases' = releases + 1
    /\ Cleared
    /\ UNCHANGED <<regVars, destroyed>>

\* PipelineTransport.close.
Destroy ==
    /\ ~destroyed
    /\ destroyed' = TRUE
    /\ cbs' = None
    /\ Cleared
    /\ UNCHANGED <<lists, held, releases>>

Waking(c) == \/ Join(c) \/ Look(c) \/ StillAsleep(c) \/ CheckDispatches(c)
             \/ CheckRaises(c) \/ Arm(c) \/ RunInline(c) \/ RunRaises(c) \/ Store(c)
             \/ Prod(c) \/ ProdRaises(c) \/ Expire(c)

Fanning(th) == FanCall(th) \/ FanRemove(th) \/ FanAborts(th)

\* The manager by itself, with callers that do not look at the results.
LowPowerNext == \/ \E c \in Callers : Awake(c) \/ Waking(c)
                \/ \E th \in Threads : Fanning(th)
                \/ Release \/ Destroy

LowPowerSpec == LowPowerInit /\ [][LowPowerNext]_lpVars

-----------------------------------------------------------------------------
(* Properties. *)

\* Somebody is on the way to dispatching a result: a running timer, or a caller that has
\* not yet reached the point where it relies on one.
Dispatcher ==
    \E c \in Callers : timer[c] \/ start[c] \in {"join", "look", "check", "arm", "run"}

\* Somebody is handing a result to c and has not called it yet.
Reaching(c) == \E th \in Threads : c \in fan[th].todo /\ fan[th].cur # c

Waits(c) == start[c] = "done" /\ answers[c] = 0

\* A callback that waits will be called: it is registered and somebody is going to
\* dispatch, or a fan-out is about to reach it - unless the transport was closed.
WaiterCovered ==
    \A c \in Callers :
      Waits(c) => destroyed \/ Reaching(c) \/ (c \in Registered /\ Dispatcher)

\* Four events lose a wake-up, and nothing else does: two registrations that overlap, one
\* replacing the list the other creates or joins (low_power.py:301-306); a deadline dropped,
\* by an MQTT connect event or by another thread's dispatch, between the statements that set
\* it and run the task (low_power.py:340 and 353); a fan-out cut short, by a callback that
\* raises or that another fan-out has removed, with callbacks of its copy uncalled
\* (low_power.py:327-329); and a prod that raises on a timer's thread (low_power.py:347).  In
\* every other interleaving of callers, timers and connect events each waiting callback has
\* somebody who will call it.
OnlyTheRacesLoseWakeups == raced \/ WaiterCovered

=============================================================================
