------------------------------ MODULE Pipeline ------------------------------
(***************************************************************************)
(* The command pipeline: PipelineTransport.write_dps (pipeline.py), the    *)
(* presenter's handler chain (sdk/comm_pipeline.py), the controller that   *)
(* chooses between LAN, MQTT and HTTP (sdk/lan_control.py), and the cloud   *)
(* backend's own entry into it (cloud.py).  LowPower is the manager the    *)
(* MQTT handler wakes a device with.                                       *)
(*                                                                         *)
(* A command is published on a thread of its own; the LAN watchdog, the    *)
(* MQTT reader and the wake-up's fan-outs are other threads that may send  *)
(* it again or report a result.  The caller waits for the first result.    *)
(* Commands are the Callers of LowPower.  Sequence numbers, the query sent *)
(* half a second after an HTTP publish and analytics are left out.         *)
(*                                                                         *)
(* A transport built without a cloud backend has no-op seams in its place   *)
(* (pipeline.py:248-259): what is handed to them is never answered.         *)
(***************************************************************************)
EXTENDS LowPower, SequencesExt

CONSTANTS ModeLists,   \* the channel lists a command may be published with
          Plugins,     \* the channels of plugins that are attached and online
          MaxChanges   \* changes of the environment (bound)

CommunicationEnum ==
    {"LAN", "MQTT", "HTTP", "BLE", "SIGMESH", "THING_MESH", "THING_BEACON",
     "THING_MATTER", "YU_MQTT", "CLOUD_MODE", "OTHER"}

ASSUME PipelineAssumption == /\ ModeLists \subseteq Seq(CommunicationEnum)
                             /\ Plugins \subseteq CommunicationEnum
                             /\ MaxChanges \in Nat

VARIABLES env,      \* what the gates look at
          changes,  \* changes of env so far
          pub,      \* the position of each command's publishing thread
          watchdog, \* the LAN handler's timer: "none", "armed", "fired"
          lanDone,  \* the LAN handler's done flag
          woken,    \* wake-up results the MQTT handler has acted on
          jobs,     \* cloud sends on other threads, by what they do next
          got,      \* the results the command's callback was given
          ret,      \* how write_dps ended
          carried,  \* the channels that took the command
          lanFirst, \* the LAN answered before the watchdog fired
          looped    \* commands whose caller waits for an event of the event loop

pipeVars == <<changes, pub, watchdog, lanDone, woken, jobs, got, ret, carried, lanFirst, looped>>
vars     == <<lpVars, env, pipeVars>>

\* A live gateway entry, the network, the MQTT session, the bean's is_online, the bean, and
\* whether the transport was given a cloud backend, without which there is no session.
EnvFields == {"lan", "net", "mqtt", "online", "bean", "cloud"}

EnvStates == {e \in [EnvFields -> BOOLEAN] : e["mqtt"] => e["cloud"]}

Stages == {"internet", "mqtt", "ack", "http", "ackonly"}

\* Stages a thread goes through without waiting for another one.
Inline == {"internet", "mqtt", "http", "api", "mqttonly"}

PubPc == {"idle", "lancall", "lanonly", "lanfirst", "lanok", "waking", "sent", "raised"}
           \cup CommunicationEnum \cup Inline

Channels == {"lan", "mqtt", "http", "plugin"}

TypeOK ==
    /\ LowPowerTypeOK
    /\ env \in EnvStates /\ changes \in 0..MaxChanges
    /\ pub \in [Callers -> PubPc]
    /\ watchdog \in [Callers -> {"none", "armed", "fired"}]
    /\ lanDone \in [Callers -> BOOLEAN] /\ lanFirst \in [Callers -> BOOLEAN]
    /\ woken \in [Callers -> 0..MaxAnswers]
    /\ jobs \in [Callers -> [Stages -> Nat]]
    /\ got \in [Callers -> SUBSET {"ok", "err"}]
    /\ ret \in [Callers -> {"none", "ok", "error"}]
    /\ carried \in [Callers -> SUBSET Channels]
    /\ looped \subseteq Callers

Init ==
    /\ LowPowerInit
    /\ env \in EnvStates /\ changes = 0
    /\ pub = [w \in Callers |-> "idle"]
    /\ watchdog = [w \in Callers |-> "none"]
    /\ lanDone = [w \in Callers |-> FALSE] /\ lanFirst = [w \in Callers |-> FALSE]
    /\ woken = [w \in Callers |-> 0]
    /\ jobs = [w \in Callers |-> [s \in Stages |-> 0]]
    /\ got = [w \in Callers |-> {}]
    /\ ret = [w \in Callers |-> "none"]
    /\ carried = [w \in Callers |-> {}]
    /\ looped = {}

-----------------------------------------------------------------------------
(* The handler chain. *)

\* A list that begins with BLE ends with YU_MQTT.
AddYuMqtt(modes) ==
    IF Head(modes) = "BLE" /\ Last(modes) # "YU_MQTT" THEN Append(modes, "YU_MQTT") ELSE modes

\* A sub-device's parent: not in reach over BLE, preferred over the other channels, or not.
Parents == {"none", "first", "later"}

\* _check_direct_gateway: BLE is added, or moved to the front, for a sub-device whose
\* parent is in reach over BLE.
CheckDirectGateway(modes, parent) ==
    CASE parent = "none" -> modes
      [] parent = "first" ->
           <<"BLE">> \o (IF Contains(modes, "BLE") THEN RemoveFirst(modes, "BLE") ELSE modes)
      [] parent = "later" -> IF Contains(modes, "BLE") THEN modes ELSE Append(modes, "BLE")

\* _make_handler: the handler of a mode, with the one it carries behind it.
MakeHandler(mode) ==
    CASE mode = "LAN"     -> <<"LAN", "THING_MATTER">>
      [] mode = "YU_MQTT" -> <<"BLE", "YU_MQTT">>
      [] mode = "OTHER"   -> <<>>
      [] OTHER            -> <<mode>>

Chain(modes, parent) ==
    LET all == CheckDirectGateway(AddYuMqtt(modes), parent) IN
    FlattenSeq([i \in DOMAIN all |-> MakeHandler(all[i])])

ASSUME ChainAssumption ==
    \A modes \in ModeLists \ {<<>>}, parent \in Parents :
        Chain(modes, parent) \in Seq(CommunicationEnum)

\* LanGate.is_intranet_control and is_cloud_online.
IsIntranetControl == env.bean /\ env.lan
IsCloudOnline     == env.bean /\ env.online

\* CommHandler.available of the i-th handler.
Available(chain, i) ==
    CASE chain[i] = "LAN"                     -> IsIntranetControl
      [] chain[i] = "MQTT"                    -> env.net /\ IsCloudOnline
      [] chain[i] \in {"HTTP", "CLOUD_MODE"}  -> TRUE
      [] chain[i] = "THING_BEACON"            -> i < Len(chain) \/ "THING_BEACON" \in Plugins
      [] chain[i] = "YU_MQTT"                 -> env.mqtt /\ "YU_MQTT" \in Plugins
      [] OTHER                                -> chain[i] \in Plugins

\* CommHandler.handle: the i-th handler is the first available one.
Handle(chain, i) == Available(chain, i) /\ \A j \in 1..(i - 1) : ~Available(chain, j)

-----------------------------------------------------------------------------
(* Results. *)

\* The command's callback: what arrives after write_dps has ended is not looked at.
Reply(w, r) ==
    got' = [got EXCEPT ![w] = IF ret[w] = "none" THEN @ \cup {r} ELSE @]

Carry(w, ch) == carried' = [carried EXCEPT ![w] = @ \cup {ch}]

AddJob(w, s) == jobs' = [jobs EXCEPT ![w][s] = @ + 1]

\* A thread that was to do s goes on to do t, or ends.
GoOn(w, s, t) ==
    \/ /\ pub[w] = s
       /\ pub' = [pub EXCEPT ![w] = IF t \in Inline THEN t ELSE "sent"]
       /\ IF t \in {"ack", "ackonly"} THEN AddJob(w, t) ELSE UNCHANGED jobs
    \/ /\ s \in Stages /\ jobs[w][s] > 0
       /\ jobs' = [jobs EXCEPT ![w] = [x \in Stages |->
                     jobs[w][x] + (IF x = t THEN 1 ELSE 0) - (IF x = s THEN 1 ELSE 0)]]
       /\ UNCHANGED pub

-----------------------------------------------------------------------------
(* Publishing. *)

\* publish_dps and publish_dps_channels, up to the choice of the handler; valid is what
\* check_send_command said.
Publish(w, modes, parent, valid) ==
    LET chain == IF ~valid \/ modes = <<>> THEN <<>> ELSE Chain(modes, parent) IN
    /\ pub[w] = "idle"
    /\ \/ \E i \in DOMAIN chain :
            Handle(chain, i) /\ pub' = [pub EXCEPT ![w] = chain[i]] /\ UNCHANGED got
       \/ /\ \A i \in DOMAIN chain : ~Available(chain, i)
          /\ pub' = [pub EXCEPT ![w] = "sent"] /\ Reply(w, "err")
    /\ UNCHANGED <<lpVars, env, changes, watchdog, lanDone, woken, jobs, ret, carried,
                   lanFirst, looped>>

\* publish_dps_mode with an explicit mode, and publish_forced behind two of them; without a
\* cloud send_by_http has no atop_publish and does nothing.
PublishMode(w, mode) ==
    LET next == CASE mode = "Internet" -> IF env.mqtt THEN "internet" ELSE None
                  [] mode = "Local"    -> IF IsIntranetControl THEN "lanonly" ELSE None
                  [] mode = "Mqtt"     -> IF env.mqtt /\ env.bean THEN "mqttonly" ELSE None
                  [] mode = "Http"     -> IF ~env.bean THEN None
                                          ELSE IF env.cloud THEN "api" ELSE "sent" IN
    /\ pub[w] = "idle"
    /\ IF next = None
       THEN pub' = [pub EXCEPT ![w] = "sent"] /\ Reply(w, "err")
       ELSE pub' = [pub EXCEPT ![w] = next] /\ UNCHANGED got
    /\ UNCHANGED <<lpVars, env, changes, watchdog, lanDone, woken, jobs, ret, carried,
                   lanFirst, looped>>

\* DeviceCommController.send, the cloud backend's entry: HTTP at once when the session is
\* down, else the LAN when the integrator's gate reports it, else the server.
CloudSend(w) ==
    /\ pub[w] = "idle" /\ env.cloud
    /\ looped' = looped \cup {w}
    /\ \/ /\ env.bean /\ ~env.mqtt /\ env.net
          /\ pub' = [pub EXCEPT ![w] = "api"] /\ UNCHANGED got
       \/ /\ env.bean /\ ~(~env.mqtt /\ env.net)
          /\ \E next \in {"lanfirst", "internet"} : pub' = [pub EXCEPT ![w] = next]
          /\ UNCHANGED got
       \/ /\ ~env.bean
          /\ pub' = [pub EXCEPT ![w] = "sent"] /\ Reply(w, "err")
    /\ UNCHANGED <<lpVars, env, changes, watchdog, lanDone, woken, jobs, ret, carried,
                   lanFirst>>

\* LanCommHandler.send: the watchdog is started before the frame is sent.
SendLan(w) ==
    /\ pub[w] = "LAN"
    /\ watchdog' = [watchdog EXCEPT ![w] = "armed"]
    /\ pub' = [pub EXCEPT ![w] = "lancall"]
    /\ UNCHANGED <<lpVars, env, changes, lanDone, woken, jobs, got, ret, carried, lanFirst,
                   looped>>

LanCalls == {"lancall", "lanonly", "lanfirst"}

\* publish_dps_lan reads the bean without a null check.
LanRaises(w) ==
    /\ pub[w] \in LanCalls /\ ~env.bean
    /\ pub' = [pub EXCEPT ![w] = "raised"]
    /\ UNCHANGED <<lpVars, env, changes, watchdog, lanDone, woken, jobs, got, ret, carried,
                   lanFirst, looped>>

\* The device is not local online, or its send fails: the handler and the cloud backend
\* turn to the server, the explicit Local mode reports the error.
LanFails(w) ==
    /\ pub[w] \in LanCalls /\ env.bean
    /\ lanDone' = [lanDone EXCEPT ![w] = TRUE]
    /\ IF pub[w] = "lanonly"
       THEN pub' = [pub EXCEPT ![w] = "sent"] /\ Reply(w, "err")
       ELSE pub' = [pub EXCEPT ![w] = "internet"] /\ UNCHANGED got
    /\ UNCHANGED <<lpVars, env, changes, watchdog, woken, jobs, ret, carried, lanFirst,
                   looped>>

\* An exception below TransferModel.control is logged: no result.
LanSilent(w) ==
    /\ pub[w] \in LanCalls /\ IsIntranetControl
    /\ pub' = [pub EXCEPT ![w] = "sent"]
    /\ UNCHANGED <<lpVars, env, changes, watchdog, lanDone, woken, jobs, got, ret, carried,
                   lanFirst, looped>>

\* The frame is in the socket's buffer ...
LanSent(w) ==
    /\ pub[w] \in LanCalls /\ IsIntranetControl
    /\ Carry(w, "lan")
    /\ pub' = [pub EXCEPT ![w] = "lanok"]
    /\ UNCHANGED <<lpVars, env, changes, watchdog, lanDone, woken, jobs, got, ret,
                   lanFirst, looped>>

\* ... and success reported.
LanAnswer(w) ==
    /\ pub[w] = "lanok"
    /\ lanDone' = [lanDone EXCEPT ![w] = TRUE]
    /\ lanFirst' = [lanFirst EXCEPT ![w] = watchdog[w] = "armed"]
    /\ Reply(w, "ok")
    /\ pub' = [pub EXCEPT ![w] = "sent"]
    /\ UNCHANGED <<lpVars, env, changes, watchdog, woken, jobs, ret, carried, looped>>

\* Mutant of Watchdog: the done flag is not looked at, and the timer is never cancelled.
WatchdogUnchecked(w) ==
    /\ watchdog[w] = "armed"
    /\ watchdog' = [watchdog EXCEPT ![w] = "fired"]
    /\ AddJob(w, "internet")
    /\ UNCHANGED <<lpVars, env, changes, pub, lanDone, woken, got, ret, carried, lanFirst,
                   looped>>

\* Mutant of Watchdog: a send that is over needs no watchdog.
WatchdogTrusting(w) ==
    /\ watchdog[w] = "armed"
    /\ watchdog' = [watchdog EXCEPT ![w] = "fired"]
    /\ IF lanDone[w] \/ pub[w] = "sent" THEN UNCHANGED jobs ELSE AddJob(w, "internet")
    /\ UNCHANGED <<lpVars, env, changes, pub, lanDone, woken, got, ret, carried, lanFirst,
                   looped>>

\* 500 ms have passed: the timer cannot be cancelled, only the flag stops it.
Watchdog(w) ==
    /\ watchdog[w] = "armed"
    /\ watchdog' = [watchdog EXCEPT ![w] = "fired"]
    /\ IF lanDone[w] THEN UNCHANGED jobs ELSE AddJob(w, "internet")
    /\ UNCHANGED <<lpVars, env, changes, pub, lanDone, woken, got, ret, carried, lanFirst,
                   looped>>

\* MqttCommHandler.send: the device is woken first; a result that awake() gives at once is
\* acted on by the publishing thread.  Without a cloud there is no manager, and the default
\* awake_fn is such a result.
SendMqtt(w) ==
    /\ pub[w] = "MQTT"
    /\ \/ /\ env.cloud /\ Awake(w)
          /\ IF answers' # answers
             THEN pub' = [pub EXCEPT ![w] = "internet"] /\ woken' = [woken EXCEPT ![w] = @ + 1]
             ELSE pub' = [pub EXCEPT ![w] = "waking"] /\ UNCHANGED woken
       \/ /\ ~env.cloud
          /\ pub' = [pub EXCEPT ![w] = "internet"]
          /\ UNCHANGED <<lpVars, woken>>
    /\ UNCHANGED <<env, changes, watchdog, lanDone, jobs, got, ret, carried, lanFirst, looped>>

\* The manager calls the MQTT handler's callback: every result sends the command.
Woken(w) ==
    /\ woken[w] < answers[w]
    /\ woken' = [woken EXCEPT ![w] = @ + 1]
    /\ AddJob(w, "internet")
    /\ UNCHANGED <<lpVars, env, changes, pub, watchdog, lanDone, got, ret, carried,
                   lanFirst, looped>>

\* awake() has returned, or has raised.
AwakeReturns(w) ==
    /\ pub[w] = "waking"
    /\ start[w] \in {"done", "raised"} /\ Idle(<<w, "start">>)
    /\ pub' = [pub EXCEPT ![w] = IF start[w] = "done" THEN "sent" ELSE "raised"]
    /\ UNCHANGED <<lpVars, env, changes, watchdog, lanDone, woken, jobs, got, ret, carried,
                   lanFirst, looped>>

\* HttpCommHandler and CloudModeHandler.
SendApi(w) ==
    /\ pub[w] \in {"HTTP", "CLOUD_MODE"}
    /\ pub' = [pub EXCEPT ![w] = "api"]
    /\ UNCHANGED <<lpVars, env, changes, watchdog, lanDone, woken, jobs, got, ret, carried,
                   lanFirst, looped>>

\* A plugin's channel; the beacon handler sends nothing when there is no beacon manager.
SendPlugin(w) ==
    /\ pub[w] \in CommunicationEnum \ {"LAN", "MQTT", "HTTP", "CLOUD_MODE"}
    /\ pub' = [pub EXCEPT ![w] = "sent"]
    /\ \/ pub[w] \in Plugins /\ Carry(w, "plugin") /\ Reply(w, "ok")
       \/ pub[w] \in Plugins /\ Reply(w, "err") /\ UNCHANGED carried
       \/ pub[w] \notin Plugins /\ UNCHANGED <<got, carried>>
    /\ UNCHANGED <<lpVars, env, changes, watchdog, lanDone, woken, jobs, ret, lanFirst,
                   looped>>

-----------------------------------------------------------------------------
(* The internet half. *)

\* send_internet and control_by_server: HTTP when the session is down, MQTT when the device
\* is online, else 10203.
ControlByServer(w) ==
    /\ LET next == IF ~env.bean THEN "end"
                   ELSE IF ~env.mqtt /\ env.net THEN "http"
                   ELSE IF env.online THEN "mqtt" ELSE "end" IN
       /\ GoOn(w, "internet", next)
       /\ IF next = "end" THEN Reply(w, "err") ELSE UNCHANGED got
    /\ UNCHANGED <<lpVars, env, changes, watchdog, lanDone, woken, ret, carried, lanFirst,
                   looped>>

\* The no-op seams mqtt_send and http_publish: nothing is sent and nobody is told.
Nowhere(w) ==
    /\ ~env.cloud
    /\ GoOn(w, "mqtt", "end") \/ GoOn(w, "http", "end")
    /\ UNCHANGED <<lpVars, env, changes, watchdog, lanDone, woken, got, ret, carried,
                   lanFirst, looped>>

\* publish_device: refused when the session is not up, which starts the HTTP backup ...
MqttRefused(w) ==
    /\ env.cloud /\ ~env.mqtt
    /\ \/ GoOn(w, "mqtt", "http") /\ UNCHANGED got
       \/ GoOn(w, "mqttonly", "end") /\ Reply(w, "err")
    /\ UNCHANGED <<lpVars, env, changes, watchdog, lanDone, woken, ret, carried, lanFirst,
                   looped>>

\* ... else the broker has it.
MqttSent(w) ==
    /\ env.mqtt
    /\ GoOn(w, "mqtt", "ack") \/ GoOn(w, "mqttonly", "ackonly")
    /\ Carry(w, "mqtt")
    /\ UNCHANGED <<lpVars, env, changes, watchdog, lanDone, woken, got, ret, lanFirst, looped>>

MqttAcked(w) ==
    /\ GoOn(w, "ack", "end") \/ GoOn(w, "ackonly", "end")
    /\ Reply(w, "ok")
    /\ UNCHANGED <<lpVars, env, changes, watchdog, lanDone, woken, ret, carried, lanFirst,
                   looped>>

\* The acknowledgement is lost with the link: the HTTP backup sends the command again.
MqttLost(w) ==
    /\ \/ GoOn(w, "ack", "http") /\ UNCHANGED got
       \/ GoOn(w, "ackonly", "end") /\ Reply(w, "err")
    /\ UNCHANGED <<lpVars, env, changes, watchdog, lanDone, woken, ret, carried, lanFirst,
                   looped>>

\* _http_send and send_dps_by_api: the cloud has taken the command ...
HttpTakes(w) ==
    /\ env.cloud
    /\ GoOn(w, "http", "end") \/ GoOn(w, "api", "end")
    /\ Carry(w, "http")
    /\ Reply(w, "ok")
    /\ UNCHANGED <<lpVars, env, changes, watchdog, lanDone, woken, ret, lanFirst, looped>>

\* ... or not: the sub-device is unknown, there is no Business to ask, the request was refused
\* or, perhaps after the cloud took the command, its answer never came.
HttpFails(w) ==
    /\ GoOn(w, "http", "end") \/ GoOn(w, "api", "end")
    /\ Reply(w, "err")
    /\ (env.cloud /\ Carry(w, "http")) \/ UNCHANGED carried
    /\ UNCHANGED <<lpVars, env, changes, watchdog, lanDone, woken, ret, lanFirst, looped>>

-----------------------------------------------------------------------------
(* The caller and the environment. *)

\* Mutant of Return: success as soon as the publishing thread is back.
ReturnEarly(w) ==
    /\ ret[w] = "none" /\ pub[w] \in {"sent", "raised"}
    /\ ret' = [ret EXCEPT ![w] = IF pub[w] = "raised" \/ "err" \in got[w] THEN "error" ELSE "ok"]
    /\ UNCHANGED <<lpVars, env, changes, pub, watchdog, lanDone, woken, jobs, got, carried,
                   lanFirst, looped>>

\* write_dps ends: the publishing thread is back and some result is there (an error counts
\* when both are), or the thread has raised.
Return(w) ==
    /\ ret[w] = "none"
    /\ \/ pub[w] = "sent" /\ got[w] # {}
       \/ pub[w] = "raised"
    /\ ret' = [ret EXCEPT ![w] = IF pub[w] = "raised" \/ "err" \in got[w] THEN "error" ELSE "ok"]
    /\ UNCHANGED <<lpVars, env, changes, pub, watchdog, lanDone, woken, jobs, got, carried,
                   lanFirst, looped>>

Change ==
    /\ changes < MaxChanges
    /\ changes' = changes + 1
    /\ \E f \in EnvFields \ {"cloud"} :
         env' = [env EXCEPT ![f] = ~@] /\ (f = "mqtt" => env.cloud)
    /\ UNCHANGED <<lpVars, pub, watchdog, lanDone, woken, jobs, got, ret, carried,
                   lanFirst, looped>>

Manager(w) == Waking(w) /\ UNCHANGED <<env, pipeVars>>
ManagerFan(th) == Fanning(th) /\ UNCHANGED <<env, pipeVars>>
Connects == Release /\ UNCHANGED <<env, pipeVars>>
Closes   == Destroy /\ UNCHANGED <<env, pipeVars>>

Entry(w) == \/ \E modes \in ModeLists, parent \in Parents, valid \in BOOLEAN :
                  Publish(w, modes, parent, valid)
            \/ \E mode \in {"Internet", "Local", "Mqtt", "Http"} : PublishMode(w, mode)
            \/ CloudSend(w)

\* What the threads of a command do by themselves.
Progress(w) == \/ SendLan(w) \/ LanRaises(w) \/ LanFails(w) \/ LanSent(w) \/ LanAnswer(w)
               \/ Watchdog(w) \/ SendMqtt(w) \/ Woken(w) \/ AwakeReturns(w)
               \/ SendApi(w) \/ SendPlugin(w)
               \/ ControlByServer(w) \/ Nowhere(w) \/ MqttRefused(w) \/ MqttSent(w) \/ MqttAcked(w)
               \/ MqttLost(w) \/ HttpTakes(w) \/ HttpFails(w) \/ Manager(w)
               \/ (w \notin looped /\ Return(w))

Next == \/ \E w \in Callers : Entry(w) \/ Progress(w) \/ LanSilent(w) \/ Return(w)
        \/ \E th \in Threads : ManagerFan(th)
        \/ Change \/ Connects \/ Closes

\* Every thread keeps running: requests time out and a lost link fails what it carried, so
\* each channel there is gives some answer.  Only the caller that waits for an asyncio.Event
\* may sleep on when other threads set it, which does not wake the loop (cloud.py:385-410).
Fairness == /\ \A w \in Callers : WF_vars(Progress(w))
            /\ \A th \in Threads : WF_vars(ManagerFan(th))

Spec == Init /\ [][Next]_vars /\ Fairness

-----------------------------------------------------------------------------
(* Properties. *)

\* What the caller sees of the pipeline: its call is pending from the moment it publishes
\* until write_dps ends, and a channel's taking the command is what makes it true.
Abstract == INSTANCE Command WITH
    Writes <- Callers,
    state  <- [w \in Callers |-> IF pub[w] = "idle" THEN "idle"
                                 ELSE IF ret[w] = "none" THEN "pending" ELSE ret[w]],
    taken  <- [w \in Callers |-> carried[w] # {}]

\* The pipeline implements Command: whatever the handlers, the watchdog, the wake-ups and
\* the backups do, write_dps (pipeline.py:366-389) ends once, and well only after some
\* channel has taken the command.
ImplementsCommand == Abstract!Spec

\* A command the LAN took in time goes nowhere else: the answer that comes before the
\* watchdog (comm_pipeline.py:549-562) keeps it from the broker and from the cloud.
LanInTimeIsAlone ==
    \A w \in Callers : lanFirst[w] => carried[w] = {"lan"} /\ \A s \in Stages : jobs[w][s] = 0

\* A command that the chain gives to the LAN ends, even when the LAN path swallows an
\* exception and never answers: the watchdog hands it to the server (comm_pipeline.py:549-562).
\* It hangs only where there is no cloud backend and the LAN has not taken it: the server is
\* then a seam that does nothing (pipeline.py:248-259), and write_dps waits for ever.
LanCommandEnds ==
    \A w \in Callers :
      pub[w] = "LAN" ~> ret[w] # "none" \/ [](~env.cloud /\ "lan" \notin carried[w])

\* A command that waits for a sleeping device ends, unless one of the events that lose a
\* wake-up has happened, the transport was closed, or there is no cloud to send it.
WakeCommandEnds ==
    \A w \in Callers :
      pub[w] = "MQTT" ~> ret[w] # "none" \/ raced \/ destroyed \/ ~env.cloud

=============================================================================
