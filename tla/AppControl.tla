----------------------------- MODULE AppControl -----------------------------
(***************************************************************************)
(* The app's control surface: UnifiedDeviceControlManager (device          *)
(* instances, cached state, listeners, the cascade of publish methods) and *)
(* UnifiedDeviceControlHelper (setters that rewrite packed datapoints) of  *)
(* app/manager.py and app/helper.py, for one device.                       *)
(*                                                                         *)
(* The helper's coroutines run on the event loop and do not suspend        *)
(* between the look at the cache and the publish, so a setter is one step; *)
(* the repository is told later, after its own waits.  The SDK calls the   *)
(* listeners on a thread of its own: the cached state, which both replace  *)
(* by a changed copy, is read and written in two steps by a report and by  *)
(* a query.  Another program (PopurClient, whose own races ClientDps has)  *)
(* changes the same device.                                                *)
(***************************************************************************)
EXTENDS DpCodec, FiniteSets

CONSTANTS Tasks,      \* tasks that call the helper
          Listeners,  \* application listeners
          Payloads,   \* payloads the device may start with, [dp -> bytes]
          Changes,    \* the changes that are asked for, <<dp, setting, value>>
          MaxRaises,  \* methods that raise after the device took the command (bound)
          MaxSets     \* times the device is given a change (bound)

Dps == {c[1] : c \in Changes}

ASSUME ControlAssumption ==
    /\ Dps \subseteq Packed
    /\ \A p \in Payloads : \A dp \in Dps : p[dp] \in Seq(Byte)
    /\ MaxSets \in Nat /\ MaxRaises \in Nat

\* A change is of a setting, to a value that it can have, and the times of a payload are on
\* the clock: the helper and encode_dp103 do not refuse others, but they are not read back.
ASSUME ChangesAssumption ==
    /\ \A c \in Changes :
         c[2] \in DOMAIN SettingValues(c[1]) /\ c[3] \in SettingValues(c[1])[c[2]]
    /\ "103" \in Dps => \A p \in Payloads :
         {Decode("103", p["103"]).power_on, Decode("103", p["103"]).power_off} \subseteq Timers

VARIABLES
    device,    \* the payload the device really has
    reports,   \* datapoint reports on their way to the SDK
    bean,      \* the datapoints of the SDK's own bean of the device
    instance,  \* device_instances has the device
    attached,  \* the listener objects the SDK calls: "proxy", "simple"
    bridge,    \* listener_bridges: "none", "proxy", "simple"
    listeners, \* app_listeners
    states,    \* the manager's cached dp_data
    repo,      \* the repository's dp_states
    pending,   \* a task's command the repository is still to be told of
    want,      \* what was asked for: the settings the device should have
    blind,     \* some payload was made from bytes that were not the device's
    missed,    \* datapoints of which the cache has lost a report
    merging,   \* the report that the SDK's thread is merging into the cached state
    asking,    \* the query whose result the loop is about to write to the cached state
    form,      \* how the SDK spells packed payloads: "raw" (hex and lists) or "base64"
    sets       \* changes so far, each as often as the device took it

control == <<instance, attached, bridge, listeners>>
cached  == <<bean, states, repo, pending, merging, asking>>
vars    == <<device, reports, control, cached, want, blind, missed, form, sets>>

Values == {NoValue, Text} \cup [kind : {"raw", "base64"}, bytes : Seq(Byte)]

States == [Dps -> Values]

Width == [dp \in Packed |-> CASE dp = "102" -> 29 [] dp = "103" -> 10 [] dp = "104" -> 3 [] dp = "105" -> 7]

\* What the variables hold; a payload the device was given has its full length.
TypeOK ==
    /\ \A dp \in Dps : device[dp] \in Seq(Byte) /\ Len(device[dp]) = Width[dp]
    /\ reports \in Seq(Dps \X Seq(Byte))
    /\ instance \in BOOLEAN
    /\ attached \subseteq {"proxy", "simple"} /\ bridge \in {"none", "proxy", "simple"}
    /\ listeners \subseteq Listeners
    /\ \A dp \in Dps : {bean[dp], states[dp], repo[dp]} \subseteq Values
    /\ pending \in [Tasks -> {<<>>} \cup (Dps \X Values)]
    /\ \A dp \in Dps : DOMAIN want[dp] = DOMAIN Decode(dp, <<>>)
    /\ blind \in BOOLEAN /\ missed \subseteq Dps /\ form \in {"raw", "base64"}
    /\ merging \in {<<>>} \cup [dp : Dps, bytes : Seq(Byte), seen : States]
    /\ asking \in {<<>>} \cup [state : States, late : SUBSET Dps]
    /\ sets \in 0..MaxSets

\* A payload as the SDK spells it.  What was base64 before the transport boundary is hex after
\* it, when the schema says that the datapoint is raw; else it is left (Inbound, DecodeRaw).
Spelled(bytes) == [kind |-> form, bytes |-> bytes]

\* _payload_to_bytes: base64 is not decoded, unlike in PopurClient.
Readable(v) == IF v.kind = "raw" THEN v.bytes ELSE <<>>

Unknown == [dp \in Dps |-> NoValue]
Current == [dp \in Dps |-> Spelled(device[dp])]

Init ==
    /\ \E p \in Payloads : device = [dp \in Dps |-> Normalize(dp, p[dp])]
    /\ form \in {"raw", "base64"}
    /\ bean \in {Unknown, Current}
    /\ want = [dp \in Dps |-> Decode(dp, device[dp])]
    /\ reports = <<>> /\ instance = FALSE /\ attached = {} /\ bridge = "none" /\ listeners = {}
    /\ states = Unknown /\ repo = Unknown /\ pending = [t \in Tasks |-> <<>>]
    /\ merging = <<>> /\ asking = <<>> /\ blind = FALSE /\ missed = {} /\ sets = 0

-----------------------------------------------------------------------------
(* Sending. *)

\* What a publish method of the instance may do: not be there, raise before or after the
\* device took the command, accept it, have it refused, or answer only later.
Behaviours == {"absent", "raises", "raisesTaken", "ok", "refused", "late"}

\* The order in which send_device_command tries them.
Attempts(hasBytes) ==
    IF hasBytes THEN <<"raw", "simple", "sdk", "generic">> ELSE <<"sdk", "simple", "generic">>

\* publishDps has one parameter or two; only methods with a callback are refused or late.
InstanceMethods ==
    {beh \in [{"raw", "simple", "sdk", "generic"} -> Behaviours] :
        /\ "absent" \in {beh["sdk"], beh["simple"]}
        /\ {beh["simple"], beh["generic"]} \cap {"refused", "late"} = {}
        /\ Cardinality({a \in DOMAIN beh : beh[a] = "raisesTaken"}) <= MaxRaises}

\* The cascade: the first method that does not raise decides the result, but those that
\* raised may have reached the device before it.
Cascade(beh, hasBytes) ==
    LET seq   == Attempts(hasBytes)
        k     == SelectInSeq(seq, LAMBDA a : beh[a] \in {"ok", "refused", "late"})
        tried == 1..(IF k = 0 THEN Len(seq) ELSE k)
    IN  [result |-> IF k = 0 THEN "refused" ELSE beh[seq[k]],
         taken  |-> Cardinality({i \in tried : beh[seq[i]] \in {"raisesTaken", "ok", "late"}})]

\* The outcomes of the cascade for the methods an instance may have.
TextOutcomes == {Cascade(beh, FALSE) : beh \in InstanceMethods}
ByteOutcomes == {Cascade(beh, TRUE) : beh \in InstanceMethods}

\* The device takes a payload once or more often, and reports it every time.
Apply(dp, bytes, taken) ==
    /\ device' = [device EXCEPT ![dp] = IF taken > 0 THEN bytes ELSE @]
    /\ reports' = reports \o [i \in 1..taken |-> <<dp, bytes>>]

\* A command counts as often as the device takes it.
Cost(out) == IF out.taken > 1 THEN out.taken ELSE 1

\* The helper's send_device_command after the cascade: the repository is told of a success;
\* a command without an answer yet fails an assertion although it was sent.
Answered(t, out, dp, value) ==
    pending' = [pending EXCEPT ![t] = IF out.result = "ok" THEN <<dp, value>> ELSE @]

\* get_or_create_device: a new instance begins with an empty state.
Created(made) == ~instance /\ made

\* The event loop is not in the middle of a query.
Free == asking = <<>>

\* get_or_create_device in a call that does not look at the state before.
Make(made) ==
    /\ made => ~instance
    /\ instance' = (instance \/ made)
    /\ IF Created(made) THEN states' = Unknown /\ missed' = {} ELSE UNCHANGED <<states, missed>>

\* A report of the datapoint is on its way, or about to be merged.
Arriving(dp) ==
    (\E i \in DOMAIN reports : reports[i][1] = dp) \/ (merging # <<>> /\ merging.dp = dp)

\* The value a setter starts from: the cached one, else the repository's.
Queried(dp) == IF states[dp] # NoValue THEN states[dp] ELSE repo[dp]

\* set_sleep_time keeps the value that is asked for below 200; the other setters take it.
Asked(c) == IF c[2] = "hibernate_duration" THEN Clamp(c[3], 0, 200) ELSE c[3]

\* The setters, set_bin_full_detection to set_utc_setting: each rewrites its own part of the
\* payload that was read.
Setter(c, read) == Mutate(c[1], read, c[2], Asked(c))

\* Why a setter may start from bytes that are not the device's: the cache has nothing, has
\* not yet or never will have the last report, or has it in a spelling that is not read.
Excused(dp) == states[dp] = NoValue \/ Arriving(dp) \/ dp \in missed \/ form = "base64"

\* _update_packed_payload: read, change, publish.  Without an instance nothing is sent.  A
\* datapoint that the cache does not have was queried before, in vain: there was no instance,
\* or its bean did not have it (Ask, AskEnds).
Set(t, c, made, out) ==
    LET dp    == c[1]
        bytes == Setter(c, Readable(Queried(dp)))   \* of an empty payload, if it does not decode
    IN  /\ Free /\ c[2] \in Mutable(dp)
        /\ instance /\ states[dp] = NoValue => bean[dp] = NoValue
        /\ pending[t] = <<>> /\ sets + Cost(out) <= MaxSets
        /\ sets' = sets + Cost(out)
        /\ Make(made)
        /\ IF instance \/ made
           THEN /\ Apply(dp, bytes, out.taken)
                /\ Answered(t, out, dp, Raw(bytes))
                /\ want' = IF out.taken > 0 THEN [want EXCEPT ![dp][c[2]] = Asked(c)] ELSE want
                /\ blind' = (blind \/ (out.taken > 0 /\ Excused(dp)))
           ELSE UNCHANGED <<device, reports, pending, want, blind>>
        /\ UNCHANGED <<attached, bridge, listeners, bean, repo, merging, asking, form>>

\* A value that is written whole: set_key_settings and the other setters that read nothing.
Overwrite(t, dp, p, made, out) ==
    LET bytes == Normalize(dp, p[dp]) IN
    /\ Free /\ pending[t] = <<>> /\ sets + Cost(out) <= MaxSets
    /\ sets' = sets + Cost(out)
    /\ Make(made)
    /\ IF instance \/ made
       THEN /\ Apply(dp, bytes, out.taken)
            /\ Answered(t, out, dp, Raw(bytes))
            /\ want' = [want EXCEPT ![dp] = IF out.taken > 0 THEN Decode(dp, bytes) ELSE @]
       ELSE UNCHANGED <<device, reports, pending, want>>
    /\ UNCHANGED <<attached, bridge, listeners, bean, repo, merging, asking, blind, form>>

\* set_operation_mode: a text is sent as DP102.  The device keeps its payload, the
\* repository keeps the text.
SetOperationMode(t, made, out) ==
    /\ Free /\ "102" \in Dps /\ pending[t] = <<>> /\ sets < MaxSets
    /\ sets' = sets + 1
    /\ Make(made)
    /\ IF instance \/ made THEN Answered(t, out, "102", Text) ELSE UNCHANGED pending
    /\ UNCHANGED <<device, reports, attached, bridge, listeners, bean, repo, merging, asking, want,
                   blind, form>>

\* The repository's update, when its waits are over; two tasks may end in either order.
Settle(t) ==
    /\ Free /\ pending[t] # <<>>
    /\ repo' = [repo EXCEPT ![pending[t][1]] = pending[t][2]]
    /\ pending' = [pending EXCEPT ![t] = <<>>]
    /\ UNCHANGED <<device, reports, control, bean, states, merging, asking, want, blind, missed,
                   form, sets>>

\* PopurClient.update_*_settings, set_key_lock and set_time_power of another program, from a
\* payload it has just read.
ClientUpdate(c) ==
    LET dp    == c[1]
        old   == device[dp]
        bytes == Encode(dp, [Decode(dp, old) EXCEPT ![c[2]] = c[3]], old)
    IN  /\ sets < MaxSets
        /\ sets' = sets + 1
        /\ Apply(dp, bytes, 1)
        /\ want' = [want EXCEPT ![dp][c[2]] = c[3]]
        /\ UNCHANGED <<control, cached, blind, missed, form>>

-----------------------------------------------------------------------------
(* Listeners. *)

\* A query that is under way has read the bean and the state before this report.
Overtake(dp) == asking' = IF asking = <<>> THEN asking ELSE [asking EXCEPT !.late = @ \cup {dp}]

\* A report reaches the SDK's bean and, through an attached proxy, dispatch_callback, which
\* reads the cached state.
Report ==
    LET dp == Head(reports)[1]  bytes == Head(reports)[2] IN
    /\ merging = <<>> /\ reports # <<>>
    /\ reports' = Tail(reports)
    /\ bean' = [bean EXCEPT ![dp] = Spelled(bytes)]
    /\ Overtake(dp)
    /\ IF "proxy" \in attached
       THEN merging' = [dp |-> dp, bytes |-> bytes, seen |-> states] /\ UNCHANGED missed
       ELSE /\ UNCHANGED merging
            /\ missed' = IF states[dp] = NoValue THEN missed ELSE missed \cup {dp}
    /\ UNCHANGED <<device, control, states, repo, pending, want, blind, form, sets>>

\* Mutant of Merged: the proxy tells the listeners and forgets the cached state.
MergedNot ==
    /\ merging # <<>>
    /\ merging' = <<>>
    /\ missed' = missed \ {merging.dp}
    /\ UNCHANGED <<device, reports, control, bean, states, repo, pending, asking, want, blind, form,
                   sets>>

\* dispatch_callback puts the changed copy in place.  What a query wrote in between is undone.
Merged ==
    /\ merging # <<>>
    /\ merging' = <<>>
    /\ states' = [merging.seen EXCEPT ![merging.dp] = Spelled(merging.bytes)]
    /\ missed' = (missed \cup {d \in Dps : merging.seen[d] \notin {NoValue, states[d]}})
                   \ {merging.dp}
    /\ UNCHANGED <<device, reports, control, bean, repo, pending, asking, want, blind, form, sets>>

\* What a registration method may do.
Registering == {"absent", "raises", "raisesAttached", "ok"}

\* The SDK's list after a call of it with a listener.
Attach(list, l, how) == IF how \in {"raisesAttached", "ok"} THEN list \cup {l} ELSE list

\* The first listener brings a listener object to the SDK, with full or with simple
\* registration; one that the SDK cannot be given is dropped.
Bridge(l, full, simple) ==
    \/ /\ full = "ok"
       /\ listeners' = listeners \cup {l} /\ bridge' = "proxy"
       /\ attached' = Attach(attached, "proxy", full)
    \/ /\ full # "ok" /\ simple = "ok"
       /\ listeners' = listeners \cup {l} /\ bridge' = "simple"
       /\ attached' = Attach(Attach(attached, "proxy", full), "simple", simple)
    \/ /\ full # "ok" /\ simple # "ok"
       /\ attached' = Attach(Attach(attached, "proxy", full), "simple", simple)
       /\ UNCHANGED <<bridge, listeners>>

\* register_listener; the call reports success even when the listener is dropped.
RegisterListener(l, made) ==
    /\ Free /\ Make(made)
    /\ \/ /\ ~(instance \/ made) \/ l \in listeners
          /\ UNCHANGED <<attached, bridge, listeners>>
       \/ /\ (instance \/ made) /\ l \notin listeners /\ bridge # "none"
          /\ listeners' = listeners \cup {l} /\ UNCHANGED <<attached, bridge>>
       \/ /\ (instance \/ made) /\ l \notin listeners /\ bridge = "none"
          /\ \E full, simple \in Registering : Bridge(l, full, simple)
    /\ UNCHANGED <<device, reports, bean, repo, pending, merging, asking, want, blind, form, sets>>

\* unregister_sdk_listener: a failure of the SDK's method is swallowed.
UnregisterSdk(works) ==
    /\ bridge' = "none"
    /\ attached' = IF instance /\ works THEN {} ELSE attached

\* Mutant of UnregisterListener: the SDK's listener goes with any application listener.
UnregisterListenerAlways(l, works) ==
    /\ Free /\ l \in listeners
    /\ listeners' = listeners \ {l}
    /\ UnregisterSdk(works)
    /\ UNCHANGED <<device, reports, instance, cached, want, blind, missed, form, sets>>

UnregisterListener(l, works) ==
    /\ Free /\ l \in listeners
    /\ listeners' = listeners \ {l}
    /\ IF listeners = {l} THEN UnregisterSdk(works) ELSE UNCHANGED <<bridge, attached>>
    /\ UNCHANGED <<device, reports, instance, cached, want, blind, missed, form, sets>>

\* dispatch_callback's onRemoved: the listeners are gone before they could be told.
OnRemoved(works) ==
    /\ merging = <<>> /\ "proxy" \in attached
    /\ listeners' = {} /\ instance' = FALSE
    /\ UnregisterSdk(works)
    /\ states' = Unknown /\ missed' = {}
    /\ bean' = Unknown
    /\ UNCHANGED <<device, reports, repo, pending, merging, asking, want, blind, form, sets>>

\* batch_query_dps, which makes the instance and lets the reports do the rest.
BatchQuery(made) ==
    /\ Free /\ Make(made)
    /\ UNCHANGED <<device, reports, attached, bridge, listeners, bean, repo, pending, merging, asking,
                   want, blind, form, sets>>

\* read_device_dps laid over a state: the datapoints of the bean win.
ReadDeviceDps(old) == [d \in Dps |-> IF bean[d] # NoValue THEN bean[d] ELSE old[d]]

\* query_device_dp, by a setter or by an application that only reads, of a datapoint that the
\* cache does not have: the manager reads the bean and, unless it is empty, the state.
Ask(dp, made) ==
    LET old == IF instance THEN states ELSE Unknown IN
    /\ Free /\ (instance \/ made) /\ states[dp] = NoValue
    /\ Make(made)
    /\ asking' = IF bean = Unknown THEN <<>>
                 ELSE [state |-> ReadDeviceDps(old), late |-> {d \in missed : bean[d] = NoValue}]
    /\ UNCHANGED <<device, reports, attached, bridge, listeners, bean, repo, pending, merging, want,
                   blind, form, sets>>

\* The manager writes the state.  What a report merged in between is undone.
AskEnds ==
    /\ asking # <<>>
    /\ asking' = <<>>
    /\ states' = asking.state
    /\ missed' = {d \in asking.late : asking.state[d] # NoValue}
    /\ UNCHANGED <<device, reports, control, bean, repo, pending, merging, want, blind, form, sets>>

\* The SDK loads its bean from the cloud, which has what the device last reported.
BeanLoads ==
    /\ bean = Unknown /\ reports = <<>>
    /\ bean' = Current
    /\ UNCHANGED <<device, reports, control, states, repo, pending, merging, asking, want, blind,
                   missed, form, sets>>

Next ==
    \/ \E t \in Tasks, made \in BOOLEAN :
         \/ \E c \in Changes, out \in TextOutcomes : Set(t, c, made, out)
         \/ \E dp \in Dps, p \in Payloads, out \in TextOutcomes \cup ByteOutcomes :
              Overwrite(t, dp, p, made, out)
         \/ \E out \in TextOutcomes : SetOperationMode(t, made, out)
    \/ \E t \in Tasks : Settle(t)
    \/ \E c \in Changes : ClientUpdate(c)
    \/ Report
    \/ Merged
    \/ \E l \in Listeners, made \in BOOLEAN : RegisterListener(l, made)
    \/ \E l \in Listeners, works \in BOOLEAN : UnregisterListener(l, works)
    \/ \E works \in BOOLEAN : OnRemoved(works)
    \/ \E made \in BOOLEAN : BatchQuery(made)
    \/ \E dp \in Dps, made \in BOOLEAN : Ask(dp, made)
    \/ AskEnds
    \/ BeanLoads

Spec == Init /\ [][Next]_vars

-----------------------------------------------------------------------------
(* Properties. *)

\* Changing one setting changes no other, whichever of the two code paths does it and
\* whatever unusual bytes the payload has, as long as the cache was not known to be behind when
\* a setter looked at it: it had the datapoint, no report was under way or lost, and the SDK
\* spells payloads in a way the helper reads (helper.py, _update_packed_payload; dps.py,
\* encode_dp102: fields unchanged from the decoded baseline are left byte-for-byte intact).
SettingsKept == blind \/ \A dp \in Dps : Decode(dp, device[dp]) = want[dp]

\* A cached datapoint is the device's, unless a report of it is still on its way, came while
\* no proxy listened, or was undone by a query or a report that wrote an older copy.  It is
\* what a setter starts from (helper.py, query_device_dp).
CacheCurrent ==
    \A dp \in Dps \ missed :
        states[dp] # NoValue /\ ~Arriving(dp) => states[dp] = Spelled(device[dp])

\* An application listener that was accepted stays attached to the SDK until it leaves or the
\* device is removed (manager.py, register_listener and unregister_listener).
ListenersAttached ==
    /\ listeners # {} => bridge # "none"
    /\ bridge # "none" => bridge \in attached
=============================================================================
