------------------------------ MODULE Inbound ------------------------------
(***************************************************************************)
(* What comes in from one device.                                          *)
(*                                                                         *)
(* Over MQTT: MqttServerManager.parse_message (sdk/mqtt_session.py), the   *)
(* decoders (sdk/mqtt_framing.py), the duplicate filter (sdk/dedup.py),    *)
(* DeviceEventListener and its sink (events.py), and CentralDpIngest with  *)
(* the device cache (sdk/device_cache.py, sdk/validation.py).              *)
(*                                                                         *)
(* Over the LAN: TransferModel's reassembly and dispatch and the response  *)
(* parsers of ThingHardwareManager (sdk/lan_session.py), which end in the  *)
(* transport's _DpListener (local.py).                                     *)
(*                                                                         *)
(* Delivery is at least once: a message may arrive several times, damaged  *)
(* or out of order.  Ciphers and signatures are modelled by whether a copy *)
(* passes them.  Each LAN link has a reader thread; those of several links *)
(* share the reassembly buffer without a lock.                             *)
(***************************************************************************)
EXTENDS Integers, FiniteSets, Sequences

CONSTANTS Messages,    \* what the device sends over MQTT, see Message
          Frames,      \* what it answers over the LAN, see Frame
          Devices,     \* the kinds of device the cache may hold, see Kind
          Gateways,    \* the LAN links that share the TransferModel
          LogLength,   \* fragments of a gateway's log
          Copies,      \* copies of each message (bound)
          Budgets,     \* how much may happen (bounds): see Events
          Window,      \* WINDOW_MS, in ticks
          Threshold    \* the size at which the store is swept

\* Copies of messages that arrive, LAN frames and reads, fragments of logs, ticks.
Events == {"mqtt", "lan", "log", "tick"}

ASSUME InboundAssumption ==
    /\ Copies \in Nat \ {0} /\ Budgets \subseteq [Events -> Nat]
    /\ LogLength \in Nat \ {0} /\ Window \in Nat /\ Threshold \in Nat

\* A message: its topic, the form of its payload, its numbers s and o as digits, the value of
\* the datapoint with its time, and whether a schema allows the value: for a RAW datapoint,
\* whether it can be converted, since text left as it is fails the check for hex.
Message == [topic : {"device", "user", "tylink", "yu", "flow"},
            form  : {"json", "2.0", "1.1", "2.1", "2.2", "2.3", "old"},
            s : Seq(0..9), o : Seq(0..9), value : Nat, time : Nat, valid : BOOLEAN]

\* A LAN frame: its type, the version that frames it, the return code, whether it can be
\* read, whom it is about, and the datapoint's value.
Frame == [type : {"STATUS", "DP_QUERY", "DP_QUERY_NEW", "HEART_BEAT", "EXT_STREAM", "OTHER"},
          lpv : {"3.4", "3.3", "3.1", "1.0"}, code : {0, 1}, good : BOOLEAN,
          about : {"device", "sub", "group"}, value : Nat]

\* A device: whether the cache knows it, its map of datapoints may be null, it may be a
\* single-mode or dual-mode BLE device that is in reach over BLE, it may be online over
\* another channel or a Yu device, and it may be a low-power one.  The listener may have its
\* local key, and the sink a schema of the datapoint.
Kind == [known : BOOLEAN, null : BOOLEAN, ble : {"no", "single", "dual"}, near : BOOLEAN,
         online : BOOLEAN, first : BOOLEAN, yu : BOOLEAN, lowPower : BOOLEAN, key : BOOLEAN,
         schema : {"raw", "other", "none"}]

ASSUME InboundShapes ==
    Messages \subseteq Message /\ Frames \subseteq Frame /\ Devices \subseteq Kind

VARIABLES
    kind,       \* the device
    left,       \* copies of each message still to arrive
    store,      \* _so_store: the time each key was seen, for the keys it has
    cache,      \* the cached datapoint and its time
    event,      \* the last event that was posted
    accepted,   \* when a copy of each message was last delivered, -1 if never
    swallowed,  \* a copy of it was swallowed, or could not be read, since
    damaged,    \* a copy of it could not be read
    now,
    lastDps,    \* LocalTuyaTransport._last_dps, -1 when there is none
    read,       \* a LAN read: "idle", "waiting", "done", "failed"
    buffer,     \* TransferModel._reassembly
    sent,       \* fragments of its log each gateway has sent
    reader,     \* what the reader thread of each link is about to do with the last of them
    seen,       \* the buffer as it has read it
    logs,       \* the last log that was delivered
    arrived,    \* the fragments that have arrived since the buffer was emptied
    crossed,    \* two readers have met, and nobody has emptied the buffer alone since
    budget      \* how many events of each kind are left

mqttVars == <<left, store, cache, event, accepted, swallowed, damaged>>
lanVars  == <<lastDps, read>>
logVars  == <<buffer, sent, reader, seen, logs, arrived, crossed>>
vars     == <<kind, mqttVars, now, lanVars, logVars, budget>>

None == -1

\* RAW datapoints come as base64 text; where they are known to be RAW they are kept as hex.
Raw(v) == <<"base64", v>>
Hex(v) == <<"hex", v>>
NoValue == <<"none", 0>>

\* The form a value is kept in.
Form == IF kind.schema = "raw" THEN "hex" ELSE "base64"

\* What the variables hold; a value that the schema calls RAW is nowhere kept undecoded.
TypeOK ==
    /\ kind \in Kind /\ left \in [Messages -> 0..Copies] /\ now \in Nat
    /\ budget \in [Events -> Nat]
    /\ \A k \in DOMAIN store : store[k] \in 0..now
    /\ cache.value[1] \in {Form, "none"} /\ event[1] \in {Form, "none"}
    /\ accepted \in [Messages -> None..now]
    /\ swallowed \in [Messages -> BOOLEAN] /\ damaged \in [Messages -> BOOLEAN]
    /\ read \in {"idle", "waiting", "done", "failed"}
    /\ read = "done" => lastDps # None
    /\ sent \in [Gateways -> 0..LogLength] /\ crossed \in BOOLEAN
    /\ reader \in [Gateways -> {"idle", "append", "take", "hand"}]

Init ==
    /\ kind \in Devices
    /\ left = [m \in Messages |-> Copies]
    /\ store = [k \in {} |-> 0]
    /\ cache = [value |-> NoValue, time |-> None] /\ event = NoValue
    /\ accepted = [m \in Messages |-> None]
    /\ swallowed = [m \in Messages |-> FALSE] /\ damaged = [m \in Messages |-> FALSE]
    /\ now = 0
    /\ lastDps = None /\ read = "idle"
    /\ buffer = <<>> /\ logs = <<>> /\ arrived = <<>> /\ crossed = FALSE
    /\ sent = [g \in Gateways |-> 0]
    /\ reader = [g \in Gateways |-> "idle"] /\ seen = [g \in Gateways |-> <<>>]
    /\ budget \in Budgets

Spend(e) == budget[e] > 0 /\ budget' = [budget EXCEPT ![e] = @ - 1]

-----------------------------------------------------------------------------
(* dedup.py *)

\* Mutant of Key: the second number is left out.
KeyWithoutO(m) == m.s

\* The key is the two numbers written one after the other.
Key(m) == m.s \o m.o

Fresh(k) == k \in DOMAIN store /\ now - store[k] < Window

\* _lookup answers that the key was seen.
Hit(m) == m.o # <<0>> /\ Fresh(Key(m))

\* is_data_updated_so: a repeat is swallowed, except a low-power device's.
IsDataUpdated(m) == Hit(m) /\ ~kind.lowPower

\* Mutant of Swept: a full store forgets everything.
SweptAll == IF Cardinality(DOMAIN store) > Threshold THEN [k \in {} |-> 0] ELSE store

\* A store that has grown past the threshold drops its stale keys.
Swept ==
    IF Cardinality(DOMAIN store) > Threshold
    THEN [k \in {x \in DOMAIN store : Fresh(x)} |-> store[k]]
    ELSE store

\* The store after _lookup: a hit removes the key, a miss enters it.
LookedUp(m) ==
    IF m.o = <<0>> THEN store
    ELSE IF Fresh(Key(m)) THEN [k \in DOMAIN store \ {Key(m)} |-> store[k]]
    ELSE [k \in {Key(m)} \cup DOMAIN Swept |-> IF k = Key(m) THEN now ELSE Swept[k]]

-----------------------------------------------------------------------------
(* mqtt_framing.py and parse_message *)

\* Everything but plain text needs a local key, and keys are kept by device.
Keyed(m) == m.form = "json" \/ (m.topic = "device" /\ kind.key)

\* The forms that look at s and o, before anything of the payload is verified.
Dedups(m) == m.form \in {"1.1", "2.2", "2.3"} /\ m.topic \in {"device", "user"} /\ Keyed(m)

\* A copy is handed to the listener as a message: text of any topic but a flow's, a binary
\* form that is known, has its key and passes its checks.  A damaged copy passes none, except
\* that the bytes of a Yu topic are not looked at.
Decodes(m, good) ==
    CASE m.topic = "flow"  -> FALSE
      [] m.topic = "yu"    -> TRUE
      [] m.form = "old"    -> FALSE
      [] OTHER             -> good /\ (m.topic = "tylink" \/ Keyed(m))

\* on_mqtt_dp_received_success lifts datapoints out of the envelope, which a Yu message
\* does not have.
HasDps(m) == m.topic # "yu"

-----------------------------------------------------------------------------
(* CentralDpIngest *)

\* _filter_single_ble and _filter_ble_preferred: the device is heard over BLE instead.
FilteredForBle ==
    \/ kind.ble = "single" /\ kind.near
    \/ kind.ble = "dual" /\ kind.near /\ (~kind.online \/ kind.first)

\* decode_raw: a value is left as it came when no schema calls it RAW, or it cannot be
\* converted.
DecodeRaw(m) == IF kind.schema = "raw" /\ m.valid THEN Hex(m.value) ELSE Raw(m.value)

\* check_receive_command: without a schema everything may pass.
CheckReceive(m) == kind.schema = "none" \/ m.valid

\* The times say that this is not newer, and the value is the cached one.
IsOld(m) ==
    kind.yu /\ m.time > 0 /\ cache.time >= m.time /\ ~kind.null /\ cache.value = DecodeRaw(m)

Ingests(m) == kind.known /\ ~FilteredForBle /\ CheckReceive(m) /\ ~IsOld(m)

\* merge_dps and merge_dps_time: without a map of datapoints the value goes nowhere.
Merged(m) ==
    [value |-> IF kind.null THEN cache.value ELSE DecodeRaw(m),
     time  |-> IF m.time > 0 THEN m.time ELSE cache.time]

Ingest(m) ==
    IF Ingests(m) THEN cache' = Merged(m) /\ event' = DecodeRaw(m)
    ELSE UNCHANGED <<cache, event>>

\* A copy of m arrives, whole or damaged.
Arrives(m, good) ==
    LET drop == Dedups(m) /\ IsDataUpdated(m)
        deliver == ~drop /\ Decodes(m, good)
    IN  /\ Spend("mqtt")
        /\ left[m] > 0 /\ left' = [left EXCEPT ![m] = @ - 1]
        /\ store' = IF Dedups(m) THEN LookedUp(m) ELSE store
        /\ IF deliver /\ HasDps(m) THEN Ingest(m) ELSE UNCHANGED <<cache, event>>
        /\ accepted' = [accepted EXCEPT ![m] = IF deliver THEN now ELSE @]
        /\ swallowed' = [swallowed EXCEPT ![m] = ~deliver]
        /\ damaged' = [damaged EXCEPT ![m] = @ \/ ~good]
        /\ UNCHANGED <<kind, now, lanVars, logVars>>

\* DevListCacheManager.add_dev: the device is listed again, with its datapoints or without.
AddDev ==
    /\ Spend("mqtt")
    /\ \E null \in BOOLEAN : kind' = [kind EXCEPT !.known = TRUE, !.null = null]
    /\ cache' = [value |-> NoValue, time |-> None]
    /\ UNCHANGED <<left, store, event, accepted, swallowed, damaged, now, lanVars, logVars>>

Tick ==
    /\ Spend("tick") /\ now' = now + 1
    /\ UNCHANGED <<kind, mqttVars, lanVars, logVars>>

-----------------------------------------------------------------------------
(* The LAN: ThingHardwareManager.on_dev_response and local.py. *)

BeginRead ==
    /\ read # "waiting" /\ read' = "waiting" /\ Spend("lan")
    /\ UNCHANGED <<kind, mqttVars, now, lastDps, logVars>>

\* The wait for an answer ends by its timeout.
ReadTimesOut ==
    /\ read = "waiting" /\ read' = "failed"
    /\ UNCHANGED <<kind, mqttVars, now, lastDps, logVars, budget>>

\* _complete_read.
CompleteRead(how) == read' = IF read = "waiting" THEN how ELSE read

\* What a frame becomes: datapoints that also end a read, datapoints of a group, an error,
\* or nothing.  Version 3.1 drops what it cannot decrypt or verify in silence, and 3.2 and
\* 3.3 report it; 3.4 raises into a log.  Sub-devices are told apart from their gateway, yet
\* the transport merges both.
Outcome(f) ==
    CASE f.type \notin {"STATUS", "DP_QUERY", "DP_QUERY_NEW"} -> "none"
      [] f.code # 0                                         -> "error"
      [] ~f.good /\ f.type = "STATUS" /\ f.lpv = "3.3"      -> "error"
      [] ~f.good                                            -> "none"
      [] f.type = "STATUS" /\ f.about = "group" /\ f.lpv # "3.4" -> "group"
      [] OTHER                                              -> "dps"

LanFrame(f) ==
    /\ Spend("lan")
    /\ lastDps' = IF Outcome(f) \in {"dps", "group"} THEN f.value ELSE lastDps
    /\ CASE Outcome(f) = "dps"   -> CompleteRead("done")
         [] Outcome(f) = "error" -> CompleteRead("failed")
         [] OTHER                -> UNCHANGED read
    /\ UNCHANGED <<kind, mqttVars, now, logVars>>

\* Readers other than that of g are in the middle of a fragment.
Met(g) == \E h \in Gateways \ {g} : reader[h] # "idle"

At(g, from, to) == reader[g] = from /\ reader' = [reader EXCEPT ![g] = to]

\* response_by_binary of a LAN_REQUEST_GW_LOG frame: the next fragment of a gateway's log,
\* for which _reassemble reads the buffer.
FragmentArrives(g) ==
    /\ sent[g] < LogLength /\ Spend("log") /\ sent' = [sent EXCEPT ![g] = @ + 1]
    /\ At(g, "idle", "append") /\ seen' = [seen EXCEPT ![g] = buffer]
    /\ arrived' = Append(arrived, <<g, sent'[g]>>) /\ crossed' = (crossed \/ Met(g))
    /\ UNCHANGED <<kind, mqttVars, now, lanVars, buffer, logs>>

\* The buffer becomes what was read and the fragment.
FragmentAppended(g) ==
    /\ At(g, "append", IF sent[g] = LogLength THEN "take" ELSE "idle")
    /\ buffer' = Append(seen[g], <<g, sent[g]>>)
    /\ UNCHANGED <<kind, mqttVars, now, lanVars, sent, seen, logs, arrived, crossed, budget>>

\* The last fragment completes whatever the buffer has now.
LogTaken(g) ==
    /\ At(g, "take", "hand") /\ seen' = [seen EXCEPT ![g] = buffer]
    /\ UNCHANGED <<kind, mqttVars, now, lanVars, buffer, sent, logs, arrived, crossed, budget>>

\* Mutant of Delivered: the buffer is kept.
DeliveredKept(log) == logs' = log /\ UNCHANGED buffer

\* The buffer is emptied and the log is handed on.
Delivered(log) == logs' = log /\ buffer' = <<>>

LogDelivered(g) ==
    /\ At(g, "hand", "idle") /\ Delivered(seen[g])
    /\ arrived' = <<>> /\ crossed' = (crossed /\ Met(g))
    /\ UNCHANGED <<kind, mqttVars, now, lanVars, sent, seen, budget>>

ReaderStep(g) == FragmentArrives(g) \/ FragmentAppended(g) \/ LogTaken(g) \/ LogDelivered(g)

\* Another log is requested from a gateway, whose link may have been lost before the last
\* fragment: what has arrived stays in the buffer.
LogRequested(g) ==
    /\ sent[g] > 0 /\ reader[g] = "idle" /\ sent' = [sent EXCEPT ![g] = 0]
    /\ UNCHANGED <<kind, mqttVars, now, lanVars, buffer, reader, seen, logs, arrived, crossed,
                   budget>>

Next ==
    \/ \E m \in Messages : \E good \in BOOLEAN : Arrives(m, good)
    \/ AddDev \/ Tick
    \/ BeginRead \/ ReadTimesOut \/ \E f \in Frames : LanFrame(f)
    \/ \E g \in Gateways : ReaderStep(g) \/ LogRequested(g)

Spec == Init /\ [][Next]_vars

-----------------------------------------------------------------------------
(* Properties. *)

\* The numbers of no other message are written like those of m.
Unmistakable(m) ==
    \A n \in Messages \ {m} : Dedups(n) => n.s \o n.o # m.s \o m.o

\* No message is lost to the duplicate filter: one whose copies have all arrived, in
\* whatever order and however often, was handed to the listener at least once - provided no
\* copy was damaged, since the filter enters a message before its checks fail, and no other
\* message's numbers are written like its own (dedup.py, _lookup; mqtt_framing.py,
\* dispatch_inbound_message).
NothingLost ==
    \A m \in Messages :
      (left[m] = 0 /\ ~damaged[m] /\ Unmistakable(m) /\ Decodes(m, TRUE)) => accepted[m] # None

\* "a (devId, s[, o]) tuple is accepted once; a repeat inside the window is swallowed": a
\* copy that directly follows a delivered one inside the window is not delivered, however
\* often the store was swept in between (dedup.py, _lookup).
NoEcho ==
    [][\A m \in Messages :
         (/\ left'[m] < left[m] /\ Dedups(m) /\ m.o # <<0>> /\ ~kind.lowPower /\ Unmistakable(m)
          /\ accepted[m] # None /\ now - accepted[m] < Window /\ ~swallowed[m])
           => swallowed'[m]]_vars

Whole(g) == [i \in 1..LogLength |-> <<g, i>>]

\* The buffer is shared and changed without a lock, so logs that overlap, logs that were cut
\* off and readers that meet damage each other; but only until the next delivery that no
\* other reader meets: a log whose fragments are all that has arrived since then, one reader
\* at a time, is delivered whole (lan_session.py, response_by_binary and _reassemble).
LogsHeal ==
    [][\A g \in Gateways :
         (reader[g] = "hand" /\ reader'[g] = "idle" /\ arrived = Whole(g) /\ ~crossed)
           => logs' = Whole(g)]_vars
=============================================================================
