----------------------------- MODULE Repository -----------------------------
(***************************************************************************)
(* The app's device record: DeviceRepository (app/repository.py), the      *)
(* status report and its normalization (app/dp101.py) and the merges of    *)
(* cloud and cached datapoints (app/resolver.py), for one device.          *)
(*                                                                         *)
(* update_device_dps is a coroutine that waits at its four seams; updates  *)
(* of several tasks overlap there.  Between two waits nothing else runs.   *)
(* A datapoint map is a function whose domain is the keys it has; decoded  *)
(* bytes stand for all their spellings.  Time is counted in ticks of four  *)
(* seconds.  The start and elapsed times that are mirrored out of the      *)
(* metadata, and the start time stored under a key of its own that nothing *)
(* reads back, are left out.  A call of the store may raise.               *)
(***************************************************************************)
EXTENDS Integers, TLC, SequencesExt, Functions

CONSTANTS Tasks,       \* callers of update_device_dps
          Incoming,    \* datapoint maps a device or a command may bring
          MaxUpdates,  \* updates (bound)
          MaxTime      \* ticks of the clock (bound)

ASSUME RepositoryAssumption == MaxUpdates \in Nat /\ MaxTime \in Nat \ {0}

\* The spread count that comes with DP102 is a number.
ASSUME IncomingAssumption ==
    \A d \in Incoming : /\ "102" \in DOMAIN d => d["102"].spread \in Nat
                        /\ "smooth" \in DOMAIN d => d["smooth"] \in Nat

VARIABLES
    dpStates,   \* dp_states, the merged map in memory
    persisted,  \* what persist_dps stored last
    record,     \* the stored device: online, dps, status, bin
    pc,         \* where each task waits
    mutable,    \* a task's normalized input
    merged,     \* a task's merged map
    device,     \* the record a task looked up: whether it was online
    alone,      \* nothing else has run since the task's update began
    repaired,   \* the last update that ended had run alone
    progress,   \* cleaning_progress, EmptyMeta when there is none
    dsProgress, \* the stored progress, EmptyMeta when there is none
    began,      \* when the cleaning that progress is about was first seen
    dsBegan,    \* began, when the stored progress was saved
    unsaved,    \* the last save or removal of the progress has raised
    now, updates

stored   == <<dsProgress, dsBegan, unsaved>>
cleaning == <<progress, began, stored>>
local    == <<mutable, merged, device>>
vars     == <<dpStates, persisted, record, pc, local, alone, repaired, cleaning, now, updates>>

Has(d, k)     == k \in DOMAIN d
Without(d, K) == Restrict(d, DOMAIN d \ K)

\* A map of one key, and a map laid over another one.
Entry(k, v) == [x \in {k} |-> v]
Over(f, g)  == [x \in DOMAIN f \cup DOMAIN g |-> IF x \in DOMAIN f THEN f[x] ELSE g[x]]

-----------------------------------------------------------------------------
(* dp101.py: the status report. *)

\* The three statuses of a completed cleaning are one.
Runnings == {"idle", "clean_start", "clean_pause", "completed"}

\* DP101 is five packed bytes ("raw"), the name of a machine status ("text"), bytes that are
\* too few ("short"), or nothing of these ("junk").
Report(run, mach, bin, cat, count) ==
    [kind |-> "raw", running |-> run, machine |-> mach, bin |-> bin, cat |-> cat,
     countdown |-> count]
DefaultReport  == Report("idle", "power_on", "near_empty", "no_cat", 0)
MachineText(m) == [DefaultReport EXCEPT !.kind = "text", !.machine = m]
Unreadable(kind) == [DefaultReport EXCEPT !.kind = kind]

\* parse_from_dp_states finds a report.
Parses(d) == Has(d, "101") /\ d["101"].kind \in {"raw", "text"}

\* encode_report: the packed form of what was parsed.
EncodeReport(r) ==
    [r EXCEPT !.kind = "raw", !.running = IF @ \in Runnings THEN @ ELSE "idle"]

RunningStatus(d) == IF Parses(d) THEN d["101"].running ELSE "none"

\* Keys that a report replaces: LEGACY_NORMALIZED_KEYS, and the bin's.
LegacyKeys   == {"24", "18"}
ReplacedKeys == LegacyKeys \cup {"122"}

StripLegacyKeys(d) == Without(d, LegacyKeys)

\* migrate_legacy_keys: running status 24, countdown 18, bin 122 and presence 126 become a
\* report, unless there is a packed one, or bytes that are none.
MigrateLegacyKeys(d) ==
    LET text == Has(d, "101") /\ d["101"].kind = "text"
        Or(k, x) == IF Has(d, k) THEN d[k] ELSE x
        bytes    == Has(d, "101") /\ d["101"].kind \in {"raw", "short"}
    IN  IF bytes \/ ~(Has(d, "24") \/ text \/ Has(d, "18"))
        THEN StripLegacyKeys(d)
        ELSE Over(Entry("101", Report(Or("24", "idle"),
                                      IF text THEN d["101"].machine ELSE "power_on",
                                      Or("122", "near_empty"), Or("126", "no_cat"), Or("18", 0))),
                  StripLegacyKeys(d))

\* _reconcile_clean_control: DP1 decides between start and pause.
ReconcileCleanControl(d) ==
    LET run == IF d["1"] /\ d["101"].running = "clean_pause" THEN "clean_start"
               ELSE IF ~d["1"] /\ d["101"].running = "clean_start" THEN "clean_pause"
               ELSE d["101"].running
    IN  IF Has(d, "1") /\ Parses(d) THEN [d EXCEPT !["101"].running = run] ELSE d

\* The packed form of a report and its cat are laid over a map.
WithReport(r, d) == Over(Entry("101", EncodeReport(r)), Over(Entry("126", r.cat), d))

\* apply_to_map.
ApplyToMap(d) ==
    LET m == MigrateLegacyKeys(d) IN
    IF ~Parses(m) THEN Without(m, ReplacedKeys)
    ELSE ReconcileCleanControl(WithReport(m["101"], Without(m, ReplacedKeys)))

\* patch_dp_states.
PatchDpStates(d, patched) == WithReport(patched, StripLegacyKeys(d))

\* merge_during_pending_cleaning_action: while an action is pending, a report that does not
\* show it yet is patched to show it.
MergeDuringPending(in, snapshot, action, expected) ==
    LET run   == RunningStatus(in)
        base  == IF Parses(in) THEN in["101"] ELSE DefaultReport
        snap  == IF Parses(snapshot) THEN snapshot["101"] ELSE base
        count == IF action = "continue_cleaning" \/ ~Parses(snapshot) THEN 0 ELSE snap.countdown
        new   == [snap EXCEPT !.running = expected, !.countdown = count]
    IN  IF \/ DOMAIN in = {} \/ run = expected
           \/ expected = "clean_start" /\ run = "clean_pause"
        THEN in
        ELSE ApplyToMap(Over(Entry("1", action # "pause_cleaning"), PatchDpStates(in, new)))

-----------------------------------------------------------------------------
(* resolver.py. *)

\* merge_fill_missing: what the cloud does not have is taken from the cache.
MergeFillMissing(cloud, cached) ==
    IF DOMAIN cloud = {} THEN cached ELSE ApplyToMap(Over(cloud, cached))

\* merge_with_timestamps: both of its branches end in this.
MergeWithTimestamps(cloud, cached) ==
    IF DOMAIN cached = {} THEN cloud ELSE MergeFillMissing(cloud, cached)

\* derive_status: the first rule that applies.
DeriveStatus(d, online) ==
    LET r     == IF Parses(d) THEN d["101"] ELSE DefaultReport
        run   == RunningStatus(d)
        rules == << <<~online, "offline">>,
                    <<Has(d, "125") /\ d["125"] # 0, "error">>,
                    <<r.machine = "disturb_mode", "do_not_disturb">>,
                    <<run = "clean_start", "cleaning_in_progress">>,
                    <<run = "clean_pause", "cleaning_paused">>,
                    <<r.countdown > 0, "cleaning_to_start">>,
                    <<r.machine = "hibernating", "hibernating">>,
                    <<r.machine = "power_off", "powered_off">>,
                    <<r.bin = "bin_full", "please_empty_bin">>,
                    <<TRUE, "ready">> >>
    IN  rules[SelectInSeq(rules, LAMBDA rule : rule[1])][2]

-----------------------------------------------------------------------------
(* The merge into dp_states. *)

\* What update_device_dps makes of its input: DP102 from the record when it has none, the
\* report normalized, the spread count next to DP102.
Normalized(dps, old) ==
    LET filled == IF ~Has(dps, "102") /\ Has(old, "102")
                  THEN Over(Entry("102", old["102"]), dps) ELSE dps
        m      == ApplyToMap(filled)
    IN  IF Has(m, "102") THEN Over(Entry("smooth", m["102"].spread), m) ELSE m

\* A cleaning that starts clears a cat that was seen before it, unless the input says more.
Merge(m, cache) ==
    LET gone == IF RunningStatus(m) = "clean_start" /\ ~Has(m, "126") /\ Has(cache, "126")
                     /\ cache["126"] = "cat_exist"
                THEN {"126"} ELSE {}
    IN  Over(m, Without(cache, gone))

\* Mutant of Stored: the record gets the input instead of the merged map.
StoredInput(t) ==
    [online |-> device[t], dps |-> mutable[t], status |-> DeriveStatus(mutable[t], device[t])]

\* The record a task writes: the one it looked up, with the merged map and its status.
Stored(t) ==
    [online |-> device[t], dps |-> merged[t], status |-> DeriveStatus(merged[t], device[t])]

-----------------------------------------------------------------------------
(* Cleaning progress. *)

EmptyMeta ==
    [started |-> -1, paused |-> -1, elapsed |-> 0, percent |-> 0, expected |-> 0,
     completed |-> -1, updated |-> 0]

\* is_empty, which does not look at the time of the last update.
IsEmpty(m) == [m EXCEPT !.updated = 0] = EmptyMeta

\* Seconds a cleaning takes, by the spread count of DP102.
Expected(d) ==
    LET spread == IF Has(d, "smooth") THEN d["smooth"] ELSE 0 IN
    IF spread = 7 THEN 205 ELSE spread * 25 + 80

\* _progress_percent, of an elapsed time in ticks of four seconds.
Percent(elapsed, expected) ==
    LET p == (elapsed * 400) \div expected IN IF p > 100 THEN 100 ELSE p

\* Less than three seconds since the last update.
Recent(m) == m.updated > 0 /\ (now - m.updated) * 4 < 3

StartedOrNow(m) == IF m.started = -1 THEN now ELSE m.started

\* The metadata when a cleaning runs.
OnStart(m, d) ==
    IF m.completed # -1
    THEN [EmptyMeta EXCEPT !.started = now, !.expected = Expected(d), !.updated = now]
    ELSE IF Recent(m) THEN [m EXCEPT !.expected = Expected(d)]
    ELSE [m EXCEPT !.started = StartedOrNow(m), !.paused = -1,
                   !.percent = Percent(now - StartedOrNow(m) + m.elapsed, Expected(d)),
                   !.expected = Expected(d), !.completed = -1, !.updated = now]

\* Mutant of OnPause: the start time is kept.
OnPauseKeepsStart(m, d) ==
    LET elapsed == now - StartedOrNow(m) + m.elapsed IN
    [m EXCEPT !.started = StartedOrNow(m), !.paused = now, !.elapsed = elapsed,
              !.percent = Percent(elapsed, Expected(d)),
              !.expected = Expected(d), !.completed = -1, !.updated = now]

\* The metadata when it pauses.
OnPause(m, d) ==
    LET elapsed == now - StartedOrNow(m) + m.elapsed IN
    [m EXCEPT !.started = -1, !.paused = now, !.elapsed = elapsed,
              !.percent = Percent(elapsed, Expected(d)),
              !.expected = Expected(d), !.completed = -1, !.updated = now]

OnOther(m, d) ==
    IF m.expected = Expected(d) THEN m
    ELSE [m EXCEPT !.expected = Expected(d), !.updated = now]

\* What is kept of the metadata: nothing, when it says nothing.
Keep(m) == IF IsEmpty(m) THEN EmptyMeta ELSE m

\* save_cleaning_progress_state and its removal: an exception of the store is logged, and what
\* was stored stays.
SaveProgress(m) ==
    \E works \in BOOLEAN :
      /\ unsaved' = ~works
      /\ dsProgress' = IF works THEN Keep(m) ELSE dsProgress
      /\ dsBegan' = IF works THEN began' ELSE dsBegan

\* update_cleaning_progress: the map in memory follows the metadata, and so does the store.
UpdateProgress(m) == progress' = Keep(m) /\ SaveProgress(m)

\* Mutant of RemoveProgress: the stored progress is left behind.
RemoveProgressMemory ==
    /\ began' = -1
    /\ progress' = EmptyMeta
    /\ UNCHANGED stored

\* remove_cleaning_progress.
RemoveProgress ==
    /\ began' = -1
    /\ progress' = EmptyMeta
    /\ SaveProgress(EmptyMeta)

\* sync_cleaning_progress_from_dp, on the normalized input.
Sync(d) ==
    LET run == RunningStatus(d)
        new == IF run = "clean_start" THEN OnStart(progress, d)
               ELSE IF run = "clean_pause" THEN OnPause(progress, d) ELSE OnOther(progress, d)
    IN  IF run = "completed" THEN RemoveProgress
        ELSE /\ began' = IF run = "clean_start" /\ progress.completed # -1 THEN now
                         ELSE IF began = -1 /\ run \in {"clean_start", "clean_pause"} THEN now
                         ELSE began
             /\ IF new # progress THEN UpdateProgress(new)
                ELSE UNCHANGED <<progress, stored>>

-----------------------------------------------------------------------------
(* Actions. *)

Idle == \A t \in Tasks : pc[t] = "idle"

\* What the variables hold; no key that a report replaces is kept next to it.
TypeOK ==
    /\ \A d \in {dpStates, persisted, record.dps} : DOMAIN d \cap ReplacedKeys = {}
    /\ pc \in [Tasks -> {"idle", "color", "persist", "store", "sync"}]
    /\ alone \in [Tasks -> BOOLEAN] /\ repaired \in BOOLEAN
    /\ \A m \in {progress, dsProgress} :
         m.percent \in 0..100 /\ m.elapsed >= 0 /\ m.started \in -1..MaxTime
    /\ began \in -1..MaxTime /\ dsBegan \in -1..MaxTime /\ unsaved \in BOOLEAN
    /\ now \in 1..MaxTime /\ updates \in 0..MaxUpdates

Nothing == [x \in {} |-> x]

Init ==
    /\ dpStates = Nothing /\ persisted = Nothing
    /\ record = [online |-> TRUE, dps |-> Nothing, status |-> "ready"]
    /\ pc = [t \in Tasks |-> "idle"]
    /\ mutable = [t \in Tasks |-> Nothing] /\ merged = mutable
    /\ device = [t \in Tasks |-> TRUE]
    /\ alone = [t \in Tasks |-> FALSE] /\ repaired = FALSE
    /\ progress = EmptyMeta /\ dsProgress = EmptyMeta
    /\ began = -1 /\ dsBegan = -1 /\ unsaved = FALSE
    /\ now = 1 /\ updates = 0

\* Something else happens while updates are under way.
Disturb(t) == alone' = [u \in Tasks |-> u = t /\ \A v \in Tasks \ {t} : pc[v] = "idle"]

\* The merge, up to the wait in persist_dps.
MergeStep(t, m) ==
    LET new == Merge(m, dpStates) IN
    /\ dpStates' = new
    /\ merged' = [merged EXCEPT ![t] = new]
    /\ pc' = [pc EXCEPT ![t] = "persist"]

\* update_device_dps up to its first wait, which is persist_color when DP102 has a color.
Begin(t, dps) ==
    LET m == Normalized(dps, record.dps) IN
    /\ pc[t] = "idle" /\ updates < MaxUpdates
    /\ updates' = updates + 1
    /\ device' = [device EXCEPT ![t] = record.online]
    /\ mutable' = [mutable EXCEPT ![t] = m]
    /\ Disturb(t)
    /\ IF Has(m, "102") /\ m["102"].color # -1
       THEN pc' = [pc EXCEPT ![t] = "color"] /\ UNCHANGED <<dpStates, merged>>
       ELSE MergeStep(t, m)
    /\ UNCHANGED <<persisted, record, repaired, cleaning, now>>

\* update_device_dps with what the device brought, or with that merged with what is known.
Update(t) ==
    \E in \in Incoming :
        \/ Begin(t, in)
        \/ Begin(t, MergeFillMissing(in, dpStates))
        \/ Begin(t, MergeWithTimestamps(in, dpStates))
        \/ \E a \in {<<"start_cleaning", "clean_start">>, <<"pause_cleaning", "clean_pause">>} :
             Begin(t, MergeDuringPending(in, dpStates, a[1], a[2]))

Colored(t) ==
    /\ pc[t] = "color"
    /\ MergeStep(t, mutable[t])
    /\ UNCHANGED <<persisted, record, mutable, device, alone, repaired, cleaning, now, updates>>

\* persist_dps, or load_persisted_dps when there is nothing to keep.
Persist(t) ==
    /\ pc[t] = "persist"
    /\ persisted' = IF DOMAIN merged[t] # {} THEN merged[t] ELSE persisted
    /\ pc' = [pc EXCEPT ![t] = "store"]
    /\ UNCHANGED <<dpStates, record, local, alone, repaired, cleaning, now, updates>>

Store(t) ==
    /\ pc[t] = "store"
    /\ record' = Stored(t)
    /\ pc' = [pc EXCEPT ![t] = "sync"]
    /\ merged' = [merged EXCEPT ![t] = Nothing] /\ device' = [device EXCEPT ![t] = TRUE]
    /\ UNCHANGED <<dpStates, persisted, mutable, alone, repaired, cleaning, now, updates>>

Finish(t) ==
    /\ pc[t] = "sync"
    /\ Sync(mutable[t])
    /\ repaired' = alone[t]
    /\ pc' = [pc EXCEPT ![t] = "idle"]
    /\ mutable' = [mutable EXCEPT ![t] = Nothing]
    /\ alone' = [alone EXCEPT ![t] = FALSE]
    /\ UNCHANGED <<dpStates, persisted, record, merged, device, now, updates>>

\* The application's listener stores the device as online or offline.
OnlineChanges ==
    /\ record' = [record EXCEPT !.online = ~@]
    /\ alone' = [u \in Tasks |-> FALSE] /\ repaired' = FALSE
    /\ UNCHANGED <<dpStates, persisted, pc, local, cleaning, now, updates>>

\* The application ends a cleaning itself, with update_cleaning_progress.
AppCompletes ==
    /\ progress.started # -1 /\ progress.completed = -1
    /\ UNCHANGED <<dpStates, persisted, record, pc, local, alone, repaired, began, now, updates>>
    /\ UpdateProgress([progress EXCEPT !.completed = now, !.updated = now])

\* The process ends and starts again: the application puts the stored progress back.
Restart ==
    /\ dpStates' = Nothing
    /\ pc' = [t \in Tasks |-> "idle"]
    /\ mutable' = [t \in Tasks |-> Nothing] /\ merged' = [t \in Tasks |-> Nothing]
    /\ device' = [t \in Tasks |-> TRUE]
    /\ alone' = [u \in Tasks |-> FALSE] /\ repaired' = FALSE
    /\ progress' = Keep(dsProgress)
    /\ began' = dsBegan /\ unsaved' = FALSE
    /\ UNCHANGED <<persisted, record, dsProgress, dsBegan, now, updates>>

Tick == now < MaxTime /\ now' = now + 1
          /\ UNCHANGED <<dpStates, persisted, record, pc, local, alone, repaired, cleaning, updates>>

Next ==
    \/ \E t \in Tasks : Update(t) \/ Colored(t) \/ Persist(t) \/ Store(t) \/ Finish(t)
    \/ OnlineChanges \/ AppCompletes \/ Restart \/ Tick

Spec == Init /\ [][Next]_vars

-----------------------------------------------------------------------------
(* Properties. *)

\* Updates that overlap may store an older map over a newer one; but an update that runs alone
\* repairs it: then the record, what was persisted and dp_states agree again, and the status
\* is that of the map (repository.py, update_device_dps).
LoneUpdateRepairs ==
    (Idle /\ repaired) =>
        /\ record.dps = dpStates
        /\ record.status = DeriveStatus(dpStates, record.online)
        /\ DOMAIN dpStates # {} => persisted = dpStates

\* The stored progress is the one in memory, so a restart loses nothing of it - unless the
\* last save or removal has raised, which repository.py logs and never repeats by itself; the
\* next one that works, or a restart, makes them equal again (repository.py,
\* update_cleaning_progress and remove_cleaning_progress).
ProgressPersisted == unsaved \/ dsProgress = progress

\* No second of a cleaning is counted twice, however starts, pauses, completions, failed saves
\* and restarts that bring back older metadata follow each other (repository.py,
\* sync_cleaning_progress_from_dp).
NoTimeCountedTwice ==
    began # -1 =>
        progress.elapsed + (IF progress.started = -1 THEN 0 ELSE now - progress.started)
           <= now - began
=============================================================================
