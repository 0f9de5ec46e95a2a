-------------------------- MODULE RepositoryProofs --------------------------
(***************************************************************************)
(* Proofs about Repository: what an update that runs alone repairs, and    *)
(* what becomes of the progress of a cleaning, for any number of tasks,    *)
(* any datapoints and any number of updates.                               *)
(***************************************************************************)
EXTENDS Repository, TLAPS

-----------------------------------------------------------------------------
(* An update that runs alone. *)

\* The record and what was persisted are those of dp_states.
Agrees ==
    /\ record.dps = dpStates
    /\ record.status = DeriveStatus(dpStates, record.online)
    /\ DOMAIN dpStates # {} => persisted = dpStates

\* What an update has brought about, by the wait it is at, when nothing else has run.
Far(t) ==
    /\ pc[t] # "idle" /\ \A u \in Tasks \ {t} : pc[u] = "idle"
    /\ pc[t] \in {"color", "persist", "store"} => device[t] = record.online
    /\ pc[t] \in {"persist", "store"} => merged[t] = dpStates
    /\ pc[t] = "store" => (DOMAIN dpStates # {} => persisted = dpStates)
    /\ pc[t] = "sync" => Agrees

LoneInv ==
    /\ pc \in [Tasks -> {"idle", "color", "persist", "store", "sync"}]
    /\ DOMAIN merged = Tasks /\ DOMAIN device = Tasks
    /\ alone \in [Tasks -> BOOLEAN]
    /\ \A t \in Tasks : alone[t] => Far(t)
    /\ Idle /\ repaired => Agrees

\* The first step of an update: it is alone if no other is under way.
LEMMA BeginLone == ASSUME LoneInv, NEW t \in Tasks, NEW dps, Begin(t, dps) PROVE LoneInv'
<1> DEFINE m == Normalized(dps, record.dps)
<1>1. /\ pc[t] = "idle" /\ device' = [device EXCEPT ![t] = record.online]
      /\ alone' = [u \in Tasks |-> u = t /\ \A v \in Tasks \ {t} : pc[v] = "idle"]
      /\ UNCHANGED <<persisted, record, repaired>>
      /\ \/ pc' = [pc EXCEPT ![t] = "color"] /\ UNCHANGED <<dpStates, merged>>
         \/ MergeStep(t, m)
  BY DEF Begin, Disturb
<1> HIDE DEF m
<1>2. PICK p \in {"color", "persist"} :
         /\ pc' = [pc EXCEPT ![t] = p] /\ DOMAIN merged' = Tasks
         /\ p = "persist" => merged'[t] = dpStates'
  BY <1>1 DEF LoneInv, MergeStep
<1>3. pc' \in [Tasks -> {"idle", "color", "persist", "store", "sync"}] /\ pc'[t] = p
  BY <1>2 DEF LoneInv
<1>4. alone' \in [Tasks -> BOOLEAN] /\ DOMAIN device' = Tasks /\ device'[t] = record.online
  BY <1>1 DEF LoneInv
<1>5. ASSUME NEW u \in Tasks, alone'[u] PROVE Far(u)'
  <2>1. u = t /\ \A v \in Tasks \ {t} : pc[v] = "idle"
    BY <1>1, <1>5
  <2>2. \A v \in Tasks \ {t} : pc'[v] = "idle"
    BY <1>2, <2>1 DEF LoneInv
  <2> QED
    BY <1>1, <1>2, <1>3, <1>4, <2>1, <2>2 DEF Far
<1>6. ~Idle'
  BY <1>3 DEF Idle
<1> QED
  BY <1>2, <1>3, <1>4, <1>5, <1>6 DEF LoneInv

\* The steps in the middle of an update.
LEMMA MiddleLone ==
    ASSUME LoneInv, NEW t \in Tasks, Colored(t) \/ Persist(t) \/ Store(t)
    PROVE  LoneInv'
<1>1. PICK p \in {"persist", "store", "sync"} :
         /\ pc' = [pc EXCEPT ![t] = p] /\ pc[t] # "idle"
         /\ DOMAIN merged' = Tasks /\ DOMAIN device' = Tasks
         /\ UNCHANGED <<alone, repaired>>
  BY DEF Colored, Persist, Store, MergeStep, LoneInv, local
<1>2. pc' \in [Tasks -> {"idle", "color", "persist", "store", "sync"}] /\ pc'[t] = p
  BY <1>1 DEF LoneInv
<1>3. ASSUME NEW u \in Tasks, alone[u] PROVE Far(u)'
  <2>1. Far(u) /\ u = t
    BY <1>1, <1>3 DEF LoneInv, Far
  <2>2. \A v \in Tasks \ {t} : pc'[v] = "idle"
    BY <1>1, <2>1 DEF LoneInv, Far
  <2>3. CASE Colored(t)
    <3>1. /\ pc[t] = "color" /\ pc'[t] = "persist" /\ merged'[t] = dpStates'
          /\ UNCHANGED <<record, device>>
      BY <2>3 DEF Colored, MergeStep, LoneInv
    <3> QED
      BY <2>1, <2>2, <3>1 DEF Far
  <2>4. CASE Persist(t)
    <3>1. /\ pc[t] = "persist" /\ pc'[t] = "store"
          /\ persisted' = IF DOMAIN merged[t] # {} THEN merged[t] ELSE persisted
          /\ UNCHANGED <<record, device, merged, dpStates>>
      BY <2>4 DEF Persist, LoneInv, local
    <3> QED
      BY <2>1, <2>2, <3>1 DEF Far
  <2>5. CASE Store(t)
    <3>1. /\ pc[t] = "store" /\ pc'[t] = "sync" /\ UNCHANGED <<persisted, dpStates>>
          /\ record' = [online |-> device[t], dps |-> merged[t],
                        status |-> DeriveStatus(merged[t], device[t])]
      BY <2>5 DEF Store, Stored, LoneInv
    <3>2. merged[t] = dpStates /\ (DOMAIN dpStates # {} => persisted = dpStates)
      BY <2>1, <3>1 DEF Far
    <3>3. Agrees'
      BY <3>1, <3>2 DEF Agrees
    <3> QED
      BY <2>1, <2>2, <3>1, <3>3 DEF Far
  <2> QED
    BY <2>3, <2>4, <2>5
<1>4. ~Idle'
  BY <1>2 DEF Idle
<1> QED
  BY <1>1, <1>2, <1>3, <1>4 DEF LoneInv

\* The end of an update: it says whether it has run alone.
LEMMA FinishLone == ASSUME LoneInv, NEW t \in Tasks, Finish(t) PROVE LoneInv'
<1>1. /\ pc[t] = "sync" /\ repaired' = alone[t] /\ pc' = [pc EXCEPT ![t] = "idle"]
      /\ alone' = [alone EXCEPT ![t] = FALSE]
      /\ UNCHANGED <<dpStates, persisted, record, merged, device>>
  BY DEF Finish
<1>2. ASSUME NEW u \in Tasks, alone'[u] PROVE FALSE
  <2>1. u # t /\ alone[u]
    BY <1>1, <1>2 DEF LoneInv
  <2> QED
    BY <1>1, <2>1 DEF LoneInv, Far
<1>3. repaired' => Agrees'
  BY <1>1 DEF LoneInv, Far, Agrees
<1> QED
  BY <1>1, <1>2, <1>3 DEF LoneInv

\* LoneUpdateRepairs for any number of tasks: an update_device_dps (repository.py) that ran
\* alone leaves the record, the persisted map and dp_states in agreement.
THEOREM LoneUpdatesRepair == Spec => []LoneUpdateRepairs
<1>1. Init => LoneInv
  BY DEF Init, LoneInv
<1>2. LoneInv /\ [Next]_vars => LoneInv'
  <2> SUFFICES ASSUME LoneInv, [Next]_vars PROVE LoneInv'
    OBVIOUS
  <2>1. ASSUME NEW t \in Tasks, Update(t) PROVE LoneInv'
    BY <2>1, BeginLone DEF Update
  <2>2. ASSUME NEW t \in Tasks, Colored(t) \/ Persist(t) \/ Store(t) \/ Finish(t) PROVE LoneInv'
    BY <2>2, MiddleLone, FinishLone
  <2>3. CASE OnlineChanges
    BY <2>3 DEF OnlineChanges, LoneInv, local
  <2>4. CASE AppCompletes \/ Tick \/ UNCHANGED vars
    <3>1. UNCHANGED <<dpStates, persisted, record, pc, merged, device, alone, repaired>>
      BY <2>4 DEF AppCompletes, Tick, vars, local
    <3>2. Agrees' = Agrees /\ Idle' = Idle /\ \A t \in Tasks : Far(t)' = Far(t)
      BY <3>1 DEF Agrees, Idle, Far
    <3> QED
      BY <3>1, <3>2 DEF LoneInv
  <2>5. CASE Restart
    BY <2>5 DEF Restart, LoneInv
  <2> QED
    BY <2>1, <2>2, <2>3, <2>4, <2>5 DEF Next
<1>3. LoneInv => LoneUpdateRepairs
  BY DEF LoneInv, LoneUpdateRepairs, Agrees
<1> QED
  BY <1>1, <1>2, <1>3, PTL DEF Spec

-----------------------------------------------------------------------------
(* The progress of a cleaning. *)

\* The times of the metadata are numbers; what is expected of a cleaning is its device's say.
IsMeta(m) ==
    /\ DOMAIN m = {"started", "paused", "elapsed", "percent", "expected", "completed", "updated"}
    /\ m.started \in Int /\ m.elapsed \in Int

\* Of a cleaning seen at b no time is counted from before it; metadata that says nothing is
\* the empty one; and a cleaning that was never seen has no time.
Times(m, b) ==
    /\ IsMeta(m) /\ b \in Int /\ b <= now
    /\ IsEmpty(m) => m = EmptyMeta
    /\ b = -1 => m.started = -1 /\ m.elapsed = 0
    /\ b # -1 => m.elapsed + (IF m.started = -1 THEN 0 ELSE now - m.started) <= now - b

\* So it is with the metadata in memory, and with what a restart brings back, which a failed
\* save may have left behind.
ProgressInv ==
    /\ unsaved \/ dsProgress = progress
    /\ now \in Nat
    /\ Times(progress, began) /\ Times(dsProgress, dsBegan)

LEMMA EmptyIsMeta ==
    IsMeta(EmptyMeta) /\ EmptyMeta.started = -1 /\ EmptyMeta.elapsed = 0 /\ IsEmpty(EmptyMeta)
  BY DEF EmptyMeta, IsMeta, IsEmpty

\* The metadata that update_cleaning_progress keeps of m.
LEMMA Kept ==
    ASSUME NEW m, IsMeta(m), NEW n, n = Keep(m)
    PROVE  /\ IsMeta(n) /\ n.started = m.started /\ n.elapsed = m.elapsed
           /\ IsEmpty(n) => n = EmptyMeta
<1>1. CASE IsEmpty(m)
  <2>1. PICK k : k = [m EXCEPT !.updated = 0]
    OBVIOUS
  <2>2. k.started = m.started /\ k.elapsed = m.elapsed
    BY <2>1 DEF IsMeta
  <2>3. k = EmptyMeta
    BY <1>1, <2>1 DEF IsEmpty
  <2> QED
    BY <1>1, <2>2, <2>3, EmptyIsMeta DEF Keep
<1>2. CASE ~IsEmpty(m)
  BY <1>2 DEF Keep
<1> QED
  BY <1>1, <1>2

\* A step that has m for the metadata, and b for when the cleaning began.
LEMMA Counted ==
    ASSUME ProgressInv, NEW m, IsMeta(m), NEW b \in Int, b <= now,
           progress' = Keep(m), began' = b, now' = now, SaveProgress(m),
           b = -1 => m.started = -1 /\ m.elapsed = 0,
           b # -1 => m.elapsed + (IF m.started = -1 THEN 0 ELSE now - m.started) <= now - b
    PROVE  ProgressInv'
<1>1. PICK n : n = Keep(m)
  OBVIOUS
<1>2. /\ IsMeta(n) /\ n.started = m.started /\ n.elapsed = m.elapsed
      /\ IsEmpty(n) => n = EmptyMeta
  BY <1>1, Kept
<1>3. Times(n, b)
  BY <1>2 DEF Times
<1>4. Times(progress, began)'
  BY <1>1, <1>3 DEF Times, IsEmpty, IsMeta
<1>5. \/ unsaved' /\ dsProgress' = dsProgress /\ dsBegan' = dsBegan
      \/ dsProgress' = progress' /\ dsBegan' = began'
  BY DEF SaveProgress
<1>6. Times(dsProgress, dsBegan)'
  <2>1. CASE dsProgress' = dsProgress /\ dsBegan' = dsBegan
    BY <2>1 DEF ProgressInv, Times, IsEmpty, IsMeta
  <2>2. CASE dsProgress' = progress' /\ dsBegan' = began'
    BY <1>4, <2>2 DEF Times, IsEmpty, IsMeta
  <2> QED
    BY <1>5, <2>1, <2>2
<1>7. now' \in Nat
  BY DEF ProgressInv
<1> QED
  BY <1>4, <1>5, <1>6, <1>7 DEF ProgressInv

\* The metadata after a report.
LEMMA OnStartMeta ==
    ASSUME NEW m, IsMeta(m), NEW d, NEW n, n = OnStart(m, d), now \in Int
    PROVE  /\ IsMeta(n)
           /\ \/ m.completed # -1 /\ n.started = now /\ n.elapsed = 0
              \/ m.completed = -1 /\ n.started = m.started /\ n.elapsed = m.elapsed /\ Recent(m)
              \/ m.completed = -1 /\ n.started = StartedOrNow(m) /\ n.elapsed = m.elapsed
<1>1. CASE m.completed # -1
  <2>1. n = [EmptyMeta EXCEPT !.started = now, !.expected = Expected(d), !.updated = now]
    BY <1>1 DEF OnStart
  <2> QED
    BY <1>1, <2>1 DEF EmptyMeta, IsMeta
<1>2. CASE m.completed = -1 /\ Recent(m)
  <2>1. n = [m EXCEPT !.expected = Expected(d)]
    BY <1>2 DEF OnStart
  <2> QED
    BY <1>2, <2>1 DEF IsMeta
<1>3. CASE m.completed = -1 /\ ~Recent(m)
  <2>1. PICK p : p = Percent(now - StartedOrNow(m) + m.elapsed, Expected(d))
    OBVIOUS
  <2>2. n = [m EXCEPT !.started = StartedOrNow(m), !.paused = -1, !.percent = p,
                      !.expected = Expected(d), !.completed = -1, !.updated = now]
    BY <1>3, <2>1 DEF OnStart
  <2>3. StartedOrNow(m) \in Int
    BY DEF StartedOrNow, IsMeta
  <2> QED
    BY <1>3, <2>2, <2>3 DEF IsMeta
<1> QED
  BY <1>1, <1>2, <1>3

LEMMA OnPauseMeta ==
    ASSUME NEW m, IsMeta(m), NEW d, NEW n, n = OnPause(m, d), now \in Int
    PROVE  IsMeta(n) /\ n.started = -1 /\ n.elapsed = now - StartedOrNow(m) + m.elapsed
<1>1. PICK x, p : x = now - StartedOrNow(m) + m.elapsed /\ p = Percent(x, Expected(d))
  OBVIOUS
<1>2. n = [m EXCEPT !.started = -1, !.paused = now, !.elapsed = x, !.percent = p,
                    !.expected = Expected(d), !.completed = -1, !.updated = now]
  BY <1>1 DEF OnPause
<1>3. x \in Int
  BY <1>1 DEF StartedOrNow, IsMeta
<1> QED
  BY <1>1, <1>2, <1>3 DEF IsMeta

LEMMA OnOtherMeta ==
    ASSUME NEW m, IsMeta(m), NEW d, NEW n, n = OnOther(m, d)
    PROVE  IsMeta(n) /\ n.started = m.started /\ n.elapsed = m.elapsed
<1>1. n = m \/ n = [m EXCEPT !.expected = Expected(d), !.updated = now]
  BY DEF OnOther
<1> QED
  BY <1>1 DEF IsMeta

\* A report: no time is counted that was not, and what there is stays stored.
LEMMA SyncProgress == ASSUME ProgressInv, NEW d, Sync(d), now' = now PROVE ProgressInv'
<1>1. CASE RunningStatus(d) = "completed"
  <2>1. progress' = Keep(EmptyMeta) /\ SaveProgress(EmptyMeta) /\ began' = -1
    BY <1>1, EmptyIsMeta DEF Sync, RemoveProgress, Keep
  <2>2. -1 \in Int /\ -1 <= now
    BY DEF ProgressInv
  <2> QED
    BY <2>1, <2>2, EmptyIsMeta, Counted
<1>2. CASE RunningStatus(d) # "completed"
  <2>1. PICK run, new :
          /\ run = RunningStatus(d)
          /\ new = IF run = "clean_start" THEN OnStart(progress, d)
                   ELSE IF run = "clean_pause" THEN OnPause(progress, d)
                   ELSE OnOther(progress, d)
    OBVIOUS
  <2>2. /\ IF new # progress THEN UpdateProgress(new) ELSE UNCHANGED <<progress, stored>>
        /\ began' = IF run = "clean_start" /\ progress.completed # -1 THEN now
                    ELSE IF began = -1 /\ run \in {"clean_start", "clean_pause"} THEN now
                    ELSE began
    BY <1>2, <2>1 DEF Sync
  <2>3. \/ progress' = Keep(new) /\ SaveProgress(new)
        \/ new = progress /\ UNCHANGED <<progress, stored>>
    BY <2>2 DEF UpdateProgress
  <2>4. /\ IsMeta(progress) /\ now \in Nat /\ began \in Int /\ began <= now
        /\ began = -1 => progress.started = -1 /\ progress.elapsed = 0
        /\ began # -1 => progress.elapsed
                          + (IF progress.started = -1 THEN 0 ELSE now - progress.started)
                            <= now - began
    BY DEF ProgressInv, Times
  <2>5. PICK b : b = began'
    OBVIOUS
  <2>6. b \in Int /\ b <= now
    BY <2>2, <2>4, <2>5
  <2>7. /\ IsMeta(new)
        /\ b = -1 => new.started = -1 /\ new.elapsed = 0
        /\ b # -1 => new.elapsed + (IF new.started = -1 THEN 0 ELSE now - new.started) <= now - b
    <3>1. CASE run = "clean_start"
      <4>1. /\ IsMeta(new)
            /\ \/ progress.completed # -1 /\ new.started = now /\ new.elapsed = 0
               \/ /\ progress.completed = -1 /\ new.started = progress.started
                  /\ new.elapsed = progress.elapsed
               \/ /\ progress.completed = -1 /\ new.started = StartedOrNow(progress)
                  /\ new.elapsed = progress.elapsed
        BY <2>1, <2>4, <3>1, OnStartMeta
      <4>2. b # -1
        BY <2>2, <2>4, <2>5, <3>1
      <4>3. b = IF progress.completed # -1 \/ began = -1 THEN now ELSE began
        BY <2>2, <2>5, <3>1
      <4> QED
        BY <2>4, <4>1, <4>2, <4>3 DEF StartedOrNow, IsMeta
    <3>2. CASE run = "clean_pause"
      <4>1. /\ IsMeta(new) /\ new.started = -1
            /\ new.elapsed = now - StartedOrNow(progress) + progress.elapsed
        BY <2>1, <2>4, <3>2, OnPauseMeta
      <4>2. b = IF began = -1 THEN now ELSE began
        BY <2>2, <2>5, <3>2
      <4> QED
        BY <2>4, <4>1, <4>2 DEF StartedOrNow, IsMeta
    <3>3. CASE run \notin {"clean_start", "clean_pause"}
      <4>1. IsMeta(new) /\ new.started = progress.started /\ new.elapsed = progress.elapsed
        BY <2>1, <2>4, <3>3, OnOtherMeta
      <4>2. b = began
        BY <2>2, <2>5, <3>3
      <4> QED
        BY <2>4, <4>1, <4>2
    <3> QED
      BY <3>1, <3>2, <3>3
  <2>8. CASE progress' = Keep(new) /\ SaveProgress(new)
    BY <2>5, <2>6, <2>7, <2>8, Counted
  <2>9. CASE new = progress /\ UNCHANGED <<progress, stored>>
    <3>1. Times(progress, began)'
      BY <2>5, <2>6, <2>7, <2>9 DEF ProgressInv, Times, IsEmpty, IsMeta
    <3> QED
      BY <2>9, <3>1 DEF ProgressInv, Times, IsEmpty, IsMeta, stored
  <2> QED
    BY <2>3, <2>8, <2>9
<1> QED
  BY <1>1, <1>2

\* The application ends a cleaning, and the time goes on being counted.
LEMMA AppCompletesProgress == ASSUME ProgressInv, AppCompletes PROVE ProgressInv'
<1>1. PICK m : m = [progress EXCEPT !.completed = now, !.updated = now]
  OBVIOUS
<1>2. IsMeta(m) /\ m.started = progress.started /\ m.elapsed = progress.elapsed
  BY <1>1 DEF ProgressInv, Times, IsMeta
<1>3. progress' = Keep(m) /\ SaveProgress(m) /\ began' = began /\ now' = now
  BY <1>1 DEF AppCompletes, UpdateProgress
<1>4. /\ began \in Int /\ began <= now
      /\ began = -1 => m.started = -1 /\ m.elapsed = 0
      /\ began # -1 => m.elapsed + (IF m.started = -1 THEN 0 ELSE now - m.started) <= now - began
  BY <1>2 DEF ProgressInv, Times
<1> QED
  BY <1>2, <1>3, <1>4, Counted

LEMMA ProgressInvariant == Spec => []ProgressInv
<1>1. Init => ProgressInv
  BY EmptyIsMeta DEF Init, ProgressInv, Times
<1>2. ProgressInv /\ [Next]_vars => ProgressInv'
  <2> SUFFICES ASSUME ProgressInv, [Next]_vars PROVE ProgressInv'
    OBVIOUS
  <2>1. CASE UNCHANGED <<progress, began, stored, now>>
    BY <2>1 DEF ProgressInv, Times, IsEmpty, IsMeta, stored
  <2>2. ASSUME NEW t \in Tasks, Update(t) \/ Colored(t) \/ Persist(t) \/ Store(t)
        PROVE  UNCHANGED <<progress, began, stored, now>>
    BY <2>2 DEF Update, Begin, Colored, Persist, Store, cleaning
  <2>3. ASSUME NEW t \in Tasks, Finish(t) PROVE ProgressInv'
    BY <2>3, SyncProgress DEF Finish
  <2>4. CASE OnlineChanges \/ UNCHANGED vars
    BY <2>1, <2>4 DEF OnlineChanges, vars, cleaning
  <2>5. CASE Restart
    <3>1. /\ progress' = Keep(dsProgress) /\ began' = dsBegan
          /\ UNCHANGED <<dsProgress, dsBegan, now>>
      BY <2>5 DEF Restart
    <3>2. Keep(dsProgress) = dsProgress
      BY DEF ProgressInv, Times, Keep
    <3> QED
      BY <3>1, <3>2 DEF ProgressInv, Times, IsEmpty, IsMeta
  <2>6. CASE Tick
    <3>1. now' = now + 1 /\ UNCHANGED <<progress, began, stored>>
      BY <2>6 DEF Tick, cleaning
    <3>2. ASSUME NEW m, NEW b, Times(m, b), now \in Nat
          PROVE  /\ b <= now + 1
                 /\ b # -1 => m.elapsed + (IF m.started = -1 THEN 0 ELSE now + 1 - m.started)
                                <= now + 1 - b
      BY <3>2 DEF Times, IsMeta
    <3>3. now' \in Nat /\ (unsaved' \/ dsProgress' = progress')
      BY <3>1 DEF ProgressInv, stored
    <3>4. Times(progress, began)'
      BY <3>1, <3>2 DEF ProgressInv, Times, IsEmpty, IsMeta
    <3>5. Times(dsProgress, dsBegan)'
      BY <3>1, <3>2 DEF ProgressInv, Times, IsEmpty, IsMeta, stored
    <3> QED
      BY <3>3, <3>4, <3>5 DEF ProgressInv
  <2> QED
    BY <2>1, <2>2, <2>3, <2>4, <2>5, <2>6, AppCompletesProgress DEF Next
<1> QED
  BY <1>1, <1>2, PTL DEF Spec

\* ProgressPersisted: update_cleaning_progress and remove_cleaning_progress (repository.py)
\* keep the stored progress the one in memory, whatever updates, restarts and failed calls of
\* the store come first, unless the last such call has raised.
THEOREM ProgressIsPersisted == Spec => []ProgressPersisted
<1>1. ProgressInv => ProgressPersisted
  BY DEF ProgressInv, ProgressPersisted
<1> QED
  BY <1>1, ProgressInvariant, PTL

\* NoTimeCountedTwice, for any number of reports, restarts and ticks of the clock:
\* sync_cleaning_progress_from_dp (repository.py) counts no second of a cleaning twice.
THEOREM TimeIsCountedOnce == Spec => []NoTimeCountedTwice
<1>1. ProgressInv => NoTimeCountedTwice
  BY DEF ProgressInv, Times, NoTimeCountedTwice
<1> QED
  BY <1>1, ProgressInvariant, PTL

-----------------------------------------------------------------------------
(* Type correctness: the maps. *)

\* The spread counts of a map are numbers; a map that is kept has no key that a report replaces.
Spreads(d) ==
    /\ "102" \in DOMAIN d => d["102"].spread \in Nat
    /\ "smooth" \in DOMAIN d => d["smooth"] \in Nat
Fit(d) == DOMAIN d \cap ReplacedKeys = {} /\ Spreads(d)

\* The settings of e are those of d.
Plain(e, d) == \A k \in {"102", "smooth"} : k \in DOMAIN e => k \in DOMAIN d /\ e[k] = d[k]

\* So are its spread counts numbers.
LEMMA PlainSpreads == ASSUME NEW d, Spreads(d), NEW e, Plain(e, d) PROVE Spreads(e)
  BY DEF Plain, Spreads

\* A report laid over a map leaves the settings, and brings no key that it replaces.
LEMMA WithReportLaw ==
    ASSUME NEW r, NEW d
    PROVE  Plain(WithReport(r, d), d) /\ DOMAIN WithReport(r, d) = DOMAIN d \cup {"101", "126"}
<1>1. PICK p, q, e : p = EncodeReport(r) /\ q = r.cat /\ e = WithReport(r, d)
  OBVIOUS
<1>2. e = Over(Entry("101", p), Over(Entry("126", q), d))
  BY <1>1 DEF WithReport
<1>3. DOMAIN e = DOMAIN d \cup {"101", "126"}
  BY <1>2 DEF Over, Entry
<1>4. \A k \in DOMAIN d \ {"101", "126"} : e[k] = d[k]
  BY <1>2 DEF Over, Entry
<1> QED
  BY <1>1, <1>3, <1>4 DEF Plain

\* Taking keys away.
LEMMA WithoutLaw ==
    ASSUME NEW d, NEW K
    PROVE  Plain(Without(d, K), d) /\ DOMAIN Without(d, K) = DOMAIN d \ K
  BY DEF Without, Restrict, Plain

\* Migrating the separate keys leaves the settings and takes the keys away.
LEMMA MigrateLaw ==
    ASSUME NEW d
    PROVE  /\ Plain(MigrateLegacyKeys(d), d)
           /\ DOMAIN MigrateLegacyKeys(d) \subseteq (DOMAIN d \ LegacyKeys) \cup {"101"}
<1>1. PICK e : e = MigrateLegacyKeys(d)
  OBVIOUS
<1>2. PICK s : s = StripLegacyKeys(d)
  OBVIOUS
<1>3. Plain(s, d) /\ DOMAIN s = DOMAIN d \ LegacyKeys
  BY <1>2, WithoutLaw DEF StripLegacyKeys
<1>4. e = s \/ \E r : e = Over(Entry("101", r), s)
  BY <1>1, <1>2 DEF MigrateLegacyKeys
<1>5. CASE e = s
  BY <1>1, <1>3, <1>5
<1>6. ASSUME NEW r, e = Over(Entry("101", r), s)
      PROVE  Plain(e, d) /\ DOMAIN e \subseteq (DOMAIN d \ LegacyKeys) \cup {"101"}
  BY <1>3, <1>6 DEF Over, Entry, Plain
<1> QED
  BY <1>1, <1>4, <1>5, <1>6

\* DP1 changes the report alone.
LEMMA ReconcileLaw ==
    ASSUME NEW d
    PROVE  Plain(ReconcileCleanControl(d), d) /\ DOMAIN ReconcileCleanControl(d) = DOMAIN d
<1>1. PICK e : e = ReconcileCleanControl(d)
  OBVIOUS
<1>2. e = d \/ \E r : e = [d EXCEPT !["101"] = r]
  BY <1>1 DEF ReconcileCleanControl
<1>3. CASE e = d
  BY <1>1, <1>3 DEF Plain
<1>4. ASSUME NEW r, e = [d EXCEPT !["101"] = r] PROVE Plain(e, d) /\ DOMAIN e = DOMAIN d
  BY <1>4 DEF Plain
<1> QED
  BY <1>1, <1>2, <1>3, <1>4

\* apply_to_map leaves the settings and no key that the report replaces.
LEMMA ApplyLaw ==
    ASSUME NEW d
    PROVE  Plain(ApplyToMap(d), d) /\ DOMAIN ApplyToMap(d) \cap ReplacedKeys = {}
<1>1. PICK m, e : m = MigrateLegacyKeys(d) /\ e = ApplyToMap(d)
  OBVIOUS
<1>2. Plain(m, d)
  BY <1>1, MigrateLaw
<1>3. PICK w : w = Without(m, ReplacedKeys)
  OBVIOUS
<1>4. Plain(w, m) /\ DOMAIN w \cap ReplacedKeys = {}
  <2>1. Plain(w, m) /\ DOMAIN w = DOMAIN m \ ReplacedKeys
    BY <1>3, WithoutLaw, Zenon
  <2> QED
    BY <2>1
<1>5. CASE ~Parses(m)
  <2>1. e = w
    BY <1>1, <1>3, <1>5 DEF ApplyToMap
  <2> QED
    BY <1>1, <1>2, <1>4, <2>1 DEF Plain
<1>6. CASE Parses(m)
  <2>1. PICK r : e = ReconcileCleanControl(WithReport(r, w))
    BY <1>1, <1>3, <1>6 DEF ApplyToMap
  <2>2. PICK x : x = WithReport(r, w)
    OBVIOUS
  <2>3. Plain(x, w) /\ DOMAIN x = DOMAIN w \cup {"101", "126"}
    BY <2>2, WithReportLaw
  <2>4. Plain(e, x) /\ DOMAIN e = DOMAIN x
    BY <2>1, <2>2, ReconcileLaw
  <2>5. "101" \notin ReplacedKeys /\ "126" \notin ReplacedKeys
    BY DEF ReplacedKeys, LegacyKeys
  <2> QED
    BY <1>1, <1>2, <1>4, <2>3, <2>4, <2>5 DEF Plain
<1> QED
  BY <1>5, <1>6

\* Laying a map over another one.
LEMMA OverSpreads ==
    ASSUME NEW f, Spreads(f), NEW g, Spreads(g)
    PROVE  /\ Spreads(Over(f, g)) /\ DOMAIN Over(f, g) = DOMAIN f \cup DOMAIN g
  BY DEF Spreads, Over

\* What the merges of cloud, device and pending action make of their inputs.
LEMMA InputsSpread ==
    ASSUME NEW in, Spreads(in), NEW c, Spreads(c), NEW a, NEW expected
    PROVE  /\ Spreads(MergeFillMissing(in, c)) /\ Spreads(MergeWithTimestamps(in, c))
           /\ Spreads(MergeDuringPending(in, c, a, expected))
<1>1. Spreads(MergeFillMissing(in, c))
  <2>1. Spreads(Over(in, c))
    BY OverSpreads
  <2>2. Spreads(ApplyToMap(Over(in, c)))
    BY <2>1, ApplyLaw, PlainSpreads
  <2> QED
    BY <2>2 DEF MergeFillMissing
<1>2. Spreads(MergeWithTimestamps(in, c))
  BY <1>1 DEF MergeWithTimestamps
<1>3. Spreads(MergeDuringPending(in, c, a, expected))
  <2>1. PICK e : e = MergeDuringPending(in, c, a, expected)
    OBVIOUS
  <2>2. e = in \/ \E r, on : e = ApplyToMap(Over(Entry("1", on), PatchDpStates(in, r)))
    BY <2>1 DEF MergeDuringPending
  <2>3. ASSUME NEW r, NEW on, e = ApplyToMap(Over(Entry("1", on), PatchDpStates(in, r))) PROVE Spreads(e)
    <3>1. Plain(StripLegacyKeys(in), in)
      BY WithoutLaw DEF StripLegacyKeys
    <3>2. Spreads(StripLegacyKeys(in))
      BY <3>1, PlainSpreads
    <3>3. Spreads(PatchDpStates(in, r))
      BY <3>2, WithReportLaw, PlainSpreads DEF PatchDpStates
    <3>4. Spreads(Entry("1", on))
      BY DEF Spreads, Entry
    <3>5. Spreads(Over(Entry("1", on), PatchDpStates(in, r)))
      BY <3>3, <3>4, OverSpreads
    <3> QED
      BY <2>3, <3>5, ApplyLaw, PlainSpreads
  <2> QED
    BY <2>1, <2>2, <2>3
<1> QED
  BY <1>1, <1>2, <1>3

\* What update_device_dps makes of any input is fit to be kept, and so is its merge.
LEMMA NormalizedFits ==
    ASSUME NEW dps, Spreads(dps), NEW old, Spreads(old)
    PROVE  Fit(Normalized(dps, old))
<1>1. PICK filled : /\ filled = IF ~Has(dps, "102") /\ Has(old, "102")
                                THEN Over(Entry("102", old["102"]), dps) ELSE dps
  OBVIOUS
<1>2. Spreads(filled)
  <2>1. CASE filled = dps
    BY <2>1
  <2>2. CASE Has(old, "102") /\ filled = Over(Entry("102", old["102"]), dps)
    <3>1. Spreads(Entry("102", old["102"]))
      BY <2>2 DEF Spreads, Entry, Has
    <3> QED
      BY <2>2, <3>1, OverSpreads
  <2> QED
    BY <1>1, <2>1, <2>2
<1>3. PICK m, e : m = ApplyToMap(filled) /\ e = Normalized(dps, old)
  OBVIOUS
<1>4. Fit(m)
  BY <1>2, <1>3, ApplyLaw, PlainSpreads DEF Fit
<1>5. e = IF Has(m, "102") THEN Over(Entry("smooth", m["102"].spread), m) ELSE m
  BY <1>1, <1>3 DEF Normalized
<1>6. CASE Has(m, "102")
  <2>1. PICK n : n = m["102"].spread
    OBVIOUS
  <2>2. n \in Nat
    BY <1>4, <1>6, <2>1 DEF Fit, Spreads, Has
  <2>3. Spreads(Entry("smooth", n)) /\ DOMAIN Entry("smooth", n) = {"smooth"}
    BY <2>2 DEF Spreads, Entry
  <2>4. Spreads(e) /\ DOMAIN e = {"smooth"} \cup DOMAIN m
    BY <1>4, <1>5, <1>6, <2>1, <2>3, OverSpreads DEF Fit
  <2> QED
    BY <1>3, <1>4, <2>4 DEF Fit, ReplacedKeys, LegacyKeys
<1> QED
  BY <1>3, <1>4, <1>5, <1>6

\* The merge into dp_states.
LEMMA MergeFits ==
    ASSUME NEW m, Fit(m), NEW cache, Fit(cache)
    PROVE  Fit(Merge(m, cache))
<1>1. PICK K : Merge(m, cache) = Over(m, Without(cache, K))
  BY DEF Merge
<1>2. PICK w : w = Without(cache, K)
  OBVIOUS
<1>3. Plain(w, cache) /\ DOMAIN w \subseteq DOMAIN cache
  <2>1. Plain(w, cache) /\ DOMAIN w = DOMAIN cache \ K
    BY <1>2, WithoutLaw, Zenon
  <2> QED
    BY <2>1
<1>4. Spreads(w)
  BY <1>3, PlainSpreads DEF Fit
<1>5. Spreads(Over(m, w)) /\ DOMAIN Over(m, w) = DOMAIN m \cup DOMAIN w
  BY <1>4, OverSpreads DEF Fit
<1> QED
  BY <1>1, <1>2, <1>3, <1>5 DEF Fit

\* Whatever is in memory, under way or stored is fit to be kept.
MapsFit ==
    /\ Fit(dpStates) /\ Fit(persisted) /\ Fit(record.dps)
    /\ DOMAIN mutable = Tasks /\ DOMAIN merged = Tasks
    /\ \A t \in Tasks : Fit(mutable[t]) /\ Fit(merged[t])

\* The empty map is fit.
LEMMA NothingFits == Fit(Nothing)
  BY DEF Fit, Spreads, Nothing

\* An update brings a map with numbers for spread counts.
LEMMA UpdateBegins ==
    ASSUME MapsFit, NEW t \in Tasks, Update(t)
    PROVE  \E dps : Spreads(dps) /\ Begin(t, dps)
<1>1. PICK in \in Incoming :
         \/ Begin(t, in)
         \/ Begin(t, MergeFillMissing(in, dpStates))
         \/ Begin(t, MergeWithTimestamps(in, dpStates))
         \/ \E a, expected : Begin(t, MergeDuringPending(in, dpStates, a, expected))
  BY DEF Update
<1>2. Spreads(in) /\ Spreads(dpStates)
  BY IncomingAssumption DEF Spreads, MapsFit, Fit
<1> QED
  BY <1>1, <1>2, InputsSpread

\* The maps stay fit.
LEMMA MergeStepFits ==
    ASSUME MapsFit, NEW t \in Tasks, NEW m, Fit(m), MergeStep(t, m)
    PROVE  Fit(dpStates') /\ DOMAIN merged' = Tasks /\ \A u \in Tasks : Fit(merged'[u])
<1>1. PICK new : new = Merge(m, dpStates)
  OBVIOUS
<1>2. Fit(new)
  BY <1>1, MergeFits DEF MapsFit
<1>3. dpStates' = new /\ merged' = [merged EXCEPT ![t] = new]
  BY <1>1 DEF MergeStep
<1> QED
  BY <1>2, <1>3 DEF MapsFit

\* The first step of an update.
LEMMA BeginFits ==
    ASSUME MapsFit, NEW t \in Tasks, NEW dps, Spreads(dps), Begin(t, dps)
    PROVE  MapsFit'
<1>1. PICK m : m = Normalized(dps, record.dps)
  OBVIOUS
<1>2. Fit(m)
  BY <1>1, NormalizedFits DEF MapsFit, Fit
<1>3. mutable' = [mutable EXCEPT ![t] = m] /\ UNCHANGED <<persisted, record>>
  BY <1>1 DEF Begin
<1>4. DOMAIN mutable' = Tasks /\ \A u \in Tasks : Fit(mutable'[u])
  BY <1>2, <1>3 DEF MapsFit
<1>5. UNCHANGED <<dpStates, merged>> \/ MergeStep(t, m)
  BY <1>1 DEF Begin
<1>6. Fit(dpStates') /\ DOMAIN merged' = Tasks /\ \A u \in Tasks : Fit(merged'[u])
  BY <1>2, <1>5, MergeStepFits DEF MapsFit
<1> QED
  BY <1>3, <1>4, <1>6 DEF MapsFit

\* Every step.
LEMMA MapsStep == ASSUME MapsFit, [Next]_vars PROVE MapsFit'
<1>1. ASSUME NEW t \in Tasks, Update(t) PROVE MapsFit'
  BY <1>1, UpdateBegins, BeginFits
<1>2. ASSUME NEW t \in Tasks, Colored(t) PROVE MapsFit'
  <2>1. MergeStep(t, mutable[t]) /\ UNCHANGED <<persisted, record, mutable>>
    BY <1>2 DEF Colored
  <2>2. PICK m : m = mutable[t]
    OBVIOUS
  <2>3. Fit(dpStates') /\ DOMAIN merged' = Tasks /\ \A u \in Tasks : Fit(merged'[u])
    BY <2>1, <2>2, MergeStepFits DEF MapsFit
  <2> QED
    BY <2>1, <2>3 DEF MapsFit
<1>3. ASSUME NEW t \in Tasks, Persist(t) PROVE MapsFit'
  BY <1>3 DEF Persist, MapsFit, local
<1>4. ASSUME NEW t \in Tasks, Store(t) PROVE MapsFit'
  <2>1. /\ record'.dps = merged[t] /\ merged' = [merged EXCEPT ![t] = Nothing]
        /\ UNCHANGED <<dpStates, persisted, mutable>>
    BY <1>4 DEF Store, Stored
  <2> QED
    BY <2>1, NothingFits DEF MapsFit
<1>5. ASSUME NEW t \in Tasks, Finish(t) PROVE MapsFit'
  <2>1. mutable' = [mutable EXCEPT ![t] = Nothing] /\ UNCHANGED <<dpStates, persisted, record, merged>>
    BY <1>5 DEF Finish
  <2> QED
    BY <2>1, NothingFits DEF MapsFit
<1>6. CASE OnlineChanges
  <2>1. record' = [record EXCEPT !.online = ~record.online]
        /\ UNCHANGED <<dpStates, persisted, mutable, merged>>
    BY <1>6 DEF OnlineChanges, local
  <2>2. record'.dps = record.dps
    BY <2>1
  <2> QED
    BY <2>1, <2>2 DEF MapsFit
<1>7. CASE Restart
  <2>1. /\ dpStates' = Nothing /\ UNCHANGED <<persisted, record>>
        /\ mutable' = [t \in Tasks |-> Nothing] /\ merged' = [t \in Tasks |-> Nothing]
    BY <1>7 DEF Restart
  <2> QED
    BY <2>1, NothingFits DEF MapsFit
<1>8. CASE AppCompletes \/ Tick \/ UNCHANGED vars
  BY <1>8 DEF AppCompletes, Tick, vars, local, MapsFit
<1> QED
  BY <1>1, <1>2, <1>3, <1>4, <1>5, <1>6, <1>7, <1>8 DEF Next

\* The invariant of the maps.
LEMMA MapsAreFit == Spec => []MapsFit
<1>1. Init => MapsFit
  BY NothingFits DEF Init, MapsFit
<1>2. MapsFit /\ [Next]_vars => MapsFit'
  BY MapsStep
<1> QED
  BY <1>1, <1>2, PTL DEF Spec

-----------------------------------------------------------------------------
(* The types of the progress. *)

\* A percentage.
LEMMA PercentLaw ==
    ASSUME NEW e \in Nat, NEW x \in Nat \ {0}
    PROVE  Percent(e, x) \in 0..100
<1>1. PICK n \in Nat : n = e * 400
  OBVIOUS
<1>2. n \div x \in Nat
  OBVIOUS
<1>3. PICK p \in Nat : p = n \div x
  BY <1>2
<1> QED
  BY <1>1, <1>3 DEF Percent

\* A cleaning takes some time.
LEMMA ExpectedLaw == ASSUME NEW d, Spreads(d) PROVE Expected(d) \in Nat \ {0}
<1>1. PICK s \in Nat : s = IF Has(d, "smooth") THEN d["smooth"] ELSE 0
  BY DEF Spreads, Has
<1> QED
  BY <1>1 DEF Expected

\* The metadata is of the past and has a percentage.
Past(m) ==
    /\ IsMeta(m) /\ m.percent \in 0..100 /\ m.elapsed >= 0 /\ m.started \in -1..now

TimesInv ==
    /\ now \in 1..MaxTime
    /\ Past(progress) /\ Past(dsProgress)
    /\ began \in -1..now /\ dsBegan \in -1..now /\ unsaved \in BOOLEAN

\* The empty metadata is of the past.
LEMMA EmptyIsPast == ASSUME now \in 1..MaxTime PROVE Past(EmptyMeta)
  BY EmptyIsMeta, RepositoryAssumption DEF Past, EmptyMeta

\* What the three cases of sync_cleaning_progress_from_dp make of the metadata.
LEMMA SyncedIsPast ==
    ASSUME now \in 1..MaxTime, NEW m, Past(m), NEW d, Spreads(d), NEW n,
           n \in {OnStart(m, d), OnPause(m, d), OnOther(m, d)}
    PROVE  Past(n)
<1>1. PICK e : e = Expected(d)
  OBVIOUS
<1>2. e \in Nat \ {0}
  BY <1>1, ExpectedLaw
<1>3. PICK s : s = StartedOrNow(m)
  OBVIOUS
<1>4. s \in 0..now /\ now \in Nat
  BY <1>3, RepositoryAssumption DEF StartedOrNow, Past
<1>5. PICK x : x = now - s + m.elapsed
  OBVIOUS
<1>6. x \in Nat
  BY <1>4, <1>5 DEF Past, IsMeta
<1>7. PICK p : p = Percent(x, e)
  OBVIOUS
<1>8. p \in 0..100
  BY <1>2, <1>6, <1>7, PercentLaw
<1>9. CASE n = OnStart(m, d)
  <2>1. \/ n = [EmptyMeta EXCEPT !.started = now, !.expected = e, !.updated = now]
        \/ n = [m EXCEPT !.expected = e]
        \/ n = [m EXCEPT !.started = s, !.paused = -1, !.percent = p, !.expected = e,
                         !.completed = -1, !.updated = now]
    BY <1>1, <1>3, <1>5, <1>7, <1>9 DEF OnStart
  <2>2. CASE n = [EmptyMeta EXCEPT !.started = now, !.expected = e, !.updated = now]
    BY <1>4, <2>2 DEF Past, IsMeta, EmptyMeta
  <2>3. CASE n = [m EXCEPT !.expected = e]
    BY <2>3 DEF Past, IsMeta
  <2>4. CASE n = [m EXCEPT !.started = s, !.paused = -1, !.percent = p, !.expected = e,
                           !.completed = -1, !.updated = now]
    BY <1>4, <1>8, <2>4 DEF Past, IsMeta
  <2> QED
    BY <2>1, <2>2, <2>3, <2>4
<1>10. CASE n = OnPause(m, d)
  <2>1. n = [m EXCEPT !.started = -1, !.paused = now, !.elapsed = x, !.percent = p,
                      !.expected = e, !.completed = -1, !.updated = now]
    BY <1>1, <1>3, <1>5, <1>7, <1>10 DEF OnPause
  <2> QED
    BY <1>4, <1>6, <1>8, <2>1 DEF Past, IsMeta
<1>11. CASE n = OnOther(m, d)
  <2>1. n = m \/ n = [m EXCEPT !.expected = e, !.updated = now]
    BY <1>1, <1>11 DEF OnOther
  <2>2. CASE n = [m EXCEPT !.expected = e, !.updated = now]
    BY <2>2 DEF Past, IsMeta
  <2> QED
    BY <2>1, <2>2
<1> QED
  BY <1>9, <1>10, <1>11

\* The metadata is remembered, and perhaps saved.
LEMMA SavedTimes ==
    ASSUME TimesInv, NEW m, Past(m), progress' = Keep(m), SaveProgress(m),
           began' \in {-1, now, began}, now' = now
    PROVE  TimesInv'
<1>1. Past(EmptyMeta)
  BY EmptyIsPast DEF TimesInv
<1>2. ASSUME NEW n PROVE Past(n)' = Past(n)
  BY DEF Past, IsMeta
<1>3. progress' \in {EmptyMeta, m} /\ dsProgress' \in {EmptyMeta, m, dsProgress}
  BY DEF SaveProgress, Keep
<1>4. Past(progress') /\ Past(dsProgress')
  BY <1>1, <1>3 DEF TimesInv
<1>5. began' \in -1..now /\ dsBegan' \in {began', dsBegan} /\ unsaved' \in BOOLEAN
  BY RepositoryAssumption DEF SaveProgress, TimesInv
<1>6. Past(progress)' /\ Past(dsProgress)'
  BY <1>2, <1>4 DEF Past, IsMeta
<1> QED
  BY <1>5, <1>6 DEF TimesInv

\* The end of an update.
LEMMA SyncTimes ==
    ASSUME TimesInv, NEW d, Spreads(d), Sync(d), now' = now
    PROVE  TimesInv'
<1>1. CASE RunningStatus(d) = "completed"
  <2>1. progress' = Keep(EmptyMeta) /\ SaveProgress(EmptyMeta) /\ began' = -1
    BY <1>1, EmptyIsMeta DEF Sync, RemoveProgress, Keep
  <2>2. Past(EmptyMeta)
    BY EmptyIsPast DEF TimesInv
  <2> QED
    BY <2>1, <2>2, SavedTimes
<1>2. CASE RunningStatus(d) # "completed"
  <2>1. PICK new : /\ new \in {OnStart(progress, d), OnPause(progress, d), OnOther(progress, d)}
                   /\ UpdateProgress(new) \/ UNCHANGED <<progress, stored>>
    BY <1>2 DEF Sync
  <2>2. Past(new)
    BY <2>1, SyncedIsPast DEF TimesInv
  <2>3. began' \in {now, began}
    BY <1>2 DEF Sync
  <2>4. CASE UNCHANGED <<progress, stored>>
    BY <2>3, <2>4, RepositoryAssumption DEF TimesInv, Past, IsMeta, stored
  <2>5. CASE UpdateProgress(new)
    BY <2>2, <2>3, <2>5, SavedTimes DEF UpdateProgress
  <2> QED
    BY <2>1, <2>4, <2>5
<1> QED
  BY <1>1, <1>2

\* Every step keeps the times.
LEMMA TimesStep == ASSUME MapsFit, TimesInv, [Next]_vars PROVE TimesInv'
<1>1. CASE UNCHANGED <<now, progress, began, stored>>
  BY <1>1 DEF TimesInv, Past, IsMeta, stored
<1>2. ASSUME NEW t \in Tasks, Update(t) \/ Colored(t) \/ Persist(t) \/ Store(t)
      PROVE  UNCHANGED <<now, progress, began, stored>>
  BY <1>2 DEF Update, Begin, Colored, Persist, Store, cleaning
<1>3. ASSUME NEW t \in Tasks, Finish(t) PROVE TimesInv'
  <2>1. Spreads(mutable[t])
    BY DEF MapsFit, Fit
  <2>2. Sync(mutable[t]) /\ now' = now
    BY <1>3 DEF Finish
  <2> QED
    BY <2>1, <2>2, SyncTimes
<1>4. CASE OnlineChanges \/ UNCHANGED vars
  BY <1>1, <1>4 DEF OnlineChanges, vars, cleaning
<1>5. CASE AppCompletes
  <2>1. PICK m : m = [progress EXCEPT !.completed = now, !.updated = now]
    OBVIOUS
  <2>2. Past(m)
    BY <2>1 DEF TimesInv, Past, IsMeta
  <2>3. progress' = Keep(m) /\ SaveProgress(m) /\ UNCHANGED <<began, now>>
    BY <1>5, <2>1 DEF AppCompletes, UpdateProgress
  <2> QED
    BY <2>2, <2>3, SavedTimes
<1>6. CASE Restart
  <2>1. /\ progress' \in {EmptyMeta, dsProgress} /\ began' = dsBegan /\ unsaved' = FALSE
        /\ UNCHANGED <<dsProgress, dsBegan, now>>
    BY <1>6 DEF Restart, Keep
  <2>2. Past(progress') /\ Past(dsProgress')
    BY <2>1, EmptyIsPast DEF TimesInv
  <2> QED
    BY <2>1, <2>2 DEF TimesInv, Past, IsMeta
<1>7. CASE Tick
  <2>1. /\ now < MaxTime /\ now' = now + 1
        /\ UNCHANGED <<progress, began, stored>>
    BY <1>7 DEF Tick, cleaning
  <2> QED
    BY <2>1, RepositoryAssumption DEF TimesInv, Past, IsMeta, stored
<1> QED
  BY <1>1, <1>2, <1>3, <1>4, <1>5, <1>6, <1>7 DEF Next

\* The rest of the types.
PcTypes ==
    /\ pc \in [Tasks -> {"idle", "color", "persist", "store", "sync"}]
    /\ alone \in [Tasks -> BOOLEAN] /\ repaired \in BOOLEAN
    /\ updates \in 0..MaxUpdates

\* Every step keeps them.
LEMMA PcStep == ASSUME PcTypes, [Next]_vars PROVE PcTypes'
<1>1. ASSUME NEW t \in Tasks, NEW dps, Begin(t, dps) PROVE PcTypes'
  <2>1. PICK p \in {"color", "persist"} : pc' = [pc EXCEPT ![t] = p]
    BY <1>1 DEF Begin, MergeStep
  <2>2. alone' \in [Tasks -> BOOLEAN] /\ UNCHANGED repaired
    BY <1>1 DEF Begin, Disturb
  <2>3. updates' \in 0..MaxUpdates
    BY <1>1, RepositoryAssumption DEF Begin, PcTypes
  <2> QED
    BY <2>1, <2>2, <2>3 DEF PcTypes
<1>2. ASSUME NEW t \in Tasks, Update(t) PROVE \E dps : Begin(t, dps)
  BY <1>2 DEF Update
<1>3. ASSUME NEW t \in Tasks, Colored(t) \/ Persist(t) \/ Store(t) PROVE PcTypes'
  BY <1>3 DEF Colored, Persist, Store, MergeStep, PcTypes
<1>4. ASSUME NEW t \in Tasks, Finish(t) PROVE PcTypes'
  BY <1>4 DEF Finish, PcTypes
<1>5. CASE OnlineChanges \/ Restart
  BY <1>5 DEF OnlineChanges, Restart, PcTypes
<1>6. CASE AppCompletes \/ Tick \/ UNCHANGED vars
  BY <1>6 DEF AppCompletes, Tick, vars, PcTypes
<1> QED
  BY <1>1, <1>2, <1>3, <1>4, <1>5, <1>6 DEF Next

\* Types of the repository: no key that a report replaces is kept, persisted or stored next to
\* it, whatever the device, the cloud and pending actions bring in whatever order (dp101.py,
\* apply_to_map); the progress stays a percentage, and no time is of the future (repository.py,
\* sync_cleaning_progress_from_dp).
THEOREM RepositoryTypes == Spec => []TypeOK
<1>1. Init => TimesInv /\ PcTypes
  <2> SUFFICES ASSUME Init PROVE TimesInv /\ PcTypes
    OBVIOUS
  <2>1. now \in 1..MaxTime
    BY RepositoryAssumption DEF Init
  <2>2. TimesInv
    <3>1. /\ progress = EmptyMeta /\ dsProgress = EmptyMeta
          /\ began = -1 /\ dsBegan = -1 /\ unsaved = FALSE
      BY DEF Init
    <3>2. -1 \in -1..now
      BY <2>1, RepositoryAssumption
    <3> QED
      BY <2>1, <3>1, <3>2, EmptyIsPast DEF TimesInv
  <2>3. PcTypes
    <3>1. updates \in 0..MaxUpdates
      BY RepositoryAssumption DEF Init
    <3>2. pc \in [Tasks -> {"idle", "color", "persist", "store", "sync"}]
      BY DEF Init
    <3>3. alone \in [Tasks -> BOOLEAN] /\ repaired \in BOOLEAN
      BY DEF Init
    <3> QED
      BY <3>1, <3>2, <3>3 DEF PcTypes
  <2> QED
    BY <2>2, <2>3
<1>2. MapsFit /\ TimesInv /\ PcTypes /\ [Next]_vars => TimesInv' /\ PcTypes'
  BY TimesStep, PcStep
<1>3. MapsFit /\ TimesInv /\ PcTypes => TypeOK
  <2> SUFFICES ASSUME MapsFit, TimesInv, PcTypes PROVE TypeOK
    OBVIOUS
  <2>1. \A d \in {dpStates, persisted, record.dps} : DOMAIN d \cap ReplacedKeys = {}
    BY DEF MapsFit, Fit
  <2>2. /\ now \in 1..MaxTime /\ MaxTime \in Nat
        /\ began \in -1..MaxTime /\ dsBegan \in -1..MaxTime /\ unsaved \in BOOLEAN
    BY RepositoryAssumption DEF TimesInv
  <2>3. \A m \in {progress, dsProgress} :
          m.percent \in 0..100 /\ m.elapsed >= 0 /\ m.started \in -1..MaxTime
    BY <2>2 DEF TimesInv, Past
  <2> QED
    BY <2>1, <2>2, <2>3 DEF PcTypes, TypeOK
<1> QED
  BY <1>1, <1>2, <1>3, MapsAreFit, PTL DEF Spec
=============================================================================
