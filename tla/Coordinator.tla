---------------------------- MODULE Coordinator ----------------------------
(***************************************************************************)
(* The Home Assistant coordinator (custom_components/popur/coordinator.py) *)
(* for one device: polling over the LAN with the cloud behind it, the slow *)
(* cloud tier, pushes, and the delayed fetch of pet records.               *)
(*                                                                         *)
(* Everything runs on one event loop; a step is what happens between two   *)
(* waits.  A datapoint's value is the number of times it has changed.  The *)
(* answer to a LAN query has "live" and leaves out "setting" (DP102, 104   *)
(* and 105); the cloud has both.  FallbackTransport is the one ClientDps   *)
(* details; here an operation uses the primary it saw when it began.  A    *)
(* LocalTuyaTransport (local.py) keeps every datapoint it ever saw, and    *)
(* what a read returns is all of these.  Home Assistant runs one refresh   *)
(* at a time.                                                              *)
(***************************************************************************)
EXTENDS Naturals, SequencesExt

CONSTANTS Hosts,       \* addresses of the local network
          Fetches,     \* slots for _fetch_pet_records tasks
          Budgets,     \* what may happen (bounds): see Events
          None

\* Changes of a datapoint, moves to another address, failures of LAN or cloud, pushes lost
\* and reads that another frame completes, and visits of a pet.
Events == {"changes", "moves", "faults", "visits"}

ASSUME CoordinatorAssumption ==
    /\ Hosts \subseteq Nat /\ None \notin Hosts
    /\ IsFiniteSet(Fetches) /\ Budgets \subseteq [Events -> Nat]

VARIABLES
    dev, host,        \* the device's datapoints and its address
    stranger,         \* an address where another device of this make listens
    cloud,            \* the cloud's copy of the datapoints
    primary, backoff, \* of the FallbackTransport; primary is None when it has none
    active,           \* which channel served its last operation
    lan,              \* the primary's _last_dps
    rpc, rhost, rd,   \* the refresh: its position, its primary, the data it builds
    channel,          \* what served the refresh
    since,            \* a push was merged since the refresh read the device
    data,             \* self.data
    shadow, due,      \* _shadow_dps; the time of _next_cloud_refresh has come
    cpc, chost,       \* an entity's command: its position and its primary
    timer, orphans,   \* _record_fetch_task is pending; timers no handle is left of
    attempt,          \* _record_fetch_attempt
    fetch,            \* the running _fetch_pet_records
    visits, record,   \* visits of pets, and the records of them the cloud has
    budget            \* how many events of each kind are left

device    == <<dev, host, stranger, cloud>>
transport == <<primary, backoff, active, lan>>
refresh   == <<rpc, rhost, rd, channel, since, data, shadow, due>>
command   == <<cpc, chost>>
pets      == <<timer, orphans, attempt, fetch, visits, record>>

coordinatorVars == <<device, transport, refresh, command, pets, budget>>

Dps  == {"live", "setting"}
Zero == [d \in Dps |-> 0]

Nothing == [x \in {} |-> x]

\* dict.update: a map of datapoints laid over another.
Over(f, g) == [d \in DOMAIN f \cup DOMAIN g |-> IF d \in DOMAIN f THEN f[d] ELSE g[d]]

\* PopurRuntimeData: the snapshot's datapoints, the transport and the pet visits.
NoData == [dps |-> Nothing, via |-> "none", visits |-> 0]

\* A read over the LAN ("cached" when another frame completed it), over the cloud after the
\* LAN failed, and over the cloud at once.
ReadChannels == {"lan", "cached", "fallback", "skip"}

NoFetch == [run |-> FALSE, current |-> FALSE, old |-> 0]

\* What the variables hold.
CoordinatorTypeOK ==
    /\ budget \in [Events -> Nat]
    /\ dev \in [Dps -> Nat] /\ cloud \in [Dps -> Nat]
    /\ \A d \in Dps : cloud[d] <= dev[d]
    /\ host \in Hosts /\ stranger \in (Hosts \ {host}) \cup {None}
    /\ primary \in Hosts \cup {None} /\ backoff \in BOOLEAN
    /\ active \in {"none", "primary", "fallback"}
    /\ rpc \in {"idle", "lan", "fallback", "skip", "answer", "scan", "probe", "shadow", "pets"}
    /\ channel \in ReadChannels \cup {None}
    /\ cpc \in {"idle", "lan", "left", "fallback", "skip"}
    /\ \A x \in {data.dps, rd.dps, lan} : /\ DOMAIN x \subseteq Dps
                                        /\ \A d \in DOMAIN x : x[d] <= dev[d]
    /\ data.visits <= record /\ rd.visits <= record
    /\ record <= visits /\ attempt \in 0..visits + 1 /\ (orphans > 0 => orphans < visits)

\* _local_transport: the address the client connects to when the entry is set up; without
\* one there is only the cloud, for ever.
FirstHost(h) == host = h /\ primary \in {h, None}

CoordinatorInit ==
    /\ dev = Zero /\ cloud = Zero /\ shadow = Nothing
    /\ \E h \in Hosts : FirstHost(h)
    /\ stranger = None /\ backoff = FALSE /\ active = "none" /\ lan = Nothing
    /\ rpc = "idle" /\ rhost = None /\ rd = NoData /\ channel = None /\ since = FALSE
    /\ data = NoData /\ due = TRUE
    /\ cpc = "idle" /\ chost = None
    /\ timer = FALSE /\ orphans = 0 /\ attempt = 0
    /\ fetch = [f \in Fetches |-> NoFetch]
    /\ visits = 0 /\ record = 0
    /\ budget \in Budgets

\* Events of these kinds happen.
Spend(K) ==
    /\ \A k \in K : budget[k] > 0
    /\ budget' = [k \in Events |-> IF k \in K THEN budget[k] - 1 ELSE budget[k]]

Fault == Spend({"faults"})

-----------------------------------------------------------------------------
(* FallbackTransport, as ClientDps has it. *)

\* The channel an operation begins with; when the primary is skipped `active' says so at once.
Channel == IF backoff \/ primary = None THEN "skip" ELSE "lan"

Chosen == active' = IF Channel = "skip" THEN "fallback" ELSE active

\* A primary answers where the device is.
Reaches(h) == h = host

\* _mark_primary_dead: whatever is the primary now is closed and left alone for a while; it
\* keeps what it has seen.
MarkPrimaryDead == backoff' = TRUE /\ UNCHANGED <<primary, active, lan>>

\* _merge_dps: the datapoints of a frame of the device.
MergeDps(K) == lan' = Over([d \in K |-> dev[d]], lan)

\* A status frame arrives on the LAN session, or the late answer of a query.
LanFrame(d) ==
    /\ primary # None /\ Reaches(primary) /\ ~backoff
    /\ MergeDps({d})
    /\ UNCHANGED <<device, primary, backoff, active, refresh, command, pets, budget>>

-----------------------------------------------------------------------------
(* The refresh: _async_update_data. *)

\* Mutant of ApplyShadow: the shadow wins.
ApplyShadowFirst(s, dps) == Over(s, dps)

\* _apply_shadow: datapoints the snapshot does not have are taken from the shadow.
ApplyShadow(s, dps) == Over(dps, s)

\* The refresh ends with new data; fetches that hold the old data write to it in vain.
Publish(new) ==
    /\ data' = new
    /\ rpc' = "idle" /\ rd' = NoData /\ rhost' = None /\ channel' = None /\ since' = FALSE
    /\ fetch' = [f \in Fetches |-> [fetch[f] EXCEPT !.current = FALSE]]

\* The poll interval is over, or a refresh was requested.
Poll ==
    /\ rpc = "idle"
    /\ rpc' = Channel /\ rhost' = primary /\ Chosen
    /\ UNCHANGED <<device, primary, backoff, lan, rd, channel, since, data, shadow, due, command,
                   pets, budget>>

\* The device, or the cloud in its place, is read and the answer is under way.
Read(dps, ch) ==
    /\ rpc' = "answer" /\ rhost' = None /\ since' = FALSE
    /\ channel' = ch
    /\ rd' = [NoData EXCEPT !.dps = dps]
    /\ UNCHANGED <<device, primary, backoff, active, data, shadow, due, command, pets>>

\* LocalTuyaTransport.read_dps: the answer to the query, or any other frame that comes first,
\* completes it, and all that is known is returned.
RefreshLan ==
    /\ rpc = "lan" /\ Reaches(rhost)
    /\ \/ MergeDps({"live"}) /\ Read(lan', "lan") /\ UNCHANGED budget
       \/ Fault /\ UNCHANGED lan /\ Read(lan, "cached")

RefreshLanFails ==
    /\ rpc = "lan"
    /\ IF Reaches(rhost) THEN Fault ELSE UNCHANGED budget
    /\ MarkPrimaryDead
    /\ rpc' = "fallback"
    /\ UNCHANGED <<device, rhost, rd, channel, since, data, shadow, due, command, pets>>

RefreshCloud == rpc \in {"fallback", "skip"} /\ Read(cloud, rpc) /\ UNCHANGED <<lan, budget>>

\* The refresh sets `active' when it ends, unless it skipped the primary: then another
\* operation may have set it since.
Served == CASE channel \in {"lan", "cached"} -> "primary"
            [] channel = "fallback"          -> "fallback"
            [] OTHER                         -> active

\* The rest of _async_update_data once the device was read: the visits known so far are
\* carried over, and the cloud tier follows when it is due.
Answered ==
    LET new == [dps |-> ApplyShadow(shadow, rd.dps), visits |-> data.visits,
                via |-> IF Served = "primary" THEN "lan" ELSE "cloud"] IN
    /\ rpc = "answer"
    /\ active' = Served
    /\ IF due THEN /\ due' = FALSE /\ rd' = new
                   /\ rpc' = IF new.via = "cloud" /\ primary # None THEN "scan" ELSE "shadow"
                   /\ UNCHANGED <<rhost, channel, since, data, fetch>>
       ELSE Publish(new) /\ UNCHANGED due
    /\ UNCHANGED <<device, primary, backoff, lan, shadow, command, timer, orphans, attempt, visits,
                   record, budget>>

\* UpdateFailed: the data stays what it was.
RefreshFails ==
    /\ rpc \in {"fallback", "skip"} /\ Fault
    /\ rpc' = "idle" /\ rhost' = None
    /\ UNCHANGED <<device, transport, rd, channel, since, data, shadow, due, command, pets>>

-----------------------------------------------------------------------------
(* The cloud tier: _async_refresh_cloud. *)

\* find_lan_hosts: the address the neighbour table has for the device's MAC, when it has one,
\* then every address where the port is open, in order.
Candidates(arp) ==
    LET open  == {host, stranger} \ {None}
        known == IF arp THEN {host} ELSE {}
    IN  SetToSeq(known) \o SetToSortSeq(open \ known, <)

\* The candidates that are probed: those before the primary's own address.
Probed(cs) ==
    LET k == SelectInSeq(cs, LAMBDA h : h = primary)
    IN  ToSet(SubSeq(cs, 1, IF k = 0 THEN Len(cs) ELSE k - 1))

\* A stranger does not know the local key, so only the device's own address can be taken up.
Scan ==
    /\ rpc = "scan"
    /\ \/ \E arp \in BOOLEAN :
            IF host \in Probed(Candidates(arp))
            THEN rhost' = host /\ rpc' = "probe" /\ UNCHANGED budget
            ELSE rpc' = "shadow" /\ UNCHANGED <<rhost, budget>>
       \/ Fault /\ rpc' = "shadow" /\ UNCHANGED rhost
    /\ UNCHANGED <<device, transport, rd, channel, since, data, shadow, due, command, pets>>

\* Mutant of Swap: the primary is replaced only when there is no backoff.
SwapTimid ==
    /\ primary' = IF backoff THEN primary ELSE rhost
    /\ backoff' = FALSE /\ lan' = Nothing
    /\ cpc' = IF cpc = "lan" THEN "left" ELSE cpc

\* The candidate, which has seen nothing yet, becomes the primary, and the skip window is
\* over; a command that is under way goes on with the one it began with.
Swap ==
    /\ primary' = rhost /\ backoff' = FALSE /\ lan' = Nothing
    /\ cpc' = IF cpc = "lan" THEN "left" ELSE cpc

\* The candidate is connected to; when that fails the old primary stays.
Probe ==
    /\ rpc = "probe"
    /\ \/ Reaches(rhost) /\ Swap /\ UNCHANGED budget
       \/ UNCHANGED <<primary, backoff, lan, cpc>> /\ IF Reaches(rhost) THEN Fault ELSE UNCHANGED budget
    /\ rpc' = "shadow" /\ rhost' = None
    /\ UNCHANGED <<device, active, rd, channel, since, data, shadow, due, chost, pets>>

\* Mutant of KeepShadow: only this refresh gets the cloud's datapoints.
KeepShadowNot == UNCHANGED shadow

\* The shadow is kept for the next refreshes.
KeepShadow == shadow' = cloud

\* account.device_dps: the shadow is replaced and laid under a snapshot that already has the
\* old one in it.
Shadow ==
    /\ rpc = "shadow"
    /\ \/ KeepShadow /\ rd' = [rd EXCEPT !.dps = ApplyShadow(cloud, @)] /\ UNCHANGED budget
       \/ Fault /\ UNCHANGED <<shadow, rd>>
    /\ rpc' = "pets"
    /\ UNCHANGED <<device, transport, rhost, channel, since, data, due, command, pets>>

\* _refresh_pet_data, then the end of the refresh.
RefreshPets ==
    /\ rpc = "pets"
    /\ \/ Publish([rd EXCEPT !.visits = record]) /\ UNCHANGED budget
       \/ Fault /\ Publish(rd)
    /\ UNCHANGED <<device, transport, shadow, due, command, timer, orphans, attempt, visits, record>>

\* CLOUD_REFRESH_INTERVAL has passed.
CloudDue ==
    /\ ~due /\ due' = TRUE
    /\ UNCHANGED <<device, transport, rpc, rhost, rd, channel, since, data, shadow, command, pets,
                   budget>>

-----------------------------------------------------------------------------
(* Entities: a command changes a setting, through the same transport. *)

CommandBegin ==
    /\ cpc = "idle" /\ Spend({"changes"})
    /\ cpc' = Channel /\ chost' = primary /\ Chosen
    /\ UNCHANGED <<device, primary, backoff, lan, refresh, pets>>

\* A datapoint changes; until it is reported the cloud is behind.
Change(d) == dev' = [dev EXCEPT ![d] = @ + 1]

\* Over the LAN, and what was written is remembered; or over the cloud, which tells the
\* primary nothing.
Command ==
    /\ \/ /\ cpc \in {"lan", "left"} /\ Reaches(chost)
          /\ lan' = IF cpc = "lan" THEN Over([d \in {"setting"} |-> dev[d] + 1], lan) ELSE lan
          /\ active' = "primary"
       \/ cpc = "fallback" /\ active' = "fallback" /\ UNCHANGED lan
       \/ cpc = "skip" /\ UNCHANGED <<lan, active>>
    /\ Change("setting")
    /\ cpc' = "idle" /\ chost' = None
    /\ UNCHANGED <<host, stranger, cloud, primary, backoff, refresh, pets, budget>>

CommandFails ==
    /\ \/ /\ cpc \in {"lan", "left"} /\ (IF Reaches(chost) THEN Fault ELSE UNCHANGED budget)
          /\ MarkPrimaryDead /\ cpc' = "fallback" /\ UNCHANGED chost
       \/ /\ cpc \in {"fallback", "skip"} /\ Fault
          /\ cpc' = "idle" /\ chost' = None /\ UNCHANGED transport
    /\ UNCHANGED <<device, refresh, pets>>

\* The backoff of the primary has run out.
BackoffEnds ==
    /\ backoff /\ backoff' = FALSE
    /\ UNCHANGED <<device, primary, active, lan, refresh, command, pets, budget>>

-----------------------------------------------------------------------------
(* The device, its reports and the pushes. *)

\* By itself, or because the app changes a setting.
DeviceChanges ==
    /\ Spend({"changes"}) /\ \E d \in Dps : Change(d)
    /\ UNCHANGED <<host, stranger, cloud, transport, refresh, command, pets>>

DeviceMoves ==
    /\ Spend({"moves"})
    /\ host' \in Hosts \ {host}
    /\ stranger' \in {None, host}
    /\ UNCHANGED <<dev, cloud, transport, refresh, command, pets>>

\* push_dps.
PushDps(d, value) ==
    /\ data' = IF data = NoData THEN data ELSE [data EXCEPT !.dps = Over([x \in {d} |-> value], @)]
    /\ since' = (rpc \notin {"idle", "lan", "fallback", "skip"})

\* A report reaches the cloud, and the push of it the coordinator, unless it is lost.
Report(d) ==
    /\ cloud[d] < dev[d]
    /\ cloud' = [cloud EXCEPT ![d] = @ + 1]
    /\ \/ PushDps(d, cloud'[d]) /\ UNCHANGED budget
       \/ Fault /\ UNCHANGED <<data, since>>
    /\ UNCHANGED <<dev, host, stranger, transport, rpc, rhost, rd, channel, shadow, due, command,
                   pets>>

-----------------------------------------------------------------------------
(* The delayed fetch of pet records. *)

\* A cat leaves: _schedule_record_fetch replaces the pending timer, unless the push is lost.
CatLeft ==
    /\ visits' = visits + 1
    /\ \/ Spend({"visits"}) /\ data # NoData /\ timer' = TRUE /\ attempt' = 0
       \/ Spend({"visits", "faults"}) /\ UNCHANGED <<timer, attempt>>
    /\ UNCHANGED <<device, transport, refresh, command, orphans, fetch, record>>

RecordLands ==
    /\ record < visits /\ record' = record + 1
    /\ UNCHANGED <<device, transport, refresh, command, timer, orphans, attempt, fetch, visits,
                   budget>>

\* 45 seconds are over: _fetch_pet_records begins with the data of now.
FetchBegins(f) ==
    /\ ~fetch[f].run
    /\ \/ timer /\ timer' = FALSE /\ UNCHANGED orphans
       \/ orphans > 0 /\ orphans' = orphans - 1 /\ UNCHANGED timer
    /\ attempt' = attempt + 1
    /\ fetch' = [fetch EXCEPT ![f] = [run |-> TRUE, current |-> TRUE, old |-> data.visits]]
    /\ UNCHANGED <<device, transport, refresh, command, visits, record, budget>>

\* The visits the answer is written to: those of the data the fetch began with.
FetchedInto(f) == IF fetch[f].current THEN [data EXCEPT !.visits = record] ELSE data

\* There was no new record, and this was the first attempt.
FetchAgain(f) == FetchedInto(f).visits <= fetch[f].old /\ attempt < 2

\* The answer; without a new record a first attempt is followed by a second.
FetchEnds(f) ==
    /\ fetch[f].run
    /\ data' = FetchedInto(f)
    /\ fetch' = [fetch EXCEPT ![f] = NoFetch]
    /\ timer' = (timer \/ FetchAgain(f))
    /\ orphans' = IF FetchAgain(f) /\ timer THEN orphans + 1 ELSE orphans
    /\ UNCHANGED <<device, transport, rpc, rhost, rd, channel, since, shadow, due, command, attempt,
                   visits, record, budget>>

FetchFails(f) ==
    /\ fetch[f].run /\ Fault
    /\ fetch' = [fetch EXCEPT ![f] = NoFetch]
    /\ UNCHANGED <<device, transport, refresh, command, timer, orphans, attempt, visits, record>>

-----------------------------------------------------------------------------
RefreshStep == RefreshLan \/ RefreshCloud \/ Answered \/ Scan \/ Probe \/ Shadow \/ RefreshPets
                 \/ RefreshLanFails \/ RefreshFails

CommandStep == Command \/ CommandFails

FetchStep(f) == FetchBegins(f) \/ FetchEnds(f) \/ FetchFails(f)

CoordinatorNext ==
    \/ Poll \/ RefreshStep \/ CloudDue \/ \E d \in Dps : LanFrame(d)
    \/ CommandBegin \/ CommandStep \/ BackoffEnds
    \/ DeviceChanges \/ DeviceMoves \/ \E d \in Dps : Report(d)
    \/ CatLeft \/ RecordLands \/ \E f \in Fetches : FetchStep(f)

\* Timers fire, waits end, and the device delivers what it reports.
CoordinatorFairness ==
    /\ WF_coordinatorVars(Poll) /\ WF_coordinatorVars(RefreshStep) /\ WF_coordinatorVars(CloudDue)
    /\ WF_coordinatorVars(CommandStep) /\ WF_coordinatorVars(BackoffEnds)
    /\ \A d \in Dps : WF_coordinatorVars(Report(d))
    /\ WF_coordinatorVars(RecordLands) /\ \A f \in Fetches : WF_coordinatorVars(FetchStep(f))

CoordinatorSpec == CoordinatorInit /\ [][CoordinatorNext]_coordinatorVars /\ CoordinatorFairness

-----------------------------------------------------------------------------
(* Properties. *)

\* The datapoint as the device has it is what the entities show.
Shows(d) == d \in DOMAIN data.dps /\ data.dps[d] = dev[d]

\* The primary remembers a setting that the device no longer has, and that is shown.
Masked ==
    /\ "setting" \in DOMAIN lan \cap DOMAIN data.dps
    /\ lan["setting"] # dev["setting"] /\ data.dps["setting"] = lan["setting"]

\* When the device, its address and the network have settled, what the entities show becomes
\* what the device and the cloud have, and stays so: no push that a refresh overwrote, no
\* stale shadow, no visit fetched into data that had been replaced and no primary that was
\* closed in place of another one leaves a lasting trace (coordinator.py, _async_update_data
\* and _async_refresh_cloud).  One thing does: a setting that was seen over the LAN and
\* changed behind its back is shown as the LAN transport remembers it, since its reads return
\* all it ever saw (local.py:477) and come before the shadow (coordinator.py:101-102).
Converges ==
    <>[](/\ Shows("live") /\ data.visits = record
         /\ Shows("setting") \/ Masked)

\* "if LAN drops, the transport automatically falls back to cloud and retries LAN
\* periodically": the polls use the LAN again in the end, wherever the device went, unless
\* the entry was set up without a local address, or another device of this make has taken
\* the old one and comes before it in the scan, which ends at the address of the primary.
Hidden == stranger = primary /\ stranger < host

LanRegained == <>[](data.via = "lan" \/ primary = None \/ Hidden)

\* A poll that the device itself answered shows an older state of it only when a push was
\* merged while the poll was under way: its data is built before the push and replaces it
\* (coordinator.py, _async_update_data and push_dps).  Whatever the LAN transport remembers,
\* the shadow has and other operations of the transport did meanwhile does not do that; only
\* the cloud, and a frame that completes the read in place of the answer (local.py:142-161),
\* may show older states besides.
OnlyOverlapsGoBack ==
    [][(/\ rpc # "idle" /\ rpc' = "idle" /\ channel = "lan"
        /\ "live" \in DOMAIN data.dps /\ data'.dps["live"] < data.dps["live"])
         => since]_coordinatorVars
=============================================================================
