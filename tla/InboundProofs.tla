--------------------------- MODULE InboundProofs ---------------------------
(***************************************************************************)
(* Proofs about Inbound: what the duplicate filter lets through and what   *)
(* it swallows, and how far a log that was cut off reaches, for any set of *)
(* messages, any number of copies and any window.                          *)
(***************************************************************************)
EXTENDS Inbound, TLAPS

-----------------------------------------------------------------------------
(* The duplicate filter. *)

\* The numbers of the messages that the store has are those of messages that have arrived.
Traced ==
    \A k \in DOMAIN store : \E n \in Messages : Dedups(n) /\ k = n.s \o n.o /\ left[n] < Copies

\* A message of which a copy has arrived, and none damaged, was delivered.
Heard(m) ==
    (left[m] < Copies /\ ~damaged[m] /\ Unmistakable(m) /\ Decodes(m, TRUE)) => accepted[m] # None

\* The store remembers a delivery as long as the window is open and no copy came since.
Remembered(m) ==
    (/\ Dedups(m) /\ m.o # << 0 >> /\ ~kind.lowPower /\ Unmistakable(m)
     /\ accepted[m] # None /\ now - accepted[m] < Window /\ ~swallowed[m])
      => Key(m) \in DOMAIN store /\ store[Key(m)] = accepted[m]

FilterInv ==
    /\ now \in Nat /\ left \in [Messages -> 0..Copies]
    /\ accepted \in [Messages -> Nat \cup {None}]
    /\ swallowed \in [Messages -> BOOLEAN] /\ damaged \in [Messages -> BOOLEAN]
    /\ Traced
    /\ \A m \in Messages : Heard(m) /\ Remembered(m)

\* What a lookup leaves in the store: every entry is an old one or the message's own, and an
\* entry of another key stays as long as its window is open.
LEMMA LookedUpStore ==
    ASSUME NEW m \in Messages, NEW st, st = LookedUp(m)
    PROVE  /\ DOMAIN st \subseteq DOMAIN store \cup {Key(m)}
           /\ \A k \in DOMAIN store : Fresh(k) /\ k # Key(m) => k \in DOMAIN st /\ st[k] = store[k]
           /\ m.o # << 0 >> /\ ~Hit(m) => Key(m) \in DOMAIN st /\ st[Key(m)] = now
<1>1. PICK sw, ky : sw = Swept /\ ky = Key(m)
  OBVIOUS
<1>2. /\ DOMAIN sw \subseteq DOMAIN store
      /\ \A k \in DOMAIN store : Fresh(k) => k \in DOMAIN sw /\ sw[k] = store[k]
  BY <1>1 DEF Swept, Fresh
<1>3. CASE m.o = << 0 >>
  BY <1>3 DEF LookedUp
<1>4. CASE m.o # << 0 >> /\ Fresh(Key(m))
  BY <1>4 DEF LookedUp, Hit
<1>5. CASE m.o # << 0 >> /\ ~Fresh(Key(m))
  <2>1. st = [k \in {ky} \cup DOMAIN sw |-> IF k = ky THEN now ELSE sw[k]]
    BY <1>1, <1>5 DEF LookedUp
  <2> QED
    BY <1>1, <1>2, <2>1
<1> QED
  BY <1>3, <1>4, <1>5

\* A copy arrives.
LEMMA ArrivesFilter ==
    ASSUME FilterInv, NEW m \in Messages, NEW good \in BOOLEAN, Arrives(m, good)
    PROVE  FilterInv'
<1> DEFINE drop == Dedups(m) /\ IsDataUpdated(m)
           deliver == ~drop /\ Decodes(m, good)
<1>1. /\ left[m] > 0 /\ left' = [left EXCEPT ![m] = left[m] - 1]
      /\ store' = IF Dedups(m) THEN LookedUp(m) ELSE store
      /\ accepted' = [accepted EXCEPT ![m] = IF deliver THEN now ELSE accepted[m]]
      /\ swallowed' = [swallowed EXCEPT ![m] = ~deliver]
      /\ damaged' = [damaged EXCEPT ![m] = damaged[m] \/ ~good]
      /\ UNCHANGED <<kind, now>>
  BY DEF Arrives
<1>2. deliver \in BOOLEAN /\ (damaged[m] \/ ~good) \in BOOLEAN
  OBVIOUS
<1> HIDE DEF drop, deliver
<1>3. /\ now' \in Nat /\ accepted' \in [Messages -> Nat \cup {None}]
      /\ swallowed' \in [Messages -> BOOLEAN] /\ damaged' \in [Messages -> BOOLEAN]
  BY <1>1, <1>2 DEF FilterInv
<1>4. /\ left' \in [Messages -> 0..Copies] /\ left'[m] < Copies
      /\ \A n \in Messages : left'[n] <= left[n] /\ (n # m => left'[n] = left[n])
  BY <1>1, InboundAssumption DEF FilterInv
<1>5. /\ DOMAIN store' \subseteq DOMAIN store \cup {Key(m)}
      /\ ~Dedups(m) => store' = store
      /\ \A k \in DOMAIN store : Fresh(k) /\ k # Key(m) => k \in DOMAIN store' /\ store'[k] = store[k]
      /\ Dedups(m) /\ m.o # << 0 >> /\ ~Hit(m) => Key(m) \in DOMAIN store' /\ store'[Key(m)] = now
  BY <1>1, LookedUpStore
<1>6. Traced'
  <2> SUFFICES ASSUME NEW k \in DOMAIN store'
               PROVE  \E n \in Messages : Dedups(n) /\ k = n.s \o n.o /\ left'[n] < Copies
    BY <1>1 DEF Traced, Dedups, Keyed
  <2>1. CASE k \in DOMAIN store
    <3>1. PICK n \in Messages : Dedups(n) /\ k = n.s \o n.o /\ left[n] < Copies
      BY <2>1 DEF FilterInv, Traced
    <3>2. left'[n] < Copies
      BY <1>4, <3>1, InboundAssumption DEF FilterInv
    <3> QED
      BY <3>1, <3>2
  <2>2. CASE k \notin DOMAIN store
    <3>1. k = Key(m) /\ Dedups(m)
      BY <1>5, <2>2
    <3> QED
      BY <1>4, <3>1 DEF Key
  <2> QED
    BY <2>1, <2>2
<1>7. ASSUME NEW n \in Messages PROVE Heard(n)'
  <2>1. CASE n # m
    BY <1>1, <1>4, <2>1 DEF FilterInv, Heard, Unmistakable, Dedups, Keyed, Decodes
  <2>2. CASE n = m
    <3> SUFFICES ASSUME ~damaged'[m], Unmistakable(m), Decodes(m, TRUE)
                 PROVE  accepted'[m] # None
      BY <1>1, <2>2 DEF Heard, Unmistakable, Dedups, Keyed, Decodes
    <3>1. ~damaged[m] /\ good
      BY <1>1 DEF FilterInv
    <3>2. CASE left[m] < Copies
      <4>1. accepted[m] # None
        BY <3>1, <3>2 DEF FilterInv, Heard
      <4> QED
        BY <1>1, <4>1 DEF FilterInv, None
    <3>3. CASE left[m] = Copies
      <4>1. Key(m) \notin DOMAIN store
        <5> SUFFICES ASSUME Key(m) \in DOMAIN store PROVE FALSE
          OBVIOUS
        <5>1. PICK x \in Messages : Dedups(x) /\ Key(m) = x.s \o x.o /\ left[x] < Copies
          BY DEF FilterInv, Traced
        <5>2. x # m
          BY <3>3, <5>1, InboundAssumption
        <5> QED
          BY <5>1, <5>2 DEF Unmistakable, Key
      <4>2. deliver
        BY <3>1, <4>1 DEF deliver, drop, IsDataUpdated, Hit, Fresh
      <4> QED
        BY <1>1, <4>2 DEF FilterInv, None
    <3> QED
      BY <3>2, <3>3, InboundAssumption DEF FilterInv
  <2> QED
    BY <2>1, <2>2
<1>8. ASSUME NEW n \in Messages PROVE Remembered(n)'
  <2> SUFFICES ASSUME Dedups(n), n.o # << 0 >>, ~kind.lowPower, Unmistakable(n),
                      accepted'[n] # None, now - accepted'[n] < Window, ~swallowed'[n]
               PROVE  Key(n) \in DOMAIN store' /\ store'[Key(n)] = accepted'[n]
    BY <1>1 DEF Remembered, Unmistakable, Dedups, Keyed, Key
  <2>1. CASE n # m
    <3>1. /\ accepted'[n] = accepted[n] /\ swallowed'[n] = swallowed[n]
      BY <1>1, <2>1 DEF FilterInv
    <3>2. Key(n) \in DOMAIN store /\ store[Key(n)] = accepted[n]
      BY <3>1 DEF FilterInv, Remembered
    <3>3. Fresh(Key(n))
      BY <3>1, <3>2 DEF Fresh
    <3>4. CASE Dedups(m)
      <4>1. Key(n) # Key(m)
        BY <2>1, <3>4 DEF Unmistakable, Key
      <4> QED
        BY <1>5, <3>1, <3>2, <3>3, <4>1
    <3>5. CASE ~Dedups(m)
      BY <1>5, <3>1, <3>2, <3>5
    <3> QED
      BY <3>4, <3>5
  <2>2. CASE n = m
    <3>1. deliver
      BY <1>1, <2>2 DEF FilterInv
    <3>2. ~Hit(m) /\ accepted'[m] = now
      BY <1>1, <2>2, <3>1 DEF FilterInv, deliver, drop, IsDataUpdated
    <3> QED
      BY <1>5, <2>2, <3>2
  <2> QED
    BY <2>1, <2>2
<1> QED
  BY <1>3, <1>4, <1>6, <1>7, <1>8 DEF FilterInv

\* Time passes: a window only closes.
LEMMA TickFilter == ASSUME FilterInv, Tick PROVE FilterInv'
<1>1. /\ now' = now + 1
      /\ UNCHANGED <<kind, left, store, accepted, swallowed, damaged>>
  BY DEF Tick, mqttVars
<1>2. Traced' /\ \A m \in Messages : Heard(m)'
  BY <1>1 DEF FilterInv, Traced, Heard, Unmistakable, Dedups, Keyed, Decodes
<1>3. ASSUME NEW m \in Messages PROVE Remembered(m)'
  <2>1. Remembered(m) /\ accepted[m] \in Nat \cup {None} /\ now \in Nat
    BY DEF FilterInv
  <2>2. now' - accepted[m] < Window => now - accepted[m] < Window
    BY <1>1, <2>1, InboundAssumption DEF None
  <2> QED
    BY <1>1, <2>1, <2>2 DEF Remembered, Unmistakable, Dedups, Keyed, Key
<1> QED
  BY <1>1, <1>2, <1>3 DEF FilterInv

\* The device is listed again, or something else happens.
LEMMA OtherFilter ==
    ASSUME FilterInv, UNCHANGED <<left, store, accepted, swallowed, damaged, now>>,
           kind'.lowPower = kind.lowPower, kind'.key = kind.key
    PROVE  FilterInv'
<1>1. Traced' /\ \A m \in Messages : Heard(m)'
  BY DEF FilterInv, Traced, Heard, Unmistakable, Dedups, Keyed, Decodes
<1>2. \A m \in Messages : Remembered(m)'
  BY DEF FilterInv, Remembered, Unmistakable, Dedups, Keyed, Key
<1> QED
  BY <1>1, <1>2 DEF FilterInv

\* Only AddDev changes what is known of the device, and only that it is listed.
LEMMA AddDevKind ==
    ASSUME AddDev, kind \in Kind
    PROVE  /\ kind' \in Kind
           /\ kind'.lowPower = kind.lowPower /\ kind'.key = kind.key /\ kind'.schema = kind.schema
<1>1. PICK null \in BOOLEAN : kind' = [kind EXCEPT !.known = TRUE, !.null = null]
  BY DEF AddDev
<1> QED
  BY <1>1 DEF Kind

FilterSafe == kind \in Kind /\ FilterInv

\* Every step of the messages keeps the filter's invariant.
LEMMA FilterInvariant == Spec => []FilterSafe
<1>1. Init => FilterSafe
  <2> SUFFICES ASSUME Init PROVE FilterSafe
    OBVIOUS
  <2>1. kind \in Kind
    BY InboundShapes DEF Init
  <2>2. /\ now \in Nat /\ left \in [Messages -> 0..Copies]
        /\ accepted \in [Messages -> Nat \cup {None}]
        /\ swallowed \in [Messages -> BOOLEAN] /\ damaged \in [Messages -> BOOLEAN]
    BY InboundAssumption DEF Init
  <2>3. Traced
    BY DEF Init, Traced
  <2>4. ASSUME NEW m \in Messages PROVE Heard(m) /\ Remembered(m)
    <3>1. ~(left[m] < Copies) /\ accepted[m] = None
      BY InboundAssumption DEF Init
    <3> QED
      BY <3>1 DEF Heard, Remembered
  <2> QED
    BY <2>1, <2>2, <2>3, <2>4 DEF FilterSafe, FilterInv
<1>2. FilterSafe /\ [Next]_vars => FilterSafe'
  <2> SUFFICES ASSUME FilterSafe, [Next]_vars PROVE FilterSafe'
    OBVIOUS
  <2>1. FilterInv /\ kind \in Kind
    BY DEF FilterSafe
  <2>2. ASSUME NEW m \in Messages, NEW good \in BOOLEAN, Arrives(m, good) PROVE FilterSafe'
    BY <2>1, <2>2, ArrivesFilter DEF FilterSafe, Arrives
  <2>3. CASE AddDev
    BY <2>1, <2>3, AddDevKind, OtherFilter DEF FilterSafe, AddDev
  <2>4. CASE Tick
    BY <2>1, <2>4, TickFilter DEF FilterSafe, Tick
  <2>5. CASE UNCHANGED <<kind, mqttVars, now>>
    BY <2>1, <2>5, OtherFilter DEF FilterSafe, mqttVars
  <2>6. CASE \/ BeginRead \/ ReadTimesOut \/ \E f \in Frames : LanFrame(f)
             \/ \E g \in Gateways : ReaderStep(g) \/ LogRequested(g)
             \/ UNCHANGED vars
    BY <2>5, <2>6 DEF BeginRead, ReadTimesOut, LanFrame, ReaderStep, FragmentArrives,
       FragmentAppended, LogTaken, LogDelivered, LogRequested, vars
  <2> QED
    BY <2>2, <2>3, <2>4, <2>6 DEF Next
<1> QED
  BY <1>1, <1>2, PTL DEF Spec

\* NothingLost for any set of messages, any window and threshold: the filter of dedup.py
\* swallows no message all of whose copies could be read and whose numbers are its own.
THEOREM NoMessageIsLost == Spec => []NothingLost
<1>1. FilterSafe => NothingLost
  <2> SUFFICES ASSUME FilterSafe, NEW m \in Messages, left[m] = 0, ~damaged[m],
                      Unmistakable(m), Decodes(m, TRUE)
               PROVE  accepted[m] # None
    BY DEF NothingLost
  <2>1. Heard(m)
    BY DEF FilterSafe, FilterInv
  <2>2. left[m] < Copies
    BY InboundAssumption
  <2> QED
    BY <2>1, <2>2 DEF Heard
<1> QED
  BY <1>1, FilterInvariant, PTL

\* NoEcho for any set of messages, any window and threshold: what _lookup (dedup.py) accepted
\* it swallows inside the window, whatever came and was swept in between.
THEOREM EchoesAreSwallowed == Spec => NoEcho
<1>1. ASSUME FilterInv, Next, NEW m \in Messages, left'[m] < left[m], Dedups(m), m.o # << 0 >>,
             ~kind.lowPower, Unmistakable(m), accepted[m] # None, now - accepted[m] < Window,
             ~swallowed[m]
      PROVE  swallowed'[m]
  <2>1. PICK good \in BOOLEAN : Arrives(m, good)
    <3>1. left[m] \in 0..Copies /\ left' # left
      BY <1>1, InboundAssumption DEF FilterInv
    <3>2. PICK x \in Messages, good \in BOOLEAN : Arrives(x, good)
      BY <1>1, <3>1 DEF Next, AddDev, Tick, BeginRead, ReadTimesOut, LanFrame, ReaderStep,
         FragmentArrives, FragmentAppended, LogTaken, LogDelivered, LogRequested, mqttVars
    <3>3. x = m
      BY <1>1, <3>1, <3>2, InboundAssumption DEF Arrives, FilterInv
    <3> QED
      BY <3>2, <3>3
  <2>2. Key(m) \in DOMAIN store /\ store[Key(m)] = accepted[m]
    BY <1>1 DEF FilterInv, Remembered
  <2>3. Dedups(m) /\ IsDataUpdated(m)
    BY <1>1, <2>2 DEF IsDataUpdated, Hit, Fresh
  <2> QED
    BY <1>1, <2>1, <2>3 DEF Arrives, FilterInv
<1>2. FilterSafe /\ [Next]_vars =>
        [\A m \in Messages :
           (/\ left'[m] < left[m] /\ Dedups(m) /\ m.o # << 0 >> /\ ~kind.lowPower /\ Unmistakable(m)
            /\ accepted[m] # None /\ now - accepted[m] < Window /\ ~swallowed[m])
             => swallowed'[m]]_vars
  BY <1>1 DEF FilterSafe
<1> QED
  BY <1>2, FilterInvariant, PTL DEF Spec, NoEcho

-----------------------------------------------------------------------------
(* Logs. *)

\* Where a reader may be, and what the variables of the logs hold.
Positions == {"idle", "append", "take", "hand"}

LogTypes == /\ sent \in [Gateways -> 0..LogLength] /\ crossed \in BOOLEAN
            /\ reader \in [Gateways -> Positions] /\ seen \in [Gateways -> Seq(Gateways \X Nat)]

\* No other reader is in the middle of a fragment.
Alone(g) == \A h \in Gateways \ {g} : reader[h] = "idle"

\* The reader of g has the buffer for itself and what has arrived is in it, or will be when
\* the reader has appended the fragment it holds.
Held(g) ==
    /\ Alone(g)
    /\ reader[g] \in {"idle", "take", "hand"} => buffer = arrived
    /\ reader[g] = "append" => /\ seen[g] = buffer
                               /\ arrived = Append(buffer, <<g, sent[g]>>)
    /\ reader[g] = "hand" => seen[g] = arrived

\* As long as no readers have met, the buffer is what has arrived since it was emptied.
LogInv ==
    /\ LogTypes
    /\ ~crossed => /\ \A g \in Gateways : reader[g] # "idle" => Held(g)
                   /\ (\A g \in Gateways : reader[g] = "idle") => buffer = arrived

\* The steps of a reader.
LEMMA ReaderTypes ==
    ASSUME LogTypes, buffer \in Seq(Gateways \X Nat), NEW g \in Gateways, ReaderStep(g)
    PROVE  LogTypes' /\ buffer' \in Seq(Gateways \X Nat)
<1>1. CASE FragmentArrives(g)
  <2>1. sent' \in [Gateways -> 0..LogLength] /\ reader' \in [Gateways -> Positions]
    BY <1>1, InboundAssumption DEF FragmentArrives, At, LogTypes, Positions
  <2>2. seen' \in [Gateways -> Seq(Gateways \X Nat)] /\ buffer' = buffer
    BY <1>1 DEF FragmentArrives, LogTypes
  <2>3. crossed' \in BOOLEAN
    BY <1>1 DEF FragmentArrives
  <2> QED
    BY <2>1, <2>2, <2>3 DEF LogTypes
<1>2. CASE FragmentAppended(g)
  <2>1. reader' \in [Gateways -> Positions] /\ UNCHANGED <<sent, seen, crossed>>
    BY <1>2 DEF FragmentAppended, At, LogTypes, Positions
  <2>2. <<g, sent[g]>> \in Gateways \X Nat /\ seen[g] \in Seq(Gateways \X Nat)
    BY InboundAssumption DEF LogTypes
  <2>3. buffer' \in Seq(Gateways \X Nat)
    BY <1>2, <2>2 DEF FragmentAppended
  <2> QED
    BY <2>1, <2>3 DEF LogTypes
<1>3. CASE LogTaken(g)
  BY <1>3 DEF LogTaken, At, LogTypes, Positions
<1>4. CASE LogDelivered(g)
  <2>1. reader' \in [Gateways -> Positions] /\ UNCHANGED <<sent, seen>> /\ buffer' = <<>>
    BY <1>4 DEF LogDelivered, Delivered, At, LogTypes, Positions
  <2>2. crossed' \in BOOLEAN
    BY <1>4 DEF LogDelivered, LogTypes
  <2> QED
    BY <2>1, <2>2 DEF LogTypes
<1> QED
  BY <1>1, <1>2, <1>3, <1>4 DEF ReaderStep

\* A reader that meets nobody, after no readers met, is the only one.
LEMMA OnlyReader ==
    ASSUME LogInv, NEW g \in Gateways, ~crossed, ReaderStep(g), ~crossed'
    PROVE  /\ reader[g] # "idle" => Held(g)
           /\ reader[g] = "idle" => buffer = arrived
           /\ \A h \in Gateways \ {g} : reader'[h] = "idle"
<1>1. Alone(g)
  <2>1. CASE FragmentArrives(g)
    BY <2>1 DEF FragmentArrives, Met, Alone
  <2>2. CASE FragmentAppended(g) \/ LogTaken(g) \/ LogDelivered(g)
    <3>1. reader[g] # "idle"
      BY <2>2 DEF FragmentAppended, LogTaken, LogDelivered, At
    <3> QED
      BY <3>1 DEF LogInv, Held
  <2> QED
    BY <2>1, <2>2 DEF ReaderStep
<1>2. \A h \in Gateways \ {g} : reader'[h] = reader[h]
  BY DEF ReaderStep, FragmentArrives, FragmentAppended, LogTaken, LogDelivered, At, LogInv, LogTypes
<1>3. reader[g] = "idle" => buffer = arrived
  BY <1>1 DEF Alone, LogInv
<1> QED
  BY <1>1, <1>2, <1>3 DEF Alone, LogInv

\* What a reader that is alone leaves behind.
LEMMA ReaderStepHeld ==
    ASSUME LogInv, NEW g \in Gateways, ~crossed, ReaderStep(g), ~crossed'
    PROVE  /\ reader'[g] # "idle" => Held(g)'
           /\ reader'[g] = "idle" => buffer' = arrived'
<1>1. /\ Alone(g)' /\ (reader[g] # "idle" => Held(g)) /\ (reader[g] = "idle" => buffer = arrived)
  BY OnlyReader DEF Alone
<1>2. LogTypes
  BY DEF LogInv
<1>3. CASE FragmentArrives(g)
  <2>1. /\ reader'[g] = "append" /\ seen'[g] = buffer /\ buffer' = buffer
        /\ arrived' = Append(arrived, <<g, sent'[g]>>) /\ buffer = arrived
    BY <1>1, <1>2, <1>3 DEF FragmentArrives, At, LogTypes
  <2> QED
    BY <1>1, <2>1 DEF Held
<1>4. CASE FragmentAppended(g)
  <2>1. /\ reader[g] = "append" /\ reader'[g] \in {"take", "idle"}
        /\ buffer' = Append(seen[g], <<g, sent[g]>>) /\ arrived' = arrived
    BY <1>2, <1>4 DEF FragmentAppended, At, LogTypes
  <2>2. buffer' = arrived'
    BY <1>1, <2>1 DEF Held
  <2> QED
    BY <1>1, <2>1, <2>2 DEF Held
<1>5. CASE LogTaken(g)
  <2>1. /\ reader[g] = "take" /\ reader'[g] = "hand" /\ seen'[g] = buffer
        /\ buffer' = buffer /\ arrived' = arrived
    BY <1>2, <1>5 DEF LogTaken, At, LogTypes
  <2> QED
    BY <1>1, <2>1 DEF Held
<1>6. CASE LogDelivered(g)
  <2>1. reader'[g] = "idle" /\ buffer' = <<>> /\ arrived' = <<>>
    BY <1>2, <1>6 DEF LogDelivered, Delivered, At, LogTypes
  <2> QED
    BY <2>1
<1> QED
  BY <1>3, <1>4, <1>5, <1>6 DEF ReaderStep

\* Whoever empties the buffer with no other reader about leaves nothing of it behind.
LEMMA EmptiedAlone ==
    ASSUME LogTypes, NEW g \in Gateways, ReaderStep(g), crossed, ~crossed'
    PROVE  (\A h \in Gateways : reader'[h] = "idle") /\ buffer' = arrived'
<1>1. LogDelivered(g)
  BY DEF ReaderStep, FragmentArrives, FragmentAppended, LogTaken
<1>2. ~Met(g) /\ buffer' = <<>> /\ arrived' = <<>> /\ reader' = [reader EXCEPT ![g] = "idle"]
  BY <1>1 DEF LogDelivered, Delivered, At
<1> QED
  BY <1>2 DEF Met, LogTypes

\* Every step keeps the invariant of the logs.
LEMMA LogInvStep ==
    ASSUME LogInv, buffer \in Seq(Gateways \X Nat), [Next]_vars
    PROVE  LogInv' /\ buffer' \in Seq(Gateways \X Nat)
<1>1. CASE UNCHANGED logVars
  BY <1>1 DEF logVars, LogInv, LogTypes, Held, Alone
<1>2. ASSUME NEW g \in Gateways, ReaderStep(g) PROVE LogInv' /\ buffer' \in Seq(Gateways \X Nat)
  <2>1. LogTypes' /\ buffer' \in Seq(Gateways \X Nat)
    BY <1>2, ReaderTypes DEF LogInv
  <2>2. CASE crossed'
    BY <2>1, <2>2 DEF LogInv
  <2>3. CASE ~crossed' /\ crossed
    <3>1. (\A h \in Gateways : reader'[h] = "idle") /\ buffer' = arrived'
      BY <1>2, <2>3, EmptiedAlone DEF LogInv
    <3> QED
      BY <2>1, <3>1 DEF LogInv
  <2>4. CASE ~crossed' /\ ~crossed
    <3>1. \A h \in Gateways \ {g} : reader'[h] = "idle"
      BY <1>2, <2>4, OnlyReader
    <3>2. /\ reader'[g] # "idle" => Held(g)'
          /\ reader'[g] = "idle" => buffer' = arrived'
      BY <1>2, <2>4, ReaderStepHeld
    <3> QED
      BY <2>1, <3>1, <3>2 DEF LogInv
  <2> QED
    BY <2>2, <2>3, <2>4
<1>3. ASSUME NEW g \in Gateways, LogRequested(g) PROVE LogInv' /\ buffer' \in Seq(Gateways \X Nat)
  <2>1. /\ UNCHANGED <<buffer, reader, seen, arrived, crossed>> /\ reader[g] = "idle"
        /\ sent' = [sent EXCEPT ![g] = 0]
    BY <1>3 DEF LogRequested
  <2>2. LogTypes' /\ \A h \in Gateways \ {g} : sent'[h] = sent[h]
    BY <2>1, InboundAssumption DEF LogInv, LogTypes
  <2>3. ASSUME NEW h \in Gateways, ~crossed', reader'[h] # "idle" PROVE Held(h)'
    <3>1. h # g /\ Held(h)
      BY <2>1, <2>3 DEF LogInv
    <3> QED
      BY <2>1, <2>2, <3>1 DEF Held, Alone
  <2> QED
    BY <2>1, <2>2, <2>3 DEF LogInv
<1>4. CASE \/ (\E m \in Messages : \E good \in BOOLEAN : Arrives(m, good))
           \/ AddDev \/ Tick \/ BeginRead \/ ReadTimesOut \/ (\E f \in Frames : LanFrame(f))
           \/ UNCHANGED vars
  BY <1>1, <1>4 DEF Arrives, AddDev, Tick, BeginRead, ReadTimesOut, LanFrame, vars
<1> QED
  BY <1>2, <1>3, <1>4 DEF Next

\* Every step of the readers keeps their invariant.
LEMMA LogInvariant == Spec => []LogInv
<1>1. Init => LogInv /\ buffer \in Seq(Gateways \X Nat)
  <2> SUFFICES ASSUME Init PROVE LogInv /\ buffer \in Seq(Gateways \X Nat)
    OBVIOUS
  <2>1. \A g \in Gateways : reader[g] = "idle"
    BY DEF Init
  <2>2. <<>> \in Seq(Gateways \X Nat) /\ 0 \in 0..LogLength
    BY InboundAssumption
  <2>3. LogTypes /\ buffer = <<>> /\ arrived = <<>>
    BY <2>2 DEF Init, LogTypes, Positions
  <2> QED
    BY <2>1, <2>2, <2>3 DEF LogInv
<1>2. LogInv /\ buffer \in Seq(Gateways \X Nat) /\ [Next]_vars
        => (LogInv /\ buffer \in Seq(Gateways \X Nat))'
  BY LogInvStep
<1> QED
  BY <1>1, <1>2, PTL DEF Spec

\* LogsHeal for any number of gateways and fragments, however their readers interleave between
\* reading the buffer, appending to it, taking the log and emptying it: response_by_binary and
\* _reassemble (lan_session.py) hand on whole a log whose fragments are all that came since
\* the buffer was emptied, unless readers met and nobody has emptied it alone since.
THEOREM LogsAreHealed == Spec => LogsHeal
<1>1. ASSUME LogInv, Next, NEW g \in Gateways, reader[g] = "hand", reader'[g] = "idle",
             arrived = Whole(g), ~crossed
      PROVE  logs' = Whole(g)
  <2>1. PICK x \in Gateways : ReaderStep(x)
    BY <1>1 DEF Next, Arrives, AddDev, Tick, BeginRead, ReadTimesOut, LanFrame, LogRequested, logVars
  <2>2. x = g
    BY <1>1, <2>1 DEF ReaderStep, FragmentArrives, FragmentAppended, LogTaken, LogDelivered, At,
       LogInv, LogTypes
  <2>3. LogDelivered(g)
    BY <1>1, <2>1, <2>2 DEF ReaderStep, FragmentArrives, FragmentAppended, LogTaken, At
  <2>4. seen[g] = arrived
    BY <1>1 DEF LogInv, Held
  <2> QED
    BY <1>1, <2>3, <2>4 DEF LogDelivered, Delivered
<1>2. LogInv /\ [Next]_vars =>
        [\A g \in Gateways :
           (reader[g] = "hand" /\ reader'[g] = "idle" /\ arrived = Whole(g) /\ ~crossed)
             => logs' = Whole(g)]_vars
  BY <1>1
<1> QED
  BY <1>2, LogInvariant, PTL DEF Spec, LogsHeal

-----------------------------------------------------------------------------
(* Type correctness. *)

\* The types the proofs above do without, one conjunct group per path.
StoreTypes == (\A k \in DOMAIN store : store[k] \in 0..now) /\ accepted \in [Messages -> None..now]
CacheTypes == cache.value[1] \in {Form, "none"} /\ event[1] \in {Form, "none"}
ReadTypes  == read \in {"idle", "waiting", "done", "failed"} /\ (read = "done" => lastDps # None)

PathTypes == budget \in [Events -> Nat] /\ StoreTypes /\ CacheTypes /\ ReadTypes

\* What happens is paid for from its budget.
LEMMA SpendTypes ==
    ASSUME budget \in [Events -> Nat], NEW e \in Events, Spend(e)
    PROVE  budget' \in [Events -> Nat]
BY DEF Spend

\* A lookup enters no time but the present one.
LEMMA LookedUpTimes ==
    ASSUME NEW m \in Messages, now \in Nat, \A k \in DOMAIN store : store[k] \in 0..now
    PROVE  \A k \in DOMAIN LookedUp(m) : LookedUp(m)[k] \in 0..now
<1>1. PICK sw, ky : sw = Swept /\ ky = Key(m)
  OBVIOUS
<1>2. \A k \in DOMAIN sw : sw[k] \in 0..now
  BY <1>1 DEF Swept
<1>3. CASE m.o = << 0 >>
  BY <1>3 DEF LookedUp
<1>4. CASE m.o # << 0 >> /\ Fresh(Key(m))
  BY <1>4 DEF LookedUp
<1>5. CASE m.o # << 0 >> /\ ~Fresh(Key(m))
  <2>1. LookedUp(m) = [k \in {ky} \cup DOMAIN sw |-> IF k = ky THEN now ELSE sw[k]]
    BY <1>1, <1>5 DEF LookedUp
  <2> QED
    BY <1>2, <2>1
<1> QED
  BY <1>3, <1>4, <1>5

\* What is ingested is in the form it should be kept in.
LEMMA IngestTypes ==
    ASSUME CacheTypes, NEW m \in Messages, Ingest(m), UNCHANGED kind
    PROVE  CacheTypes'
<1>1. CASE Ingests(m)
  <2>1. PICK v : v = DecodeRaw(m)
    OBVIOUS
  <2>2. v[1] = Form
    <3>1. CASE kind.schema = "raw"
      <4>1. m.valid
        BY <1>1, <3>1 DEF Ingests, CheckReceive
      <4> QED
        BY <2>1, <3>1, <4>1 DEF DecodeRaw, Hex, Form
    <3>2. CASE kind.schema # "raw"
      BY <2>1, <3>2 DEF DecodeRaw, Raw, Form
    <3> QED
      BY <3>1, <3>2
  <2>3. event' = v /\ cache'.value \in {cache.value, v}
    BY <1>1, <2>1 DEF Ingest, Merged
  <2> QED
    BY <2>2, <2>3 DEF CacheTypes, Form
<1>2. CASE ~Ingests(m)
  BY <1>2 DEF Ingest, CacheTypes, Form
<1> QED
  BY <1>1, <1>2

\* A copy arrives.
LEMMA ArrivesTypes ==
    ASSUME FilterInv, PathTypes, NEW m \in Messages, NEW good \in BOOLEAN, Arrives(m, good)
    PROVE  PathTypes'
<1>1. /\ store' = store \/ store' = LookedUp(m)
      /\ Spend("mqtt") /\ UNCHANGED <<kind, now, lastDps, read>>
      /\ Ingest(m) \/ UNCHANGED <<cache, event>>
  BY DEF Arrives, lanVars
<1>2. \A k \in DOMAIN store' : store'[k] \in 0..now'
  BY <1>1, LookedUpTimes DEF FilterInv, PathTypes, StoreTypes
<1>3. accepted' \in [Messages -> None..now']
  <2>1. PICK v \in {accepted[m], now} : accepted' = [accepted EXCEPT ![m] = v]
    BY DEF Arrives
  <2>2. v \in None..now
    BY <2>1 DEF FilterInv, PathTypes, StoreTypes, None
  <2> QED
    BY <1>1, <2>1, <2>2 DEF PathTypes, StoreTypes
<1>4. budget' \in [Events -> Nat]
  BY <1>1, SpendTypes DEF PathTypes, Events
<1>5. CacheTypes'
  BY <1>1, IngestTypes DEF PathTypes, CacheTypes, Form
<1> QED
  BY <1>1, <1>2, <1>3, <1>4, <1>5 DEF PathTypes, StoreTypes, ReadTypes

\* A frame that ends a read has left its datapoint.
LEMMA LanFrameTypes ==
    ASSUME PathTypes, NEW f \in Frames, LanFrame(f)
    PROVE  PathTypes'
<1>1. /\ Spend("lan") /\ UNCHANGED <<kind, cache, event, store, accepted, now>>
  BY DEF LanFrame, mqttVars
<1>2. f.value # None
  BY InboundShapes DEF Frame, None
<1>3. lastDps' = IF Outcome(f) \in {"dps", "group"} THEN f.value ELSE lastDps
  BY DEF LanFrame
<1>4. \/ Outcome(f) = "dps" /\ read' = IF read = "waiting" THEN "done" ELSE read
      \/ read' \in {read, "failed"}
  BY DEF LanFrame, CompleteRead
<1>5. ReadTypes'
  BY <1>2, <1>3, <1>4 DEF PathTypes, ReadTypes
<1>6. budget' \in [Events -> Nat]
  BY <1>1, SpendTypes DEF PathTypes, Events
<1> QED
  BY <1>1, <1>5, <1>6 DEF PathTypes, StoreTypes, CacheTypes, Form

\* A log goes on, or another one is requested.
LEMMA LogTypesStep ==
    ASSUME PathTypes, NEW g \in Gateways, ReaderStep(g) \/ LogRequested(g)
    PROVE  PathTypes'
<1>1. UNCHANGED <<kind, cache, event, store, accepted, now, lastDps, read>>
  BY DEF ReaderStep, FragmentArrives, FragmentAppended, LogTaken, LogDelivered, LogRequested,
     mqttVars, lanVars
<1>2. Spend("log") \/ UNCHANGED budget
  BY DEF ReaderStep, FragmentArrives, FragmentAppended, LogTaken, LogDelivered, LogRequested
<1>3. budget' \in [Events -> Nat]
  BY <1>2, SpendTypes DEF PathTypes, Events
<1> QED
  BY <1>1, <1>3 DEF PathTypes, StoreTypes, CacheTypes, ReadTypes, Form

\* Types of the inbound paths: the cache and the events hold a value that the schema calls RAW
\* as hex only, since text that decode_raw could not convert fails check_receive_command, and
\* any other value as it came (device_cache.py, ingest; validation.py); a read that succeeded
\* has left datapoints to return (local.py, _complete_read); no key or delivery is of the
\* future (dedup.py).
THEOREM InboundTypes == Spec => []TypeOK
<1>1. Init => PathTypes
  <2> SUFFICES ASSUME Init PROVE PathTypes
    OBVIOUS
  <2>1. budget \in [Events -> Nat]
    BY InboundAssumption DEF Init
  <2>2. StoreTypes
    BY DEF Init, StoreTypes, None
  <2>3. CacheTypes
    BY DEF Init, CacheTypes, NoValue
  <2> QED
    BY <2>1, <2>2, <2>3 DEF Init, PathTypes, ReadTypes
<1>2. FilterSafe /\ PathTypes /\ [Next]_vars => PathTypes'
  <2> SUFFICES ASSUME FilterInv, kind \in Kind, PathTypes, [Next]_vars PROVE PathTypes'
    BY DEF FilterSafe
  <2>1. ASSUME NEW m \in Messages, NEW good \in BOOLEAN, Arrives(m, good) PROVE PathTypes'
    BY <2>1, ArrivesTypes
  <2>2. CASE AddDev
    <3>1. cache'.value = NoValue
      BY <2>2 DEF AddDev
    <3>2. CacheTypes'
      BY <2>2, <3>1, AddDevKind DEF AddDev, PathTypes, CacheTypes, NoValue, Form
    <3> QED
      BY <2>2, <3>2, SpendTypes
      DEF AddDev, lanVars, Events, PathTypes, StoreTypes, ReadTypes
  <2>3. CASE Tick
    <3>1. StoreTypes'
      BY <2>3 DEF Tick, mqttVars, FilterInv, PathTypes, StoreTypes, None
    <3> QED
      BY <2>3, <3>1, SpendTypes
      DEF Tick, mqttVars, lanVars, Events, PathTypes, CacheTypes, ReadTypes, Form
  <2>4. CASE BeginRead \/ ReadTimesOut
    BY <2>4, SpendTypes DEF BeginRead, ReadTimesOut, mqttVars, Events,
       PathTypes, StoreTypes, CacheTypes, ReadTypes, Form
  <2>5. ASSUME NEW f \in Frames, LanFrame(f) PROVE PathTypes'
    BY <2>5, LanFrameTypes
  <2>6. ASSUME NEW g \in Gateways, ReaderStep(g) \/ LogRequested(g) PROVE PathTypes'
    BY <2>6, LogTypesStep
  <2>7. CASE UNCHANGED vars
    BY <2>7 DEF vars, mqttVars, lanVars, PathTypes, StoreTypes, CacheTypes, ReadTypes, Form
  <2> QED
    BY <2>1, <2>2, <2>3, <2>4, <2>5, <2>6, <2>7 DEF Next
<1>3. FilterSafe /\ PathTypes /\ LogInv => TypeOK
  BY DEF FilterSafe, FilterInv, PathTypes, StoreTypes, CacheTypes, ReadTypes, LogInv, LogTypes,
     Positions, TypeOK
<1> QED
  BY <1>1, <1>2, <1>3, FilterInvariant, LogInvariant, PTL DEF Spec
=============================================================================
