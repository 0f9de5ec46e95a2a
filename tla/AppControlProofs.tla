-------------------------- MODULE AppControlProofs --------------------------
(***************************************************************************)
(* Proofs about AppControl and the codecs it uses (DpCodec): accepted      *)
(* listeners stay attached, a cached datapoint is the device's, and        *)
(* changing one setting changes no other, for any tasks, listeners,        *)
(* payloads, changes and bounds.                                           *)
(***************************************************************************)
EXTENDS MCAppControl, FiniteSetTheorems, SequenceTheorems, TLAPS

-----------------------------------------------------------------------------
(* Listeners. *)

\* A listener that register_listener accepted has a bridge, and the SDK has the bridge, until
\* the last listener leaves or the device is removed (manager.py, register_listener,
\* unregister_listener and dispatch_callback).
THEOREM AcceptedListenersStay == Spec => []ListenersAttached
<1>1. Init => ListenersAttached
  BY DEF Init, ListenersAttached
<1>2. ListenersAttached /\ [Next]_vars => ListenersAttached'
  <2> SUFFICES ASSUME ListenersAttached, [Next]_vars PROVE ListenersAttached'
    OBVIOUS
  <2>1. CASE UNCHANGED <<attached, bridge, listeners>>
    BY <2>1 DEF ListenersAttached
  <2>2. ASSUME NEW l, NEW made, RegisterListener(l, made) PROVE ListenersAttached'
    BY <2>2 DEF RegisterListener, Bridge, Attach, ListenersAttached
  <2>3. ASSUME NEW l, NEW works, UnregisterListener(l, works) PROVE ListenersAttached'
    BY <2>3 DEF UnregisterListener, UnregisterSdk, ListenersAttached
  <2>4. ASSUME NEW works, OnRemoved(works) PROVE ListenersAttached'
    BY <2>4 DEF OnRemoved, UnregisterSdk, ListenersAttached
  <2>5. ASSUME NEW t, NEW made, NEW out,
               \/ \E c \in Changes : Set(t, c, made, out)
               \/ \E dp \in Dps, p \in Payloads : Overwrite(t, dp, p, made, out)
               \/ SetOperationMode(t, made, out)
        PROVE  UNCHANGED <<attached, bridge, listeners>>
    BY <2>5 DEF Set, Overwrite, SetOperationMode
  <2>6. ASSUME \/ \E t \in Tasks : Settle(t)
               \/ \E c \in Changes : ClientUpdate(c)
               \/ Report \/ Merged \/ BeanLoads \/ AskEnds
               \/ \E made \in BOOLEAN : BatchQuery(made)
               \/ \E dp \in Dps, made \in BOOLEAN : Ask(dp, made)
               \/ UNCHANGED vars
        PROVE  UNCHANGED <<attached, bridge, listeners>>
    BY <2>6 DEF Settle, ClientUpdate, Report, Merged, BeanLoads, BatchQuery, Ask, AskEnds, control,
                vars
  <2> QED
    BY <2>1, <2>2, <2>3, <2>4, <2>5, <2>6 DEF Next
<1> QED
  BY <1>1, <1>2, PTL DEF Spec

-----------------------------------------------------------------------------
(* The cache. *)

NoReport(dp) == \A i \in DOMAIN reports : reports[i][1] # dp

\* The last report of a datapoint that is on its way has what the device has.
LastReport(dp) ==
    \A i \in DOMAIN reports :
        reports[i][1] = dp /\ (\A j \in DOMAIN reports : j > i => reports[j][1] # dp)
           => reports[i][2] = device[dp]

\* So has the SDK's bean, when no report is on its way.
BeanCurrent(dp) == bean[dp] # NoValue /\ NoReport(dp) => bean[dp] = Spelled(device[dp])

\* So has the report that is being merged; the bean has it already.
MergeCurrent ==
    merging # <<>> /\ merging.dp \in Dps =>
        /\ bean[merging.dp] # NoValue
        /\ NoReport(merging.dp) => merging.bytes = device[merging.dp]

\* So has what a query is about to write, of the datapoints that no report overtook.
AskCurrent ==
    asking # <<>> =>
        \A d \in Dps \ asking.late :
            asking.state[d] # NoValue /\ NoReport(d) => asking.state[d] = Spelled(device[d])

Shape ==
    /\ \E S : reports \in Seq(S)
    /\ DOMAIN device = Dps /\ DOMAIN bean = Dps /\ DOMAIN states = Dps
    /\ form \in {"raw", "base64"}
    /\ merging # <<>> => DOMAIN merging.seen = Dps
    /\ asking # <<>> => asking \in [state : [Dps -> {asking.state[d] : d \in Dps}],
                                     late : {asking.late}]

CacheInv ==
    /\ Shape /\ CacheCurrent /\ MergeCurrent /\ AskCurrent
    /\ \A dp \in Dps : LastReport(dp) /\ BeanCurrent(dp)

\* The cascade reaches the device a natural number of times.
LEMMA TakenIsNat ==
    ASSUME NEW beh, NEW hasBytes \in BOOLEAN PROVE Cascade(beh, hasBytes).taken \in Nat
<1> DEFINE seq == Attempts(hasBytes)
           I   == {i \in 1..Len(seq) : beh[seq[i]] \in {"ok", "refused", "late"}}
           k   == IF I # {} THEN Min(I) ELSE 0
           n   == IF k = 0 THEN Len(seq) ELSE k
           T   == {i \in 1..n : beh[seq[i]] \in {"raisesTaken", "ok", "late"}}
<1>1. Len(seq) \in 3..4
  BY DEF Attempts
<1>2. I # {} => \E x \in I : \A y \in I : x <= y
  <2> SUFFICES ASSUME I # {} PROVE \E x \in I : \A y \in I : x <= y
    OBVIOUS
  <2>1. I \subseteq {1, 2, 3, 4}
    BY <1>1
  <2> HIDE DEF I
  <2>2. 1 \in I \/ 2 \in I \/ 3 \in I \/ 4 \in I
    BY <2>1
  <2>3. CASE 1 \in I
    BY <2>1, <2>3
  <2>4. CASE 1 \notin I /\ 2 \in I
    BY <2>1, <2>4
  <2>5. CASE 1 \notin I /\ 2 \notin I /\ 3 \in I
    BY <2>1, <2>5
  <2>6. CASE 1 \notin I /\ 2 \notin I /\ 3 \notin I /\ 4 \in I
    BY <2>1, <2>6
  <2> QED
    BY <2>2, <2>3, <2>4, <2>5, <2>6
<1>3. n \in Int
  <2> HIDE DEF I, seq
  <2>1. I # {} => Min(I) \in I
    BY <1>2 DEF Min
  <2>2. I \subseteq Int
    BY <1>1 DEF I
  <2>3. k \in Int
    <3>1. CASE I = {}
      BY <3>1
    <3>2. CASE I # {}
      <4>1. k = Min(I) /\ Min(I) \in I
        BY <2>1, <3>2
      <4> QED
        BY <2>2, <4>1
    <3> QED
      BY <3>1, <3>2
  <2> HIDE DEF k
  <2> QED
    BY <1>1, <2>3
<1>4. Cardinality(T) \in Nat
  <2> HIDE DEF n
  <2>1. IsFiniteSet(1..n)
    BY <1>3, FS_Interval
  <2>2. IsFiniteSet(T)
    BY <2>1, FS_Subset
  <2> QED
    BY <2>2, FS_CardinalityType
<1>5. Cascade(beh, hasBytes).taken = Cardinality(T)
  BY DEF Cascade, SelectInSeq
<1> QED
  BY <1>4, <1>5

\* What the device takes it reports, last of all.
LEMMA Applied ==
    ASSUME \E S : reports \in Seq(S), DOMAIN device = Dps,
           NEW dp \in Dps, NEW bytes, NEW taken \in Nat, Apply(dp, bytes, taken)
    PROVE  /\ \E S : reports' \in Seq(S)
           /\ DOMAIN device' = Dps
           /\ \A d \in Dps : LastReport(d) => LastReport(d)'
           /\ \A d \in Dps : NoReport(d)' => NoReport(d) /\ device'[d] = device[d]
<1> DEFINE r == <<dp, bytes>>
           new == [i \in 1..taken |-> r]
<1>1. PICK S : reports \in Seq(S)
  OBVIOUS
<1>2. reports \in Seq(S \cup {r}) /\ new \in Seq(S \cup {r})
  BY <1>1
<1>3. /\ reports' = reports \o new /\ reports' \in Seq(S \cup {r})
      /\ Len(reports) \in Nat /\ DOMAIN reports = 1..Len(reports)
      /\ DOMAIN reports' = 1..(Len(reports) + taken)
      /\ \A i \in 1..Len(reports) : reports'[i] = reports[i]
      /\ \A i \in (Len(reports) + 1)..(Len(reports) + taken) : reports'[i] = r
  BY <1>2 DEF Apply
<1>4. DOMAIN device' = Dps /\ \A d \in Dps : device'[d] = IF d = dp /\ taken > 0 THEN bytes ELSE device[d]
  BY DEF Apply
<1>5. r[1] = dp /\ r[2] = bytes
  OBVIOUS
<1> HIDE DEF r, new
<1>6. ASSUME NEW d \in Dps, LastReport(d) PROVE LastReport(d)'
  <2> SUFFICES ASSUME NEW i \in DOMAIN reports', reports'[i][1] = d,
                      \A j \in DOMAIN reports' : j > i => reports'[j][1] # d
               PROVE  reports'[i][2] = device'[d]
    BY DEF LastReport
  <2>1. CASE i > Len(reports)
    BY <1>3, <1>4, <1>5, <2>1
  <2>2. CASE i <= Len(reports)
    <3>1. i \in DOMAIN reports /\ reports'[i] = reports[i]
      BY <1>3, <2>2
    <3>2. \A j \in DOMAIN reports : j > i => reports[j][1] # d
      BY <1>3
    <3>3. reports[i][2] = device[d]
      BY <1>6, <3>1, <3>2 DEF LastReport
    <3>4. d = dp => taken = 0
      <4> SUFFICES ASSUME d = dp, taken > 0 PROVE FALSE
        OBVIOUS
      <4> DEFINE n == Len(reports) + taken
      <4>1. /\ n \in DOMAIN reports' /\ n > i
            /\ n \in (Len(reports) + 1)..(Len(reports) + taken)
        BY <1>3, <2>2
      <4>2. reports'[n] = r
        BY <1>3, <4>1
      <4> QED
        BY <1>5, <4>1, <4>2
    <3> QED
      BY <1>4, <3>1, <3>3, <3>4
  <2> QED
    BY <1>3, <2>1, <2>2
<1>7. ASSUME NEW d \in Dps, NoReport(d)' PROVE NoReport(d) /\ device'[d] = device[d]
  <2>1. NoReport(d)
    BY <1>3, <1>7 DEF NoReport
  <2>2. d = dp => taken = 0
    <3> SUFFICES ASSUME d = dp, taken > 0 PROVE FALSE
      OBVIOUS
    <3> DEFINE n == Len(reports) + taken
    <3>1. n \in DOMAIN reports' /\ n \in (Len(reports) + 1)..(Len(reports) + taken)
      BY <1>3
    <3>2. reports'[n] = r
      BY <1>3, <3>1
    <3> QED
      BY <1>5, <1>7, <3>1, <3>2 DEF NoReport
  <2> QED
    BY <1>4, <2>1, <2>2
<1> QED
  BY <1>3, <1>4, <1>6, <1>7

\* A spelled payload is a value.
LEMMA SpelledIsValue ==
    ASSUME Shape, NEW bytes PROVE Spelled(bytes) # NoValue
  BY DEF Shape, Spelled, NoValue

\* A step that leaves the cache alone, or empties it, and then sends, or does not, keeps the
\* invariant.
LEMMA SendKeeps ==
    ASSUME CacheInv, UNCHANGED <<states, missed>> \/ (states' = Unknown /\ missed' = {}),
           UNCHANGED <<bean, merging, asking, form>>,
           \/ UNCHANGED <<device, reports>>
           \/ \E dp \in Dps, taken \in Nat : \E bytes : Apply(dp, bytes, taken)
    PROVE  CacheInv'
<1>1. /\ \E S : reports' \in Seq(S)
      /\ DOMAIN device' = Dps
      /\ \A d \in Dps : LastReport(d) => LastReport(d)'
      /\ \A d \in Dps : NoReport(d)' => NoReport(d) /\ device'[d] = device[d]
  <2>1. CASE UNCHANGED <<device, reports>>
    BY <2>1 DEF CacheInv, Shape, LastReport, NoReport
  <2>2. CASE \E dp \in Dps, taken \in Nat : \E bytes : Apply(dp, bytes, taken)
    BY <2>2, Applied DEF CacheInv, Shape
  <2> QED
    BY <2>1, <2>2
<1>2. Shape'
  BY <1>1 DEF CacheInv, Shape, Unknown
<1>3. CacheCurrent'
  BY <1>1 DEF CacheInv, CacheCurrent, Arriving, NoReport, Spelled, Unknown
<1>4. \A d \in Dps : LastReport(d)' /\ BeanCurrent(d)'
  BY <1>1 DEF CacheInv, BeanCurrent, Spelled
<1>5. MergeCurrent'
  BY <1>1 DEF CacheInv, MergeCurrent
<1>6. AskCurrent'
  BY <1>1 DEF CacheInv, AskCurrent, Spelled
<1> QED
  BY <1>2, <1>3, <1>4, <1>5, <1>6 DEF CacheInv

\* A query reads the bean over the old state or over an empty one.
LEMMA AskKeeps ==
    ASSUME CacheInv, NEW dp \in Dps, NEW made \in BOOLEAN, Ask(dp, made)
    PROVE  CacheInv'
<1>1. /\ UNCHANGED <<states, missed>> \/ (states' = Unknown /\ missed' = {})
      /\ UNCHANGED <<device, reports, bean, merging, form>>
  BY DEF Ask, Make
<1>2. PICK old : old = IF instance THEN states ELSE Unknown
  OBVIOUS
<1>3. PICK S, late : S = ReadDeviceDps(old) /\ late = {d \in missed : bean[d] = NoValue}
  OBVIOUS
<1>4. asking' = <<>> \/ asking' = [state |-> S, late |-> late]
  BY <1>2, <1>3 DEF Ask
<1>5. /\ DOMAIN S = Dps
      /\ \A d \in Dps : S[d] = IF bean[d] # NoValue THEN bean[d] ELSE old[d]
      /\ \A d \in Dps : old[d] \in {states[d], NoValue}
  BY <1>2, <1>3 DEF ReadDeviceDps, Unknown
<1>6. ASSUME NEW d \in Dps \ late, S[d] # NoValue, NoReport(d) PROVE S[d] = Spelled(device[d])
  <2>1. CASE bean[d] # NoValue
    BY <1>5, <1>6, <2>1 DEF CacheInv, BeanCurrent
  <2>2. CASE bean[d] = NoValue
    <3>1. d \notin missed /\ S[d] = states[d] /\ states[d] # NoValue
      BY <1>3, <1>5, <1>6, <2>2
    <3>2. ~Arriving(d)
      BY <1>6, <2>2 DEF CacheInv, MergeCurrent, Arriving, NoReport
    <3> QED
      BY <3>1, <3>2 DEF CacheInv, CacheCurrent
  <2> QED
    BY <2>1, <2>2
<1>7. Shape'
  <2>1. asking' # <<>> => asking' \in [state : [Dps -> {asking'.state[d] : d \in Dps}],
                                        late : {asking'.late}]
    <3>1. S \in [Dps -> {S[d] : d \in Dps}]
      BY <1>3 DEF ReadDeviceDps
    <3>2. CASE asking' = [state |-> S, late |-> late]
      BY <3>1, <3>2
    <3> QED
      BY <1>4, <3>2
  <2> QED
    BY <1>1, <2>1 DEF CacheInv, Shape, Unknown
<1>8. AskCurrent'
  <2>1. CASE asking' = <<>>
    BY <2>1 DEF AskCurrent
  <2>2. CASE asking' = [state |-> S, late |-> late]
    BY <1>1, <1>6, <2>2 DEF AskCurrent, NoReport, Spelled
  <2> QED
    BY <1>4, <2>1, <2>2
<1>9. CacheCurrent'
  BY <1>1 DEF CacheInv, CacheCurrent, Arriving, Spelled, Unknown
<1>10. MergeCurrent' /\ \A d \in Dps : LastReport(d)' /\ BeanCurrent(d)'
  BY <1>1 DEF CacheInv, MergeCurrent, LastReport, BeanCurrent, NoReport, Spelled
<1> QED
  BY <1>7, <1>8, <1>9, <1>10 DEF CacheInv

\* What the query writes is current but for the datapoints that reports overtook.
LEMMA AskEndsKeeps == ASSUME CacheInv, AskEnds PROVE CacheInv'
<1>1. /\ asking # <<>> /\ asking' = <<>> /\ states' = asking.state
      /\ missed' = {d \in asking.late : asking.state[d] # NoValue}
      /\ UNCHANGED <<device, reports, bean, merging, form>>
  BY DEF AskEnds
<1>2. PICK S : S = asking.state
  OBVIOUS
<1>3. DOMAIN S = Dps
  BY <1>1, <1>2 DEF CacheInv, Shape
<1>4. Shape'
  BY <1>1, <1>2, <1>3 DEF CacheInv, Shape
<1>5. CacheCurrent'
  BY <1>1 DEF CacheInv, AskCurrent, CacheCurrent, Arriving, NoReport, Spelled
<1>6. AskCurrent'
  BY <1>1 DEF AskCurrent
<1>7. MergeCurrent' /\ \A d \in Dps : LastReport(d)' /\ BeanCurrent(d)'
  BY <1>1 DEF CacheInv, MergeCurrent, LastReport, BeanCurrent, NoReport, Spelled
<1> QED
  BY <1>4, <1>5, <1>6, <1>7 DEF CacheInv

\* The merged copy has the report, and what nobody wrote since it was read.
LEMMA MergedKeeps == ASSUME CacheInv, Merged PROVE CacheInv'
<1>1. PICK dp, bytes, seen : dp = merging.dp /\ bytes = merging.bytes /\ seen = merging.seen
  OBVIOUS
<1>2. /\ merging # <<>> /\ merging' = <<>>
      /\ states' = [seen EXCEPT ![dp] = Spelled(bytes)]
      /\ missed' = (missed \cup {d \in Dps : seen[d] \notin {NoValue, states[d]}}) \ {dp}
      /\ UNCHANGED <<device, reports, bean, asking, form>>
  BY <1>1 DEF Merged
<1>3. DOMAIN seen = Dps
  BY <1>1, <1>2 DEF CacheInv, Shape
<1>4. DOMAIN states' = Dps
  BY <1>2, <1>3
<1>5. Shape'
  BY <1>2, <1>4 DEF CacheInv, Shape
<1>6. ASSUME NEW d \in Dps \ missed', states'[d] # NoValue, NoReport(d)
      PROVE  states'[d] = Spelled(device[d])
  <2>1. CASE d = dp
    BY <1>1, <1>2, <1>3, <1>6, <2>1 DEF CacheInv, MergeCurrent
  <2>2. CASE d # dp
    <3>1. states'[d] = seen[d]
      BY <1>2, <1>3, <2>2
    <3>2. d \notin missed /\ seen[d] \in {NoValue, states[d]}
      BY <1>2, <1>6, <2>2
    <3>3. ~Arriving(d)
      BY <1>1, <1>6, <2>2 DEF Arriving, NoReport
    <3> QED
      BY <1>6, <3>1, <3>2, <3>3 DEF CacheInv, CacheCurrent
  <2> QED
    BY <2>1, <2>2
<1>7. CacheCurrent'
  BY <1>2, <1>6 DEF CacheCurrent, Arriving, NoReport, Spelled
<1>8. MergeCurrent'
  BY <1>2 DEF MergeCurrent
<1>9. AskCurrent' /\ \A d \in Dps : LastReport(d)' /\ BeanCurrent(d)'
  BY <1>2 DEF CacheInv, AskCurrent, LastReport, BeanCurrent, NoReport, Spelled
<1> QED
  BY <1>5, <1>7, <1>8, <1>9 DEF CacheInv

\* A report reaches the bean, and a proxy or the datapoints that were missed.
LEMMA ReportKeeps == ASSUME CacheInv, Report PROVE CacheInv'
<1>0. PICK dp, bytes : dp = Head(reports)[1] /\ bytes = Head(reports)[2]
  OBVIOUS
<1>1. PICK S : reports \in Seq(S)
  BY DEF CacheInv, Shape
<1>2. /\ reports # <<>> /\ reports' = Tail(reports) /\ UNCHANGED <<device, states, form>>
      /\ bean' = [bean EXCEPT ![dp] = Spelled(bytes)]
      /\ merging = <<>>
      /\ asking' = IF asking = <<>> THEN asking ELSE [asking EXCEPT !.late = @ \cup {dp}]
      /\ \/ merging' = [dp |-> dp, bytes |-> bytes, seen |-> states] /\ missed' = missed
         \/ /\ merging' = <<>>
            /\ missed' = IF states[dp] = NoValue THEN missed ELSE missed \cup {dp}
  BY <1>0 DEF Report, Overtake
<1>3. /\ Len(reports) \in Nat \ {0} /\ DOMAIN reports = 1..Len(reports)
      /\ reports' \in Seq(S) /\ DOMAIN reports' = 1..(Len(reports) - 1)
      /\ \A i \in DOMAIN reports' : reports'[i] = reports[i + 1]
      /\ dp = reports[1][1] /\ bytes = reports[1][2]
  BY <1>0, <1>1, <1>2
<1>4. Shape'
  <2>1. merging' # <<>> => DOMAIN merging'.seen = Dps
    BY <1>2 DEF CacheInv, Shape
  <2>2. asking' # <<>> => asking' \in [state : [Dps -> {asking'.state[d] : d \in Dps}],
                                        late : {asking'.late}]
    <3>1. CASE asking = <<>>
      BY <1>2, <3>1
    <3>2. CASE asking # <<>>
      <4>1. PICK A : A = asking
        OBVIOUS
      <4>2. A \in [state : [Dps -> {A.state[d] : d \in Dps}], late : {A.late}]
        BY <3>2, <4>1 DEF CacheInv, Shape
      <4>3. asking' = [state |-> A.state, late |-> A.late \cup {dp}]
        BY <1>2, <3>2, <4>1, <4>2
      <4> QED
        BY <4>2, <4>3
    <3> QED
      BY <3>1, <3>2
  <2>3. DOMAIN bean' = Dps
    BY <1>2 DEF CacheInv, Shape
  <2> QED
    BY <1>2, <1>3, <2>1, <2>2, <2>3 DEF CacheInv, Shape
<1>5. ASSUME NEW d \in Dps PROVE LastReport(d)'
  <2> SUFFICES ASSUME NEW i \in DOMAIN reports', reports'[i][1] = d,
                      \A j \in DOMAIN reports' : j > i => reports'[j][1] # d
               PROVE  reports'[i][2] = device'[d]
    BY DEF LastReport
  <2>1. i + 1 \in DOMAIN reports /\ reports'[i] = reports[i + 1]
    BY <1>3
  <2>2. ASSUME NEW j \in DOMAIN reports, j > i + 1 PROVE reports[j][1] # d
    <3>1. j - 1 \in DOMAIN reports' /\ j - 1 > i /\ reports'[j - 1] = reports[j]
      BY <1>3, <2>2
    <3> QED
      BY <3>1
  <2>3. LastReport(d)
    BY DEF CacheInv
  <2> QED
    BY <1>2, <2>1, <2>2, <2>3 DEF LastReport
<1>6. ASSUME NEW d \in Dps, NoReport(d)', d # dp PROVE NoReport(d)
  <2> SUFFICES ASSUME NEW j \in DOMAIN reports PROVE reports[j][1] # d
    BY DEF NoReport
  <2>1. CASE j = 1
    BY <1>3, <1>6, <2>1
  <2>2. CASE j # 1
    <3>1. j - 1 \in DOMAIN reports' /\ reports'[j - 1] = reports[j]
      BY <1>3, <2>2
    <3> QED
      BY <1>6, <3>1 DEF NoReport
  <2> QED
    BY <2>1, <2>2
<1>7. dp \in Dps /\ NoReport(dp)' => bytes = device[dp]
  <2> SUFFICES ASSUME dp \in Dps, NoReport(dp)' PROVE bytes = device[dp]
    OBVIOUS
  <2>1. 1 \in DOMAIN reports /\ reports[1][1] = dp /\ reports[1][2] = bytes
    BY <1>3
  <2>2. ASSUME NEW j \in DOMAIN reports, j > 1 PROVE reports[j][1] # dp
    <3>1. j - 1 \in DOMAIN reports' /\ reports'[j - 1] = reports[j]
      BY <1>3, <2>2
    <3> QED
      BY <3>1 DEF NoReport
  <2>3. LastReport(dp)
    BY DEF CacheInv
  <2> QED
    BY <2>1, <2>2, <2>3 DEF LastReport
<1>8. Spelled(bytes) # NoValue
  BY SpelledIsValue DEF CacheInv
<1>9. ASSUME NEW d \in Dps PROVE BeanCurrent(d)'
  <2>1. BeanCurrent(d) /\ DOMAIN bean = Dps
    BY DEF CacheInv, Shape
  <2>2. bean'[d] = IF d = dp THEN Spelled(bytes) ELSE bean[d]
    BY <1>2, <2>1
  <2> QED
    BY <1>2, <1>6, <1>7, <2>1, <2>2 DEF BeanCurrent, Spelled
<1>10. CacheCurrent'
  <2> SUFFICES ASSUME NEW d \in Dps \ missed', states[d] # NoValue, NoReport(d)',
                      ~(merging' # <<>> /\ merging'.dp = d)
               PROVE  states[d] = Spelled(device[d])
    BY <1>2 DEF CacheCurrent, Arriving, NoReport, Spelled
  <2>1. d # dp
    <3>1. CASE merging' = [dp |-> dp, bytes |-> bytes, seen |-> states]
      BY <3>1
    <3>2. CASE missed' = IF states[dp] = NoValue THEN missed ELSE missed \cup {dp}
      BY <3>2
    <3> QED
      BY <1>2, <3>1, <3>2
  <2>2. ~Arriving(d) /\ d \notin missed
    BY <1>2, <1>6, <2>1 DEF Arriving, NoReport
  <2> QED
    BY <2>2 DEF CacheInv, CacheCurrent
<1>11. MergeCurrent'
  <2> SUFFICES ASSUME merging' # <<>>, dp \in Dps
               PROVE  bean'[dp] # NoValue /\ (NoReport(dp)' => bytes = device[dp])
    BY <1>2 DEF MergeCurrent
  <2>1. bean'[dp] = Spelled(bytes)
    BY <1>2 DEF CacheInv, Shape
  <2> QED
    BY <1>7, <1>8, <2>1
<1>12. AskCurrent'
  <2>1. CASE asking = <<>>
    BY <1>2, <2>1 DEF AskCurrent
  <2>2. CASE asking # <<>>
    <3>1. PICK A : A = asking
      OBVIOUS
    <3>2. A \in [state : [Dps -> {A.state[d] : d \in Dps}], late : {A.late}]
      BY <2>2, <3>1 DEF CacheInv, Shape
    <3>3. asking' = [state |-> A.state, late |-> A.late \cup {dp}]
      BY <1>2, <2>2, <3>1, <3>2
    <3>4. asking'.state = A.state /\ asking'.late = A.late \cup {dp}
      BY <3>3
    <3>5. \A d \in Dps \ A.late : A.state[d] # NoValue /\ NoReport(d) => A.state[d] = Spelled(device[d])
      BY <2>2, <3>1 DEF CacheInv, AskCurrent
    <3> QED
      BY <1>2, <1>6, <3>4, <3>5 DEF AskCurrent, Spelled
  <2> QED
    BY <2>1, <2>2
<1> QED
  BY <1>4, <1>5, <1>9, <1>10, <1>11, <1>12 DEF CacheInv

\* The invariant of the cache.
LEMMA CacheInvariant == Spec => []CacheInv
<1>1. Init => CacheInv
  <2> SUFFICES ASSUME Init PROVE CacheInv
    OBVIOUS
  <2>1. /\ reports = <<>> /\ missed = {} /\ states = Unknown /\ DOMAIN device = Dps
        /\ bean \in {Unknown, Current} /\ merging = <<>> /\ asking = <<>>
        /\ form \in {"raw", "base64"}
    BY DEF Init
  <2>2. Shape
    <3>1. reports \in Seq({})
      BY <2>1
    <3> QED
      BY <2>1, <3>1 DEF Shape, Unknown, Current
  <2>3. \A dp \in Dps : LastReport(dp) /\ BeanCurrent(dp)
    BY <2>1 DEF LastReport, BeanCurrent, Unknown, Current
  <2>4. CacheCurrent /\ MergeCurrent /\ AskCurrent
    BY <2>1 DEF CacheCurrent, MergeCurrent, AskCurrent, Unknown
  <2> QED
    BY <2>1, <2>2, <2>3, <2>4 DEF CacheInv
<1>2. CacheInv /\ [Next]_vars => CacheInv'
  <2> SUFFICES ASSUME CacheInv, [Next]_vars
               PROVE  CacheInv'
    OBVIOUS
  <2>1. \A out \in TextOutcomes \cup ByteOutcomes : out.taken \in Nat
    BY TakenIsNat DEF TextOutcomes, ByteOutcomes
  <2>2. ASSUME NEW t \in Tasks, NEW made \in BOOLEAN, NEW c \in Changes, NEW out \in TextOutcomes,
               Set(t, c, made, out)
        PROVE  CacheInv'
    <3>1. c[1] \in Dps
      BY DEF Dps
    <3>2. /\ UNCHANGED <<states, missed>> \/ (states' = Unknown /\ missed' = {})
          /\ UNCHANGED <<bean, merging, asking, form>>
          /\ \/ UNCHANGED <<device, reports>>
             \/ \E bytes : Apply(c[1], bytes, out.taken)
      BY <2>2 DEF Set, Make
    <3> QED
      BY <2>1, <3>1, <3>2, SendKeeps
  <2>3. ASSUME NEW t \in Tasks, NEW made \in BOOLEAN, NEW dp \in Dps, NEW p \in Payloads,
               NEW out \in TextOutcomes \cup ByteOutcomes, Overwrite(t, dp, p, made, out)
        PROVE  CacheInv'
    <3>1. /\ UNCHANGED <<states, missed>> \/ (states' = Unknown /\ missed' = {})
          /\ UNCHANGED <<bean, merging, asking, form>>
          /\ \/ UNCHANGED <<device, reports>>
             \/ \E bytes : Apply(dp, bytes, out.taken)
      BY <2>3 DEF Overwrite, Make
    <3> QED
      BY <2>1, <3>1, SendKeeps
  <2>4. ASSUME NEW made \in BOOLEAN,
               \/ \E t \in Tasks, out \in TextOutcomes : SetOperationMode(t, made, out)
               \/ \E l \in Listeners : RegisterListener(l, made)
               \/ BatchQuery(made)
        PROVE  CacheInv'
    <3>1. /\ UNCHANGED <<bean, merging, asking, form, device, reports>>
          /\ UNCHANGED <<states, missed>> \/ (states' = Unknown /\ missed' = {})
      BY <2>4 DEF SetOperationMode, RegisterListener, BatchQuery, Make
    <3> QED
      BY <3>1, SendKeeps
  <2>5. ASSUME NEW c \in Changes, ClientUpdate(c) PROVE CacheInv'
    <3>1. /\ c[1] \in Dps
          /\ \E bytes : Apply(c[1], bytes, 1)
          /\ UNCHANGED <<bean, merging, asking, form, states, missed>>
      BY <2>5 DEF ClientUpdate, Dps, control, cached
    <3> QED
      BY <3>1, SendKeeps
  <2>6. ASSUME NEW works \in BOOLEAN, OnRemoved(works) PROVE CacheInv'
    <3>1. /\ states' = Unknown /\ bean' = Unknown /\ missed' = {} /\ merging = <<>>
          /\ UNCHANGED <<device, reports, merging, asking, form>>
      BY <2>6 DEF OnRemoved
    <3>2. Shape'
      BY <3>1 DEF CacheInv, Shape, Unknown
    <3>3. CacheCurrent' /\ MergeCurrent' /\ AskCurrent'
      BY <3>1 DEF CacheInv, CacheCurrent, MergeCurrent, AskCurrent, NoReport, Spelled, Unknown
    <3>4. \A d \in Dps : LastReport(d)' /\ BeanCurrent(d)'
      BY <3>1 DEF CacheInv, LastReport, BeanCurrent, Unknown
    <3> QED
      BY <3>2, <3>3, <3>4 DEF CacheInv
  <2>7. CASE BeanLoads
    <3>1. /\ reports = <<>> /\ bean' = Current
          /\ UNCHANGED <<device, reports, states, missed, merging, asking, form>>
      BY <2>7 DEF BeanLoads, control
    <3>2. \A d \in Dps : bean'[d] = Spelled(device[d]) /\ bean'[d] # NoValue
      BY <3>1, SpelledIsValue DEF Current, CacheInv
    <3>3. Shape'
      BY <3>1 DEF CacheInv, Shape, Current
    <3>4. CacheCurrent' /\ MergeCurrent' /\ AskCurrent'
      BY <3>1, <3>2 DEF CacheInv, CacheCurrent, MergeCurrent, AskCurrent, Arriving, NoReport, Spelled
    <3>5. \A d \in Dps : LastReport(d)' /\ BeanCurrent(d)'
      BY <3>1, <3>2 DEF CacheInv, LastReport, BeanCurrent, Spelled
    <3> QED
      BY <3>3, <3>4, <3>5 DEF CacheInv
  <2>8. ASSUME \/ \E t \in Tasks : Settle(t)
               \/ \E l \in Listeners, works \in BOOLEAN : UnregisterListener(l, works)
               \/ UNCHANGED vars
        PROVE  CacheInv'
    <3>1. UNCHANGED <<device, reports, bean, states, missed, merging, asking, form>>
      BY <2>8 DEF Settle, UnregisterListener, control, cached, vars
    <3> QED
      BY <3>1, SendKeeps
  <2>9. ASSUME NEW dp \in Dps, NEW made \in BOOLEAN, Ask(dp, made) PROVE CacheInv'
    BY <2>9, AskKeeps
  <2> QED
    BY <2>2, <2>3, <2>4, <2>5, <2>6, <2>7, <2>8, <2>9, AskEndsKeeps, ReportKeeps, MergedKeeps
       DEF Next
<1> QED
  BY <1>1, <1>2, PTL DEF Spec

\* A datapoint in the manager's cache, from which the next setter starts, is the device's,
\* unless a report of it is on its way, came while no proxy listened, or was undone by a query
\* or another report that wrote an older copy of the state, for every order of setters,
\* queries, reports, registrations, removals and other programs' changes (manager.py,
\* query_device_dp and dispatch_callback).
THEOREM CachedIsCurrent == Spec => []CacheCurrent
<1>1. CacheInv => CacheCurrent
  BY DEF CacheInv
<1> QED
  BY <1>1, CacheInvariant, PTL

-----------------------------------------------------------------------------
(* DP102, the system settings. *)

\* The masks of the bits of a byte.
Masks == {1, 2, 4, 8, 16, 32, 64, 128}

\* Writing one bit of a byte gives that bit and leaves the others.
LEMMA SetBitLaw ==
    ASSUME NEW b \in Byte, NEW m \in Masks, NEW on \in BOOLEAN
    PROVE  /\ SetBit(b, m, on) \in Byte
           /\ Bit(SetBit(b, m, on), m) = on
           /\ \A n \in Masks \ {m} : Bit(SetBit(b, m, on), n) = Bit(b, n)
<1>1. CASE on = TRUE
  <2>1. SetBit(b, m, on) \in Byte
    BY <1>1 DEF Byte, SetBit, Bit, Flag, Masks
  <2>2. Bit(SetBit(b, m, on), m)
    BY <1>1 DEF Byte, SetBit, Bit, Flag, Masks
  <2>3. \A n \in Masks \ {m} : Bit(SetBit(b, m, on), n) <=> Bit(b, n)
    BY <1>1, SMTT(40) DEF Byte, SetBit, Bit, Flag, Masks
  <2> QED
    BY <1>1, <2>1, <2>2, <2>3 DEF Bit
<1>2. CASE on = FALSE
  <2>1. SetBit(b, m, on) \in Byte
    BY <1>2 DEF Byte, SetBit, Bit, Flag, Masks
  <2>2. ~Bit(SetBit(b, m, on), m)
    BY <1>2 DEF Byte, SetBit, Bit, Flag, Masks
  <2>3. \A n \in Masks \ {m} : Bit(SetBit(b, m, on), n) <=> Bit(b, n)
    BY <1>2, SMTT(40) DEF Byte, SetBit, Bit, Flag, Masks
  <2> QED
    BY <1>2, <2>1, <2>2, <2>3 DEF Bit
<1> QED
  BY <1>1, <1>2

\* A payload of full length is a sequence of bytes.
LEMMA FullIsSeq ==
    ASSUME NEW n \in Nat, NEW x \in [1..n -> Byte]
    PROVE  x \in Seq(Byte) /\ Len(x) = n
  OBVIOUS

\* normalize_bytes gives n bytes, and nothing else when there were n.
LEMMA NormalizedBytes ==
    ASSUME NEW n \in Nat, NEW x \in Seq(Byte)
    PROVE  /\ NormalizeBytes(x, n) \in [1..n -> Byte]
           /\ x \in [1..n -> Byte] => NormalizeBytes(x, n) = x
<1>1. Len(x) \in Nat /\ \A i \in 1..n : i <= Len(x) => x[i] \in Byte
  BY LenProperties
<1>2. 0 \in Byte
  BY DEF Byte
<1>3. NormalizeBytes(x, n) \in [1..n -> Byte]
  BY <1>1, <1>2 DEF NormalizeBytes
<1>4. ASSUME x \in [1..n -> Byte] PROVE NormalizeBytes(x, n) = x
  BY <1>4, FullIsSeq DEF NormalizeBytes
<1> QED
  BY <1>3, <1>4

\* A DP102 setting is a switch with a byte of its own, a bit, or a number.
LEMMA Kinds ==
    /\ DOMAIN Toggles102 \cap DOMAIN Bits102 = {}
    /\ DOMAIN Toggles102 \cap DOMAIN NumberByte102 = {}
    /\ DOMAIN Bits102 \cap DOMAIN NumberByte102 = {}
    /\ DOMAIN Numbers102 = DOMAIN NumberByte102
  BY DEF Toggles102, Bits102, NumberByte102, Numbers102

\* What a setting of each kind is, given its byte.
LEMMA ReadToggle ==
    ASSUME NEW f \in DOMAIN Toggles102, NEW b
    PROVE  Read102(f, b) = (b # 0)
<1>1. f \notin DOMAIN Bits102 /\ f \notin DOMAIN NumberByte102
  BY Kinds
<1> QED
  BY <1>1, Zenon DEF Read102

\* A bit is read through its mask.
LEMMA ReadBit ==
    ASSUME NEW f \in DOMAIN Bits102, NEW b
    PROVE  Read102(f, b) = Bit(b, Bits102[f][2])
<1>1. f \notin DOMAIN Toggles102 /\ f \notin DOMAIN NumberByte102
  BY Kinds
<1> QED
  BY <1>1, Zenon DEF Read102

\* A number is read by its own rule.
LEMMA ReadNumber ==
    ASSUME NEW f \in DOMAIN NumberByte102, NEW b
    PROVE  Read102(f, b) = Number102(f, b)
<1>1. f \notin DOMAIN Toggles102 /\ f \notin DOMAIN Bits102
  BY Kinds
<1> QED
  BY <1>1, Zenon DEF Read102

\* Whatever its byte is, a setting is read as one of its values.
LEMMA ReadTyped ==
    ASSUME NEW f \in Settings102, NEW b \in Byte
    PROVE  Read102(f, b) \in Values102[f]
<1>1. CASE f \in DOMAIN Toggles102
  <2>1. Values102[f] = BOOLEAN
    BY <1>1, Kinds DEF Values102, Settings102
  <2> QED
    BY <1>1, <2>1, ReadToggle
<1>2. CASE f \in DOMAIN Bits102
  <2>1. Values102[f] = BOOLEAN
    BY <1>2, Kinds DEF Values102, Settings102
  <2> QED
    BY <1>2, <2>1, ReadBit DEF Bit
<1>3. CASE f \in DOMAIN NumberByte102
  <2>1. Read102(f, b) = Number102(f, b) /\ Values102[f] = Numbers102[f]
    BY <1>3, Kinds, ReadNumber DEF Values102, Settings102
  <2>2. Number102(f, b) \in Numbers102[f]
    BY <1>3 DEF Number102, Numbers102, NumberByte102, ValidOr, Clamp, Signed, Byte
  <2> QED
    BY <2>1, <2>2
<1> QED
  BY <1>1, <1>2, <1>3 DEF Settings102

\* Where the settings are: bits of four bytes, and bytes of their own, except that
\* oscillation and reshuffle share one.
LEMMA Places ==
    /\ \A f \in DOMAIN Toggles102 : Place102(f) \in {12, 19, 20, 21, 23, 24, 25, 28}
    /\ \A f \in DOMAIN Bits102 :
         /\ Place102(f) = Bits102[f][1] /\ Place102(f) \in {18, 22, 26, 27}
         /\ Bits102[f][2] \in Masks
         /\ Place102(f) = 26 <=> f = "reshuffle"
         /\ \A g \in DOMAIN Bits102 : Bits102[f] = Bits102[g] => f = g
    /\ \A f \in DOMAIN NumberByte102 :
         /\ Place102(f) \in {10, 11, 13, 14, 15, 17, 26}
         /\ Place102(f) = 26 <=> f = "oscillation"
<1>1. ASSUME NEW f \in DOMAIN Toggles102 PROVE Place102(f) = Toggles102[f]
  BY Kinds DEF Place102
<1>2. ASSUME NEW f \in DOMAIN Bits102 PROVE Place102(f) = Bits102[f][1]
  BY Kinds DEF Place102
<1>3. ASSUME NEW f \in DOMAIN NumberByte102 PROVE Place102(f) = NumberByte102[f]
  BY Kinds DEF Place102
<1>4. \A f \in DOMAIN Toggles102 : Toggles102[f] \in {12, 19, 20, 21, 23, 24, 25, 28}
  BY DEF Toggles102
<1>5. \A f \in DOMAIN Bits102 :
        /\ Bits102[f][1] \in {18, 22, 26, 27} /\ Bits102[f][2] \in Masks
        /\ Bits102[f][1] = 26 <=> f = "reshuffle"
        /\ \A g \in DOMAIN Bits102 : Bits102[f] = Bits102[g] => f = g
  BY DEF Bits102, Masks
<1>6. \A f \in DOMAIN NumberByte102 :
        /\ NumberByte102[f] \in {10, 11, 13, 14, 15, 17, 26}
        /\ NumberByte102[f] = 26 <=> f = "oscillation"
  BY DEF NumberByte102
<1>7. \A f \in DOMAIN Toggles102 : Place102(f) \in {12, 19, 20, 21, 23, 24, 25, 28}
  BY <1>1, <1>4
<1>8. \A f \in DOMAIN NumberByte102 :
        /\ Place102(f) \in {10, 11, 13, 14, 15, 17, 26}
        /\ Place102(f) = 26 <=> f = "oscillation"
  BY <1>3, <1>6
<1>9. \A f \in DOMAIN Bits102 :
        /\ Place102(f) = Bits102[f][1] /\ Place102(f) \in {18, 22, 26, 27}
        /\ Bits102[f][2] \in Masks
        /\ Place102(f) = 26 <=> f = "reshuffle"
        /\ \A g \in DOMAIN Bits102 : Bits102[f] = Bits102[g] => f = g
  <2> SUFFICES ASSUME NEW f \in DOMAIN Bits102
               PROVE  /\ Place102(f) = Bits102[f][1] /\ Place102(f) \in {18, 22, 26, 27}
                      /\ Bits102[f][2] \in Masks
                      /\ Place102(f) = 26 <=> f = "reshuffle"
                      /\ \A g \in DOMAIN Bits102 : Bits102[f] = Bits102[g] => f = g
    OBVIOUS
  <2>1. Place102(f) = Bits102[f][1]
    BY <1>2
  <2> QED
    BY <1>5, <2>1
<1> QED
  BY <1>7, <1>8, <1>9

\* No two switches and no two numbers share a byte.
LEMMA Injective ==
    /\ \A f, g \in DOMAIN Toggles102 : Toggles102[f] = Toggles102[g] => f = g
    /\ \A f, g \in DOMAIN NumberByte102 : NumberByte102[f] = NumberByte102[g] => f = g
  BY DEF Toggles102, NumberByte102

\* A switch or a number, except oscillation, is alone in its byte.
LEMMA OwnByte ==
    ASSUME NEW g \in DOMAIN Toggles102 \cup (DOMAIN NumberByte102 \ {"oscillation"}),
           NEW f \in Settings102, Place102(f) = Place102(g)
    PROVE  f = g
<1>1. CASE g \in DOMAIN Toggles102
  <2>1. Place102(f) \in {12, 19, 20, 21, 23, 24, 25, 28}
    BY <1>1, Places
  <2>2. f \notin DOMAIN Bits102 /\ f \notin DOMAIN NumberByte102
    BY <2>1, Places
  <2>3. f \in DOMAIN Toggles102
    BY <2>2 DEF Settings102
  <2>4. Place102(f) = Toggles102[f] /\ Place102(g) = Toggles102[g]
    BY <1>1, <2>3, Kinds DEF Place102
  <2> QED
    BY <1>1, <2>3, <2>4, Injective
<1>2. CASE g \in DOMAIN NumberByte102 \ {"oscillation"}
  <2>1. Place102(f) \in {10, 11, 13, 14, 15, 17}
    BY <1>2, Places
  <2>2. f \notin DOMAIN Bits102 /\ f \notin DOMAIN Toggles102
    BY <2>1, Places
  <2>3. f \in DOMAIN NumberByte102
    BY <2>2 DEF Settings102
  <2>4. Place102(f) = NumberByte102[f] /\ Place102(g) = NumberByte102[g]
    BY <1>2, <2>3, Kinds DEF Place102
  <2> QED
    BY <1>2, <2>3, <2>4, Injective
<1> QED
  BY <1>1, <1>2

\* A flag is written as 0 or 1.
LEMMA FlagLaw ==
    ASSUME NEW on \in BOOLEAN PROVE Flag(on) \in 0..1 /\ (Flag(on) = 1) = on
<1>1. Flag(on) \in 0..1
  BY DEF Flag
<1>2. Flag(on) = 1 <=> on
  BY DEF Flag
<1>3. (Flag(on) = 1) = on
  BY <1>2, Zenon
<1> QED
  BY <1>1, <1>3, Zenon

\* The bits of a byte that is the sum of eight flags.
LEMMA EightFlags ==
    ASSUME NEW x1 \in 0..1, NEW x2 \in 0..1, NEW x4 \in 0..1, NEW x8 \in 0..1,
           NEW x16 \in 0..1, NEW x32 \in 0..1, NEW x64 \in 0..1, NEW x128 \in 0..1,
           NEW b, b = x1 + 2 * x2 + 4 * x4 + 8 * x8 + 16 * x16 + 32 * x32 + 64 * x64 + 128 * x128
    PROVE  /\ b \in Byte
           /\ Bit(b, 1) = (x1 = 1) /\ Bit(b, 2) = (x2 = 1)
           /\ Bit(b, 4) = (x4 = 1) /\ Bit(b, 8) = (x8 = 1)
           /\ Bit(b, 16) = (x16 = 1) /\ Bit(b, 32) = (x32 = 1)
           /\ Bit(b, 64) = (x64 = 1) /\ Bit(b, 128) = (x128 = 1)
<1>1. b \in Byte
  BY DEF Byte
<1>2. Bit(b, 1) = (x1 = 1)
  BY DEF Bit
<1>3. Bit(b, 2) = (x2 = 1)
  BY DEF Bit
<1>4. Bit(b, 4) = (x4 = 1)
  BY DEF Bit
<1>5. Bit(b, 8) = (x8 = 1)
  BY DEF Bit
<1>6. Bit(b, 16) = (x16 = 1)
  BY DEF Bit
<1>7. Bit(b, 32) = (x32 = 1)
  BY DEF Bit
<1>8. Bit(b, 64) = (x64 = 1)
  BY DEF Bit
<1>9. Bit(b, 128) = (x128 = 1)
  BY DEF Bit
<1> QED
  BY <1>1, <1>2, <1>3, <1>4, <1>5, <1>6, <1>7, <1>8, <1>9

\* Byte 26: the switch in the top bit, and oscillation in the others, which are kept when
\* they already mean the value.
LEMMA OscillationLaw ==
    ASSUME NEW b \in Byte, NEW v \in 0..3, NEW on \in BOOLEAN,
           NEW new, new = 128 * Flag(on)
                            + IF v = Number102("oscillation", b) THEN b % 128 ELSE v
    PROVE  /\ new \in Byte /\ Bit(new, 128) = on /\ Number102("oscillation", new) = v
<1>1. \A x \in Byte : Number102("oscillation", x) = IF x % 128 < 4 THEN x % 128 ELSE 0
  BY DEF Number102
<1>2. PICK k \in 0..1 : k = Flag(on) /\ (k = 1) = on
  BY FlagLaw
<1>3. PICK low \in 0..127 : new = 128 * k + low /\ (IF low < 4 THEN low ELSE 0) = v
  BY <1>1, <1>2 DEF Byte
<1>4. new \in Byte /\ new % 128 = low
  BY <1>3 DEF Byte
<1>5. Bit(new, 128) = (k = 1)
  BY <1>3 DEF Bit
<1> QED
  BY <1>1, <1>2, <1>3, <1>4, <1>5

\* Byte 22: the weight functions written into it one by one.
LEMMA WeightLaw ==
    ASSUME NEW b \in Byte, NEW a \in BOOLEAN, NEW s \in BOOLEAN, NEW c \in BOOLEAN,
           NEW t \in BOOLEAN,
           NEW new, new = SetBit(SetBit(SetBit(SetBit(b, 1, a), 2, s), 4, c), 64, t)
    PROVE  /\ new \in Byte
           /\ Bit(new, 1) = a /\ Bit(new, 2) = s /\ Bit(new, 4) = c /\ Bit(new, 64) = t
<1> DEFINE b1 == SetBit(b, 1, a)
           b2 == SetBit(b1, 2, s)
           b3 == SetBit(b2, 4, c)
<1>0. new = SetBit(b3, 64, t) /\ {1, 2, 4, 64} \subseteq Masks
  BY DEF Masks
<1>1. b1 \in Byte /\ Bit(b1, 1) = a
  BY <1>0, SetBitLaw
<1> HIDE DEF b1
<1>2. b2 \in Byte /\ Bit(b2, 1) = a /\ Bit(b2, 2) = s
  BY <1>0, <1>1, SetBitLaw, SMTT(30)
<1> HIDE DEF b2
<1>3. b3 \in Byte /\ Bit(b3, 1) = a /\ Bit(b3, 2) = s /\ Bit(b3, 4) = c
  BY <1>0, <1>2, SetBitLaw, SMTT(30)
<1> HIDE DEF b3
<1> QED
  BY <1>0, <1>3, SetBitLaw, SMTT(30)

\* The settings a datapoint has, each with a value it can have.
Valid(dp, s) ==
    DOMAIN s = DOMAIN SettingValues(dp) /\ \A f \in DOMAIN s : s[f] \in SettingValues(dp)[f]

\* The values of DP102 settings by kind.
LEMMA ValidKinds ==
    ASSUME NEW s, Valid("102", s)
    PROVE  /\ DOMAIN s = Settings102
           /\ \A f \in DOMAIN Toggles102 \cup DOMAIN Bits102 : s[f] \in BOOLEAN
           /\ \A f \in DOMAIN NumberByte102 : s[f] \in Numbers102[f]
<1>1. DOMAIN s = Settings102 /\ \A f \in Settings102 : s[f] \in Values102[f]
  BY DEF Valid, SettingValues, Values102
<1>2. \A f \in DOMAIN Toggles102 \cup DOMAIN Bits102 : Values102[f] = BOOLEAN
  BY Kinds DEF Values102, Settings102
<1>3. \A f \in DOMAIN NumberByte102 : Values102[f] = Numbers102[f]
  BY Kinds DEF Values102, Settings102
<1> QED
  BY <1>1, <1>2, <1>3 DEF Settings102

\* The bytes that hold only bits are written with every one of them.
LEMMA WriteBits ==
    ASSUME NEW s, Valid("102", s), NEW b \in Byte, NEW i \in {18, 22, 27},
           NEW new, new = Write102(i, s, b)
    PROVE  /\ new \in Byte
           /\ \A f \in DOMAIN Bits102 : Bits102[f][1] = i => Bit(new, Bits102[f][2]) = s[f]
<1>0. \A f \in DOMAIN Bits102 : s[f] \in BOOLEAN /\ Flag(s[f]) \in 0..1 /\ (Flag(s[f]) = 1) = s[f]
  BY ValidKinds, FlagLaw
<1>1. CASE i = 18
  <2>1. new = Flag(s.self_check) + 2 * Flag(s.bin_full) + 4 * Flag(s.manual)
                     + 8 * Flag(s.scheduled) + 16 * Flag(s.automatic_cleaning)
                     + 32 * Flag(s.started) + 64 * Flag(s.pet_finished) + 128 * Flag(s.pet_detected)
    BY <1>1 DEF Write102
  <2>2. {"self_check", "bin_full", "manual", "scheduled", "automatic_cleaning", "started",
         "pet_finished", "pet_detected"} \subseteq DOMAIN Bits102
    BY DEF Bits102
  <2>3. /\ new \in Byte
        /\ Bit(new, 1) = s.self_check /\ Bit(new, 2) = s.bin_full
        /\ Bit(new, 4) = s.manual /\ Bit(new, 8) = s.scheduled
        /\ Bit(new, 16) = s.automatic_cleaning /\ Bit(new, 32) = s.started
        /\ Bit(new, 64) = s.pet_finished /\ Bit(new, 128) = s.pet_detected
    BY <1>0, <2>1, <2>2, EightFlags
  <2> QED
    BY <1>1, <2>3 DEF Bits102
<1>2. CASE i = 27
  <2>1. new = Flag(s.new_firmware) + 2 * Flag(s.pet_left) + 4 * Flag(s.paused) + 8 * Flag(s.resumed)
    BY <1>2 DEF Write102
  <2>2. {"new_firmware", "pet_left", "paused", "resumed"} \subseteq DOMAIN Bits102
    BY DEF Bits102
  <2>3. /\ new \in Byte
        /\ Bit(new, 1) = s.new_firmware /\ Bit(new, 2) = s.pet_left
        /\ Bit(new, 4) = s.paused /\ Bit(new, 8) = s.resumed
    BY <1>0, <2>1, <2>2, EightFlags
  <2> QED
    BY <1>2, <2>3 DEF Bits102
<1>3. CASE i = 22
  <2>1. new = SetBit(SetBit(SetBit(SetBit(b, 1, s.automatic), 2, s.sentinel), 4, s.caring), 64, s.track)
    BY <1>3 DEF Write102
  <2>2. {"automatic", "sentinel", "caring", "track"} \subseteq DOMAIN Bits102
    BY DEF Bits102
  <2>3. /\ new \in Byte
        /\ Bit(new, 1) = s.automatic /\ Bit(new, 2) = s.sentinel
        /\ Bit(new, 4) = s.caring /\ Bit(new, 64) = s.track
    BY <1>0, <2>1, <2>2, WeightLaw
  <2> QED
    BY <1>3, <2>3 DEF Bits102
<1> QED
  BY <1>1, <1>2, <1>3

\* A number in its range is written as one byte, from which it is read back.
LEMMA NumberWritten ==
    ASSUME NEW f \in DOMAIN NumberByte102 \ {"oscillation"}, NEW v \in Numbers102[f]
    PROVE  /\ NumberTo102(f, v) = v % 256
           /\ v % 256 \in Byte /\ Number102(f, v % 256) = v
<1>1. NumberTo102(f, v) = v % 256
  BY DEF Numbers102, NumberByte102, NumberTo102, Clamp
<1>2. v % 256 \in Byte /\ Number102(f, v % 256) = v
  BY DEF Numbers102, NumberByte102, Number102, Clamp, ValidOr, Signed, Byte
<1> QED
  BY <1>1, <1>2

\* A byte that is written has every setting that is in it.
LEMMA WriteLaw ==
    ASSUME NEW s, Valid("102", s), NEW b \in Byte, NEW f \in Settings102,
           NEW new, new = Write102(Place102(f), s, b)
    PROVE  new \in Byte /\ Read102(f, new) = s[f]
<1>1. CASE f \in DOMAIN Bits102 /\ f # "reshuffle"
  <2>1. Place102(f) = Bits102[f][1] /\ Place102(f) \in {18, 22, 27}
    BY <1>1, Places
  <2>2. new \in Byte /\ Bit(new, Bits102[f][2]) = s[f]
    BY <1>1, <2>1, WriteBits
  <2> QED
    BY <1>1, <2>2, ReadBit
<1>2. CASE f \in {"reshuffle", "oscillation"}
  <2>1. /\ "reshuffle" \in DOMAIN Bits102 /\ Bits102["reshuffle"] = << 26, 128 >>
        /\ "oscillation" \in DOMAIN NumberByte102 /\ Numbers102["oscillation"] = 0..3
    BY DEF Bits102, NumberByte102, Numbers102
  <2>2. Place102(f) = 26
    BY <1>2, <2>1, Places
  <2>3. s.reshuffle \in BOOLEAN /\ s.oscillation \in 0..3
    BY <2>1, ValidKinds
  <2>4. new = 128 * Flag(s.reshuffle)
                + IF s.oscillation = Number102("oscillation", b) THEN b % 128 ELSE s.oscillation
    BY <2>2 DEF Write102
  <2>5. /\ new \in Byte /\ Bit(new, 128) = s.reshuffle
        /\ Number102("oscillation", new) = s.oscillation
    BY <2>3, <2>4, OscillationLaw
  <2>6. Read102("reshuffle", new) = Bit(new, 128)
    BY <2>1, ReadBit
  <2>7. Read102("oscillation", new) = Number102("oscillation", new)
    BY <2>1, ReadNumber
  <2> QED
    BY <1>2, <2>5, <2>6, <2>7
<1>3. CASE f \in DOMAIN Toggles102 \cup (DOMAIN NumberByte102 \ {"oscillation"})
  <2>1. Place102(f) \notin {18, 22, 26, 27}
    BY <1>3, Places
  <2>2. (CHOOSE g \in Settings102 : Place102(g) = Place102(f)) = f
    BY <1>3, OwnByte
  <2>3. new = IF f \in DOMAIN Toggles102 THEN Flag(s[f]) ELSE NumberTo102(f, s[f])
    BY <2>1, <2>2 DEF Write102
  <2>4. CASE f \in DOMAIN Toggles102
    <3>1. s[f] \in BOOLEAN /\ new = Flag(s[f])
      BY <2>3, <2>4, ValidKinds
    <3>2. new \in 0..1 /\ (new = 1) = s[f]
      BY <3>1, FlagLaw
    <3>3. new \in Byte /\ (new # 0) = (new = 1)
      BY <3>2 DEF Byte
    <3> QED
      BY <2>4, <3>2, <3>3, ReadToggle
  <2>5. CASE f \in DOMAIN NumberByte102 \ {"oscillation"}
    <3>1. s[f] \in Numbers102[f] /\ new = NumberTo102(f, s[f])
      BY <2>3, <2>5, ValidKinds, Kinds
    <3>2. new \in Byte /\ Number102(f, new) = s[f]
      BY <2>5, <3>1, NumberWritten
    <3> QED
      BY <2>5, <3>2, ReadNumber
  <2> QED
    BY <1>3, <2>4, <2>5
<1> QED
  <2>1. "reshuffle" \in DOMAIN Bits102 /\ "oscillation" \in DOMAIN NumberByte102
    BY DEF Bits102, NumberByte102
  <2> QED
    BY <1>1, <1>2, <1>3, <2>1 DEF Settings102

\* Every setting is inside the payload.
LEMMA PlaceInside ==
    ASSUME NEW f \in Settings102 PROVE Place102(f) \in 0..28 /\ Place102(f) + 1 \in 1..29
  BY Places DEF Settings102

\* A normalized DP102 has 29 bytes.
LEMMA Normal102 ==
    ASSUME NEW x \in Seq(Byte)
    PROVE  /\ Normalize("102", x) \in [1..29 -> Byte]
           /\ \A p \in 0..28 : Normalize("102", x)[p + 1] \in Byte
<1>1. Normalize("102", x) \in [1..29 -> Byte]
  BY NormalizedBytes DEF Normalize
<1>2. ASSUME NEW p \in 0..28 PROVE Normalize("102", x)[p + 1] \in Byte
  <2>1. p + 1 \in 1..29
    OBVIOUS
  <2> QED
    BY <1>1, <2>1
<1> QED
  BY <1>1, <1>2

\* Decoding a DP102 of full length.
LEMMA DecodeFull102 ==
    ASSUME NEW x \in [1..29 -> Byte]
    PROVE  DecodeDp102(x) = [f \in Settings102 |-> Read102(f, x[Place102(f) + 1])]
<1>1. Normalize("102", x) = x
  BY FullIsSeq, NormalizedBytes DEF Normalize
<1> QED
  BY <1>1 DEF DecodeDp102

\* encode_dp102 writes settings that decode_dp102 reads back (dps.py).
LEMMA EncodeLaw102 ==
    ASSUME NEW x \in Seq(Byte), NEW s, Valid("102", s)
    PROVE  /\ EncodeDp102(s, x) \in [1..29 -> Byte]
           /\ DecodeDp102(EncodeDp102(s, x)) = [f \in Settings102 |-> s[f]]
<1> DEFINE old     == Normalize("102", x)
           Kept(i) == \A f \in Settings102 : Place102(f) = i => s[f] = Read102(f, old[i + 1])
           out     == EncodeDp102(s, x)
<1>1. old \in [1..29 -> Byte]
  BY NormalizedBytes DEF Normalize
<1>2. out = [i \in 1..29 |-> IF Kept(i - 1) THEN old[i] ELSE Write102(i - 1, s, old[i])]
  BY DEF EncodeDp102
<1>3. DOMAIN s = Settings102
  BY ValidKinds
<1> HIDE DEF old, out
<1>4. ASSUME NEW i \in 1..29 PROVE out[i] \in Byte
  <2>1. CASE Kept(i - 1)
    BY <1>1, <1>2, <2>1
  <2>2. CASE ~Kept(i - 1)
    <3>1. PICK f \in Settings102 : Place102(f) = i - 1
      BY <2>2
    <3> QED
      BY <1>1, <1>2, <2>2, <3>1, WriteLaw
  <2> QED
    BY <2>1, <2>2
<1>5. out \in [1..29 -> Byte]
  BY <1>2, <1>4
<1>6. ASSUME NEW f \in Settings102 PROVE Read102(f, out[Place102(f) + 1]) = s[f]
  <2>1. PICK q \in 0..28 : q = Place102(f)
    BY PlaceInside
  <2>2. q + 1 \in 1..29 /\ (q + 1) - 1 = q
    OBVIOUS
  <2>3. CASE Kept(q)
    BY <1>2, <2>1, <2>2, <2>3
  <2>4. CASE ~Kept(q)
    <3>1. out[q + 1] = Write102(q, s, old[q + 1]) /\ old[q + 1] \in Byte
      BY <1>1, <1>2, <2>2, <2>4
    <3> QED
      BY <2>1, <3>1, WriteLaw
  <2> QED
    BY <2>3, <2>4
<1>7. DecodeDp102(out) = [f \in Settings102 |-> s[f]]
  BY <1>5, <1>6, DecodeFull102
<1> QED
  BY <1>3, <1>5, <1>7 DEF out

\* decode_dp102 reads every setting as one of its values.
LEMMA ValidDecode102 ==
    ASSUME NEW x \in Seq(Byte)
    PROVE  /\ Valid("102", DecodeDp102(x))
           /\ DecodeDp102(x) = [f \in Settings102 |-> DecodeDp102(x)[f]]
<1> DEFINE old == Normalize("102", x)
           d   == DecodeDp102(x)
<1>1. old \in [1..29 -> Byte]
  BY NormalizedBytes DEF Normalize
<1>2. d = [f \in Settings102 |-> Read102(f, old[Place102(f) + 1])]
  BY DEF DecodeDp102
<1> HIDE DEF d, old
<1>3. \A f \in Settings102 : d[f] \in Values102[f]
  BY <1>1, <1>2, PlaceInside, ReadTyped
<1>4. DOMAIN d = Settings102 /\ SettingValues("102") = Values102 /\ DOMAIN Values102 = Settings102
  BY <1>2 DEF SettingValues, Values102
<1> QED
  BY <1>2, <1>3, <1>4 DEF Valid, d

\* new is old but for the byte of setting f, in which f is v and the others are as they were.
OneByte(old, f, v, new) ==
    \E b \in Byte :
      /\ new = [old EXCEPT ![Place102(f) + 1] = b] /\ Read102(f, b) = v
      /\ \A g \in Settings102 \ {f} :
           Place102(g) = Place102(f) => Read102(g, b) = Read102(g, old[Place102(f) + 1])

\* Replacing one byte so that only one setting in it changes changes no other setting.
LEMMA ReplaceLaw102 ==
    ASSUME NEW old \in [1..29 -> Byte], NEW f \in Settings102, NEW v, NEW new,
           OneByte(old, f, v, new)
    PROVE  /\ new \in [1..29 -> Byte]
           /\ DecodeDp102(new) = [DecodeDp102(old) EXCEPT ![f] = v]
<1> DEFINE i == Place102(f) + 1
<1>0. PICK b \in Byte :
        /\ new = [old EXCEPT ![i] = b] /\ Read102(f, b) = v
        /\ \A g \in Settings102 \ {f} :
             Place102(g) = Place102(f) => Read102(g, b) = Read102(g, old[i])
  BY Zenon DEF OneByte
<1>1. i \in 1..29
  BY PlaceInside
<1>2. new \in [1..29 -> Byte] /\ \A j \in 1..29 : new[j] = IF j = i THEN b ELSE old[j]
  BY <1>0, <1>1
<1>3. ASSUME NEW g \in Settings102
      PROVE  Read102(g, new[Place102(g) + 1]) = IF g = f THEN v ELSE Read102(g, old[Place102(g) + 1])
  <2>1. Place102(g) \in Int /\ Place102(f) \in Int /\ Place102(g) + 1 \in 1..29
    BY PlaceInside
  <2>2. CASE g = f
    BY <1>0, <1>2, <2>1, <2>2
  <2>3. CASE g # f /\ Place102(g) = Place102(f)
    BY <1>0, <1>2, <2>1, <2>3
  <2>4. CASE g # f /\ Place102(g) # Place102(f)
    BY <1>2, <2>1, <2>4
  <2> QED
    BY <2>2, <2>3, <2>4
<1>4. /\ DecodeDp102(new) = [g \in Settings102 |-> Read102(g, new[Place102(g) + 1])]
      /\ DecodeDp102(old) = [g \in Settings102 |-> Read102(g, old[Place102(g) + 1])]
  BY <1>2, DecodeFull102
<1> QED
  BY <1>2, <1>3, <1>4

\* The numbers that the helper writes as they are.
PlainNumbers == {"sensitivity", "range", "delay", "color"}

\* The mutator each DP102 setting has.
LEMMA MutateKinds ==
    ASSUME NEW x, NEW f, NEW v
    PROVE  /\ f \in DOMAIN Toggles102 =>
                Mutate102(x, f, v) = Dp102BytesWithToggle(x, Toggles102[f], v)
           /\ f \in DOMAIN Bits102 =>
                Mutate102(x, f, v) = Dp102BytesWithBit(x, Bits102[f][1], Bits102[f][2], v)
           /\ f \in PlainNumbers => Mutate102(x, f, v) = Dp102BytesWithByte(x, NumberByte102[f], v)
           /\ f = "smooth" => Mutate102(x, f, v) = Dp102BytesWithByte(x, 14, Clamp(v, 2, 7))
           /\ f = "timezone" => Mutate102(x, f, v) = Dp102BytesWithByte(x, 15, Clamp(v, -12, 12))
           /\ f = "oscillation" => Mutate102(x, f, v) = Dp102BytesWithOscillation(x, v)
<1>1. DOMAIN NumberByte102 = PlainNumbers \cup {"smooth", "timezone", "oscillation"}
  BY DEF NumberByte102, PlainNumbers
<1>2. /\ f \in PlainNumbers => f \notin {"smooth", "timezone", "oscillation"}
      /\ f = "smooth" => f # "timezone" /\ f # "oscillation"
      /\ f = "timezone" => f # "oscillation"
  BY DEF PlainNumbers
<1>3. /\ f \in DOMAIN Toggles102 => f \notin DOMAIN Bits102 /\ f \notin DOMAIN NumberByte102
      /\ f \in DOMAIN Bits102 => f \notin DOMAIN Toggles102 /\ f \notin DOMAIN NumberByte102
      /\ f \in DOMAIN NumberByte102 => f \notin DOMAIN Toggles102 /\ f \notin DOMAIN Bits102
  BY Kinds
<1>4. ASSUME f \in DOMAIN Toggles102
      PROVE  Mutate102(x, f, v) = Dp102BytesWithToggle(x, Toggles102[f], v)
  BY <1>1, <1>2, <1>3, <1>4, Zenon DEF Mutate102, PlainNumbers
<1>5. ASSUME f \in DOMAIN Bits102
      PROVE  Mutate102(x, f, v) = Dp102BytesWithBit(x, Bits102[f][1], Bits102[f][2], v)
  BY <1>1, <1>2, <1>3, <1>5, Zenon DEF Mutate102, PlainNumbers
<1>6. ASSUME f \in PlainNumbers
      PROVE  Mutate102(x, f, v) = Dp102BytesWithByte(x, NumberByte102[f], v)
  BY <1>1, <1>2, <1>3, <1>6, Zenon DEF Mutate102, PlainNumbers
<1>7. ASSUME f = "smooth"
      PROVE  Mutate102(x, f, v) = Dp102BytesWithByte(x, 14, Clamp(v, 2, 7))
  BY <1>1, <1>2, <1>3, <1>7, Zenon DEF Mutate102, PlainNumbers
<1>8. ASSUME f = "timezone"
      PROVE  Mutate102(x, f, v) = Dp102BytesWithByte(x, 15, Clamp(v, -12, 12))
  BY <1>1, <1>2, <1>3, <1>8, Zenon DEF Mutate102, PlainNumbers
<1>9. ASSUME f = "oscillation"
      PROVE  Mutate102(x, f, v) = Dp102BytesWithOscillation(x, v)
  BY <1>1, <1>2, <1>3, <1>9, Zenon DEF Mutate102, PlainNumbers
<1> QED
  BY <1>4, <1>5, <1>6, <1>7, <1>8, <1>9

\* A switch is written into a byte of its own.
LEMMA MutateToggle ==
    ASSUME NEW x, NEW f \in DOMAIN Toggles102, NEW v \in BOOLEAN
    PROVE  OneByte(Normalize("102", x), f, v, Mutate102(x, f, v))
<1>1. PICK b \in 0..1 : b = Flag(v) /\ (b = 1) = v
  BY FlagLaw
<1>2. b \in Byte /\ b % 256 = b /\ (b # 0) = (b = 1)
  BY DEF Byte
<1>3. Place102(f) = Toggles102[f]
  BY Kinds DEF Place102
<1>4. Mutate102(x, f, v) = [Normalize("102", x) EXCEPT ![Place102(f) + 1] = b]
  BY <1>1, <1>2, <1>3, MutateKinds DEF Dp102BytesWithToggle, Dp102BytesWithByte
<1>5. Read102(f, b) = v
  BY <1>1, <1>2, ReadToggle, Zenon
<1> QED
  BY <1>2, <1>4, <1>5, OwnByte, Zenon DEF OneByte

\* A number is written into a byte of its own.
LEMMA MutateNumber ==
    ASSUME NEW x, NEW f \in DOMAIN NumberByte102 \ {"oscillation"}, NEW v \in Numbers102[f]
    PROVE  OneByte(Normalize("102", x), f, v, Mutate102(x, f, v))
<1>1. Place102(f) = NumberByte102[f]
  BY Kinds DEF Place102
<1>2. f \in PlainNumbers \cup {"smooth", "timezone"}
  BY DEF PlainNumbers, NumberByte102
<1>3. v \in Int
  BY DEF Numbers102, NumberByte102
<1>4. /\ f = "smooth" => NumberByte102[f] = 14 /\ Clamp(v, 2, 7) = v
      /\ f = "timezone" => NumberByte102[f] = 15 /\ Clamp(v, -12, 12) = v
  BY DEF NumberByte102, Numbers102, Clamp
<1>5. Mutate102(x, f, v) = Dp102BytesWithByte(x, NumberByte102[f], v)
  <2>1. CASE f \in PlainNumbers
    BY <2>1, MutateKinds
  <2>2. CASE f = "smooth"
    BY <1>4, <2>2, MutateKinds
  <2>3. CASE f = "timezone"
    BY <1>4, <2>3, MutateKinds
  <2> QED
    BY <1>2, <2>1, <2>2, <2>3
<1>6. Mutate102(x, f, v) = [Normalize("102", x) EXCEPT ![Place102(f) + 1] = v % 256]
  BY <1>1, <1>5 DEF Dp102BytesWithByte
<1>7. v % 256 \in Byte /\ Number102(f, v % 256) = v
  BY NumberWritten
<1>8. Read102(f, v % 256) = v
  BY <1>7, ReadNumber
<1> QED
  BY <1>6, <1>7, <1>8, OwnByte, Zenon DEF OneByte

\* A bit is written and the other settings of its byte are kept.
LEMMA MutateBit ==
    ASSUME NEW x \in Seq(Byte), NEW f \in DOMAIN Bits102, NEW v \in BOOLEAN
    PROVE  OneByte(Normalize("102", x), f, v, Mutate102(x, f, v))
<1>1. PICK p \in {18, 22, 26, 27}, m \in Masks :
        p = Place102(f) /\ p = Bits102[f][1] /\ m = Bits102[f][2]
  BY Places
<1>2. PICK c \in Byte : c = Normalize("102", x)[p + 1]
  <2>1. p \in 0..28
    BY <1>1
  <2> QED
    BY <2>1, Normal102
<1>3. PICK b \in Byte : /\ b = SetBit(c, m, v) /\ Bit(b, m) = v
                        /\ \A n \in Masks \ {m} : Bit(b, n) = Bit(c, n)
  BY SetBitLaw
<1>4. Mutate102(x, f, v) = [Normalize("102", x) EXCEPT ![p + 1] = b]
  BY <1>1, <1>2, <1>3, MutateKinds DEF Dp102BytesWithBit
<1>5. Read102(f, b) = v
  BY <1>1, <1>3, ReadBit
<1>6. ASSUME NEW g \in Settings102 \ {f}, Place102(g) = p
      PROVE  Read102(g, b) = Read102(g, c)
  <2>1. CASE g \in DOMAIN Bits102
    <3>1. Bits102[g][1] = p /\ Bits102[g][2] \in Masks /\ Bits102[g] # Bits102[f]
      BY <1>1, <1>6, <2>1, Places
    <3>2. /\ Bits102[g] = << Bits102[g][1], Bits102[g][2] >>
          /\ Bits102[f] = << Bits102[f][1], Bits102[f][2] >>
      BY <2>1 DEF Bits102
    <3>3. Bits102[g][2] \in Masks \ {m}
      BY <1>1, <3>1, <3>2
    <3> QED
      BY <1>3, <2>1, <3>3, ReadBit
  <2>2. CASE g \in DOMAIN NumberByte102
    <3>1. p \in {10, 11, 13, 14, 15, 17, 26}
      BY <1>6, <2>2, Places
    <3>2. g = "oscillation" /\ f = "reshuffle"
      BY <1>1, <1>6, <2>2, <3>1, Places
    <3>3. m = 128
      BY <1>1, <3>2 DEF Bits102
    <3>4. b % 128 = c % 128
      BY <1>3, <3>3 DEF SetBit, Byte, Flag, Bit
    <3>5. Number102(g, b) = Number102(g, c)
      BY <3>2, <3>4 DEF Number102
    <3> QED
      BY <2>2, <3>5, ReadNumber
  <2>3. CASE g \in DOMAIN Toggles102
    BY <1>1, <1>6, <2>3, OwnByte DEF Settings102
  <2> QED
    BY <2>1, <2>2, <2>3 DEF Settings102
<1>7. PICK old, new : old = Normalize("102", x) /\ new = Mutate102(x, f, v)
  OBVIOUS
<1>8. new = [old EXCEPT ![Place102(f) + 1] = b] /\ c = old[Place102(f) + 1]
  BY <1>1, <1>2, <1>4, <1>7, Zenon
<1>9. \A g \in Settings102 \ {f} :
        Place102(g) = Place102(f) => Read102(g, b) = Read102(g, old[Place102(f) + 1])
  BY <1>1, <1>6, <1>8, Zenon
<1>10. OneByte(old, f, v, new)
  BY <1>5, <1>8, <1>9, Zenon DEF OneByte
<1> QED
  BY <1>7, <1>10, Zenon

\* Oscillation is written and the switch in the top bit is kept.
LEMMA MutateOscillation ==
    ASSUME NEW x \in Seq(Byte), NEW v \in 0..3
    PROVE  OneByte(Normalize("102", x), "oscillation", v, Mutate102(x, "oscillation", v))
<1>1. /\ "oscillation" \in DOMAIN NumberByte102 /\ "reshuffle" \in DOMAIN Bits102
      /\ Bits102["reshuffle"][2] = 128
  BY DEF NumberByte102, Bits102
<1>2. Place102("oscillation") = 26
  BY <1>1, Places
<1>3. PICK c \in Byte : c = Normalize("102", x)[27]
  <2>1. Normalize("102", x)[26 + 1] \in Byte
    BY Normal102
  <2> QED
    BY <2>1
<1>4. PICK b \in Byte : b = 128 * (c \div 128) + v
  BY DEF Byte
<1>5. v % 128 = v /\ b % 128 = v /\ Bit(b, 128) = Bit(c, 128)
  BY <1>4 DEF Byte, Bit
<1>6. Mutate102(x, "oscillation", v) = [Normalize("102", x) EXCEPT ![Place102("oscillation") + 1] = b]
  BY <1>2, <1>3, <1>4, <1>5, MutateKinds DEF Dp102BytesWithOscillation
<1>7. Read102("oscillation", b) = v
  BY <1>1, <1>5, ReadNumber DEF Number102
<1>8. ASSUME NEW g \in Settings102 \ {"oscillation"}, Place102(g) = 26
      PROVE  Read102(g, b) = Read102(g, c)
  <2>1. g \in DOMAIN Bits102
    BY <1>8, Places DEF Settings102
  <2>2. g = "reshuffle"
    BY <1>8, <2>1, Places
  <2> QED
    BY <1>1, <1>5, <2>2, ReadBit
<1>9. Normalize("102", x)[Place102("oscillation") + 1] = c
  BY <1>2, <1>3
<1> QED
  BY <1>2, <1>6, <1>7, <1>8, <1>9, Zenon DEF OneByte

\* Changing one setting of DP102 in place changes no other (dps.py, dp102_bytes_with_*).
LEMMA MutateLaw102 ==
    ASSUME NEW x \in Seq(Byte), NEW f \in Settings102, NEW v \in Values102[f]
    PROVE  /\ Mutate102(x, f, v) \in [1..29 -> Byte]
           /\ DecodeDp102(Mutate102(x, f, v)) = [DecodeDp102(Normalize("102", x)) EXCEPT ![f] = v]
<1>1. Normalize("102", x) \in [1..29 -> Byte]
  BY Normal102
<1>2. f \in DOMAIN NumberByte102 => v \in Numbers102[f]
  BY Kinds DEF Values102
<1>3. f \in DOMAIN Toggles102 \cup DOMAIN Bits102 => v \in BOOLEAN
  BY Kinds DEF Values102
<1>4. OneByte(Normalize("102", x), f, v, Mutate102(x, f, v))
  <2>1. CASE f = "oscillation"
    <3>1. f \in DOMAIN NumberByte102 /\ Numbers102[f] = 0..3
      BY <2>1 DEF NumberByte102, Numbers102
    <3> QED
      BY <1>2, <2>1, <3>1, MutateOscillation
  <2>2. CASE f \in DOMAIN Toggles102
    BY <1>3, <2>2, MutateToggle
  <2>3. CASE f \in DOMAIN Bits102
    BY <1>3, <2>3, MutateBit
  <2>4. CASE f \in DOMAIN NumberByte102 \ {"oscillation"}
    BY <1>2, <2>4, MutateNumber
  <2> QED
    BY <2>1, <2>2, <2>3, <2>4 DEF Settings102
<1> QED
  BY <1>1, <1>4, ReplaceLaw102

-----------------------------------------------------------------------------
(* DP103, the timers, and DP104, the dustbin. *)

\* Ten bytes are a payload of DP103.
LEMMA Tuple10 ==
    ASSUME NEW a \in Byte, NEW b \in Byte, NEW c \in Byte, NEW d \in Byte, NEW e \in Byte,
           NEW f \in Byte, NEW g \in Byte, NEW h \in Byte, NEW i \in Byte, NEW j \in Byte
    PROVE  << a, b, c, d, e, f, g, h, i, j >> \in [1..10 -> Byte]
  OBVIOUS

\* A time on the clock is written as it is.
LEMMA TimerLaw ==
    ASSUME NEW t \in Timers
    PROVE /\ EncodeTimer(t) = << Flag(t[1]), t[2], t[3], t[4] >>
          /\ Flag(t[1]) \in Byte /\ t[2] \in Byte /\ t[3] \in Byte /\ t[4] \in Byte
          /\ (Flag(t[1]) # 0) = t[1]
          /\ t = << t[1], t[2], t[3], t[4] >>
<1>1. /\ t[1] \in BOOLEAN /\ t[2] \in Byte /\ t[3] \in 0..23 /\ t[4] \in 0..59
      /\ t = << t[1], t[2], t[3], t[4] >>
  BY DEF Timers
<1>2. Flag(t[1]) \in 0..1 /\ (Flag(t[1]) = 1) = t[1]
  BY <1>1, FlagLaw
<1>3. (Flag(t[1]) # 0) = (Flag(t[1]) = 1)
  BY <1>2
<1>4. t[2] % 256 = t[2] /\ Clamp(t[3], 0, 23) = t[3] /\ Clamp(t[4], 0, 59) = t[4]
  BY <1>1 DEF Byte, Clamp
<1>5. EncodeTimer(t) = << Flag(t[1]), t[2], t[3], t[4] >>
  BY <1>4 DEF EncodeTimer
<1>6. Flag(t[1]) \in Byte /\ t[2] \in Byte /\ t[3] \in Byte /\ t[4] \in Byte
  BY <1>1, <1>2 DEF Byte
<1>7. (Flag(t[1]) # 0) = t[1]
  BY <1>2, <1>3, Zenon
<1> QED
  BY <1>1, <1>5, <1>6, <1>7, Zenon

\* The switches of DP104 have different masks.
LEMMA Bits104Law ==
    /\ DOMAIN Bits104 = {"bin_full_detection", "allow_overfill", "keep_upright", "dump_override",
                          "block_on_full"}
    /\ \A f \in DOMAIN Bits104 :
         Bits104[f] \in Masks /\ \A g \in DOMAIN Bits104 : Bits104[f] = Bits104[g] => f = g
    /\ "calibration" \notin DOMAIN Bits104 /\ "cycle_count" \notin DOMAIN Bits104
  BY DEF Bits104, Masks

\* What a DP104 setting of each kind is.
LEMMA Read104Kinds ==
    ASSUME NEW x
    PROVE /\ \A f \in DOMAIN Bits104 : Read104(f, x) = Bit(x[1], Bits104[f])
          /\ Read104("calibration", x) = Clamp(x[2], 0, 3)
          /\ Read104("cycle_count", x) = ValidOr(x[3], 1, 10, 5)
<1>1. "calibration" # "cycle_count"
  OBVIOUS
<1>2. \A f \in DOMAIN Bits104 : f # "calibration" /\ f # "cycle_count"
  BY Bits104Law
<1>3. \A f \in DOMAIN Bits104 : Read104(f, x) = Bit(x[1], Bits104[f])
  BY <1>1, <1>2, Zenon DEF Read104
<1>4. Read104("calibration", x) = Clamp(x[2], 0, 3)
  BY <1>1, Bits104Law, Zenon DEF Read104
<1>5. Read104("cycle_count", x) = ValidOr(x[3], 1, 10, 5)
  BY <1>1, Bits104Law, Zenon DEF Read104
<1> QED
  BY <1>3, <1>4, <1>5

\* A normalized DP104 has 3 bytes.
LEMMA Normal104 ==
    ASSUME NEW x \in Seq(Byte)
    PROVE  /\ Normalize("104", x) \in [1..3 -> Byte]
           /\ x \in [1..3 -> Byte] => Normalize("104", x) = x
<1>1. Len(x) \in Nat /\ \A i \in 1..3 : i <= Len(x) => x[i] \in Byte
  BY LenProperties
<1>2. \A i \in 1..3 : DP104_DEFAULT[i] \in Byte
  BY DEF DP104_DEFAULT, Byte
<1>3. NormalizeDp104(x) \in [1..3 -> Byte]
  BY <1>1, <1>2 DEF NormalizeDp104
<1>4. ASSUME x \in [1..3 -> Byte] PROVE NormalizeDp104(x) = x
  BY <1>4, FullIsSeq DEF NormalizeDp104
<1> QED
  BY <1>3, <1>4 DEF Normalize

\* Decoding DP104 is reading every setting.
LEMMA Decode104Is ==
    ASSUME NEW x \in Seq(Byte)
    PROVE  DecodeDp104(x) = [f \in Settings104 |-> Read104(f, Normalize("104", x))]
  BY Zenon DEF DecodeDp104, Read104

\* The elements of a payload of ten bytes.
LEMMA Tuple10At ==
    ASSUME NEW a, NEW b, NEW c, NEW d, NEW e, NEW f, NEW g, NEW h, NEW i, NEW j,
           NEW x, x = << a, b, c, d, e, f, g, h, i, j >>
    PROVE  x[1] = a /\ x[2] = b /\ x[3] = c /\ x[4] = d /\ x[5] = e /\ x[6] = f /\ x[7] = g
             /\ x[8] = h /\ x[9] = i /\ x[10] = j
  OBVIOUS

\* Decoding a DP103 of full length.
LEMMA Decode103Is ==
    ASSUME NEW x \in [1..10 -> Byte]
    PROVE  DecodeDp103(x) =
             [power_on |-> << x[1] # 0, x[2], x[3], x[4] >>,
              power_off |-> << x[5] # 0, x[6], x[7], x[8] >>,
              hibernate_start |-> x[9] # 0, hibernate_duration |-> x[10]]
<1>1. Normalize("103", x) = x
  BY FullIsSeq, NormalizedBytes DEF Normalize
<1> QED
  BY <1>1, Zenon DEF DecodeDp103

\* The settings of DP103 and their values.
LEMMA ValidParts103 ==
    ASSUME NEW s, Valid("103", s)
    PROVE  /\ DOMAIN s = {"power_on", "power_off", "hibernate_start", "hibernate_duration"}
           /\ s.power_on \in Timers /\ s.power_off \in Timers
           /\ s.hibernate_start \in BOOLEAN /\ s.hibernate_duration \in Byte
<1>1. SettingValues("103") = Values103
  BY DEF SettingValues
<1>2. /\ DOMAIN Values103 = {"power_on", "power_off", "hibernate_start", "hibernate_duration"}
      /\ Values103.power_on = Timers /\ Values103.power_off = Timers
      /\ Values103.hibernate_start = BOOLEAN /\ Values103.hibernate_duration = Byte
  BY DEF Values103
<1> QED
  BY <1>1, <1>2 DEF Valid

\* encode_dp103 writes timers that decode_dp103 reads back (dps.py).
LEMMA EncodeLaw103 ==
    ASSUME NEW s, Valid("103", s)
    PROVE  /\ EncodeDp103(s) \in [1..10 -> Byte]
           /\ DecodeDp103(EncodeDp103(s)) = [f \in DOMAIN s |-> s[f]]
<1> DEFINE on  == s.power_on
           off == s.power_off
           out == EncodeDp103(s)
<1>1. on \in Timers /\ off \in Timers /\ s.hibernate_start \in BOOLEAN /\ s.hibernate_duration \in Byte
  BY ValidParts103
<1>2. /\ EncodeTimer(on) = << Flag(on[1]), on[2], on[3], on[4] >>
      /\ EncodeTimer(off) = << Flag(off[1]), off[2], off[3], off[4] >>
  BY <1>1, TimerLaw
<1>3. PICK hs \in 0..1, hd \in Byte :
        /\ hs = Flag(s.hibernate_start) /\ (hs = 1) = s.hibernate_start
        /\ hd = s.hibernate_duration
  BY <1>1, FlagLaw
<1>4. Clamp(hd, 0, 255) = hd /\ hs \in Byte /\ (hs # 0) = (hs = 1)
  BY DEF Clamp, Byte
<1>5. out = << Flag(on[1]), on[2], on[3], on[4], Flag(off[1]), off[2], off[3], off[4], hs, hd >>
  BY <1>2, <1>3, <1>4 DEF EncodeDp103
<1> HIDE DEF out
<1>6. out \in [1..10 -> Byte]
  BY <1>1, <1>4, <1>5, TimerLaw, Tuple10
<1>7. /\ out[1] = Flag(on[1]) /\ out[2] = on[2] /\ out[3] = on[3] /\ out[4] = on[4]
      /\ out[5] = Flag(off[1]) /\ out[6] = off[2] /\ out[7] = off[3] /\ out[8] = off[4]
      /\ out[9] = hs /\ out[10] = hd
  BY <1>5, Tuple10At
<1>8. << out[1] # 0, out[2], out[3], out[4] >> = on
  BY <1>1, <1>7, TimerLaw, Zenon
<1>9. << out[5] # 0, out[6], out[7], out[8] >> = off
  BY <1>1, <1>7, TimerLaw, Zenon
<1>10. (out[9] # 0) = s.hibernate_start
  BY <1>3, <1>4, <1>7, Zenon
<1>11. DecodeDp103(out) = [power_on |-> on, power_off |-> off, hibernate_start |-> s.hibernate_start,
                           hibernate_duration |-> s.hibernate_duration]
  BY <1>3, <1>6, <1>7, <1>8, <1>9, <1>10, Decode103Is, Zenon
<1>12. DOMAIN s = {"power_on", "power_off", "hibernate_start", "hibernate_duration"}
  BY ValidParts103
<1>13. [power_on |-> on, power_off |-> off, hibernate_start |-> s.hibernate_start,
                           hibernate_duration |-> s.hibernate_duration] = [f \in DOMAIN s |-> s[f]]
  BY <1>12
<1> QED
  BY <1>6, <1>11, <1>13 DEF out

\* The settings of DP104 and their values.
LEMMA ValidParts104 ==
    ASSUME NEW s, Valid("104", s)
    PROVE  /\ DOMAIN s = Settings104
           /\ \A f \in DOMAIN Bits104 : s[f] \in BOOLEAN
           /\ s.calibration \in 0..3 /\ s.cycle_count \in 1..10
<1>1. DOMAIN s = Settings104 /\ \A f \in Settings104 : s[f] \in Values104[f]
  BY DEF Valid, SettingValues, Values104
<1>2. \A f \in DOMAIN Bits104 : f \in Settings104 /\ f # "calibration" /\ f # "cycle_count"
  BY Bits104Law DEF Settings104
<1>3. \A f \in DOMAIN Bits104 : Values104[f] = BOOLEAN
  BY <1>2, Zenon DEF Values104
<1>4. Values104["calibration"] = 0..3 /\ Values104["cycle_count"] = 1..10
  BY Bits104Law DEF Values104, Settings104
<1> QED
  BY <1>1, <1>2, <1>3, <1>4 DEF Settings104

\* Writing one bit leaves another.
LEMMA SetBitOther ==
    ASSUME NEW b \in Byte, NEW m \in Masks, NEW on \in BOOLEAN, NEW n \in Masks, n # m
    PROVE  Bit(SetBit(b, m, on), n) = Bit(b, n)
  BY SetBitLaw

\* The first byte of DP104: the five switches written into it one by one.
LEMMA SwitchLaw ==
    ASSUME NEW b \in Byte, NEW f \in BOOLEAN, NEW a \in BOOLEAN, NEW k \in BOOLEAN,
           NEW d \in BOOLEAN, NEW o \in BOOLEAN,
           NEW new, new = SetBit(SetBit(SetBit(SetBit(SetBit(b, 1, f), 2, a), 4, k), 8, d), 16, o)
    PROVE  /\ new \in Byte
           /\ Bit(new, 1) = f /\ Bit(new, 2) = a /\ Bit(new, 4) = k /\ Bit(new, 8) = d
           /\ Bit(new, 16) = o
<1> DEFINE b1 == SetBit(b, 1, f)
           b2 == SetBit(b1, 2, a)
           b3 == SetBit(b2, 4, k)
           b4 == SetBit(b3, 8, d)
<1>0. /\ 1 \in Masks /\ 2 \in Masks /\ 4 \in Masks /\ 8 \in Masks /\ 16 \in Masks
      /\ 1 # 2 /\ 1 # 4 /\ 1 # 8 /\ 1 # 16 /\ 2 # 4 /\ 2 # 8 /\ 2 # 16 /\ 4 # 8 /\ 4 # 16 /\ 8 # 16
  BY DEF Masks
<1>1. b1 \in Byte /\ Bit(b1, 1) = f
  BY <1>0, SetBitLaw
<1> HIDE DEF b1
<1>2. b2 \in Byte /\ Bit(b2, 2) = a
  BY <1>0, <1>1, SetBitLaw
<1>3. Bit(b2, 1) = Bit(b1, 1)
  BY <1>0, <1>1, SetBitOther
<1> HIDE DEF b2
<1>4. b3 \in Byte /\ Bit(b3, 4) = k
  BY <1>0, <1>2, SetBitLaw
<1>5. Bit(b3, 1) = Bit(b2, 1) /\ Bit(b3, 2) = Bit(b2, 2)
  BY <1>0, <1>2, SetBitOther
<1> HIDE DEF b3
<1>6. b4 \in Byte /\ Bit(b4, 8) = d
  BY <1>0, <1>4, SetBitLaw
<1>7. Bit(b4, 1) = Bit(b3, 1) /\ Bit(b4, 2) = Bit(b3, 2) /\ Bit(b4, 4) = Bit(b3, 4)
  BY <1>0, <1>4, SetBitOther
<1>8. new = SetBit(b4, 16, o)
  BY DEF b1, b2, b3
<1> HIDE DEF b4
<1>9. new \in Byte /\ Bit(new, 16) = o
  BY <1>0, <1>6, <1>8, SetBitLaw
<1>10. /\ Bit(new, 1) = Bit(b4, 1) /\ Bit(new, 2) = Bit(b4, 2) /\ Bit(new, 4) = Bit(b4, 4)
       /\ Bit(new, 8) = Bit(b4, 8)
  BY <1>0, <1>6, <1>8, SetBitOther
<1> QED
  BY <1>1, <1>2, <1>3, <1>4, <1>5, <1>6, <1>7, <1>9, <1>10, Zenon

\* Decoding a DP104 of full length.
LEMMA Decode104Full ==
    ASSUME NEW x \in [1..3 -> Byte]
    PROVE  DecodeDp104(x) = [f \in Settings104 |-> Read104(f, x)]
<1>1. x \in Seq(Byte)
  BY FullIsSeq
<1>2. Normalize("104", x) = x
  BY <1>1, Normal104
<1> QED
  BY <1>1, <1>2, Decode104Is

\* encode_dp104 writes settings that decode_dp104 reads back (dps.py).
LEMMA EncodeLaw104 ==
    ASSUME NEW x \in Seq(Byte), NEW s, Valid("104", s)
    PROVE  /\ EncodeDp104(s, x) \in [1..3 -> Byte]
           /\ DecodeDp104(EncodeDp104(s, x)) = [f \in DOMAIN s |-> s[f]]
<1>1. PICK old \in [1..3 -> Byte] : old = Normalize("104", x)
  BY Normal104
<1>2. /\ {"bin_full_detection", "allow_overfill", "keep_upright", "dump_override",
          "block_on_full"} = DOMAIN Bits104
      /\ Bits104.bin_full_detection = 1 /\ Bits104.allow_overfill = 2 /\ Bits104.keep_upright = 4
      /\ Bits104.dump_override = 8 /\ Bits104.block_on_full = 16
  BY DEF Bits104
<1>3. /\ DOMAIN s = Settings104 /\ s.calibration \in 0..3 /\ s.cycle_count \in 1..10
      /\ \A f \in DOMAIN Bits104 : s[f] \in BOOLEAN
  BY ValidParts104
<1>4. PICK b : b = SetBit(SetBit(SetBit(SetBit(SetBit(old[1], 1, s.bin_full_detection), 2, s.allow_overfill),
                       4, s.keep_upright), 8, s.dump_override), 16, s.block_on_full)
  OBVIOUS
<1>5. /\ b \in Byte /\ Bit(b, 1) = s.bin_full_detection /\ Bit(b, 2) = s.allow_overfill
      /\ Bit(b, 4) = s.keep_upright /\ Bit(b, 8) = s.dump_override /\ Bit(b, 16) = s.block_on_full
  <2>1. /\ old[1] \in Byte /\ s.bin_full_detection \in BOOLEAN /\ s.allow_overfill \in BOOLEAN
        /\ s.keep_upright \in BOOLEAN /\ s.dump_override \in BOOLEAN /\ s.block_on_full \in BOOLEAN
    BY <1>2, <1>3
  <2> QED
    BY <1>4, <2>1, SwitchLaw
<1>6. /\ DecodeDp104(old) = [f \in Settings104 |-> Read104(f, old)]
      /\ {"calibration", "cycle_count"} \subseteq Settings104
  BY Decode104Full DEF Settings104
<1>7. /\ DecodeDp104(old).calibration = Clamp(old[2], 0, 3)
      /\ DecodeDp104(old).cycle_count = ValidOr(old[3], 1, 10, 5)
  BY <1>6, Read104Kinds
<1>8. PICK c \in Byte :
        /\ c = IF s.calibration = Clamp(old[2], 0, 3) THEN old[2] ELSE Clamp(s.calibration, 0, 3)
        /\ Clamp(c, 0, 3) = s.calibration
  <2>1. PICK o \in Byte, k \in 0..3 : o = old[2] /\ k = s.calibration
    BY <1>3
  <2>2. \E c \in Byte : c = (IF k = Clamp(o, 0, 3) THEN o ELSE Clamp(k, 0, 3)) /\ Clamp(c, 0, 3) = k
    <3>1. CASE k = Clamp(o, 0, 3)
      BY <3>1, Zenon
    <3>2. CASE k # Clamp(o, 0, 3)
      <4>1. k \in Byte /\ Clamp(k, 0, 3) = k
        BY DEF Clamp, Byte
      <4> QED
        BY <3>2, <4>1, Zenon
    <3> QED
      BY <3>1, <3>2
  <2> QED
    BY <2>1, <2>2
<1>14. PICK n \in Byte :
        /\ n = IF s.cycle_count = ValidOr(old[3], 1, 10, 5) THEN old[3] ELSE Clamp(s.cycle_count, 1, 10)
        /\ ValidOr(n, 1, 10, 5) = s.cycle_count
  <2>1. PICK o \in Byte, k \in 1..10 : o = old[3] /\ k = s.cycle_count
    BY <1>3
  <2>2. \E m \in Byte : /\ m = IF k = ValidOr(o, 1, 10, 5) THEN o ELSE Clamp(k, 1, 10)
                       /\ ValidOr(m, 1, 10, 5) = k
    <3>1. CASE k = ValidOr(o, 1, 10, 5)
      BY <3>1, Zenon
    <3>2. CASE k # ValidOr(o, 1, 10, 5)
      <4>1. k \in Byte /\ Clamp(k, 1, 10) = k /\ ValidOr(k, 1, 10, 5) = k
        BY DEF Clamp, ValidOr, Byte
      <4> QED
        BY <3>2, <4>1, Zenon
    <3> QED
      BY <3>1, <3>2
  <2> QED
    BY <2>1, <2>2
<1>9. EncodeDp104(s, x) = << b, c, n >>
  BY <1>1, <1>4, <1>7, <1>8, <1>14, Zenon DEF EncodeDp104
<1>10. PICK out : out = << b, c, n >>
  OBVIOUS
<1>11. out \in [1..3 -> Byte] /\ out[1] = b /\ out[2] = c /\ out[3] = n
  BY <1>5, <1>8, <1>10, <1>14
<1>12. DecodeDp104(out) = [f \in Settings104 |-> Read104(f, out)]
  BY <1>11, Decode104Full
<1>13. ASSUME NEW f \in Settings104 PROVE Read104(f, out) = s[f]
  <2>1. CASE f \in DOMAIN Bits104
    <3>1. Bit(b, Bits104[f]) = s[f]
      BY <1>2, <1>5, <2>1
    <3> QED
      BY <1>11, <2>1, <3>1, Read104Kinds
  <2>2. CASE f \in {"calibration", "cycle_count"}
    BY <1>8, <1>11, <1>14, <2>2, Read104Kinds
  <2> QED
    BY <2>1, <2>2 DEF Settings104
<1> QED
  BY <1>3, <1>9, <1>10, <1>11, <1>12, <1>13

\* decode_dp104 reads every setting as one of its values.
LEMMA ValidDecode104 ==
    ASSUME NEW x \in Seq(Byte)
    PROVE  Valid("104", DecodeDp104(x))
<1>1. PICK old \in [1..3 -> Byte] : old = Normalize("104", x)
  BY Normal104
<1>2. DecodeDp104(x) = [f \in Settings104 |-> Read104(f, old)]
  BY <1>1, Decode104Is
<1>3. SettingValues("104") = Values104 /\ DOMAIN Values104 = Settings104
  BY DEF SettingValues, Values104
<1>4. ASSUME NEW f \in Settings104 PROVE Read104(f, old) \in Values104[f]
  <2>1. CASE f \in DOMAIN Bits104
    <3>1. Values104[f] = BOOLEAN
      BY <2>1, Bits104Law, Zenon DEF Values104
    <3> QED
      BY <2>1, <3>1, Read104Kinds DEF Bit
  <2>2. CASE f = "calibration"
    <3>1. Values104[f] = 0..3
      BY <2>2, Bits104Law DEF Values104, Settings104
    <3>2. Clamp(old[2], 0, 3) \in 0..3
      <4>1. PICK o \in Byte : o = old[2]
        OBVIOUS
      <4> QED
        BY <4>1 DEF Clamp, Byte
    <3> QED
      BY <2>2, <3>1, <3>2, Read104Kinds
  <2>3. CASE f = "cycle_count"
    <3>1. Values104[f] = 1..10
      BY <2>3, Bits104Law DEF Values104, Settings104
    <3>2. ValidOr(old[3], 1, 10, 5) \in 1..10
      BY DEF ValidOr, Byte
    <3> QED
      BY <2>3, <3>1, <3>2, Read104Kinds
  <2> QED
    BY <2>1, <2>2, <2>3 DEF Settings104
<1> QED
  BY <1>2, <1>3, <1>4 DEF Valid

\* The mutator each DP104 setting has.
LEMMA MutateKinds104 ==
    ASSUME NEW x, NEW f, NEW v
    PROVE  /\ f \in DOMAIN Bits104 =>
                Mutate104(x, f, v) =
                  [Normalize("104", x) EXCEPT ![1] = SetBit(Normalize("104", x)[1], Bits104[f], v)]
           /\ f = "calibration" =>
                Mutate104(x, f, v) = [Normalize("104", x) EXCEPT ![2] = Clamp(v, 0, 3)]
           /\ f = "cycle_count" =>
                Mutate104(x, f, v) = [Normalize("104", x) EXCEPT ![3] = Clamp(v, 1, 10)]
<1>1. /\ f \in DOMAIN Bits104 => f # "calibration" /\ f # "cycle_count"
      /\ f = "calibration" => f # "cycle_count"
  BY Bits104Law
<1>2. ASSUME f \in DOMAIN Bits104
      PROVE  Mutate104(x, f, v) =
                  [Normalize("104", x) EXCEPT ![1] = SetBit(Normalize("104", x)[1], Bits104[f], v)]
  BY <1>1, <1>2, Zenon DEF Mutate104
<1>3. ASSUME f = "calibration"
      PROVE  Mutate104(x, f, v) = [Normalize("104", x) EXCEPT ![2] = Clamp(v, 0, 3)]
  BY <1>1, <1>3, Zenon DEF Mutate104
<1>4. ASSUME f = "cycle_count"
      PROVE  Mutate104(x, f, v) = [Normalize("104", x) EXCEPT ![3] = Clamp(v, 1, 10)]
  BY <1>1, <1>4, Zenon DEF Mutate104
<1> QED
  BY <1>2, <1>3, <1>4, Zenon

\* Changing one setting of DP104 in place changes no other (dps.py, dp104_bytes_with_*).
LEMMA MutateLaw104 ==
    ASSUME NEW x \in Seq(Byte), NEW f \in Settings104, NEW v \in Values104[f]
    PROVE  /\ Mutate104(x, f, v) \in [1..3 -> Byte]
           /\ DecodeDp104(Mutate104(x, f, v)) = [DecodeDp104(x) EXCEPT ![f] = v]
<1>1. PICK old \in [1..3 -> Byte] : old = Normalize("104", x)
  BY Normal104
<1>2. DecodeDp104(x) = [g \in Settings104 |-> Read104(g, old)]
  BY <1>1, Decode104Is
<1>3. PICK new : new = Mutate104(x, f, v)
  OBVIOUS
<1>4. /\ new \in [1..3 -> Byte]
      /\ \A g \in Settings104 : Read104(g, new) = IF g = f THEN v ELSE Read104(g, old)
  <2>1. CASE f \in DOMAIN Bits104
    <3>1. v \in BOOLEAN
      <4>1. Values104[f] = BOOLEAN
        BY <2>1, Bits104Law, Zenon DEF Values104
      <4> QED
        BY <4>1
    <3>2. PICK m \in Masks : m = Bits104[f]
      BY <2>1, Bits104Law
    <3>3. PICK b \in Byte : /\ b = SetBit(old[1], m, v) /\ Bit(b, m) = v
                            /\ \A n \in Masks \ {m} : Bit(b, n) = Bit(old[1], n)
      BY <3>1, SetBitLaw
    <3>4. new = [old EXCEPT ![1] = b]
      BY <1>1, <1>3, <2>1, <3>2, <3>3, MutateKinds104
    <3>5. new \in [1..3 -> Byte] /\ new[1] = b /\ new[2] = old[2] /\ new[3] = old[3]
      BY <3>4
    <3>6. ASSUME NEW g \in Settings104 PROVE Read104(g, new) = IF g = f THEN v ELSE Read104(g, old)
      <4>1. CASE g \in DOMAIN Bits104
        <5>1. Bits104[g] \in Masks /\ (Bits104[g] = m => g = f)
          BY <2>1, <3>2, <4>1, Bits104Law
        <5>2. Bit(b, Bits104[g]) = IF g = f THEN v ELSE Bit(old[1], Bits104[g])
          BY <3>2, <3>3, <5>1
        <5> QED
          BY <3>5, <4>1, <5>2, Read104Kinds
      <4>2. CASE g \in {"calibration", "cycle_count"}
        <5>1. g # f
          BY <2>1, <4>2, Bits104Law
        <5> QED
          BY <3>5, <4>2, <5>1, Read104Kinds
      <4> QED
        BY <4>1, <4>2 DEF Settings104
    <3> QED
      BY <3>5, <3>6
  <2>2. CASE f = "calibration"
    <3>1. v \in 0..3 /\ Clamp(v, 0, 3) = v /\ v \in Byte
      BY <2>2, Bits104Law DEF Values104, Settings104, Clamp, Byte
    <3>2. new = [old EXCEPT ![2] = v]
      BY <1>1, <1>3, <2>2, <3>1, MutateKinds104
    <3>3. new \in [1..3 -> Byte] /\ new[1] = old[1] /\ new[2] = v /\ new[3] = old[3]
      BY <3>1, <3>2
    <3> QED
      BY <2>2, <3>1, <3>3, Read104Kinds, Bits104Law DEF Settings104
  <2>3. CASE f = "cycle_count"
    <3>1. v \in 1..10 /\ Clamp(v, 1, 10) = v /\ v \in Byte /\ ValidOr(v, 1, 10, 5) = v
      BY <2>3, Bits104Law DEF Values104, Settings104, Clamp, Byte, ValidOr
    <3>2. new = [old EXCEPT ![3] = v]
      BY <1>1, <1>3, <2>3, <3>1, MutateKinds104
    <3>3. new \in [1..3 -> Byte] /\ new[1] = old[1] /\ new[2] = old[2] /\ new[3] = v
      BY <3>1, <3>2
    <3> QED
      BY <2>3, <3>1, <3>3, Read104Kinds, Bits104Law DEF Settings104
  <2> QED
    BY <2>1, <2>2, <2>3 DEF Settings104
<1>5. DecodeDp104(new) = [g \in Settings104 |-> Read104(g, new)]
  BY <1>4, Decode104Full
<1> QED
  BY <1>2, <1>3, <1>4, <1>5

-----------------------------------------------------------------------------
(* The helper's changes of DP103, and DP105, the keys. *)

\* A normalized DP103 has 10 bytes.
LEMMA Normal103 ==
    ASSUME NEW x \in Seq(Byte)
    PROVE  /\ Normalize("103", x) \in [1..10 -> Byte]
           /\ x \in [1..10 -> Byte] => Normalize("103", x) = x
  BY NormalizedBytes DEF Normalize

\* Decoding DP103 looks at the normalized payload.
LEMMA DecodeOf103 ==
    ASSUME NEW x \in Seq(Byte)
    PROVE  DecodeDp103(x) = DecodeDp103(Normalize("103", x))
<1>1. PICK y \in [1..10 -> Byte] : y = Normalize("103", x)
  BY Normal103
<1>2. Normalize("103", y) = y
  BY FullIsSeq, Normal103
<1> QED
  BY <1>1, <1>2 DEF DecodeDp103

\* Timers that are on the clock are decoded as valid settings.
LEMMA ValidDecode103 ==
    ASSUME NEW x \in Seq(Byte),
           DecodeDp103(x).power_on \in Timers, DecodeDp103(x).power_off \in Timers
    PROVE  Valid("103", DecodeDp103(x))
<1>1. PICK y \in [1..10 -> Byte] : y = Normalize("103", x)
  BY Normal103
<1>2. DecodeDp103(x) = DecodeDp103(y)
  BY <1>1, DecodeOf103
<1>3. PICK d : d = DecodeDp103(x)
  OBVIOUS
<1>4. d = [power_on |-> << y[1] # 0, y[2], y[3], y[4] >>,
              power_off |-> << y[5] # 0, y[6], y[7], y[8] >>,
              hibernate_start |-> y[9] # 0, hibernate_duration |-> y[10]]
  BY <1>2, <1>3, Decode103Is
<1>5. /\ DOMAIN d = {"power_on", "power_off", "hibernate_start", "hibernate_duration"}
      /\ d.hibernate_duration = y[10] /\ d.hibernate_duration \in Byte
  BY <1>4
<1>6. d.hibernate_start \in BOOLEAN
  BY <1>4
<1>7. SettingValues("103") = Values103
  BY DEF SettingValues
<1>8. /\ DOMAIN Values103 = {"power_on", "power_off", "hibernate_start", "hibernate_duration"}
      /\ Values103.power_on = Timers /\ Values103.power_off = Timers
      /\ Values103.hibernate_start = BOOLEAN /\ Values103.hibernate_duration = Byte
  BY DEF Values103
<1>9. d.power_on \in Timers /\ d.power_off \in Timers
  BY <1>3
<1>10. Valid("103", d)
  BY <1>5, <1>6, <1>7, <1>8, <1>9 DEF Valid
<1> QED
  BY <1>3, <1>10

\* A byte is cut to itself.
LEMMA ByteLaw == \A w \in Byte : w % 256 = w
  BY DEF Byte

\* Replacing one field of the timers.
LEMMA TimersExcept ==
    ASSUME NEW r, NEW a, NEW b, NEW s, NEW d, NEW v, NEW f,
           r = [power_on |-> a, power_off |-> b, hibernate_start |-> s, hibernate_duration |-> d]
    PROVE  /\ f = "hibernate_start" =>
                [power_on |-> a, power_off |-> b, hibernate_start |-> v, hibernate_duration |-> d]
                    = [r EXCEPT ![f] = v]
           /\ f = "hibernate_duration" =>
                [power_on |-> a, power_off |-> b, hibernate_start |-> s, hibernate_duration |-> v]
                    = [r EXCEPT ![f] = v]
  OBVIOUS

\* Changing one setting of DP103 in place changes no other (dps.py, dp103_with_*).
LEMMA MutateLaw103 ==
    ASSUME NEW x \in Seq(Byte), NEW f \in {"hibernate_duration", "hibernate_start"},
           NEW v \in Values103[f]
    PROVE  /\ Mutate103(x, f, v) \in [1..10 -> Byte]
           /\ DecodeDp103(Mutate103(x, f, v)) = [DecodeDp103(x) EXCEPT ![f] = v]
<1>1. PICK old \in [1..10 -> Byte] : old = Normalize("103", x)
  BY Normal103
<1>2. DecodeDp103(x) = DecodeDp103(old)
  BY <1>1, DecodeOf103
<1>3. PICK new : new = Mutate103(x, f, v)
  OBVIOUS
<1>4. CASE f = "hibernate_duration"
  <2>0. v \in Byte
    BY <1>4 DEF Values103
  <2>1. v \in Byte /\ v % 256 = v
    BY <2>0, ByteLaw
  <2>2. new = [old EXCEPT ![10] = v]
    BY <1>1, <1>3, <1>4, <2>1 DEF Mutate103
  <2>3. new \in [1..10 -> Byte] /\ new[10] = v /\ \A i \in 1..9 : new[i] = old[i]
    BY <2>1, <2>2
  <2>4. DecodeDp103(new) =
             [power_on |-> << old[1] # 0, old[2], old[3], old[4] >>,
              power_off |-> << old[5] # 0, old[6], old[7], old[8] >>,
              hibernate_start |-> old[9] # 0, hibernate_duration |-> v]
    BY <2>3, Decode103Is
  <2>5. DecodeDp103(old) =
             [power_on |-> << old[1] # 0, old[2], old[3], old[4] >>,
              power_off |-> << old[5] # 0, old[6], old[7], old[8] >>,
              hibernate_start |-> old[9] # 0, hibernate_duration |-> old[10]]
    BY Decode103Is
  <2>6. DecodeDp103(new) = [DecodeDp103(old) EXCEPT ![f] = v]
    <3>1. PICK p, q, h : /\ p = << old[1] # 0, old[2], old[3], old[4] >>
                         /\ q = << old[5] # 0, old[6], old[7], old[8] >>
                         /\ h = (old[9] # 0)
      OBVIOUS
    <3>2. PICK r, n : r = DecodeDp103(old) /\ n = DecodeDp103(new)
      OBVIOUS
    <3>3. r = [power_on |-> p, power_off |-> q, hibernate_start |-> h, hibernate_duration |-> old[10]]
      BY <2>5, <3>1, <3>2, Zenon
    <3>4. n = [power_on |-> p, power_off |-> q, hibernate_start |-> h, hibernate_duration |-> v]
      BY <2>4, <3>1, <3>2, Zenon
    <3>5. n = [r EXCEPT ![f] = v]
      BY <1>4, <3>3, <3>4, TimersExcept
    <3> QED
      BY <3>2, <3>5
  <2> QED
    BY <1>2, <1>3, <1>4, <2>3, <2>6, Zenon
<1>5. CASE f = "hibernate_start"
  <2>1. v \in BOOLEAN
    BY <1>5 DEF Values103
  <2>2. PICK b \in 0..1 : b = Flag(v) /\ (b = 1) = v
    BY <2>1, FlagLaw
  <2>3. b \in Byte /\ (b # 0) = (b = 1)
    BY DEF Byte
  <2>4. new = [old EXCEPT ![9] = b]
    BY <1>1, <1>3, <1>5, <2>2 DEF Mutate103
  <2>5. new \in [1..10 -> Byte] /\ new[9] = b /\ new[10] = old[10] /\ \A i \in 1..8 : new[i] = old[i]
    BY <2>3, <2>4
  <2>6. DecodeDp103(new) =
             [power_on |-> << old[1] # 0, old[2], old[3], old[4] >>,
              power_off |-> << old[5] # 0, old[6], old[7], old[8] >>,
              hibernate_start |-> b # 0, hibernate_duration |-> old[10]]
    BY <2>5, Decode103Is
  <2>7. DecodeDp103(old) =
             [power_on |-> << old[1] # 0, old[2], old[3], old[4] >>,
              power_off |-> << old[5] # 0, old[6], old[7], old[8] >>,
              hibernate_start |-> old[9] # 0, hibernate_duration |-> old[10]]
    BY Decode103Is
  <2>8. (b # 0) = v
    BY <2>2, <2>3, Zenon
  <2>9. DecodeDp103(new) =
             [power_on |-> << old[1] # 0, old[2], old[3], old[4] >>,
              power_off |-> << old[5] # 0, old[6], old[7], old[8] >>,
              hibernate_start |-> v, hibernate_duration |-> old[10]]
    BY <2>6, <2>8, Zenon
  <2>10. DecodeDp103(new) = [DecodeDp103(old) EXCEPT ![f] = v]
    <3>1. PICK p, q, d : /\ p = << old[1] # 0, old[2], old[3], old[4] >>
                         /\ q = << old[5] # 0, old[6], old[7], old[8] >>
                         /\ d = old[10]
      OBVIOUS
    <3>2. PICK r, n, h : r = DecodeDp103(old) /\ n = DecodeDp103(new) /\ h = (old[9] # 0)
      OBVIOUS
    <3>3. r = [power_on |-> p, power_off |-> q, hibernate_start |-> h, hibernate_duration |-> d]
      BY <2>7, <3>1, <3>2, Zenon
    <3>4. n = [power_on |-> p, power_off |-> q, hibernate_start |-> v, hibernate_duration |-> d]
      BY <2>9, <3>1, <3>2, Zenon
    <3>5. n = [r EXCEPT ![f] = v]
      BY <1>5, <3>3, <3>4, TimersExcept
    <3> QED
      BY <3>2, <3>5
  <2> QED
    BY <1>2, <1>3, <1>5, <2>5, <2>10, Zenon
<1> QED
  BY <1>4, <1>5

\* A normalized DP105 has 7 bytes.
LEMMA Normal105 ==
    ASSUME NEW x \in Seq(Byte)
    PROVE  /\ Normalize("105", x) \in [1..7 -> Byte]
           /\ x \in [1..7 -> Byte] => Normalize("105", x) = x
<1>1. /\ Len(x) \in Nat /\ DOMAIN x = 1..Len(x) /\ x \in [1..Len(x) -> Byte]
      /\ \A i \in 1..Len(x) : x[i] \in Byte
  BY LenProperties
<1>2. Normalize("105", x) = IF Len(x) >= 7 THEN SubSeq(x, 1, 7) ELSE DP105_DEFAULT
  BY DEF Normalize
<1>3. DP105_DEFAULT \in [1..7 -> Byte]
  BY DEF DP105_DEFAULT, Byte
<1>4. ASSUME Len(x) >= 7 PROVE SubSeq(x, 1, 7) = [i \in 1..7 |-> x[i]]
  BY <1>1, <1>4
<1>5. ASSUME Len(x) >= 7 PROVE [i \in 1..7 |-> x[i]] \in [1..7 -> Byte]
  BY <1>1, <1>5
<1>6. ASSUME x \in [1..7 -> Byte] PROVE Normalize("105", x) = x
  <2>1. Len(x) = 7
    BY <1>6, FullIsSeq
  <2>2. [i \in 1..7 |-> x[i]] = x
    BY <1>6
  <2> QED
    BY <1>2, <1>4, <2>1, <2>2
<1> QED
  BY <1>2, <1>3, <1>4, <1>5, <1>6

\* A key gesture read from two bytes.
LEMMA IsGesture ==
    ASSUME NEW v, NEW b \in Byte PROVE << v # 0, b >> \in Gestures
<1>1. (v # 0) \in BOOLEAN
  OBVIOUS
<1> QED
  BY <1>1 DEF Gestures

\* A key gesture is written as it is.
LEMMA GestureLaw ==
    ASSUME NEW t \in Gestures
    PROVE  /\ Flag(t[1]) \in Byte /\ t[2] % 256 = t[2] /\ t[2] \in Byte
           /\ (Flag(t[1]) # 0) = t[1] /\ t = << t[1], t[2] >>
<1>1. t[1] \in BOOLEAN /\ t[2] \in Byte /\ t = << t[1], t[2] >>
  BY DEF Gestures
<1>2. Flag(t[1]) \in 0..1 /\ (Flag(t[1]) = 1) = t[1]
  BY <1>1, FlagLaw
<1>3. (Flag(t[1]) # 0) = (Flag(t[1]) = 1)
  BY <1>2
<1>4. Flag(t[1]) \in Byte /\ t[2] % 256 = t[2]
  BY <1>1, <1>2 DEF Byte
<1> QED
  BY <1>1, <1>2, <1>3, <1>4, Zenon

\* The settings of DP105 and their values.
LEMMA ValidParts105 ==
    ASSUME NEW s
    PROVE  Valid("105", s) <=>
           /\ DOMAIN s = {"lock_mask", "press", "hold_3s", "hold_7s"}
           /\ s.lock_mask \in 0..15
           /\ s.press \in Gestures /\ s.hold_3s \in Gestures /\ s.hold_7s \in Gestures
<1>1. SettingValues("105") = Values105
  BY DEF SettingValues
<1>2. /\ DOMAIN Values105 = {"lock_mask", "press", "hold_3s", "hold_7s"}
      /\ Values105.lock_mask = 0..15 /\ Values105.press = Gestures
      /\ Values105.hold_3s = Gestures /\ Values105.hold_7s = Gestures
  BY DEF Values105
<1> QED
  BY <1>1, <1>2 DEF Valid

\* Decoding a DP105 of full length.
LEMMA Decode105Is ==
    ASSUME NEW x \in [1..7 -> Byte]
    PROVE  DecodeDp105(x) =
             [lock_mask |-> x[1] % 16, press |-> << x[2] # 0, x[3] >>,
              hold_3s |-> << x[4] # 0, x[5] >>, hold_7s |-> << x[6] # 0, x[7] >>]
<1>1. Normalize("105", x) = x
  BY FullIsSeq, Normal105
<1> QED
  BY <1>1, Zenon DEF DecodeDp105

\* Decoding DP105 looks at the normalized payload.
LEMMA DecodeOf105 ==
    ASSUME NEW x \in Seq(Byte)
    PROVE  DecodeDp105(x) = DecodeDp105(Normalize("105", x))
<1>1. PICK y \in [1..7 -> Byte] : y = Normalize("105", x)
  BY Normal105
<1>2. Normalize("105", y) = y
  BY FullIsSeq, Normal105
<1> QED
  BY <1>1, <1>2 DEF DecodeDp105

\* decode_dp105 reads every setting as one of its values.
LEMMA ValidDecode105 ==
    ASSUME NEW x \in Seq(Byte)
    PROVE  Valid("105", DecodeDp105(x))
<1>1. PICK y \in [1..7 -> Byte] : y = Normalize("105", x)
  BY Normal105
<1>2. DecodeDp105(x) = DecodeDp105(y)
  BY <1>1, DecodeOf105
<1>3. PICK d : d = DecodeDp105(x)
  OBVIOUS
<1>4. d = [lock_mask |-> y[1] % 16, press |-> << y[2] # 0, y[3] >>,
              hold_3s |-> << y[4] # 0, y[5] >>, hold_7s |-> << y[6] # 0, y[7] >>]
  BY <1>2, <1>3, Decode105Is
<1>5. y[1] % 16 \in 0..15
  <2>1. PICK b \in Byte : b = y[1]
    OBVIOUS
  <2>2. b % 16 \in 0..15
    BY DEF Byte
  <2> QED
    BY <2>1, <2>2
<1>6. /\ << y[2] # 0, y[3] >> \in Gestures /\ << y[4] # 0, y[5] >> \in Gestures
      /\ << y[6] # 0, y[7] >> \in Gestures
  <2>1. y[3] \in Byte /\ y[5] \in Byte /\ y[7] \in Byte
    OBVIOUS
  <2> QED
    BY <2>1, IsGesture
<1>7. Valid("105", d)
  BY <1>4, <1>5, <1>6, ValidParts105
<1> QED
  BY <1>3, <1>7

\* Seven bytes are a payload of DP105.
LEMMA Tuple7 ==
    ASSUME NEW a \in Byte, NEW b \in Byte, NEW c \in Byte, NEW d \in Byte, NEW e \in Byte,
           NEW f \in Byte, NEW g \in Byte, NEW x, x = << a, b, c, d, e, f, g >>
    PROVE  /\ x \in [1..7 -> Byte]
           /\ x[1] = a /\ x[2] = b /\ x[3] = c /\ x[4] = d /\ x[5] = e /\ x[6] = f /\ x[7] = g
  OBVIOUS

\* encode_dp105 writes settings that decode_dp105 reads back (dps.py).
LEMMA EncodeLaw105 ==
    ASSUME NEW s, Valid("105", s)
    PROVE  /\ EncodeDp105(s) \in [1..7 -> Byte]
           /\ DecodeDp105(EncodeDp105(s)) = [f \in DOMAIN s |-> s[f]]
<1>1. /\ DOMAIN s = {"lock_mask", "press", "hold_3s", "hold_7s"}
      /\ s.lock_mask \in 0..15
      /\ s.press \in Gestures /\ s.hold_3s \in Gestures /\ s.hold_7s \in Gestures
  BY ValidParts105
<1>2. PICK m \in 0..15 : m = s.lock_mask
  BY <1>1
<1>3. m % 16 = m /\ m \in Byte
  BY DEF Byte
<1>4. PICK p \in Gestures, q \in Gestures, r \in Gestures :
        p = s.press /\ q = s.hold_3s /\ r = s.hold_7s
  BY <1>1
<1>5. PICK out : out = EncodeDp105(s)
  OBVIOUS
<1>6. out = << m, Flag(p[1]), p[2], Flag(q[1]), q[2], Flag(r[1]), r[2] >>
  BY <1>2, <1>3, <1>4, <1>5, GestureLaw DEF EncodeDp105
<1>7. /\ out \in [1..7 -> Byte]
      /\ out[1] = m /\ out[2] = Flag(p[1]) /\ out[3] = p[2] /\ out[4] = Flag(q[1]) /\ out[5] = q[2]
      /\ out[6] = Flag(r[1]) /\ out[7] = r[2]
  BY <1>3, <1>6, GestureLaw, Tuple7
<1>8. << out[2] # 0, out[3] >> = p /\ << out[4] # 0, out[5] >> = q /\ << out[6] # 0, out[7] >> = r
  <2>1. << out[2] # 0, out[3] >> = p
    <3>1. (Flag(p[1]) # 0) = p[1] /\ p = << p[1], p[2] >>
      BY GestureLaw
    <3>2. out[2] = Flag(p[1]) /\ out[3] = p[2]
      BY <1>7
    <3> QED
      BY <3>1, <3>2, Zenon
  <2>2. << out[4] # 0, out[5] >> = q
    <3>1. (Flag(q[1]) # 0) = q[1] /\ q = << q[1], q[2] >>
      BY GestureLaw
    <3>2. out[4] = Flag(q[1]) /\ out[5] = q[2]
      BY <1>7
    <3> QED
      BY <3>1, <3>2, Zenon
  <2>3. << out[6] # 0, out[7] >> = r
    <3>1. (Flag(r[1]) # 0) = r[1] /\ r = << r[1], r[2] >>
      BY GestureLaw
    <3>2. out[6] = Flag(r[1]) /\ out[7] = r[2]
      BY <1>7
    <3> QED
      BY <3>1, <3>2, Zenon
  <2> QED
    BY <2>1, <2>2, <2>3, Zenon
<1>9. DecodeDp105(out) = [lock_mask |-> m, press |-> p, hold_3s |-> q, hold_7s |-> r]
  BY <1>3, <1>7, <1>8, Decode105Is
<1>10. [lock_mask |-> m, press |-> p, hold_3s |-> q, hold_7s |-> r] = [f \in DOMAIN s |-> s[f]]
  BY <1>1, <1>2, <1>4
<1> QED
  BY <1>5, <1>7, <1>9, <1>10

-----------------------------------------------------------------------------
(* The four datapoints together. *)

\* How long each payload is.
LEMMA Widths == Width["102"] = 29 /\ Width["103"] = 10 /\ Width["104"] = 3 /\ Width["105"] = 7
  BY DEF Width, Packed

\* Every payload is normalized to its full length, and one that has it is left alone.
LEMMA NormalLaw ==
    ASSUME NEW dp \in Packed, NEW x \in Seq(Byte)
    PROVE  /\ Normalize(dp, x) \in [1..Width[dp] -> Byte]
           /\ x \in [1..Width[dp] -> Byte] => Normalize(dp, x) = x
<1>1. CASE dp = "102"
  <2>1. Normalize("102", x) = NormalizeBytes(x, 29)
    BY DEF Normalize
  <2>2. Width[dp] = 29
    BY <1>1, Widths
  <2>3. /\ NormalizeBytes(x, 29) \in [1..29 -> Byte]
        /\ x \in [1..29 -> Byte] => NormalizeBytes(x, 29) = x
    BY NormalizedBytes
  <2> QED
    BY <1>1, <2>1, <2>2, <2>3
<1>2. CASE dp = "103"
  BY <1>2, Normal103, Widths
<1>3. CASE dp = "104"
  BY <1>3, Normal104, Widths
<1>4. CASE dp = "105"
  BY <1>4, Normal105, Widths
<1> QED
  BY <1>1, <1>2, <1>3, <1>4 DEF Packed

\* A payload of full length is a normalized sequence of bytes.
LEMMA FullIsNormal ==
    ASSUME NEW dp \in Packed, NEW x \in [1..Width[dp] -> Byte]
    PROVE  x \in Seq(Byte) /\ Normalize(dp, x) = x
<1>1. PICK n \in Nat : n = Width[dp]
  BY Widths DEF Packed
<1>2. x \in Seq(Byte)
  BY <1>1, FullIsSeq
<1> QED
  BY <1>2, NormalLaw

\* Decoding looks at the normalized payload.
LEMMA DecodeLaw ==
    ASSUME NEW dp \in Packed, NEW x \in Seq(Byte)
    PROVE  Decode(dp, x) = Decode(dp, Normalize(dp, x))
<1>1. CASE dp = "102"
  <2>1. Normalize("102", Normalize("102", x)) = Normalize("102", x)
    <3>1. PICK y \in [1..29 -> Byte] : y = Normalize("102", x)
      BY Normal102
    <3>2. Normalize("102", y) = y
      BY FullIsSeq, NormalizedBytes DEF Normalize
    <3> QED
      BY <3>1, <3>2
  <2> QED
    BY <1>1, <2>1 DEF Decode, DecodeDp102
<1>2. CASE dp = "103"
  BY <1>2, DecodeOf103 DEF Decode
<1>3. CASE dp = "104"
  <2>1. Normalize("104", Normalize("104", x)) = Normalize("104", x)
    <3>1. PICK y \in [1..3 -> Byte] : y = Normalize("104", x)
      BY Normal104
    <3>2. Normalize("104", y) = y
      BY FullIsSeq, Normal104
    <3> QED
      BY <3>1, <3>2
  <2>2. Normalize("104", x) \in Seq(Byte)
    BY FullIsSeq, Normal104
  <2>3. DecodeDp104(x) = DecodeDp104(Normalize("104", x))
    BY <2>1, <2>2, Decode104Is
  <2> QED
    BY <1>3, <2>3 DEF Decode
<1>4. CASE dp = "105"
  BY <1>4, DecodeOf105 DEF Decode
<1> QED
  BY <1>1, <1>2, <1>3, <1>4 DEF Packed

\* Every payload decodes to valid settings, when its timers are on the clock.
LEMMA ValidDecode ==
    ASSUME NEW dp \in Packed, NEW x \in Seq(Byte),
           dp = "103" => {Decode(dp, x).power_on, Decode(dp, x).power_off} \subseteq Timers
    PROVE  Valid(dp, Decode(dp, x))
<1>1. CASE dp = "102"
  BY <1>1, ValidDecode102 DEF Decode
<1>2. CASE dp = "103"
  <2>1. Decode(dp, x) = DecodeDp103(x)
    BY <1>2 DEF Decode
  <2> QED
    BY <1>2, <2>1, ValidDecode103
<1>3. CASE dp = "104"
  BY <1>3, ValidDecode104 DEF Decode
<1>4. CASE dp = "105"
  BY <1>4, ValidDecode105 DEF Decode
<1> QED
  BY <1>1, <1>2, <1>3, <1>4 DEF Packed

\* PopurClient's way: whatever valid settings are encoded over whatever payload, exactly those
\* settings are decoded from the result, which has its full length; so a field that is replaced
\* in the decoded settings is the only one that changes (dps.py, encode_dp102 to encode_dp105).
THEOREM EncodeThenDecode ==
    ASSUME NEW dp \in Packed, NEW x \in Seq(Byte), NEW s, Valid(dp, s)
    PROVE  /\ Encode(dp, s, x) \in [1..Width[dp] -> Byte]
           /\ Decode(dp, Encode(dp, s, x)) = [f \in DOMAIN s |-> s[f]]
<1>1. CASE dp = "102"
  <2>1. /\ Encode(dp, s, x) = EncodeDp102(s, x)
        /\ Decode(dp, EncodeDp102(s, x)) = DecodeDp102(EncodeDp102(s, x))
    BY <1>1 DEF Encode, Decode
  <2>2. DOMAIN s = Settings102
    BY <1>1, ValidKinds
  <2>3. /\ EncodeDp102(s, x) \in [1..29 -> Byte]
        /\ DecodeDp102(EncodeDp102(s, x)) = [f \in Settings102 |-> s[f]]
    BY <1>1, EncodeLaw102
  <2>4. Width[dp] = 29
    BY <1>1, Widths
  <2> QED
    BY <2>1, <2>2, <2>3, <2>4
<1>2. CASE dp = "103"
  <2>1. /\ Encode(dp, s, x) = EncodeDp103(s)
        /\ Decode(dp, EncodeDp103(s)) = DecodeDp103(EncodeDp103(s))
    BY <1>2 DEF Encode, Decode
  <2> QED
    BY <1>2, <2>1, EncodeLaw103, Widths
<1>3. CASE dp = "104"
  <2>1. /\ Encode(dp, s, x) = EncodeDp104(s, x)
        /\ Decode(dp, EncodeDp104(s, x)) = DecodeDp104(EncodeDp104(s, x))
    BY <1>3 DEF Encode, Decode
  <2> QED
    BY <1>3, <2>1, EncodeLaw104, Widths
<1>4. CASE dp = "105"
  <2>1. /\ Encode(dp, s, x) = EncodeDp105(s)
        /\ Decode(dp, EncodeDp105(s)) = DecodeDp105(EncodeDp105(s))
    BY <1>4 DEF Encode, Decode
  <2> QED
    BY <1>4, <2>1, EncodeLaw105, Widths
<1> QED
  BY <1>1, <1>2, <1>3, <1>4 DEF Packed

\* The helper's way: a mutator changes the setting it is for to the value asked for, and no
\* other, whatever the payload was, unusual and short ones included (dps.py, the *_with_*
\* mutators).
THEOREM MutateChangesOne ==
    ASSUME NEW dp \in Packed, NEW x \in Seq(Byte), NEW f \in Mutable(dp),
           NEW v \in SettingValues(dp)[f]
    PROVE  /\ Mutate(dp, x, f, v) \in [1..Width[dp] -> Byte]
           /\ Decode(dp, Mutate(dp, x, f, v)) = [Decode(dp, x) EXCEPT ![f] = v]
<1>1. CASE dp = "102"
  <2>1. /\ Mutate(dp, x, f, v) = Mutate102(x, f, v) /\ f \in Settings102 /\ v \in Values102[f]
        /\ Decode(dp, Mutate102(x, f, v)) = DecodeDp102(Mutate102(x, f, v))
    BY <1>1 DEF Mutate, Decode, Mutable, SettingValues
  <2>2. Decode(dp, x) = DecodeDp102(Normalize("102", x))
    BY <1>1, DecodeLaw DEF Decode
  <2>3. /\ Mutate102(x, f, v) \in [1..29 -> Byte]
        /\ DecodeDp102(Mutate102(x, f, v)) = [DecodeDp102(Normalize("102", x)) EXCEPT ![f] = v]
    BY <2>1, MutateLaw102
  <2>4. Width[dp] = 29
    BY <1>1, Widths
  <2> QED
    BY <2>1, <2>2, <2>3, <2>4
<1>2. CASE dp = "103"
  <2>1. /\ Mutate(dp, x, f, v) = Mutate103(x, f, v)
        /\ f \in {"hibernate_duration", "hibernate_start"} /\ v \in Values103[f]
        /\ Decode(dp, Mutate103(x, f, v)) = DecodeDp103(Mutate103(x, f, v))
        /\ Decode(dp, x) = DecodeDp103(x)
    BY <1>2 DEF Mutate, Decode, Mutable, SettingValues
  <2> QED
    BY <1>2, <2>1, MutateLaw103, Widths
<1>3. CASE dp = "104"
  <2>1. /\ Mutate(dp, x, f, v) = Mutate104(x, f, v) /\ f \in Settings104 /\ v \in Values104[f]
        /\ Decode(dp, Mutate104(x, f, v)) = DecodeDp104(Mutate104(x, f, v))
        /\ Decode(dp, x) = DecodeDp104(x)
    BY <1>3 DEF Mutate, Decode, Mutable, SettingValues
  <2> QED
    BY <1>3, <2>1, MutateLaw104, Widths
<1>4. CASE dp = "105"
  BY <1>4 DEF Mutable
<1> QED
  BY <1>1, <1>2, <1>3, <1>4 DEF Packed

-----------------------------------------------------------------------------
(* The settings. *)

\* As long as no setter started from a cache that was known to be behind, the device has full
\* payloads that decode to valid settings, the ones that were asked for.
SettingsInv ==
    blind \/ /\ DOMAIN device = Dps /\ DOMAIN want = Dps
             /\ \A dp \in Dps : /\ device[dp] \in [1..Width[dp] -> Byte]
                                /\ Valid(dp, want[dp])
                                /\ Decode(dp, device[dp]) = want[dp]

\* A payload an application gives decodes to valid settings.
LEMMA GivenIsValid ==
    ASSUME NEW p \in Payloads, NEW dp \in Dps
    PROVE  /\ Normalize(dp, p[dp]) \in [1..Width[dp] -> Byte]
           /\ Valid(dp, Decode(dp, Normalize(dp, p[dp])))
<1>1. dp \in Packed /\ p[dp] \in Seq(Byte)
  BY ControlAssumption
<1>2. dp = "103" => {Decode(dp, p[dp]).power_on, Decode(dp, p[dp]).power_off} \subseteq Timers
  BY ChangesAssumption
<1> QED
  BY <1>1, <1>2, NormalLaw, DecodeLaw, ValidDecode

\* Valid settings stay valid when one of them gets another of its values.
LEMMA ReplacedIsValid ==
    ASSUME NEW dp, NEW s, Valid(dp, s), NEW f \in DOMAIN SettingValues(dp),
           NEW v \in SettingValues(dp)[f], NEW new, new = [s EXCEPT ![f] = v]
    PROVE  Valid(dp, new) /\ [g \in DOMAIN new |-> new[g]] = new
<1>1. DOMAIN new = DOMAIN s /\ \A g \in DOMAIN s : new[g] = IF g = f THEN v ELSE s[g]
  BY DEF Valid
<1>2. Valid(dp, new)
  BY <1>1 DEF Valid
<1>3. [g \in DOMAIN new |-> new[g]] = new
  OBVIOUS
<1> QED
  BY <1>2, <1>3

\* What a step does to the settings: nothing, or one datapoint's payload and what is wanted of
\* it change together.
Together(dp, bytes, s) ==
    /\ bytes \in [1..Width[dp] -> Byte] /\ Valid(dp, s) /\ Decode(dp, bytes) = s
    /\ device' = [device EXCEPT ![dp] = bytes]
    /\ want' = [want EXCEPT ![dp] = s]

\* Such a step keeps the device and what is wanted of it in agreement.
LEMMA TogetherKeeps ==
    ASSUME SettingsInv, blind => blind',
           UNCHANGED <<device, want>> \/ \E dp \in Dps : \E bytes, s : Together(dp, bytes, s)
    PROVE  SettingsInv'
<1>1. CASE blind
  BY <1>1 DEF SettingsInv
<1>2. CASE ~blind /\ UNCHANGED <<device, want>>
  BY <1>2 DEF SettingsInv
<1>3. CASE ~blind /\ \E dp \in Dps : \E bytes, s : Together(dp, bytes, s)
  <2>0. PICK dp \in Dps : \E bytes, s : Together(dp, bytes, s)
    BY <1>3
  <2>1. PICK bytes, s : Together(dp, bytes, s)
    BY <2>0
  <2>2. /\ DOMAIN device = Dps /\ DOMAIN want = Dps
        /\ \A d \in Dps : device[d] \in [1..Width[d] -> Byte] /\ Valid(d, want[d])
                            /\ Decode(d, device[d]) = want[d]
    BY <1>3 DEF SettingsInv
  <2>3. /\ DOMAIN device' = Dps /\ DOMAIN want' = Dps
        /\ device'[dp] = bytes /\ want'[dp] = s
        /\ \A d \in Dps \ {dp} : device'[d] = device[d] /\ want'[d] = want[d]
    BY <2>1, <2>2 DEF Together
  <2>4. bytes \in [1..Width[dp] -> Byte] /\ Valid(dp, s) /\ Decode(dp, bytes) = s
    BY <2>1 DEF Together
  <2>5. ASSUME NEW d \in Dps
        PROVE  device'[d] \in [1..Width[d] -> Byte] /\ Valid(d, want'[d])
                 /\ Decode(d, device'[d]) = want'[d]
    <3>1. CASE d = dp
      BY <2>3, <2>4, <3>1
    <3>2. CASE d # dp
      BY <2>2, <2>3, <3>2
    <3> QED
      BY <3>1, <3>2
  <2> QED
    BY <2>3, <2>5 DEF SettingsInv
<1> QED
  BY <1>1, <1>2, <1>3

\* What a setter writes is a value of the setting: set_sleep_time keeps it in its range.
LEMMA AskedIsValue ==
    ASSUME NEW c \in Changes PROVE Asked(c) \in SettingValues(c[1])[c[2]]
<1>1. PICK dp, f, v : dp = c[1] /\ f = c[2] /\ v = c[3]
  OBVIOUS
<1>2. dp \in Packed /\ f \in DOMAIN SettingValues(dp) /\ v \in SettingValues(dp)[f]
  BY <1>1, ControlAssumption, ChangesAssumption DEF Dps
<1>3. CASE f # "hibernate_duration"
  BY <1>1, <1>2, <1>3 DEF Asked
<1>4. CASE f = "hibernate_duration"
  <2>1. dp # "102"
    <3>1. "hibernate_duration" \notin Settings102
      BY DEF Settings102, Toggles102, Bits102, NumberByte102
    <3> QED
      BY <1>2, <1>4, <3>1 DEF SettingValues, Values102
  <2>2. dp # "104"
    <3>1. "hibernate_duration" \notin Settings104
      BY DEF Settings104, Bits104
    <3> QED
      BY <1>2, <1>4, <3>1 DEF SettingValues, Values104
  <2>3. dp # "105"
    BY <1>2, <1>4 DEF SettingValues, Values105
  <2>4. dp = "103"
    BY <1>2, <2>1, <2>2, <2>3 DEF Packed
  <2>5. SettingValues(dp)[f] = Byte
    BY <1>4, <2>4 DEF SettingValues, Values103
  <2>6. Clamp(v, 0, 200) \in Byte
    BY <1>2, <2>5 DEF Byte, Clamp
  <2> QED
    BY <1>1, <1>4, <2>5, <2>6 DEF Asked
<1> QED
  BY <1>3, <1>4

\* What a setter reads when nothing excuses it is the device's payload.
LEMMA CurrentIsRead ==
    ASSUME CacheInv, NEW dp \in Dps, ~Excused(dp)
    PROVE  Readable(Queried(dp)) = device[dp]
<1>1. states[dp] # NoValue /\ ~Arriving(dp) /\ dp \notin missed /\ form = "raw"
  BY DEF Excused, CacheInv, Shape
<1>2. states[dp] = Spelled(device[dp])
  BY <1>1 DEF CacheInv, CacheCurrent
<1> QED
  BY <1>1, <1>2 DEF Queried, Readable, Spelled

\* A setter of the helper that read the device's payload changes the setting it is for alone,
\* and one that may have read another leaves blind.
LEMMA SetKeeps ==
    ASSUME SettingsInv, CacheInv, NEW t, NEW c \in Changes, NEW made, NEW out,
           Set(t, c, made, out)
    PROVE  SettingsInv'
<1>1. PICK dp, f, v : dp = c[1] /\ f = c[2] /\ v = Asked(c)
  OBVIOUS
<1>2. /\ dp \in Dps /\ dp \in Packed
      /\ f \in DOMAIN SettingValues(dp) /\ v \in SettingValues(dp)[f]
  BY <1>1, AskedIsValue, ControlAssumption, ChangesAssumption DEF Dps
<1>3. PICK read, bytes : /\ read = Readable(Queried(dp))
                         /\ bytes = Mutate(dp, read, f, v)
  OBVIOUS
<1>4. f \in Mutable(dp)
  BY <1>1 DEF Set
<1>5. CASE ~(instance \/ made)
  <2>1. UNCHANGED <<device, want, blind>>
    BY <1>5 DEF Set
  <2> QED
    BY <2>1, TogetherKeeps
<1>6. CASE instance \/ made
  <2>1. /\ device' = [device EXCEPT ![dp] = IF out.taken > 0 THEN bytes ELSE device[dp]]
        /\ want' = IF out.taken > 0 THEN [want EXCEPT ![dp][f] = v] ELSE want
        /\ blind' = (blind \/ (out.taken > 0 /\ Excused(dp)))
    BY <1>1, <1>3, <1>6 DEF Set, Apply, Setter
  <2>2. CASE blind'
    BY <2>2 DEF SettingsInv
  <2>3. CASE ~blind' /\ out.taken > 0
    <3>1. ~blind /\ read = device[dp]
      BY <1>2, <1>3, <2>1, <2>3, CurrentIsRead
    <3>2. PICK old : old = device[dp]
      OBVIOUS
    <3>3. /\ old \in [1..Width[dp] -> Byte] /\ DOMAIN want = Dps /\ DOMAIN device = Dps
          /\ Valid(dp, want[dp]) /\ Decode(dp, old) = want[dp]
      BY <1>2, <3>1, <3>2 DEF SettingsInv
    <3>4. old \in Seq(Byte) /\ Normalize(dp, old) = old
      BY <1>2, <3>3, FullIsNormal
    <3>5. bytes = Mutate(dp, old, f, v)
      BY <1>3, <3>1, <3>2
    <3>6. /\ bytes \in [1..Width[dp] -> Byte]
          /\ Decode(dp, bytes) = [Decode(dp, old) EXCEPT ![f] = v]
      BY <1>2, <1>4, <3>4, <3>5, MutateChangesOne
    <3>7. PICK s : s = [want[dp] EXCEPT ![f] = v]
      OBVIOUS
    <3>8. Valid(dp, s) /\ Decode(dp, bytes) = s
      BY <1>2, <3>3, <3>6, <3>7, ReplacedIsValid
    <3>9. /\ device' = [device EXCEPT ![dp] = bytes]
          /\ want' = [want EXCEPT ![dp] = s]
      BY <1>2, <2>1, <2>3, <3>3, <3>7
    <3>10. Together(dp, bytes, s)
      BY <3>6, <3>8, <3>9 DEF Together
    <3>11. blind => blind'
      BY <3>1
    <3> QED
      BY <1>2, <3>10, <3>11, TogetherKeeps
  <2>4. CASE ~blind' /\ ~(out.taken > 0)
    <3>1. ~blind /\ want' = want
      BY <2>1, <2>4
    <3>2. DOMAIN device = Dps /\ DOMAIN device' = Dps /\ \A d \in Dps : device'[d] = device[d]
      BY <2>1, <2>4, <3>1 DEF SettingsInv
    <3> QED
      BY <3>1, <3>2 DEF SettingsInv
  <2> QED
    BY <2>2, <2>3, <2>4
<1> QED
  BY <1>5, <1>6

\* A payload written whole brings its own settings.
LEMMA OverwriteKeeps ==
    ASSUME SettingsInv, NEW t, NEW dp \in Dps, NEW p \in Payloads, NEW made, NEW out,
           Overwrite(t, dp, p, made, out)
    PROVE  SettingsInv'
<1>1. PICK bytes : bytes = Normalize(dp, p[dp])
  OBVIOUS
<1>2. UNCHANGED blind
  BY DEF Overwrite
<1>3. bytes \in [1..Width[dp] -> Byte] /\ Valid(dp, Decode(dp, bytes))
  BY <1>1, GivenIsValid
<1>4. CASE ~(instance \/ made)
  <2>1. UNCHANGED <<device, want>>
    BY <1>4 DEF Overwrite
  <2> QED
    BY <1>2, <2>1, TogetherKeeps
<1>5. CASE (instance \/ made) /\ out.taken > 0
  <2>1. /\ device' = [device EXCEPT ![dp] = bytes]
        /\ want' = [want EXCEPT ![dp] = Decode(dp, bytes)]
    BY <1>1, <1>5 DEF Overwrite, Apply
  <2>2. Together(dp, bytes, Decode(dp, bytes))
    BY <1>3, <2>1 DEF Together
  <2> QED
    BY <1>2, <2>2, TogetherKeeps
<1>6. CASE (instance \/ made) /\ ~(out.taken > 0)
  <2>1. /\ device' = [device EXCEPT ![dp] = device[dp]]
        /\ want' = [want EXCEPT ![dp] = want[dp]]
    BY <1>6 DEF Overwrite, Apply
  <2> QED
    BY <1>2, <2>1 DEF SettingsInv
<1> QED
  BY <1>4, <1>5, <1>6

\* Another program replaces one field of what it decoded and encodes the whole.
LEMMA ClientUpdateKeeps ==
    ASSUME SettingsInv, NEW c \in Changes, ClientUpdate(c)
    PROVE  SettingsInv'
<1>1. PICK dp, f, v : dp = c[1] /\ f = c[2] /\ v = c[3]
  OBVIOUS
<1>2. /\ dp \in Dps /\ dp \in Packed
      /\ f \in DOMAIN SettingValues(dp) /\ v \in SettingValues(dp)[f]
  BY <1>1, ControlAssumption, ChangesAssumption DEF Dps
<1>3. UNCHANGED blind
  BY DEF ClientUpdate
<1>4. CASE blind
  BY <1>3, <1>4 DEF SettingsInv
<1>5. CASE ~blind
  <2>1. PICK old : old = device[dp]
    OBVIOUS
  <2>2. /\ old \in [1..Width[dp] -> Byte] /\ DOMAIN want = Dps
        /\ Valid(dp, want[dp]) /\ Decode(dp, old) = want[dp]
    BY <1>2, <1>5, <2>1 DEF SettingsInv
  <2>3. old \in Seq(Byte)
    BY <1>2, <2>2, FullIsNormal
  <2>4. PICK s, bytes : s = [want[dp] EXCEPT ![f] = v] /\ bytes = Encode(dp, s, old)
    OBVIOUS
  <2>5. Valid(dp, s) /\ [g \in DOMAIN s |-> s[g]] = s
    BY <1>2, <2>2, <2>4, ReplacedIsValid
  <2>6. bytes \in [1..Width[dp] -> Byte] /\ Decode(dp, bytes) = s
    BY <1>2, <2>3, <2>4, <2>5, EncodeThenDecode
  <2>7. /\ device' = [device EXCEPT ![dp] = bytes]
        /\ want' = [want EXCEPT ![dp] = s]
    BY <1>1, <2>1, <2>2, <2>4 DEF ClientUpdate, Apply
  <2>8. Together(dp, bytes, s)
    BY <2>5, <2>6, <2>7 DEF Together
  <2> QED
    BY <1>2, <1>3, <2>8, TogetherKeeps
<1> QED
  BY <1>4, <1>5

\* Changing one setting changes no other, for any sequence of setters, whole payloads and other
\* programs' updates, through any cascade of publish methods and whatever unusual bytes the
\* payloads have, as long as no setter looked at a cache that was known to be behind: without the
\* datapoint, with a report of it under way or lost, or with a spelling that is not read
\* (helper.py, _update_packed_payload; dps.py, encode_dp102: fields unchanged from the decoded
\* baseline are left byte-for-byte intact).
THEOREM OtherSettingsAreKept == Spec => []SettingsKept
<1>1. Init => SettingsInv
  <2> SUFFICES ASSUME Init PROVE SettingsInv
    OBVIOUS
  <2>1. PICK p \in Payloads : device = [dp \in Dps |-> Normalize(dp, p[dp])]
    BY DEF Init
  <2>2. want = [dp \in Dps |-> Decode(dp, device[dp])]
    BY DEF Init
  <2>3. \A dp \in Dps : /\ Normalize(dp, p[dp]) \in [1..Width[dp] -> Byte]
                        /\ Valid(dp, Decode(dp, Normalize(dp, p[dp])))
    BY GivenIsValid
  <2> QED
    BY <2>1, <2>2, <2>3 DEF SettingsInv
<1>2. SettingsInv /\ CacheInv /\ [Next]_vars => SettingsInv'
  <2> SUFFICES ASSUME SettingsInv, CacheInv, [Next]_vars PROVE SettingsInv'
    OBVIOUS
  <2>1. ASSUME NEW t \in Tasks, NEW made \in BOOLEAN, NEW c \in Changes, NEW out \in TextOutcomes,
               Set(t, c, made, out)
        PROVE  SettingsInv'
    BY <2>1, SetKeeps
  <2>2. ASSUME NEW t \in Tasks, NEW made \in BOOLEAN, NEW dp \in Dps, NEW p \in Payloads,
               NEW out \in TextOutcomes \cup ByteOutcomes, Overwrite(t, dp, p, made, out)
        PROVE  SettingsInv'
    BY <2>2, OverwriteKeeps
  <2>3. ASSUME NEW c \in Changes, ClientUpdate(c) PROVE SettingsInv'
    BY <2>3, ClientUpdateKeeps
  <2>4. ASSUME NEW made \in BOOLEAN,
               \/ \E t \in Tasks, out \in TextOutcomes : SetOperationMode(t, made, out)
               \/ \E l \in Listeners : RegisterListener(l, made)
               \/ BatchQuery(made)
               \/ \E dp \in Dps : Ask(dp, made)
        PROVE  UNCHANGED <<device, want, blind>>
    BY <2>4 DEF SetOperationMode, RegisterListener, BatchQuery, Ask
  <2>5. ASSUME \/ \E t \in Tasks : Settle(t)
               \/ Report \/ Merged \/ BeanLoads \/ AskEnds
               \/ \E l \in Listeners, works \in BOOLEAN : UnregisterListener(l, works)
               \/ \E works \in BOOLEAN : OnRemoved(works)
               \/ UNCHANGED vars
        PROVE  UNCHANGED <<device, want, blind>>
    BY <2>5 DEF Settle, Report, Merged, BeanLoads, AskEnds, UnregisterListener, OnRemoved, vars
  <2>6. UNCHANGED <<device, want, blind>> => SettingsInv'
    BY TogetherKeeps
  <2> QED
    BY <2>1, <2>2, <2>3, <2>4, <2>5, <2>6 DEF Next
<1>3. SettingsInv => SettingsKept
  BY DEF SettingsInv, SettingsKept
<1> QED
  BY <1>1, <1>2, <1>3, CacheInvariant, PTL DEF Spec

-----------------------------------------------------------------------------
(* Type correctness: the payloads that are kept and sent. *)

\* A payload of full length that decodes to valid settings; a cached value that is one, or
\* none, or a text.
Sound(dp, bytes) == bytes \in [1..Width[dp] -> Byte] /\ Valid(dp, Decode(dp, bytes))
SoundValue(dp, v) ==
    \/ v \in {NoValue, Text}
    \/ \E kind \in {"raw", "base64"} : \E bytes :
         v = [kind |-> kind, bytes |-> bytes] /\ Sound(dp, bytes)

SoundState(s) == s \in States /\ \A dp \in Dps : SoundValue(dp, s[dp])
SoundReports  == {r \in Dps \X Seq(Byte) : Sound(r[1], r[2])}
SoundCommands == {c \in Dps \X Values : SoundValue(c[1], c[2])}

\* Whatever is kept of the device, on its way to it or from it is sound, even when a writer
\* started from a payload that was not the device's.
PayloadInv ==
    /\ DOMAIN device = Dps /\ \A dp \in Dps : Sound(dp, device[dp])
    /\ reports \in Seq(SoundReports)
    /\ SoundState(bean) /\ SoundState(states) /\ SoundState(repo)
    /\ pending \in [Tasks -> {<<>>} \cup SoundCommands]
    /\ DOMAIN want = Dps /\ \A dp \in Dps : Valid(dp, want[dp])
    /\ merging # <<>> => /\ merging \in [dp : Dps, bytes : Seq(Byte), seen : States]
                         /\ Sound(merging.dp, merging.bytes) /\ SoundState(merging.seen)
    /\ asking # <<>> => asking \in [state : States, late : SUBSET Dps] /\ SoundState(asking.state)
    /\ form \in {"raw", "base64"}

PlainTypes ==
    /\ instance \in BOOLEAN
    /\ attached \subseteq {"proxy", "simple"} /\ bridge \in {"none", "proxy", "simple"}
    /\ listeners \subseteq Listeners
    /\ blind \in BOOLEAN /\ missed \subseteq Dps /\ sets \in 0..MaxSets

\* An empty payload is read as the defaults, which are valid.
LEMMA EmptyIsValid ==
    ASSUME NEW dp \in Packed
    PROVE  << >> \in Seq(Byte) /\ Valid(dp, Decode(dp, << >>))
<1>1. << >> \in Seq(Byte)
  OBVIOUS
<1>2. dp = "103" => {Decode(dp, << >>).power_on, Decode(dp, << >>).power_off} \subseteq Timers
  <2> SUFFICES ASSUME dp = "103"
               PROVE  {Decode(dp, << >>).power_on, Decode(dp, << >>).power_off} \subseteq Timers
    OBVIOUS
  <2>1. PICK y \in [1..10 -> Byte] : y = Normalize("103", << >>)
    BY <1>1, Normal103
  <2>2. \A i \in 1..10 : y[i] = 0
    BY <2>1 DEF Normalize, NormalizeBytes
  <2>3. DecodeDp103(<< >>) = DecodeDp103(y)
    BY <1>1, <2>1, DecodeOf103
  <2>4. PICK d : d = DecodeDp103(y)
    OBVIOUS
  <2>5. d = [power_on |-> << y[1] # 0, y[2], y[3], y[4] >>,
             power_off |-> << y[5] # 0, y[6], y[7], y[8] >>,
             hibernate_start |-> y[9] # 0, hibernate_duration |-> y[10]]
    BY <2>4, Decode103Is
  <2>6. << y[1] # 0, y[2], y[3], y[4] >> \in Timers
    <3>1. (y[1] # 0) \in BOOLEAN /\ y[2] \in Byte /\ y[3] \in 0..23 /\ y[4] \in 0..59
      BY <2>2 DEF Byte
    <3> QED
      BY <3>1 DEF Timers
  <2>7. << y[5] # 0, y[6], y[7], y[8] >> \in Timers
    <3>1. (y[5] # 0) \in BOOLEAN /\ y[6] \in Byte /\ y[7] \in 0..23 /\ y[8] \in 0..59
      BY <2>2 DEF Byte
    <3> QED
      BY <3>1 DEF Timers
  <2>8. d.power_on \in Timers /\ d.power_off \in Timers
    BY <2>5, <2>6, <2>7
  <2> QED
    BY <2>3, <2>4, <2>8 DEF Decode
<1> QED
  BY <1>1, <1>2, ValidDecode

\* What a setter reads from a sound value are bytes that decode to valid settings.
LEMMA SoundBytes ==
    ASSUME NEW dp \in Packed, NEW v, SoundValue(dp, v)
    PROVE  Readable(v) \in Seq(Byte) /\ Valid(dp, Decode(dp, Readable(v))) /\ v \in Values
<1>1. CASE v \in {NoValue, Text}
  <2>1. Readable(v) = << >>
    BY <1>1 DEF NoValue, Text, Readable
  <2> QED
    BY <1>1, <2>1, EmptyIsValid DEF Values
<1>2. ASSUME NEW kind \in {"raw", "base64"}, NEW bytes, v = [kind |-> kind, bytes |-> bytes],
             Sound(dp, bytes)
      PROVE  Readable(v) \in Seq(Byte) /\ Valid(dp, Decode(dp, Readable(v))) /\ v \in Values
  <2>1. bytes \in Seq(Byte)
    BY <1>2, FullIsNormal DEF Sound
  <2>2. Readable(v) \in {bytes, << >>}
    BY <1>2 DEF Readable
  <2>3. v \in Values
    BY <1>2, <2>1 DEF Values
  <2> QED
    BY <1>2, <2>1, <2>2, <2>3, EmptyIsValid DEF Sound
<1> QED
  BY <1>1, <1>2 DEF SoundValue

\* A sound value put into a sound state.
LEMMA PutIsSound ==
    ASSUME NEW s, SoundState(s), NEW dp \in Dps, NEW v, SoundValue(dp, v)
    PROVE  SoundState([s EXCEPT ![dp] = v])
<1>1. v \in Values
  BY SoundBytes, ControlAssumption
<1> QED
  BY <1>1 DEF SoundState, States

\* The state that a report, an instance or a query puts in the place of the cached one.
LEMMA KnownIsSound ==
    ASSUME PayloadInv
    PROVE  /\ SoundState(Unknown) /\ SoundState(Current)
           /\ \A old : SoundState(old) => SoundState(ReadDeviceDps(old))
           /\ \A dp \in Dps : SoundValue(dp, Queried(dp))
<1>1. SoundState(Unknown)
  BY DEF SoundState, SoundValue, States, Unknown, Values
<1>2. SoundState(Current)
  <2>1. \A dp \in Dps : SoundValue(dp, Spelled(device[dp]))
    BY DEF PayloadInv, SoundValue, Spelled
  <2>2. \A dp \in Dps : Spelled(device[dp]) \in Values
    BY <2>1, SoundBytes, ControlAssumption
  <2> QED
    BY <2>1, <2>2 DEF SoundState, States, Current
<1>3. ASSUME NEW old, SoundState(old) PROVE SoundState(ReadDeviceDps(old))
  BY <1>3 DEF SoundState, States, ReadDeviceDps, PayloadInv
<1>4. \A dp \in Dps : SoundValue(dp, Queried(dp))
  BY DEF Queried, SoundState, PayloadInv
<1> QED
  BY <1>1, <1>2, <1>3, <1>4

\* Whatever valid settings a setter starts from, what it sends is sound.
LEMMA MutatedIsSound ==
    ASSUME NEW dp \in Packed, NEW x \in Seq(Byte), Valid(dp, Decode(dp, x)),
           NEW f \in Mutable(dp), f \in DOMAIN SettingValues(dp), NEW v \in SettingValues(dp)[f]
    PROVE  Sound(dp, Mutate(dp, x, f, v))
<1>1. PICK s, new : s = Decode(dp, x) /\ new = [s EXCEPT ![f] = v]
  OBVIOUS
<1>2. Valid(dp, new)
  BY <1>1, ReplacedIsValid
<1>3. PICK bytes : bytes = Mutate(dp, x, f, v)
  OBVIOUS
<1>4. bytes \in [1..Width[dp] -> Byte] /\ Decode(dp, bytes) = new
  BY <1>1, <1>3, MutateChangesOne
<1> QED
  BY <1>2, <1>3, <1>4 DEF Sound

\* The device takes a sound payload and reports it.
LEMMA AppliedIsSound ==
    ASSUME PayloadInv, NEW dp \in Dps, NEW bytes, Sound(dp, bytes), NEW taken \in Nat,
           Apply(dp, bytes, taken)
    PROVE  /\ DOMAIN device' = Dps /\ \A d \in Dps : Sound(d, device'[d])
           /\ reports' \in Seq(SoundReports)
<1>1. DOMAIN device' = Dps /\ \A d \in Dps : device'[d] = IF d = dp /\ taken > 0 THEN bytes ELSE device[d]
  BY DEF Apply, PayloadInv
<1>2. \A d \in Dps : Sound(d, device'[d])
  BY <1>1 DEF PayloadInv
<1>3. << dp, bytes >> \in SoundReports
  <2>1. dp \in Packed /\ bytes \in Seq(Byte)
    BY ControlAssumption, FullIsNormal DEF Sound
  <2> QED
    BY <2>1 DEF SoundReports
<1>4. PICK r : r = << dp, bytes >>
  OBVIOUS
<1>5. [i \in 1..taken |-> r] \in Seq(SoundReports)
  BY <1>3, <1>4
<1>6. reports' = reports \o [i \in 1..taken |-> r]
  BY <1>4 DEF Apply
<1>7. reports' \in Seq(SoundReports)
  BY <1>5, <1>6 DEF PayloadInv
<1> QED
  BY <1>1, <1>2, <1>7

\* The command the repository is to be told of is the one that was sent.
LEMMA AnsweredIsSound ==
    ASSUME PayloadInv, NEW t \in Tasks, NEW out, NEW dp \in Dps, NEW v, SoundValue(dp, v),
           Answered(t, out, dp, v)
    PROVE  pending' \in [Tasks -> {<<>>} \cup SoundCommands]
<1>1. dp \in Packed /\ v \in Values
  BY ControlAssumption, SoundBytes
<1>2. << dp, v >> \in SoundCommands
  BY <1>1 DEF SoundCommands
<1>3. PICK k : pending' = [pending EXCEPT ![t] = k] /\ (k = pending[t] \/ k = << dp, v >>)
  BY DEF Answered
<1> QED
  BY <1>2, <1>3 DEF PayloadInv

\* What is wanted stays valid when one setting is changed.
LEMMA WantedIsValid ==
    ASSUME PayloadInv, NEW dp \in Dps, NEW s, Valid(dp, s), want' = [want EXCEPT ![dp] = s]
    PROVE  DOMAIN want' = Dps /\ \A d \in Dps : Valid(d, want'[d])
<1>1. DOMAIN want' = Dps /\ \A d \in Dps : want'[d] = IF d = dp THEN s ELSE want[d]
  BY DEF PayloadInv
<1> QED
  BY <1>1 DEF PayloadInv

\* A setter of the helper: whatever it read, what it sends is sound.
LEMMA SetSound ==
    ASSUME PayloadInv, NEW t \in Tasks, NEW c \in Changes, NEW made, NEW out,
           out.taken \in Nat, Set(t, c, made, out)
    PROVE  PayloadInv'
<1>1. PICK dp, f, v : dp = c[1] /\ f = c[2] /\ v = Asked(c)
  OBVIOUS
<1>2. /\ dp \in Dps /\ dp \in Packed /\ f \in Mutable(dp)
      /\ f \in DOMAIN SettingValues(dp) /\ v \in SettingValues(dp)[f]
  BY <1>1, AskedIsValue, ControlAssumption, ChangesAssumption DEF Dps, Set
<1>3. PICK read, bytes : /\ read = Readable(Queried(dp))
                         /\ bytes = Mutate(dp, read, f, v)
  OBVIOUS
<1>4. read \in Seq(Byte) /\ Valid(dp, Decode(dp, read))
  BY <1>2, <1>3, KnownIsSound, SoundBytes
<1>5. Sound(dp, bytes)
  BY <1>2, <1>3, <1>4, MutatedIsSound
<1>6. UNCHANGED <<bean, repo, merging, asking, form>> /\ (states' = states \/ states' = Unknown)
  BY DEF Set, Make
<1>7. SoundState(bean') /\ SoundState(repo') /\ SoundState(states')
  BY <1>6, KnownIsSound DEF PayloadInv
<1>8. CASE ~(instance \/ made)
  <2>1. UNCHANGED <<device, reports, pending, want>>
    BY <1>8 DEF Set
  <2> QED
    BY <1>6, <1>7, <2>1 DEF PayloadInv
<1>9. CASE instance \/ made
  <2>1. /\ Apply(dp, bytes, out.taken) /\ Answered(t, out, dp, Raw(bytes))
        /\ want' = IF out.taken > 0 THEN [want EXCEPT ![dp][f] = v] ELSE want
    BY <1>1, <1>3, <1>9 DEF Set, Setter
  <2>2. /\ DOMAIN device' = Dps /\ \A d \in Dps : Sound(d, device'[d])
        /\ reports' \in Seq(SoundReports)
    BY <1>2, <1>5, <2>1, AppliedIsSound
  <2>3. pending' \in [Tasks -> {<<>>} \cup SoundCommands]
    <3>1. PICK value : value = Raw(bytes)
      OBVIOUS
    <3>2. SoundValue(dp, value)
      BY <1>5, <3>1 DEF SoundValue, Raw
    <3> QED
      BY <1>2, <2>1, <3>1, <3>2, AnsweredIsSound
  <2>4. PICK s : s = [want[dp] EXCEPT ![f] = v]
    OBVIOUS
  <2>5. Valid(dp, s)
    BY <1>2, <2>4, ReplacedIsValid DEF PayloadInv
  <2>6. want' = want \/ want' = [want EXCEPT ![dp] = s]
    BY <2>1, <2>4
  <2>7. DOMAIN want' = Dps /\ \A d \in Dps : Valid(d, want'[d])
    BY <1>2, <2>5, <2>6, WantedIsValid DEF PayloadInv
  <2> QED
    BY <1>6, <1>7, <2>2, <2>3, <2>7 DEF PayloadInv
<1> QED
  BY <1>8, <1>9

\* A payload that is written whole.
LEMMA OverwriteSound ==
    ASSUME PayloadInv, NEW t \in Tasks, NEW dp \in Dps, NEW p \in Payloads, NEW made, NEW out,
           out.taken \in Nat, Overwrite(t, dp, p, made, out)
    PROVE  PayloadInv'
<1>1. PICK bytes : bytes = Normalize(dp, p[dp])
  OBVIOUS
<1>2. Sound(dp, bytes)
  BY <1>1, GivenIsValid DEF Sound
<1>3. /\ UNCHANGED <<bean, repo, merging, asking, form>>
      /\ SoundState(bean') /\ SoundState(repo') /\ SoundState(states')
  <2>1. UNCHANGED <<bean, repo, merging, asking, form>> /\ (states' = states \/ states' = Unknown)
    BY DEF Overwrite, Make
  <2> QED
    BY <2>1, KnownIsSound DEF PayloadInv
<1>4. CASE ~(instance \/ made)
  <2>1. UNCHANGED <<device, reports, pending, want>>
    BY <1>4 DEF Overwrite
  <2> QED
    BY <1>3, <2>1 DEF PayloadInv
<1>5. CASE instance \/ made
  <2>1. /\ Apply(dp, bytes, out.taken) /\ Answered(t, out, dp, Raw(bytes))
        /\ want' = [want EXCEPT ![dp] = IF out.taken > 0 THEN Decode(dp, bytes) ELSE want[dp]]
    BY <1>1, <1>5 DEF Overwrite
  <2>2. /\ DOMAIN device' = Dps /\ \A d \in Dps : Sound(d, device'[d])
        /\ reports' \in Seq(SoundReports)
    BY <1>2, <2>1, AppliedIsSound
  <2>3. pending' \in [Tasks -> {<<>>} \cup SoundCommands]
    <3>1. PICK value : value = Raw(bytes)
      OBVIOUS
    <3>2. SoundValue(dp, value)
      BY <1>2, <3>1 DEF SoundValue, Raw
    <3> QED
      BY <1>2, <2>1, <3>1, <3>2, AnsweredIsSound
  <2>4. PICK s : s = IF out.taken > 0 THEN Decode(dp, bytes) ELSE want[dp]
    OBVIOUS
  <2>5. Valid(dp, s) /\ want' = [want EXCEPT ![dp] = s]
    BY <1>2, <2>1, <2>4 DEF Sound, PayloadInv
  <2>6. DOMAIN want' = Dps /\ \A d \in Dps : Valid(d, want'[d])
    BY <2>5, WantedIsValid
  <2> QED
    BY <1>3, <2>2, <2>3, <2>6 DEF PayloadInv
<1> QED
  BY <1>4, <1>5

\* A text is kept by the repository alone.
LEMMA TextSound ==
    ASSUME PayloadInv, NEW t \in Tasks, NEW made, NEW out, SetOperationMode(t, made, out)
    PROVE  PayloadInv'
<1>1. /\ UNCHANGED <<device, reports, bean, repo, want, merging, asking, form>>
      /\ states' = states \/ states' = Unknown
  BY DEF SetOperationMode, Make
<1>2. pending' \in [Tasks -> {<<>>} \cup SoundCommands]
  <2>1. CASE UNCHANGED pending
    BY <2>1 DEF PayloadInv
  <2>2. CASE "102" \in Dps /\ Answered(t, out, "102", Text)
    BY <2>2, AnsweredIsSound DEF SoundValue
  <2> QED
    BY <2>1, <2>2 DEF SetOperationMode
<1> QED
  BY <1>1, <1>2, KnownIsSound DEF PayloadInv

\* Another program's update.
LEMMA ClientSound ==
    ASSUME PayloadInv, NEW c \in Changes, ClientUpdate(c)
    PROVE  PayloadInv'
<1>1. PICK dp, f, v : dp = c[1] /\ f = c[2] /\ v = c[3]
  OBVIOUS
<1>2. /\ dp \in Dps /\ dp \in Packed
      /\ f \in DOMAIN SettingValues(dp) /\ v \in SettingValues(dp)[f]
  BY <1>1, ControlAssumption, ChangesAssumption DEF Dps
<1>3. PICK old : old = device[dp]
  OBVIOUS
<1>4. old \in Seq(Byte) /\ Valid(dp, Decode(dp, old))
  BY <1>2, <1>3, FullIsNormal DEF PayloadInv, Sound
<1>5. PICK s, bytes : s = [Decode(dp, old) EXCEPT ![f] = v] /\ bytes = Encode(dp, s, old)
  OBVIOUS
<1>6. Valid(dp, s) /\ [g \in DOMAIN s |-> s[g]] = s
  BY <1>2, <1>4, <1>5, ReplacedIsValid
<1>7. bytes \in [1..Width[dp] -> Byte] /\ Decode(dp, bytes) = s
  <2>1. dp \in Packed /\ old \in Seq(Byte) /\ bytes = Encode(dp, s, old)
    BY <1>2, <1>4, <1>5
  <2>2. /\ Encode(dp, s, old) \in [1..Width[dp] -> Byte]
        /\ Decode(dp, Encode(dp, s, old)) = [g \in DOMAIN s |-> s[g]]
    BY <1>6, <2>1, EncodeThenDecode
  <2> QED
    BY <1>6, <2>1, <2>2
<1>8. Sound(dp, bytes)
  BY <1>6, <1>7 DEF Sound
<1>9. /\ Apply(dp, bytes, 1) /\ want' = [want EXCEPT ![dp][f] = v]
      /\ UNCHANGED <<bean, states, repo, pending, merging, asking, form>>
  BY <1>1, <1>3, <1>5 DEF ClientUpdate, cached
<1>10. /\ DOMAIN device' = Dps /\ \A d \in Dps : Sound(d, device'[d])
       /\ reports' \in Seq(SoundReports)
  BY <1>2, <1>8, <1>9, AppliedIsSound
<1>11. PICK w : w = [want[dp] EXCEPT ![f] = v]
  OBVIOUS
<1>12. Valid(dp, w) /\ want' = [want EXCEPT ![dp] = w]
  BY <1>2, <1>9, <1>11, ReplacedIsValid DEF PayloadInv
<1>13. DOMAIN want' = Dps /\ \A d \in Dps : Valid(d, want'[d])
  BY <1>2, <1>12, WantedIsValid
<1> QED
  BY <1>9, <1>10, <1>13 DEF PayloadInv

\* A report is kept by the bean, and by the thread that is to merge it.
LEMMA ReportSound == ASSUME PayloadInv, Report PROVE PayloadInv'
<1>1. PICK r : r = Head(reports)
  OBVIOUS
<1>2. r \in SoundReports /\ reports' \in Seq(SoundReports)
  BY <1>1 DEF Report, PayloadInv
<1>3. PICK dp, bytes : dp = r[1] /\ bytes = r[2]
  OBVIOUS
<1>4. dp \in Dps /\ bytes \in Seq(Byte) /\ Sound(dp, bytes)
  BY <1>2, <1>3 DEF SoundReports
<1>5. SoundValue(dp, Spelled(bytes))
  BY <1>4 DEF SoundValue, Spelled, PayloadInv
<1>6. /\ bean' = [bean EXCEPT ![dp] = Spelled(bytes)]
      /\ UNCHANGED <<device, states, repo, pending, want, form>>
  BY <1>1, <1>3 DEF Report
<1>7. SoundState(bean')
  BY <1>4, <1>5, <1>6, PutIsSound DEF PayloadInv
<1>8. merging' # <<>> => /\ merging' \in [dp : Dps, bytes : Seq(Byte), seen : States]
                         /\ Sound(merging'.dp, merging'.bytes) /\ SoundState(merging'.seen)
  <2>1. merging' = merging \/ merging' = [dp |-> dp, bytes |-> bytes, seen |-> states]
    BY <1>1, <1>3 DEF Report
  <2>2. CASE merging' = merging
    BY <2>2 DEF PayloadInv
  <2>3. CASE merging' = [dp |-> dp, bytes |-> bytes, seen |-> states]
    BY <1>4, <2>3 DEF PayloadInv, SoundState
  <2> QED
    BY <2>1, <2>2, <2>3
<1>9. asking' # <<>> => asking' \in [state : States, late : SUBSET Dps] /\ SoundState(asking'.state)
  <2>1. CASE asking = <<>>
    BY <2>1 DEF Report, Overtake
  <2>2. CASE asking # <<>>
    <3>1. PICK st, l : asking = [state |-> st, late |-> l] /\ st \in States /\ l \subseteq Dps
      BY <2>2 DEF PayloadInv
    <3>2. asking' = [state |-> st, late |-> l \cup {dp}]
      BY <1>1, <1>3, <2>2, <3>1 DEF Report, Overtake
    <3> QED
      BY <1>4, <2>2, <3>1, <3>2 DEF PayloadInv
  <2> QED
    BY <2>1, <2>2
<1> QED
  BY <1>2, <1>6, <1>7, <1>8, <1>9 DEF PayloadInv

\* What the thread merges takes the place of the cached state.
LEMMA MergedSound == ASSUME PayloadInv, Merged PROVE PayloadInv'
<1>1. PICK m : m = merging
  OBVIOUS
<1>2. m.dp \in Dps /\ Sound(m.dp, m.bytes) /\ SoundState(m.seen)
  BY <1>1 DEF Merged, PayloadInv
<1>3. SoundValue(m.dp, Spelled(m.bytes))
  BY <1>2 DEF SoundValue, Spelled, PayloadInv
<1>4. /\ merging' = <<>> /\ states' = [m.seen EXCEPT ![m.dp] = Spelled(m.bytes)]
      /\ UNCHANGED <<device, reports, bean, repo, pending, asking, want, form>>
  BY <1>1 DEF Merged
<1>5. SoundState(states')
  BY <1>2, <1>3, <1>4, PutIsSound
<1> QED
  BY <1>4, <1>5 DEF PayloadInv

\* A query reads the bean and the state.
LEMMA AskSound ==
    ASSUME PayloadInv, PlainTypes, NEW dp, NEW made, Ask(dp, made) PROVE PayloadInv'
<1>1. PICK old : old = IF instance THEN states ELSE Unknown
  OBVIOUS
<1>2. PICK late : late = {d \in missed : bean[d] = NoValue}
  OBVIOUS
<1>3. /\ asking' = <<>> \/ asking' = [state |-> ReadDeviceDps(old), late |-> late]
      /\ states' = states \/ states' = Unknown
      /\ UNCHANGED <<device, reports, bean, repo, pending, merging, want, form>>
  BY <1>1, <1>2 DEF Ask, Make
<1>4. SoundState(ReadDeviceDps(old))
  BY <1>1, KnownIsSound DEF PayloadInv
<1>5. late \subseteq Dps
  BY <1>2 DEF PlainTypes
<1>6. asking' # <<>> => asking' \in [state : States, late : SUBSET Dps] /\ SoundState(asking'.state)
  <2>1. CASE asking' = [state |-> ReadDeviceDps(old), late |-> late]
    BY <1>4, <1>5, <2>1 DEF SoundState
  <2> QED
    BY <1>3, <2>1
<1>7. SoundState(states')
  BY <1>3, KnownIsSound DEF PayloadInv
<1> QED
  BY <1>3, <1>6, <1>7 DEF PayloadInv

\* A query writes what it has read.
LEMMA AskEndsSound == ASSUME PayloadInv, AskEnds PROVE PayloadInv'
<1>1. /\ asking' = <<>> /\ states' = asking.state /\ asking # <<>>
      /\ UNCHANGED <<device, reports, bean, repo, pending, merging, want, form>>
  BY DEF AskEnds
<1> QED
  BY <1>1 DEF PayloadInv

\* The repository keeps the value of a command.
LEMMA SettleSound == ASSUME PayloadInv, NEW t \in Tasks, Settle(t) PROVE PayloadInv'
<1>1. PICK c : c = pending[t]
  OBVIOUS
<1>2. c \in SoundCommands
  BY <1>1 DEF Settle, PayloadInv
<1>3. PICK dp, v : dp = c[1] /\ v = c[2]
  OBVIOUS
<1>4. dp \in Dps /\ SoundValue(dp, v)
  BY <1>2, <1>3 DEF SoundCommands
<1>5. /\ repo' = [repo EXCEPT ![dp] = v] /\ pending' = [pending EXCEPT ![t] = <<>>]
      /\ UNCHANGED <<device, reports, bean, states, want, merging, asking, form>>
  BY <1>1, <1>3 DEF Settle
<1>6. SoundState(repo')
  BY <1>4, <1>5, PutIsSound DEF PayloadInv
<1>7. pending' \in [Tasks -> {<<>>} \cup SoundCommands]
  BY <1>5 DEF PayloadInv
<1> QED
  BY <1>5, <1>6, <1>7 DEF PayloadInv

\* The steps that send nothing.
LEMMA QuietSound ==
    ASSUME PayloadInv, UNCHANGED <<device, reports, repo, pending, want, merging, asking, form>>,
           bean' \in {bean, Unknown, Current}, states' \in {states, Unknown}
    PROVE  PayloadInv'
  BY KnownIsSound DEF PayloadInv

\* The outcomes of a cascade reach the device a natural number of times.
LEMMA OutcomesAreNat == \A out \in TextOutcomes \cup ByteOutcomes : out.taken \in Nat
  BY TakenIsNat DEF TextOutcomes, ByteOutcomes

\* Every step keeps whatever is kept sound.
LEMMA PayloadStep == ASSUME PayloadInv, PlainTypes, [Next]_vars PROVE PayloadInv'
<1>1. ASSUME NEW t \in Tasks, NEW made \in BOOLEAN,
             \/ \E c \in Changes, out \in TextOutcomes : Set(t, c, made, out)
             \/ \E dp \in Dps, p \in Payloads, out \in TextOutcomes \cup ByteOutcomes :
                  Overwrite(t, dp, p, made, out)
             \/ \E out \in TextOutcomes : SetOperationMode(t, made, out)
      PROVE  PayloadInv'
  BY <1>1, OutcomesAreNat, SetSound, OverwriteSound, TextSound
<1>2. ASSUME \/ \E t \in Tasks : Settle(t)
             \/ \E c \in Changes : ClientUpdate(c)
             \/ Report \/ Merged
             \/ \E dp \in Dps, made \in BOOLEAN : Ask(dp, made)
             \/ AskEnds
      PROVE  PayloadInv'
  BY <1>2, SettleSound, ClientSound, ReportSound, MergedSound, AskSound, AskEndsSound
<1>3. CASE \/ \E l \in Listeners, made \in BOOLEAN : RegisterListener(l, made)
           \/ \E made \in BOOLEAN : BatchQuery(made)
  <2>1. /\ UNCHANGED <<device, reports, repo, pending, want, bean, merging, asking, form>>
        /\ states' = states \/ states' = Unknown
    BY <1>3 DEF RegisterListener, BatchQuery, Make
  <2> QED
    BY <2>1, QuietSound
<1>4. CASE \/ \E l \in Listeners, works \in BOOLEAN : UnregisterListener(l, works)
           \/ \E works \in BOOLEAN : OnRemoved(works)
           \/ BeanLoads \/ UNCHANGED vars
  <2>1. /\ UNCHANGED <<device, reports, repo, pending, want, merging, asking, form>>
        /\ bean' = bean \/ bean' = Unknown \/ bean' = Current
        /\ states' = states \/ states' = Unknown
    BY <1>4 DEF UnregisterListener, OnRemoved, BeanLoads, cached, vars
  <2> QED
    BY <2>1, QuietSound
<1> QED
  BY <1>1, <1>2, <1>3, <1>4 DEF Next

\* The rest of the types.
LEMMA PlainStep == ASSUME PayloadInv, PlainTypes, [Next]_vars PROVE PlainTypes'
<1> USE ControlAssumption
<1>1. ASSUME NEW t \in Tasks, NEW made \in BOOLEAN, NEW out \in TextOutcomes \cup ByteOutcomes,
             \/ \E c \in Changes : Set(t, c, made, out)
             \/ \E dp \in Dps, p \in Payloads : Overwrite(t, dp, p, made, out)
             \/ SetOperationMode(t, made, out)
      PROVE  PlainTypes'
  <2>1. /\ UNCHANGED <<attached, bridge, listeners>>
        /\ instance' = (instance \/ made)
        /\ missed' = {} \/ missed' = missed
    BY <1>1 DEF Set, Overwrite, SetOperationMode, Make
  <2>2. blind' \in BOOLEAN
    BY <1>1 DEF PlainTypes, Set, Overwrite, SetOperationMode
  <2>3. instance' \in BOOLEAN
    BY <2>1
  <2>4. sets' \in 0..MaxSets
    <3>1. PICK k : k = Cost(out)
      OBVIOUS
    <3>2. k \in Nat \ {0}
      BY <3>1, OutcomesAreNat DEF Cost
    <3>3. \/ sets + k <= MaxSets /\ sets' = sets + k
          \/ sets < MaxSets /\ sets' = sets + 1
      BY <1>1, <3>1 DEF Set, Overwrite, SetOperationMode
    <3> QED
      BY <3>2, <3>3 DEF PlainTypes
  <2> QED
    BY <2>1, <2>2, <2>3, <2>4 DEF PlainTypes
<1>2. CASE \E c \in Changes : ClientUpdate(c)
  BY <1>2 DEF PlainTypes, ClientUpdate, control
<1>3. CASE Report
  <2>1. PICK r : r = Head(reports)
    OBVIOUS
  <2>2. r[1] \in Dps
    <3>1. r \in SoundReports
      BY <1>3, <2>1 DEF Report, PayloadInv
    <3> QED
      BY <3>1 DEF SoundReports
  <2>3. missed' \in {missed, missed \cup {r[1]}}
    BY <1>3, <2>1 DEF Report
  <2> QED
    BY <1>3, <2>2, <2>3 DEF PlainTypes, Report, control
<1>4. CASE \E l \in Listeners, made \in BOOLEAN : RegisterListener(l, made)
  <2>1. PICK l \in Listeners, made \in BOOLEAN : RegisterListener(l, made)
    BY <1>4
  <2>2. /\ attached' \subseteq attached \cup {"proxy", "simple"}
        /\ bridge' \in {bridge, "proxy", "simple"} /\ listeners' \subseteq listeners \cup {l}
    BY <2>1 DEF RegisterListener, Bridge, Attach
  <2>3. /\ instance' = (instance \/ made) /\ missed' \subseteq missed /\ UNCHANGED <<blind, sets>>
    BY <2>1 DEF RegisterListener, Make
  <2>4. instance' \in BOOLEAN
    BY <2>3
  <2> QED
    BY <2>2, <2>3, <2>4 DEF PlainTypes
<1>5. CASE \/ \E l \in Listeners, works \in BOOLEAN : UnregisterListener(l, works)
           \/ \E works \in BOOLEAN : OnRemoved(works)
  BY <1>5 DEF PlainTypes, UnregisterListener, OnRemoved, UnregisterSdk
<1>6. CASE \/ \E made \in BOOLEAN : BatchQuery(made)
           \/ \E dp \in Dps, made \in BOOLEAN : Ask(dp, made)
  <2>1. /\ UNCHANGED <<attached, bridge, listeners, blind, sets>> /\ missed' \subseteq missed
        /\ \E made \in BOOLEAN : instance' = (instance \/ made)
    BY <1>6 DEF BatchQuery, Ask, Make
  <2>2. instance' \in BOOLEAN
    BY <2>1
  <2> QED
    BY <2>1, <2>2 DEF PlainTypes
<1>7. CASE (\E t \in Tasks : Settle(t)) \/ BeanLoads \/ UNCHANGED vars
  BY <1>7 DEF PlainTypes, Settle, BeanLoads, control, vars
<1>8. CASE Merged
  BY <1>8 DEF PlainTypes, Merged, control
<1>9. CASE AskEnds
  <2>1. missed' \subseteq Dps
    BY <1>9 DEF AskEnds, PayloadInv
  <2> QED
    BY <1>9, <2>1 DEF PlainTypes, AskEnds, control
<1> QED
  BY <1>1, <1>2, <1>3, <1>4, <1>5, <1>6, <1>7, <1>8, <1>9 DEF Next

\* Types of the control surface: every payload the device is given, blind writers' included,
\* has its full length and decodes to valid settings, and so does every payload that is cached,
\* reported or on its way to the repository (helper.py, _update_packed_payload; dps.py,
\* normalize_bytes).
THEOREM ControlTypes == Spec => [](TypeOK /\ PayloadInv)
<1>1. Init => PayloadInv /\ PlainTypes
  <2> SUFFICES ASSUME Init PROVE PayloadInv /\ PlainTypes
    OBVIOUS
  <2>1. PICK p \in Payloads : device = [dp \in Dps |-> Normalize(dp, p[dp])]
    BY DEF Init
  <2>2. DOMAIN device = Dps /\ \A dp \in Dps : Sound(dp, device[dp])
    BY <2>1, GivenIsValid DEF Sound
  <2>3. SoundState(Unknown)
    BY DEF SoundState, SoundValue, States, Unknown, Values
  <2>4. SoundState(Current)
    <3>1. form \in {"raw", "base64"}
      BY DEF Init
    <3>2. \A dp \in Dps : SoundValue(dp, Spelled(device[dp]))
      BY <2>2, <3>1 DEF SoundValue, Spelled
    <3>3. \A dp \in Dps : Spelled(device[dp]) \in Values
      BY <3>2, SoundBytes, ControlAssumption
    <3> QED
      BY <3>2, <3>3 DEF SoundState, States, Current
  <2>5. SoundState(bean) /\ SoundState(states) /\ SoundState(repo)
    BY <2>3, <2>4 DEF Init
  <2>6. DOMAIN want = Dps /\ \A dp \in Dps : Valid(dp, want[dp])
    BY <2>2 DEF Init, Sound
  <2>7. reports \in Seq(SoundReports) /\ pending \in [Tasks -> {<<>>} \cup SoundCommands]
    BY DEF Init
  <2>8. PlainTypes
    <3>1. sets \in 0..MaxSets
      BY ControlAssumption DEF Init
    <3> QED
      BY <3>1 DEF Init, PlainTypes
  <2>9. merging = <<>> /\ asking = <<>> /\ form \in {"raw", "base64"}
    BY DEF Init
  <2> QED
    BY <2>2, <2>5, <2>6, <2>7, <2>8, <2>9 DEF PayloadInv
<1>2. PayloadInv /\ PlainTypes /\ [Next]_vars => PayloadInv' /\ PlainTypes'
  BY PayloadStep, PlainStep
<1>3. PayloadInv /\ PlainTypes => TypeOK
  <2> SUFFICES ASSUME PayloadInv, PlainTypes PROVE TypeOK
    OBVIOUS
  <2>1. ASSUME NEW dp \in Dps
        PROVE  /\ device[dp] \in Seq(Byte) /\ Len(device[dp]) = Width[dp]
               /\ {bean[dp], states[dp], repo[dp]} \subseteq Values
               /\ DOMAIN want[dp] = DOMAIN Decode(dp, << >>)
    <3>1. dp \in Packed
      BY ControlAssumption
    <3>2. PICK x, n : x = device[dp] /\ n = Width[dp]
      OBVIOUS
    <3>3. n \in Nat /\ x \in [1..n -> Byte]
      BY <3>1, <3>2, Widths DEF Packed, PayloadInv, Sound
    <3>4. x \in Seq(Byte) /\ Len(x) = n
      BY <3>3
    <3>5. {bean[dp], states[dp], repo[dp]} \subseteq Values
      BY <3>1, SoundBytes DEF PayloadInv, SoundState
    <3>6. DOMAIN want[dp] = DOMAIN Decode(dp, << >>)
      BY <3>1, EmptyIsValid DEF PayloadInv, Valid
    <3> QED
      BY <3>2, <3>4, <3>5, <3>6
  <2>2. reports \in Seq(Dps \X Seq(Byte))
    BY DEF PayloadInv, SoundReports
  <2>3. pending \in [Tasks -> {<<>>} \cup (Dps \X Values)]
    BY DEF PayloadInv, SoundCommands
  <2>4. /\ merging \in {<<>>} \cup [dp : Dps, bytes : Seq(Byte), seen : States]
        /\ asking \in {<<>>} \cup [state : States, late : SUBSET Dps]
        /\ form \in {"raw", "base64"}
    BY DEF PayloadInv
  <2> QED
    BY <2>1, <2>2, <2>3, <2>4 DEF PlainTypes, TypeOK
<1> QED
  BY <1>1, <1>2, <1>3, PTL DEF Spec
=============================================================================
