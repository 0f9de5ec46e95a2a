---------------------------- MODULE MCAppControl ----------------------------
(* A payload with bytes that the decoders replace by fallbacks, and changes to two of its
   datapoints. *)
EXTENDS AppControl

MCPayloads ==
    {[dp \in Packed |-> CASE dp = "102" -> [i \in 1..29 |-> 200 + i]
                          [] dp = "103" -> <<1, 127, 7, 30, 2, 1, 22, 15, 1, 90>>
                          [] dp = "104" -> <<229, 9, 77>>
                          [] dp = "105" -> <<245, 2, 9, 0, 4, 1, 3>>]}

MCChanges ==
    {<<"102", "oscillation", 2>>, <<"103", "hibernate_duration", 250>>,
     <<"103", "hibernate_start", FALSE>>}

Switches ==
    DOMAIN Toggles102 \cup DOMAIN Bits102 \cup DOMAIN Bits104 \cup {"hibernate_start"}

Sample(f) ==
    IF f \in Switches THEN BOOLEAN
    ELSE IF f = "timezone" THEN {-12, -1, 3} ELSE IF f = "color" THEN {0, 1}
    ELSE IF f = "lock_mask" THEN {0, 5, 15} ELSE IF f = "smooth" THEN 2..7 ELSE 1..3

Settings(dp) ==
    DOMAIN Decode(dp, <<>>) \ {"power_on", "power_off", "press", "hold_3s", "hold_7s"}

SamplePayloads(dp) ==
    {<<>>, <<7, 2>>, [i \in 1..30 |-> (37 * i) % 256], [i \in 1..29 |-> 255], [i \in 1..29 |-> 1]}
      \cup {p[dp] : p \in MCPayloads}

\* encode_dp103 rewrites the whole payload, and cuts times that are none.
ValidTimers(s) == \A t \in {s.power_on, s.power_off} : t[3] <= 23 /\ t[4] <= 59

\* Numbers that a setting is asked for and cannot have.
Beyond(dp, f) ==
    IF f \in {"sensitivity", "range", "delay", "smooth", "timezone", "calibration", "cycle_count",
             "hibernate_duration"}
    THEN {-40, 0, 12, 300} \ SettingValues(dp)[f] ELSE {}

\* The value in a set of numbers that is nearest to v.
Nearest(S, v) ==
    LET Far(n) == IF n < v THEN v - n ELSE n - v IN
    CHOOSE n \in S : \A m \in S : Far(n) <= Far(m)

\* Both code paths (encode_* after decode_*, and the *_bytes_with_* mutators of dps.py), for
\* every setting, on unusual, short and ordinary payloads: the setting that is asked for is
\* read back, and no other one changes.  For a number out of its range, PopurClient's path
\* gives the nearest one (dps.py, clamp), the helper's some number of the range, and neither
\* changes another setting.
CodecKeepsTheRest ==
    (sets = 0 /\ ~instance) => \A dp \in Packed : \A bytes \in SamplePayloads(dp), f \in Settings(dp) :
        LET old == Decode(dp, bytes) IN
        /\ \A v \in Sample(f) :
            LET new == [old EXCEPT ![f] = v] IN
              /\ (dp = "103" => ValidTimers(old)) => Decode(dp, Encode(dp, new, bytes)) = new
              /\ dp # "105" => Decode(dp, Mutate(dp, bytes, f, v)) = new
        /\ \A v \in Beyond(dp, f) :
            LET given == Decode(dp, Encode(dp, [old EXCEPT ![f] = v], bytes))
                got   == Decode(dp, Mutate(dp, bytes, f, v))
            IN  /\ (dp = "103" => ValidTimers(old))
                     => given = [old EXCEPT ![f] = Nearest(SettingValues(dp)[f], v)]
                /\ got[f] \in SettingValues(dp)[f] /\ got = [old EXCEPT ![f] = got[f]]

Symmetry == Permutations(Listeners)
=============================================================================
