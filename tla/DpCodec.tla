------------------------------ MODULE DpCodec ------------------------------
(***************************************************************************)
(* The packed settings datapoints (codec.py, dps.py): DP102 system         *)
(* settings, DP103 timers, DP104 dustbin, DP105 keys.  Two code paths      *)
(* rewrite them: PopurClient decodes the payload, replaces fields and      *)
(* encodes it again; the app's helper changes one byte of it.              *)
(*                                                                         *)
(* A value on the wire is missing, a text that does not decode, or bytes;  *)
(* the spellings that both read (hexadecimal, JSON lists) are one value.   *)
(* Byte i of a payload is element i + 1 of its sequence.                   *)
(***************************************************************************)
EXTENDS Integers, Sequences, TLC, SequencesExt

Byte == 0..255

Packed == {"102", "103", "104", "105"}

NoValue    == [kind |-> "none", bytes |-> <<>>]
Text       == [kind |-> "text", bytes |-> <<>>]
Raw(bytes) == [kind |-> "raw", bytes |-> bytes]

Clamp(v, lo, hi) == IF v < lo THEN lo ELSE IF v > hi THEN hi ELSE v

ValidOr(v, lo, hi, d) == IF v \in lo..hi THEN v ELSE d

Flag(on) == IF on THEN 1 ELSE 0

Bit(b, mask) == (b \div mask) % 2 = 1

\* Mutant of SetBit: the mask is added or taken away, whatever the bit was.
AddBit(b, mask, on) == (b + mask * (IF on THEN 1 ELSE -1)) % 256

SetBit(b, mask, on) == b + mask * (Flag(on) - Flag(Bit(b, mask)))

\* normalize_bytes: cut or padded with zeros.
NormalizeBytes(bytes, n) ==
    [i \in 1..n |-> IF i <= Len(bytes) THEN bytes[i] ELSE 0]

\* DP104 is filled up from its default, a short DP105 is replaced by its default.
DP104_DEFAULT == <<5, 1, 5>>
DP105_DEFAULT == <<0, 1, 0, 1, 2, 1, 3>>

NormalizeDp104(bytes) ==
    [i \in 1..3 |-> IF i <= Len(bytes) THEN bytes[i] ELSE DP104_DEFAULT[i]]

Normalize(dp, bytes) ==
    CASE dp = "102" -> NormalizeBytes(bytes, 29)
      [] dp = "103" -> NormalizeBytes(bytes, 10)
      [] dp = "104" -> NormalizeDp104(bytes)
      [] dp = "105" -> IF Len(bytes) >= 7 THEN SubSeq(bytes, 1, 7) ELSE DP105_DEFAULT

-----------------------------------------------------------------------------
(* Decoding: a payload as a function from the names of the settings. *)

\* The settings that are one bit of a byte: <<byte, mask>>.
Bits102 ==
    [automatic |-> <<22, 1>>, sentinel |-> <<22, 2>>, caring |-> <<22, 4>>, track |-> <<22, 64>>,
     self_check |-> <<18, 1>>, bin_full |-> <<18, 2>>, manual |-> <<18, 4>>,
     scheduled |-> <<18, 8>>, automatic_cleaning |-> <<18, 16>>, started |-> <<18, 32>>,
     pet_finished |-> <<18, 64>>, pet_detected |-> <<18, 128>>,
     new_firmware |-> <<27, 1>>, pet_left |-> <<27, 2>>, paused |-> <<27, 4>>,
     resumed |-> <<27, 8>>, reshuffle |-> <<26, 128>>]

\* The settings that are on when their byte is not zero.
Toggles102 ==
    [anti_interference |-> 12, master |-> 19, status_light |-> 20, buzzer |-> 21,
     pro_commands |-> 23, auto_power_cycle |-> 24, lower_speed |-> 25, auto_self_check |-> 28]

\* The settings that are numbers, or an index into a table of labels, and their bytes.
NumberByte102 ==
    [sensitivity |-> 10, range |-> 11, delay |-> 13, smooth |-> 14, timezone |-> 15, color |-> 17,
     oscillation |-> 26]

Settings102 == DOMAIN Toggles102 \cup DOMAIN Bits102 \cup DOMAIN NumberByte102

\* The byte a setting is in.
Place102(f) ==
    CASE f \in DOMAIN Toggles102    -> Toggles102[f]
      [] f \in DOMAIN Bits102       -> Bits102[f][1]
      [] f \in DOMAIN NumberByte102 -> NumberByte102[f]

Signed(b) == IF b > 127 THEN b - 256 ELSE b

Number102(f, b) ==
    CASE f = "sensitivity" -> ValidOr(b, 1, 10, 5)
      [] f = "range"       -> ValidOr(b, 1, 5, 3)
      [] f = "delay"       -> ValidOr(b, 1, 60, 5)
      [] f = "smooth"      -> Clamp(b, 2, 7)
      [] f = "timezone"    -> Clamp(Signed(b), -12, 12)
      [] f = "color"       -> IF b = 1 THEN 1 ELSE 0
      [] f = "oscillation" -> IF b % 128 < 4 THEN b % 128 ELSE 0

\* What a setting is when b is its byte.
Read102(f, b) ==
    CASE f \in DOMAIN Toggles102    -> b # 0
      [] f \in DOMAIN Bits102       -> Bit(b, Bits102[f][2])
      [] f \in DOMAIN NumberByte102 -> Number102(f, b)

DecodeDp102(bytes) ==
    LET raw == Normalize("102", bytes) IN
    [f \in Settings102 |-> Read102(f, raw[Place102(f) + 1])]

DecodeDp103(bytes) ==
    LET raw == Normalize("103", bytes) IN
    [power_on |-> <<raw[1] # 0, raw[2], raw[3], raw[4]>>,
     power_off |-> <<raw[5] # 0, raw[6], raw[7], raw[8]>>,
     hibernate_start |-> raw[9] # 0, hibernate_duration |-> raw[10]]

Bits104 ==
    [bin_full_detection |-> 1, allow_overfill |-> 2, keep_upright |-> 4, dump_override |-> 8,
     block_on_full |-> 16]

Settings104 == DOMAIN Bits104 \cup {"calibration", "cycle_count"}

Read104(f, raw) ==
    CASE f \in DOMAIN Bits104 -> Bit(raw[1], Bits104[f])
      [] f = "calibration"    -> Clamp(raw[2], 0, 3)
      [] f = "cycle_count"    -> ValidOr(raw[3], 1, 10, 5)

DecodeDp104(bytes) == [f \in Settings104 |-> Read104(f, Normalize("104", bytes))]

DecodeDp105(bytes) ==
    LET raw == Normalize("105", bytes) IN
    [lock_mask |-> raw[1] % 16, press |-> <<raw[2] # 0, raw[3]>>,
     hold_3s |-> <<raw[4] # 0, raw[5]>>, hold_7s |-> <<raw[6] # 0, raw[7]>>]

Decode(dp, bytes) ==
    CASE dp = "102" -> DecodeDp102(bytes)
      [] dp = "103" -> DecodeDp103(bytes)
      [] dp = "104" -> DecodeDp104(bytes)
      [] dp = "105" -> DecodeDp105(bytes)

-----------------------------------------------------------------------------
(* What a decoded setting can be: the ranges that the decoders keep to. *)

Numbers102 ==
    [sensitivity |-> 1..10, range |-> 1..5, delay |-> 1..60, smooth |-> 2..7,
     timezone |-> -12..12, color |-> 0..1, oscillation |-> 0..3]

Values102 == [f \in Settings102 |-> IF f \in DOMAIN Numbers102 THEN Numbers102[f] ELSE BOOLEAN]

\* TimerSlice and KeyGesture.  An hour or a minute off the clock is decoded, but not encoded.
Timers   == BOOLEAN \X Byte \X (0..23) \X (0..59)
Gestures == BOOLEAN \X Byte

Values103 ==
    [power_on |-> Timers, power_off |-> Timers, hibernate_start |-> BOOLEAN,
     hibernate_duration |-> Byte]

Values104 ==
    [f \in Settings104 |->
       CASE f \in DOMAIN Bits104 -> BOOLEAN
         [] f = "calibration"    -> 0..3
         [] f = "cycle_count"    -> 1..10]

Values105 == [lock_mask |-> 0..15, press |-> Gestures, hold_3s |-> Gestures, hold_7s |-> Gestures]

SettingValues(dp) ==
    CASE dp = "102" -> Values102
      [] dp = "103" -> Values103
      [] dp = "104" -> Values104
      [] dp = "105" -> Values105

-----------------------------------------------------------------------------
(* Encoding: a changed setting is written over its part of the old payload. *)

\* What is written for a number that has a byte of its own.
NumberTo102(f, v) ==
    CASE f = "sensitivity" -> Clamp(v, 1, 10)
      [] f = "range"       -> Clamp(v, 1, 5)
      [] f = "delay"       -> Clamp(v, 1, 60)
      [] f = "smooth"      -> Clamp(v, 2, 7)
      [] f = "timezone"    -> Clamp(v, -12, 12) % 256
      [] f = "color"       -> v

\* Byte i, which was b, when a setting in it has changed.  The notification bytes are built
\* from the known flags alone; the weight functions keep the bits they do not know.
Write102(i, s, b) ==
    CASE i = 18 -> Flag(s.self_check) + 2 * Flag(s.bin_full) + 4 * Flag(s.manual)
                     + 8 * Flag(s.scheduled) + 16 * Flag(s.automatic_cleaning)
                     + 32 * Flag(s.started) + 64 * Flag(s.pet_finished) + 128 * Flag(s.pet_detected)
      [] i = 22 -> SetBit(SetBit(SetBit(SetBit(b, 1, s.automatic), 2, s.sentinel), 4, s.caring),
                          64, s.track)
      [] i = 26 -> 128 * Flag(s.reshuffle)
                     + IF s.oscillation = Number102("oscillation", b) THEN b % 128 ELSE s.oscillation
      [] i = 27 -> Flag(s.new_firmware) + 2 * Flag(s.pet_left) + 4 * Flag(s.paused) + 8 * Flag(s.resumed)
      [] OTHER  -> LET f == CHOOSE f \in Settings102 : Place102(f) = i IN
                   IF f \in DOMAIN Toggles102 THEN Flag(s[f]) ELSE NumberTo102(f, s[f])

\* A byte none of whose settings differs from the decoded payload is left as it is.
EncodeDp102(s, bytes) ==
    LET old     == Normalize("102", bytes)
        Kept(i) == \A f \in Settings102 : Place102(f) = i => s[f] = Read102(f, old[i + 1])
    IN  [i \in 1..29 |-> IF Kept(i - 1) THEN old[i] ELSE Write102(i - 1, s, old[i])]

EncodeTimer(t) == <<Flag(t[1]), t[2] % 256, Clamp(t[3], 0, 23), Clamp(t[4], 0, 59)>>

EncodeDp103(s) ==
    LET on  == EncodeTimer(s.power_on)
        off == EncodeTimer(s.power_off)
    IN  <<on[1], on[2], on[3], on[4], off[1], off[2], off[3], off[4],
          Flag(s.hibernate_start), Clamp(s.hibernate_duration, 0, 255)>>

\* The switches that are not known keep their bits.
EncodeDp104(s, bytes) ==
    LET old  == Normalize("104", bytes)
        base == DecodeDp104(old)
        b    == SetBit(SetBit(SetBit(old[1], 1, s.bin_full_detection), 2, s.allow_overfill),
                       4, s.keep_upright)
    IN  <<SetBit(SetBit(b, 8, s.dump_override), 16, s.block_on_full),
          IF s.calibration = base.calibration THEN old[2] ELSE Clamp(s.calibration, 0, 3),
          IF s.cycle_count = base.cycle_count THEN old[3] ELSE Clamp(s.cycle_count, 1, 10)>>

EncodeDp105(s) ==
    <<s.lock_mask % 16, Flag(s.press[1]), s.press[2] % 256, Flag(s.hold_3s[1]),
      s.hold_3s[2] % 256, Flag(s.hold_7s[1]), s.hold_7s[2] % 256>>

Encode(dp, settings, bytes) ==
    CASE dp = "102" -> EncodeDp102(settings, bytes)
      [] dp = "103" -> EncodeDp103(settings)
      [] dp = "104" -> EncodeDp104(settings, bytes)
      [] dp = "105" -> EncodeDp105(settings)

-----------------------------------------------------------------------------
(* The helper's mutators: one part of the normalized payload. *)

\* dp102_bytes_with_byte and its callers.
Dp102BytesWithByte(bytes, i, v) == [Normalize("102", bytes) EXCEPT ![i + 1] = v % 256]

Dp102BytesWithToggle(bytes, i, on) == Dp102BytesWithByte(bytes, i, Flag(on))

Dp102BytesWithBit(bytes, i, mask, on) ==
    [Normalize("102", bytes) EXCEPT ![i + 1] = SetBit(@, mask, on)]

Dp102BytesWithOscillation(bytes, v) ==
    [Normalize("102", bytes) EXCEPT ![27] = 128 * (@ \div 128) + (v % 128)]

\* The helper's setter of a DP102 setting.
Mutate102(bytes, f, v) ==
    CASE f \in DOMAIN Toggles102               -> Dp102BytesWithToggle(bytes, Toggles102[f], v)
      [] f \in DOMAIN Bits102                  -> Dp102BytesWithBit(bytes, Bits102[f][1], Bits102[f][2], v)
      [] f \in {"sensitivity", "range", "delay", "color"} ->
           Dp102BytesWithByte(bytes, NumberByte102[f], v)
      [] f = "smooth"                          -> Dp102BytesWithByte(bytes, 14, Clamp(v, 2, 7))
      [] f = "timezone"                        -> Dp102BytesWithByte(bytes, 15, Clamp(v, -12, 12))
      [] f = "oscillation"                     -> Dp102BytesWithOscillation(bytes, v)

\* dp103_with_hibernate_duration and dp103_with_hibernate_start.
Mutate103(bytes, f, v) ==
    CASE f = "hibernate_duration" -> [Normalize("103", bytes) EXCEPT ![10] = v % 256]
      [] f = "hibernate_start"    -> [Normalize("103", bytes) EXCEPT ![9] = Flag(v)]

\* dp104_bytes_with_toggle, _calibration and _cycle_count.
Mutate104(bytes, f, v) ==
    LET old == Normalize("104", bytes) IN
    CASE f \in DOMAIN Bits104 -> [old EXCEPT ![1] = SetBit(@, Bits104[f], v)]
      [] f = "calibration"    -> [old EXCEPT ![2] = Clamp(v, 0, 3)]
      [] f = "cycle_count"    -> [old EXCEPT ![3] = Clamp(v, 1, 10)]

\* The settings that have a mutator; keys are only written whole.
Mutable(dp) ==
    CASE dp = "102" -> Settings102
      [] dp = "103" -> {"hibernate_duration", "hibernate_start"}
      [] dp = "104" -> Settings104
      [] dp = "105" -> {}

Mutate(dp, bytes, f, v) ==
    CASE dp = "102" -> Mutate102(bytes, f, v)
      [] dp = "103" -> Mutate103(bytes, f, v)
      [] dp = "104" -> Mutate104(bytes, f, v)
=============================================================================
