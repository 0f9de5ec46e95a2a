----------------------------- MODULE MCInbound -----------------------------
EXTENDS Inbound

Msg(topic, form, s, o, value, time) ==
    [topic |-> topic, form |-> form, s |-> s, o |-> o, value |-> value, time |-> time, valid |-> TRUE]

\* Two reports with the same first number, one that spells like the first of them, one that
\* is not filtered, an invalid one, and the topics and forms that go another way.
MCMessages ==
    {Msg("device", "2.3", <<1>>, <<2, 3>>, 1, 1), Msg("device", "2.2", <<1>>, <<4>>, 2, 2),
     Msg("device", "1.1", <<1, 2>>, <<3>>, 1, 2), Msg("device", "2.1", <<1>>, <<0>>, 1, 0),
     [Msg("user", "json", <<5>>, <<6>>, 3, 0) EXCEPT !.valid = FALSE],
     Msg("yu", "json", <<7>>, <<8>>, 0, 0), Msg("flow", "json", <<7>>, <<8>>, 0, 0)}

MCFrames ==
    {[type |-> t, lpv |-> l, code |-> c, good |-> g, about |-> a, value |-> 1] :
       t \in {"STATUS", "DP_QUERY", "OTHER"}, l \in {"3.4", "3.3"}, c \in {0, 1}, g \in BOOLEAN,
       a \in {"device", "group"}}

Plain == [known |-> TRUE, null |-> FALSE, ble |-> "no", near |-> FALSE, online |-> TRUE,
          first |-> FALSE, yu |-> FALSE, lowPower |-> FALSE, key |-> TRUE, schema |-> "raw"]

MCDevices ==
    {Plain, [Plain EXCEPT !.known = FALSE], [Plain EXCEPT !.yu = TRUE],
     [Plain EXCEPT !.lowPower = TRUE, !.schema = "other"],
     [Plain EXCEPT !.key = FALSE, !.schema = "none"],
     [Plain EXCEPT !.ble = "dual", !.near = TRUE]}

Budget(mqtt, lan, log, tick) ==
    [e \in Events |-> CASE e = "mqtt" -> mqtt [] e = "lan" -> lan [] e = "log" -> log [] e = "tick" -> tick]

MCBudgets == {Budget(4, 0, 0, 2), Budget(1, 3, 2, 0), Budget(0, 0, 6, 0)}
=============================================================================
