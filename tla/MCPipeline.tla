----------------------------- MODULE MCPipeline -----------------------------
EXTENDS Pipeline

MCModeLists == {<<"LAN", "MQTT", "HTTP">>, <<"MQTT", "HTTP">>, <<"BLE">>, <<"THING_BEACON", "CLOUD_MODE">>,
                <<"OTHER">>, <<>>}
=============================================================================
