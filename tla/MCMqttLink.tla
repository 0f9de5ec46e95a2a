---------------------------- MODULE MCMqttLink -----------------------------
EXTENDS MqttLink
============================================================================
