---------------------------- MODULE MC_MqttClient ----------------------------
(* Small instances of MqttClient for TLC. *)
EXTENDS MqttClient

=============================================================================
