---------------------------- MODULE MC_MqttClient ----------------------------
(* The MQTT client with one relay, short timeouts and a short queue. *)
EXTENDS MqttClient
=============================================================================
