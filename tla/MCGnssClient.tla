---------------------------- MODULE MCGnssClient ----------------------------
(***************************************************************************)
(* The NMEA handlers of the library, or two of them for the run with every *)
(* failure, and the handlers of an MQTT and an SMS client.                 *)
(***************************************************************************)
EXTENDS GnssClient

Talkers == <<"$GP", "$GA", "$GB", "$GN", "$GL", "$BD">>
TwoTalkers == <<"$GP", "$GN">>
OtherClients == {"mqttRx", "smsRx"}
=============================================================================
