---------------------------- MODULE MCAppLifecycle ----------------------------
(* Instance of AppLifecycle.                                              *)
EXTENDS AppLifecycle

\* Around the last moment at which the device-registry can be up in time.
MCUps == {0, 3} \union {Window - MaxBackoff - FetchTimeout + d : d \in {0, 1}} \union {Window + 5}
================================================================================
