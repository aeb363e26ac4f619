----------------------------- MODULE MC_Disagg ------------------------------
(* Instances of SentinelDaemon, and of the proxy it probes, for TLC.       *)
EXTENDS SentinelDaemon
=============================================================================
