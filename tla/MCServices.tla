----------------------------- MODULE MCServices -----------------------------
(* The services of Main, for TLC. *)
EXTENDS Services

Registered == <<"profiling", "telemetry">>
=============================================================================
