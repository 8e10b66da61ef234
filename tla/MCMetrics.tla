------------------------------ MODULE MCMetrics ------------------------------
(* MetricsProperties on a small instance for TLC.                          *)
EXTENDS MetricsProperties, TLC
=============================================================================
