---------------------------- MODULE MCCollectors ----------------------------
(* The instance of Collectors: MCRelay's origin and vantage points; the    *)
(* numbers of the telemetry server are in the configuration.               *)
EXTENDS MCRelay, Collectors
=============================================================================
