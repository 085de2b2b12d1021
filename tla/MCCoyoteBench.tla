--------------------------- MODULE MCCoyoteBench ----------------------------
(***************************************************************************)
(* Small instance of CoyoteBench: two message sizes, each with a bench of  *)
(* three transfers (throughput) and one of a single transfer (latency).    *)
(***************************************************************************)
EXTENDS CoyoteBench

MCTransfers == <<3, 1, 3, 1>>
=============================================================================
