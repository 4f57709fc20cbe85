---------------------------- MODULE MCTraceHedge ---------------------------
(* TraceHedge with the three endpoints of NewCloudflareTrace. *)
EXTENDS TraceHedge
=============================================================================
