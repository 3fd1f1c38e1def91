----------------------------- MODULE MCDelivery -----------------------------
(* Instance of the ingest path: a window as wide as the bitmap, so that its  *)
(* edge is reached, and streams that overlap.  The liveness run has a window *)
(* of one, so that most of the log lies further than that from its end.      *)
EXTENDS Delivery
=============================================================================
