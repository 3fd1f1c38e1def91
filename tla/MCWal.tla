-------------------------------- MODULE MCWal --------------------------------
(* Instance of the log: two-record segments, a cap of two segments.          *)
EXTENDS Wal
=============================================================================
