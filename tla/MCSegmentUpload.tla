--------------------------- MODULE MCSegmentUpload ---------------------------
(* Instance of the heavy path: two clips of two parts, and runs that die.    *)
EXTENDS SegmentUpload
=============================================================================
