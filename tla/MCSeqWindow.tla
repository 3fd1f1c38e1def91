----------------------------- MODULE MCSeqWindow -----------------------------
(* Instance of the de-duplicator: every order, gap and repetition of a few   *)
(* more seqs than the window is wide, over two boots.                        *)
EXTENDS SeqDedup
=============================================================================
