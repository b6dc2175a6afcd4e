----------------------------- MODULE MCChannel -----------------------------
(* One run with one reconnection, whose job asks twice, possibly at the    *)
(* same time, beside the connection an earlier command may have left       *)
(* behind; two failures.                                                   *)
EXTENDS Channel
=============================================================================
