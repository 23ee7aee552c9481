----------------------------- MODULE MCBaseChannel -----------------------------
(* Two goroutines pushing two items through a channel of capacity two.     *)
EXTENDS BaseChannel
=============================================================================
