------------------------------ MODULE MCOutbox ------------------------------
(* Two overlapping ticks over two rows: one server takes rows one at a time, *)
(* the other both; two attempts at marking.                                  *)
EXTENDS Outbox, TLC

CONSTANTS w1, w2

MCBatchSize == (w1 :> 1) @@ (w2 :> 2)
=============================================================================
