-------------------------- MODULE OrderbookStreamMC --------------------------
(* Instances of OrderbookStream for TLC, and the code's mistakes its properties catch. *)
EXTENDS OrderbookStream, TLC
=============================================================================
