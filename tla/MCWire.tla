--------------------------------- MODULE MCWire ---------------------------------
(* Instances of Wire for TLC: plain texts, and texts whose two ends differ. *)
EXTENDS Wire

PlainTexts == {[bom |-> FALSE, lone |-> FALSE]}
OddTexts == PlainTexts \cup {[bom |-> TRUE, lone |-> TRUE]}
=============================================================================
