------------------------------- MODULE MCClient -------------------------------
(* Instances of Client for TLC: the relay lists of a recipient with two        *)
(* relays, one of which it may drop.                                           *)
EXTENDS Client

CONSTANTS r1, r2

Both == {<<r1, r2>>}
BothOrOne == {<<r1, r2>>, <<r2>>}
NoOwn == <<>>
OwnBoth == <<r1, r2>>
=============================================================================
