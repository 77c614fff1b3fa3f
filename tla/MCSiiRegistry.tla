---------------------------- MODULE MCSiiRegistry ----------------------------
(* Two agents; a document of alice, one of bob, one that is no SII. *)
EXTENDS SiiRegistry

CONSTANTS alice, bob

Papers == {[agentRef |-> alice, version |-> 1],
           [agentRef |-> bob, version |-> 1],
           [agentRef |-> NoSii, version |-> 1]}
=============================================================================
