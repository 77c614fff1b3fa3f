------------------------------- MODULE MCRegister -------------------------------
(* Instances of Register for TLC: one account besides the service's,
   with code. *)
EXTENDS Register, TLC

CONSTANTS User, s1, s2

Symmetry == Permutations(Handlers) \cup Permutations(Keys)

MCAccounts == {Service, User}
MCUris == Document \cup {Placeholder}
=============================================================================
