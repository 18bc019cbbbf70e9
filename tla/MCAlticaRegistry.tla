-------------------------- MODULE MCAlticaRegistry --------------------------
(* Two names, two accounts, a clock of six ticks: long enough for a name to  *)
(* be bound, to expire and to be submitted again by somebody else.           *)
EXTENDS AlticaRegistry, TLC

Symmetric == Permutations(Names) \cup Permutations(Addresses)
=============================================================================
