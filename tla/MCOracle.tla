------------------------------ MODULE MCOracle ------------------------------
(* One name, whose record belongs to a1 or a2, and a third account.          *)
EXTENDS Oracle

CONSTANTS a1, a2, a3

MCAddresses == {a1, a2, a3}
\* No decision depends on what a name is bound to: one resolver will do.
MCResolvers == {a1}
MCSigners == [x \in Names |-> {a1, a2}]
=============================================================================
