---------------------------- MODULE MCDomainLock ----------------------------
(* Two keys: "local" is contended for on one node only, "shared" on two.     *)
EXTENDS DomainLock

CONSTANTS n1, n2, local, shared, s1, s2, s3, s4, s5

MCNodes == {n1, n2}
MCKeys == {local, shared}
MCSessions == {s1, s2, s3, s4, s5}
MCKeyOf == [s \in MCSessions |-> IF s \in {s1, s2, s3} THEN local ELSE shared]
MCHome == [s \in MCSessions |-> IF s = s5 THEN n2 ELSE n1]
MCReleaser == [s \in MCSessions |-> IF s \in {s1, s5} THEN n2 ELSE n1]
=============================================================================
