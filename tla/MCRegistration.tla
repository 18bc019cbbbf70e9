--------------------------- MODULE MCRegistration ---------------------------
(* Requests for one or two domains, received by one or two nodes.            *)
EXTENDS Registration, TLC

CONSTANTS n1, n2, d1, d2, r1, r2, r3, r4, u1

MCKeys == Domains \cup {indexKey}

\* All requests reach n1; r4 asks for d2, if there is one, the others for d1.
AllOnOneNode == [r \in Requests \cup Updates |-> n1]
\* r2 reaches the other node.
OnTwoNodes == [r \in Requests \cup Updates |-> IF r = r2 THEN n2 ELSE n1]

\* The requests for d1 are interchangeable when they reach the same node.
SymmetricRequests == Permutations({r1, r2, r3})
SymmetricOnN1 == Permutations({r1, r3})

SameDomain == [r \in Requests \cup Updates |-> d1]
TwoDomains == [r \in Requests \cup Updates |-> IF r = r4 THEN d2 ELSE d1]
=============================================================================
