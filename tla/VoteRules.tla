----------------------------- MODULE VoteRules -----------------------------
(***************************************************************************)
(* The arithmetic of voting (core/voting.go): what a VoteResult holds, when *)
(* it may be decided and what the decision is.                              *)
(***************************************************************************)
EXTENDS Integers, FiniteSets

\* (onlineNodes * 2) / 3, an integer division
Threshold(onlineNodes) == (onlineNodes * 2) \div 3

\* The VoteResult that the first voter creates; it counts the peers it sees,
\* never itself.
NewResult(decisionMaker, onlineNodes) ==
  [votes |-> [p \in {} |-> TRUE],   \* peer -> accept or reject
   threshold |-> Threshold(onlineNodes),
   decisionMaker |-> decisionMaker,
   attempts |-> 0,
   consensus |-> FALSE,
   decision |-> FALSE]

VoteResults(peers) ==
  [votes : UNION {[P -> BOOLEAN] : P \in SUBSET peers},
   threshold : Nat, decisionMaker : peers, attempts : Nat,
   consensus : BOOLEAN, decision : BOOLEAN]

\* A peer has one vote: a second one replaces the first.
WithVote(result, peer, decision) ==
  [result EXCEPT !.votes = [p \in DOMAIN @ \cup {peer} |->
                              IF p = peer THEN decision ELSE @[p]]]

TotalVotes(result) == Cardinality(DOMAIN result.votes)

Accepts(result) == Cardinality({p \in DOMAIN result.votes : result.votes[p]})

HasQuorum(result) == TotalVotes(result) >= result.threshold

\* More than half (rounded down) of the votes accept.
Accepted(result) == Accepts(result) > TotalVotes(result) \div 2

Decided(result) == [result EXCEPT !.consensus = TRUE, !.decision = Accepted(result)]

(* selectDecisionMaker(domain, count) reads the list of peers again: the node *)
(* itself when the count was 0, else the peer at hash(domain) % count.  The   *)
(* hash and the order of the list are arbitrary, so any peer may be chosen.   *)

\* The hash is converted to a signed integer first, and Go's remainder has the
\* sign of the dividend.
Indexes(count) == (1 - count) .. (count - 1)

DecisionMakers(node, count, peers) == IF count = 0 THEN {node} ELSE peers

\* The index may be out of the range of the list: negative, or the list has become
\* shorter than the count.
MayPanic(count, peers) ==
  count > 0 /\ \E i \in Indexes(count) : i \notin 0 .. Cardinality(peers) - 1
=============================================================================
