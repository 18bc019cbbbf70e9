SPECIFICATION Spec
CONSTANTS
  None = None
  n1 = n1
  n2 = n2
  d1 = d1
  d2 = d2
  r1 = r1
  r2 = r2
  r3 = r3
  r4 = r4
  u1 = u1
  indexKey = indexKey
  Nodes = {n1}
  Voters = {n1}
  Domains = {d1, d2}
  Keys <- MCKeys
  Requests = {r1, r4}
  Updates = {}
  NodeOf <- AllOnOneNode
  DomainOf <- TwoDomains
  MaxIndexAttempts = 5
  Faults = {}
  Crashes = {}
  MayLapse = {}
INVARIANT RejectedNotMined
\* Once every request has been dealt with, nothing is left to do.
CHECK_DEADLOCK FALSE
