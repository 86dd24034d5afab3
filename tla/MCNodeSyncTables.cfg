\* Two nodes, two groups, one subscriber with two keys; a report
\* of each node in flight together, up to two booked, one admin write or restart.
SPECIFICATION FairSpec
CONSTANTS
  n1 = n1
  n2 = n2
  g1 = g1
  g2 = g2
  k1 = k1
  k2 = k2
  u1 = u1
  Nodes = {n1, n2}
  Users = {u1}
  Groups = {g1, g2}
  Keys = {k1, k2}
  StartUsers <- Subscribers
  StartServers <- TwoNodes
  Quotas = {1}
  NoKey = NoKey
  Idle = Idle
  MaxPushes = 2
  MaxUsed = 2
  MaxEdits = 1
INVARIANT EtagTruthful
PROPERTIES LeavesNode UsedUpLeaves
CHECK_DEADLOCK FALSE
