SPECIFICATION ScSpec
CONSTANTS
  Clients = {c1, c2}
  Services = {s1, s2}
  Props = {p1, p2}
  Values = {v1, v2}
  MaxCommits = 2
  ScFaults = {"denied", "trans", "instance"}
PROPERTY
  SuccessMeansStored
CHECK_DEADLOCK FALSE
