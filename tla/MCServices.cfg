SPECIFICATION SvSpec
CONSTANTS
  MaxErrors = 2
  ModIds = {"m1"}
  MaxLists = 2
  EsFaults = {"import"}
  EnvFile = "/tmp/other_log"
  EnvDest = 3
  EnvLevel = 4
  MaxPosts = 3
  Clients = {c1, c2}
  Services = {s1, s2}
  Props = {p1, p2}
  Values = {v1}
  MaxCommits = 2
  ScFaults = {"denied", "trans", "instance"}
  Readers = {r1, r2}
  Found <- MCFound
  MaxAsked = 2
  Buffer = 2
SYMMETRY Symmetry
INVARIANTS
  ErrorsAreCounted
  NothingIsLost
  ConversationsAreSound
PROPERTY
  TransactionsAreWhole
CHECK_DEADLOCK FALSE
