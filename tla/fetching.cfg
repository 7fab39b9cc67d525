SPECIFICATION Spec
CONSTANTS
  Instance = {here, there}
  Self = here
  Peer = there
  Item = {1, 2, 3}
  Stored = {1, 2}
  Home <- MCHome
  Request <- MCRequest
  Limit = 1
  PeerLimit <- MCPeerLimit
  Fetcher = {f1}
  Writer = {w1}
  MaxCommits = 2
CHECK_DEADLOCK FALSE
INVARIANTS TypeOK AnswersAreExact SweptAfterCommit
