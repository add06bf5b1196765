SPECIFICATION TransportSpec
CONSTANTS
  MaxEpoch = 2
  ImKeys = {"im"}
  OpenKinds = {"codex_app", "unknown"}
  MaxSession = 2
  MaxMessage = 2
  ChunksOf <- Layout
  Whole = 2
  Malformed = {}
  QueueCap = 1
  MaxResend = 1
  MaxMoves = 1
  cli = cli
  editor = editor
  Servers = {cli, editor}
  InstallationOf <- OneComputer
  AgentOf <- TwoKinds
  HintTtl = 1
  PingPeriod = 2
  PongTimeout = 5
  MaxLatency = 1
  MaxBlock = 1
  MaxRefresh = 2
  Watched = {cli}
INVARIANTS SelectionIsSound DefaultClientsRegistered NothingForgotten ConnectionsAreKnown
PROPERTIES StreamsStayRouted DeliversInOrder BufferDrains
CONSTRAINT DerivationBound
CHECK_DEADLOCK FALSE
