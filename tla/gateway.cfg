SPECIFICATION MCSpec
CONSTANTS
  r1 = r1
  r2 = r2
  r3 = r3
  p1 = p1
  c1 = c1
  c2 = c2
  p2 = p2
  chat1 = chat1
  Requests = {r1, r2, r3}
  Providers = {p1, p2}
  Responses = {p1}
  Sessions = {chat1}
  NoSession = NoSession
  NoRoute = NoRoute
  Weight <- Weights
  Hash <- Scores
  Threshold = 2
  Cooldown = 1
  Ttl = 1
  Capacity = 3
  Retries = 1
  MaxClock = 2
  MaxEvent = 1
  Slots = {0, 1, 2}
  MaxChunk = 3
  MaxRound = 2
  Ids = {c1, c2}
  NoId = NoId
  MaxItem = 6
  MaxLoose = 5
  Declared <- MCDeclared
  Loadable <- MCLoadable
  Upstreams = {"codex", "xai", "deepseek", "kimi", "glm"}
  TypeOf <- MCTypeOf
  NameLimit = 5
  HashLength = 2
  MaxTold = 3
INVARIANTS LogIsTrue BlacklistIsEarned RoundsAreComplete NamesHold
PROPERTIES LogSettles AnswersAreResponses
