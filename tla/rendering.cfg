SPECIFICATION RenderingSpec
CONSTANTS
  MaxEvent = 3
  MaxTurn = 2
  TextOf <- Replies
  Works <- Schedules
  WithImage = {1}
  Long = {2}
  MaxFail = 1
  MaxExpire = 1
  MaxRestart = 1
  Outgoing = {1, 2}
  Texts <- TwoTexts
  MaxChars = 6
  Mark = 1
  Lifetimes = {3, 7}
  Skew = 4
  MaxDelay = 1
  MaxTime = 5
  MaxMishap = 2
  c1 = c1
  r = r
  a = a
  b = b
  Convs = {c1}
  t1 = t1
  Threads = {t1}
  Messages = {r, a, b}
  ConvOf <- OneConversation
  CommandsOf <- OneCommandEach
  MaxTurns = 2
  MaxIdle = 1
  MaxAsks = 1
  Lossy = TRUE
INVARIANTS DeliveredOnce SendsAreSound StartingIsOwned
PROPERTIES CardNeverGoesBack CardCatchesUp AllIsSettled StartingEnds
CHECK_DEADLOCK FALSE
