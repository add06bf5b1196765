SPECIFICATION ConversationsSpec
CONSTANTS
  c1 = c1
  c2 = c2
  r1 = r1
  r2 = r2
  r3 = r3
  r4 = r4
  m1 = m1
  Convs = {c1, c2}
  Requests = {r1, r2, r3, r4}
  Replies = {m1}
  ConvOf <- TwoConversations
  IdOf <- SharedId
  PlatformOf <- FeishuAndTelegram
  MaxAsks = 1
  MaxWire = 2
  Offers <- UpToTwo
  MaxAsked = 2
  h1 = h1
  h2 = h2
  t1 = t1
  t2 = t2
  Handlers = {h1, h2}
  Platforms = {"telegram", "wechat", "feishu"}
  Listings <- TwoListings
  Options <- TwoFields
  PageSize = 2
  MaxRequest = 2
  MaxPage = 2
  MaxInput = 6
  Events = {"e1", "e2"}
  KindOf <- OneAction
  Periods = {2, 5}
  Silence = 4
  CheckPeriod = 2
  Pause = 1
  MaxLatency = 1
  MaxDownload = 1
  MaxBreak = 1
INVARIANTS OneIsPrompted NumbersMeanWhatWasShown NothingIsMissed WordsKeepTheirMeaning
CHECK_DEADLOCK FALSE
SYMMETRY Symmetry
