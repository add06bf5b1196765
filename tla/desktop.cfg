SPECIFICATION DesktopSpec
CONSTANTS
  Starts = {1, 2}
  Slots = {2, 3, 4}
  Threshold = 2
  MaxTrouble = 3
  Platforms = {"feishu", "telegram", "wechat"}
  Bots = {1, 2}
  People = {1, 2}
  Nameless = 1
  Tasks = {1}
  MaxChange = 3
  Lists = {2, 3}
  MaxTry = 2
  MaxRefusal = 1
  MaxMove = 5
INVARIANTS ReadyIsStopped ReportLasts
PROPERTIES ServiceComesBack ModelsComeBack BooksAreKept
CHECK_DEADLOCK FALSE
