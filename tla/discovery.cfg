SPECIFICATION ControlSpec
CONSTANTS
  MaxEpoch = 2
  OpenKinds = {"cli", "unknown"}
  im = im
  ImKeys = {im}
  Callers = {c1}
  KeyOf <- RouteOrDefault
  Targeted = {c1}
  Idempotent = {}
  Slots = {}
  QueueCap = 1
  Cancellable = {}
INVARIANTS NoStaleInitialize OwnInitializeIsSent
PROPERTIES RegistrySpec
