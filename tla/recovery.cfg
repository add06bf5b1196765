SPECIFICATION FairControlSpec
CONSTANTS
  MaxEpoch = 1
  OpenKinds = {"cli"}
  im = im
  ImKeys = {im}
  Callers = {c1}
  KeyOf <- RouteOrDefault
  Targeted = {}
  Idempotent = {c1}
  Slots = {x1}
  QueueCap = 2
  Cancellable = {c1}
INVARIANTS RequestsAreTracked
PROPERTIES EveryCallReturns
