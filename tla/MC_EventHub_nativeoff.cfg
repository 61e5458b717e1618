\* One hub whose native hub removes registrations with offByNativeContext.
CONSTANTS
  Hubs = {h1}
  Events = {e1, e2}
  BadEvents = {}
  AsString <- AsStringColliding
  Callbacks = {c1, c2}
  Vals = {v1}
  NoEntry = NoEntry
  NoCallback = NoCallback
  Native = Native
  ContextIndex <- SharedContextIndex
  MaxArgs = 1
  MaxDepth = 2
  MaxEmits = 2
SPECIFICATION Spec
INVARIANT NoDuplicateDelivery
CONSTRAINT HandlerBound
