\* One hub: emitter subscriptions once a listener list has become empty.
CONSTANTS
  Hubs = {h1}
  Events = {e1, e2}
  BadEvents = {}
  AsString <- AsStringColliding
  Callbacks = {c1, c2}
  Vals = {v1}
  NoEntry = NoEntry
  NoCallback = NoCallback
  Native = Native
  ContextIndex <- SharedContextIndex
  MaxArgs = 1
  MaxDepth = 2
  MaxEmits = 2
SPECIFICATION Spec
INVARIANT EmptyListUnsubscribed
