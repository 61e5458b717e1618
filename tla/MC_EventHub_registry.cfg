\* One hub: the listener registry against the abstract EventRegistry.
CONSTANTS
  Hubs = {h1}
  Events = {e1}
  BadEvents = {}
  AsString <- AsStringColliding
  Callbacks = {c1, c2, c3}
  Vals = {v1}
  NoEntry = NoEntry
  NoCallback = NoCallback
  Native = Native
  ContextIndex <- SharedContextIndex
  MaxArgs = 1
  MaxDepth = 1
  MaxEmits = 1
SPECIFICATION Spec
PROPERTY RegistryRefinement
CONSTRAINT HandlerBound
INVARIANT OffRemovesExactly
