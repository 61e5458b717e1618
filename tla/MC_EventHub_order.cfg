\* One hub that switches delivery mode between two emissions.
CONSTANTS
  Hubs = {h1}
  Events = {e1}
  BadEvents = {}
  AsString <- AsStringColliding
  Callbacks = {c1}
  Vals = {v1}
  NoEntry = NoEntry
  NoCallback = NoCallback
  Native = Native
  ContextIndex <- SharedContextIndex
  MaxArgs = 0
  MaxDepth = 2
  MaxEmits = 2
SPECIFICATION NoNativeOffSpec
INVARIANT EmissionOrder
