\* Two hubs of one context (two JS threads), mode on, one shared emitter.
CONSTANTS
  Hubs = {h1, h2}
  Events = {e1}
  BadEvents = {}
  AsString <- AsStringColliding
  Callbacks = {c1}
  Vals = {v1}
  NoEntry = NoEntry
  NoCallback = NoCallback
  Native = Native
  ContextIndex <- SharedContextIndex
  MaxArgs = 0
  MaxDepth = 1
  MaxEmits = 1
SPECIFICATION Spec
INVARIANT ListenersSubscribed
