\* One hub: local dispatch, the mode switch and the emitter loop-back.
CONSTANTS
  Hubs = {h1}
  Events = {e1, e2}
  BadEvents = {}
  AsString <- AsStringColliding
  Callbacks = {c1, c2}
  Vals = {v1}
  NoEntry = NoEntry
  NoCallback = NoCallback
  Native = Native
  ContextIndex <- SharedContextIndex
  MaxArgs = 1
  MaxDepth = 2
  MaxEmits = 2
SPECIFICATION NoNativeOffSpec
SYMMETRY Symmetry
INVARIANT TypeOK
INVARIANT PayloadRoundTrip
INVARIANT NoDuplicateDelivery
INVARIANT ListenersSubscribed
INVARIANT NativeForwardingLocal
