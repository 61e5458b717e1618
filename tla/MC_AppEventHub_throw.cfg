\* Two application-context hubs of one context and a non-string event whose
\* string form is the name of a string event.
CONSTANTS
  Hubs = {h1, h2}
  Events = {e1}
  BadEvents = {x1}
  AsString <- AsStringColliding
  Callbacks = {c1}
  Vals = {v1}
  NoEntry = NoEntry
  NoCallback = NoCallback
  Native = Native
  ContextIndex <- SharedContextIndex
  MaxArgs = 0
  MaxDepth = 1
  MaxEmits = 1
SPECIFICATION Spec
INVARIANT InvalidEmitRaisedToCaller
