--------------------------- MODULE EventRegistry ---------------------------
(***************************************************************************)
(* What an EventHub promises about its listener registry (spec.md, 3 and  *)
(* 8): per hub and event an ordered list of listeners in which a callback  *)
(* appears at most once; on() appends a callback that is not yet there,    *)
(* off(event, cb) removes exactly cb and keeps the order of the others,    *)
(* off(event) removes every listener of the event.  Dispatch, the         *)
(* cross-thread emitter and the native bridge leave the registry alone.   *)
(***************************************************************************)
EXTENDS Sequences, SequencesExt

CONSTANTS
  Hubs,       \* EventHub instances
  Events,     \* event names
  Callbacks   \* listener functions

VARIABLE registry   \* registry[h][e]: the listeners of e on hub h, in order

Init == registry = [h \in Hubs |-> [e \in Events |-> <<>>]]

Register(h, e, cb) ==
  registry' = [registry EXCEPT ![h][e] =
                 IF Contains(@, cb) THEN @ ELSE Append(@, cb)]

Unregister(h, e, cb) ==
  registry' = [registry EXCEPT ![h][e] = SelectSeq(@, LAMBDA x : x # cb)]

UnregisterAll(h, e) ==
  registry' = [registry EXCEPT ![h][e] = <<>>]

Next ==
  \E h \in Hubs, e \in Events :
    \/ \E cb \in Callbacks : Register(h, e, cb) \/ Unregister(h, e, cb)
    \/ UnregisterAll(h, e)

Spec == Init /\ [][Next]_registry

=============================================================================
