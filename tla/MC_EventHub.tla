----------------------------- MODULE MC_EventHub ----------------------------
(***************************************************************************)
(* Instantiates EventHub for TLC.  All hubs belong to one context: they   *)
(* share the contextIndex, as the hubs of one context on different JS     *)
(* threads do, so their emitter names coincide.                           *)
(***************************************************************************)
EXTENDS EventHub, TLC

SharedContextIndex == [h \in Hubs |-> 1]

(* Every non-string event converts to the name of a string event (as 1    *)
(* does to '1'), the case in which it can reach a listener's hub.         *)
AsStringColliding == [x \in BadEvents |-> CHOOSE e \in Events : TRUE]

(* Leaked emitter handlers (offByNativeContext, then a mode cycle) can    *)
(* pile up without end; exploration stops at MaxHandlers per hub and name. *)
MaxHandlers == 2

HandlerBound == \A h \in Hubs, n \in Names : subs[h][n] <= MaxHandlers

(* Callbacks and events are interchangeable names in every definition. *)
Symmetry == Permutations(Callbacks) \cup Permutations(Events)

=============================================================================
