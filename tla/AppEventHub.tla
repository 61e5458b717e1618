----------------------------- MODULE AppEventHub -----------------------------
(***************************************************************************)
(* The EventHub of src/frameworks/js/napi/app/application_context/        *)
(* application_context.js (class EventHub, lines 28-158), created by the   *)
(* ApplicationContext constructor.  Its methods are those of the hub of    *)
(* context.js without nativeEventHubRef: no setNativeEventHubRef, no       *)
(* offByNativeContext or emitByNativeContext, off does not call into a     *)
(* native hub and emitInner does not forward.  on, off and emitInner throw *)
(* a BusinessError for a non-string event or a non-function callback where *)
(* context.js returns.  Thrown by on or off inside a listener, it is a    *)
(* listener that throws (ListenerThrows); thrown from top-level code it    *)
(* changes nothing.  emitInner's throw is the step EventHub records in    *)
(* rejected.                                                               *)
(*                                                                         *)
(* Each operation is the context.js hub's, with the native reference never *)
(* set: those definitions translate the same statements.                   *)
(***************************************************************************)
EXTENDS Integers, Sequences, SequencesExt

CONSTANTS Hubs, Events, BadEvents, AsString, Callbacks, Vals, ContextIndex, NoEntry, NoCallback,
          Native, MaxArgs, MaxDepth, MaxEmits

VARIABLES eventMap, mt, nativeRef, subs, queue, stack, sent, delivered,
          nativeGot, aborted, rejected

vars == <<eventMap, mt, nativeRef, subs, queue, stack, sent, delivered,
          nativeGot, aborted, rejected>>

Hub == INSTANCE EventHub

(* constructor() and ApplicationContext(obj): empty eventMap, mode off,  *)
(* contextIndex = obj.index; this hub has no nativeEventHubRef.           *)
Init == Hub!Init

(* ApplicationContext(obj) creates the hub and sets contextIndex = obj.index. *)
(* This operator and the two conversions below are the context.js hub's,    *)
(* which the operations taken from it use.                                  *)
contextIndex(h) == ContextIndex[h]

getEmitterEventName(h, e) == Hub!getEmitterEventName(h, e)

argsToData(args) == Hub!argsToData(args)

dataToArgs(data) == Hub!dataToArgs(data)

setEventHubEmitMultiThreadingEnabled(h, enable) ==
  Hub!setEventHubEmitMultiThreadingEnabled(h, enable)

on(h, e, cb) == Hub!on(h, e, cb)

off(h, e, cb) == Hub!off(h, e, cb)

emit(h, e, args) == Hub!emit(h, e, args)

onEmitterFunction(h) == Hub!onEmitterFunction(h)

(* emitInner: the loop over cloneArray.  A listener returns or throws;    *)
(* the throw ends the pass and reaches the caller.  With no native        *)
(* reference the end of the loop forwards nothing.                         *)
emitInner(h) ==
  \/ Hub!InvokeListener(h)
  \/ Hub!ListenerReturns(h)
  \/ Hub!ListenerThrows(h)
  \/ Hub!EndPass(h)

AppHubStep(h) ==
  \/ \E enable \in BOOLEAN : setEventHubEmitMultiThreadingEnabled(h, enable)
  \/ \E e \in Events, cb \in Callbacks : on(h, e, cb)
  \/ \E e \in Events, cb \in Callbacks \cup {NoCallback} : off(h, e, cb)
  \/ \E e \in Events \cup BadEvents, args \in Hub!ArgLists : emit(h, e, args)
  \/ onEmitterFunction(h)
  \/ emitInner(h)

Next == \E h \in Hubs : AppHubStep(h)

Spec == Init /\ [][Next]_vars

-----------------------------------------------------------------------------
(* spec.md 7: an emit given a non-string event raises the invalid-        *)
(* parameter error to its caller.  emitInner throws it; emit checks        *)
(* nothing itself, so in multi-threading mode the error is thrown later,  *)
(* by the emitter task of every thread subscribed to the converted name.  *)
InvalidEmitRaisedToCaller ==
  \A h \in Hubs : \A id \in rejected[h] :
    sent[id].from = h /\ ~sent[id].published

=============================================================================
