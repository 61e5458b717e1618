------------------------------ MODULE EventHub ------------------------------
(***************************************************************************)
(* The EventHub of src/frameworks/js/napi/app/context/context.js (class   *)
(* EventHub, lines 16-192).  Each hub lives on its own JS thread; the hubs *)
(* of a process share the cross-thread emitter (events.emitter), and a hub *)
(* may be paired with a native hub (nativeEventHubRef).                   *)
(*                                                                         *)
(* A hub's thread is either idle (stack empty) or running a dispatch pass  *)
(* of emitInner; a listener running inside a pass may call on, off, emit   *)
(* and the mode switch of its own hub, and a listener emit in local mode   *)
(* starts a nested pass.  A cross-thread emission is queued to every       *)
(* handler registered under its name and runs on the receiver's thread    *)
(* when that thread is idle.                                               *)
(*                                                                         *)
(* An application may pass a non-string event (BadEvents).  emit does not *)
(* check it: in multi-threading mode it publishes it under the name the   *)
(* string concatenation makes of it, and only the typeof check of         *)
(* emitInner, on the receiving thread, refuses it.                         *)
(*                                                                         *)
(* The EventHub of application_context.js (lines 28-158) is the same code *)
(* without nativeEventHubRef and with invalid-parameter throws in place of *)
(* silent returns, so a hub whose native reference is never set models it. *)
(***************************************************************************)
EXTENDS Integers, Sequences, SequencesExt, FiniteSets, Functions

CONSTANTS
  Hubs,          \* EventHub instances, one per JS thread
  Events,        \* event names (strings) used by the application
  BadEvents,     \* non-string values passed as an event (a number, undefined)
  AsString,      \* [BadEvents -> Events]: the string '' + x makes of a bad event
  Callbacks,     \* listener functions
  Vals,          \* argument values (all survive the emitter's serialisation)
  ContextIndex,  \* [Hubs -> Int]: contextIndex of each hub (obj.index)
  NoEntry,       \* eventMap[event] is undefined
  NoCallback,    \* off(event) called without a callback
  Native,        \* origin of an event emitted by the paired native hub
  MaxArgs,       \* longest argument list passed to emit
  MaxDepth,      \* deepest nesting of dispatch passes on one thread
  MaxEmits       \* number of emissions in a behaviour

ASSUME MaxArgs \in Nat /\ MaxDepth \in Nat \ {0} /\ MaxEmits \in Nat
ASSUME AsString \in [BadEvents -> Events] /\ BadEvents \cap Events = {}

VARIABLES
  eventMap,   \* eventMap[h][e]: listener array of e, or NoEntry
  mt,         \* mt[h]: emitMultiThreadingEnabled
  nativeRef,  \* nativeRef[h]: nativeEventHubRef != null
  subs,       \* subs[h][n]: handlers hub h has registered on the emitter for n
  queue,      \* queue[h]: emitter deliveries waiting for h's thread
  stack,      \* stack[h]: the dispatch passes running on h's thread
  sent,       \* history: sent[id] is the id-th emission (origin, event, args)
  delivered,  \* history: ids of the emissions whose passes started on h, in order
  nativeGot,  \* history: nativeGot[id] = how often id reached the native hub
  aborted,    \* history: ids of passes ended by a throwing listener
  rejected    \* history: ids whose emitInner on h stopped at its typeof check

vars == <<eventMap, mt, nativeRef, subs, queue, stack, sent, delivered,
          nativeGot, aborted, rejected>>

(* Context(obj) creates the hub and sets its contextIndex to obj.index. *)
contextIndex(h) == ContextIndex[h]

(***************************************************************************)
(* The emitter name 'ohos.event.' + contextIndex + '.' + event.  The index *)
(* is an integer and holds no '.', so the string determines the pair; the *)
(* pair stands for it.  The concatenation converts a non-string event to  *)
(* a string, which may be the name of a string event.                     *)
(***************************************************************************)
EventString(e) == IF e \in Events THEN e ELSE AsString[e]

getEmitterEventName(h, e) == <<contextIndex(h), EventString(e)>>

Names == {getEmitterEventName(h, e) : h \in Hubs, e \in Events}

ArgLists == BoundedSeq(Vals, MaxArgs)

(* eventData.data: the key `arg${k}` is represented by k. *)
argsToData(args) == [k \in 0 .. Len(args) - 1 |-> args[k + 1]]

dataToArgs(data) == [i \in 1 .. Cardinality(DOMAIN data) |-> data[i - 1]]

(* Fault variant: the copy loop stops one key early. *)
UnpackDropLast(data) ==
  LET n == Cardinality(DOMAIN data)
  IN  <<data[0], dataToArgs([k \in 0 .. n - 3 |-> data[k + 1]])>>

(* onEmitterFunction without its final emitInner: the event name and the  *)
(* arguments carried in eventData.data.                                    *)
UnpackEventData(data) ==
  LET n == Cardinality(DOMAIN data)
  IN  <<data[0], dataToArgs([k \in 0 .. n - 2 |-> data[k + 1]])>>

(* The listener list of e as emitInner sees it (undefined counts as none). *)
ListOf(h, e) == IF eventMap[h][e] = NoEntry THEN <<>> ELSE eventMap[h][e]

(* emitter.getListenerCount(name): handlers of every hub in the process. *)
ListenerCount(n) == FoldFunctionOnSet(+, 0, [g \in Hubs |-> subs[g][n]], Hubs)

(* The calling thread runs JS: top-level code, or a listener in a pass. *)
Running(h) == IF stack[h] = <<>> THEN TRUE ELSE Last(stack[h]).inCb

NewFrame(e, args, id, fwd) ==
  [ev |-> e, args |-> args, id |-> id, fwd |-> fwd, snap |-> <<>>,
   i |-> 1, inCb |-> FALSE, called |-> <<>>]

(* emitInner (fwd) or emitByNativeContext (~fwd) starts a pass over a copy *)
(* of the listener array.                                                 *)
StartPass(h, e, args, id, fwd) ==
  /\ Len(stack[h]) < MaxDepth
  /\ stack' = [stack EXCEPT ![h] =
                 Append(@, [NewFrame(e, args, id, fwd) EXCEPT !.snap = ListOf(h, e)])]
  /\ delivered' = [delivered EXCEPT ![h] = Append(@, id)]

(* emitInner(event, ...args): a non-string event returns at once (throws *)
(* in application_context.js); otherwise the pass starts.                 *)
emitInner(h, e, args, id) ==
  IF e \in Events
  THEN /\ StartPass(h, e, args, id, TRUE)
       /\ UNCHANGED rejected
  ELSE /\ rejected' = [rejected EXCEPT ![h] = @ \cup {id}]
       /\ UNCHANGED <<stack, delivered>>

(* The array a pass iterates: cloneArray. *)
Listeners(h, f) == f.snap

-----------------------------------------------------------------------------
(* Removal of one callback: shift the tail left over it, then pop. *)
RECURSIVE ShiftLeft(_, _)
ShiftLeft(s, j) ==
  IF j < Len(s) THEN ShiftLeft([s EXCEPT ![j] = s[j + 1]], j + 1) ELSE s

(* Fault variant: pop without shifting. *)
PopOnly(list, cb) == IF Contains(list, cb) THEN Front(list) ELSE list

(* Fault variant: shift without the final pop. *)
ShiftNoPop(list, cb) ==
  IF Contains(list, cb)
  THEN ShiftLeft(list, SelectInSeq(list, LAMBDA x : x = cb))
  ELSE list

RemoveCallback(list, cb) ==
  IF Contains(list, cb)
  THEN Front(ShiftLeft(list, SelectInSeq(list, LAMBDA x : x = cb)))
  ELSE list

-----------------------------------------------------------------------------
Init ==
  /\ eventMap = [h \in Hubs |-> [e \in Events |-> NoEntry]]
  /\ mt = [h \in Hubs |-> FALSE]
  /\ nativeRef = [h \in Hubs |-> FALSE]
  /\ subs = [h \in Hubs |-> [n \in Names |-> 0]]
  /\ queue = [h \in Hubs |-> <<>>]
  /\ stack = [h \in Hubs |-> <<>>]
  /\ sent = <<>>
  /\ delivered = [h \in Hubs |-> <<>>]
  /\ nativeGot = [id \in 1 .. MaxEmits |-> 0]
  /\ aborted = {}
  /\ rejected = [h \in Hubs |-> {}]

(* setNativeEventHubRef(ref): the native side sets or clears the ref. *)
setNativeEventHubRef(h, ref) ==
  /\ nativeRef' = [nativeRef EXCEPT ![h] = ref]
  /\ UNCHANGED <<eventMap, mt, subs, queue, stack, sent, delivered, nativeGot, aborted, rejected>>

(* Fault variant: on() subscribes without asking the emitter's count. *)
OnNoCountCheck(h, e, cb) ==
  LET n == getEmitterEventName(h, e) IN
  /\ Running(h)
  /\ eventMap' = [eventMap EXCEPT ![h][e] =
                    IF Contains(ListOf(h, e), cb) THEN ListOf(h, e)
                    ELSE Append(ListOf(h, e), cb)]
  /\ subs' = IF mt[h] THEN [subs EXCEPT ![h][n] = @ + 1] ELSE subs
  /\ UNCHANGED <<mt, nativeRef, queue, stack, sent, delivered, nativeGot, aborted, rejected>>

(* Fault variant: on() without the indexOf check. *)
OnNoDedup(h, e, cb) ==
  LET n == getEmitterEventName(h, e) IN
  /\ Running(h)
  /\ eventMap' = [eventMap EXCEPT ![h][e] = Append(ListOf(h, e), cb)]
  /\ subs' = IF mt[h] /\ ListenerCount(n) = 0
             THEN [subs EXCEPT ![h][n] = @ + 1] ELSE subs
  /\ UNCHANGED <<mt, nativeRef, queue, stack, sent, delivered, nativeGot, aborted, rejected>>

(* on(event, callback).  `emitter !== undefined` holds whenever mt[h]:     *)
(* the mode switch assigns the emitter before it can enable the mode.     *)
on(h, e, cb) ==
  LET n == getEmitterEventName(h, e) IN
  /\ Running(h)
  /\ eventMap' = [eventMap EXCEPT ![h][e] =
                    IF Contains(ListOf(h, e), cb) THEN ListOf(h, e)
                    ELSE Append(ListOf(h, e), cb)]
  /\ subs' = IF mt[h] /\ ListenerCount(n) = 0
             THEN [subs EXCEPT ![h][n] = @ + 1] ELSE subs
  /\ UNCHANGED <<mt, nativeRef, queue, stack, sent, delivered, nativeGot, aborted, rejected>>

(* off(event, callback), and off(event) when cb = NoCallback.  The call   *)
(* offByDynamicContext forwards to the native hub, whose registry is not   *)
(* modelled.  emitter.off(name) drops the calling hub's handlers.          *)
off(h, e, cb) ==
  LET n     == getEmitterEventName(h, e)
      entry == IF eventMap[h][e] = NoEntry \/ cb = NoCallback THEN NoEntry
               ELSE RemoveCallback(eventMap[h][e], cb)
  IN
  /\ Running(h)
  /\ eventMap' = [eventMap EXCEPT ![h][e] = entry]
  /\ subs' = IF mt[h] /\ entry = NoEntry THEN [subs EXCEPT ![h][n] = 0]
             ELSE subs
  /\ UNCHANGED <<mt, nativeRef, queue, stack, sent, delivered, nativeGot, aborted, rejected>>

(* The native hub removes a registration: offByNativeContext.  Unlike off *)
(* it neither calls back into the native hub nor touches the emitter.     *)
offByNativeContext(h, e, cb) ==
  /\ nativeRef[h]
  /\ Running(h)
  /\ eventMap' = [eventMap EXCEPT ![h][e] =
                    IF @ = NoEntry \/ cb = NoCallback THEN NoEntry
                    ELSE RemoveCallback(@, cb)]
  /\ UNCHANGED <<mt, nativeRef, subs, queue, stack, sent, delivered, nativeGot, aborted, rejected>>

(* Fault variant: enabling does not replay the registry on the emitter. *)
SetEnabledNoReplay(h, enable) ==
  /\ Running(h)
  /\ mt[h] # enable
  /\ mt' = [mt EXCEPT ![h] = enable]
  /\ subs' = IF enable THEN subs
             ELSE [subs EXCEPT ![h] = [n \in Names |->
                     IF \E k \in Events : eventMap[h][k] # NoEntry
                                          /\ n = getEmitterEventName(h, k)
                     THEN 0 ELSE @[n]]]
  /\ UNCHANGED <<eventMap, nativeRef, queue, stack, sent, delivered, nativeGot, aborted, rejected>>

(* setEventHubEmitMultiThreadingEnabled(enable): every key of eventMap is *)
(* subscribed (unconditionally) or unsubscribed.                          *)
setEventHubEmitMultiThreadingEnabled(h, enable) ==
  LET keyNames == {getEmitterEventName(h, k) :
                     k \in {k \in Events : eventMap[h][k] # NoEntry}}
  IN
  /\ Running(h)
  /\ mt[h] # enable
  /\ mt' = [mt EXCEPT ![h] = enable]
  /\ subs' = [subs EXCEPT ![h] = [n \in Names |->
                IF n \notin keyNames THEN @[n]
                ELSE IF enable THEN @[n] + 1 ELSE 0]]
  /\ UNCHANGED <<eventMap, nativeRef, queue, stack, sent, delivered, nativeGot, aborted, rejected>>

(* emit(event, ...args): published to every registered handler of the    *)
(* emitter name when the mode is on, else emitInner on this thread.        *)
emit(h, e, args) ==
  LET id == Len(sent) + 1
      n  == getEmitterEventName(h, e)
      m  == [name |-> n, data |-> argsToData(<<e>> \o args), id |-> id]
  IN
  /\ Running(h)
  /\ Len(sent) < MaxEmits
  /\ sent' = Append(sent, [from |-> h, ev |-> e, args |-> args,
                            bridged |-> nativeRef[h], published |-> mt[h]])
  /\ IF mt[h]
     THEN /\ queue' = [g \in Hubs |->
                         queue[g] \o [k \in 1 .. subs[g][n] |-> m]]
          /\ UNCHANGED <<stack, delivered, rejected>>
     ELSE /\ emitInner(h, e, args, id)
          /\ UNCHANGED queue
  /\ UNCHANGED <<eventMap, mt, nativeRef, subs, nativeGot, aborted>>

(* The native hub delivers a natively emitted event: emitByNativeContext. *)
emitByNativeContext(h, e, args) ==
  /\ nativeRef[h]
  /\ Running(h)
  /\ Len(sent) < MaxEmits
  /\ sent' = Append(sent, [from |-> Native, ev |-> e, args |-> args,
                            bridged |-> FALSE, published |-> FALSE])
  /\ StartPass(h, e, args, Len(sent) + 1, FALSE)
  /\ UNCHANGED <<eventMap, mt, nativeRef, subs, queue, nativeGot, aborted, rejected>>

(* The emitter runs a queued handler on an idle thread: onEmitterFunction *)
(* then emitInner.  A handler removed since the publish no longer runs.   *)
onEmitterFunction(h) ==
  LET m  == Head(queue[h])
      ev == UnpackEventData(m.data)[1]
      args == UnpackEventData(m.data)[2]
  IN
  /\ stack[h] = <<>>
  /\ queue[h] # <<>>
  /\ queue' = [queue EXCEPT ![h] = Tail(@)]
  /\ IF subs[h][m.name] > 0
     THEN emitInner(h, ev, args, m.id)
     ELSE UNCHANGED <<stack, delivered, rejected>>
  /\ UNCHANGED <<eventMap, mt, nativeRef, subs, sent, nativeGot, aborted>>

-----------------------------------------------------------------------------
(* The dispatch loop of emitInner / emitByNativeContext.                   *)

(* cloneArray[i].apply(this, args): the i-th listener starts running. *)
InvokeListener(h) ==
  LET f == Last(stack[h]) IN
  /\ stack[h] # <<>>
  /\ ~f.inCb
  /\ f.i <= Len(Listeners(h, f))
  /\ stack' = [stack EXCEPT ![h][Len(stack[h])] =
                 [f EXCEPT !.inCb = TRUE,
                           !.called = Append(@, Listeners(h, f)[f.i])]]
  /\ UNCHANGED <<eventMap, mt, nativeRef, subs, queue, sent, delivered,
                 nativeGot, aborted, rejected>>

(* The running listener returns; the loop moves on. *)
ListenerReturns(h) ==
  LET f == Last(stack[h]) IN
  /\ stack[h] # <<>>
  /\ f.inCb
  /\ stack' = [stack EXCEPT ![h][Len(stack[h])] =
                 [f EXCEPT !.inCb = FALSE, !.i = @ + 1]]
  /\ UNCHANGED <<eventMap, mt, nativeRef, subs, queue, sent, delivered,
                 nativeGot, aborted, rejected>>

(* The running listener throws: the hub does not catch, the pass ends and *)
(* the exception reaches the caller of emit.                              *)
ListenerThrows(h) ==
  /\ stack[h] # <<>>
  /\ Last(stack[h]).inCb
  /\ stack' = [stack EXCEPT ![h] = Front(@)]
  /\ aborted' = aborted \cup {Last(stack[h]).id}
  /\ UNCHANGED <<eventMap, mt, nativeRef, subs, queue, sent, delivered,
                 nativeGot, rejected>>

(* Fault variant: emitByNativeContext forwards like emitInner. *)
EndPassEcho(h) ==
  LET f == Last(stack[h]) IN
  /\ stack[h] # <<>>
  /\ ~f.inCb
  /\ f.i > Len(Listeners(h, f))
  /\ stack' = [stack EXCEPT ![h] = Front(@)]
  /\ nativeGot' = IF nativeRef[h]
                  THEN [nativeGot EXCEPT ![f.id] = @ + 1] ELSE nativeGot
  /\ UNCHANGED <<eventMap, mt, nativeRef, subs, queue, sent, delivered, aborted, rejected>>

(* The loop ends; emitInner then calls emitByDynamicContext on the native *)
(* hub if one is paired.                                                  *)
EndPass(h) ==
  LET f == Last(stack[h]) IN
  /\ stack[h] # <<>>
  /\ ~f.inCb
  /\ f.i > Len(Listeners(h, f))
  /\ stack' = [stack EXCEPT ![h] = Front(@)]
  /\ nativeGot' = IF f.fwd /\ nativeRef[h]
                  THEN [nativeGot EXCEPT ![f.id] = @ + 1] ELSE nativeGot
  /\ UNCHANGED <<eventMap, mt, nativeRef, subs, queue, sent, delivered, aborted, rejected>>

-----------------------------------------------------------------------------
(* Every step hub h's thread can take on its own: JS code calling the hub, *)
(* the emitter's tasks, and the dispatch loop.                            *)
ThreadStep(h) ==
  \/ \E enable \in BOOLEAN : setEventHubEmitMultiThreadingEnabled(h, enable)
  \/ \E e \in Events, cb \in Callbacks : on(h, e, cb)
  \/ \E e \in Events, cb \in Callbacks \cup {NoCallback} : off(h, e, cb)
  \/ \E e \in Events \cup BadEvents, args \in ArgLists : emit(h, e, args)
  \/ \E e \in Events, args \in ArgLists : emitByNativeContext(h, e, args)
  \/ onEmitterFunction(h)
  \/ InvokeListener(h)
  \/ ListenerReturns(h)
  \/ ListenerThrows(h)
  \/ EndPass(h)

(* The native side's calls into the hub. *)
NativeStep(h) ==
  \/ \E ref \in BOOLEAN : setNativeEventHubRef(h, ref)
  \/ \E e \in Events, cb \in Callbacks \cup {NoCallback} :
       offByNativeContext(h, e, cb)

Next == \E h \in Hubs : ThreadStep(h) \/ NativeStep(h)

Spec == Init /\ [][Next]_vars

(* Applications whose native side pairs a hub at most once, never clears  *)
(* the reference and never removes a JS-registered listener.              *)
PairOnce(h) == ~nativeRef[h] /\ setNativeEventHubRef(h, TRUE)

NoNativeOffSpec == Init /\ [][\E h \in Hubs : ThreadStep(h) \/ PairOnce(h)]_vars

-----------------------------------------------------------------------------
Frames == [ev : Events, args : ArgLists, id : Nat, fwd : BOOLEAN,
           snap : Seq(Callbacks), i : Nat, inCb : BOOLEAN,
           called : Seq(Callbacks)]

Msgs == [name : Names, data : UNION {[0 .. k -> Events \cup BadEvents \cup Vals] :
                                       k \in 0 .. MaxArgs}, id : Nat]

TypeOK ==
  /\ eventMap \in [Hubs -> [Events -> BoundedSeq(Callbacks, Cardinality(Callbacks))
                                        \cup {NoEntry}]]
  /\ mt \in [Hubs -> BOOLEAN]
  /\ nativeRef \in [Hubs -> BOOLEAN]
  /\ subs \in [Hubs -> [Names -> Nat]]
  /\ queue \in [Hubs -> Seq(Msgs)]
  /\ stack \in [Hubs -> Seq(Frames)]
  /\ sent \in Seq([from : Hubs \cup {Native}, ev : Events \cup BadEvents, args : ArgLists,
                   bridged : BOOLEAN, published : BOOLEAN])
  /\ delivered \in [Hubs -> Seq(1 .. MaxEmits)]
  /\ nativeGot \in [1 .. MaxEmits -> Nat]
  /\ aborted \subseteq 1 .. MaxEmits
  /\ rejected \in [Hubs -> SUBSET (1 .. MaxEmits)]

(* Cross-thread payload (argsToData, emitter, onEmitterFunction,          *)
(* dataToArgs): every pass runs for the event and the arguments its       *)
(* emission was made with.                                                *)
PayloadRoundTrip ==
  \A h \in Hubs : \A k \in 1 .. Len(stack[h]) :
    LET f == stack[h][k] IN
    /\ f.ev = sent[f.id].ev
    /\ f.args = sent[f.id].args

(* The emitter subscription logic of on() and of the mode switch never    *)
(* makes a hub receive one cross-thread emission twice.                   *)
NoDuplicateDelivery ==
  \A h \in Hubs :
    LET ids == [k \in 1 .. Len(queue[h]) |-> queue[h][k].id] IN
    /\ IsInjective(ids)
    /\ \A k \in 1 .. Len(queue[h]) : ~Contains(delivered[h], ids[k])

(* spec.md 3: while the mode is on, every event with a listener on a hub  *)
(* has that hub's handler on the emitter (else its emissions are lost).    *)
ListenersSubscribed ==
  \A h \in Hubs, e \in Events :
    mt[h] /\ ListOf(h, e) # <<>> => subs[h][getEmitterEventName(h, e)] > 0

(* spec.md 3: when an event's listener list becomes empty its emitter     *)
(* subscription is torn down.                                             *)
EmptyListUnsubscribed ==
  \A h \in Hubs, e \in Events :
    mt[h] /\ ListOf(h, e) = <<>> => subs[h][getEmitterEventName(h, e)] = 0

(* off(event, cb) and offByNativeContext(event, cb): on every array the  *)
(* hub can reach, the shift-left-and-pop loop removes exactly cb and keeps *)
(* the others in order (spec.md 8), as the reference SelectSeq does.       *)
OffRemovesExactly ==
  \A h \in Hubs, e \in Events, cb \in Callbacks :
    eventMap[h][e] # NoEntry =>
      RemoveCallback(eventMap[h][e], cb) = SelectSeq(eventMap[h][e], LAMBDA x : x # cb)

(* Emission order (emit, setEventHubEmitMultiThreadingEnabled,           *)
(* onEmitterFunction): a hub's listeners see the emissions of one origin   *)
(* in the order they were made, across mode switches.                     *)
EmissionOrder ==
  \A h \in Hubs : \A i, j \in 1 .. Len(delivered[h]) :
    LET a == delivered[h][i]
        b == delivered[h][j]
    IN  i < j /\ sent[a].from = sent[b].from => a < b

(* Emission id is over: no pass of it runs and no delivery of it waits. *)
Settled(id) ==
  \A h \in Hubs : /\ \A k \in 1 .. Len(stack[h]) : stack[h][k].id # id
                 /\ \A k \in 1 .. Len(queue[h]) : queue[h][k].id # id

(* Native bridge in local mode (emitInner, emitByNativeContext): once its *)
(* pass has ended without a throw, a JS emission of a hub paired with the  *)
(* native hub has reached the native hub exactly once, and an event the   *)
(* native hub delivered never goes back to it.                            *)
NativeForwardingLocal ==
  \A id \in 1 .. Len(sent) :
    Settled(id) /\ id \notin aborted =>
      /\ sent[id].from = Native => nativeGot[id] = 0
      /\ sent[id].from # Native /\ sent[id].ev \in Events
         /\ sent[id].bridged /\ ~sent[id].published => nativeGot[id] = 1

(* spec.md 4.1: an emission of a hub paired with a native hub is forwarded *)
(* to the native hub (once), in either delivery mode.                      *)
NativeForwardedOnce ==
  \A id \in 1 .. Len(sent) :
    Settled(id) /\ id \notin aborted /\ sent[id].from # Native /\ sent[id].bridged
      => nativeGot[id] = 1

(* The hub implements the abstract registry of EventRegistry. *)
Registry == INSTANCE EventRegistry
              WITH registry <- [h \in Hubs |-> [e \in Events |-> ListOf(h, e)]]

RegistryRefinement == Registry!Spec

=============================================================================
