# TLA+ models of the ability_runtime JS context layer

## The system

The repository (`src/frameworks/js/napi/...`) is the JavaScript façade of the
OpenHarmony ability runtime. Five files:

| Part | Source | State | Operations |
|---|---|---|---|
| EventHub, Context variant | `app/context/context.js` 16-192 | `eventMap` (event → ordered listener array), `contextIndex`, `emitMultiThreadingEnabled`, `emitter`, `nativeEventHubRef` | `on`, `off`, `emit`, `emitInner`, `setEventHubEmitMultiThreadingEnabled`, `onEmitterFunction`, `argsToData`, `dataToArgs`, `getEmitterEventName`, and the native-facing `setNativeEventHubRef`, `emitByNativeContext`, `offByNativeContext` |
| EventHub, ApplicationContext variant | `app/application_context/application_context.js` 28-158 | same, no `nativeEventHubRef` | same, invalid parameters throw instead of returning |
| Context / ApplicationContext | same files | `__context_impl__`, the hub | constructor builds the hub with `contextIndex = obj.index`; everything else forwards |
| AbilityContext, UIExtensionContext | `ability_context/`, `ui_extension_context/` | `config` etc. | forward to `__context_impl__`; `startAbilityByCall` validates, awaits, resolves or rejects |
| Ability | `ability/ability.js` | `callee` | empty lifecycle callbacks |

Only the EventHub has behaviour of its own. Its collaborators are:

* the **cross-thread emitter** (`events.emitter`). It is shared by every hub in
  the process. Hubs of one context on different JS threads use the same names
  `'ohos.event.' + contextIndex + '.' + event`. Its operations are `on(name, handler)`,
  `off(name)`, `emit(name, data)` and `getListenerCount(name)`. A published
  event runs later on each handler's thread;
* the **native hub**. It is paired through `nativeEventHubRef`. The JS hub calls
  its `emitByDynamicContext` and `offByDynamicContext`, and it calls the JS hub's
  `emitByNativeContext` and `offByNativeContext`;
* **listeners**. They run inside `emitInner`'s loop and may call back into the
  hub (`on`, `off`, `emit`, the mode switch), or throw.

What is hard: listeners that change the registry during a dispatch pass; nested
emits; two delivery modes with a switch that replays the registry onto the
emitter; the emitter's process-wide counts and names shared by the hubs of
one context on several threads; asynchronous delivery racing `off` and mode
switches; native-side removals that bypass the emitter bookkeeping.

Properties that make the hub correct (spec.md 3, 4, 8): a callback appears at
most once per event; `off(e, cb)` removes exactly `cb` and keeps the order;
a pass calls the listeners registered when it started, in order, once each;
a cross-thread emission arrives with its event and arguments intact, exactly
once on each hub that listens; in multi-threading mode an event with listeners
has the hub's emitter handler, and an event without listeners has none.

## Modules

* `EventRegistry.tla`: the abstract registry the hub promises. It keeps one
  ordered, duplicate-free list per hub and event. `Register` appends,
  `Unregister` removes exactly the callback (`SelectSeq`), and `UnregisterAll`
  empties the list.
* `EventHub.tla`: the hub of `context.js`, with a set `Hubs` of hub instances
  (one per JS thread) sharing one emitter. Its state and actions map to the code
  as follows:
  * `eventMap[h][e]` is the listener array or `NoEntry` (undefined key). The
    difference matters: `off` calls `emitter.off` only for an undefined key;
  * `mt[h]` is `emitMultiThreadingEnabled`. The `emitter` field is not a
    variable, because the switch assigns it before it can enable the mode;
  * `nativeRef[h]` is `nativeEventHubRef != null`;
  * `subs[h][n]` is the number of handlers of hub `h` on the emitter for name `n`.
    The name is the pair `<<contextIndex, event>>`, which the string
    determines because the index is an integer. A non-string event of
    `BadEvents` enters the name as `EventString(x) = AsString[x]`, the string
    the concatenation makes of it;
  * `queue[h]` holds the emitter deliveries waiting for `h`'s thread. A
    message is `[name, data, id]` with `data` = `argsToData([event, ...args])`,
    keyed by index;
  * `stack[h]` is the thread's call stack of dispatch passes. A frame holds the
    copied listener array (`snap`), the loop index, whether a listener is
    running, and what it has called;
  * `sent`, `delivered`, `aborted`, `rejected` and `nativeGot` are history.
    `sent` holds every emission. `delivered[h]` is the sequence of emission ids
    whose dispatch passes started on `h`, in order. `aborted` holds the passes
    a throwing listener ended. `nativeGot` counts how often each emission reached the native hub.
    `rejected[h]` holds the emissions whose `emitInner` on `h` stopped at its
    typeof check.

  Actions, one per method:
  * `on`, `off` (covers `off(event)` with `cb = NoCallback`), `offByNativeContext`,
    `setEventHubEmitMultiThreadingEnabled`, `emit`, `emitByNativeContext` and
    `setNativeEventHubRef` (which sets or clears the reference). They run when
    the thread is idle or from a running listener;
  * `onEmitterFunction`, which dispatches the head of the queue when the thread
    is idle;
  * the steps of the `emitInner` loop: `InvokeListener`, `ListenerReturns`,
    `ListenerThrows` (the hub does not catch) and `EndPass` (the forward to the
    native hub).

  `emitInner` is the typeof check plus the start of a pass (`StartPass`).
  `emit` calls it in local mode, and `onEmitterFunction` calls it for each
  delivery. `emit` itself checks nothing, so it accepts a non-string event in
  both modes, and in multi-threading mode it publishes that event.
  `on`, `off`, `offByNativeContext` and `emitByNativeContext` return at once
  for a non-string event. Such a call is a stuttering step, so it is not an
  action.

  `ThreadStep(h)` holds the steps of `h`'s own thread. `NativeStep(h)` holds
  the native side's `setNativeEventHubRef` and `offByNativeContext`.
  `NoNativeOffSpec` is the specification of an application whose native side
  pairs each hub at most once (`PairOnce`), never clears the reference, and
  never removes a JS listener. `Spec` allows every native step.

  `RemoveCallback` is the shift-left-and-pop loop (RECURSIVE `ShiftLeft`).
  `ListenerCount` is the process-wide `getListenerCount`.
* `MC_EventHub.tla`: gives all hubs one context index (`SharedContextIndex`).
  It also defines the state constraint `HandlerBound` (at most `MaxHandlers`
  leaked handlers per hub and name) and the symmetry over callbacks and events.
* `AppEventHub.tla`: the hub of `application_context.js`. Its methods are the
  same statements as the `context.js` hub's without `nativeEventHubRef`. The
  module instantiates `EventHub` (`Hub == INSTANCE EventHub`) and keeps only the
  operations the class has: the mode switch, `on`, `off`, `emit`,
  `onEmitterFunction` and `emitInner` (the loop steps). The native reference is
  never set, so `off` never calls into a native hub and `emitInner` never
  forwards. `contextIndex` is the `ApplicationContext`
  constructor. `MC_AppEventHub.tla` instantiates it.
* `AbilityContext.tla`: the JS logic of `AbilityContext`, which is `config`
  (constructor and `onUpdateConfiguration`) plus `startAbilityByCall` and
  `startAbilityByCallWithAccount`. Each call `c` of a set `Calls` has:
  * `valid[c]`: whether its parameters passed the check;
  * `promise[c]`: the promise returned, as `"none"`, `"pending"`,
    `"resolved"` or `"rejected"`;
  * `native[c]`: its native `startAbilityByCall` request and how it settled;
  * `awaiting[c]`: whether the async executor is suspended at its `await`.

  `Executor` is the executor up to the `await`. `startAbilityByCall` and
  `startAbilityByCallWithAccount` differ only in their parameter check (the
  latter also checks `accountId`). `AccountCalls` names the calls of the
  second method. `NativeSettles` is the native side answering with a callee or
  an error. `Resume` and `ResumeWithAccount` are the two continuations, which
  are the same statements: the `catch` rejects, otherwise they resolve. `Settle` encodes that a second
  resolve or reject is ignored.

Assumptions about the emitter (external, spec.md 6):
* `getListenerCount` counts every handler in the process;
* `off(name)` removes the calling hub's handlers;
* when the emitter processes a queued delivery, it runs the handlers the
  receiving hub has for that name at that time. With none, the delivery is
  dropped. A delivery whose handler `off()` removed therefore does not run,
  and one published before a re-subscription runs after it;
* each thread runs deliveries in FIFO order when it is idle.

## Runs

| Run | cfg | Expect | What it shows |
|---|---|---|---|
| hub_single | `MC_EventHub_single.cfg` | pass | One hub. Listeners change the registry and emit during passes, mode switches, emitter loop-back and native emits. `TypeOK`, `PayloadRoundTrip`, `NoDuplicateDelivery` and `ListenersSubscribed` hold when the native side pairs the hub at most once and never removes listeners (`NoNativeOffSpec`). `TypeOK`'s bound on the length of a listener array is what a missing `indexOf` check in `on` breaks. `NativeForwardingLocal` also holds: a local-mode emission of a paired hub whose pass ended without a throw reached the native hub exactly once, and a native-originated one never went back. |
| hub_registry | `MC_EventHub_registry.cfg` | pass | With every action, `offByNativeContext` included, the registry refines `EventRegistry` (`RegistryRefinement`). The shift-left-and-pop loop also equals its reference `SelectSeq` on every reachable array (`OffRemovesExactly`). The refinement alone cannot tell a pop of the last element from the removal of that element, so this check is needed to catch a pop-only bug. |
| ability_call | `MC_AbilityContext.cfg` | pass | Three concurrent `startAbilityByCall[WithAccount]` calls whose native answers arrive in any order. `CallOutcome`: a call reaches the native side iff its parameters are valid, and its promise settles with its own outcome. `CallSettles`: every promise settles. |
| hub_native_off | `MC_EventHub_nativeoff.cfg` | violation | `NoDuplicateDelivery` fails in 8 steps: enable, `on`, `offByNativeContext`, disable, `on`, enable, `emit`. The handler left behind plus the new one deliver the emission twice. **Code bug** (context.js:114). |
| hub_shared_index | `MC_EventHub_shared.cfg` | violation | Two hubs of one context. The second hub's `on` sees the first hub's handler in `getListenerCount` and does not subscribe, so `ListenersSubscribed` fails (context.js:93, against spec.md 5). |
| hub_empty_list | `MC_EventHub_emptylist.cfg` | violation | `off(e, cb)` of the last listener leaves `[]`, so the subscription stays. `EmptyListUnsubscribed` (spec.md 3) fails (context.js:147). |
| hub_mode_order | `MC_EventHub_order.cfg` | violation | `EmissionOrder` fails in 10 steps. With the mode on, emission 1 is queued. The mode is switched off, and emission 2 runs synchronously. After the mode is switched back on, the queued emission 1 runs. One hub then dispatches a single caller's two emissions in the reverse of their order. Local emits run synchronously in `emit` (context.js:160). Multi-threading-mode emits wait in the thread's queue (context.js:158). spec.md says nothing on order: **spec gap**. |
| app_invalid_emit | `MC_AppEventHub_throw.cfg` | violation | `InvalidEmitRaisedToCaller` fails in 4 steps: enable, `on(e1)`, `emit(x1)`, then the emitter task runs. The application context's `emit` returns normally. The invalid-parameter error is thrown later, by the emitter task of each thread subscribed to `e1` (application_context.js:139, 147), which may be another thread. spec.md 7 and 5 do not cover this case: **spec gap**. |
| hub_native_forward | `MC_EventHub_nativefwd.cfg` | violation | `NativeForwardedOnce` (spec.md 4.1) fails in 3 steps: pair with the native hub, enable the mode, emit an event no hub listens to. In multi-threading mode the forward happens in each receiver's `emitInner` (context.js:175), not in `emit` (context.js:158). Such an emission never reaches the native hub, and one received by k hubs reaches it k times. |

Bounds:
* 2 events and 2 callbacks allow two listener arrays, with both orders and a
  removal from the middle;
* `MaxDepth = 2` allows a listener to emit inside a pass;
* `MaxEmits = 2` allows an emission that is both local and cross-thread, or two
  emissions in flight;
* `MaxArgs = 1` with one value separates an empty argument list from a
  non-empty one. That is the case the unpacking's off-by-one hazards turn on.

Other runs use smaller bounds:
* The shared-index run needs two hubs, one event and one callback.
* The refinement run uses one event and three callbacks, so a callback can be
  removed from the middle. It allows one pass (`MaxDepth = MaxEmits = 1`):
  registry changes inside a pass are exercised, and nesting adds nothing to the
  registry.
* The application-hub run has two hubs, one event, a non-string event that
  converts to it, and one emission.
* The AbilityContext run has three calls, so two can be in flight while a
  third is started or rejected.

## Fairness

Safety runs assume none. The one liveness run assumes weak fairness only where
the code's scheduling provides it:
* **AbilityContext**: the native `startAbilityByCall` eventually settles its
  promise (`NativeSettles`). That is the native runtime's contract and an
  assumption of the run. A continuation whose awaited promise has settled runs
  as a microtask (`Resume`).

## Checked once and no longer run

Some properties held only because of how the model is built, so they said
nothing about the code. They were removed:
* Snapshot dispatch (a pass calls a prefix of the array it copied). Only the
  loop steps touch a frame, so the property restates `cloneArray`
  (context.js:169).
* Event-loop progress, and the dispatch of every queued delivery. The emitter
  task always takes the head of the queue, and passes are bounded. The three
  outcomes of a delivery (pass, no handler, refused) are exactly the branches
  of `onEmitterFunction`.
* That a non-string emission never runs a listener. This restates the typeof
  check at context.js:165.
* The application hub's copies of `TypeOK`, `NoDuplicateDelivery` and snapshot
  dispatch. Its steps are a subset of `hub_single`'s, with the same constants.
* `AbilityContext`'s type invariant. Every action assigns literal states.

## Not modelled

* All other methods of Context, ApplicationContext, AbilityContext and
  UIExtensionContext return a `__context_impl__` call or only log. Ability's
  callbacks are empty, and its `callee` is created once and returned. There is
  nothing to explore without the native runtime. UIExtensionContext and Ability
  therefore stay `not_modelled`. Context, ApplicationContext and AbilityContext
  are `partly` modelled, because only their hub, `config` and call logic are
  modelled.
* The composition of the application-context hub with context hubs on one
  emitter is not checked separately. If their indices differ, their emitter
  names are disjoint, so they do not interact. If the indices coincide, they
  interact exactly as the two hubs of `hub_shared_index` do, because both
  classes' hubs have the same `on`, `off` and `emit`.
* `application.Caller` is outside `src/`. The model takes `new Caller(callee)`
  as not throwing. If it threw, the throw would come after the `await` inside
  the `async` Promise executor, and the returned promise would never settle
  (hazard at ability_context.js:73).
* Non-function callbacks are not modelled: `on` returns or throws for them
  before any state changes. Neither is the kind of error application_context.js
  throws. `ERROR_CODE_INVALID_PARAM`, `errMap` and `ERROR_MSG_INNER_ERROR` are
  undefined in that file, so the throw is presumably a ReferenceError and not
  BusinessError 401. Where the throw happens is modelled (`rejected`); what it
  carries is data.
* The other methods of AbilityContext, Context, ApplicationContext and
  UIExtensionContext, and all of Ability, are pure forwarding, logging or
  constants. That is the remaining 65% of the implementation lines, and
  modelling it would only restate calls to an unmodelled native runtime.
* The native hub's own registry is not modelled.

## Plan

1. Done: `EventHub` + `EventRegistry` + `MC_EventHub`, covering the registry,
   snapshot dispatch, multi-threading mode, the emitter, and the native entry
   points.
2. Done: the native-bridge runs (`NativeForwardingLocal`, `NativeForwardedOnce`),
   `AppEventHub` and `AbilityContext`.
3. Done: the dispatch-order question (`hub_mode_order`) and
   `startAbilityByCallWithAccount`'s continuation.
4. Composition of an application-context hub with context hubs on one
   emitter: covered by `hub_shared_index` (see Not modelled).
5. Done: non-string events on the emitter path (`app_invalid_emit`).
6. Open: larger bounds for hub_single. With `MaxEmits = 3` the run does not
   finish in 7 minutes, against about 900 thousand states in 30 seconds at
   the current bounds.
