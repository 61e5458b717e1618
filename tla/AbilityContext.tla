---------------------------- MODULE AbilityContext ----------------------------
(***************************************************************************)
(* The JS logic of AbilityContext (src/frameworks/js/napi/ability_context/ *)
(* ability_context.js): the configuration it keeps, and startAbilityByCall *)
(* and startAbilityByCallWithAccount, which return                         *)
(* new Promise(async (resolve, reject) => ...).  The executor runs         *)
(* synchronously up to its await: it checks the parameters (rejecting      *)
(* with a ParamError) or calls the native startAbilityByCall.  When the     *)
(* native promise settles, the continuation rejects with its error or      *)
(* resolves with new Caller(callee).  Calls run concurrently and their      *)
(* native answers arrive in any order.  The other methods only delegate to *)
(* __context_impl__ and are not modelled.                                  *)
(***************************************************************************)
EXTENDS Naturals

CONSTANTS
  Calls,         \* the startAbilityByCall[WithAccount] invocations of a behaviour
  AccountCalls,  \* those of them that are startAbilityByCallWithAccount
  Configs        \* configuration objects

ASSUME AccountCalls \subseteq Calls

VARIABLES
  config,    \* this.config
  valid,     \* valid[c]: c's want (and accountId) pass the parameter check
  promise,   \* promise[c]: the promise c returned ("none" before the call)
  native,    \* native[c]: c's native startAbilityByCall, and how it settled
  awaiting   \* awaiting[c]: c's executor is suspended at its await

vars == <<config, valid, promise, native, awaiting>>

(* resolve and reject of a promise that has settled do nothing. *)
Settle(p, outcome) == IF p = "pending" THEN outcome ELSE p

(* AbilityContext(obj): this.config = obj.config. *)
Init ==
  /\ config \in Configs
  /\ valid = [c \in Calls |-> FALSE]
  /\ promise = [c \in Calls |-> "none"]
  /\ native = [c \in Calls |-> "none"]
  /\ awaiting = [c \in Calls |-> FALSE]

onUpdateConfiguration(cfg) ==
  /\ config' = cfg
  /\ UNCHANGED <<valid, promise, native, awaiting>>

(* Fault variant: the parameter check rejects but does not return. *)
ExecutorNoReturn(c, ok) ==
  /\ promise[c] = "none"
  /\ valid' = [valid EXCEPT ![c] = ok]
  /\ promise' = [promise EXCEPT ![c] = IF ok THEN "pending" ELSE "rejected"]
  /\ native' = [native EXCEPT ![c] = "pending"]
  /\ awaiting' = [awaiting EXCEPT ![c] = TRUE]
  /\ UNCHANGED config

(* The executor up to its await: a bad parameter rejects and returns,     *)
(* else the native startAbilityByCall is called and awaited.               *)
Executor(c, ok) ==
  /\ promise[c] = "none"
  /\ valid' = [valid EXCEPT ![c] = ok]
  /\ IF ok
     THEN /\ promise' = [promise EXCEPT ![c] = "pending"]
          /\ native' = [native EXCEPT ![c] = "pending"]
          /\ awaiting' = [awaiting EXCEPT ![c] = TRUE]
     ELSE /\ promise' = [promise EXCEPT ![c] = "rejected"]
          /\ UNCHANGED <<native, awaiting>>
  /\ UNCHANGED config

(* want must be a non-null object. *)
startAbilityByCall(c, wantOk) == Executor(c, wantOk)

(* want must be a non-null object and accountId a number. *)
startAbilityByCallWithAccount(c, wantOk, accountOk) ==
  Executor(c, wantOk /\ accountOk)

(* The native side settles the promise of its startAbilityByCall: with a *)
(* callee remote object, or by rejecting (or throwing).                   *)
NativeSettles(c) ==
  /\ native[c] = "pending"
  /\ \E r \in {"callee", "error"} : native' = [native EXCEPT ![c] = r]
  /\ UNCHANGED <<config, valid, promise, awaiting>>

(* Fault variant: the catch block returns without rejecting. *)
ResumeNoReject(c) ==
  /\ awaiting[c]
  /\ native[c] \in {"callee", "error"}
  /\ awaiting' = [awaiting EXCEPT ![c] = FALSE]
  /\ promise' = [promise EXCEPT ![c] =
                   IF native[c] = "error" THEN @ ELSE Settle(@, "resolved")]
  /\ UNCHANGED <<config, valid, native>>

(* The continuation after the await: catch rejects with the native error *)
(* and returns; otherwise resolve(new Caller(callee)).                    *)
Resume(c) ==
  /\ awaiting[c]
  /\ native[c] \in {"callee", "error"}
  /\ awaiting' = [awaiting EXCEPT ![c] = FALSE]
  /\ promise' = [promise EXCEPT ![c] =
                   Settle(@, IF native[c] = "error" THEN "rejected" ELSE "resolved")]
  /\ UNCHANGED <<config, valid, native>>

(* The continuation of startAbilityByCallWithAccount: the same statements. *)
ResumeWithAccount(c) == Resume(c)

Next ==
  \/ \E cfg \in Configs : onUpdateConfiguration(cfg)
  \/ \E c \in Calls \ AccountCalls :
       \/ \E w \in BOOLEAN : startAbilityByCall(c, w)
       \/ Resume(c)
  \/ \E c \in AccountCalls :
       \/ \E w, a \in BOOLEAN : startAbilityByCallWithAccount(c, w, a)
       \/ ResumeWithAccount(c)
  \/ \E c \in Calls : NativeSettles(c)

(* The native call settles its promise (the runtime's contract), and a   *)
(* continuation whose awaited promise has settled runs as a microtask.    *)
Fairness ==
  /\ \A c \in Calls : WF_vars(NativeSettles(c))
  /\ \A c \in Calls \ AccountCalls : WF_vars(Resume(c))
  /\ \A c \in AccountCalls : WF_vars(ResumeWithAccount(c))

Spec == Init /\ [][Next]_vars /\ Fairness

-----------------------------------------------------------------------------
(* startAbilityByCall[WithAccount]: a call reaches the native side iff   *)
(* its parameters pass the check, and its promise settles with what its    *)
(* own checks and its own native answer say, however the calls and the   *)
(* native answers interleave: resolved only with a callee, rejected only  *)
(* for a bad parameter or a native error.                                 *)
CallOutcome ==
  \A c \in Calls :
    promise[c] # "none" =>
      /\ native[c] # "none" <=> valid[c]
      /\ promise[c] = "resolved" => native[c] = "callee"
      /\ promise[c] = "rejected" => ~valid[c] \/ native[c] = "error"

(* Every promise startAbilityByCall[WithAccount] returns eventually       *)
(* settles: the executor's early returns and its catch all settle it.     *)
CallSettles ==
  \A c \in Calls : promise[c] = "pending" ~> promise[c] \in {"resolved", "rejected"}

=============================================================================
