---------------------------- MODULE MC_AppEventHub ----------------------------
(* Instantiation of the application context's hub for TLC. *)
EXTENDS AppEventHub, TLC

(* One context: every hub carries the same contextIndex. *)
SharedContextIndex == [h \in Hubs |-> 1]

(* Every non-string event converts to the name of a string event. *)
AsStringColliding == [x \in BadEvents |-> CHOOSE e \in Events : TRUE]

=============================================================================
