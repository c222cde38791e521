-------------------------- MODULE SnapshotBreaker --------------------------
(***************************************************************************)
(* What MsrClient promises its callers, as one atomic circuit breaker:     *)
(* at most one StoreSnapshots call in flight, forwarding suspended by      *)
(* exactly the Threshold-th consecutive failure and resumed by exactly the *)
(* next success (msr_client.hpp, the comments of set_serialize,            *)
(* set_suspend_cooldown and of the connection-state members).              *)
(***************************************************************************)
EXTENDS Integers

CONSTANTS Callers,      \* threads that call StoreSnapshot
          Threshold,    \* consecutive failures that suspend forwarding
          NoCaller      \* nobody is in flight

VARIABLES inFlight,     \* the caller talking to MSR, or NoCaller
          fails,        \* failures since the last success
          open          \* forwarding is suspended

breakerVars == <<inFlight, fails, open>>

Init == /\ inFlight = NoCaller
        /\ fails = 0
        /\ open = FALSE

(* A caller starts talking to MSR; nobody else may be talking to it. *)
Begin(c) == /\ inFlight = NoCaller
            /\ inFlight' = c
            /\ UNCHANGED <<fails, open>>

(* The outcome of the call in flight is recorded in one indivisible step. *)
Fail(c) == /\ inFlight = c
           /\ fails' = fails + 1
           /\ open' = (open \/ fails' = Threshold)
           /\ UNCHANGED inFlight

Succeed(c) == /\ inFlight = c
              /\ fails' = 0
              /\ open' = FALSE
              /\ UNCHANGED inFlight

End(c) == /\ inFlight = c
          /\ inFlight' = NoCaller
          /\ UNCHANGED <<fails, open>>

Next == \E c \in Callers : Begin(c) \/ Fail(c) \/ Succeed(c) \/ End(c)

Spec == Init /\ [][Next]_breakerVars
=============================================================================
