----------------------------- MODULE MsrClient -----------------------------
(***************************************************************************)
(* src/src/msr_client.cpp: MsrClient::StoreSnapshot as the camera worker   *)
(* threads, the motion poller and the thumbnail backfill call it at once.  *)
(*                                                                         *)
(* Every access to one of the std::atomic members is a step of its own;    *)
(* single_flight_mu_ is taken between the cool-down check and the RPC, as  *)
(* in the code.  The RPC itself (libcurl, a 5 s timeout) answers with an   *)
(* id, with an error, or never starts because curl_easy_init failed.       *)
(* seen_first_success_ and perform_count_ only feed the log and the tests. *)
(***************************************************************************)
EXTENDS Integers, FiniteSets

CONSTANTS Callers,       \* threads that call StoreSnapshot
          NoCaller,      \* the mutex is free
          Serialize,     \* --msr_serialize (set_serialize)
          Cooldown,      \* cooldown_ms_; 0 disables the check
          Threshold,     \* kSuspendThreshold
          MaxTime,       \* bound: last instant of the clock
          MaxFailures    \* bound: consecutive_failures_ is not driven past it

ASSUME ConstantsAssumption ==
  /\ NoCaller \notin Callers
  /\ Serialize \in BOOLEAN
  /\ Cooldown \in Nat
  /\ Threshold \in Nat \ {0}
  /\ MaxTime \in Nat
  /\ MaxFailures \in Nat

VARIABLES pc,            \* where each caller is in StoreSnapshot
          clockRead,     \* the local `now` of this call's check; 0: not read
          mutex,         \* single_flight_mu_: its owner, or NoCaller
          clock,         \* steady_clock, shared by all threads
          lastFailure,   \* last_failure_ms_
          consecutive,   \* consecutive_failures_
          suspended      \* suspended_

vars == <<pc, clockRead, mutex, clock, lastFailure, consecutive, suspended>>

(* idle: outside.  readClock/readLast: the cool-down check.  enter: about  *)
(* to take the mutex (or to skip it).  perform: the RPC.  stamp, count,    *)
(* suspend: note_failure.  reset, resume: note_success.  leave: return.    *)
Labels == {"idle", "readClock", "readLast", "enter", "perform", "stamp",
           "count", "suspend", "reset", "resume", "leave"}

(* The labels at which a caller is between the mutex and its release. *)
Inside == {"perform", "stamp", "count", "suspend", "reset", "resume", "leave"}

Goto(c, from, to) == /\ pc[c] = from
                     /\ pc' = [pc EXCEPT ![c] = to]

Init == /\ pc = [c \in Callers |-> "idle"]
        /\ clockRead = [c \in Callers |-> 0]
        /\ mutex = NoCaller
        /\ clock = 1
        /\ lastFailure = 0
        /\ consecutive = 0
        /\ suspended = FALSE

(***************************************************************************)
(* The cool-down check, before the mutex.                                  *)
(***************************************************************************)

(* A caller with a snapshot to store loads cooldown_ms_ and suspended_. *)
Call(c) == /\ Goto(c, "idle",
                   IF Cooldown > 0 /\ suspended THEN "readClock" ELSE "enter")
           /\ clockRead' = [clockRead EXCEPT ![c] = 0]
           /\ UNCHANGED <<mutex, clock, lastFailure, consecutive, suspended>>

ReadClock(c) == /\ Goto(c, "readClock", "readLast")
                /\ clockRead' = [clockRead EXCEPT ![c] = clock]
                /\ UNCHANGED <<mutex, clock, lastFailure, consecutive, suspended>>

(* Inside the cool-down the call returns "" without touching MSR. *)
CheckCooldown(c) ==
  /\ Goto(c, "readLast",
          IF clockRead[c] - lastFailure < Cooldown THEN "idle" ELSE "enter")
  /\ UNCHANGED <<clockRead, mutex, clock, lastFailure, consecutive, suspended>>

(***************************************************************************)
(* The single-flight section.                                              *)
(***************************************************************************)

BadEnterWithoutLock(c) ==
  /\ Goto(c, "enter", "perform")
  /\ UNCHANGED <<mutex, clockRead, clock, lastFailure, consecutive, suspended>>

Enter(c) == /\ Goto(c, "enter", "perform")
            /\ IF Serialize
               THEN mutex = NoCaller /\ mutex' = c
               ELSE UNCHANGED mutex
            /\ UNCHANGED <<clockRead, clock, lastFailure, consecutive, suspended>>

BadNoHandle(c) ==
  /\ Goto(c, "perform", "idle")
  /\ UNCHANGED <<mutex, clockRead, clock, lastFailure, consecutive, suspended>>

(* curl_easy_init failed: return "" with no bookkeeping at all. *)
NoHandle(c) == /\ Goto(c, "perform", "leave")
               /\ UNCHANGED <<clockRead, mutex, clock, lastFailure, consecutive,
                              suspended>>

(* curl error, gRPC status, short body or no id in the response. *)
RpcFails(c) == /\ consecutive < MaxFailures
               /\ Goto(c, "perform", "stamp")
               /\ UNCHANGED <<clockRead, mutex, clock, lastFailure, consecutive,
                              suspended>>

RpcStores(c) == /\ Goto(c, "perform", "reset")
                /\ UNCHANGED <<clockRead, mutex, clock, lastFailure, consecutive,
                               suspended>>

(***************************************************************************)
(* note_failure: stamp the failure, count it, suspend on the Threshold-th. *)
(***************************************************************************)

StampFailure(c) == /\ Goto(c, "stamp", "count")
                   /\ lastFailure' = clock
                   /\ UNCHANGED <<clockRead, mutex, clock, consecutive, suspended>>

BadCountFailure(c) ==
  /\ Goto(c, "count", IF consecutive = Threshold THEN "suspend" ELSE "leave")
  /\ consecutive' = consecutive + 1
  /\ UNCHANGED <<clockRead, mutex, clock, lastFailure, suspended>>

CountFailure(c) ==
  /\ Goto(c, "count", IF consecutive + 1 = Threshold THEN "suspend" ELSE "leave")
  /\ consecutive' = consecutive + 1
  /\ UNCHANGED <<clockRead, mutex, clock, lastFailure, suspended>>

Suspend(c) == /\ Goto(c, "suspend", "leave")
              /\ suspended' = TRUE
              /\ UNCHANGED <<clockRead, mutex, clock, lastFailure, consecutive>>

(***************************************************************************)
(* note_success: forget the failures, then lift the suspension.            *)
(***************************************************************************)

BadResetFailures(c) ==
  /\ Goto(c, "reset", "resume")
  /\ UNCHANGED <<clockRead, mutex, clock, lastFailure, consecutive, suspended>>

ResetFailures(c) == /\ Goto(c, "reset", "resume")
                    /\ consecutive' = 0
                    /\ UNCHANGED <<clockRead, mutex, clock, lastFailure, suspended>>

Resume(c) == /\ Goto(c, "resume", "leave")
             /\ suspended' = FALSE
             /\ UNCHANGED <<clockRead, mutex, clock, lastFailure, consecutive>>

(* The unique_lock's destructor releases the mutex if the caller holds it. *)
Leave(c) == /\ Goto(c, "leave", "idle")
            /\ mutex' = IF mutex = c THEN NoCaller ELSE mutex
            /\ UNCHANGED <<clockRead, clock, lastFailure, consecutive, suspended>>

Tick == /\ clock < MaxTime
        /\ clock' = clock + 1
        /\ UNCHANGED <<pc, clockRead, mutex, lastFailure, consecutive, suspended>>

(* The steps a caller takes once it is past the mutex. *)
Finish(c) == \/ NoHandle(c) \/ RpcFails(c) \/ RpcStores(c)
             \/ StampFailure(c) \/ CountFailure(c) \/ Suspend(c)
             \/ ResetFailures(c) \/ Resume(c) \/ Leave(c)

Next == \/ \E c \in Callers : \/ Call(c) \/ ReadClock(c) \/ CheckCooldown(c)
                              \/ Enter(c) \/ Finish(c)
        \/ Tick

(* libcurl gives up after 5 s (CURLOPT_TIMEOUT) and nothing else on the    *)
(* path blocks, so a caller past the mutex always gets on.  Nothing forces *)
(* a camera to detect anything, nor one waiter to win the mutex.           *)
Spec == Init /\ [][Next]_vars /\ \A c \in Callers : WF_vars(Finish(c))

-----------------------------------------------------------------------------
TypeOK == /\ pc \in [Callers -> Labels]
          /\ clockRead \in [Callers -> Nat]
          /\ mutex \in Callers \cup {NoCaller}
          /\ clock \in Nat
          /\ lastFailure \in Nat
          /\ consecutive \in Nat
          /\ suspended \in BOOLEAN

(* "MSR sees at most one in-flight StoreSnapshots from this process"       *)
(* (msr_client.hpp:38-40): with --msr_serialize on, two callers are never  *)
(* between the lock and its release at once, whatever path they left by.   *)
SingleFlight ==
  Serialize => \A c, d \in Callers :
                 pc[c] \in Inside /\ pc[d] \in Inside => c = d

(* The two atomics that carry the suspension, written in separate steps by *)
(* note_failure and note_success, agree whenever nobody is inside: MSR is  *)
(* suspended exactly when the last Threshold outcomes, or more, failed.    *)
SuspensionConsistent ==
  (\A c \in Callers : pc[c] \notin Inside) =>
    (suspended <=> consecutive >= Threshold)

(* The same, told at every step of the caller inside: what the serialised  *)
(* client keeps as its inductive invariant.                                *)
MutexMatchesPc == \A c \in Callers : pc[c] \in Inside <=> mutex = c

SuspensionInStep ==
  /\ mutex = NoCaller => (suspended <=> consecutive >= Threshold)
  /\ \A c \in Callers :
       /\ pc[c] \in {"perform", "stamp", "count", "reset", "leave"}
            => (suspended <=> consecutive >= Threshold)
       /\ pc[c] = "suspend" => ~suspended /\ consecutive = Threshold
       /\ pc[c] = "resume" => consecutive = 0

SerialInv == Serialize => TypeOK /\ MutexMatchesPc /\ SuspensionInStep

(* The single-flight lock is never kept for good: each way out of the      *)
(* call, the curl_easy_init failure too, hands it back.                    *)
LockHandedBack == \A c \in Callers : mutex = c ~> mutex # c

-----------------------------------------------------------------------------
(* The serialised client implements the atomic breaker: both words take    *)
(* effect with the first of the two stores that record an outcome.         *)
Pending(label) == \E c \in Callers : pc[c] = label

Breaker == INSTANCE SnapshotBreaker WITH
             inFlight <- mutex,
             fails    <- consecutive,
             open     <- (suspended \/ Pending("suspend")) /\ ~Pending("resume")

BreakerSpec == Breaker!Spec
=============================================================================
