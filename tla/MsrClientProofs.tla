-------------------------- MODULE MsrClientProofs --------------------------
(***************************************************************************)
(* MsrClient for every number of threads, every threshold and cool-down:   *)
(* its types, single flight, the agreement of the two words that carry the *)
(* suspension, and the implementation of SnapshotBreaker.                  *)
(***************************************************************************)
EXTENDS MsrClient, TLAPS

(* Whatever the threads do, every variable of the client keeps its type:   *)
(* the failure counter is never driven below zero, the clock read is set.  *)
THEOREM TypeCorrect == Spec => []TypeOK
<1>1. Init => TypeOK
  <2> SUFFICES ASSUME Init PROVE TypeOK
    OBVIOUS
  <2>1. suspended \in BOOLEAN
    BY Zenon DEF Init
  <2> QED
    BY <2>1, ConstantsAssumption DEF Init, TypeOK, Labels
<1>2. TypeOK /\ [Next]_vars => TypeOK'
  <2> SUFFICES ASSUME TypeOK, [Next]_vars PROVE TypeOK'
    OBVIOUS
  <2> USE DEF TypeOK, Labels, Goto
  <2>1. ASSUME NEW c \in Callers, Call(c) PROVE TypeOK'
    BY <2>1 DEF Call
  <2>2. ASSUME NEW c \in Callers, ReadClock(c) PROVE TypeOK'
    BY <2>2 DEF ReadClock
  <2>3. ASSUME NEW c \in Callers, CheckCooldown(c) PROVE TypeOK'
    BY <2>3 DEF CheckCooldown
  <2>4. ASSUME NEW c \in Callers, Enter(c) PROVE TypeOK'
    BY <2>4 DEF Enter
  <2>5. ASSUME NEW c \in Callers, Finish(c) PROVE TypeOK'
    <3>1. CASE NoHandle(c) \/ RpcStores(c)
      BY <3>1 DEF NoHandle, RpcStores
    <3>2. CASE RpcFails(c)
      BY <3>2 DEF RpcFails
    <3>3. CASE StampFailure(c)
      BY <3>3 DEF StampFailure
    <3>4. CASE CountFailure(c)
      BY <3>4 DEF CountFailure
    <3>5. CASE Suspend(c)
      <4>1. suspended' \in BOOLEAN
        BY <3>5, Zenon DEF Suspend
      <4> QED
        BY <3>5, <4>1 DEF Suspend
    <3>6. CASE ResetFailures(c)
      BY <3>6 DEF ResetFailures
    <3>7. CASE Resume(c)
      <4>1. suspended' \in BOOLEAN
        BY <3>7, Zenon DEF Resume
      <4> QED
        BY <3>7, <4>1 DEF Resume
    <3>8. CASE Leave(c)
      BY <3>8 DEF Leave
    <3> QED
      BY <2>5, <3>1, <3>2, <3>3, <3>4, <3>5, <3>6, <3>7, <3>8 DEF Finish
  <2>6. CASE Tick
    BY <2>6 DEF Tick
  <2>7. CASE UNCHANGED vars
    BY <2>7 DEF vars
  <2> QED
    BY <2>1, <2>2, <2>3, <2>4, <2>5, <2>6, <2>7 DEF Next
<1> QED
  BY <1>1, <1>2, PTL DEF Spec

-----------------------------------------------------------------------------
(* With the lock on, a caller past it is alone there. *)
LEMMA AloneInside ==
  ASSUME MutexMatchesPc,
         NEW c \in Callers, pc[c] \in Inside
  PROVE  mutex = c /\ \A d \in Callers \ {c} : pc[d] \notin Inside
BY DEF MutexMatchesPc

(* No step of the serialised client breaks the tie between the lock and    *)
(* the callers' positions: each way in takes it, each way out returns it.  *)
LEMMA MutexStep ==
  ASSUME Serialize, TypeOK, MutexMatchesPc, [Next]_vars
  PROVE  MutexMatchesPc'
<1> USE DEF TypeOK, MutexMatchesPc, Goto, Inside
<1>1. ASSUME NEW c \in Callers, Call(c) PROVE MutexMatchesPc'
  BY <1>1 DEF Call
<1>2. ASSUME NEW c \in Callers, ReadClock(c) PROVE MutexMatchesPc'
  BY <1>2 DEF ReadClock
<1>3. ASSUME NEW c \in Callers, CheckCooldown(c) PROVE MutexMatchesPc'
  BY <1>3 DEF CheckCooldown
<1>4. ASSUME NEW c \in Callers, Enter(c) PROVE MutexMatchesPc'
  BY <1>4, ConstantsAssumption DEF Enter
<1>5. ASSUME NEW c \in Callers, Finish(c) PROVE MutexMatchesPc'
  <2>1. CASE NoHandle(c) \/ RpcFails(c) \/ RpcStores(c)
    BY <2>1 DEF NoHandle, RpcFails, RpcStores
  <2>2. CASE StampFailure(c) \/ CountFailure(c) \/ Suspend(c)
    BY <2>2 DEF StampFailure, CountFailure, Suspend
  <2>3. CASE ResetFailures(c) \/ Resume(c)
    BY <2>3 DEF ResetFailures, Resume
  <2>4. CASE Leave(c)
    BY <2>4, ConstantsAssumption DEF Leave
  <2> QED
    BY <1>5, <2>1, <2>2, <2>3, <2>4 DEF Finish
<1>6. CASE Tick
  BY <1>6 DEF Tick
<1>7. CASE UNCHANGED vars
  BY <1>7 DEF vars
<1> QED
  BY <1>1, <1>2, <1>3, <1>4, <1>5, <1>6, <1>7 DEF Next

(* Nor does one let the suspension and the failure counter drift apart:    *)
(* between the two stores of an outcome only that caller is inside.        *)
LEMMA SuspensionStep ==
  ASSUME Serialize, TypeOK, MutexMatchesPc, SuspensionInStep, [Next]_vars
  PROVE  SuspensionInStep'
<1>0. MutexMatchesPc'
  BY MutexStep
<1> USE ConstantsAssumption DEF TypeOK, SuspensionInStep, Goto, Inside
<1>1. ASSUME NEW c \in Callers, Call(c) PROVE SuspensionInStep'
  BY <1>1 DEF Call
<1>2. ASSUME NEW c \in Callers, ReadClock(c) PROVE SuspensionInStep'
  BY <1>2 DEF ReadClock
<1>3. ASSUME NEW c \in Callers, CheckCooldown(c) PROVE SuspensionInStep'
  BY <1>3 DEF CheckCooldown
<1>4. ASSUME NEW c \in Callers, Enter(c) PROVE SuspensionInStep'
  BY <1>4 DEF Enter
<1>5. ASSUME NEW c \in Callers, Finish(c) PROVE SuspensionInStep'
  <2>1. pc[c] \in Inside
    BY <1>5 DEF Finish, NoHandle, RpcFails, RpcStores, StampFailure, CountFailure,
                Suspend, ResetFailures, Resume, Leave
  <2>2. mutex = c /\ \A d \in Callers \ {c} : pc[d] \notin Inside
    BY <2>1, AloneInside
  <2>3. CASE NoHandle(c) \/ RpcFails(c) \/ RpcStores(c)
    BY <2>2, <2>3 DEF NoHandle, RpcFails, RpcStores
  <2>4. CASE StampFailure(c)
    BY <2>2, <2>4 DEF StampFailure
  <2>5. CASE CountFailure(c)
    BY <2>2, <2>5 DEF CountFailure
  <2>6. CASE Suspend(c)
    BY <2>2, <2>6 DEF Suspend
  <2>7. CASE ResetFailures(c)
    BY <2>2, <2>7 DEF ResetFailures
  <2>8. CASE Resume(c)
    BY <2>2, <2>8 DEF Resume
  <2>9. CASE Leave(c)
    BY <2>2, <2>9 DEF Leave
  <2> QED
    BY <1>5, <2>3, <2>4, <2>5, <2>6, <2>7, <2>8, <2>9 DEF Finish
<1>6. CASE Tick
  BY <1>6 DEF Tick
<1>7. CASE UNCHANGED vars
  BY <1>7 DEF vars
<1> QED
  BY <1>1, <1>2, <1>3, <1>4, <1>5, <1>6, <1>7 DEF Next

(* The inductive invariant of the serialised client holds for good: the    *)
(* lock follows the caller inside, and both suspension words follow the    *)
(* outcome that caller is recording.                                       *)
THEOREM SerialInvariant == Spec => []SerialInv
<1>1. Init => SerialInv
  <2> SUFFICES ASSUME Init PROVE SerialInv
    OBVIOUS
  <2>1. TypeOK
    BY ConstantsAssumption DEF Init, TypeOK, Labels
  <2>2. MutexMatchesPc /\ SuspensionInStep
    BY ConstantsAssumption DEF Init, MutexMatchesPc, SuspensionInStep, Inside
  <2> QED
    BY <2>1, <2>2 DEF SerialInv
<1>2. SerialInv /\ TypeOK' /\ [Next]_vars => SerialInv'
  BY MutexStep, SuspensionStep DEF SerialInv
<1> QED
  BY <1>1, <1>2, TypeCorrect, PTL DEF Spec

(* With --msr_serialize on, MSR sees at most one StoreSnapshots call of    *)
(* this process at a time, however many workers call at once.              *)
THEOREM SingleFlightHolds == Spec => []SingleFlight
<1>1. SerialInv => SingleFlight
  BY DEF SerialInv, SingleFlight, MutexMatchesPc
<1> QED
  BY <1>1, SerialInvariant, PTL

(* With it on, whenever no call is in progress the client is suspended     *)
(* exactly when at least Threshold calls in a row have failed.             *)
THEOREM SuspensionConsistentHolds ==
  ASSUME Serialize PROVE Spec => []SuspensionConsistent
<1>1. SerialInv /\ TypeOK => SuspensionConsistent
  BY DEF SerialInv, SuspensionConsistent, SuspensionInStep, MutexMatchesPc, TypeOK
<1> QED
  BY <1>1, SerialInvariant, TypeCorrect, PTL
-----------------------------------------------------------------------------
(* What the mapping of the suspension comes to when a caller is alone. *)
LEMMA OpenAlone ==
  ASSUME TypeOK, NEW c \in Callers,
         \A d \in Callers \ {c} : pc[d] \notin Inside
  PROVE  /\ Pending("suspend") <=> pc[c] = "suspend"
         /\ Pending("resume") <=> pc[c] = "resume"
BY DEF Pending, Inside

(* A caller's step outside the lock leaves the mapped words alone. *)
LEMMA OutsideStutters ==
  ASSUME TypeOK, NEW c \in Callers, pc[c] \notin {"suspend", "resume"},
         NEW l, l \notin {"suspend", "resume"}, pc' = [pc EXCEPT ![c] = l],
         UNCHANGED <<mutex, consecutive, suspended>>
  PROVE  UNCHANGED Breaker!breakerVars
<1>1. (Pending("suspend"))' <=> Pending("suspend")
  BY DEF Pending, TypeOK
<1>2. (Pending("resume"))' <=> Pending("resume")
  BY DEF Pending, TypeOK
<1> QED
  BY <1>1, <1>2 DEF Breaker!breakerVars

(* The serialised client implements the atomic breaker: taking the lock is *)
(* Begin, counting a failure is Fail, resetting the counter is Succeed,    *)
(* returning is End, and the second store of an outcome changes nothing a  *)
(* caller of the breaker can see.                                          *)
THEOREM ImplementsBreaker ==
  ASSUME Serialize PROVE Spec => BreakerSpec
<1>1. Init => Breaker!Init
  <2> SUFFICES ASSUME Init PROVE Breaker!Init
    OBVIOUS
  <2>1. ~Pending("suspend") /\ ~Pending("resume")
    BY DEF Init, Pending
  <2>2. mutex = NoCaller /\ consecutive = 0
    BY DEF Init
  <2>3. ((suspended \/ Pending("suspend")) /\ ~Pending("resume")) = FALSE
    BY <2>1, Zenon DEF Init
  <2> QED
    BY <2>2, <2>3 DEF Breaker!Init
<1>2. ASSUME SerialInv, TypeOK, [Next]_vars
      PROVE  [Breaker!Next]_Breaker!breakerVars
  <2>0. MutexMatchesPc /\ SuspensionInStep
    BY <1>2 DEF SerialInv
  <2>a. TypeOK /\ NoCaller \notin Callers /\ Threshold \in Nat \ {0}
    BY <1>2, ConstantsAssumption
  <2> DEFINE Open == (suspended \/ Pending("suspend")) /\ ~Pending("resume")
  <2>1. ASSUME NEW c \in Callers, Call(c) \/ ReadClock(c) \/ CheckCooldown(c)
        PROVE  UNCHANGED Breaker!breakerVars
    BY <2>1, <2>a, OutsideStutters DEF Call, ReadClock, CheckCooldown, Goto
  <2>2. ASSUME NEW c \in Callers, Enter(c) PROVE Breaker!Begin(c)
    <3>1. pc[c] = "enter" /\ pc' = [pc EXCEPT ![c] = "perform"]
      BY <2>2 DEF Enter, Goto
    <3>2. (Pending("suspend"))' <=> Pending("suspend")
      BY <3>1, <2>a DEF Pending, TypeOK
    <3>3. (Pending("resume"))' <=> Pending("resume")
      BY <3>1, <2>a DEF Pending, TypeOK
    <3> QED
      BY <2>2, <3>2, <3>3 DEF Enter, Breaker!Begin
  <2>3. ASSUME NEW c \in Callers, Finish(c)
        PROVE  Breaker!Next \/ UNCHANGED Breaker!breakerVars
    <3>1. pc[c] \in Inside
      BY <2>3 DEF Finish, NoHandle, RpcFails, RpcStores, StampFailure, CountFailure,
                  Suspend, ResetFailures, Resume, Leave, Goto, Inside
    <3>2. mutex = c /\ \A d \in Callers \ {c} : pc[d] \notin Inside
      BY <3>1, <2>0, AloneInside
    <3>3. /\ Pending("suspend") <=> pc[c] = "suspend"
          /\ Pending("resume") <=> pc[c] = "resume"
      BY <3>2, <2>a, OpenAlone
    <3>a. c \in DOMAIN pc /\ \A d \in Callers \ {c} : pc'[d] = pc[d]
      BY <2>3, <2>a DEF Finish, NoHandle, RpcFails, RpcStores, StampFailure,
                        CountFailure, Suspend, ResetFailures, Resume, Leave, Goto, TypeOK
    <3>4. /\ (Pending("suspend"))' <=> pc'[c] = "suspend"
          /\ (Pending("resume"))' <=> pc'[c] = "resume"
      BY <3>a, <3>2 DEF Pending, Inside
    <3>5. CASE NoHandle(c) \/ RpcFails(c) \/ RpcStores(c) \/ StampFailure(c)
      BY <3>5, <2>a, OutsideStutters
         DEF NoHandle, RpcFails, RpcStores, StampFailure, Goto
    <3>6. CASE CountFailure(c)
      <4>1. Breaker!Fail(c)
        <5>1. suspended <=> consecutive >= Threshold
          BY <3>6, <2>0 DEF CountFailure, Goto, SuspensionInStep
        <5>2. ~Pending("suspend") /\ ~Pending("resume")
          BY <3>6, <3>3 DEF CountFailure, Goto
        <5>3. /\ (Pending("suspend"))' <=> consecutive + 1 = Threshold
              /\ ~(Pending("resume"))'
          BY <3>6, <3>4, <3>a DEF CountFailure, Goto
        <5>4. mutex = c /\ mutex' = mutex /\ consecutive' = consecutive + 1
              /\ suspended' = suspended
          BY <3>6, <3>2 DEF CountFailure
        <5>5. Open' = (Open \/ consecutive + 1 = Threshold)
          BY <5>2, <5>3, <5>4, Zenon
        <5>6. Open' = (Open \/ consecutive' = Threshold)
          BY <5>4, <5>5
        <5> QED
          BY <5>4, <5>6, Zenon DEF Breaker!Fail
      <4> QED
        BY <4>1 DEF Breaker!Next
    <3>7. CASE Suspend(c)
      <4>1. Pending("suspend") /\ ~Pending("resume")
        BY <3>7, <3>3 DEF Suspend, Goto
      <4>2. ~(Pending("suspend"))' /\ ~(Pending("resume"))'
        BY <3>7, <3>4, <3>a DEF Suspend, Goto
      <4>3. Open' = Open
        BY <3>7, <4>1, <4>2, Zenon DEF Suspend
      <4> QED
        BY <3>7, <4>3, Zenon DEF Suspend, Breaker!breakerVars
    <3>8. CASE ResetFailures(c)
      <4>1. Breaker!Succeed(c)
        <5>1. (Pending("resume"))'
          BY <3>8, <3>4, <3>a DEF ResetFailures, Goto
        <5>2. Open' = FALSE
          BY <5>1, Zenon
        <5> QED
          BY <3>8, <3>2, <5>2, Zenon DEF ResetFailures, Breaker!Succeed
      <4> QED
        BY <4>1 DEF Breaker!Next
    <3>9. CASE Resume(c)
      <4>1. Pending("resume")
        BY <3>9, <3>3 DEF Resume, Goto
      <4>2. ~(Pending("suspend"))' /\ ~(Pending("resume"))'
        BY <3>9, <3>4, <3>a DEF Resume, Goto
      <4>3. Open' = Open
        BY <3>9, <4>1, <4>2, Zenon DEF Resume
      <4> QED
        BY <3>9, <4>3, Zenon DEF Resume, Breaker!breakerVars
    <3>10. CASE Leave(c)
      <4>1. Breaker!End(c)
        <5>1. /\ ~Pending("suspend") /\ ~(Pending("suspend"))'
              /\ ~Pending("resume") /\ ~(Pending("resume"))'
          BY <3>10, <3>3, <3>4, <3>a DEF Leave, Goto
        <5>2. Open' = Open
          BY <3>10, <5>1, Zenon DEF Leave
        <5>3. mutex = c /\ mutex' = NoCaller /\ consecutive' = consecutive
          BY <3>10, <3>2 DEF Leave
        <5> QED
          BY <5>2, <5>3, Zenon DEF Breaker!End
      <4> QED
        BY <4>1 DEF Breaker!Next
    <3> QED
      BY <2>3, <3>5, <3>6, <3>7, <3>8, <3>9, <3>10 DEF Finish
  <2>4. CASE Tick
    BY <2>4 DEF Tick, Pending, Breaker!breakerVars
  <2>5. CASE UNCHANGED vars
    BY <2>5 DEF vars, Pending, Breaker!breakerVars
  <2> QED
    BY <1>2, <2>1, <2>2, <2>3, <2>4, <2>5 DEF Next, Breaker!Next
<1> QED
  BY <1>1, <1>2, SerialInvariant, TypeCorrect, PTL DEF Spec, BreakerSpec, Breaker!Spec
=============================================================================
