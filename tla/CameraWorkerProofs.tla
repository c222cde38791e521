------------------------- MODULE CameraWorkerProofs -------------------------
(***************************************************************************)
(* Theorems of CameraWorker, for every value of its constants.             *)
(***************************************************************************)
EXTENDS CameraWorker, TLAPS

(* Where in run() the worker holds a subscription, and where it has none.  *)
SubscribedByPc ==
  /\ pc \in {"discover", "create", "done"} => ~subscribed
  /\ pc \in {"loop", "renew", "sleep", "pull", "drop"} => subscribed

(* The count only reaches the limit on the way into the pause. *)
RoomToFail == MaxFailures > 0 /\ pc # "pause" => failures < MaxFailures

WorkerInv == TypeOK /\ SubscribedByPc /\ RoomToFail /\ NoStaleBadge

(* A capped age stays within its cap. *)
LEMMA AgeInRange ==
  ASSUME NEW limit \in Nat, NEW age \in 0 .. limit, NEW d \in Nat
  PROVE  AgeTo(limit, age, d) \in 0 .. limit
BY DEF AgeTo

(* Time that passes keeps the ages within their caps. *)
LEMMA PassTyped ==
  ASSUME TypeOK, NEW d \in Nat, Pass(d)
  PROVE  /\ streakAge' \in 0 .. Window
         /\ renewAge' \in 0 .. RenewEvery
         /\ leaseAge' \in 0 .. Lifetime
BY ConstantsAssumption, AgeInRange DEF TypeOK, Pass

(* Counting a failure adds one and leads to a pause or a retry. *)
LEMMA CountTyped ==
  ASSUME TypeOK, NEW d \in CallTakes, CountFailure(d)
  PROVE  /\ streakAge' \in 0 .. Window
         /\ renewAge' \in 0 .. RenewEvery
         /\ leaseAge' \in 0 .. Lifetime
         /\ failures' = failures + 1
         /\ pc' \in {"pause", "retry"}
         /\ pc' = "retry" => ~(MaxFailures > 0 /\ failures' >= MaxFailures)
<1>1. d \in Nat
  BY ConstantsAssumption
<1>2. /\ AgeTo(Window, streakAge, d) \in 0 .. Window
      /\ AgeTo(RenewEvery, renewAge, d) \in 0 .. RenewEvery
      /\ AgeTo(Lifetime, leaseAge, d) \in 0 .. Lifetime
  BY <1>1, ConstantsAssumption, AgeInRange DEF TypeOK
<1>3. 0 \in 0 .. Window
  BY ConstantsAssumption
<1> QED
  BY <1>2, <1>3 DEF CountFailure

(* The next backoff lies between floor and cap. *)
LEMMA BackoffTyped ==
  ASSUME NEW b \in {0} \cup (BackoffFloor .. BackoffCap)
  PROVE  NextBackoff(b) \in BackoffFloor .. BackoffCap
BY ConstantsAssumption DEF NextBackoff

(* Nobody turns the back-off on or off while the worker runs. *)
LEMMA SwitchFixed == ASSUME [Next]_vars PROVE backoffOn' = backoffOn
BY Zenon DEF Next, vars

(* The flags a step writes stay Boolean, whichever step it is. *)
LEMMA FlagsTyped ==
  ASSUME TypeOK, [Next]_vars
  PROVE  /\ running' \in BOOLEAN /\ refused' \in BOOLEAN
         /\ subscribed' \in BOOLEAN /\ needsAdmin' \in BOOLEAN
         /\ healed' \in BOOLEAN
<1> USE Zenon DEF TypeOK
<1>1. CASE Discover
  BY <1>1 DEF Discover
<1>2. CASE CreateEmpty \/ CreateOk \/ Drop
  BY <1>2 DEF CreateEmpty, CreateOk, Drop
<1>3. CASE Loop \/ Sleep \/ Retry \/ Pause
  BY <1>3 DEF Loop, Sleep, Retry, Pause
<1>4. ASSUME NEW notAuthorized \in BOOLEAN, CreateFails(notAuthorized)
      PROVE  needsAdmin' \in BOOLEAN
  BY <1>4 DEF CreateFails
<1>5. ASSUME NEW accepted \in BOOLEAN, Renew(accepted)
      PROVE  refused' \in BOOLEAN
  BY <1>5 DEF Renew
<1>6. CASE PullDelivers \/ PullEmpty \/ PullFails
  BY <1>6 DEF PullDelivers, PullEmpty, PullFails
<1>7. CASE Stop \/ Heal
  BY <1>7 DEF Stop, Heal
<1>8. CASE UNCHANGED vars
  BY <1>8 DEF vars
<1>9. CASE \E notAuthorized \in BOOLEAN : CreateFails(notAuthorized)
  BY <1>4, <1>9 DEF CreateFails
<1>10. CASE \E accepted \in BOOLEAN : Renew(accepted)
  BY <1>5, <1>10 DEF Renew
<1> QED
  BY <1>1, <1>2, <1>3, <1>6, <1>7, <1>8, <1>9, <1>10 DEF Next, Work

(* What every step does to the ages, the counter, the back-off and pc. *)
LEMMA NumbersTyped ==
  ASSUME WorkerInv, [Next]_vars
  PROVE  /\ streakAge' \in 0 .. Window
         /\ renewAge' \in 0 .. RenewEvery
         /\ leaseAge' \in 0 .. Lifetime
         /\ backoff' \in {0} \cup (BackoffFloor .. BackoffCap)
         /\ shown' \in [subscribed : BOOLEAN, backoff : Nat]
         /\ failures' \in Nat
         /\ MaxFailures > 0 => failures' <= MaxFailures
         /\ pc' \in Labels
         /\ RoomToFail'
<1> USE ConstantsAssumption DEF WorkerInv, TypeOK, RoomToFail, Labels
<1>1. ASSUME NEW b \in {0} \cup (BackoffFloor .. BackoffCap), Publish(b)
      PROVE  shown' \in [subscribed : BOOLEAN, backoff : Nat]
  BY <1>1 DEF Publish
<1>2. ASSUME NEW d \in Nat, Pass(d)
      PROVE  /\ streakAge' \in 0 .. Window
             /\ renewAge' \in 0 .. RenewEvery
             /\ leaseAge' \in 0 .. Lifetime
  BY <1>2, PassTyped
<1>3. CASE Discover
  BY <1>2, <1>3 DEF Discover
<1>4. CASE CreateEmpty
  BY <1>4, CountTyped DEF CreateEmpty
<1>5. CASE CreateOk
  BY <1>5 DEF CreateOk
<1>6. ASSUME NEW notAuthorized \in BOOLEAN, CreateFails(notAuthorized)
      PROVE  /\ streakAge' \in 0 .. Window
             /\ renewAge' \in 0 .. RenewEvery
             /\ leaseAge' \in 0 .. Lifetime
             /\ failures' \in Nat
             /\ MaxFailures > 0 => failures' <= MaxFailures
             /\ pc' \in Labels
             /\ RoomToFail'
             /\ UNCHANGED <<backoff, shown>>
  BY <1>6, CountTyped DEF CreateFails
<1>7. CASE Loop
  BY <1>7 DEF Loop
<1>8. ASSUME NEW accepted \in BOOLEAN, Renew(accepted)
      PROVE  /\ streakAge' \in 0 .. Window
             /\ leaseAge' \in 0 .. Lifetime
             /\ pc = "renew" /\ pc' = "sleep"
             /\ renewAge' = 0 /\ UNCHANGED <<failures, backoff, shown>>
  <2>1. PICK d \in CallTakes :
          /\ leaseAge' = AgeTo(Lifetime, IF accepted THEN 0 ELSE leaseAge, d)
          /\ streakAge' = AgeTo(Window, streakAge, d)
    BY <1>8 DEF Renew
  <2>2. d \in Nat /\ 0 \in 0 .. Lifetime
    OBVIOUS
  <2>3. leaseAge' \in 0 .. Lifetime
    BY <2>1, <2>2, AgeInRange
  <2>4. streakAge' \in 0 .. Window
    BY <2>1, <2>2, AgeInRange
  <2> QED
    BY <1>8, <2>3, <2>4 DEF Renew
<1>9. CASE Sleep
  BY <1>2, <1>9 DEF Sleep
<1>10. CASE PullDelivers
  BY <1>1, <1>2, <1>10 DEF PullDelivers
<1>11. CASE PullEmpty
  BY <1>1, <1>2, <1>11, BackoffTyped DEF PullEmpty
<1>12. CASE PullFails
  BY <1>1, <1>12, CountTyped DEF PullFails
<1>13. CASE Retry
  BY <1>2, <1>13 DEF Retry, AfterSleep
<1>14. CASE Pause
  BY <1>2, <1>14 DEF Pause, AfterSleep
<1>15. CASE Drop \/ Stop \/ Heal
  BY <1>15 DEF Drop, Stop, Heal
<1>16. CASE UNCHANGED vars
  BY <1>16 DEF vars
<1>17. CASE \E notAuthorized \in BOOLEAN : CreateFails(notAuthorized)
  BY <1>6, <1>17
<1>18. CASE \E accepted \in BOOLEAN : Renew(accepted)
  BY <1>8, <1>18
<1> HIDE DEF WorkerInv, TypeOK, RoomToFail, Labels
<1> QED
  BY <1>3, <1>4, <1>5, <1>7, <1>9, <1>10, <1>11, <1>12, <1>13, <1>14,
     <1>15, <1>16, <1>17, <1>18 DEF Next, Work

(* Who holds a subscription, and that nobody who does wears the badge. *)
LEMMA SubscribedStep ==
  ASSUME WorkerInv, [Next]_vars
  PROVE  SubscribedByPc' /\ NoStaleBadge'
<1> USE DEF WorkerInv, TypeOK, SubscribedByPc, NoStaleBadge
<1>1. CASE Discover
  BY <1>1 DEF Discover
<1>2. CASE CreateEmpty
  BY <1>2, CountTyped DEF CreateEmpty
<1>3. CASE CreateOk
  BY <1>3 DEF CreateOk
<1>4. ASSUME NEW notAuthorized \in BOOLEAN, CreateFails(notAuthorized)
      PROVE  ~subscribed' /\ pc' \in {"pause", "retry"}
  BY <1>4, CountTyped DEF CreateFails
<1>5. CASE Loop \/ Sleep
  BY <1>5 DEF Loop, Sleep
<1>6. ASSUME NEW accepted \in BOOLEAN, Renew(accepted)
      PROVE  pc' = "sleep" /\ subscribed /\ UNCHANGED <<subscribed, needsAdmin>>
  BY <1>6 DEF Renew
<1>7. CASE PullDelivers \/ PullEmpty
  BY <1>7 DEF PullDelivers, PullEmpty
<1>8. CASE PullFails
  BY <1>8, CountTyped DEF PullFails
<1>9. CASE Retry \/ Pause
  BY <1>9 DEF Retry, Pause, AfterSleep
<1>10. CASE Drop \/ Stop \/ Heal
  BY <1>10 DEF Drop, Stop, Heal
<1>11. CASE UNCHANGED vars
  BY <1>11 DEF vars
<1> QED
  BY <1>1, <1>2, <1>3, <1>4, <1>5, <1>6, <1>7, <1>8, <1>9, <1>10, <1>11
  DEF Next, Work

(* For every lifetime, renewal period, limit and back-off: the worker's    *)
(* variables keep their types and it always knows whether it is subscribed.*)
THEOREM WorkerInvariant == Spec => []WorkerInv
<1>1. Init => WorkerInv
  <2> SUFFICES ASSUME Init PROVE WorkerInv
    OBVIOUS
  <2>1. /\ running \in BOOLEAN /\ refused \in BOOLEAN /\ healed \in BOOLEAN
        /\ backoffOn \in BOOLEAN /\ subscribed \in BOOLEAN /\ needsAdmin \in BOOLEAN
    BY Zenon DEF Init
  <2>2. /\ streakAge \in 0 .. Window /\ renewAge \in 0 .. RenewEvery
        /\ leaseAge \in 0 .. Lifetime
        /\ shown \in [subscribed : BOOLEAN, backoff : Nat]
    BY ConstantsAssumption DEF Init
  <2> QED
    BY <2>1, <2>2, ConstantsAssumption
    DEF Init, WorkerInv, TypeOK, SubscribedByPc, RoomToFail, NoStaleBadge, Labels
<1>2. WorkerInv /\ [Next]_vars => WorkerInv'
  <2> SUFFICES ASSUME WorkerInv, [Next]_vars PROVE WorkerInv'
    OBVIOUS
  <2>1. backoffOn' \in BOOLEAN
    BY SwitchFixed, Zenon DEF WorkerInv, TypeOK
  <2> QED
    BY <2>1, FlagsTyped, NumbersTyped, SubscribedStep DEF WorkerInv, TypeOK
<1> QED
  BY <1>1, <1>2, PTL DEF Spec

(* The types alone, the property the run checks on a small instance. *)
THEOREM TypeCorrect == Spec => []TypeOK
BY WorkerInvariant, PTL DEF WorkerInv

(* A camera that gave a subscription never keeps the badge: the property   *)
(* of the run Worker, for every camera, limit and pause.                   *)
THEOREM NoStaleBadgeHolds == Spec => []NoStaleBadge
BY WorkerInvariant, PTL DEF WorkerInv

-----------------------------------------------------------------------------
(* How far the age of a lease nobody turned down may be ahead of the       *)
(* renewal timer, when no call takes longer than D: by the Renew call      *)
(* until renew_at is looked at again, and by one pull more after that.     *)
LeaseMargin(D) ==
  ~refused =>
    /\ pc \in {"sleep", "pull"} => renewAge < RenewEvery /\ leaseAge <= renewAge + D
    /\ pc = "loop" /\ renewAge < RenewEvery => leaseAge <= renewAge + D
    /\ pc \in {"loop", "renew"} => leaseAge < RenewEvery + 2 * D

(* No step takes the lease past the margin while the back-off is off. *)
LEMMA LeaseMarginStep ==
  ASSUME NEW D \in Nat, \A d \in CallTakes : d <= D,
         RenewEvery + 2 * D <= Lifetime,
         WorkerInv, LeaseMargin(D), ~backoffOn, [Next]_vars
  PROVE  LeaseMargin(D)'
<1> USE ConstantsAssumption DEF WorkerInv, TypeOK, LeaseMargin
<1>1. CASE Discover
  BY <1>1 DEF Discover
<1>2. CASE CreateEmpty
  BY <1>2, CountTyped DEF CreateEmpty
<1>3. CASE CreateOk
  BY <1>3 DEF CreateOk
<1>4. ASSUME NEW notAuthorized \in BOOLEAN, CreateFails(notAuthorized)
      PROVE  pc' \in {"pause", "retry"}
  BY <1>4, CountTyped DEF CreateFails
<1>5. CASE Loop
  BY <1>5 DEF Loop
<1>6. ASSUME NEW accepted \in BOOLEAN, Renew(accepted)
      PROVE  LeaseMargin(D)'
  <2>1. PICK d \in CallTakes :
          leaseAge' = AgeTo(Lifetime, IF accepted THEN 0 ELSE leaseAge, d)
    BY <1>6 DEF Renew
  <2>2. d \in Nat /\ d <= D
    OBVIOUS
  <2>3. CASE accepted
    BY <1>6, <2>1, <2>2, <2>3 DEF Renew, AgeTo
  <2>4. CASE ~accepted
    <3>1. refused \/ ~Expired
      BY <1>6 DEF Renew, Expired
    <3>2. refused'
      BY <1>6, <2>4, <3>1, Zenon DEF Renew
    <3> QED
      BY <3>2
  <2> QED
    BY <2>3, <2>4
<1>7. CASE Sleep
  BY <1>7 DEF Sleep, Pass, AgeTo
<1>8. ASSUME NEW d \in CallTakes, Pass(d), pc = "pull", pc' = "loop",
             UNCHANGED refused
      PROVE  LeaseMargin(D)'
  <2>1. d \in Nat /\ d <= D
    OBVIOUS
  <2>2. leaseAge' <= leaseAge + d
    BY <1>8, <2>1 DEF Pass, AgeTo
  <2>3. renewAge' < RenewEvery => renewAge' = renewAge + d
    BY <1>8, <2>1 DEF Pass, AgeTo
  <2>4. leaseAge' \in Nat /\ renewAge' \in Nat
    BY <1>8, <2>1, PassTyped
  <2>5. CASE ~refused
    <3>1. /\ leaseAge <= renewAge + D
          /\ leaseAge \in Nat /\ renewAge \in Nat /\ renewAge < RenewEvery
      BY <1>8, <2>5
    <3>2. renewAge' < RenewEvery => leaseAge' <= renewAge' + D
      BY <2>1, <2>2, <2>3, <2>4, <3>1
    <3>3. leaseAge' < RenewEvery + 2 * D
      BY <2>1, <2>2, <2>4, <3>1
    <3> QED
      BY <1>8, <3>2, <3>3
  <2>6. CASE refused
    BY <1>8, <2>6, Zenon
  <2> QED
    BY <2>5, <2>6
<1>9. CASE PullDelivers
  BY <1>8, <1>9 DEF PullDelivers
<1>10. CASE PullEmpty
  BY <1>8, <1>10 DEF PullEmpty
<1>11. CASE PullFails
  BY <1>11, CountTyped DEF PullFails
<1>12. CASE Retry \/ Pause
  BY <1>12 DEF Retry, Pause, AfterSleep
<1>13. CASE Drop
  BY <1>13 DEF Drop
<1>14. CASE Stop \/ Heal \/ UNCHANGED vars
  BY <1>14 DEF Stop, Heal, vars
<1>15. CASE \E notAuthorized \in BOOLEAN : CreateFails(notAuthorized)
  BY <1>4, <1>15
<1>16. CASE \E accepted \in BOOLEAN : Renew(accepted)
  BY <1>6, <1>16
<1> HIDE DEF WorkerInv, TypeOK, LeaseMargin
<1> QED
  BY <1>1, <1>2, <1>3, <1>5, <1>7, <1>9, <1>10, <1>11, <1>12, <1>13,
     <1>14, <1>15, <1>16 DEF Next, Work

(* Without the back-off the lease is kept, whatever fails, as long as two  *)
(* calls fit between the renewal period and the lifetime: 90 s and 120 s   *)
(* leave room for calls of 15 s.  The back-off, which sleeps between the   *)
(* check of renew_at and the pull, can outlast the lease.                  *)
THEOREM LeaseKeptHolds ==
  ASSUME NEW D \in Nat, \A d \in CallTakes : d <= D,
         RenewEvery + 2 * D <= Lifetime
  PROVE  Spec => []LeaseKept
<1> DEFINE Margin == backoffOn \/ LeaseMargin(D)
<1>1. Init => Margin
  BY DEF Init, LeaseMargin
<1>2. WorkerInv /\ Margin /\ [Next]_vars => Margin'
  <2>1. CASE backoffOn
    BY <2>1, SwitchFixed, Zenon
  <2>2. CASE ~backoffOn
    BY <2>2, LeaseMarginStep
  <2> QED
    BY <2>1, <2>2
<1>3. WorkerInv /\ Margin => LeaseKept
  BY ConstantsAssumption DEF WorkerInv, TypeOK, LeaseMargin, LeaseKept, Expired
<1> HIDE DEF Margin
<1> QED
  BY <1>1, <1>2, <1>3, WorkerInvariant, PTL DEF Spec
=============================================================================
