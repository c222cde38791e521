------------------------ MODULE AlarmNotifierProofs ------------------------
(***************************************************************************)
(* Theorems of AlarmNotifier, for every set of automations and cooldowns.  *)
(***************************************************************************)
EXTENDS AlarmNotifier, SequenceTheorems, TLAPS

(* A call has its event, and one that fires an automation of Protect.      *)
CallInv ==
  \A w \in Callers :
    /\ pc[w] # "idle" => event[w] \in 1 .. Len(startedAt)
    /\ pc[w] \in Firing => current[w] \in Automations

(* When the second attempt is refused, or none is made, something failed   *)
(* on the way: the call to Protect that registers again, or Protect.       *)
ReasonInv ==
  \A w \in Callers :
    /\ pc[w] = "repost" => trouble[w] \/ current[w] \in registered
    /\ pc[w] = "stamp" => trouble[w] \/ <<event[w], current[w]>> \in delivered

AlarmInv == TypeOK /\ CallInv

(* What each step does to the types, for any number of callers. *)
LEMMA NotifyTyped ==
  ASSUME AlarmInv, NEW w \in Callers, NEW matched \in SUBSET Automations, Notify(w, matched)
  PROVE  AlarmInv'
<1> USE NumbersAssumption
    DEF AlarmInv, TypeOK, CallInv, Labels, Firing, Events, notifierVars, protectVars, historyVars
<1>1. /\ startedAt' \in Seq(0 .. MaxTime) /\ Len(startedAt') = Len(startedAt) + 1
      /\ Len(startedAt') <= MaxEvents /\ Len(startedAt) \in Nat
  BY AppendProperties, LenProperties DEF Notify
<1>2. /\ event' = [event EXCEPT ![w] = Len(startedAt')]
      /\ Len(startedAt') \in Events
  BY <1>1 DEF Notify
<1> QED
  BY <1>1, <1>2 DEF Notify, Goto

(* The steps that refresh the list of automations keep the types. *)
LEMMA RefreshTyped ==
  ASSUME AlarmInv, NEW w \in Callers,
         \/ LoadFails(w) \/ Publish(w) \/ Copy(w)
         \/ \E list \in SUBSET Automations : Load(w, list)
         \/ \E a \in Automations, accepted \in BOOLEAN : Register(w, a, accepted)
  PROVE  AlarmInv'
<1> USE NumbersAssumption
    DEF AlarmInv, TypeOK, CallInv, Labels, Firing, callVars, notifierVars,
        protectVars, historyVars, Goto
<1>1. CASE LoadFails(w)
  BY <1>1 DEF LoadFails
<1>2. CASE Publish(w)
  BY <1>2 DEF Publish
<1>3. CASE Copy(w)
  BY <1>3 DEF Copy
<1>4. ASSUME NEW list \in SUBSET Automations, Load(w, list)
      PROVE  AlarmInv'
  BY <1>4 DEF Load
<1>5. ASSUME NEW a \in Automations, NEW accepted \in BOOLEAN, Register(w, a, accepted)
      PROVE  AlarmInv'
  BY <1>5 DEF Register, Registering
<1> HIDE DEF AlarmInv
<1> QED
  BY <1>1, <1>2, <1>3, <1>4, <1>5

(* So do the steps that walk over the list. *)
LEMMA WalkTyped ==
  ASSUME AlarmInv, NEW w \in Callers,
         End(w) \/ \E a \in Automations : Skip(w, a) \/ Fire(w, a)
  PROVE  AlarmInv'
<1> USE NumbersAssumption
    DEF AlarmInv, TypeOK, CallInv, Labels, Firing, callVars, notifierVars,
        protectVars, historyVars, Goto
<1>1. CASE End(w)
  BY <1>1 DEF End
<1>2. ASSUME NEW a \in Automations, Skip(w, a)
      PROVE  AlarmInv'
  BY <1>2 DEF Skip
<1>3. ASSUME NEW a \in Automations, Fire(w, a)
      PROVE  AlarmInv'
  BY <1>3 DEF Fire
<1> HIDE DEF AlarmInv
<1> QED
  BY <1>1, <1>2, <1>3

(* So do the posts to Protect. *)
LEMMA FireTyped ==
  ASSUME AlarmInv, NEW w \in Callers,
         Post(w) \/ Repost(w) \/ \E accepted \in BOOLEAN : Reregister(w, accepted)
  PROVE  AlarmInv'
<1> USE NumbersAssumption
    DEF AlarmInv, TypeOK, CallInv, Labels, Firing, callVars, notifierVars,
        protectVars, Goto
<1>1. pc[w] \in Firing /\ event[w] \in Events /\ current[w] \in Automations
  BY DEF Post, Repost, Reregister, Events
<1>2. /\ delivered' \subseteq Events \X Automations
      /\ trouble' \in [Callers -> BOOLEAN]
  <2>1. CASE Accepted(w)
    BY <1>1, <2>1 DEF Accepted
  <2>2. CASE Unknown(w)
    BY <2>2 DEF Unknown
  <2>3. CASE Lost(w)
    BY <2>3 DEF Lost
  <2>4. ASSUME NEW accepted \in BOOLEAN, Reregister(w, accepted)
        PROVE  /\ delivered' = delivered
               /\ trouble' = trouble \/ trouble' = [trouble EXCEPT ![w] = TRUE]
    BY <2>4 DEF Reregister
  <2> QED
    BY <2>1, <2>2, <2>3, <2>4 DEF Post, Repost
<1>3. CASE Post(w)
  BY <1>2, <1>3 DEF Post
<1>4. CASE Repost(w)
  BY <1>2, <1>4 DEF Repost
<1>5. ASSUME NEW accepted \in BOOLEAN, Reregister(w, accepted)
      PROVE  AlarmInv'
  BY <1>1, <1>2, <1>5 DEF Reregister, Registering
<1> HIDE DEF AlarmInv
<1> QED
  BY <1>3, <1>4, <1>5

(* So does the stamp of the cooldown. *)
LEMMA StampTyped == ASSUME AlarmInv, NEW w \in Callers, Stamp(w) PROVE AlarmInv'
<1> USE NumbersAssumption
    DEF AlarmInv, TypeOK, CallInv, Labels, Firing, callVars, notifierVars,
        protectVars, Goto
<1>1. startedAt[event[w]] \in 0 .. MaxTime
  BY ElementOfSeq DEF Stamp
<1>2. /\ lastFired' \in [Automations -> -1 .. MaxTime]
      /\ pc' \in [Callers -> Labels] /\ pc'[w] = "walk"
      /\ \A v \in Callers \ {w} : pc'[v] = pc[v] /\ current'[v] = current[v]
      /\ current' \in [Callers -> Automations \cup {None}]
      /\ trouble' \in [Callers -> BOOLEAN]
  BY <1>1 DEF Stamp
<1>3. UNCHANGED <<event, matching, parsed, startedAt, todo, automations, listedAt,
                  registered, restarts, clock, delivered>>
  BY DEF Stamp
<1>4. TypeOK'
  BY <1>2, <1>3
<1>5. CallInv'
  <2> SUFFICES ASSUME NEW v \in Callers
               PROVE  /\ pc'[v] # "idle" => event'[v] \in 1 .. Len(startedAt')
                      /\ pc'[v] \in Firing => current'[v] \in Automations
    OBVIOUS
  <2>1. CASE v = w
    BY <1>2, <1>3, <2>1 DEF Stamp
  <2>2. CASE v # w
    BY <1>2, <1>3, <2>2
  <2> QED
    BY <2>1, <2>2
<1> QED
  BY <1>4, <1>5

(* So do a restart of Protect and the clock. *)
LEMMA ProtectTyped == ASSUME AlarmInv, Restart \/ Tick PROVE AlarmInv'
<1> USE NumbersAssumption
    DEF AlarmInv, TypeOK, CallInv, Labels, callVars, notifierVars, historyVars
<1>1. CASE Restart
  <2>1. trouble' = [w \in Callers |-> pc[w] \in Firing]
    BY <1>1, Zenon DEF Restart
  <2>2. trouble' \in [Callers -> BOOLEAN]
    <3>1. ASSUME NEW w \in Callers
          PROVE  (pc[w] \in Firing) \in BOOLEAN
      BY SMT
    <3> QED
      BY <2>1, <3>1, Zenon
  <2> QED
    BY <1>1, <2>2 DEF Restart
<1>2. CASE Tick
  BY <1>2 DEF Tick
<1> QED
  BY <1>1, <1>2

-----------------------------------------------------------------------------
(* Why a cooldown starts: what a call or Protect's restart leaves behind.  *)
LEMMA FiringReason ==
  ASSUME AlarmInv, ReasonInv, NEW w \in Callers,
         Post(w) \/ Repost(w) \/ \E accepted \in BOOLEAN : Reregister(w, accepted)
  PROVE  ReasonInv'
<1> USE DEF AlarmInv, TypeOK, ReasonInv
<1>1. UNCHANGED <<event, current>>
  BY DEF Post, Repost, Reregister, callVars
<1>2. registered \subseteq registered' /\ delivered \subseteq delivered'
  BY DEF Post, Repost, Reregister, protectVars, Registering, Accepted, Unknown, Lost
<1>3. \A v \in Callers \ {w} : pc'[v] = pc[v] /\ trouble'[v] = trouble[v]
  BY DEF Post, Repost, Reregister, Goto, Accepted, Unknown, Lost
<1>4. /\ pc'[w] = "repost" => trouble'[w] \/ current[w] \in registered'
      /\ pc'[w] = "stamp" => trouble'[w] \/ <<event[w], current[w]>> \in delivered'
  <2>1. CASE Post(w)
    BY <2>1 DEF Post, Goto, Accepted, Unknown, Lost, Labels
  <2>2. CASE Repost(w)
    BY <2>2 DEF Repost, Goto, Accepted, Unknown, Lost, Labels
  <2>3. ASSUME NEW accepted \in BOOLEAN, Reregister(w, accepted)
        PROVE  pc'[w] = "repost" /\ (trouble'[w] \/ current[w] \in registered')
    BY <2>3 DEF Reregister, Registering, Goto, Labels
  <2> QED
    BY <2>1, <2>2, <2>3
<1> QED
  BY <1>1, <1>2, <1>3, <1>4

(* A step keeps the reason: only a refused post leads on without a         *)
(* delivery.                                                               *)
LEMMA ReasonStep == ASSUME AlarmInv, ReasonInv, [Next]_vars PROVE ReasonInv'
<1> USE DEF AlarmInv, TypeOK, ReasonInv, Labels, callVars, notifierVars, protectVars,
            historyVars, Goto
<1>1. ASSUME NEW w \in Callers, NEW matched \in SUBSET Automations, Notify(w, matched)
      PROVE  ReasonInv'
  BY <1>1 DEF Notify
<1>2. ASSUME NEW w \in Callers, LoadFails(w) \/ Publish(w) \/ Copy(w)
      PROVE  ReasonInv'
  BY <1>2 DEF LoadFails, Publish, Copy
<1>3. ASSUME NEW w \in Callers, NEW list \in SUBSET Automations, Load(w, list)
      PROVE  ReasonInv'
  BY <1>3 DEF Load
<1>4. ASSUME NEW w \in Callers, NEW a \in Automations, NEW accepted \in BOOLEAN,
             Register(w, a, accepted)
      PROVE  ReasonInv'
  BY <1>4 DEF Register, Registering
<1>5. ASSUME NEW w \in Callers, End(w)
      PROVE  ReasonInv'
  BY <1>5 DEF End
<1>6. ASSUME NEW w \in Callers, NEW a \in Automations, Skip(w, a) \/ Fire(w, a)
      PROVE  ReasonInv'
  BY <1>6 DEF Skip, Fire
<1>7. ASSUME NEW w \in Callers, Stamp(w)
      PROVE  ReasonInv'
  BY <1>7 DEF Stamp
<1>8. CASE Restart
  <2>1. \A w \in Callers : pc[w] \in Firing => trouble'[w]
    BY <1>8, Zenon DEF Restart
  <2> QED
    BY <1>8, <2>1 DEF Restart, Firing
<1>9. CASE Tick
  BY <1>9 DEF Tick
<1>10. CASE UNCHANGED vars
  BY <1>10 DEF vars
<1> HIDE DEF AlarmInv, ReasonInv
<1> QED
  BY <1>1, <1>2, <1>3, <1>4, <1>5, <1>6, <1>7, <1>8, <1>9, <1>10, FiringReason
  DEF Next, Proceed

(* At the start no call is under way. *)
LEMMA AlarmInvInit == Init => AlarmInv /\ ReasonInv
<1> SUFFICES ASSUME Init PROVE AlarmInv /\ ReasonInv
  OBVIOUS
<1>1. trouble \in [Callers -> BOOLEAN]
  BY Zenon DEF Init
<1>2. startedAt \in Seq(0 .. MaxTime) /\ Len(startedAt) = 0
  BY EmptySeq DEF Init
<1> QED
  BY <1>1, <1>2, NumbersAssumption
  DEF Init, AlarmInv, TypeOK, CallInv, ReasonInv, Labels, Firing

(* Every step keeps types and calls. *)
LEMMA AlarmInvStep == ASSUME AlarmInv, [Next]_vars PROVE AlarmInv'
<1>1. CASE UNCHANGED vars
  BY <1>1 DEF AlarmInv, TypeOK, CallInv, vars
<1> QED
  BY <1>1, NotifyTyped, RefreshTyped, WalkTyped, FireTyped, StampTyped, ProtectTyped
  DEF Next, Proceed

(* The types, and that a call has its event and its automation. *)
THEOREM AlarmInvariant == Spec => [](AlarmInv /\ ReasonInv)
<1>1. AlarmInv /\ ReasonInv /\ [Next]_vars => (AlarmInv /\ ReasonInv)'
  BY AlarmInvStep, ReasonStep
<1> QED
  BY <1>1, AlarmInvInit, PTL DEF Spec

(* The types alone. *)
THEOREM TypeCorrect == Spec => []TypeOK
BY AlarmInvariant, PTL DEF AlarmInv

(* Whatever fails and however often Protect restarts, with any number of   *)
(* threads: an automation that starts its cooldown was notified, or a call *)
(* to Protect failed while the caller was at it.                           *)
THEOREM CoolsDownForAReasonHolds == Spec => CoolsDownForAReason
<1> DEFINE Reason == \A w \in Callers :
             Stamp(w) => trouble[w] \/ <<event[w], current[w]>> \in delivered
<1>1. ReasonInv => Reason
  BY DEF ReasonInv, Stamp
<1>2. ReasonInv /\ [Next]_vars => [Reason]_vars
  BY <1>1
<1> HIDE DEF Reason
<1>3. Spec => [][Reason]_vars
  BY <1>2, AlarmInvariant, PTL DEF Spec
<1> QED
  BY <1>3 DEF CoolsDownForAReason, Reason

-----------------------------------------------------------------------------
(* Events are numbered in the order of their times, and an automation was  *)
(* fired last for one of them.                                             *)
HistoryInv ==
  /\ \A i \in DOMAIN startedAt : startedAt[i] <= clock
  /\ \A i, j \in DOMAIN startedAt : i <= j => startedAt[i] <= startedAt[j]
  /\ \A a \in Automations : lastFired[a] # -1 =>
       \E i \in DOMAIN startedAt : lastFired[a] = startedAt[i]
  /\ \A n \in delivered : n[1] \in DOMAIN startedAt

(* The only caller w is at the newest event; what it fires does not cool   *)
(* down; what was delivered has been stamped, or is about to be.           *)
StampInv(w) ==
  /\ pc[w] # "idle" => event[w] = Len(startedAt)
  /\ pc[w] \in Firing => ~CoolingDown(current[w], startedAt[event[w]])
  /\ \A n \in delivered :
       \/ lastFired[n[2]] # -1 /\ startedAt[n[1]] <= lastFired[n[2]]
       \/ pc[w] = "stamp" /\ n = <<event[w], current[w]>>

CooldownInv(w) == AlarmInv /\ HistoryInv /\ StampInv(w) /\ CooldownKept

(* A position below the length is its own remainder. *)
LEMMA SmallModulo ==
  ASSUME NEW n \in Nat \ {0}, NEW x \in 0 .. n - 1
  PROVE  x % n = x
OBVIOUS

(* An automation that does not cool down was last fired long ago. *)
LEMMA NotCoolingDown ==
  ASSUME NEW a \in Automations, NEW t \in 0 .. MaxTime,
         NEW last \in 0 .. MaxTime, last <= t,
         lastFired[a] = last, ~CoolingDown(a, t)
  PROVE  t - last >= Cooldown[a]
<1>1. t - last \in 0 .. Width - 1 /\ Width \in Nat \ {0} /\ Cooldown[a] \in Nat
  BY NumbersAssumption
<1>2. (t - last) % Width = t - last
  BY <1>1, SmallModulo
<1>3. Cooldown[a] > 0 => ~((t - last) % Width < Cooldown[a])
  BY DEF CoolingDown
<1> QED
  BY <1>1, <1>2, <1>3

(* What is noted of deliveries stays about past events and firings. *)
LEMMA HistoryStep ==
  ASSUME AlarmInv, HistoryInv, [Next]_vars
  PROVE  HistoryInv'
<1> USE NumbersAssumption DEF AlarmInv, TypeOK, CallInv, HistoryInv, callVars, notifierVars, protectVars,
            historyVars
<1>1. ASSUME NEW w \in Callers, NEW matched \in SUBSET Automations, Notify(w, matched)
      PROVE  HistoryInv'
  <2>1. /\ Len(startedAt') = Len(startedAt) + 1 /\ Len(startedAt) \in Nat
        /\ DOMAIN startedAt = 1 .. Len(startedAt)
        /\ DOMAIN startedAt' = 1 .. Len(startedAt')
        /\ \A i \in 1 .. Len(startedAt) : startedAt'[i] = startedAt[i]
        /\ startedAt'[Len(startedAt')] = clock
    BY <1>1, AppendProperties, LenProperties DEF Notify
  <2>2. UNCHANGED <<lastFired, delivered, clock>>
    BY <1>1 DEF Notify
  <2>3. clock \in Nat /\ \A i \in 1 .. Len(startedAt) : startedAt[i] \in Nat
    BY ElementOfSeq
  <2>4. \A i \in DOMAIN startedAt' : startedAt'[i] <= clock'
    <3> SUFFICES ASSUME NEW i \in DOMAIN startedAt' PROVE startedAt'[i] <= clock
      BY <2>2
    <3>1. CASE i = Len(startedAt')
      BY <2>1, <2>3, <3>1
    <3>2. CASE i # Len(startedAt')
      <4>1. i \in 1 .. Len(startedAt)
        BY <2>1, <3>2
      <4> QED
        BY <2>1, <4>1
    <3> QED
      BY <3>1, <3>2
  <2>5. \A i, j \in DOMAIN startedAt' : i <= j => startedAt'[i] <= startedAt'[j]
    <3> SUFFICES ASSUME NEW i \in DOMAIN startedAt', NEW j \in DOMAIN startedAt', i <= j
                 PROVE  startedAt'[i] <= startedAt'[j]
      OBVIOUS
    <3>1. CASE j = Len(startedAt')
      BY <2>1, <2>2, <2>4, <3>1
    <3>2. CASE j # Len(startedAt')
      <4>1. i \in 1 .. Len(startedAt) /\ j \in 1 .. Len(startedAt)
        BY <2>1, <3>2
      <4> QED
        BY <2>1, <4>1
    <3> QED
      BY <3>1, <3>2
  <2>6. \A a \in Automations : lastFired[a] # -1 =>
          \E i \in DOMAIN startedAt' : lastFired[a] = startedAt'[i]
    <3> SUFFICES ASSUME NEW a \in Automations, lastFired[a] # -1
                 PROVE  \E i \in DOMAIN startedAt' : lastFired[a] = startedAt'[i]
      OBVIOUS
    <3>1. PICK i \in DOMAIN startedAt : lastFired[a] = startedAt[i]
      OBVIOUS
    <3>2. i \in DOMAIN startedAt' /\ startedAt'[i] = startedAt[i]
      BY <2>1
    <3> QED
      BY <3>1, <3>2
  <2> QED
    BY <2>1, <2>2, <2>4, <2>5, <2>6
<1>2. ASSUME UNCHANGED <<startedAt, lastFired, delivered>>, clock' = clock \/ Tick
      PROVE  HistoryInv'
  <2>1. \A i \in DOMAIN startedAt : startedAt[i] \in 0 .. MaxTime
    BY ElementOfSeq, LenProperties
  <2> QED
    BY <1>2, <2>1 DEF Tick
<1>3. ASSUME NEW w \in Callers, Proceed(w)
      PROVE  HistoryInv'
  <2>1. CASE LoadFails(w) \/ Publish(w) \/ Copy(w) \/ End(w)
    BY <1>2, <2>1 DEF LoadFails, Publish, Copy, End
  <2>2. CASE \E list \in SUBSET Automations : Load(w, list)
    BY <1>2, <2>2 DEF Load
  <2>3. CASE \/ \E a \in Automations : Skip(w, a) \/ Fire(w, a)
             \/ \E a \in Automations, accepted \in BOOLEAN : Register(w, a, accepted)
    BY <1>2, <2>3 DEF Skip, Fire, Register
  <2>4. CASE Post(w) \/ Repost(w) \/ \E accepted \in BOOLEAN : Reregister(w, accepted)
    <3>1. event[w] \in DOMAIN startedAt
      BY <2>4, LenProperties DEF Post, Repost, Reregister
    <3>2. \A n \in delivered' : n \in delivered \/ n = <<event[w], current[w]>>
      BY <2>4 DEF Post, Repost, Reregister, Accepted, Unknown, Lost
    <3>3. UNCHANGED <<startedAt, lastFired, clock>>
      BY <2>4 DEF Post, Repost, Reregister
    <3> QED
      BY <3>1, <3>2, <3>3
  <2>5. CASE Stamp(w)
    <3>1. event[w] \in DOMAIN startedAt /\ current[w] \in Automations
      BY <2>5, LenProperties DEF Stamp, Firing
    <3>2. /\ lastFired' = [lastFired EXCEPT ![current[w]] = startedAt[event[w]]]
          /\ UNCHANGED <<startedAt, delivered, clock>>
      BY <2>5 DEF Stamp
    <3> QED
      BY <3>1, <3>2
  <2> HIDE DEF HistoryInv
  <2> QED
    BY <1>3, <2>1, <2>2, <2>3, <2>4, <2>5 DEF Proceed
<1>4. CASE Restart \/ Tick \/ UNCHANGED vars
  BY <1>2, <1>4 DEF Restart, Tick, vars
<1> HIDE DEF HistoryInv
<1> QED
  BY <1>1, <1>3, <1>4 DEF Next

(* A new event stamps and delivers nothing. *)
LEMMA NotifyKeeps ==
  ASSUME NEW w \in Callers, Callers = {w}, CooldownInv(w), HistoryInv',
         NEW matched \in SUBSET Automations, Notify(w, matched)
  PROVE  StampInv(w)' /\ CooldownKept'
<1> USE DEF CooldownInv, AlarmInv, TypeOK, HistoryInv, StampInv, CooldownKept
<1>1. /\ Len(startedAt') = Len(startedAt) + 1
      /\ DOMAIN startedAt = 1 .. Len(startedAt)
      /\ \A i \in 1 .. Len(startedAt) : startedAt'[i] = startedAt[i]
  BY AppendProperties, LenProperties DEF Notify
<1>2. /\ UNCHANGED <<lastFired, delivered>>
      /\ event'[w] = Len(startedAt') /\ pc'[w] \in {"load", "copy"} /\ pc[w] = "idle"
  BY DEF Notify, Goto, notifierVars, historyVars
<1>3. \A n \in delivered : startedAt'[n[1]] = startedAt[n[1]]
  BY <1>1
<1> QED
  BY <1>2, <1>3 DEF Firing

(* A delivery of the only caller comes a cooldown after the one before. *)
LEMMA FiringKeeps ==
  ASSUME NEW w \in Callers, Callers = {w}, CooldownInv(w), HistoryInv',
         Post(w) \/ Repost(w) \/ \E accepted \in BOOLEAN : Reregister(w, accepted)
  PROVE  StampInv(w)' /\ CooldownKept'
<1> DEFINE e == event[w]
           a == current[w]
           t == startedAt[e]
<1> USE DEF CooldownInv, AlarmInv, TypeOK
<1>1. /\ UNCHANGED <<startedAt, event, current, lastFired>>
      /\ pc[w] \in Firing \ {"stamp"} /\ pc'[w] \in Firing
  BY DEF Post, Repost, Reregister, Goto, Firing, callVars, notifierVars
<1>2. e = Len(startedAt) /\ e \in DOMAIN startedAt /\ a \in Automations
  BY <1>1, LenProperties DEF Firing, StampInv, CallInv
<1>3. \/ delivered' = delivered
      \/ delivered' = delivered \cup {<<e, a>>} /\ pc'[w] = "stamp"
  BY DEF Post, Repost, Reregister, Goto, Accepted, Unknown, Lost
<1>4. ~CoolingDown(a, t)
  BY <1>1 DEF StampInv
<1>5. \A n \in delivered : lastFired[n[2]] # -1 /\ startedAt[n[1]] <= lastFired[n[2]]
  BY <1>1 DEF StampInv
<1>6. t \in 0 .. MaxTime /\ \A i \in DOMAIN startedAt : startedAt[i] \in 0 .. MaxTime
  BY <1>2, ElementOfSeq, LenProperties
<1>7. StampInv(w)'
  <2>1. UNCHANGED <<event, current>> /\ ~CoolingDown(a, t)'
    BY <1>1, <1>4 DEF CoolingDown
  <2> QED
    BY <1>1, <1>2, <1>3, <1>5, <2>1 DEF StampInv, Firing
<1>8. ASSUME NEW n \in delivered, n[2] = a
      PROVE  t - startedAt[n[1]] >= Cooldown[a]
  <2>1. PICK i \in DOMAIN startedAt : lastFired[a] = startedAt[i]
    BY <1>2, <1>5, <1>8 DEF HistoryInv
  <2>2. /\ startedAt[i] \in 0 .. MaxTime /\ startedAt[i] <= t
        /\ startedAt[n[1]] \in 0 .. MaxTime /\ startedAt[n[1]] <= startedAt[i]
    BY <1>2, <1>5, <1>6, <1>8, <2>1, LenProperties DEF HistoryInv
  <2>3. t - startedAt[i] >= Cooldown[a]
    BY <1>2, <1>4, <1>6, <2>1, <2>2, NotCoolingDown
  <2>4. Cooldown[a] \in Nat
    BY <1>2, NumbersAssumption
  <2> HIDE DEF t
  <2> QED
    BY <1>6, <2>2, <2>3, <2>4
<1>9. CooldownKept'
  <2> SUFFICES ASSUME NEW n \in delivered', NEW m \in delivered',
                      n[2] = m[2], n[1] < m[1]
               PROVE  startedAt[m[1]] - startedAt[n[1]] >= Cooldown[n[2]]
    BY <1>1 DEF CooldownKept
  <2>1. CASE n \in delivered /\ m \in delivered
    BY <2>1 DEF CooldownKept
  <2>2. CASE n \in delivered /\ m = <<e, a>>
    BY <1>8, <2>2
  <2>3. CASE n = <<e, a>>
    <3>1. m \in delivered
      BY <1>2, <1>3, <2>3, LenProperties
    <3>2. m[1] <= e
      BY <1>2, <3>1, LenProperties DEF HistoryInv
    <3> QED
      BY <2>3, <3>2, <1>2, <3>1, LenProperties DEF HistoryInv
  <2> QED
    BY <1>3, <2>1, <2>2, <2>3
<1> QED
  BY <1>7, <1>9

(* The stamp is that of the delivery just made. *)
LEMMA StampKeeps ==
  ASSUME NEW w \in Callers, Callers = {w}, CooldownInv(w), HistoryInv', Stamp(w)
  PROVE  StampInv(w)' /\ CooldownKept'
<1> USE DEF CooldownInv, AlarmInv, TypeOK
<1>1. /\ pc[w] = "stamp" /\ pc'[w] = "walk" /\ current[w] \in Automations
      /\ event[w] = Len(startedAt) /\ event[w] \in DOMAIN startedAt
      /\ UNCHANGED <<startedAt, event, delivered>>
      /\ lastFired' = [lastFired EXCEPT ![current[w]] = startedAt[event[w]]]
  BY LenProperties DEF Stamp, Goto, StampInv, CallInv, Firing
<1>2. startedAt[event[w]] \in 0 .. MaxTime
  BY <1>1, ElementOfSeq, LenProperties
<1>3. \A n \in delivered : startedAt[n[1]] <= startedAt[event[w]]
  BY <1>1, LenProperties DEF HistoryInv
<1>4. \A n \in delivered : n[2] \in Automations
  OBVIOUS
<1>5. \A n \in delivered : lastFired'[n[2]] # -1 /\ startedAt[n[1]] <= lastFired'[n[2]]
  <2> SUFFICES ASSUME NEW n \in delivered
               PROVE  lastFired'[n[2]] # -1 /\ startedAt[n[1]] <= lastFired'[n[2]]
    OBVIOUS
  <2>1. CASE n[2] = current[w]
    BY <1>1, <1>2, <1>3, <2>1
  <2>2. CASE n[2] # current[w]
    <3>1. lastFired'[n[2]] = lastFired[n[2]]
      BY <1>1, <1>4, <2>2
    <3>2. n # <<event[w], current[w]>>
      BY <2>2
    <3> QED
      BY <3>1, <3>2 DEF StampInv
  <2> QED
    BY <2>1, <2>2
<1>6. StampInv(w)'
  BY <1>1, <1>5 DEF StampInv, Firing
<1>7. CooldownKept'
  BY <1>1 DEF CooldownKept
<1> QED
  BY <1>6, <1>7

(* An automation is fired only when the cooldown of its stamp is over. *)
LEMMA FireKeeps ==
  ASSUME NEW w \in Callers, Callers = {w}, CooldownInv(w),
         NEW a \in Automations, Fire(w, a)
  PROVE  StampInv(w)' /\ CooldownKept'
<1> USE DEF CooldownInv, AlarmInv, TypeOK, notifierVars, historyVars
<1>1. /\ UNCHANGED <<startedAt, event, delivered, lastFired>>
      /\ pc[w] = "walk" /\ pc'[w] = "post" /\ current'[w] = a
      /\ ~CoolingDown(a, startedAt[event[w]])
  BY DEF Fire, Goto
<1> QED
  BY <1>1 DEF StampInv, CooldownKept, CoolingDown

(* The steps that neither stamp nor notify leave both alone. *)
LEMMA OthersKeep ==
  ASSUME NEW w \in Callers, Callers = {w}, CooldownInv(w),
         UNCHANGED <<startedAt, delivered, lastFired>>,
         \/ UNCHANGED <<pc, event, current>>
         \/ /\ pc[w] \notin Firing /\ pc'[w] \notin Firing
            /\ \/ pc'[w] = "idle"
               \/ pc[w] # "idle" /\ event' = event
  PROVE  StampInv(w)' /\ CooldownKept'
<1> USE DEF CooldownInv
<1>1. CooldownKept'
  BY DEF CooldownKept
<1>2. CASE UNCHANGED <<pc, event, current>>
  BY <1>1, <1>2 DEF StampInv, CoolingDown
<1>3. CASE /\ pc[w] \notin Firing /\ pc'[w] \notin Firing
           /\ \/ pc'[w] = "idle"
              \/ pc[w] # "idle" /\ event' = event
  BY <1>1, <1>3 DEF StampInv, Firing
<1> QED
  BY <1>2, <1>3

(* Every step of the only caller keeps the cooldown. *)
LEMMA CooldownStep ==
  ASSUME NEW w \in Callers, Callers = {w}, CooldownInv(w), [Next]_vars
  PROVE  CooldownInv(w)'
<1>1. AlarmInv' /\ HistoryInv'
  BY AlarmInvStep, HistoryStep DEF CooldownInv
<1>0. pc \in [Callers -> Labels]
  BY DEF CooldownInv, AlarmInv, TypeOK
<1> USE DEF callVars, notifierVars, protectVars, historyVars
<1>2. ASSUME LoadFails(w) \/ Publish(w) \/ Copy(w) \/ End(w)
             \/ \E list \in SUBSET Automations : Load(w, list)
      PROVE  StampInv(w)' /\ CooldownKept'
  <2>1. UNCHANGED <<startedAt, delivered, lastFired>>
    BY <1>2 DEF LoadFails, Publish, Copy, End, Load
  <2>2. /\ pc[w] \notin Firing /\ pc'[w] \notin Firing
        /\ \/ pc'[w] = "idle"
           \/ pc[w] # "idle" /\ event' = event
    BY <1>0, <1>2 DEF LoadFails, Publish, Copy, End, Load, Goto, Firing, Labels
  <2> QED
    BY <2>1, <2>2, OthersKeep
<1>3. ASSUME NEW a \in Automations, Skip(w, a) \/ \E accepted \in BOOLEAN : Register(w, a, accepted)
      PROVE  StampInv(w)' /\ CooldownKept'
  <2>1. UNCHANGED <<startedAt, delivered, lastFired, pc, event, current>>
    BY <1>3 DEF Skip, Register
  <2> QED
    BY <2>1, OthersKeep
<1>4. ASSUME Restart \/ Tick \/ UNCHANGED vars
      PROVE  StampInv(w)' /\ CooldownKept'
  <2>1. UNCHANGED <<startedAt, delivered, lastFired, pc, event, current>>
    BY <1>4 DEF Restart, Tick, vars
  <2> QED
    BY <2>1, OthersKeep
<1>5. ASSUME Proceed(w)
      PROVE  StampInv(w)' /\ CooldownKept'
  BY <1>1, <1>2, <1>3, <1>5, FiringKeeps, StampKeeps, FireKeeps DEF Proceed
<1>6. StampInv(w)' /\ CooldownKept'
  BY <1>1, <1>4, <1>5, NotifyKeeps DEF Next
<1> QED
  BY <1>1, <1>6 DEF CooldownInv

(* One thread notifies: whatever Protect forgets, refuses or loses, and    *)
(* whatever its users change, two notifications of an automation that went *)
(* out are for events at least its cooldown apart.  With a second thread   *)
(* it does not hold: the check and the stamp are two lock sections.        *)
THEOREM CooldownKeptHolds ==
  ASSUME NEW w \in Callers, Callers = {w}
  PROVE  Spec => []CooldownKept
<1>1. Init => CooldownInv(w)
  <2> SUFFICES ASSUME Init PROVE CooldownInv(w)
    OBVIOUS
  <2>1. DOMAIN startedAt = {}
    BY DEF Init
  <2> QED
    BY <2>1, AlarmInvInit DEF Init, CooldownInv, HistoryInv, StampInv, CooldownKept, Firing
<1>2. CooldownInv(w) /\ [Next]_vars => CooldownInv(w)'
  BY CooldownStep
<1>3. CooldownInv(w) => CooldownKept
  BY DEF CooldownInv
<1> QED
  BY <1>1, <1>2, <1>3, PTL DEF Spec
=============================================================================
