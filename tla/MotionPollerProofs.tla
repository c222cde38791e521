------------------------- MODULE MotionPollerProofs -------------------------
(***************************************************************************)
(* Theorems of MotionPoller, for any timeline, limit and settings.         *)
(***************************************************************************)
EXTENDS MotionPoller, FiniteSetTheorems, NaturalsInduction, SequenceTheorems, TLAPS

(* A motion begins before now and ends after it began.                     *)
TimesInv == \A m \in Instants : /\ ended[m] # -1 => m <= clock
                                /\ ended[m] > 0 => ended[m] >= m

(* The batch lies above the mark, oldest first, and only while it is       *)
(* processed is there one.                                                 *)
BatchInv ==
  /\ \A i, j \in DOMAIN batch : i < j => batch[i] < batch[j]
  /\ \A i \in DOMAIN batch : batch[i] > hwm
  /\ pc \in {"off", "mark", "query", "sleep"} => batch = <<>>
  /\ pc \in {"look", "insert", "rows", "alarm"} => batch # <<>>

(* A motion that waits in the batch has no detection and no alarm yet, but *)
(* for the one at hand once it was inserted.                               *)
OursInv ==
  /\ \A m \in Instants : ours[m] <= 1
  /\ \A i \in DOMAIN batch : ours[batch[i]] # 0 => i = 1 /\ pc \in {"rows", "alarm"}

AlarmsInv ==
  ~faults => /\ \A m \in Instants : alarms[m] <= ours[m]
             /\ \A i \in DOMAIN batch : alarms[batch[i]] = 0
             /\ pc \in {"rows", "alarm"} => ours[Current] = 1

(* What the query found was looked at, is in the batch, or lies above both *)
(* the mark and the batch.                                                 *)
FoundInv ==
  \A m \in found : \/ m \in handled
                   \/ \E i \in DOMAIN batch : batch[i] = m
                   \/ m > hwm /\ \A i \in DOMAIN batch : batch[i] < m

PollerInv == TypeOK /\ TimesInv /\ BatchInv /\ OursInv /\ AlarmsInv /\ FoundInv

-----------------------------------------------------------------------------
(* The largest of a nonempty set of bounded naturals is one of them.       *)
LEMMA MaxProperties ==
  ASSUME NEW n \in Nat, NEW S \in SUBSET (0 .. n), S # {}
  PROVE  Max(S) \in S /\ \A x \in S : x <= Max(S)
<1> DEFINE T == {n - x : x \in S}
           R == OpToRel(<, Nat)
<1>1. T \subseteq Nat
  <2> SUFFICES ASSUME NEW x \in S PROVE n - x \in Nat
    OBVIOUS
  <2>1. x \in 0 .. n
    OBVIOUS
  <2> QED
    BY <2>1
<1>2. T # {}
  OBVIOUS
<1>3. \E y \in T : \A z \in T : <<z, y>> \notin R
  BY <1>1, <1>2, NatLessThanWellFounded, WFMin
<1>4. PICK y \in T : \A z \in T : ~ (z < y)
  BY <1>1, <1>3 DEF OpToRel
<1>5. PICK m \in S : y = n - m
  OBVIOUS
<1>6. \A x \in S : m >= x
  <2> SUFFICES ASSUME NEW x \in S PROVE m >= x
    OBVIOUS
  <2>1. ~ (n - x < n - m)
    BY <1>4, <1>5
  <2>2. x \in 0 .. n /\ m \in 0 .. n
    OBVIOUS
  <2> QED
    BY <2>1, <2>2
<1>7. Max(S) \in S /\ \A x \in S : Max(S) >= x
  BY <1>6 DEF Max
<1>8. \A x \in S : x \in Int
  <2> SUFFICES ASSUME NEW x \in S PROVE x \in Int
    OBVIOUS
  <2>1. x \in 0 .. n
    OBVIOUS
  <2> QED
    BY <2>1
<1> QED
  BY <1>7, <1>8

(* The smaller of two integers. *)
LEMMA MinOfTwo ==
  ASSUME NEW a \in Int, NEW b \in Int
  PROVE  Min({a, b}) = IF a <= b THEN a ELSE b
BY DEF Min

(* An order of a finite set names each of its members once. *)
LEMMA OrderProperties ==
  ASSUME NEW S, IsFiniteSet(S), NEW order \in SetToSeqs(S)
  PROVE  /\ order \in Seq(S)
         /\ \A x \in S : \E i \in DOMAIN order : order[i] = x
<1>1. Cardinality(S) \in Nat
  BY FS_CardinalityType
<1>2. order \in [1 .. Cardinality(S) -> S]
  BY DEF SetToSeqs
<1>3. order \in Injection(1 .. Cardinality(S), S)
  BY <1>2 DEF SetToSeqs, Injection, IsInjective
<1>4. Cardinality(1 .. Cardinality(S)) = Cardinality(S)
  BY <1>1, FS_Interval
<1>5. order \in Surjection(1 .. Cardinality(S), S)
  BY <1>3, <1>4, FS_Injection
<1> QED
  BY <1>1, <1>2, <1>5 DEF Surjection

(* The first k of a sequence. *)
LEMMA PrefixProperties ==
  ASSUME NEW S, NEW s \in Seq(S), NEW k \in Nat, k <= Len(s)
  PROVE  /\ SubSeq(s, 1, k) \in Seq(S)
         /\ DOMAIN SubSeq(s, 1, k) = 1 .. k
         /\ \A i \in 1 .. k : i \in DOMAIN s /\ s[i] \in S /\ SubSeq(s, 1, k)[i] = s[i]
<1>1. Len(s) \in Nat /\ DOMAIN s = 1 .. Len(s) /\ s \in [1 .. Len(s) -> S]
  BY LenProperties
<1>2. \A i \in 1 .. k : i \in DOMAIN s /\ s[i] \in S
  BY <1>1
<1>3. k \in Int /\ 1 \in Int
  OBVIOUS
<1>4. /\ SubSeq(s, 1, k) \in Seq(S)
      /\ Len(SubSeq(s, 1, k)) = IF 1 <= k THEN k - 1 + 1 ELSE 0
      /\ \A i \in 1 .. k - 1 + 1 : SubSeq(s, 1, k)[i] = s[1 + i - 1]
  BY <1>2, <1>3, SubSeqProperties
<1>5. Len(SubSeq(s, 1, k)) = k
  BY <1>4
<1>6. DOMAIN SubSeq(s, 1, k) = 1 .. k
  BY <1>4, <1>5, LenProperties
<1>7. \A i \in 1 .. k : i \in 1 .. k - 1 + 1 /\ 1 + i - 1 = i
  OBVIOUS
<1> QED
  BY <1>2, <1>4, <1>6, <1>7

(* What a query returns of the candidates: the oldest ones in order, and   *)
(* those it leaves out are newer than all it returns.                      *)
LEMMA QueryReturns ==
  ASSUME NEW c \in SUBSET Instants, NEW rows \in OldestFirst(c)
  PROVE  LET b == SubSeq(rows, 1, Min({Limit, Len(rows)}))
         IN  /\ b \in Seq(Instants)
             /\ \A i \in DOMAIN b : b[i] \in c
             /\ \A i, j \in DOMAIN b : i < j => b[i] < b[j]
             /\ \A m \in c : \/ \E i \in DOMAIN b : b[i] = m
                             \/ \A i \in DOMAIN b : b[i] < m
<1>1. IsFiniteSet(c)
  <2>1. MaxTime \in Int /\ 1 \in Int
    BY NumbersAssumption
  <2>2. IsFiniteSet(Instants)
    BY <2>1, FS_Interval, Zenon DEF Instants
  <2> QED
    BY <2>2, FS_Subset, Zenon
<1>2. /\ rows \in Seq(c)
      /\ \A m \in c : \E i \in DOMAIN rows : rows[i] = m
  BY <1>1, OrderProperties DEF OldestFirst
<1>3. \A i, j \in DOMAIN rows : i < j => rows[i] < rows[j]
  BY DEF OldestFirst
<1>4. Len(rows) \in Nat /\ DOMAIN rows = 1 .. Len(rows)
  BY <1>2, LenProperties
<1> DEFINE k == Min({Limit, Len(rows)})
           b == SubSeq(rows, 1, k)
<1>5. k \in Nat /\ k <= Len(rows)
  BY <1>4, MinOfTwo, NumbersAssumption
<1> HIDE DEF k
<1>6. rows \in Seq(Instants)
  BY <1>2
<1>7. b \in Seq(Instants)
  BY <1>5, <1>6, PrefixProperties
<1>8. /\ DOMAIN b = 1 .. k
      /\ \A i \in 1 .. k : i \in DOMAIN rows /\ rows[i] \in c /\ b[i] = rows[i]
  BY <1>2, <1>5, PrefixProperties
<1> HIDE DEF b
<1>9. \A i \in DOMAIN b : b[i] \in c
  BY <1>8
<1>10. \A i, j \in DOMAIN b : i < j => b[i] < b[j]
  BY <1>3, <1>8
<1>11. ASSUME NEW m \in c
       PROVE  \/ \E i \in DOMAIN b : b[i] = m
              \/ \A i \in DOMAIN b : b[i] < m
  <2>1. PICK j \in DOMAIN rows : rows[j] = m
    BY <1>2
  <2>2. j \in Nat /\ j >= 1
    BY <1>4
  <2>3. CASE j <= k
    <3>1. j \in 1 .. k
      BY <1>5, <2>2, <2>3
    <3> QED
      BY <1>8, <2>1, <3>1
  <2>4. CASE j > k
    <3>1. \A i \in 1 .. k : i < j
      BY <1>5, <2>2, <2>4
    <3> QED
      BY <1>3, <1>8, <2>1, <3>1
  <2> QED
    BY <1>5, <2>2, <2>3, <2>4
<1> QED
  BY <1>7, <1>9, <1>10, <1>11 DEF b, k

(* A motion with a detection of ours is no candidate: it lies in its own   *)
(* neighbourhood, as it ends no earlier than it begins.                    *)
LEMMA CandidatesAreNew ==
  ASSUME TypeOK, TimesInv, NEW m \in Candidates
  PROVE  m \in Instants /\ m > hwm /\ ours[m] = 0
<1>1. m \in Instants /\ m > hwm /\ ended[m] > 0 /\ ~Nearby(m)
  BY DEF Candidates, Complete
<1>2. ended[m] >= m /\ ended[m] \in Int /\ m \in Int /\ ours[m] \in Nat
  BY <1>1, NumbersAssumption DEF TypeOK, TimesInv, Instants
<1>3. m - Near <= m /\ m <= ended[m] + Near
  BY <1>2, NumbersAssumption
<1>4. m \notin Detections
  BY <1>1, <1>3 DEF Nearby
<1> QED
  BY <1>1, <1>2, <1>4 DEF Detections

-----------------------------------------------------------------------------
(* The flag and the settings stay what they are typed to be. *)
Flags == running \in BOOLEAN /\ faults \in BOOLEAN /\ lookback \in Lookbacks

(* The flags keep their types, and faults do not change. *)
LEMMA FlagsTyped ==
  ASSUME Flags, [Next]_vars
  PROVE  Flags' /\ faults' = faults
<1> USE Zenon DEF Flags
<1>1. settings' = settings
  BY DEF Next, Poll, Protect, Query, QueryFails, SampleHits, SampleMisses,
     EndBatch, Dependents, Alarm, Wake, End, SetMark, Look, Skip, Insert, Start,
     Stop, Crash, MotionStarts, DetectNatively, Tick, MotionEnds, AddThumbnail,
     Unaware, Goto, vars
<1>2. running' = running \/ running' = TRUE \/ running' = FALSE
  BY DEF Next, Poll, Protect, Query, QueryFails, SampleHits, SampleMisses,
     EndBatch, Dependents, Alarm, Wake, End, SetMark, Look, Skip, Insert, Start,
     Stop, Crash, MotionStarts, DetectNatively, Tick, MotionEnds, AddThumbnail,
     Unaware, Goto, vars
<1>3. faults' = faults /\ lookback' = lookback
  BY <1>1 DEF settings
<1> QED
  BY <1>2, <1>3

(* A step that moves neither the mark nor the batch, touches no row of     *)
(* ours and neither enters nor leaves the statements after an insert       *)
(* keeps the invariant, if it keeps the types and the times.               *)
LEMMA FrameStep ==
  ASSUME PollerInv, Flags', faults' = faults,
         UNCHANGED <<hwm, batch, ourVars, alarms, historyVars>>,
         pc' \in Labels, starts' \in 0 .. MaxStarts, clock' \in Instants,
         ended' \in [Instants -> -1 .. MaxTime],
         thumbs' \subseteq Instants, natives' \subseteq Instants,
         TimesInv',
         pc' \in {"off", "mark", "query", "sleep"} => batch = <<>>,
         pc' \in {"look", "insert", "rows", "alarm"} => batch # <<>>,
         pc' \in {"rows", "alarm"} <=> pc \in {"rows", "alarm"}
  PROVE  PollerInv'
<1>1. TypeOK'
  BY Zenon DEF PollerInv, TypeOK, Flags, ourVars, historyVars
<1>2. UNCHANGED <<hwm, batch, ours, marked, alarms, found, handled>>
  BY DEF ourVars, historyVars
<1>3. BatchInv'
  BY <1>2 DEF PollerInv, BatchInv
<1>4. OursInv'
  BY <1>2 DEF PollerInv, OursInv
<1>5. AlarmsInv'
  BY <1>2 DEF PollerInv, AlarmsInv, Current
<1>6. FoundInv'
  BY <1>2 DEF PollerInv, FoundInv
<1> QED
  BY <1>1, <1>3, <1>4, <1>5, <1>6 DEF PollerInv

(* The steps of the thread that only move on, and its start and stop. *)
LEMMA MoveStep ==
  ASSUME PollerInv, Flags', faults' = faults,
         \/ QueryFails \/ SampleHits \/ SampleMisses \/ Dependents \/ Wake
         \/ End \/ Start \/ Stop
         \/ \E crop, wide \in Pictures : Look(crop, wide)
  PROVE  PollerInv'
<1> DEFINE Kept == UNCHANGED <<hwm, batch, ourVars, alarms, eventVars, clock, historyVars>>
           Moved ==
             /\ pc' \in Labels /\ starts' \in 0 .. MaxStarts
             /\ pc' \in {"off", "mark", "query", "sleep"} => batch = <<>>
             /\ pc' \in {"look", "insert", "rows", "alarm"} => batch # <<>>
             /\ pc' \in {"rows", "alarm"} <=> pc \in {"rows", "alarm"}
<1>1. Kept /\ Moved
  <2> USE NumbersAssumption DEF PollerInv, TypeOK, BatchInv, Labels, Goto
  <2>1. CASE QueryFails
    BY <2>1 DEF QueryFails
  <2>2. CASE SampleHits
    BY <2>2 DEF SampleHits
  <2>3. CASE SampleMisses
    BY <2>3 DEF SampleMisses
  <2>4. CASE Dependents
    BY <2>4 DEF Dependents
  <2>5. CASE Wake
    BY <2>5 DEF Wake
  <2>6. CASE End
    BY <2>6 DEF End
  <2>7. CASE Start
    BY <2>7 DEF Start
  <2>8. CASE Stop
    BY <2>8 DEF Stop
  <2>9. CASE \E crop, wide \in Pictures : Look(crop, wide)
    BY <2>9 DEF Look
  <2> QED
    BY <2>1, <2>2, <2>3, <2>4, <2>5, <2>6, <2>7, <2>8, <2>9
<1>2. TimesInv' /\ ended' = ended /\ thumbs' = thumbs /\ natives' = natives /\ clock' = clock
  BY <1>1 DEF PollerInv, TimesInv, eventVars
<1>3. /\ clock' \in Instants /\ ended' \in [Instants -> -1 .. MaxTime]
      /\ thumbs' \subseteq Instants /\ natives' \subseteq Instants
  BY <1>2, Zenon DEF PollerInv, TypeOK
<1> QED
  BY <1>1, <1>2, <1>3, FrameStep, Zenon

(* What Protect does. *)
LEMMA ProtectStep ==
  ASSUME PollerInv, Flags', faults' = faults, Protect
  PROVE  PollerInv'
<1>1. /\ pc' = pc /\ starts' = starts
      /\ UNCHANGED <<hwm, batch, ourVars, alarms, historyVars>>
  BY DEF Protect, MotionStarts, MotionEnds, AddThumbnail, DetectNatively, Tick, Unaware
<1>2. /\ clock' \in Instants /\ ended' \in [Instants -> -1 .. MaxTime]
      /\ thumbs' \subseteq Instants /\ natives' \subseteq Instants
      /\ TimesInv'
  <2> USE NumbersAssumption DEF PollerInv, TypeOK, TimesInv, Instants, Unaware
  <2>1. CASE MotionStarts
    BY <2>1 DEF MotionStarts
  <2>2. CASE DetectNatively
    BY <2>2 DEF DetectNatively
  <2>3. CASE Tick
    BY <2>3 DEF Tick
  <2>4. ASSUME NEW m \in Instants, MotionEnds(m)
        PROVE  /\ clock' \in Instants /\ ended' \in [Instants -> -1 .. MaxTime]
               /\ thumbs' \subseteq Instants /\ natives' \subseteq Instants
               /\ TimesInv'
    <3>1. /\ ended[m] = 0 /\ ended' = [ended EXCEPT ![m] = clock]
          /\ thumbs' = thumbs /\ natives' = natives /\ clock' = clock
      BY <2>4 DEF MotionEnds
    <3>2. m <= clock /\ clock \in 1 .. MaxTime /\ clock \in -1 .. MaxTime
      BY <3>1
    <3>3. ended' \in [Instants -> -1 .. MaxTime]
      BY <3>1, <3>2
    <3>4. TimesInv'
      <4> SUFFICES ASSUME NEW i \in Instants
                   PROVE  /\ ended'[i] # -1 => i <= clock
                          /\ ended'[i] > 0 => ended'[i] >= i
        BY <3>1
      <4>1. CASE i = m
        BY <3>1, <3>2, <4>1
      <4>2. CASE i # m
        BY <3>1, <4>2
      <4> QED
        BY <4>1, <4>2
    <3> QED
      BY <3>1, <3>3, <3>4
  <2>5. ASSUME NEW m \in Instants, AddThumbnail(m)
        PROVE  /\ clock' \in Instants /\ ended' \in [Instants -> -1 .. MaxTime]
               /\ thumbs' \subseteq Instants /\ natives' \subseteq Instants
               /\ TimesInv'
    BY <2>5 DEF AddThumbnail
  <2> HIDE DEF TimesInv, Instants
  <2> QED
    BY <2>1, <2>2, <2>3, <2>4, <2>5 DEF Protect
<1>3. /\ pc' \in Labels /\ starts' \in 0 .. MaxStarts
      /\ pc' \in {"off", "mark", "query", "sleep"} => batch = <<>>
      /\ pc' \in {"look", "insert", "rows", "alarm"} => batch # <<>>
      /\ pc' \in {"rows", "alarm"} <=> pc \in {"rows", "alarm"}
  BY <1>1 DEF PollerInv, TypeOK, BatchInv
<1> QED
  BY <1>1, <1>2, <1>3, FrameStep, Zenon

(* Setting the mark: there is no batch, and nothing was found yet. *)
LEMMA SetMarkStep ==
  ASSUME PollerInv, Flags', faults' = faults, NEW answered \in BOOLEAN, SetMark(answered)
  PROVE  PollerInv'
<1>1. InitialMark(answered) \in Int
  <2>1. marked # {} => Max(marked) \in Int
    <3>1. MaxTime \in Nat /\ marked \in SUBSET (0 .. MaxTime)
      BY NumbersAssumption DEF PollerInv, TypeOK, Instants
    <3>2. marked # {} => Max(marked) \in marked
      BY <3>1, MaxProperties
    <3>3. marked # {} => Max(marked) \in 0 .. MaxTime
      BY <3>1, <3>2
    <3> QED
      BY <3>1, <3>3
  <2>2. clock \in Int /\ DefaultAge \in Int /\ lookback \in Int
    BY NumbersAssumption DEF PollerInv, TypeOK, Instants
  <2> DEFINE newest == IF answered /\ marked # {} THEN Max(marked) ELSE clock - DefaultAge
  <2>3. newest \in Int
    BY <2>1, <2>2
  <2>4. clock - lookback \in Int
    BY <2>2
  <2> HIDE DEF newest
  <2>5. Min({newest, clock - lookback}) \in Int
    BY <2>3, <2>4, MinOfTwo
  <2> QED
    BY <2>3, <2>5 DEF InitialMark, newest
<1>2. /\ pc = "mark" /\ pc' = "query" /\ found' = {} /\ hwm' \in Int
      /\ UNCHANGED <<batch, ours, marked, alarms, ended, thumbs, natives, clock, starts, handled>>
  BY <1>1 DEF SetMark, eventVars, ourVars
<1>3. batch = <<>>
  BY <1>2 DEF PollerInv, BatchInv
<1>4. TypeOK'
  BY <1>2, Zenon DEF PollerInv, TypeOK, Flags, Labels
<1>5. TimesInv'
  BY <1>2 DEF PollerInv, TimesInv
<1>6. BatchInv' /\ OursInv' /\ FoundInv'
  BY <1>2, <1>3 DEF PollerInv, BatchInv, OursInv, FoundInv
<1>7. AlarmsInv'
  BY <1>2, <1>3 DEF PollerInv, AlarmsInv
<1> QED
  BY <1>4, <1>5, <1>6, <1>7 DEF PollerInv

(* A query finds motions without a detection of ours, and whatever it      *)
(* finds is in the batch or newer than the batch.                          *)
LEMMA QueryStep ==
  ASSUME PollerInv, Flags', faults' = faults, Query
  PROVE  PollerInv'
<1>1. PICK rows \in OldestFirst(Candidates) :
        batch' = SubSeq(rows, 1, Min({Limit, Len(rows)}))
  BY DEF Query
<1>2. /\ pc = "query" /\ pc' = "take" /\ found' = Candidates
      /\ UNCHANGED <<hwm, ours, marked, alarms, ended, thumbs, natives, clock, starts, handled>>
  BY DEF Query, eventVars, ourVars
<1>3. Candidates \in SUBSET Instants
  BY DEF Candidates
<1>4. /\ batch' \in Seq(Instants)
      /\ \A i \in DOMAIN batch' : batch'[i] \in Candidates
      /\ \A i, j \in DOMAIN batch' : i < j => batch'[i] < batch'[j]
      /\ \A m \in Candidates : \/ \E i \in DOMAIN batch' : batch'[i] = m
                               \/ \A i \in DOMAIN batch' : batch'[i] < m
  BY <1>1, <1>3, QueryReturns
<1>5. \A m \in Candidates : m \in Instants /\ m > hwm /\ ours[m] = 0
  BY CandidatesAreNew DEF PollerInv
<1> HIDE DEF Candidates
<1>6. TypeOK'
  BY <1>2, <1>3, <1>4, Zenon DEF PollerInv, TypeOK, Flags, Labels
<1>7. TimesInv'
  BY <1>2 DEF PollerInv, TimesInv
<1>8. BatchInv'
  BY <1>2, <1>4, <1>5 DEF BatchInv
<1>9. OursInv'
  BY <1>2, <1>4, <1>5 DEF PollerInv, OursInv
<1>10. AlarmsInv'
  <2> SUFFICES ASSUME ~faults
               PROVE  /\ \A m \in Instants : alarms'[m] <= ours'[m]
                      /\ \A i \in DOMAIN batch' : alarms'[batch'[i]] = 0
                      /\ pc' \in {"rows", "alarm"} => ours'[Current'] = 1
    BY DEF AlarmsInv
  <2>1. \A m \in Instants : alarms[m] <= ours[m] /\ alarms[m] \in Nat
    BY DEF PollerInv, AlarmsInv, TypeOK
  <2>2. \A m \in Candidates : alarms[m] = 0
    BY <1>5, <2>1
  <2> QED
    BY <1>2, <1>4, <2>1, <2>2
<1>11. FoundInv'
  BY <1>2, <1>4, <1>5 DEF FoundInv
<1> QED
  BY <1>6, <1>7, <1>8, <1>9, <1>10, <1>11 DEF PollerInv

(* The batch is given up: the mark has not passed what was in it. *)
LEMMA GiveUpStep ==
  ASSUME PollerInv, Flags', faults' = faults, EndBatch \/ Crash
  PROVE  PollerInv'
<1>1. /\ pc' \in {"sleep", "off"} /\ batch' = <<>>
      /\ UNCHANGED <<hwm, ours, marked, alarms, ended, thumbs, natives, clock, starts, found, handled>>
  BY DEF EndBatch, Crash, eventVars, ourVars, historyVars
<1>2. DOMAIN batch' = {}
  BY <1>1
<1>3. batch' \in Seq(Instants)
  BY <1>1
<1>4. TypeOK'
  BY <1>1, <1>3, Zenon DEF PollerInv, TypeOK, Flags, Labels
<1>5. TimesInv'
  BY <1>1 DEF PollerInv, TimesInv
<1>6. BatchInv'
  BY <1>1, <1>2 DEF BatchInv
<1>7. OursInv'
  BY <1>1, <1>2 DEF PollerInv, OursInv
<1>8. AlarmsInv'
  BY <1>1, <1>2 DEF PollerInv, AlarmsInv
<1>9. FoundInv'
  BY <1>1, <1>2 DEF PollerInv, FoundInv, BatchInv
<1> QED
  BY <1>4, <1>5, <1>6, <1>7, <1>8, <1>9 DEF PollerInv

(* The batch while there is one: its head is its first motion, its tail    *)
(* the ones after it.                                                      *)
LEMMA BatchShape ==
  ASSUME PollerInv, batch # <<>>
  PROVE  /\ Current \in Instants /\ Current = batch[1] /\ 1 \in DOMAIN batch
         /\ Tail(batch) \in Seq(Instants)
         /\ \A i \in DOMAIN Tail(batch) : i + 1 \in DOMAIN batch /\ Tail(batch)[i] = batch[i + 1]
         /\ \A i \in DOMAIN batch : i # 1 => i - 1 \in DOMAIN Tail(batch)
         /\ \A i \in DOMAIN batch : batch[i] \in Instants /\ i \in Nat /\ i >= 1
         /\ \A i \in DOMAIN batch : i # 1 => batch[1] < batch[i]
<1>1. batch \in Seq(Instants)
  BY DEF PollerInv, TypeOK
<1>2. Len(batch) \in Nat \ {0} /\ DOMAIN batch = 1 .. Len(batch)
  BY <1>1, LenProperties, EmptySeq
<1>3. /\ Current \in Instants /\ Current = batch[1]
      /\ Tail(batch) \in Seq(Instants)
      /\ Len(Tail(batch)) = Len(batch) - 1
      /\ \A i \in 1 .. Len(Tail(batch)) : Tail(batch)[i] = batch[i + 1]
  BY <1>1, HeadTailProperties DEF Current
<1>4. DOMAIN Tail(batch) = 1 .. Len(batch) - 1
  BY <1>3, LenProperties
<1>5. \A i \in DOMAIN batch : batch[i] \in Instants /\ i \in Nat /\ i >= 1
  BY <1>1, <1>2, LenProperties
<1>6. \A i \in DOMAIN batch : i # 1 => batch[1] < batch[i]
  <2> SUFFICES ASSUME NEW i \in DOMAIN batch, i # 1
               PROVE  batch[1] < batch[i]
    OBVIOUS
  <2>1. 1 \in DOMAIN batch /\ 1 < i
    BY <1>2
  <2> QED
    BY <2>1 DEF PollerInv, BatchInv
<1> QED
  BY <1>2, <1>3, <1>4, <1>5, <1>6

(* The mark passes the motion at hand, which has been looked at; what      *)
(* waits behind it lies above the new mark.  Its alarm, if any, is its     *)
(* first.                                                                  *)
LEMMA AdvanceStep ==
  ASSUME PollerInv, Flags', faults' = faults,
         Alarm \/ \E crop, wide \in Pictures : Skip(crop, wide)
  PROVE  PollerInv'
<1>1. /\ pc \in {"look", "alarm"} /\ Advance /\ found' = found
      /\ UNCHANGED <<ours, marked, ended, thumbs, natives, clock, starts>>
  BY DEF Alarm, Skip, eventVars, ourVars
<1>2. \/ alarms' = alarms
      \/ pc = "alarm" /\ alarms' = [alarms EXCEPT ![Current] = @ + 1]
  <2>1. CASE Alarm
    BY <2>1 DEF Alarm
  <2>2. CASE \E crop, wide \in Pictures : Skip(crop, wide)
    BY <2>2 DEF Skip
  <2> QED
    BY <2>1, <2>2
<1>3. batch # <<>>
  BY <1>1 DEF PollerInv, BatchInv
<1> DEFINE tail == Tail(batch)
<1>4. /\ hwm' = batch[1] /\ batch' = tail /\ handled' = handled \cup {batch[1]} /\ pc' = "take"
  BY <1>1, <1>3, BatchShape DEF Advance
<1>5. /\ Current \in Instants /\ Current = batch[1] /\ 1 \in DOMAIN batch
      /\ tail \in Seq(Instants)
      /\ \A i \in DOMAIN tail : i + 1 \in DOMAIN batch /\ tail[i] = batch[i + 1]
      /\ \A i \in DOMAIN batch : i # 1 => i - 1 \in DOMAIN tail
      /\ \A i \in DOMAIN batch : batch[i] \in Instants /\ i \in Nat /\ i >= 1
      /\ \A i \in DOMAIN batch : i # 1 => batch[1] < batch[i]
  BY <1>3, BatchShape
<1>6. tail \in Seq(Instants) => \A i \in DOMAIN tail : i \in Nat /\ i >= 1
  BY LenProperties
<1> HIDE DEF tail
<1>7. TypeOK'
  <2>1. alarms' \in [Instants -> Nat]
    <3>1. alarms \in [Instants -> Nat]
      BY DEF PollerInv, TypeOK
    <3> QED
      BY <1>2, <1>5, <3>1
  <2>2. hwm' \in Int /\ handled' \subseteq Instants
    <3>1. handled \subseteq Instants /\ batch[1] \in Instants
      BY <1>5 DEF PollerInv, TypeOK
    <3>2. batch[1] \in Int
      BY <3>1 DEF Instants
    <3> QED
      BY <1>4, <3>1, <3>2
  <2> QED
    BY <1>1, <1>4, <1>5, <2>1, <2>2, Zenon DEF PollerInv, TypeOK, Flags, Labels
<1>8. TimesInv'
  BY <1>1 DEF PollerInv, TimesInv
<1>9. BatchInv'
  <2>1. \A i, j \in DOMAIN tail : i < j => tail[i] < tail[j]
    <3> SUFFICES ASSUME NEW i \in DOMAIN tail, NEW j \in DOMAIN tail, i < j
                 PROVE  tail[i] < tail[j]
      OBVIOUS
    <3>1. i + 1 < j + 1 /\ i + 1 \in DOMAIN batch /\ j + 1 \in DOMAIN batch
      BY <1>5, <1>6
    <3>2. batch[i + 1] < batch[j + 1]
      BY <3>1 DEF PollerInv, BatchInv
    <3> QED
      BY <1>5, <3>2
  <2>2. \A i \in DOMAIN tail : tail[i] > batch[1]
    <3> SUFFICES ASSUME NEW i \in DOMAIN tail
                 PROVE  tail[i] > batch[1]
      OBVIOUS
    <3>1. i + 1 \in DOMAIN batch /\ i + 1 # 1
      BY <1>5, <1>6
    <3> QED
      BY <1>5, <3>1 DEF Instants
  <2> QED
    BY <1>4, <2>1, <2>2 DEF BatchInv
<1>10. \A i \in DOMAIN tail : tail[i] # Current /\ ours[tail[i]] = 0 /\ tail[i] \in Instants
  <2> SUFFICES ASSUME NEW i \in DOMAIN tail
               PROVE  tail[i] # Current /\ ours[tail[i]] = 0 /\ tail[i] \in Instants
    OBVIOUS
  <2>1. i + 1 \in DOMAIN batch /\ i + 1 # 1 /\ tail[i] = batch[i + 1]
    BY <1>5, <1>6
  <2>2. tail[i] \in Instants /\ batch[1] < tail[i]
    BY <1>5, <2>1
  <2>3. ours[tail[i]] = 0
    BY <2>1 DEF PollerInv, OursInv
  <2> QED
    BY <1>5, <2>2, <2>3 DEF Instants
<1>11. OursInv'
  BY <1>1, <1>4, <1>10 DEF PollerInv, OursInv
<1>12. AlarmsInv'
  <2> SUFFICES ASSUME ~faults
               PROVE  /\ \A m \in Instants : alarms'[m] <= ours[m]
                      /\ \A i \in DOMAIN tail : alarms'[tail[i]] = 0
    BY <1>1, <1>4 DEF AlarmsInv
  <2>1. /\ \A m \in Instants : alarms[m] <= ours[m] /\ alarms[m] \in Nat
        /\ \A i \in DOMAIN tail : alarms[tail[i]] = 0
        /\ alarms \in [Instants -> Nat]
    <3>1. \A m \in Instants : alarms[m] <= ours[m] /\ alarms[m] \in Nat
      BY DEF PollerInv, AlarmsInv, TypeOK
    <3>2. alarms \in [Instants -> Nat]
      BY DEF PollerInv, TypeOK
    <3> QED
      BY <1>10, <3>1, <3>2
  <2>2. CASE alarms' = alarms
    BY <2>1, <2>2
  <2>3. CASE pc = "alarm" /\ alarms' = [alarms EXCEPT ![Current] = @ + 1]
    <3>1. alarms[Current] = 0 /\ ours[Current] = 1
      BY <1>5, <2>3 DEF PollerInv, AlarmsInv
    <3>2. alarms'[Current] = 1 /\ \A m \in Instants : m # Current => alarms'[m] = alarms[m]
      BY <1>5, <2>1, <2>3, <3>1
    <3> QED
      BY <1>5, <1>10, <2>1, <3>1, <3>2
  <2> QED
    BY <1>2, <2>2, <2>3
<1>13. FoundInv'
  <2> SUFFICES ASSUME NEW m \in found
               PROVE  \/ m \in handled'
                      \/ \E i \in DOMAIN tail : tail[i] = m
                      \/ m > batch[1] /\ \A i \in DOMAIN tail : tail[i] < m
    BY <1>1, <1>4 DEF FoundInv
  <2>1. CASE m \in handled
    BY <1>4, <2>1
  <2>2. ASSUME NEW i \in DOMAIN batch, batch[i] = m
        PROVE  m \in handled' \/ \E j \in DOMAIN tail : tail[j] = m
    <3>1. CASE i = 1
      BY <1>4, <2>2, <3>1
    <3>2. CASE i # 1
      <4>1. i - 1 \in DOMAIN tail /\ (i - 1) + 1 = i
        BY <1>5, <3>2
      <4> QED
        BY <1>5, <2>2, <4>1
    <3> QED
      BY <3>1, <3>2
  <2>3. CASE m > hwm /\ \A i \in DOMAIN batch : batch[i] < m
    <3>1. \A i \in DOMAIN tail : tail[i] < m
      BY <1>5, <2>3
    <3>2. batch[1] \in Int /\ m \in Int /\ batch[1] < m
      BY <1>5, <2>3 DEF PollerInv, TypeOK, Instants
    <3> QED
      BY <3>1, <3>2
  <2> QED
    BY <2>1, <2>2, <2>3 DEF PollerInv, FoundInv
<1> QED
  BY <1>7, <1>8, <1>9, <1>11, <1>12, <1>13 DEF PollerInv

(* The motion at hand gets its detection: it had none. *)
LEMMA InsertStep ==
  ASSUME PollerInv, Flags', faults' = faults, NEW ok \in BOOLEAN, Insert(ok)
  PROVE  PollerInv'
<1>1. /\ pc = "insert" /\ pc' = "rows"
      /\ UNCHANGED <<hwm, batch, alarms, ended, thumbs, natives, clock, starts, found, handled>>
      /\ \/ ours' = [ours EXCEPT ![Current] = @ + 1] /\ marked' \subseteq marked \cup {Current}
         \/ faults /\ ours' = ours /\ marked' = marked
  BY DEF Insert, eventVars, historyVars
<1>2. batch # <<>>
  BY <1>1 DEF PollerInv, BatchInv
<1>3. /\ Current \in Instants /\ Current = batch[1] /\ 1 \in DOMAIN batch
      /\ \A i \in DOMAIN batch : batch[i] \in Instants
      /\ \A i \in DOMAIN batch : i # 1 => batch[1] < batch[i]
  BY <1>2, BatchShape
<1>4. /\ ours \in [Instants -> Nat] /\ \A m \in Instants : ours[m] <= 1
      /\ \A i \in DOMAIN batch : ours[batch[i]] = 0
  BY <1>1 DEF PollerInv, TypeOK, OursInv
<1>5. \/ ours' = ours
      \/ ours'[Current] = 1 /\ \A m \in Instants : m # Current => ours'[m] = ours[m]
  BY <1>1, <1>3, <1>4
<1>6. TypeOK'
  <2>1. ours' \in [Instants -> Nat]
    BY <1>1, <1>3, <1>4
  <2>2. marked' \subseteq Instants
    <3>1. marked \subseteq Instants
      BY DEF PollerInv, TypeOK
    <3> QED
      BY <1>1, <1>3, <3>1
  <2> QED
    BY <1>1, <2>1, <2>2, Zenon DEF PollerInv, TypeOK, Flags, Labels
<1>7. TimesInv'
  BY <1>1 DEF PollerInv, TimesInv
<1>8. BatchInv'
  BY <1>1, <1>2 DEF PollerInv, BatchInv
<1>9. OursInv'
  <2>1. \A m \in Instants : ours'[m] <= 1
    BY <1>4, <1>5
  <2>2. ASSUME NEW i \in DOMAIN batch, ours'[batch[i]] # 0
        PROVE  i = 1
    <3>1. batch[i] = Current
      BY <1>3, <1>4, <1>5, <2>2
    <3> QED
      BY <1>3, <3>1 DEF Instants
  <2> QED
    BY <1>1, <2>1, <2>2 DEF OursInv
<1>10. AlarmsInv'
  <2> SUFFICES ASSUME ~faults
               PROVE  /\ \A m \in Instants : alarms[m] <= ours'[m]
                      /\ \A i \in DOMAIN batch : alarms[batch[i]] = 0
                      /\ ours'[Current] = 1
    BY <1>1 DEF AlarmsInv, Current
  <2>1. /\ \A m \in Instants : alarms[m] <= ours[m] /\ alarms[m] \in Nat
        /\ \A i \in DOMAIN batch : alarms[batch[i]] = 0
    BY DEF PollerInv, AlarmsInv, TypeOK
  <2>2. ours'[Current] = 1 /\ \A m \in Instants : m # Current => ours'[m] = ours[m]
    <3>1. ours' = [ours EXCEPT ![Current] = @ + 1]
      BY <1>1
    <3> QED
      BY <1>3, <1>4, <3>1
  <2>3. alarms[Current] = 0
    BY <1>3, <2>1
  <2> QED
    BY <2>1, <2>2, <2>3
<1>11. FoundInv'
  BY <1>1 DEF PollerInv, FoundInv
<1> QED
  BY <1>6, <1>7, <1>8, <1>9, <1>10, <1>11 DEF PollerInv

-----------------------------------------------------------------------------
(* The mark, the batch and the rows agree in every state, wherever the     *)
(* poller is stopped, killed or started again.                             *)
THEOREM PollerInvariant == Spec => []PollerInv
<1>1. Init => PollerInv
  <2> SUFFICES ASSUME Init PROVE PollerInv
    OBVIOUS
  <2>1. TypeOK
    <3>1. /\ hwm \in Int /\ clock \in Instants /\ starts \in 0 .. MaxStarts
          /\ ended \in [Instants -> -1 .. MaxTime]
          /\ ours \in [Instants -> Nat] /\ alarms \in [Instants -> Nat]
      BY NumbersAssumption DEF Init, Instants
    <3>2. batch \in Seq(Instants)
      BY DEF Init
    <3>3. /\ pc \in Labels /\ running \in BOOLEAN
          /\ lookback \in Lookbacks /\ faults \in BOOLEAN
          /\ thumbs \subseteq Instants /\ natives \subseteq Instants
          /\ marked \subseteq Instants /\ found \subseteq Instants /\ handled \subseteq Instants
      BY Zenon DEF Init, Labels
    <3> QED
      BY <3>1, <3>2, <3>3, Zenon DEF TypeOK
  <2>2. TimesInv
    BY DEF Init, TimesInv
  <2>3. BatchInv /\ OursInv /\ FoundInv
    BY DEF Init, BatchInv, OursInv, FoundInv
  <2>4. AlarmsInv
    <3>1. /\ \A m \in Instants : alarms[m] <= ours[m]
          /\ DOMAIN batch = {} /\ pc = "off"
      BY DEF Init
    <3> QED
      BY <3>1 DEF AlarmsInv
  <2> QED
    BY <2>1, <2>2, <2>3, <2>4 DEF PollerInv
<1>2. PollerInv /\ [Next]_vars => PollerInv'
  <2> SUFFICES ASSUME PollerInv, [Next]_vars PROVE PollerInv'
    OBVIOUS
  <2>1. Flags
    BY Zenon DEF PollerInv, TypeOK, Flags
  <2>2. Flags' /\ faults' = faults
    BY <2>1, FlagsTyped, Zenon
  <2>3. CASE UNCHANGED vars
    <3>1. PollerInv' <=> PollerInv
      BY <2>3, Zenon DEF PollerInv, TypeOK, TimesInv, BatchInv, OursInv, AlarmsInv,
         FoundInv, Current, vars, settings, eventVars, ourVars, historyVars
    <3> QED
      BY <3>1
  <2>4. CASE \/ QueryFails \/ SampleHits \/ SampleMisses \/ Dependents \/ Wake
             \/ End \/ Start \/ Stop
             \/ \E crop, wide \in Pictures : Look(crop, wide)
    BY <2>2, <2>4, MoveStep, Zenon
  <2>5. CASE Protect
    BY <2>2, <2>5, ProtectStep, Zenon
  <2>6. CASE \E answered \in BOOLEAN : SetMark(answered)
    BY <2>2, <2>6, SetMarkStep, Zenon
  <2>7. CASE Query
    BY <2>2, <2>7, QueryStep, Zenon
  <2>8. CASE EndBatch \/ Crash
    BY <2>2, <2>8, GiveUpStep, Zenon
  <2>9. CASE Alarm \/ \E crop, wide \in Pictures : Skip(crop, wide)
    BY <2>2, <2>9, AdvanceStep, Zenon
  <2>10. CASE \E ok \in BOOLEAN : Insert(ok)
    BY <2>2, <2>10, InsertStep, Zenon
  <2> QED
    BY <2>3, <2>4, <2>5, <2>6, <2>7, <2>8, <2>9, <2>10, Zenon DEF Next, Poll
<1> QED
  BY <1>1, <1>2, PTL DEF Spec

(* Every variable has its type. *)
THEOREM TypeCorrect == Spec => []TypeOK
<1>1. PollerInv => TypeOK
  BY DEF PollerInv
<1> QED
  BY <1>1, PollerInvariant, PTL

(* A motion leads to one detection at most, whatever the mark, the limit   *)
(* and the restarts, and without failing statements to one alarm at most.  *)
THEOREM ClassifiedOnceHolds == Spec => []ClassifiedOnce
<1>1. PollerInv => ClassifiedOnce
  <2> SUFFICES ASSUME PollerInv, NEW m \in Instants
               PROVE  ours[m] <= 1 /\ (~faults => alarms[m] <= 1)
    BY DEF ClassifiedOnce
  <2>1. ours[m] <= 1 /\ ours[m] \in Nat /\ alarms[m] \in Nat
    BY DEF PollerInv, OursInv, TypeOK
  <2>2. ~faults => alarms[m] <= ours[m]
    BY DEF PollerInv, AlarmsInv
  <2> QED
    BY <2>1, <2>2
<1> QED
  BY <1>1, PollerInvariant, PTL

(* The mark passes no motion the last query matched that has not been      *)
(* looked at.                                                              *)
THEOREM PassedAreHandledHolds == Spec => []PassedAreHandled
<1>1. PollerInv => PassedAreHandled
  <2> SUFFICES ASSUME PollerInv, NEW m \in found, m <= hwm
               PROVE  m \in handled
    BY DEF PassedAreHandled
  <2>1. m \in Int /\ hwm \in Int
    BY DEF PollerInv, TypeOK, Instants
  <2>2. \A i \in DOMAIN batch : batch[i] # m
    <3>1. \A i \in DOMAIN batch : batch[i] > hwm
      BY DEF PollerInv, BatchInv
    <3> QED
      BY <2>1, <3>1
  <2> QED
    BY <2>1, <2>2 DEF PollerInv, FoundInv
<1> QED
  BY <1>1, PollerInvariant, PTL
=============================================================================
