---------------------------- MODULE ServicesProofs ---------------------------
(***************************************************************************)
(* Proofs about the side services, each for every value of its constants.  *)
(* A service's invariant is proved of the behaviours of MCServices: a step *)
(* is one of the service itself, or leaves all its variables alone.        *)
(***************************************************************************)
EXTENDS MCServices, FiniteSetTheorems, NaturalsInduction, SequenceTheorems, TLAPS

-----------------------------------------------------------------------------
(* UiPatch.  But for what `unlucky' records, the .bak is an unmodified file *)
(* and what a pass is about to back up is the file as it is.                *)
UiInv == ~uiUnlucky => /\ uiBak.done = 0
                       /\ uiPc = "backup" => uiHeld = uiLive

(* A step of the services is one of the patches or changes none of theirs. *)
LEMMA UiSteps == ASSUME [ServicesNext]_allVars PROVE Ui!Next \/ UNCHANGED uiVars
BY DEF ServicesNext, allVars, ListenerOnly, IdOnly, PidOnly, UiOnly, MsrbOnly,
       RecOnly, CamOnly, Only, uiVars

(* Every step of a pass, of the watcher and of the appliance keeps it. *)
LEMMA UiNext == ASSUME UiInv, Ui!Next PROVE UiInv'
<1> USE DEF UiInv, Ui!File, Ui!NoFile, Ui!Torn
<1>1. CASE Ui!ReadLive BY <1>1 DEF Ui!ReadLive, Ui!fileVars
<1>2. CASE Ui!Backup BY <1>2 DEF Ui!Backup, Ui!Original, Ui!heldVars
<1>3. CASE Ui!Write BY <1>3 DEF Ui!Write
<1>4. CASE Ui!LogProxy \/ Ui!AdminProxy
  BY <1>4 DEF Ui!LogProxy, Ui!AdminProxy, Ui!Inject, Ui!fileVars, Ui!heldVars
<1>5. CASE Ui!ReadEvents \/ Ui!Fire \/ Ui!AddWatches
  BY <1>5 DEF Ui!ReadEvents, Ui!Fire, Ui!AddWatches, Ui!fileVars, Ui!heldVars
<1>6. CASE Ui!Revert BY <1>6 DEF Ui!Revert
<1>7. CASE Ui!Unpack \/ Ui!Unmount \/ Ui!Mount
  <2>1. SUFFICES ASSUME ~uiUnlucky' PROVE UiInv'
    OBVIOUS
  <2>2. ~uiUnlucky /\ uiPc # "backup"
    BY <1>7, <2>1, Zenon DEF Ui!Unpack, Ui!Unmount, Ui!Mount, Ui!Blind
  <2> QED BY <1>7, <2>2 DEF Ui!Unpack, Ui!Unmount, Ui!Mount, Ui!Unaware
<1>8. CASE Ui!Checksums \/ Ui!Regenerate
  BY <1>8 DEF Ui!Checksums, Ui!Regenerate, Ui!Unaware, Ui!fileVars, Ui!heldVars
<1>9. ASSUME NEW upgraded, Ui!Start(upgraded) PROVE UiInv'
  BY <1>9 DEF Ui!Start, Ui!fileVars
<1>10. ASSUME NEW torn \in BOOLEAN, Ui!Stop(torn) PROVE UiInv'
  BY <1>10 DEF Ui!Stop
<1> QED
  BY <1>1, <1>2, <1>3, <1>4, <1>5, <1>6, <1>7, <1>8, <1>9, <1>10
  DEF Ui!Next, Ui!Recorder, Ui!Pass, Ui!Appliance

(* "we would be backing up a modified file" (protect_ui_patch.cpp:192-193): *)
(* over any number of releases, upgrades, stops and reverts, the .bak is an *)
(* unmodified file, but for the two accidents that `unlucky' names.         *)
THEOREM BackupIsOriginalHolds == ServicesSpec => []BackupIsOriginal
<1>1. ServicesInit => UiInv
  BY DEF ServicesInit, Ui!Init, UiInv, Ui!NoFile, Ui!File
<1>2. UiInv /\ [ServicesNext]_allVars => UiInv'
  <2>1. SUFFICES ASSUME UiInv, UNCHANGED uiVars PROVE UiInv'
    BY UiSteps, UiNext
  <2> QED BY <2>1 DEF UiInv, uiVars
<1>3. UiInv => BackupIsOriginal
  BY DEF UiInv, BackupIsOriginal, Ui!BackupIsOriginal
<1> QED BY <1>1, <1>2, <1>3, PTL DEF ServicesSpec
-----------------------------------------------------------------------------
(* PidWatcher.  The process the watcher waits for has been up at least as   *)
(* long as the watcher has seen it: none starts with the number of one it   *)
(* waited for earlier.                                                      *)
PidInv == /\ pidNewest \in Nat /\ pidPid \in 0 .. pidNewest
          /\ pidPending \in 0 .. pidNewest
          /\ pidUp \in 0 .. Settle /\ pidSeen \in 0 .. Settle
          /\ pidPending # 0 /\ pidPid = pidPending => pidUp >= pidSeen

(* A step of the services is one of the watcher or changes nothing of it. *)
LEMMA PidSteps == ASSUME [ServicesNext]_allVars PROVE Pid!Next \/ UNCHANGED pidVars
BY DEF ServicesNext, allVars, ListenerOnly, IdOnly, PidOnly, UiOnly, MsrbOnly,
       RecOnly, CamOnly, Only, pidVars

(* An age grows by one until it is Settle. *)
LEMMA OlderIs ==
  ASSUME NEW age \in 0 .. Settle
  PROVE Pid!Older(age) = IF age < Settle THEN age + 1 ELSE Settle
<1>1. Settle \in Nat
  BY ServicesAssumption
<1>2. \E m \in {age + 1, Settle} : \A y \in {age + 1, Settle} : m <= y
  BY <1>1
<1>3. /\ Pid!Older(age) \in {age + 1, Settle}
      /\ \A y \in {age + 1, Settle} : Pid!Older(age) <= y
  BY <1>2 DEF Pid!Older, Pid!Min
<1> QED BY <1>1, <1>3

(* The watcher, Protect and time keep it. *)
LEMMA PidNext == ASSUME PidInv, Pid!Next PROVE PidInv'
<1>1. Settle \in Nat
  BY ServicesAssumption
<1>2. ASSUME NEW told \in BOOLEAN, Pid!Start(told) PROVE PidInv'
  BY <1>1, <1>2 DEF PidInv, Pid!Start, Pid!protectVars
<1>3. ASSUME NEW p, Pid!Poll(p) PROVE PidInv'
  BY <1>1, <1>3
  DEF PidInv, Pid!Poll, Pid!NotRunning, Pid!LateBound, Pid!NoRestart, Pid!Another,
      Pid!Settling, Pid!Trigger, Pid!protectVars
<1>4. CASE Pid!Exit \/ Pid!ProtectStarts \/ Pid!ProtectStops
  BY <1>1, <1>4
  DEF PidInv, Pid!Exit, Pid!ProtectStarts, Pid!ProtectStops, Pid!protectVars,
      Pid!watcherVars
<1>5. CASE Pid!Tick
  <2>1. /\ pidUp' = pidUp \/ pidUp' = Pid!Older(pidUp)
        /\ pidPid # 0 => pidUp' = Pid!Older(pidUp)
        /\ pidSeen' = pidSeen \/ pidSeen' = Pid!Older(pidSeen)
        /\ pidPid' = pidPid /\ pidNewest' = pidNewest /\ pidPending' = pidPending
    BY <1>5 DEF Pid!Tick
  <2> QED BY <1>1, <2>1, OlderIs DEF PidInv
<1> QED BY <1>2, <1>3, <1>4, <1>5 DEF Pid!Next

(* "we only restart once Protect's new PID has stayed alive long enough     *)
(* that the flip will actually survive" (protect_pid_watcher.hpp:46-47),    *)
(* for any settle time and however often Protect starts.                    *)
THEOREM OnlyOnceSettledHolds == ServicesSpec => OnlyOnceSettled
<1>1. ServicesInit => PidInv
  <2>1. ServicesInit => Pid!Init
    BY DEF ServicesInit
  <2> QED BY <2>1, ServicesAssumption DEF Pid!Init, PidInv
<1>2. PidInv /\ [ServicesNext]_allVars => PidInv'
  <2>1. SUFFICES ASSUME PidInv, UNCHANGED pidVars PROVE PidInv'
    BY PidSteps, PidNext
  <2> QED BY <2>1 DEF PidInv, pidVars
<1>3. PidInv /\ [ServicesNext]_allVars
      => [pidTriggered' /\ ~pidTriggered => pidPid # 0 /\ pidUp = Settle]_(Pid!vars)
  <2>1. SUFFICES ASSUME PidInv, Pid!Next, pidTriggered', ~pidTriggered
                 PROVE pidPid # 0 /\ pidUp = Settle
    BY PidSteps DEF pidVars, Pid!vars, Pid!protectVars, Pid!watcherVars
  <2>2. ~\E told \in BOOLEAN : Pid!Start(told)
    BY <2>1 DEF Pid!Start
  <2>3. PICK p \in Pid!Pids \cup {0} : Pid!Poll(p)
    BY <2>1, <2>2
    DEF Pid!Next, Pid!Exit, Pid!ProtectStarts, Pid!ProtectStops, Pid!Tick, Pid!watcherVars
  <2>4. Pid!Trigger(p)
    BY <2>1, <2>3
    DEF Pid!Poll, Pid!NotRunning, Pid!LateBound, Pid!NoRestart, Pid!Another, Pid!Settling
  <2> QED BY <2>1, <2>3, <2>4, ServicesAssumption DEF PidInv, Pid!Poll, Pid!Trigger
<1> QED
  BY <1>1, <1>2, <1>3, PTL DEF ServicesSpec, OnlyOnceSettled, Pid!OnlyOnceSettled
-----------------------------------------------------------------------------
(* MsrBackfill.  Of each event, in the open transaction or committed: MSR   *)
(* has the picture before an id is changed to it, and the row is deleted    *)
(* after both ids were.  A transaction that a failed ROLLBACK leaves open   *)
(* goes on with the next event, so the second is stated of each part.       *)
Ids(e) == {<<"events", e>>, <<"objects", e>>}

MsrbInv ==
  /\ bfPresent \subseteq Old
  /\ bfOpen = "auto" => bfOwn = {}
  /\ \A e \in Old :
       /\ Ids(e) \cap (bfMoved \cup bfOwn) # {} => e \in bfStored
       /\ <<"thumbnails", e>> \in bfMoved => Ids(e) \subseteq bfMoved
       /\ <<"thumbnails", e>> \in bfOwn => Ids(e) \subseteq bfMoved \cup bfOwn
  /\ bfPc \in {"begin", "events", "objects", "delete"} => Msrb!Current \in bfStored
  /\ bfPc \in {"objects", "delete"} => <<"events", Msrb!Current>> \in bfMoved \cup bfOwn
  /\ bfPc = "delete" => <<"objects", Msrb!Current>> \in bfMoved \cup bfOwn

(* A step of the services is one of the backfill or changes nothing of it. *)
LEMMA MsrbSteps == ASSUME [ServicesNext]_allVars PROVE Msrb!Next \/ UNCHANGED bfVars
BY DEF ServicesNext, allVars, ListenerOnly, IdOnly, PidOnly, UiOnly, MsrbOnly,
       RecOnly, CamOnly, Only, bfVars

(* While todo stays as it is, so does the event at hand. *)
LEMMA SameCurrent == ASSUME bfTodo' = bfTodo PROVE Msrb!Current' = Msrb!Current
BY DEF Msrb!Current

(* What a statement adds, if it takes effect, is its table's part of the    *)
(* event at hand, in the transaction or, without one, at once.              *)
LEMMA Changed ==
  ASSUME MsrbInv, NEW table, NEW res, Msrb!Change(table, res)
  PROVE /\ bfPresent' = bfPresent
        /\ bfOpen' = "auto" => bfOwn' = {}
        /\ \/ bfMoved' = bfMoved /\ bfOwn' \in {{}, bfOwn} /\ res # "ok"
           \/ /\ bfMoved' = bfMoved \cup {<<table, Msrb!Current>>}
              /\ bfOwn' = {} /\ bfOwn = {}
           \/ bfMoved' = bfMoved /\ bfOwn' = bfOwn \cup {<<table, Msrb!Current>>}
BY DEF MsrbInv, Msrb!Change, Msrb!Possible

(* The three statements about the event at hand keep it. *)
LEMMA MsrbUpdate ==
  ASSUME MsrbInv, NEW res,
         \/ Msrb!Update("events", "events", "objects", res)
         \/ Msrb!Update("objects", "objects", "delete", res)
         \/ Msrb!Update("thumbnails", "delete", "commit", res)
  PROVE MsrbInv'
<1> USE DEF MsrbInv, Ids
<1>1. Msrb!Current' = Msrb!Current /\ bfStored' = bfStored
  BY SameCurrent DEF Msrb!Update
<1> HIDE DEF MsrbInv
<1>2. CASE Msrb!Update("events", "events", "objects", res)
  <2>1. Msrb!Change("events", res) /\ bfPc = "events"
        /\ bfPc' = IF res = "ok" THEN "objects" ELSE "rollback"
    BY <1>2 DEF Msrb!Update, Msrb!Goto
  <2> QED BY <1>1, <2>1, Changed DEF MsrbInv
<1>3. CASE Msrb!Update("objects", "objects", "delete", res)
  <2>1. Msrb!Change("objects", res) /\ bfPc = "objects"
        /\ bfPc' = IF res = "ok" THEN "delete" ELSE "rollback"
    BY <1>3 DEF Msrb!Update, Msrb!Goto
  <2> QED BY <1>1, <2>1, Changed DEF MsrbInv
<1>4. CASE Msrb!Update("thumbnails", "delete", "commit", res)
  <2>1. Msrb!Change("thumbnails", res) /\ bfPc = "delete"
        /\ bfPc' = IF res = "ok" THEN "commit" ELSE "rollback"
    BY <1>4 DEF Msrb!Update, Msrb!Goto
  <2> QED BY <1>1, <2>1, Changed DEF MsrbInv
<1> QED BY <1>2, <1>3, <1>4

(* So does the end of a transaction, whatever becomes of it. *)
LEMMA MsrbClose ==
  ASSUME MsrbInv, NEW undone \in BOOLEAN, NEW res, Msrb!Close(undone, res),
         bfStored' = bfStored, bfPc' \in {"fetch", "rollback"}
  PROVE MsrbInv'
<1>1. /\ bfPresent' = bfPresent
      /\ bfMoved' = bfMoved \/ bfMoved' = bfMoved \cup bfOwn
      /\ \/ bfOpen' = bfOpen /\ bfOwn' = bfOwn
         \/ bfOwn' = {}
  BY DEF Msrb!Close, Msrb!CommitOwn
<1> QED BY <1>1 DEF MsrbInv, Ids

(* Every step of the backfill and of coalesce_history keeps it. *)
LEMMA MsrbNext == ASSUME MsrbInv, Msrb!Next PROVE MsrbInv'
<1> USE DEF MsrbInv, Ids
<1>1. CASE Msrb!Start \/ Msrb!Finish \/ Msrb!NoPicture \/ Msrb!StoreFails \/ Msrb!Crash
  BY <1>1
  DEF Msrb!Start, Msrb!Finish, Msrb!NoPicture, Msrb!StoreFails, Msrb!Crash, Msrb!dbVars
<1>2. CASE Msrb!Store
  BY <1>2, SameCurrent DEF Msrb!Store, Msrb!Goto, Msrb!dbVars
<1>3. ASSUME NEW res \in Msrb!Results, Msrb!Statement(res) PROVE MsrbInv'
  <2>1. CASE Msrb!FetchFails(res)
    BY <2>1 DEF Msrb!FetchFails
  <2>2. CASE Msrb!Begin(res)
    BY <2>2, SameCurrent DEF Msrb!Begin, Msrb!Goto
  <2> HIDE DEF MsrbInv
  <2>3. CASE Msrb!Commit(res)
    BY <2>3, MsrbClose DEF Msrb!Commit
  <2>4. CASE Msrb!Rollback(res)
    BY <2>4, MsrbClose DEF Msrb!Rollback, Msrb!Goto
  <2> QED BY <1>3, <2>1, <2>2, <2>3, <2>4, MsrbUpdate DEF Msrb!Statement
<1>4. ASSUME NEW e \in Old, Msrb!Coalesce(e) PROVE MsrbInv'
  BY <1>4, SameCurrent DEF Msrb!Coalesce
<1> QED BY <1>1, <1>2, <1>3, <1>4 DEF Msrb!Next

(* "atomically updates events.thumbnailId + smartDetectObjects.thumbnailId, *)
(* then deletes the old thumbnails row in a single transaction"             *)
(* (msr_backfill.hpp:43-47): for any events, any number of runs and of      *)
(* failing statements, no id is left that neither table nor MSR knows.      *)
THEOREM ResolvesHolds == ServicesSpec => []Resolves
<1>1. ServicesInit => MsrbInv
  BY DEF ServicesInit, Msrb!Init, MsrbInv, Ids
<1>2. MsrbInv /\ [ServicesNext]_allVars => MsrbInv'
  <2>1. SUFFICES ASSUME MsrbInv, UNCHANGED bfVars PROVE MsrbInv'
    BY MsrbSteps, MsrbNext
  <2>2. Msrb!Current' = Msrb!Current
    BY <2>1, SameCurrent DEF bfVars
  <2> QED BY <2>1, <2>2 DEF MsrbInv, Ids, bfVars
<1>3. MsrbInv => Resolves
  <2>1. SUFFICES ASSUME MsrbInv, NEW e \in bfPresent \cap bfPictures
                 PROVE /\ Ids(e) \cap bfMoved # {} => e \in bfStored
                       /\ <<"thumbnails", e>> \in bfMoved => Ids(e) \subseteq bfMoved
    BY DEF Resolves, Msrb!Resolves, Ids
  <2> QED BY <2>1 DEF MsrbInv, Ids
<1> QED BY <1>1, <1>2, <1>3, PTL DEF ServicesSpec
-----------------------------------------------------------------------------
(* CameraConfig.  A column that holds a value of the recorder has been      *)
(* recorded, or its change is lost, or it is just about to be recorded; and *)
(* the first value recorded of a column is none of the recorder's.          *)
IsOf(i, cc) == camLog[i][1] = cc[1] /\ camLog[i][2] = cc[2]

Known(cc) == cc \in camLost \/ \E i \in DOMAIN camLog : IsOf(i, cc)

FirstOf(i, cc) == IsOf(i, cc) /\ \A j \in 1 .. i - 1 : ~IsOf(j, cc)

Cells == Cam!AllCameras \X Cam!Columns
InHand == <<Cam!Camera, Cam!Column>>

CamInv ==
  /\ DOMAIN camValue = Cells
  /\ camLog \in Seq(Range(camLog))
  /\ \A cc \in Cells \ camLost : \A i \in DOMAIN camLog :
       FirstOf(i, cc) => camLog[i][3] \notin Cam!Ours
  /\ \A cc \in Cells :
       camValue[cc] \in Cam!Ours => Known(cc) \/ (camPc = "record" /\ cc = InHand)
  /\ camPc = "record" => Cam!Column # "audio"
  /\ camPc \in {"update", "record"} /\ InHand \in Cells /\ Cam!Column # "audio"
       => camOld \notin Cam!Ours \/ Known(InHand)
  /\ camPc = "update" /\ Cam!Column = "audio"
       => \A c \in Third : Known(<<c, "audio">>)
(* A step of the services is one of CameraConfig or changes nothing of it. *)
LEMMA CamSteps == ASSUME [ServicesNext]_allVars PROVE Cam!Next \/ UNCHANGED camVars
BY DEF ServicesNext, allVars, ListenerOnly, IdOnly, PidOnly, UiOnly, MsrbOnly,
       RecOnly, CamOnly, Only, camVars

(* The job at hand is that of the jobs left. *)
LEMMA SameInHand ==
  ASSUME camTodo' = camTodo PROVE InHand' = InHand /\ Cam!Column' = Cam!Column
BY DEF InHand, Cam!Camera, Cam!Column, Cam!Job

(* What is known stays known while nothing is taken out of the log. *)
LEMMA StaysKnown ==
  ASSUME camLog' = camLog, camLost \subseteq camLost'
  PROVE  /\ \A cc : Known(cc) => Known(cc)'
         /\ \A cc, i : FirstOf(i, cc)' <=> FirstOf(i, cc)
BY DEF Known, FirstOf, IsOf

(* A step that ends what was at hand, and adds no value of the recorder     *)
(* that it does not count as lost, keeps it.                                *)
LEMMA CamDone ==
  ASSUME CamInv, camLog' = camLog, camLost \subseteq camLost',
         DOMAIN camValue' = Cells, camPc' \notin {"update", "record"},
         camPc = "record" => InHand \in camLost',
         \A cc \in Cells \ camLost' :
           camValue'[cc] \in Cam!Ours => camValue[cc] \in Cam!Ours \/ Known(cc)
  PROVE  CamInv'
<1>1. /\ \A cc : Known(cc) => Known(cc)'
      /\ \A cc, i : FirstOf(i, cc)' <=> FirstOf(i, cc)
  BY StaysKnown
<1>2. \A cc \in camLost' : Known(cc)'
  BY DEF Known
<1> QED BY <1>1, <1>2 DEF CamInv, Cells, Cam!AllCameras, Cam!Columns, Cam!Ours

(* So does one that leaves what is at hand as it was. *)
LEMMA CamAround ==
  ASSUME CamInv, UNCHANGED <<camLog, camLost, camPc, camTodo, camOld>>,
         DOMAIN camValue' = Cells,
         \A cc \in Cells :
           camValue'[cc] \in Cam!Ours => camValue[cc] \in Cam!Ours \/ Known(cc)
  PROVE  CamInv'
<1>1. /\ \A cc : Known(cc) => Known(cc)'
      /\ \A cc, i : FirstOf(i, cc)' <=> FirstOf(i, cc)
  BY StaysKnown
<1>2. InHand' = InHand /\ Cam!Column' = Cam!Column
  BY SameInHand
<1> QED BY <1>1, <1>2 DEF CamInv, Cells, Cam!AllCameras, Cam!Columns, Cam!Ours

(* Entries are added behind those of the log; the first one of a column     *)
(* that has none yet becomes its first.                                     *)
LEMMA LogGrows ==
  ASSUME camLog \in Seq(Range(camLog)), NEW s, s \in Seq(Range(s)),
         camLog' = camLog \o s, camLost \subseteq camLost'
  PROVE  /\ camLog' \in Seq(Range(camLog'))
         /\ Len(camLog) \in Nat /\ Len(s) \in Nat
         /\ DOMAIN camLog = 1 .. Len(camLog)
         /\ DOMAIN camLog' = 1 .. Len(camLog) + Len(s)
         /\ \A i \in 1 .. Len(s) : camLog'[Len(camLog) + i] = s[i]
         /\ \A cc : Known(cc) => Known(cc)'
         /\ \A cc : \A i \in DOMAIN camLog' : FirstOf(i, cc)' =>
              IF i \in DOMAIN camLog THEN FirstOf(i, cc) /\ camLog'[i] = camLog[i]
                                     ELSE \A j \in DOMAIN camLog : ~IsOf(j, cc)
<1> DEFINE All == Range(camLog) \cup Range(s)
<1>1. camLog \in Seq(All) /\ s \in Seq(All)
  BY SeqMonotonic, Range(camLog) \subseteq All, Range(s) \subseteq All
<1> HIDE DEF All
<1>2. /\ camLog' \in Seq(All)
      /\ Len(camLog') = Len(camLog) + Len(s)
      /\ \A i \in 1 .. Len(camLog) + Len(s) :
           camLog'[i] = IF i <= Len(camLog) THEN camLog[i] ELSE s[i - Len(camLog)]
  BY <1>1, ConcatProperties
<1>3. /\ Len(camLog) \in Nat /\ Len(s) \in Nat
      /\ DOMAIN camLog = 1 .. Len(camLog)
      /\ DOMAIN camLog' = 1 .. Len(camLog) + Len(s)
  BY <1>1, <1>2, LenProperties
<1>4. camLog' \in Seq(Range(camLog'))
  BY <1>2, SeqOfRange
<1>5. \A i \in DOMAIN camLog : camLog'[i] = camLog[i]
  BY <1>2, <1>3
<1>6. \A cc : \A i \in DOMAIN camLog : IsOf(i, cc)' <=> IsOf(i, cc)
  BY <1>5 DEF IsOf
<1>7. \A cc : Known(cc) => Known(cc)'
  BY <1>3, <1>6 DEF Known
<1>8. ASSUME NEW cc, NEW i \in DOMAIN camLog', FirstOf(i, cc)'
      PROVE  IF i \in DOMAIN camLog THEN FirstOf(i, cc) /\ camLog'[i] = camLog[i]
                                    ELSE \A j \in DOMAIN camLog : ~IsOf(j, cc)
  <2>1. IsOf(i, cc)' /\ \A j \in 1 .. i - 1 : ~IsOf(j, cc)'
    BY <1>8 DEF FirstOf
  <2>2. \A j \in 1 .. i - 1 : j \in DOMAIN camLog => ~IsOf(j, cc)
    BY <2>1, <1>6
  <2>3. CASE i \in DOMAIN camLog
    <3>1. 1 .. i - 1 \subseteq DOMAIN camLog
      BY <1>3, <2>3
    <3>2. IsOf(i, cc)
      BY <2>1, <2>3, <1>6
    <3> QED BY <1>5, <2>2, <2>3, <3>1, <3>2 DEF FirstOf
  <2>4. CASE i \notin DOMAIN camLog
    <3>1. DOMAIN camLog \subseteq 1 .. i - 1
      BY <1>3, <2>4
    <3> QED BY <2>2, <2>4, <3>1
  <2> QED BY <2>3, <2>4
<1>9. \A i \in 1 .. Len(s) : camLog'[Len(camLog) + i] = s[i]
  BY <1>2, <1>3
<1> QED BY <1>3, <1>4, <1>7, <1>8, <1>9
(* One entry is appended by Record: that of the job at hand. *)
LEMMA CamRecord == ASSUME CamInv, Cam!Record PROVE CamInv'
<1> DEFINE x == <<Cam!Camera, Cam!Column, camOld>>
           entries == <<x>>
<1>1. /\ camLog' = Append(camLog, x) /\ camLost' = camLost /\ camValue' = camValue
      /\ camPc = "record" /\ camPc' \notin {"update", "record"}
  BY DEF Cam!Record, Cam!Done
<1>2. /\ entries \in Seq(Range(entries)) /\ Len(entries) = 1 /\ entries[1] = x
      /\ camLog \o entries = Append(camLog, x)
  <2>1. <<x>> \in Seq({x}) /\ Len(<<x>>) = 1 /\ <<x>>[1] = x
    OBVIOUS
  <2>2. <<x>> \in Seq(Range(<<x>>))
    BY <2>1, SeqOfRange
  <2>3. camLog \in Seq(Range(camLog) \cup {x}) /\ x \in Range(camLog) \cup {x}
    BY SeqMonotonic DEF CamInv
  <2> QED BY <2>1, <2>2, <2>3, AppendIsConcat
<1> HIDE DEF x, entries
<1>3. /\ camLog' \in Seq(Range(camLog')) /\ Len(camLog) \in Nat
      /\ DOMAIN camLog = 1 .. Len(camLog) /\ DOMAIN camLog' = 1 .. Len(camLog) + 1
      /\ camLog'[Len(camLog) + 1] = x
      /\ \A cc : Known(cc) => Known(cc)'
      /\ \A cc : \A i \in DOMAIN camLog' : FirstOf(i, cc)' =>
           IF i \in DOMAIN camLog THEN FirstOf(i, cc) /\ camLog'[i] = camLog[i]
                                  ELSE \A j \in DOMAIN camLog : ~IsOf(j, cc)
  <2>1. camLog \in Seq(Range(camLog)) /\ camLog' = camLog \o entries /\ camLost \subseteq camLost'
    BY <1>1, <1>2 DEF CamInv
  <2>2. /\ Len(camLog) \in Nat /\ Len(entries) \in Nat
        /\ DOMAIN camLog' = 1 .. Len(camLog) + Len(entries)
        /\ \A i \in 1 .. Len(entries) : camLog'[Len(camLog) + i] = entries[i]
    BY <1>2, <2>1, LogGrows
  <2> QED BY <1>2, <2>1, <2>2, LogGrows
<1>4. x[1] = Cam!Camera /\ x[2] = Cam!Column /\ x[3] = camOld
  BY DEF x
<1>5. ASSUME NEW cc \in Cells \ camLost, NEW i \in DOMAIN camLog', FirstOf(i, cc)'
      PROVE  camLog'[i][3] \notin Cam!Ours
  <2>1. CASE i \in DOMAIN camLog
    BY <1>3, <1>5, <2>1 DEF CamInv
  <2>2. CASE i \notin DOMAIN camLog
    <3>1. i = Len(camLog) + 1 /\ camLog'[i] = x
      BY <1>3, <2>2
    <3>2. cc = InHand
      <4>1. cc[1] = Cam!Camera /\ cc[2] = Cam!Column
        BY <1>4, <1>5, <3>1 DEF FirstOf, IsOf
      <4> QED BY <4>1 DEF InHand, Cells
    <3>3. ~Known(InHand)
      BY <1>3, <1>5, <2>2, <3>2 DEF Known
    <3> QED BY <1>1, <1>4, <3>1, <3>2, <3>3 DEF CamInv
  <2> QED BY <2>1, <2>2
<1>6. \A cc : cc = InHand => Known(cc)'
  <2>1. camLog'[Len(camLog) + 1][1] = InHand[1] /\ camLog'[Len(camLog) + 1][2] = InHand[2]
    BY <1>3, <1>4 DEF InHand
  <2> QED BY <1>3, <2>1 DEF Known, IsOf
<1>7. Cells' = Cells /\ Cam!Ours' = Cam!Ours
  BY DEF Cells, Cam!AllCameras, Cam!Columns, Cam!Ours
<1>8. \A cc \in Cells : camValue'[cc] \in Cam!Ours => Known(cc)'
  BY <1>1, <1>3, <1>6, <1>7 DEF CamInv
<1> QED BY <1>1, <1>3, <1>5, <1>7, <1>8 DEF CamInv
(* A query returns each third-party camera, in any order. *)
LEMMA OrderIsAll ==
  ASSUME NEW order \in Cam!AnyOrder(Third)
  PROVE  /\ Cardinality(Third) \in Nat /\ DOMAIN order = 1 .. Cardinality(Third)
         /\ \A c \in Third : \E i \in DOMAIN order : order[i] = c
<1>1. IsFiniteSet(Third) /\ Cardinality(Third) \in Nat
  BY ServicesAssumption, FS_Subset, FS_CardinalityType
<1>2. /\ order \in [1 .. Cardinality(Third) -> Third]
      /\ \A i, j \in 1 .. Cardinality(Third) : i # j => order[i] # order[j]
  <2>1. Cam!Cardinality(Third) = Cardinality(Third)
    BY DEF Cam!Cardinality, Cardinality
  <2> QED BY <2>1 DEF Cam!AnyOrder, Cam!SetToSeqs
<1>3. SUFFICES ASSUME NEW c \in Third, \A i \in DOMAIN order : order[i] # c PROVE FALSE
  BY <1>1, <1>2
<1>4. /\ IsFiniteSet(1 .. Cardinality(Third))
      /\ Cardinality(1 .. Cardinality(Third)) = Cardinality(Third)
  BY <1>1, FS_Interval
<1>5. IsFiniteSet(Third \ {c}) /\ Cardinality(Third \ {c}) = Cardinality(Third) - 1
  BY <1>1, FS_RemoveElement
<1>6. order \in [1 .. Cardinality(Third) -> Third \ {c}]
  BY <1>2, <1>3
<1>7. \E i, j \in 1 .. Cardinality(Third) : i # j /\ order[i] = order[j]
  BY <1>1, <1>4, <1>5, <1>6, FS_PigeonHole
<1> QED BY <1>2, <1>7

(* set_rtsp_audio's SELECT: every third-party camera is recorded, or lost. *)
LEMMA CamRecordAudio ==
  ASSUME CamInv, NEW ok \in BOOLEAN, Cam!RecordAudio(ok) PROVE CamInv'
<1>1. /\ camPc = "select" /\ camPc' = "update" /\ Cam!Column = "audio"
      /\ Cam!Column' = "audio" /\ camValue' = camValue
      /\ camLost' = IF ok THEN camLost ELSE camLost \cup (Third \X {"audio"})
  BY SameInHand DEF Cam!RecordAudio, Cam!Goto
<1>2. Cells' = Cells /\ Cam!Ours' = Cam!Ours
  BY DEF Cells, Cam!AllCameras, Cam!Columns, Cam!Ours
<1>3. CASE ~ok
  <2>1. camLog' = camLog
    BY <1>3 DEF Cam!RecordAudio
  <2>2. /\ \A cc : Known(cc) => Known(cc)'
        /\ \A cc, i : FirstOf(i, cc)' <=> FirstOf(i, cc)
    BY <1>1, <2>1, StaysKnown
  <2>3. \A c \in Third : Known(<<c, "audio">>)'
    BY <1>1, <1>3 DEF Known
  <2>4. \A cc \in Cells : camValue'[cc] \in Cam!Ours => Known(cc)'
    BY <1>1, <2>2 DEF CamInv
  <2> QED BY <1>1, <1>2, <2>1, <2>2, <2>3, <2>4 DEF CamInv
<1>4. CASE ok
  <2>1. PICK order \in Cam!AnyOrder(Third) :
          camLog' = camLog \o [i \in DOMAIN order |-> <<order[i], "audio", camValue[<<order[i], "audio">>]>>]
    BY <1>4 DEF Cam!RecordAudio
  <2> DEFINE n == Cardinality(Third)
             entries == [i \in DOMAIN order |-> <<order[i], "audio", camValue[<<order[i], "audio">>]>>]
  <2>2. /\ n \in Nat /\ DOMAIN order = 1 .. n
        /\ \A c \in Third : \E i \in 1 .. n : order[i] = c
    BY OrderIsAll
  <2>3. \A i \in 1 .. n : /\ entries[i][1] = order[i] /\ entries[i][2] = "audio"
                          /\ entries[i][3] = camValue[<<order[i], "audio">>]
    BY <2>2
  <2>4. entries \in Seq(Range(entries)) /\ Len(entries) = n
    <3>1. entries \in [1 .. n -> Range(entries)]
      BY <2>2 DEF Range
    <3> HIDE DEF entries, n
    <3>2. entries \in Seq(Range(entries))
      BY <2>2, <3>1, SeqDef
    <3> QED BY <2>2, <3>1, <3>2, LenProperties
  <2>5. camLog \in Seq(Range(camLog)) /\ camLog' = camLog \o entries /\ camLost' = camLost
    BY <1>1, <1>4, <2>1 DEF CamInv
  <2> HIDE DEF entries, n
  <2>6. /\ camLog' \in Seq(Range(camLog')) /\ Len(camLog) \in Nat
        /\ DOMAIN camLog = 1 .. Len(camLog) /\ DOMAIN camLog' = 1 .. Len(camLog) + n
        /\ \A i \in 1 .. n : camLog'[Len(camLog) + i] = entries[i]
        /\ \A cc : Known(cc) => Known(cc)'
    BY <2>4, <2>5, LogGrows
  <2>7. \A cc : \A i \in DOMAIN camLog' : FirstOf(i, cc)' =>
          IF i \in DOMAIN camLog THEN FirstOf(i, cc) /\ camLog'[i] = camLog[i]
                                 ELSE \A j \in DOMAIN camLog : ~IsOf(j, cc)
    BY <2>4, <2>5, LogGrows
  <2>8. ASSUME NEW cc \in Cells \ camLost, NEW i \in DOMAIN camLog', FirstOf(i, cc)'
        PROVE  camLog'[i][3] \notin Cam!Ours
    <3>1. CASE i \in DOMAIN camLog
      BY <2>5, <2>7, <2>8, <3>1 DEF CamInv
    <3>2. CASE i \notin DOMAIN camLog
      <4>1. PICK k \in 1 .. n : i = Len(camLog) + k
        <5>1. i - Len(camLog) \in 1 .. n /\ i = Len(camLog) + (i - Len(camLog))
          BY <2>2, <2>6, <3>2
        <5> QED BY <5>1
      <4>2. camLog'[i] = entries[k]
        BY <2>6, <4>1
      <4>3. cc = <<order[k], "audio">>
        <5>1. cc[1] = order[k] /\ cc[2] = "audio"
          BY <2>3, <2>8, <4>2 DEF FirstOf, IsOf
        <5> QED BY <5>1 DEF Cells
      <4>4. ~Known(cc)
        BY <2>7, <2>8, <3>2 DEF Known
      <4> QED BY <1>1, <2>3, <4>2, <4>3, <4>4 DEF CamInv
    <3> QED BY <3>1, <3>2
  <2>9. \A c \in Third : Known(<<c, "audio">>)'
    <3>1. SUFFICES ASSUME NEW c \in Third PROVE Known(<<c, "audio">>)'
      OBVIOUS
    <3>2. PICK i \in 1 .. n : order[i] = c
      BY <2>2
    <3>3. /\ Len(camLog) + i \in DOMAIN camLog'
          /\ camLog'[Len(camLog) + i][1] = c /\ camLog'[Len(camLog) + i][2] = "audio"
      <4>1. Len(camLog) + i \in DOMAIN camLog' /\ camLog'[Len(camLog) + i] = entries[i]
        BY <2>2, <2>6, <3>2
      <4> QED BY <2>3, <3>2, <4>1
    <3> QED BY <3>3 DEF Known, IsOf
  <2>10. \A cc \in Cells : camValue'[cc] \in Cam!Ours => Known(cc)'
    BY <1>1, <2>6 DEF CamInv
  <2> QED BY <1>1, <1>2, <2>5, <2>6, <2>8, <2>9, <2>10 DEF CamInv
<1> QED BY <1>3, <1>4
(* The steps that write no log entry. *)
LEMMA CamSelect == ASSUME CamInv, Cam!Select PROVE CamInv'
<1>1. /\ camLog' = camLog /\ camLost' = camLost /\ camValue' = camValue
      /\ camPc = "select" /\ camPc' = "update" /\ camTodo' = camTodo
      /\ Cam!Column # "audio" /\ camOld' = camValue[InHand]
  BY DEF Cam!Select, Cam!Goto, Cam!logVars, InHand
<1>2. /\ \A cc : Known(cc) => Known(cc)'
      /\ \A cc, i : FirstOf(i, cc)' <=> FirstOf(i, cc)
  BY <1>1, StaysKnown
<1>3. InHand' = InHand /\ Cam!Column' = Cam!Column
  BY <1>1, SameInHand
<1>4. Cells' = Cells /\ Cam!Ours' = Cam!Ours
  BY DEF Cells, Cam!AllCameras, Cam!Columns, Cam!Ours
<1> QED BY <1>1, <1>2, <1>3, <1>4 DEF CamInv

(* A failed SELECT: the column is left alone, or changed without a record. *)
LEMMA CamSelectFails == ASSUME CamInv, Cam!SelectFails PROVE CamInv'
<1>1. /\ camLog' = camLog /\ camLost \subseteq camLost'
      /\ camPc = "select" /\ camPc' \notin {"update", "record"}
      /\ \/ camValue' = camValue
         \/ /\ InHand \in camLost'
            /\ camValue' = [camValue EXCEPT ![InHand] = camRelease]
  BY DEF Cam!SelectFails, Cam!Set, Cam!Done, InHand
<1> QED BY <1>1, CamDone DEF CamInv

(* The UPDATE of a column other than audio, whose record is still to come. *)
LEMMA CamUpdate == ASSUME CamInv, Cam!Update PROVE CamInv'
<1>1. /\ camLog' = camLog /\ camLost' = camLost /\ camOld' = camOld
      /\ camPc = "update" /\ Cam!Column # "audio"
  BY DEF Cam!Update, Cam!logVars
<1>2. CASE Cam!Needed(Cam!Column, camValue[<<Cam!Camera, Cam!Column>>])
  <2>1. /\ camPc' = "record" /\ camTodo' = camTodo
        /\ camValue' = [camValue EXCEPT ![InHand] = Cam!Wanted(Cam!Column)]
    BY <1>2 DEF Cam!Update, Cam!Set, InHand
  <2>2. /\ \A cc : Known(cc) => Known(cc)'
        /\ \A cc, i : FirstOf(i, cc)' <=> FirstOf(i, cc)
    BY <1>1, StaysKnown
  <2>3. InHand' = InHand /\ Cam!Column' = Cam!Column
    BY <2>1, SameInHand
  <2>4. Cells' = Cells /\ Cam!Ours' = Cam!Ours
    BY DEF Cells, Cam!AllCameras, Cam!Columns, Cam!Ours
  <2>5. /\ DOMAIN camValue' = Cells
        /\ \A cc \in Cells : cc # InHand => camValue'[cc] = camValue[cc]
    BY <2>1 DEF CamInv
  <2> QED BY <1>1, <2>1, <2>2, <2>3, <2>4, <2>5 DEF CamInv
<1>3. CASE ~Cam!Needed(Cam!Column, camValue[<<Cam!Camera, Cam!Column>>])
  <2>1. camValue' = camValue /\ camPc' \notin {"update", "record"}
    BY <1>3 DEF Cam!Update, Cam!Done
  <2> QED BY <1>1, <2>1, CamDone DEF CamInv
<1> QED BY <1>2, <1>3

(* The one UPDATE of all audio settings, which are recorded already. *)
LEMMA CamUpdateAudio == ASSUME CamInv, Cam!UpdateAudio PROVE CamInv'
<1>1. /\ camLog' = camLog /\ camLost' = camLost
      /\ camPc = "update" /\ Cam!Column = "audio" /\ camPc' \notin {"update", "record"}
      /\ camValue' = [cc \in Cells |-> IF cc \in Third \X {"audio"} THEN Cam!Wanted("audio")
                                        ELSE camValue[cc]]
  BY DEF Cam!UpdateAudio, Cam!Done, Cam!logVars, Cells
<1>2. \A cc \in Third \X {"audio"} : Known(cc)
  BY <1>1 DEF CamInv
<1> QED BY <1>1, <1>2, CamDone

(* The end of the process: what it had written and not recorded is lost. *)
LEMMA CamStop == ASSUME CamInv, Cam!Stop PROVE CamInv'
<1>1. /\ camLog' = camLog /\ camLost \subseteq camLost' /\ camValue' = camValue
      /\ camPc' = "off"
      /\ camPc = "record" => InHand \in camLost'
  BY DEF Cam!Stop, InHand
<1> QED BY <1>1, CamDone DEF CamInv

(* --rollback writes what is recorded, or leaves the column as it is. *)
LEMMA CamRollback ==
  ASSUME CamInv, NEW scope \in Cam!Scopes, Cam!Rollback(scope) PROVE CamInv'
<1>1. /\ UNCHANGED <<camLog, camLost, camPc, camTodo, camOld>>
      /\ camValue' = IF camLog # <<>> THEN Cam!Restored(scope) ELSE Cam!Emptied(scope)
  BY DEF Cam!Rollback, Cam!logVars
<1>2. /\ DOMAIN camValue' = Cells
      /\ \A cc \in Cells :
           camValue'[cc] \in Cam!Ours => camValue[cc] \in Cam!Ours \/ Known(cc)
  <2>1. CASE camLog # <<>>
    <3>1. camValue' = [cc \in Cells |->
                        IF cc[1] \in Cam!InScope(scope) THEN Cam!Original(cc[1], cc[2])
                        ELSE camValue[cc]]
      BY <1>1, <2>1 DEF Cam!Restored, Cells
    <3>2. ASSUME NEW cc \in Cells
          PROVE  Cam!Original(cc[1], cc[2]) = camValue[cc] \/ Known(cc)
      <4>1. <<cc[1], cc[2]>> = cc
        BY DEF Cells
      <4> QED BY <4>1 DEF Cam!Original, Cam!Recorded, Known, IsOf
    <3> QED BY <3>1, <3>2
  <2>2. CASE camLog = <<>>
    <3>1. camValue' = [cc \in Cells |->
                        IF cc[1] \in Third \cap Cam!InScope(scope) /\ cc[2] # "audio"
                        THEN 0 ELSE camValue[cc]]
      BY <1>1, <2>2 DEF Cam!Emptied, Cells
    <3>2. 0 \notin Cam!Ours
      BY ServicesAssumption DEF Cam!Ours
    <3> QED BY <3>1, <3>2
  <2> QED BY <2>1, <2>2
<1> QED BY <1>1, <1>2, CamAround

(* Protect's own changes, and the steps between two columns. *)
LEMMA CamNext == ASSUME CamInv, Cam!Next PROVE CamInv'
<1>1. CASE Cam!UpdateFails
  <2>1. /\ camLog' = camLog /\ camLost' = camLost /\ camValue' = camValue
        /\ camPc = "update" /\ camPc' \notin {"update", "record"}
    BY <1>1 DEF Cam!UpdateFails, Cam!Done, Cam!logVars
  <2> QED BY <2>1, CamDone DEF CamInv
<1>2. ASSUME NEW c, NEW ok, Cam!Start \/ Cam!Discover(ok) \/ Cam!Handle(c) PROVE CamInv'
  <2>1. /\ camLog' = camLog /\ camLost' = camLost /\ camValue' = camValue
        /\ camPc # "record" /\ camPc' \notin {"update", "record"}
    BY <1>2 DEF Cam!Start, Cam!Discover, Cam!Goto, Cam!Handle, Cam!logVars
  <2> QED BY <2>1, CamDone DEF CamInv
<1>3. CASE Cam!Listen \/ Cam!Disconnect \/ Cam!Upgrade
  <2>1. UNCHANGED <<camLog, camLost, camPc, camTodo, camOld, camValue>>
    BY <1>3 DEF Cam!Listen, Cam!Disconnect, Cam!Upgrade, Cam!logVars
  <2> QED BY <2>1, CamAround DEF CamInv
<1>4. ASSUME NEW c, Cam!Sync(c) \/ Cam!DrawZones(c) PROVE CamInv'
  <2>1. UNCHANGED <<camLog, camLost, camPc, camTodo, camOld>>
    BY <1>4 DEF Cam!Sync, Cam!DrawZones, Cam!logVars
  <2>2. \/ camValue' = [camValue EXCEPT ![<<c, "flags">>] = 0]
        \/ camValue' = [camValue EXCEPT ![<<c, "zones">>] = -1]
    BY <1>4 DEF Cam!Sync, Cam!DrawZones, Cam!User
  <2>3. 0 \notin Cam!Ours /\ -1 \notin Cam!Ours
    BY ServicesAssumption DEF Cam!Ours
  <2> QED BY <2>1, <2>2, <2>3, CamAround DEF CamInv
<1> QED
  BY <1>1, <1>2, <1>3, <1>4, CamSelect, CamSelectFails, CamUpdate, CamUpdateAudio, CamRecord,
     CamRecordAudio, CamStop, CamRollback
  DEF Cam!Next, Cam!Flip

-----------------------------------------------------------------------------
(* The oldest entry of a recorded column is none of the recorder's. *)
LEMMA OriginalIsTheirs ==
  ASSUME CamInv, NEW cc \in Cells \ camLost, camPc # "record"
  PROVE  Cam!Original(cc[1], cc[2]) \notin Cam!Ours
<1> DEFINE mine == Cam!Recorded(cc[1], cc[2])
<1>1. /\ mine = {i \in DOMAIN camLog : IsOf(i, cc)} /\ <<cc[1], cc[2]>> = cc
  BY DEF Cam!Recorded, IsOf, Cells
<1>2. CASE mine = {}
  <2>1. ~Known(cc)
    BY <1>1, <1>2 DEF Known
  <2> QED BY <1>1, <1>2, <2>1 DEF CamInv, Cam!Original
<1>3. CASE mine # {}
  <2>1. DOMAIN camLog = 1 .. Len(camLog) /\ Len(camLog) \in Nat
    BY LenProperties DEF CamInv
  <2>2. PICK m \in mine : \A i \in mine : m <= i
    <3>1. mine \subseteq Nat
      BY <1>1, <2>1
    <3> HIDE DEF mine
    <3> DEFINE R == OpToRel(<, Nat)
    <3>2. \E m \in mine : \A i \in mine : <<i, m>> \notin R
      BY <1>3, <3>1, NatLessThanWellFounded, WFMin
    <3>3. PICK m \in mine : \A i \in mine : ~(i < m)
      BY <3>1, <3>2 DEF OpToRel
    <3> QED BY <3>1, <3>3
  <2>3. DEFINE o == Cam!Min(mine)
  <2>4. o \in mine /\ \A i \in mine : o <= i
    <3> HIDE DEF mine
    <3> QED BY <2>2 DEF Cam!Min
  <2> HIDE DEF o
  <2>5. o \in DOMAIN camLog /\ FirstOf(o, cc)
    BY <1>1, <2>1, <2>4 DEF FirstOf
  <2>6. camLog[o][3] \notin Cam!Ours
    BY <2>5 DEF CamInv
  <2> QED BY <1>3, <2>6 DEF Cam!Original, o
<1> QED BY <1>2, <1>3

(* "Undo cameras-table changes" (unifi_camera_config.hpp:226): for any      *)
(* cameras, releases and failures, --rollback leaves nothing on the cameras *)
(* of its scope that the recorder wrote, but what was never recorded.       *)
THEOREM RollbackUndoesHolds == ServicesSpec => RollbackUndoes
<1> DEFINE Undone == \A scope \in Cam!Scopes : Cam!Rollback(scope) =>
                       \A c \in Cam!InScope(scope), col \in Cam!Columns :
                         <<c, col>> \in camLost \/ camValue'[<<c, col>>] \notin Cam!Ours
<1>1. ServicesInit => CamInv
  <2>1. SUFFICES ASSUME Cam!Init PROVE CamInv
    BY DEF ServicesInit
  <2>2. camLog = <<>> /\ camPc = "off" /\ camValue \in [Cells -> {0}]
    BY <2>1 DEF Cam!Init, Cells
  <2>3. camLog \in Seq(Range(camLog)) /\ DOMAIN camLog = {}
    BY <2>2, EmptySeq
  <2>4. 0 \notin Cam!Ours
    BY ServicesAssumption DEF Cam!Ours
  <2> QED BY <2>2, <2>3, <2>4 DEF CamInv
<1>2. CamInv /\ [ServicesNext]_allVars => CamInv'
  <2>1. SUFFICES ASSUME CamInv, UNCHANGED camVars PROVE CamInv'
    BY CamSteps, CamNext
  <2>2. UNCHANGED <<camLog, camLost, camPc, camTodo, camOld, camValue>>
    BY <2>1 DEF camVars
  <2> QED BY <2>1, <2>2, CamAround DEF CamInv
<1>3. CamInv => Undone
  <2>1. SUFFICES ASSUME CamInv, NEW scope \in Cam!Scopes, Cam!Rollback(scope),
                        NEW c \in Cam!InScope(scope), NEW col \in Cam!Columns,
                        <<c, col>> \notin camLost
                 PROVE  camValue'[<<c, col>>] \notin Cam!Ours
    OBVIOUS
  <2> DEFINE cc == <<c, col>>
  <2>2. cc \in Cells /\ cc[1] = c /\ cc[2] = col /\ camPc = "off"
    BY <2>1 DEF Cam!Scopes, Cam!InScope, Cells, Cam!AllCameras, Cam!Rollback
  <2>3. CASE camLog # <<>>
    <3>1. camValue'[cc] = Cam!Original(cc[1], cc[2])
      BY <2>1, <2>2, <2>3 DEF Cam!Rollback, Cam!Restored, Cells
    <3> HIDE DEF cc
    <3>2. camValue'[cc] \notin Cam!Ours
      BY <2>1, <2>2, <3>1, OriginalIsTheirs DEF cc
    <3> QED BY <3>2 DEF cc
  <2>4. CASE camLog = <<>>
    <3>1. camValue'[cc] = 0 \/ camValue'[cc] = camValue[cc]
      BY <2>1, <2>2, <2>4 DEF Cam!Rollback, Cam!Emptied, Cells
    <3>2. ~Known(cc)
      BY <2>1, <2>4 DEF Known
    <3>3. 0 \notin Cam!Ours
      BY ServicesAssumption DEF Cam!Ours
    <3> QED BY <2>1, <2>2, <3>1, <3>2, <3>3 DEF CamInv
  <2> QED BY <2>3, <2>4
<1>4. CamInv /\ [ServicesNext]_allVars => [Undone]_(Cam!vars)
  BY <1>3
<1> QED
  BY <1>1, <1>2, <1>4, PTL DEF ServicesSpec, RollbackUndoes, Cam!RollbackUndoes
=============================================================================
