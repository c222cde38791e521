----------------------------- MODULE MCServices -----------------------------
(***************************************************************************)
(* The supervisor of the camera workers and the recorder's side services,  *)
(* which share no state: a behaviour is one of one of them, `part' says of *)
(* which, and the others stay in their initial states.                     *)
(***************************************************************************)
EXTENDS ListenerSupervisor

CONSTANTS c1, c2
CONSTANTS Settle, SyncAfter, MaxPid                  \* PidWatcher
CONSTANTS MaxRelease, MaxKnown, MaxRegen, MaxStarts  \* UiPatch
CONSTANTS Old, Apply, MaxFailed, MaxRuns             \* MsrBackfill: Events
CONSTANTS Third, Explicit, Others, MaxTrouble        \* CameraConfig

ASSUME ServicesAssumption ==
  /\ Settle \in Nat /\ SyncAfter \in 1 .. Settle /\ MaxPid \in Nat \ {0}
  /\ MaxRelease \in Nat \ {0} /\ MaxKnown \in Nat \ {0}
  /\ MaxRegen \in Nat /\ MaxStarts \in Nat
  /\ IsFiniteSet(Old) /\ Old \subseteq Nat /\ Apply \in BOOLEAN
  /\ MaxFailed \in Nat /\ MaxRuns \in Nat /\ MaxTrouble \in Nat
  /\ IsFiniteSet(Third \cup Explicit \cup Others)
  /\ Third \cup Explicit \cup Others \subseteq Nat \ {0}

TwoCameras == {c1, c2}
OneExcluded == {c2}

VARIABLE part
VARIABLES idReal, idUserId, idFile, idAge, idAt, idFresh, idTrouble
VARIABLES pidPid, pidNewest, pidUp, pidFlags, pidOn, pidInitial, pidPending,
          pidSeen, pidTriggered, pidPolled
VARIABLES uiRelease, uiLive, uiBak, uiMd5, uiConf, uiPc, uiHeld, uiSite,
          uiKnown, uiWatched, uiQueue, uiPending, uiFirstAdd, uiRegens,
          uiStarts, uiUnlucky
VARIABLES bfPresent, bfPictures, bfStored, bfMoved, bfOwn, bfOpen, bfPc,
          bfTodo, bfTrouble, bfRuns
VARIABLES recPresent, recLabelled, recRich, recObjects, recAreas, recPc,
          recBatch, recHasObject, recSize, recCancelled, recTrouble
VARIABLES camValue, camLog, camRelease, camPc, camTodo, camOld, camManaged,
          camListening, camNotes, camFailed, camLost, camTrouble

idVars == <<idReal, idUserId, idFile, idAge, idAt, idFresh, idTrouble>>
pidVars == <<pidPid, pidNewest, pidUp, pidFlags, pidOn, pidInitial,
             pidPending, pidSeen, pidTriggered, pidPolled>>
uiVars == <<uiRelease, uiLive, uiBak, uiMd5, uiConf, uiPc, uiHeld, uiSite,
            uiKnown, uiWatched, uiQueue, uiPending, uiFirstAdd, uiRegens,
            uiStarts, uiUnlucky>>
bfVars == <<bfPresent, bfPictures, bfStored, bfMoved, bfOwn, bfOpen, bfPc,
            bfTodo, bfTrouble, bfRuns>>
recVars == <<recPresent, recLabelled, recRich, recObjects, recAreas, recPc,
             recBatch, recHasObject, recSize, recCancelled, recTrouble>>
camVars == <<camValue, camLog, camRelease, camPc, camTodo, camOld,
             camManaged, camListening, camNotes, camFailed, camLost,
             camTrouble>>

Id == INSTANCE UserIdProvider
  WITH Callers <- {1, 2}, Interval <- 2, MaxId <- 3, MaxTrouble <- 1,
       real <- idReal, userId <- idUserId, file <- idFile, age <- idAge,
       at <- idAt, fresh <- idFresh, trouble <- idTrouble

Pid == INSTANCE PidWatcher
  WITH Settle <- Settle, SyncAfter <- SyncAfter, MaxPid <- MaxPid,
       pid <- pidPid, newest <- pidNewest, up <- pidUp, flags <- pidFlags,
       on <- pidOn, initial <- pidInitial, pending <- pidPending,
       seen <- pidSeen, triggered <- pidTriggered, polled <- pidPolled

Ui == INSTANCE UiPatch
  WITH MaxRelease <- MaxRelease, MaxKnown <- MaxKnown, MaxRegen <- MaxRegen,
       MaxStarts <- MaxStarts, release <- uiRelease, live <- uiLive,
       bak <- uiBak, md5 <- uiMd5, conf <- uiConf, pc <- uiPc,
       held <- uiHeld, site <- uiSite, known <- uiKnown,
       watched <- uiWatched, queue <- uiQueue, pending <- uiPending,
       firstAdd <- uiFirstAdd, regens <- uiRegens, starts <- uiStarts,
       unlucky <- uiUnlucky

Msrb == INSTANCE MsrBackfill
  WITH Events <- Old, Apply <- Apply, MaxTrouble <- MaxFailed,
       MaxRuns <- MaxRuns, present <- bfPresent, pictures <- bfPictures,
       stored <- bfStored, moved <- bfMoved, own <- bfOwn, open <- bfOpen,
       pc <- bfPc, todo <- bfTodo, trouble <- bfTrouble, runs <- bfRuns

Rec == INSTANCE EventRecovery
  WITH Events <- {1, 2, 3}, Backup <- {1, 2}, Hopeless <- {1}, MinBatch <- 2,
       MaxBatch <- 3, FirstBatch <- 3, Target <- 4, Durations <- {0, 1, 20},
       MaxTrouble <- 1, present <- recPresent, labelled <- recLabelled,
       rich <- recRich, objects <- recObjects, areas <- recAreas,
       pc <- recPc, batch <- recBatch, hasObject <- recHasObject,
       size <- recSize, cancelled <- recCancelled, trouble <- recTrouble

Cam == INSTANCE CameraConfig
  WITH Third <- Third, Explicit <- Explicit, Others <- Others,
       MaxRelease <- MaxRelease, MaxTrouble <- MaxTrouble, value <- camValue,
       log <- camLog, release <- camRelease, pc <- camPc, todo <- camTodo,
       old <- camOld, managed <- camManaged, listening <- camListening,
       notes <- camNotes, failed <- camFailed, lost <- camLost,
       trouble <- camTrouble

allVars == <<part, vars, idVars, pidVars, uiVars, bfVars, recVars, camVars>>

(* Only one of them moves. *)
Only(p, stay) == part = p /\ UNCHANGED <<part, stay>>

ListenerOnly == Only("listener", <<idVars, pidVars, uiVars, bfVars, recVars, camVars>>)
IdOnly == Only("userId", <<vars, pidVars, uiVars, bfVars, recVars, camVars>>)
PidOnly == Only("pid", <<vars, idVars, uiVars, bfVars, recVars, camVars>>)
UiOnly == Only("ui", <<vars, idVars, pidVars, bfVars, recVars, camVars>>)
MsrbOnly == Only("backfill", <<vars, idVars, pidVars, uiVars, recVars, camVars>>)
RecOnly == Only("recovery", <<vars, idVars, pidVars, uiVars, bfVars, camVars>>)
CamOnly == Only("cameras", <<vars, idVars, pidVars, uiVars, bfVars, recVars>>)

ServicesInit == /\ part \in {"listener", "userId", "pid", "ui", "backfill", "recovery", "cameras"}
                /\ Init /\ (part = "listener" \/ adopted = {})
                /\ Id!Init /\ (part = "userId" \/ idFile = 1)
                /\ Pid!Init /\ (part = "pid" \/ pidUp = 0)
                /\ Ui!Init /\ (part = "ui" \/ uiLive = Ui!NoFile)
                /\ Msrb!Init /\ (part = "backfill" \/ bfPictures = {})
                /\ Rec!Init /\ (part = "recovery" \/ recPresent \cup recLabelled = {})
                /\ Cam!Init

ServicesNext == \/ ListenerOnly /\ Next
                \/ IdOnly /\ Id!Next
                \/ PidOnly /\ Pid!Next
                \/ UiOnly /\ Ui!Next
                \/ MsrbOnly /\ Msrb!Next
                \/ RecOnly /\ Rec!Next
                \/ CamOnly /\ Cam!Next

(* The fairness of each: of the actions in a line only those of `part' are  *)
(* ever enabled, so the line is fair to each of them.                      *)
ServicesFairness ==
  /\ WF_allVars(\/ ListenerOnly /\ Main
                \/ IdOnly /\ Id!Tick
                \/ PidOnly /\ Pid!Tick
                \/ UiOnly /\ Ui!Pass
                \/ RecOnly /\ Rec!Recovery
                \/ CamOnly /\ Cam!Flip)
  /\ WF_allVars(\/ ListenerOnly /\ Expire
                \/ IdOnly /\ Id!Refresh(1)
                \/ PidOnly /\ Pid!Exit
                \/ UiOnly /\ Ui!ReadEvents
                \/ CamOnly /\ (\E c \in Third : Cam!Handle(c)))
  /\ WF_allVars(\/ ListenerOnly /\ Scan
                \/ IdOnly /\ Id!Refresh(2)
                \/ PidOnly /\ (\E told \in BOOLEAN : Pid!Start(told))
                \/ UiOnly /\ Ui!Fire
                \/ CamOnly /\ (\E c \in Others : Cam!Handle(c)))
  /\ WF_allVars(\/ ListenerOnly /\ EndOthers
                \/ PidOnly /\ (\E p \in 0 .. MaxPid : Pid!Poll(p))
                \/ UiOnly /\ Ui!AddWatches)
  /\ SF_allVars(PidOnly /\ (\E p \in 1 .. MaxPid : Pid!Poll(p)))

ServicesSpec == ServicesInit /\ [][ServicesNext]_allVars /\ ServicesFairness

-----------------------------------------------------------------------------
(* protect_user_id_provider.hpp:36-41: callers that go on asking end up with
   the id Protect accepts. *)
RotationIsFollowed == Id!RotationIsFollowed

(* protect_pid_watcher.hpp:46-47: the recorder restarts only once the new
   Protect has been up long enough. *)
OnlyOnceSettled == Pid!OnlyOnceSettled

(* protect_pid_watcher.hpp:39-43: after Protect was replaced, the flags end
   up set after its sync. *)
FlipSticks == Pid!FlipSticks

(* protect_ui_patch.cpp:192-193: the .bak is never a modified file. *)
BackupIsOriginal == Ui!BackupIsOriginal

(* patch_watcher.cpp:226-228: what changes while the recorder watches ends
   up patched. *)
Healed == Ui!Healed

(* msr_backfill.hpp:43-47: no thumbnailId is left that neither table nor MSR
   knows. *)
Resolves == Msrb!Resolves

(* event_recovery.hpp:44-45: hopeless events, fewer than a batch, do not keep
   the others from being completed. *)
OthersEnriched == part = "recovery" => Rec!OthersEnriched

(* unifi_camera_config.hpp:226: --rollback leaves nothing recorded that the
   recorder wrote. *)
RollbackUndoes == Cam!RollbackUndoes

(* main.cpp:1240-1242: a managed camera that Protect changed gets its flags
   back. *)
Reflipped == Cam!Reflipped
=============================================================================
