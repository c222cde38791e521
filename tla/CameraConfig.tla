---------------------------- MODULE CameraConfig ----------------------------
(***************************************************************************)
(* src/src/unifi_camera_config.cpp, src/src/camera_change_log.cpp and      *)
(* src/src/cameras_change_listener.cpp: columns of Protect's cameras table *)
(* the recorder changes at startup (src/src/main.cpp:846-1000), changes    *)
(* again when a trigger tells it that Protect undid it, and puts back with *)
(* --rollback from the old values in its log.                              *)
(*                                                                         *)
(* A value is 0, as Protect has it, User, as a user set it, or the release *)
(* of the recorder that wrote it.  The log outlives the recorder.          *)
(***************************************************************************)
EXTENDS Integers, Sequences, SequencesExt, FiniteSetsExt

CONSTANTS Third,     \* third-party cameras, as positive integers
          Explicit,  \* first-party cameras of --first_party_cameras
          Others,    \* other first-party cameras that detect nothing smart
          MaxRelease,\* bound: releases of the recorder
          MaxTrouble \* bound: writes of others, failures, stops

VARIABLES value,     \* of each camera's columns
          log,       \* CameraChangeLog: <<camera, column, old value>>
          release,
          pc,
          todo,      \* <<column, camera>>: the changes to make; audio is for all
          old,       \* what the SELECT returned
          managed,   \* managed_camera_ids_; also what the motion poller polls
          listening, \* LISTEN is active
          notes,     \* notifications not yet taken
          failed,    \* managed cameras whose last change failed
          lost,      \* history: changes made and not recorded
          trouble

logVars == <<log, lost>>
vars == <<value, logVars, release, pc, todo, old, managed, listening, notes, failed, trouble>>

AllCameras == Third \cup Explicit \cup Others
FirstParty == Explicit \cup Others
Columns == {"flags", "zones", "audio"}
User == -1
Ours == 1 .. MaxRelease

Init == /\ value \in [AllCameras \X Columns -> {0}]
        /\ log = <<>> /\ lost = {}
        /\ release = 1
        /\ pc = "off" /\ todo = <<>> /\ old = 0
        /\ managed = {} /\ listening = FALSE /\ notes = {} /\ failed = {}
        /\ trouble = 0

Troubled == trouble < MaxTrouble /\ trouble' = trouble + 1

Goto(from, to) == pc = from /\ pc' = to

(* The rows of a SELECT without ORDER BY. *)
AnyOrder(cameras) == SetToSeqs(cameras)

Job == Head(todo)
Column == Job[1]
Camera == Job[2]

(* featureFlags and settings are changed together; a trigger notifies.  A  *)
(* notification nobody listens for is gone.                                *)
Set(camera, column, v) ==
  /\ value' = [value EXCEPT ![<<camera, column>>] = v]
  /\ notes' = IF listening /\ column = "flags" /\ value'[<<camera, column>>] # value[<<camera, column>>]
              THEN notes \cup {camera} ELSE notes

-----------------------------------------------------------------------------
(***************************************************************************)
(* enable_smart_detect and ensure_smart_detect_zones: for a camera, SELECT *)
(* the old value, UPDATE the row if it still is not as it should be, and   *)
(* record the change if there was one.                                     *)
(***************************************************************************)
Wanted(column) == IF column = "flags" THEN release ELSE 1

Needed(column, v) == IF column = "flags" THEN v # release ELSE v = 0

Done(jobs) == /\ todo' = jobs
              /\ pc' = IF jobs # <<>> THEN "select" ELSE IF managed = {} THEN "discover" ELSE "serve"

Unmoved == UNCHANGED <<release, managed, listening>>

Select == /\ Goto("select", "update")
          /\ Column # "audio"
          /\ old' = value[<<Camera, Column>>]
          /\ UNCHANGED <<value, logVars, todo, notes, failed, trouble>> /\ Unmoved

(* Without its old value, the flags of a camera are changed all the same.  *)
SelectFails == /\ pc = "select" /\ Column # "audio"
               /\ Troubled
               /\ IF Column = "flags" /\ Needed(Column, value[<<Camera, Column>>])
                  THEN Set(Camera, Column, release) /\ lost' = lost \cup {<<Camera, Column>>}
                  ELSE UNCHANGED <<value, notes, lost>>
               /\ failed' = failed \ {Camera}
               /\ Done(Tail(todo))
               /\ UNCHANGED <<log, old>> /\ Unmoved

Update == /\ pc = "update" /\ Column # "audio"
          /\ failed' = failed \ {Camera}
          /\ IF Needed(Column, value[<<Camera, Column>>])
             THEN Set(Camera, Column, Wanted(Column)) /\ pc' = "record" /\ todo' = todo
             ELSE UNCHANGED <<value, notes>> /\ Done(Tail(todo))
          /\ UNCHANGED <<logVars, old, trouble>> /\ Unmoved

Record == /\ pc = "record"
          /\ log' = Append(log, <<Camera, Column, old>>)
          /\ Done(Tail(todo))
          /\ UNCHANGED <<value, lost, old, notes, failed, trouble>> /\ Unmoved

(* set_rtsp_audio changes every third-party camera with one UPDATE. The old *)
(* values, if they can be read, are recorded first, changed or not.        *)
RecordAudio(ok) ==
  /\ Goto("select", "update")
  /\ Column = "audio"
  /\ IF ok THEN trouble' = trouble /\ lost' = lost ELSE Troubled /\ lost' = lost \cup (Third \X {"audio"})
  /\ \E order \in AnyOrder(Third) :
       log' = IF ok THEN log \o [i \in DOMAIN order |-> <<order[i], "audio", value[<<order[i], "audio">>]>>]
                    ELSE log
  /\ UNCHANGED <<value, todo, old, notes, failed>> /\ Unmoved

UpdateAudio == /\ pc = "update" /\ Column = "audio"
               /\ value' = [cc \in AllCameras \X Columns |->
                             IF cc \in Third \X {"audio"} THEN Wanted("audio") ELSE value[cc]]
               /\ Done(Tail(todo))
               /\ UNCHANGED <<logVars, old, notes, failed, trouble>> /\ Unmoved

(* An UPDATE that fails ends the call, and for a third-party camera the    *)
(* program.                                                                *)
UpdateFails == /\ pc = "update"
               /\ Troubled
               /\ IF Column = "audio" \/ Camera \in Third THEN pc' = "off" /\ todo' = <<>>
                  ELSE Done(SelectSeq(todo, LAMBDA job : job[1] # Column))
               /\ failed' = failed \cup ({Camera} \cap FirstParty)
               /\ UNCHANGED <<value, logVars, old, notes>> /\ Unmoved

-----------------------------------------------------------------------------
(* Startup: the third-party cameras, then the named first-party ones.      *)
Jobs(column, order) == [i \in DOMAIN order |-> <<column, order[i]>>]

Start == /\ pc = "off"
         /\ \E third \in AnyOrder(Third), named \in AnyOrder(Explicit) :
              todo' = Jobs("flags", third) \o Jobs("zones", third) \o <<<<"audio", 0>>>>
                      \o Jobs("flags", named) \o Jobs("zones", named)
         /\ pc' = "select"
         /\ UNCHANGED <<value, logVars, release, old, managed, listening, notes, failed, trouble>>

(* What to keep that way: the named cameras, and those whose hasSmartDetect*)
(* is not true now, which startup does not change.                         *)
Unflagged == {c \in Others : value[<<c, "flags">>] = 0}

Discover(ok) ==
  /\ Goto("discover", "serve")
  /\ IF ok THEN trouble' = trouble ELSE Troubled
  /\ managed' = Explicit \cup IF ok THEN Unflagged ELSE {}
  /\ UNCHANGED <<value, logVars, release, todo, old, listening, notes, failed>>

(* CamerasChangeListener::run. *)
Listen == /\ pc = "serve" /\ ~listening
          /\ listening' = TRUE
          /\ UNCHANGED <<value, logVars, release, pc, todo, old, managed, notes, failed, trouble>>

Disconnect == /\ listening
              /\ Troubled
              /\ listening' = FALSE /\ notes' = {}
              /\ UNCHANGED <<value, logVars, release, pc, todo, old, managed, failed>>

BadHandle(c) == /\ pc = "serve" /\ c \in notes
                /\ notes' = {}
                /\ IF c \in managed THEN pc' = "select" /\ todo' = <<<<"flags", c>>>>
                                    ELSE UNCHANGED <<pc, todo>>
                /\ UNCHANGED <<value, logVars, release, old, managed, listening, failed, trouble>>

Handle(c) == /\ pc = "serve" /\ c \in notes
             /\ notes' = notes \ {c}
             /\ IF c \in managed THEN pc' = "select" /\ todo' = <<<<"flags", c>>>>
                                 ELSE UNCHANGED <<pc, todo>>
             /\ UNCHANGED <<value, logVars, release, old, managed, listening, failed, trouble>>

Stop == /\ pc # "off"
        /\ Troubled
        /\ pc' = "off" /\ todo' = <<>>
        /\ lost' = IF pc = "record" THEN lost \cup {<<Camera, Column>>} ELSE lost
        /\ managed' = {} /\ listening' = FALSE /\ notes' = {} /\ failed' = {}
        /\ UNCHANGED <<value, log, release, old>>

Upgrade == /\ pc = "off" /\ release < MaxRelease
           /\ release' = release + 1
           /\ UNCHANGED <<value, logVars, pc, todo, old, managed, listening, notes, failed, trouble>>

(* rollback_camera_changes: the oldest value recorded for each column.     *)
Recorded(camera, column) == {i \in DOMAIN log : log[i][1] = camera /\ log[i][2] = column}

BadOriginal(camera, column) ==
  IF Recorded(camera, column) = {} THEN value[<<camera, column>>]
  ELSE log[Max(Recorded(camera, column))][3]

Original(camera, column) ==
  IF Recorded(camera, column) = {} THEN value[<<camera, column>>]
  ELSE log[Min(Recorded(camera, column))][3]

(* First-party cameras are, to --rollback, those of --first_party_cameras.  *)
Scopes == {"first_party", "third_party", "all"}

InScope(scope) == CASE scope = "first_party" -> Explicit
                    [] scope = "third_party" -> AllCameras \ Explicit
                    [] scope = "all" -> AllCameras

Restored(scope) == [cc \in AllCameras \X Columns |->
                      IF cc[1] \in InScope(scope) THEN Original(cc[1], cc[2]) ELSE value[cc]]

(* Without a log, third-party cameras get empty settings, others nothing.  *)
Emptied(scope) == [cc \in AllCameras \X Columns |->
                     IF cc[1] \in Third \cap InScope(scope) /\ cc[2] # "audio"
                     THEN 0 ELSE value[cc]]

Rollback(scope) ==
  /\ pc = "off"
  /\ value' = IF log # <<>> THEN Restored(scope) ELSE Emptied(scope)
  /\ UNCHANGED <<logVars, release, pc, todo, old, managed, listening, notes, failed, trouble>>

(* Protect syncs the flags from the camera; a user changes its settings or *)
(* its zones.  Either is a change.                                         *)
Sync(c) == /\ Troubled
           /\ value' = [value EXCEPT ![<<c, "flags">>] = 0]
           /\ notes' = IF listening THEN notes \cup {c} ELSE notes
           /\ UNCHANGED <<logVars, release, pc, todo, old, managed, listening, failed>>

DrawZones(c) == /\ Troubled
                /\ value' = [value EXCEPT ![<<c, "zones">>] = User]
                /\ UNCHANGED <<logVars, release, pc, todo, old, managed, listening, notes, failed>>

Flip == Select \/ Update \/ Record \/ RecordAudio(TRUE) \/ UpdateAudio

Next == \/ Flip \/ RecordAudio(FALSE) \/ SelectFails \/ UpdateFails \/ Start \/ Listen \/ Disconnect \/ Stop
        \/ Upgrade
        \/ \E scope \in Scopes : Rollback(scope)
        \/ \E ok \in BOOLEAN : Discover(ok)
        \/ \E c \in AllCameras : Handle(c) \/ Sync(c) \/ DrawZones(c)

(* Statements have timeouts and the listener wakes every second. *)
Fairness == WF_vars(Flip) /\ \A c \in AllCameras : WF_vars(Handle(c))

Spec == Init /\ [][Next]_vars /\ Fairness

-----------------------------------------------------------------------------
TypeOK == /\ value \in [AllCameras \X Columns -> Ours \cup {0, User}]
          /\ log \in Seq(AllCameras \X Columns \X (Ours \cup {0, User}))
          /\ release \in Ours /\ old \in Ours \cup {0, User}
          /\ pc \in {"off", "select", "update", "record", "discover", "serve"}
          /\ todo \in Seq(Columns \X (AllCameras \cup {0}))
          /\ managed \subseteq FirstParty /\ notes \subseteq AllCameras
          /\ failed \subseteq AllCameras /\ listening \in BOOLEAN

(* "Undo cameras-table changes" (unifi_camera_config.hpp:226): over        *)
(* releases that change a column differently, and changes by Protect and by*)
(* users in between, --rollback leaves nothing on the cameras of its scope *)
(* that the recorder wrote, except where the change was not recorded.      *)
RollbackUndoes ==
  [][\A scope \in Scopes : Rollback(scope) =>
        \A c \in InScope(scope), col \in Columns :
          <<c, col>> \in lost \/ value'[<<c, col>>] \notin Ours]_vars

(* "re-flips featureFlags when Protect's controller clobbers our           *)
(* enable_smart_detect writes" (main.cpp:1240-1242): a managed camera      *)
(* Protect changed while the recorder listens gets its flags back, unless  *)
(* the UPDATE fails or the connection or the recorder goes away.           *)
Reflipped ==
  \A c \in FirstParty :
    (listening /\ c \in managed /\ c \in notes) ~>
      (value[<<c, "flags">>] = release \/ c \in failed \/ ~listening)

(* "Otherwise flipping hasSmartDetect=true via enable_smart_detect would   *)
(* make these cameras invisible to load_all_nonsmartdetect_first_party, and*)
(* they'd get flagged as smart-capable in the UI without any software      *)
(* actually classifying their events" (main.cpp:895-899).                  *)
FlaggedArePolled ==
  pc = "serve" => \A c \in FirstParty : value[<<c, "flags">>] \in Ours => c \in managed
=============================================================================
