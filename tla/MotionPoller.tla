---------------------------- MODULE MotionPoller ----------------------------
(***************************************************************************)
(* src/src/motion_poller.cpp for one first-party camera: every interval    *)
(* the poller reads the camera's motion events above its high-water mark   *)
(* that have no smart detection near them, oldest first, looks for a       *)
(* subject in their pictures and inserts a smart detection for each.       *)
(* Cameras are polled one after the other and share nothing.               *)
(*                                                                         *)
(* A motion event is known by the instant of its start, which no other of  *)
(* the camera has.  Protect is the environment: it starts and ends them,   *)
(* adds their thumbnails when it likes, and may detect something itself.   *)
(* The tables outlive the poller, the mark does not.                       *)
(***************************************************************************)
EXTENDS Integers, Sequences, SequencesExt, FiniteSetsExt, FiniteSets

CONSTANTS MaxTime,    \* bound of the clock
          Near,       \* how far from a motion a detection counts, 5 s
          Limit,      \* how many motions a query returns, 50
          DefaultAge, \* the mark's age where nothing was classified, 1 h
          LiveAge,    \* how old a motion may be to raise an alarm, 60 s
          Lookbacks,  \* backfill_lookback_days, 0 = none
          SampleCap,  \* video_sample_global_secs, 0 = no sampling
          Always,     \* always_smart_detect
          Rich,       \* whether Protect is 7.1 or newer
          MaxStarts,  \* bound of the poller's starts
          MaxNative   \* bound of Protect's own detections

ASSUME NumbersAssumption ==
  /\ MaxTime \in Nat \ {0} /\ Near \in Nat /\ Limit \in Nat \ {0}
  /\ DefaultAge \in Nat /\ LiveAge \in Nat /\ Lookbacks \subseteq Nat
  /\ SampleCap \in Nat /\ Always \in BOOLEAN /\ Rich \in BOOLEAN
  /\ MaxStarts \in Nat /\ MaxNative \in Nat

VARIABLES pc,        \* where the poll thread is
          running,   \* running_
          hwm,       \* the mark
          batch,     \* the rows of the query not yet processed
          lookback,  \* the setting
          faults,    \* statements may fail
          ended,     \* events: when each motion ended; 0 = not, -1 = no row
          thumbs,    \* events: the motions with a thumbnailId
          natives,   \* events: the starts of Protect's own detections
          ours,      \* events: how many rows of ours each motion led to
          marked,    \* events: the motions whose row of ours names its source
          alarms,    \* how many alarms each motion raised
          clock,
          starts,
          found,     \* what this run's last query could have found
          handled    \* the motions looked at, ever

settings == <<lookback, faults>>
eventVars == <<ended, thumbs, natives>>
ourVars == <<ours, marked>>
historyVars == <<found, handled>>
vars == <<pc, running, hwm, batch, settings, eventVars, ourVars, alarms,
          clock, starts, historyVars>>

Instants == 1 .. MaxTime

Labels == {"off", "mark", "query", "take", "look", "insert", "rows", "alarm",
           "sleep"}

Init == /\ pc = "off" /\ running = FALSE /\ hwm = 0 /\ batch = <<>>
        /\ lookback \in Lookbacks /\ faults \in BOOLEAN
        /\ ended = [m \in Instants |-> -1]
        /\ thumbs = {} /\ natives = {}
        /\ ours = [m \in Instants |-> 0]
        /\ marked = {}
        /\ alarms = [m \in Instants |-> 0]
        /\ clock = 1 /\ starts = 0
        /\ found = {} /\ handled = {}

-----------------------------------------------------------------------------
(***************************************************************************)
(* The poller starts and sets its mark: the newest motion it classified,   *)
(* by the source its row names, or an hour ago; further back to backfill.  *)
(***************************************************************************)
Start == /\ pc = "off" /\ starts < MaxStarts
         /\ pc' = "mark"
         /\ running' = TRUE
         /\ starts' = starts + 1
         /\ UNCHANGED <<hwm, batch, settings, eventVars, ourVars, alarms,
                        clock, historyVars>>

InitialMark(answered) ==
  LET newest == IF answered /\ marked # {} THEN Max(marked) ELSE clock - DefaultAge
  IN  IF lookback > 0 THEN Min({newest, clock - lookback}) ELSE newest

SetMark(answered) ==
  /\ pc = "mark" /\ (answered \/ faults)
  /\ pc' = "query"
  /\ hwm' = InitialMark(answered)
  /\ found' = {}
  /\ UNCHANGED <<running, batch, settings, eventVars, ourVars, alarms,
                 clock, starts, handled>>

(***************************************************************************)
(* The query.                                                              *)
(***************************************************************************)
Complete(m) == ended[m] > 0 /\ m \in thumbs

Detections == natives \cup {m \in Instants : ours[m] > 0}

BadNearby(m) == \E d \in Detections : m < d /\ d <= ended[m] + Near

Nearby(m) == \E d \in Detections : m - Near <= d /\ d <= ended[m] + Near

Candidates == {m \in Instants : m > hwm /\ Complete(m) /\ ~Nearby(m)}

BadOldestFirst(motions) ==
  {s \in SetToSeqs(motions) : \A i, j \in DOMAIN s : i < j => s[i] > s[j]}

(* ORDER BY e.start: the one order of distinct starts. *)
OldestFirst(motions) ==
  {s \in SetToSeqs(motions) : \A i, j \in DOMAIN s : i < j => s[i] < s[j]}

Query == /\ pc = "query" /\ running
         /\ \E rows \in OldestFirst(Candidates) :
              batch' = SubSeq(rows, 1, Min({Limit, Len(rows)}))
         /\ found' = Candidates
         /\ pc' = "take"
         /\ UNCHANGED <<running, hwm, settings, eventVars, ourVars, alarms,
                        clock, starts, handled>>

QueryFails == /\ pc = "query" /\ running /\ faults
              /\ pc' = "sleep"
              /\ UNCHANGED <<running, hwm, batch, settings, eventVars,
                             ourVars, alarms, clock, starts, historyVars>>

-----------------------------------------------------------------------------
(***************************************************************************)
(* The next motion of the batch, unless stop() was called.  m is the       *)
(* motion at hand.                                                         *)
(***************************************************************************)
Current == Head(batch)

Goto(label) == /\ pc' = label
               /\ UNCHANGED <<running, hwm, batch, settings, eventVars, ourVars,
                              alarms, clock, starts, historyVars>>

(* Frames one second apart, for as long as the motion lasted, up to a cap. *)
SampleSecs(m) == IF SampleCap = 0 THEN 0
                 ELSE Max({1, Min({SampleCap, Max({1, ended[m] - m})})})

(* One of the frames shows a subject of a class the first did not.         *)
SampleHits == /\ pc = "take" /\ running /\ batch # <<>>
              /\ SampleSecs(Current) > 0
              /\ Goto("insert")

SampleMisses == /\ pc = "take" /\ running /\ batch # <<>>
                /\ Goto("look")

EndBatch == /\ pc = "take" /\ (batch = <<>> \/ ~running)
            /\ pc' = "sleep"
            /\ batch' = <<>>
            /\ UNCHANGED <<running, hwm, settings, eventVars, ourVars,
                           alarms, clock, starts, historyVars>>

(* Done with the motion: the mark passes it. *)
Advance == /\ hwm' = Current
           /\ batch' = Tail(batch)
           /\ handled' = handled \cup {Current}
           /\ pc' = "take"

Pictures == {"none", "empty", "subject"}

(* The snapshot of the moment and the thumbnail: no picture, or nothing on *)
(* either and no always_smart_detect, skips the motion.                    *)
Look(crop, wide) ==
  /\ pc = "look"
  /\ "subject" \in {crop, wide} \/ (Always /\ {crop, wide} # {"none"})
  /\ Goto("insert")

BadSkip(crop, wide) ==
  /\ pc = "look"
  /\ "subject" \notin {crop, wide}
  /\ ~Always \/ {crop, wide} = {"none"}
  /\ pc' = "take"
  /\ batch' = Tail(batch)
  /\ UNCHANGED <<running, hwm, settings, eventVars, ourVars, alarms, clock,
                 starts, historyVars>>

Skip(crop, wide) ==
  /\ pc = "look"
  /\ "subject" \notin {crop, wide}
  /\ ~Always \/ {crop, wide} = {"none"}
  /\ Advance
  /\ UNCHANGED <<running, settings, eventVars, ourVars, alarms, clock, starts,
                 found>>

(* The picture in MSR, if that works, and the event.  A statement that     *)
(* fails is only logged.  Protect 7.1+ gets metadata that do not name the  *)
(* source.                                                                 *)
Insert(ok) ==
  /\ pc = "insert" /\ (ok \/ faults)
  /\ pc' = "rows"
  /\ IF ok THEN /\ ours' = [ours EXCEPT ![Current] = @ + 1]
                /\ marked' = IF Rich THEN marked ELSE marked \cup {Current}
           ELSE UNCHANGED <<ours, marked>>
  /\ UNCHANGED <<running, hwm, batch, settings, eventVars, alarms, clock, starts,
                 historyVars>>

(* Its objects, labels, tracks, raws and thumbnail, a statement each, with *)
(* or without the event.                                                   *)
Dependents == pc = "rows" /\ Goto("alarm")

Live(m) == clock - m < LiveAge

Alarm == /\ pc = "alarm"
         /\ alarms' = IF Live(Current) THEN [alarms EXCEPT ![Current] = @ + 1] ELSE alarms
         /\ Advance
         /\ UNCHANGED <<running, settings, eventVars, ourVars, clock,
                        starts, found>>

(* The interval is over, or stop() ends the thread. *)
Wake == /\ pc = "sleep" /\ running
        /\ Goto("query")

End == /\ pc \in {"query", "sleep"} /\ ~running
       /\ pc' = "off"
       /\ UNCHANGED <<running, hwm, batch, settings, eventVars, ourVars,
                      alarms, clock, starts, historyVars>>

Stop == /\ running
        /\ running' = FALSE
        /\ UNCHANGED <<pc, hwm, batch, settings, eventVars, ourVars, alarms,
                       clock, starts, historyVars>>

(* The process ends in the middle of something. *)
Crash == /\ pc # "off"
         /\ pc' = "off"
         /\ running' = FALSE
         /\ batch' = <<>>
         /\ UNCHANGED <<hwm, settings, eventVars, ourVars, alarms, clock,
                        starts, historyVars>>

-----------------------------------------------------------------------------
(***************************************************************************)
(* Protect.                                                                *)
(***************************************************************************)
Unaware == UNCHANGED <<pc, running, hwm, batch, settings, ourVars, alarms,
                       starts, historyVars>>

MotionStarts == /\ \A m \in Instants : ended[m] # 0
                /\ ended[clock] = -1
                /\ ended' = [ended EXCEPT ![clock] = 0]
                /\ Unaware /\ UNCHANGED <<thumbs, natives, clock>>

MotionEnds(m) == /\ ended[m] = 0
                 /\ ended' = [ended EXCEPT ![m] = clock]
                 /\ Unaware /\ UNCHANGED <<thumbs, natives, clock>>

AddThumbnail(m) == /\ ended[m] # -1 /\ m \notin thumbs
                   /\ thumbs' = thumbs \cup {m}
                   /\ Unaware /\ UNCHANGED <<ended, natives, clock>>

DetectNatively == /\ Cardinality(natives) < MaxNative
                  /\ natives' = natives \cup {clock}
                  /\ Unaware /\ UNCHANGED <<ended, thumbs, clock>>

Tick == /\ clock < MaxTime
        /\ clock' = clock + 1
        /\ Unaware /\ UNCHANGED <<ended, thumbs, natives>>

-----------------------------------------------------------------------------
Poll == \/ Query \/ QueryFails \/ SampleHits \/ SampleMisses \/ EndBatch
        \/ Dependents \/ Alarm \/ Wake \/ End
        \/ \E answered \in BOOLEAN : SetMark(answered)
        \/ \E crop, wide \in Pictures : Look(crop, wide) \/ Skip(crop, wide)
        \/ \E ok \in BOOLEAN : Insert(ok)

Protect == \/ MotionStarts \/ DetectNatively \/ Tick
           \/ \E m \in Instants : MotionEnds(m) \/ AddThumbnail(m)

Next == Poll \/ Start \/ Stop \/ Crash \/ Protect

(* Every call of the poll thread has a timeout.  It need not be started,   *)
(* stopped or killed, and Protect need not do anything.                    *)
Spec == Init /\ [][Next]_vars /\ WF_vars(Poll)

-----------------------------------------------------------------------------
TypeOK ==
  /\ pc \in Labels /\ running \in BOOLEAN
  /\ hwm \in Int /\ batch \in Seq(Instants)
  /\ lookback \in Lookbacks /\ faults \in BOOLEAN
  /\ ended \in [Instants -> -1 .. MaxTime]
  /\ thumbs \subseteq Instants /\ natives \subseteq Instants
  /\ ours \in [Instants -> Nat] /\ alarms \in [Instants -> Nat]
  /\ marked \subseteq Instants
  /\ clock \in Instants /\ starts \in 0 .. MaxStarts
  /\ found \subseteq Instants /\ handled \subseteq Instants

(* Whatever is looked at again, after a restart or with a mark pulled back *)
(* for days, "this never duplicates" (motion_poller.hpp:138-139): a motion *)
(* leads to one detection of ours at most and, if all statements succeed,  *)
(* to one alarm at most.                                                   *)
ClassifiedOnce ==
  \A m \in Instants : ours[m] <= 1 /\ (~faults => alarms[m] <= 1)

(* The mark passes nothing the query could have returned: of the motions   *)
(* it matched, with or without the LIMIT, those at or below the mark have  *)
(* been looked at (motion_poller.cpp:574-580, 822, 875, 1289).             *)
PassedAreHandled == pc # "off" => \A m \in found : m <= hwm => m \in handled

(* "Newer events never reached the loop ... Querying per camera removes    *)
(* that head-of-line blocking entirely" (motion_poller.cpp:574-580): with  *)
(* any number of motions before it and a LIMIT, a complete one above the   *)
(* mark is looked at, as long as the poller runs, unless a detection turns *)
(* up near it or the batch at hand already goes beyond it.                 *)
Due(m) == /\ running /\ ~faults /\ pc \notin {"off", "mark"}
          /\ Complete(m) /\ m > hwm /\ m \notin handled
          /\ \A i \in DOMAIN batch : batch[i] < m

DueIsHandled ==
  \A m \in Instants : Due(m) ~> (m \in handled \/ Nearby(m) \/ ~running)
=============================================================================
