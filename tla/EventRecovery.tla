--------------------------- MODULE EventRecovery ----------------------------
(***************************************************************************)
(* src/src/event_recovery.cpp and the thread of src/src/main.cpp:1150-1192 *)
(* that runs it at startup: if the events look wiped, Protect's backup is  *)
(* restored; then events that lack what Protect 7.1 shows are completed, a *)
(* batch at a time, oldest first, every statement on its own.              *)
(* src/src/enrich_events_main.cpp, the tool that does the same for a day of*)
(* a camera in one transaction, may run at the same time.                  *)
(*                                                                         *)
(* An event has at most one object.                                        *)
(***************************************************************************)
EXTENDS Integers, FiniteSets, FiniteSetsExt

CONSTANTS Events,     \* events, in the order of their starts
          Backup,     \* those in the newest backup
          Hopeless,   \* those with a statement that always fails
          MinBatch, MaxBatch, FirstBatch, \* kMinBatch, kMaxBatch, 25
          Target,     \* target_batch_ms
          Durations,  \* how long a batch may take
          MaxTrouble  \* bound: statements that fail now and then, crashes

VARIABLES present,  \* events
          labelled, \* detectionLabels: events with an objectId
          rich,     \* events whose metadata have detectedAreas
          objects,  \* events with their smartDetectObjects row
          areas,    \* events with their smartDetectObjectAreas row
          pc,
          batch,    \* rows of the SELECT not yet processed
          hasObject,\* whether the event at hand has an object_ids entry
          size,     \* batch_size
          cancelled,\* g_recovery_shutdown
          trouble

tables == <<present, labelled, rich, objects, areas>>
vars == <<tables, pc, batch, hasObject, size, cancelled, trouble>>

Init == /\ present \in {{}, Events \ Backup, Events} /\ labelled \in SUBSET Events
        /\ rich = {} /\ objects = {} /\ areas = {}
        /\ pc = "start" /\ batch = {} /\ hasObject = FALSE
        /\ size = FirstBatch /\ cancelled = FALSE /\ trouble = 0

Goto(from, to) == pc = from /\ pc' = to

Troubled == trouble < MaxTrouble /\ trouble' = trouble + 1

Current == Min(batch)

-----------------------------------------------------------------------------
(* The oldest event that exists is newer than the recordings, or there is  *)
(* none, or the query failed, which looks the same.  pg_restore reports no *)
(* error.                                                                  *)
Wiped == present = {} \/ Min(Events) \notin present

Recover(answered) ==
  /\ Goto("start", IF cancelled THEN "off" ELSE "select")
  /\ IF answered THEN trouble' = trouble ELSE Troubled
  /\ present' = IF ~cancelled /\ (Wiped \/ ~answered) THEN present \cup Backup ELSE present
  /\ UNCHANGED <<labelled, rich, objects, areas, batch, hasObject, size, cancelled>>

(* Legacy metadata, or a label whose object does not exist. *)
Selected == {e \in present : e \notin rich \/ e \in labelled \ objects}

Oldest(events, limit) == {e \in events : Cardinality({f \in events : f < e}) < limit}

Select == /\ pc = "select"
          /\ batch' = IF cancelled THEN {} ELSE Oldest(Selected, size)
          /\ pc' = IF cancelled THEN "off" ELSE IF batch' = {} THEN "complete" ELSE "objects"
          /\ UNCHANGED <<tables, hasObject, size, cancelled, trouble>>

SelectFails == /\ Goto("select", "off")
               /\ Troubled
               /\ UNCHANGED <<tables, batch, hasObject, size, cancelled>>

(* A statement that fails is only logged. *)
Outcome(ok) == /\ ok => Current \notin Hopeless /\ trouble' = trouble
               /\ ~ok => IF Current \in Hopeless THEN trouble' = trouble ELSE Troubled

(* The object ids of the event's rows and labels, and a row for each.      *)
Materialise(known, ok) ==
  /\ Goto("objects", "metadata")
  /\ hasObject' = (known /\ Current \in objects \cup labelled)
  /\ IF known THEN Outcome(ok) ELSE ~ok /\ Troubled
  /\ objects' = IF ok /\ hasObject' THEN objects \cup ({Current} \cap present) ELSE objects
  /\ UNCHANGED <<present, labelled, rich, areas, batch, size, cancelled>>

(* BuildEnrichedMetadata: metadata with detectedAreas. *)
Enriched(events) == rich \cup (events \cap present)

Enrich(ok) == /\ Goto("metadata", "areas")
              /\ Outcome(ok)
              /\ rich' = IF ok THEN Enriched({Current}) ELSE rich
              /\ UNCHANGED <<present, labelled, objects, areas, batch, hasObject, size, cancelled>>

AddAreas(ok) == /\ pc = "areas"
                /\ IF hasObject THEN Outcome(ok) ELSE ok /\ trouble' = trouble
                /\ areas' = IF ok /\ hasObject THEN areas \cup ({Current} \cap objects) ELSE areas
                /\ batch' = batch \ {Current}
                /\ pc' = IF batch' = {} THEN "adapt" ELSE "objects"
                /\ UNCHANGED <<present, labelled, rich, objects, hasObject, size, cancelled>>

Clamp(n) == Max({MinBatch, Min({MaxBatch, n})})

BadNextBatchSize(current, elapsed) ==
  IF elapsed = 0 THEN Clamp(current)
  ELSE IF elapsed > Target /\ current > MinBatch THEN (current * Target) \div elapsed
  ELSE IF elapsed * 2 < Target THEN Min({MaxBatch, current * 2}) ELSE current

NextBatchSize(current, elapsed) ==
  IF elapsed = 0 THEN Clamp(current)
  ELSE IF elapsed > Target THEN Clamp((current * Target) \div elapsed)
  ELSE IF elapsed * 2 < Target THEN Clamp(current * 2) ELSE Clamp(current)

(* Then it sleeps, as long as the batch took; a shutdown ends that.        *)
Adapt == /\ pc = "adapt"
         /\ \E elapsed \in Durations :
              /\ size' = NextBatchSize(size, elapsed)
              /\ pc' = IF cancelled /\ elapsed > 0 THEN "off" ELSE "select"
         /\ UNCHANGED <<tables, batch, hasObject, cancelled, trouble>>

Recovery == \/ Select \/ SelectFails \/ Adapt
            \/ \E ok \in BOOLEAN : Recover(ok) \/ Enrich(ok) \/ AddAreas(ok)
            \/ \E known, ok \in BOOLEAN : Materialise(known, ok)

-----------------------------------------------------------------------------
Cancel == /\ ~cancelled
          /\ cancelled' = TRUE
          /\ UNCHANGED <<tables, pc, batch, hasObject, size, trouble>>

(* The process ends and starts again. *)
Restart == /\ Troubled
           /\ pc' = "start" /\ batch' = {} /\ size' = FirstBatch /\ cancelled' = FALSE
           /\ UNCHANGED <<tables, hasObject>>

(* Events come and go meanwhile; coalesce_history takes an event with its  *)
(* rows.  The tool does all events of a day or none.                       *)
Arrive(e) == /\ e \in Events \ (present \cup Backup)
             /\ present' = present \cup {e}
             /\ UNCHANGED <<labelled, rich, objects, areas, pc, batch, hasObject, size, cancelled, trouble>>

Coalesce(e) == /\ e \in present /\ Troubled
               /\ present' = present \ {e} /\ labelled' = labelled \ {e}
               /\ rich' = rich \ {e} /\ objects' = objects \ {e} /\ areas' = areas \ {e}
               /\ UNCHANGED <<pc, batch, hasObject, size, cancelled>>

EnrichDay(day) == /\ Troubled /\ day # {} /\ day \subseteq present \ Hopeless
                  /\ rich' = Enriched(day)
                  /\ objects' = objects \cup (day \cap labelled)
                  /\ areas' = areas \cup (day \cap labelled)
                  /\ UNCHANGED <<present, labelled, pc, batch, hasObject, size, cancelled>>

Next == \/ Recovery \/ Cancel \/ Restart
        \/ \E e \in Events : Arrive(e) \/ Coalesce(e)
        \/ \E day \in SUBSET Events : EnrichDay(day)

Spec == Init /\ [][Next]_vars /\ WF_vars(Recovery)

-----------------------------------------------------------------------------
TypeOK == /\ present \subseteq Events /\ labelled \subseteq Events /\ rich \subseteq Events
          /\ objects \subseteq Events /\ areas \subseteq Events /\ batch \subseteq Events
          /\ pc \in {"off", "start", "select", "objects", "metadata", "areas", "adapt", "complete"}
          /\ hasObject \in BOOLEAN /\ cancelled \in BOOLEAN
          /\ size \in Nat /\ trouble \in 0 .. MaxTrouble

(* "every event that needs enrichment gets processed" (event_recovery.hpp: *)
(* 44-45): without a cursor, and whatever size the batches shrink to, an   *)
(* event is completed as long as the thread runs and fewer events than the *)
(* smallest batch are hopeless.                                            *)
OthersEnriched ==
  \A e \in Events \ Hopeless :
    (pc \notin {"off", "complete"} /\ e \in Selected) ~> (e \notin Selected \/ pc = "off")
=============================================================================
