-------------------------- MODULE RecorderStartup --------------------------
(***************************************************************************)
(* What main.cpp does to the events of earlier runs before it listens to   *)
(* any camera (src/src/main.cpp:1120-1208): DetectionRecorder::            *)
(* purge_stale_open_events, coalesce_history and purge_orphaned_rows, over *)
(* the PostgreSQL backend.  The purges are transactions; a merge is six    *)
(* statements of their own, each of which may fail (it is only logged),    *)
(* and the process may stop between any two and start over.                *)
(*                                                                         *)
(* One camera; a group is the text of smartDetectTypes.  The dependents of *)
(* row i are pairs <<table, i>>; a smartDetectRaws row has no eventId, so  *)
(* it is known by its timestamp, the start of row i.                       *)
(***************************************************************************)
EXTENDS Integers, Sequences, FiniteSets

CONSTANTS Ids,         \* event rows found at startup
          Groups,      \* smartDetectTypes
          Times,       \* instants a row may start or end at; 0: no end
          Window,      \* coalesce_window_ms_
          StaleBefore, \* now - 300000 at startup
          RawGrace,    \* the 60 s of raws purged with a stale event
          MaxCrashes   \* bound: restarts in the middle of a startup

ASSUME ConstantsAssumption ==
  /\ Ids \subseteq Nat /\ IsFiniteSet(Ids)
  /\ Groups \subseteq Nat /\ Times \subseteq Nat \ {0}
  /\ Window \in Nat
  /\ StaleBefore \in Nat /\ RawGrace \in Nat
  /\ MaxCrashes \in Nat

VARIABLES group, start,   \* columns no statement changes
          end,            \* "end"; 0 is NULL
          present,        \* rows still in events
          deps,           \* rows of the dependent tables
          phase,          \* where startup is
          list,           \* coalesce_history: the rows it read
          base, next,     \* coalesce_history: its two indices into list
          crashes,
          before,         \* `end` as the startup first found it
          faults          \* statements may fail

columns == <<group, start, before, faults>>
locals == <<list, base, next>>
vars == <<columns, end, present, deps, phase, locals, crashes>>

Tables == {"thumbnails", "objects", "labels"}

Phases == {"stale", "query", "walk", "extend", "raws", "thumbnails", "objects",
           "labels", "event", "orphans", "done"}

(* Ids are handed out in the order of start; two rows of a group never     *)
(* start at once (EventLog).                                               *)
Init == /\ group \in [Ids -> Groups]
        /\ start \in [Ids -> Times]
        /\ end \in [Ids -> Times \cup {0}]
        /\ \A i, j \in Ids :
             i < j => start[i] <= start[j] /\ (group[i] = group[j] => start[i] < start[j])
        /\ \A i \in Ids : end[i] # 0 => start[i] <= end[i]
        /\ before = end
        /\ present = Ids
        /\ deps = (Tables \cup {"raws"}) \X Ids
        /\ phase = "stale"
        /\ list = <<>> /\ base = 0 /\ next = 0
        /\ crashes = 0
        /\ faults \in BOOLEAN

Goto(from, to) == phase = from /\ phase' = to

Outcomes == IF faults THEN BOOLEAN ELSE {TRUE}

RawsWithin(from, to) == {d \in deps : d[1] = "raws" /\ start[d[2]] \in from .. to}

Owned(ids) == {d \in deps : d[1] # "raws" /\ d[2] \in ids}

(***************************************************************************)
(* purge_stale_open_events: one transaction, or nothing.                   *)
(***************************************************************************)

Stale == {i \in present : end[i] = 0 /\ start[i] < StaleBefore}

PurgeStale(ok) ==
  /\ Goto("stale", "query")
  /\ IF ok
     THEN /\ present' = present \ Stale
          /\ deps' = deps \ (Owned(Stale) \cup
                       UNION {RawsWithin(start[i], start[i] + RawGrace) : i \in Stale})
     ELSE UNCHANGED <<present, deps>>
  /\ UNCHANGED <<columns, end, locals, crashes>>

(***************************************************************************)
(* coalesce_history: read the ended rows once, then walk the list.         *)
(***************************************************************************)

(* WHERE "end" IS NOT NULL *)
Ended == {i \in present : end[i] # 0}

(* ORDER BY "smartDetectTypes"::text, start; ties in any order. *)
Ordered(s) == \A m, n \in DOMAIN s :
                m < n => \/ group[s[m]] < group[s[n]]
                         \/ group[s[m]] = group[s[n]] /\ start[s[m]] <= start[s[n]]

Orderings == {s \in [1 .. Cardinality(Ended) -> Ended] :
                /\ \A m, n \in DOMAIN s : s[m] = s[n] => m = n
                /\ Ordered(s)}

Query(ok) ==
  /\ Goto("query", IF ok /\ Window > 0 /\ Ended # {} THEN "walk" ELSE "orphans")
  /\ \E s \in Orderings :
       list' = IF ok /\ Window > 0
               THEN [n \in DOMAIN s |-> [id |-> s[n], end |-> end[s[n]]]] ELSE <<>>
  /\ base' = 1 /\ next' = 2
  /\ UNCHANGED <<columns, end, present, deps, crashes>>

Walking == phase = "walk" /\ next <= Len(list)

into == list[base].id
from == list[next].id

(* Overlapping, or at most the window apart, in the same group. *)
Within == /\ group[from] = group[into]
          /\ \/ start[from] <= list[base].end
             \/ start[from] - list[base].end <= Window

NewEnd == IF list[base].end >= list[next].end THEN list[base].end ELSE list[next].end

KeepApart == /\ Walking /\ ~Within
             /\ base' = next /\ next' = next + 1
             /\ UNCHANGED <<columns, end, present, deps, phase, list, crashes>>

Merge == /\ Walking /\ Within
         /\ phase' = "extend"
         /\ UNCHANGED <<columns, end, present, deps, locals, crashes>>

BadExtend(ok) == /\ Goto("extend", "raws")
                 /\ end' = IF ok THEN [end EXCEPT ![into] = list[next].end] ELSE end
                 /\ UNCHANGED <<columns, present, deps, locals, crashes>>

(* UPDATE events SET "end" of the surviving row. *)
Extend(ok) == /\ Goto("extend", "raws")
              /\ end' = IF ok THEN [end EXCEPT ![into] = NewEnd] ELSE end
              /\ UNCHANGED <<columns, present, deps, locals, crashes>>

(* DELETE FROM "smartDetectRaws" ... USING events: the range of the row. *)
DeleteRaws(ok) ==
  /\ Goto("raws", "thumbnails")
  /\ deps' = IF ok /\ from \in present
             THEN deps \ RawsWithin(start[from], end[from]) ELSE deps
  /\ UNCHANGED <<columns, end, present, locals, crashes>>

BadDeleteOwned(table, to, ok) ==
  /\ Goto(table, to)
  /\ deps' = IF ok THEN deps \ {<<table, into>>} ELSE deps
  /\ UNCHANGED <<columns, end, present, locals, crashes>>

DeleteOwned(table, to, ok) ==
  /\ Goto(table, to)
  /\ deps' = IF ok THEN deps \ {<<table, from>>} ELSE deps
  /\ UNCHANGED <<columns, end, present, locals, crashes>>

BadDeleteAgain(ok) ==
  /\ Goto("event", "walk")
  /\ present' = IF ok THEN present \ {from} ELSE present
  /\ list' = [list EXCEPT ![base].end = NewEnd]
  /\ UNCHANGED <<columns, end, deps, base, next, crashes>>

BadDeleteSkips(ok) ==
  /\ Goto("event", "walk")
  /\ present' = IF ok THEN present \ {from} ELSE present
  /\ list' = [list EXCEPT ![base].end = NewEnd]
  /\ next' = next + 2
  /\ UNCHANGED <<columns, end, deps, base, crashes>>

(* DELETE FROM events; the base absorbs the row and the walk goes on. *)
DeleteEvent(ok) ==
  /\ Goto("event", "walk")
  /\ present' = IF ok THEN present \ {from} ELSE present
  /\ list' = [list EXCEPT ![base].end = NewEnd]
  /\ next' = next + 1
  /\ UNCHANGED <<columns, end, deps, base, crashes>>

EndWalk == /\ phase = "walk" /\ next > Len(list)
           /\ phase' = "orphans"
           /\ UNCHANGED <<columns, end, present, deps, locals, crashes>>

(***************************************************************************)
(* purge_orphaned_rows: one transaction over the four tables, or nothing.  *)
(***************************************************************************)

Covered(t) == \E i \in present : start[i] <= t /\ (end[i] = 0 \/ end[i] >= t)

Orphans == {d \in deps : IF d[1] = "raws" THEN ~Covered(start[d[2]])
                         ELSE d[2] \notin present}

PurgeOrphans(ok) == /\ Goto("orphans", "done")
                    /\ deps' = IF ok THEN deps \ Orphans ELSE deps
                    /\ UNCHANGED <<columns, end, present, locals, crashes>>

(* The process stops in the middle and the service is started again. *)
Crash == /\ phase # "done" /\ crashes < MaxCrashes
         /\ crashes' = crashes + 1
         /\ phase' = "stale"
         /\ list' = <<>> /\ base' = 0 /\ next' = 0
         /\ UNCHANGED <<columns, end, present, deps>>

Step == \/ KeepApart \/ Merge \/ EndWalk
        \/ \E ok \in Outcomes :
             \/ PurgeStale(ok) \/ Query(ok)
             \/ Extend(ok) \/ DeleteRaws(ok)
             \/ DeleteOwned("thumbnails", "objects", ok)
             \/ DeleteOwned("objects", "labels", ok)
             \/ DeleteOwned("labels", "event", ok)
             \/ DeleteEvent(ok) \/ PurgeOrphans(ok)

Next == Step \/ Crash

(* Every statement has a timeout (pg_util.cpp), so startup goes on. *)
Spec == Init /\ [][Next]_vars /\ WF_vars(Step)

-----------------------------------------------------------------------------
TypeOK == /\ end \in [Ids -> Times \cup {0}]
          /\ present \subseteq Ids
          /\ deps \subseteq (Tables \cup {"raws"}) \X Ids
          /\ phase \in Phases
          /\ list \in Seq([id : Ids, end : Times])
          /\ base \in 0 .. Len(list) + 1 /\ next \in 0 .. Len(list) + 2
          /\ crashes \in 0 .. MaxCrashes
          /\ faults \in BOOLEAN

(* Whatever is merged, and wherever startup is interrupted, the time of an *)
(* ended event stays on the timeline: some row of its group covers it.     *)
(* "Extend the surviving event's end to new_end_ms, then delete the merged *)
(* event" (IDbBackend::coalesce_events) is what this rests on, and it does *)
(* not hold where statements fail: the second may succeed alone.           *)
CoverageKept ==
  ~faults =>
    \A i \in Ids : before[i] # 0 =>
      \E j \in present : /\ group[j] = group[i]
                         /\ start[j] <= start[i] /\ end[j] >= before[i]

(* After a startup, interrupted any number of times before, nothing is     *)
(* left to merge: two ended rows of a group are more than the window apart.*)
NothingLeftToMerge ==
  phase = "done" /\ Window > 0 /\ ~faults =>
    \A i, j \in Ended : i < j /\ group[i] = group[j] => start[j] - end[i] > Window

(* After a startup a row that survived still has what it came with: an     *)
(* interruption between the deletes of a merge leaves no event stripped of *)
(* its thumbnail, objects and labels, and no dependent of a deleted event. *)
WholeOrGone ==
  phase = "done" /\ ~faults =>
    /\ \A d \in deps : d[1] # "raws" => d[2] \in present
    /\ Tables \X present \subseteq deps

(* The maintenance comes to its end, though statements fail and the walk   *)
(* over the list skips what it merged: cameras are listened to only after. *)
StartupEnds == <>(phase = "done")
=============================================================================
