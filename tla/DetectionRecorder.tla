------------------------- MODULE DetectionRecorder -------------------------
(***************************************************************************)
(* src/src/detection_recorder.cpp: DetectionRecorder::on_event, run by     *)
(* every camera worker thread, from the ONVIF notification to the rows it  *)
(* leaves in Protect's database.  Each of its sections under mu_ is one    *)
(* step, and so is each wait outside it: suppression, admission (coalesce, *)
(* rate limit, burst probe), the snapshot, the MSR call, the burst cache,  *)
(* the inserts, the alarm, and the end of a detection.                     *)
(*                                                                         *)
(* A row of `events` is a member of the sequence `rows`; its index stands  *)
(* for the UUID.  The dependents the recorder inserts with it are kept as  *)
(* the set of object types they name.  MSR is seen through the answer of   *)
(* MsrClient::StoreSnapshot (module MsrClient).                            *)
(***************************************************************************)
EXTENDS Integers, Sequences, FiniteSets, FiniteSetsExt

CONSTANTS Workers,        \* camera worker threads
          Cameras,        \* camera IP addresses
          CameraOf,       \* the camera each worker is subscribed to
          Emitted,        \* the topics each camera sends
          Ops,            \* the property operations the cameras send
          Incomplete,     \* topics that may come without the item classify() reads
          DefaultType,    \* default_object_type_
          Override,       \* camera_object_types_: a type, or NoType
          NoType,
          Inferred,       \* types the NanoDet-M detector may answer with
          Window,         \* coalesce window of each camera, 0 disables it
          MaxPerHour,     \* max_events_per_hour_, 0 for no limit
          Hour,           \* the rolling hour
          Pre, Post,      \* pre_buffer_ms_, post_buffer_ms_
          HasMsr,         \* an MsrClient is attached and the MACs are known
          DropOnFailure,  \* msr_drop_on_failure_
          BurstWindow,    \* msr_burst_window_ms_, 0 disables the cache
          DbFaults,       \* a statement may fail (it is logged, not retried)
          MaxTime,        \* bound: last instant of the clock
          MaxRows         \* bound: event rows written

Topics == {"human", "vehicle", "field", "cell", "alarm"}
AiTopics == {"human", "vehicle", "field"}
ObjectTypes == {"person", "vehicle", "animal", "package"}
KeyTypes == ObjectTypes \cup {"human"}

ASSUME ConstantsAssumption ==
  /\ CameraOf \in [Workers -> Cameras]
  /\ Emitted \in [Cameras -> SUBSET Topics]
  /\ Ops \subseteq {"Initialized", "Changed"}
  /\ Incomplete \subseteq Topics
  /\ DefaultType \in ObjectTypes
  /\ NoType \notin ObjectTypes
  /\ Override \in [Cameras -> ObjectTypes \cup {NoType}]
  /\ Inferred \subseteq ObjectTypes
  /\ Window \in [Cameras -> Nat]
  /\ MaxPerHour \in Nat /\ Hour \in Nat
  /\ Pre \in Nat /\ Post \in Nat
  /\ HasMsr \in BOOLEAN /\ DropOnFailure \in BOOLEAN /\ BurstWindow \in Nat
  /\ DbFaults \in BOOLEAN
  /\ MaxTime \in Nat /\ MaxRows \in Nat

VARIABLES clock,       \* util::now_ms(), in the model's own unit
          level,       \* the last state of each topic a worker was told
          pc,          \* where each worker is in on_event
          call,        \* the locals of its call
          aiCapable,   \* ai_capable_cameras_
          cellMotion,  \* cell_motion_cameras_
          open,        \* open_: the open row of each key, 0 for none
          lastEvent,   \* last_event_: [id, realEnd] of each key
          recent,      \* recent_event_times_
          burst,       \* msr_burst_cache_: when it was filled, 0 for never
          rows         \* the events table

recorderVars == <<aiCapable, cellMotion, open, lastEvent, recent, burst>>
vars == <<clock, level, pc, call, recorderVars, rows>>

Keys == Cameras \X KeyTypes
NoCall == [key |-> <<>>, inferable |-> FALSE, target |-> 0, cached |-> FALSE,
           label |-> "", start |-> 0, thumb |-> "none"]

(* idle: between two events.  admit: a detection began.  finish: it ended. *)
Labels == {"idle", "admit", "fetch", "forward", "cache", "insert", "notify",
           "finish"}

Init == /\ clock = Pre + 1
        /\ level = [w \in Workers |-> [t \in Topics |-> FALSE]]
        /\ pc = [w \in Workers |-> "idle"]
        /\ call = [w \in Workers |-> NoCall]
        /\ aiCapable = {}
        /\ cellMotion = {}
        /\ open = [k \in Keys |-> 0]
        /\ lastEvent = [k \in Keys |-> [id |-> 0, realEnd |-> 0]]
        /\ recent = [c \in Cameras |-> <<>>]
        /\ burst = [c \in Cameras |-> 0]
        /\ rows = <<>>

Goto(w, from, to) == /\ pc[w] = from
                     /\ pc' = [pc EXCEPT ![w] = to]

(* on_event returns: the locals are gone. *)
Return(w, from) == /\ Goto(w, from, "idle")
                   /\ call' = [call EXCEPT ![w] = NoCall]

(***************************************************************************)
(* Capability tracking, suppression and classify().                        *)
(***************************************************************************)

IsFallback(t) == t \in {"cell", "alarm"}

(* Detection::type, after the per-camera override. *)
TypeOf(c, t) == IF Override[c] # NoType THEN Override[c]
                ELSE IF t \in {"human", "vehicle"} THEN t ELSE DefaultType

(* sdo_type and smart_detect_types_json. *)
ObjectType(type) == IF type = "human" THEN "person" ELSE type

BadSuppressed(c, t, op) ==
  /\ op # "Initialized"
  /\ \/ t = "cell" /\ c \in aiCapable \cup cellMotion
     \/ t = "alarm" /\ c \in aiCapable

Suppressed(c, t, op) ==
  /\ op # "Initialized"
  /\ \/ t = "cell" /\ c \in aiCapable
     \/ t = "alarm" /\ c \in aiCapable \cup cellMotion

(* What an event that is not suppressed tells of its camera. *)
Marks(c, t, op) ==
  /\ aiCapable' = IF t \in AiTopics /\ op # "Initialized"
                  THEN aiCapable \cup {c} ELSE aiCapable
  /\ cellMotion' = IF t = "cell" /\ op # "Initialized"
                   THEN cellMotion \cup {c} ELSE cellMotion

Hear(w, t, on) == level' = [level EXCEPT ![w][t] = on]

(* A basic-motion event of a camera known to do better is dropped. *)
Suppress(w, t, on, op) ==
  /\ pc[w] = "idle"
  /\ Suppressed(CameraOf[w], t, op)
  /\ Hear(w, t, on)
  /\ UNCHANGED <<clock, pc, call, recorderVars, rows>>

(* classify() finds no state in it: the marks are all it leaves. *)
Ignore(w, t, op) ==
  /\ pc[w] = "idle"
  /\ t \in Incomplete
  /\ ~Suppressed(CameraOf[w], t, op)
  /\ Marks(CameraOf[w], t, op)
  /\ UNCHANGED <<clock, level, pc, call, open, lastEvent, recent, burst, rows>>

(* Any other event marks what the camera can do and is classified. *)
Receive(w, t, on, op) ==
  LET c == CameraOf[w]
  IN  /\ ~Suppressed(c, t, op)
      /\ on => Len(rows) < MaxRows
      /\ Hear(w, t, on)
      /\ Goto(w, "idle", IF on THEN "admit" ELSE "finish")
      /\ call' = [call EXCEPT ![w] =
                    [@ EXCEPT !.key = <<c, TypeOf(c, t)>>,
                              !.label = ObjectType(TypeOf(c, t)),
                              !.inferable = IsFallback(t) /\ Override[c] = NoType]]
      /\ Marks(c, t, op)
      /\ UNCHANGED <<clock, open, lastEvent, recent, burst, rows>>

(***************************************************************************)
(* The first section under the lock: coalesce, rate limit, burst probe.    *)
(***************************************************************************)

BadRecently(k) == /\ lastEvent[k].realEnd > 0
                  /\ clock >= lastEvent[k].realEnd
                  /\ clock - lastEvent[k].realEnd < Window[k[1]]

Recently(k) == /\ lastEvent[k].realEnd > 0
               /\ clock >= lastEvent[k].realEnd
               /\ clock - lastEvent[k].realEnd <= Window[k[1]]

Coalesces(k) == Window[k[1]] > 0 /\ (open[k] # 0 \/ Recently(k))

BadBurstFresh(c) == HasMsr /\ BurstWindow > 0 /\ burst[c] = clock

BurstFresh(c) == /\ HasMsr /\ BurstWindow > 0 /\ burst[c] > 0
                 /\ clock - burst[c] <= BurstWindow

(* The locals of an admitted detection; row 0 asks for a new one. *)
Admitted(w, row) ==
  /\ Goto(w, "admit", "fetch")
  /\ call' = [call EXCEPT ![w] = [@ EXCEPT !.target = row,
                                           !.cached = BurstFresh(CameraOf[w])]]

BadMergeIntoOpen(w) ==
  LET k == call[w].key
  IN  /\ Admitted(w, 0)
      /\ Window[k[1]] > 0 /\ open[k] # 0
      /\ UNCHANGED <<clock, level, recorderVars, rows>>

(* Case 1: the key is open, the camera re-fired "started" before "ended". *)
MergeIntoOpen(w) ==
  LET k == call[w].key
  IN  /\ Admitted(w, open[k])
      /\ Window[k[1]] > 0 /\ open[k] # 0
      /\ UNCHANGED <<clock, level, recorderVars, rows>>

(* Case 2: the last event of the key ended within the window: re-open it. *)
Reopen(w) ==
  LET k == call[w].key
  IN  /\ Admitted(w, lastEvent[k].id)
      /\ Window[k[1]] > 0 /\ open[k] = 0 /\ Recently(k)
      /\ open' = [open EXCEPT ![k] = lastEvent[k].id]
      /\ lastEvent' = [lastEvent EXCEPT ![k].realEnd = 0]
      /\ UNCHANGED <<clock, level, aiCapable, cellMotion, recent, burst, rows>>

(* times without the entries at its front that are older than the cutoff. *)
From(times, cutoff) ==
  LET fresh == {i \in DOMAIN times : times[i] >= cutoff}
  IN  IF fresh = {} THEN <<>> ELSE SubSeq(times, Min(fresh), Len(times))

BadWithinHour(c) == From(recent[c], clock - Hour + 2)

(* recent_event_times_ of the camera without the entries older than an hour. *)
WithinHour(c) == From(recent[c], clock - Hour)

AtLimit(c) == MaxPerHour > 0 /\ Len(WithinHour(c)) >= MaxPerHour

(* The pruning is done whichever way the check goes, if there is a limit. *)
Prune(c) == recent' = IF MaxPerHour > 0
                      THEN [recent EXCEPT ![c] = WithinHour(c)] ELSE recent

RateLimit(w) ==
  /\ Return(w, "admit")
  /\ ~Coalesces(call[w].key)
  /\ AtLimit(CameraOf[w])
  /\ Prune(CameraOf[w])
  /\ UNCHANGED <<clock, level, aiCapable, cellMotion, open, lastEvent, burst, rows>>

AdmitNew(w) ==
  /\ Admitted(w, 0)
  /\ ~Coalesces(call[w].key)
  /\ ~AtLimit(CameraOf[w])
  /\ Prune(CameraOf[w])
  /\ UNCHANGED <<clock, level, aiCapable, cellMotion, open, lastEvent, burst, rows>>

(***************************************************************************)
(* Outside the lock: the snapshot, the detector, MSR.                      *)
(***************************************************************************)

(* The padded start is taken here.  Without a picture, or without MSR,     *)
(* nothing is forwarded; a detector may name what generic motion was.      *)
Fetch(w, picture, label) ==
  /\ Goto(w, "fetch", IF picture /\ HasMsr /\ ~call[w].cached
                      THEN "forward" ELSE "insert")
  /\ label = call[w].label \/ (picture /\ call[w].inferable /\ label \in Inferred)
  /\ call' = [call EXCEPT ![w] =
                [@ EXCEPT !.start = clock - Pre,
                          !.label = label,
                          !.thumb = IF ~picture THEN "none"
                                    ELSE IF HasMsr /\ call[w].cached THEN "msr"
                                    ELSE "db"]]
  /\ UNCHANGED <<clock, level, recorderVars, rows>>

MsrStores(w) ==
  /\ Goto(w, "forward", IF BurstWindow > 0 THEN "cache" ELSE "insert")
  /\ call' = [call EXCEPT ![w].thumb = "msr"]
  /\ UNCHANGED <<clock, level, recorderVars, rows>>

(* The picture is dropped, or written by the recorder itself. *)
MsrFails(w) ==
  /\ Goto(w, "forward", "insert")
  /\ call' = [call EXCEPT ![w].thumb = IF DropOnFailure THEN "none" ELSE "db"]
  /\ UNCHANGED <<clock, level, recorderVars, rows>>

(* A lock section of its own, before the inserts. *)
FillBurstCache(w) ==
  /\ Goto(w, "cache", "insert")
  /\ burst' = [burst EXCEPT ![CameraOf[w]] = clock]
  /\ UNCHANGED <<clock, level, call, aiCapable, cellMotion, open, lastEvent,
                 recent, rows>>

(***************************************************************************)
(* The second section under the lock: the inserts.                         *)
(***************************************************************************)

(* Which statements of a section go through. *)
Outcomes == IF DbFaults THEN BOOLEAN ELSE {TRUE}

(* insert_sdo and its fellows: what a detection leaves beside its event. *)
Dependents(w, ok) == IF ok THEN {call[w].label} ELSE {}

(* insert_event with its dependents, the end still NULL. *)
EventRow(w, eventOk, objectOk) ==
  [key |-> call[w].key, label |-> call[w].label, start |-> call[w].start,
   end |-> 0, thumb |-> call[w].thumb, stored |-> eventOk,
   objects |-> Dependents(w, objectOk), alarmed |-> FALSE]

BadInsertNew(w, eventOk, objectOk) ==
  LET k == call[w].key
  IN  /\ Goto(w, "insert", "notify")
      /\ call[w].target = 0
      /\ rows' = Append(rows, EventRow(w, eventOk, objectOk))
      /\ call' = [call EXCEPT ![w].target = Len(rows) + 1]
      /\ open' = [open EXCEPT ![k] = Len(rows) + 1]
      /\ UNCHANGED <<clock, level, aiCapable, cellMotion, lastEvent, burst, recent>>

(* A new event: its row, open_, the hour's count, its dependents. *)
InsertNew(w, eventOk, objectOk) ==
  LET k == call[w].key
  IN  /\ Goto(w, "insert", "notify")
      /\ call[w].target = 0
      /\ rows' = Append(rows, EventRow(w, eventOk, objectOk))
      /\ call' = [call EXCEPT ![w].target = Len(rows) + 1]
      /\ open' = [open EXCEPT ![k] = Len(rows) + 1]
      /\ recent' = IF MaxPerHour > 0
                   THEN [recent EXCEPT ![CameraOf[w]] = Append(@, clock)]
                   ELSE recent
      /\ UNCHANGED <<clock, level, aiCapable, cellMotion, lastEvent, burst>>

(* A detection merged into an event only adds its own dependents. *)
InsertMerged(w, objectOk) ==
  /\ Return(w, "insert")
  /\ call[w].target # 0
  /\ rows' = [rows EXCEPT ![call[w].target].objects = @ \cup Dependents(w, objectOk)]
  /\ UNCHANGED <<clock, level, recorderVars>>

BadNotify(w) ==
  /\ Return(w, "notify")
  /\ rows' = IF call[w].thumb # "none"
             THEN [rows EXCEPT ![call[w].target].alarmed = TRUE] ELSE rows
  /\ UNCHANGED <<clock, level, recorderVars>>

(* AlarmNotifier::notify, after the lock and for new events only. *)
Notify(w) ==
  /\ Return(w, "notify")
  /\ rows' = [rows EXCEPT ![call[w].target].alarmed = TRUE]
  /\ UNCHANGED <<clock, level, recorderVars>>

(***************************************************************************)
(* The end of a detection.                                                 *)
(***************************************************************************)

(* Nothing of this key is open. *)
FinishUnknown(w) ==
  /\ Return(w, "finish")
  /\ open[call[w].key] = 0
  /\ UNCHANGED <<clock, level, recorderVars, rows>>

BadFinish(w, updateOk) ==
  LET k == call[w].key
  IN  /\ Return(w, "finish")
      /\ open[k] # 0
      /\ rows' = IF updateOk THEN [rows EXCEPT ![open[k]].end = clock + Post] ELSE rows
      /\ open' = [open EXCEPT ![k] = 0]
      /\ UNCHANGED <<clock, level, aiCapable, cellMotion, recent, burst, lastEvent>>

(* The row gets its padded end; coalescing remembers the real one. *)
Finish(w, updateOk) ==
  LET k == call[w].key
  IN  /\ Return(w, "finish")
      /\ open[k] # 0
      /\ rows' = IF updateOk THEN [rows EXCEPT ![open[k]].end = clock + Post] ELSE rows
      /\ open' = [open EXCEPT ![k] = 0]
      /\ lastEvent' = [lastEvent EXCEPT ![k] = [id |-> open[k], realEnd |-> clock]]
      /\ UNCHANGED <<clock, level, aiCapable, cellMotion, recent, burst>>

Tick == /\ clock < MaxTime
        /\ clock' = clock + 1
        /\ UNCHANGED <<level, pc, call, recorderVars, rows>>

(* A worker that has an event in hand. *)
Proceed(w) ==
  \/ MergeIntoOpen(w) \/ Reopen(w) \/ RateLimit(w) \/ AdmitNew(w)
  \/ \E picture \in BOOLEAN, label \in ObjectTypes : Fetch(w, picture, label)
  \/ MsrStores(w) \/ MsrFails(w) \/ FillBurstCache(w)
  \/ \E ok1, ok2 \in Outcomes : InsertNew(w, ok1, ok2)
  \/ \E ok \in Outcomes : InsertMerged(w, ok)
  \/ Notify(w)
  \/ FinishUnknown(w)
  \/ \E ok \in Outcomes : Finish(w, ok)

Next ==
  \/ \E w \in Workers :
       \/ \E t \in Emitted[CameraOf[w]], op \in Ops :
            \/ Ignore(w, t, op)
            \/ \E on \in BOOLEAN : Suppress(w, t, on, op) \/ Receive(w, t, on, op)
       \/ Proceed(w)
  \/ Tick

(* Every wait in on_event is bounded (libcurl and libpq timeouts, a mutex  *)
(* held across bounded calls only), so a worker gets on with its event.    *)
(* Nothing forces a camera to report anything.                             *)
Spec == Init /\ [][Next]_vars /\ \A w \in Workers : WF_vars(Proceed(w))

-----------------------------------------------------------------------------
Calls == [key : Keys \cup {<<>>}, inferable : BOOLEAN, target : Nat, cached : BOOLEAN,
          label : ObjectTypes \cup {""}, start : Nat, thumb : {"none", "db", "msr"}]

Rows == [key : Keys, label : ObjectTypes, start : Nat, end : Nat,
         thumb : {"none", "db", "msr"}, stored : BOOLEAN,
         objects : SUBSET ObjectTypes, alarmed : BOOLEAN]

TypeOK == /\ clock \in Nat
          /\ level \in [Workers -> [Topics -> BOOLEAN]]
          /\ pc \in [Workers -> Labels]
          /\ call \in [Workers -> Calls]
          /\ aiCapable \subseteq Cameras
          /\ cellMotion \subseteq Cameras
          /\ open \in [Keys -> 0 .. Len(rows)]
          /\ lastEvent \in [Keys -> [id : 0 .. Len(rows), realEnd : Nat]]
          /\ recent \in [Cameras -> Seq(Nat)]
          /\ burst \in [Cameras -> Nat]
          /\ rows \in Seq(Rows)

Unfinished(i) == rows[i].stored /\ rows[i].end = 0

(* "Reuse the open event so the burst stays as a single event in the DB"   *)
(* (detection_recorder.cpp:1326-1332): a row without an end is the one     *)
(* open_ holds for its key, so it can still be extended and closed.  A     *)
(* second row for the same key would leave the first open for good.        *)
OpenRowsTracked ==
  \A i \in DOMAIN rows : Unfinished(i) => open[rows[i].key] = i

(* Coalescing, said of the rows: between two events of a key the camera    *)
(* was quiet for more than the window, measured on the unpadded times,     *)
(* whatever was re-opened in between.                                      *)
BurstsApart ==
  \A i, j \in DOMAIN rows :
    /\ i < j /\ rows[i].key = rows[j].key
    => /\ rows[i].end # 0
       /\ (rows[j].start + Pre) - (rows[i].end - Post) > Window[rows[j].key[1]]

(* "Drop new detection events from a camera once it has produced more than *)
(* n events in the last rolling hour" (set_max_events_per_hour): no hour   *)
(* that ends now holds more rows of a camera than the limit, whatever the  *)
(* number of its keys.                                                     *)
HourlyLimit ==
  MaxPerHour > 0 =>
    \A c \in Cameras :
      Cardinality({i \in DOMAIN rows :
                     /\ rows[i].key[1] = c
                     /\ rows[i].start + Pre >= clock - Hour}) <= MaxPerHour

(* "end ... NULL while active" (detection_recorder.hpp:98): when the       *)
(* worker is between two events, an event row without an end belongs to a  *)
(* detection the camera still reports: a topic that maps to the row's key  *)
(* was last heard on.                                                      *)
NullWhileActive ==
  \A i \in DOMAIN rows :
    LET c == rows[i].key[1]
        Hearing == {w \in Workers : CameraOf[w] = c}
    IN  Unfinished(i) /\ (\A w \in Hearing : pc[w] = "idle") =>
          \E w \in Hearing, t \in Emitted[c] :
            level[w][t] /\ rows[i].key[2] = TypeOf(c, t)

(* A key is open only while the camera reports a detection of it: though   *)
(* starts and ends of several topics share the key, and suppression drops  *)
(* some of them, once the worker has dealt with an event no key is left    *)
(* open without a topic of it that was last heard on.                      *)
OpenWhileActive ==
  \A k \in Keys :
    LET Hearing == {w \in Workers : CameraOf[w] = k[1]}
    IN  open[k] # 0 /\ (\A w \in Hearing : pc[w] = "idle") =>
          \E w \in Hearing, t \in Emitted[k[1]] :
            level[w][t] /\ k[2] = TypeOf(k[1], t)

(* What the recorder remembers and what it wrote agree on which row is the *)
(* newest event of each key, the one a detection may be merged into (open_ *)
(* while it lasts, last_event_ once it is over), though statements fail    *)
(* and rows are never read back: no detection goes to an older event.      *)
MemoryNewest ==
  \A k \in Keys :
    LET newest == IF open[k] # 0 THEN open[k] ELSE lastEvent[k].id
    IN  \A i \in DOMAIN rows : rows[i].key = k =>
          newest \in DOMAIN rows /\ rows[newest].key = k /\ i <= newest

(* "Bursts of detections for the same camera collapse onto a single MSR    *)
(* snapshot" (set_msr_burst_window_ms): MSR never takes a second picture   *)
(* of a camera within the burst window of the one it stored last.          *)
OneStorePerBurst ==
  [][\A w \in Workers :
       FillBurstCache(w) /\ burst[CameraOf[w]] > 0
         => clock - burst[CameraOf[w]] > BurstWindow]_vars

(* Every new event raises its alarm in the end, whichever way its picture  *)
(* took, and though later events of the camera may come first to the lock. *)
NewEventAlarms ==
  \A i \in 1 .. MaxRows :
    i \in DOMAIN rows ~> i \in DOMAIN rows /\ rows[i].alarmed

-----------------------------------------------------------------------------
(* One worker per camera, with coalescing on, implements EventLog: the     *)
(* rows, in the order they were inserted and without the padding, are the  *)
(* episodes.                                                               *)
Episode(row) == [key  |-> row.key,
                 from |-> row.start + Pre,
                 to   |-> IF row.end = 0 THEN 0 ELSE row.end - Post]

Log == INSTANCE EventLog WITH
         Gap      <- [k \in Keys |-> Window[k[1]]],
         now      <- clock,
         active   <- {k \in Keys : open[k] # 0},
         episodes <- [i \in DOMAIN rows |-> Episode(rows[i])]

EventLogSpec == Log!Spec
=============================================================================
