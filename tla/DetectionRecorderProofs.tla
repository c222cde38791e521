---------------------- MODULE DetectionRecorderProofs ----------------------
(***************************************************************************)
(* Theorems of DetectionRecorder, for every set of cameras, window, limit  *)
(* and clock.  Types and the agreement of memory and table hold for any    *)
(* number of workers; the others for one worker per camera, which is what  *)
(* the supervisor keeps (ListenerSupervisorProofs,                         *)
(* OneWorkerPerCameraHolds).                                               *)
(***************************************************************************)
EXTENDS DetectionRecorder, FiniteSetTheorems, NaturalsInduction, SequenceTheorems, TLAPS

(* A call in hand has its key, that of the worker's camera, and from its   *)
(* admission on a row, 0 standing for one to be made.                      *)
Fetching == {"fetch", "forward", "cache", "insert"}

CallInv ==
  \A w \in Workers :
    /\ pc[w] # "idle" => /\ call[w].key \in Keys
                         /\ call[w].key[1] = CameraOf[w]
                         /\ call[w].label \in ObjectTypes
    /\ pc[w] \in Fetching => call[w].target \in 0 .. Len(rows)
    /\ pc[w] = "notify" => call[w].target \in 1 .. Len(rows)

BaseInv == TypeOK /\ clock > Pre /\ CallInv

(* Hypotheses: no camera has two workers; every camera coalesces.          *)
OneListenerEach == \A v, w \in Workers : CameraOf[v] = CameraOf[w] => v = w

Coalescing == \A c \in Cameras : Window[c] > 0

(* Memory and table agree: what is remembered of a key is a row of it, and *)
(* an end is remembered with its row.                                      *)
MemoryInv ==
  /\ MemoryNewest
  /\ \A k \in Keys : /\ open[k] # 0 => rows[open[k]].key = k
                     /\ lastEvent[k].id # 0 => rows[lastEvent[k].id].key = k
                     /\ lastEvent[k].realEnd > 0 => lastEvent[k].id # 0

(* The row a detection is merged into is the open one of its key; where    *)
(* the camera coalesces, one that gets a new row has found none open.      *)
MergeInv ==
  \A w \in Workers : pc[w] \in Fetching =>
    LET k == call[w].key
    IN  /\ call[w].target # 0 => open[k] = call[w].target
        /\ call[w].target = 0 /\ Window[k[1]] > 0 => open[k] = 0

(* Ends lie in the past, and the last of a key is remembered.              *)
EndsInv ==
  /\ \A i \in DOMAIN rows :
       rows[i].end # 0 => rows[i].end > Post /\ rows[i].end - Post <= clock
  /\ \A k \in Keys : lastEvent[k].realEnd <= clock
  /\ \A i \in DOMAIN rows :
       /\ rows[i].end = 0 => open[rows[i].key] = i
       /\ open[rows[i].key] = 0 => rows[i].end - Post <= lastEvent[rows[i].key].realEnd

(* A detection that gets a new row began more than the window after every  *)
(* row of its key ended.                                                   *)
Began(w) == IF pc[w] = "fetch" THEN clock ELSE call[w].start + Pre

ApartInv ==
  \A w \in Workers : pc[w] \in Fetching /\ call[w].target = 0 =>
    \A i \in DOMAIN rows : rows[i].key = call[w].key =>
      Began(w) - (rows[i].end - Post) > Window[CameraOf[w]]

EpisodesInv == BaseInv /\ MemoryInv /\ MergeInv /\ EndsInv /\ ApartInv /\ BurstsApart

(* Whoever is about to take a picture for MSR found no fresh one.          *)
BurstInv ==
  \A w \in Workers :
    /\ pc[w] = "cache" => BurstWindow > 0
    /\ /\ BurstWindow > 0 /\ burst[CameraOf[w]] > 0
       /\ \/ pc[w] = "fetch" /\ HasMsr /\ ~call[w].cached
          \/ pc[w] \in {"forward", "cache"}
       => clock - burst[CameraOf[w]] > BurstWindow

(* The times noted for the hour: one for each row of the hour, and where a *)
(* new row is to come, fewer than the limit.                               *)
Late(rs, c, t) == {i \in DOMAIN rs : rs[i].key[1] = c /\ rs[i].start + Pre >= t}

Noted(times, t) == {n \in DOMAIN times : times[n] >= t}

HourInv ==
  /\ \A w \in Workers : pc[w] \in Fetching =>
       /\ Began(w) <= clock
       /\ call[w].target = 0 =>
            Cardinality(Noted(recent[CameraOf[w]], clock - Hour)) < MaxPerHour
  /\ \A c \in Cameras :
       /\ Cardinality(Noted(recent[c], clock - Hour)) <= MaxPerHour
       /\ \A t \in Int : t >= clock - Hour =>
            Cardinality(Late(rows, c, t)) <= Cardinality(Noted(recent[c], t))

(* Hypothesis: no suppression hides the end of a detection.  A camera      *)
(* sends AI events only, or basic motion only and then in Changed          *)
(* notifications that hold the cell state.                                 *)
NoEndHidden ==
  \A c \in Cameras :
    \/ Emitted[c] \subseteq AiTopics
    \/ /\ Emitted[c] \subseteq {"cell", "alarm"}
       /\ Ops \subseteq {"Changed"} /\ "cell" \notin Incomplete

(* The topics of a camera that are suppressed, and the keys it was last    *)
(* heard to report on a topic whose end will be heard too.                 *)
Muted(ai, cell, c, t) ==
  \/ t = "cell" /\ c \in ai
  \/ t = "alarm" /\ c \in ai \cup cell

HeardIn(heard, ai, cell, c, k) ==
  \E t \in Emitted[c] : heard[t] /\ k[2] = TypeOf(c, t) /\ ~Muted(ai, cell, c, t)

(* Each open key is one of them, but for a key whose end is at hand.       *)
HeardInv ==
  /\ \A k \in Keys : open[k] # 0 =>
       \E w \in Workers :
         /\ CameraOf[w] = k[1]
         /\ \/ HeardIn(level[w], aiCapable, cellMotion, CameraOf[w], k)
            \/ pc[w] = "finish" /\ call[w].key = k
  /\ \A w \in Workers : pc[w] \in Fetching \cup {"admit"} =>
       HeardIn(level[w], aiCapable, cellMotion, CameraOf[w], call[w].key)
  /\ \A c \in aiCapable : ~ (Emitted[c] \subseteq {"cell", "alarm"})

-----------------------------------------------------------------------------
(***************************************************************************)
(* The records of a call and of a row, and what setting a field leaves.    *)
(***************************************************************************)
Thumbs == {"none", "db", "msr"}

(* A call that is updated, and its fields. *)
Received(r, key, label, inferable) ==
  [r EXCEPT !.key = key, !.label = label, !.inferable = inferable]

Targeted(r, target, cached) == [r EXCEPT !.target = target, !.cached = cached]

Fetched(r, start, label, thumb) ==
  [r EXCEPT !.start = start, !.label = label, !.thumb = thumb]

Forwarded(r, thumb) == [r EXCEPT !.thumb = thumb]

Inserted(r, target) == [r EXCEPT !.target = target]

(* The lemmas on a call: an update keeps the type and the other fields. *)
LEMMA CallReceived ==
  ASSUME NEW r \in Calls, NEW key \in Keys, NEW label \in ObjectTypes, NEW inferable \in BOOLEAN
  PROVE  LET s == Received(r, key, label, inferable)
         IN  s \in Calls /\ s.key = key /\ s.label = label
BY DEF Calls, Received

(* The row it is merged into, 0 for a new one. *)
LEMMA CallTargeted ==
  ASSUME NEW r \in Calls, NEW target \in Nat, NEW cached \in BOOLEAN
  PROVE  LET s == Targeted(r, target, cached)
         IN  /\ s \in Calls /\ s.key = r.key /\ s.label = r.label
             /\ s.target = target /\ s.cached = cached
BY DEF Calls, Targeted

(* Its start, its label and where the picture comes from. *)
LEMMA CallFetched ==
  ASSUME NEW r \in Calls, NEW start \in Nat, NEW label \in ObjectTypes, NEW thumb \in Thumbs
  PROVE  LET s == Fetched(r, start, label, thumb)
         IN  /\ s \in Calls /\ s.key = r.key /\ s.label = label
             /\ s.target = r.target /\ s.start = start
BY DEF Calls, Thumbs, Fetched

(* Where the picture ends up. *)
LEMMA CallForwarded ==
  ASSUME NEW r \in Calls, NEW thumb \in Thumbs
  PROVE  LET s == Forwarded(r, thumb)
         IN  /\ s \in Calls /\ s.key = r.key /\ s.label = r.label
             /\ s.target = r.target /\ s.start = r.start
BY DEF Calls, Thumbs, Forwarded

(* The row it made. *)
LEMMA CallInserted ==
  ASSUME NEW r \in Calls, NEW target \in Nat
  PROVE  LET s == Inserted(r, target)
         IN  s \in Calls /\ s.key = r.key /\ s.label = r.label /\ s.target = target
BY DEF Calls, Inserted

(* A row that is updated keeps its key and its start. *)
Merged(r, objects) == [r EXCEPT !.objects = @ \cup objects]

Alarmed(r) == [r EXCEPT !.alarmed = TRUE]

Closed(r, end) == [r EXCEPT !.end = end]

SameEvent(s, r) == s \in Rows /\ s.key = r.key /\ s.start = r.start

(* An update of a row keeps the key and the start; only closing sets an    *)
(* end.                                                                    *)
LEMMA RowUpdates ==
  ASSUME NEW r \in Rows
  PROVE  /\ \A objects \in SUBSET ObjectTypes :
              SameEvent(Merged(r, objects), r) /\ Merged(r, objects).end = r.end
         /\ SameEvent(Alarmed(r), r) /\ Alarmed(r).end = r.end
         /\ \A end \in Nat : SameEvent(Closed(r, end), r) /\ Closed(r, end).end = end
<1>1. ASSUME NEW objects \in SUBSET ObjectTypes
      PROVE  SameEvent(Merged(r, objects), r) /\ Merged(r, objects).end = r.end
  BY DEF Rows, SameEvent, Merged
<1>2. SameEvent(Alarmed(r), r) /\ Alarmed(r).end = r.end
  BY DEF Rows, SameEvent, Alarmed
<1>3. ASSUME NEW end \in Nat
      PROVE  SameEvent(Closed(r, end), r) /\ Closed(r, end).end = end
  BY DEF Rows, SameEvent, Closed
<1> QED
  BY <1>1, <1>2, <1>3

(* One worker's call is replaced, the others are not. *)
LEMMA SetCall ==
  ASSUME NEW f \in [Workers -> Calls], NEW w \in Workers, NEW s \in Calls,
         NEW g, g = [f EXCEPT ![w] = s]
  PROVE  /\ g \in [Workers -> Calls] /\ g[w] = s
         /\ \A v \in Workers : v # w => g[v] = f[v]
OBVIOUS

(* One row is replaced, the others are not. *)
LEMMA SetRow ==
  ASSUME NEW f \in Seq(Rows), NEW i \in 1 .. Len(f), NEW s \in Rows,
         NEW g, g = [f EXCEPT ![i] = s]
  PROVE  /\ g \in Seq(Rows) /\ Len(g) = Len(f) /\ g[i] = s
         /\ \A j \in 1 .. Len(f) : j # i => g[j] = f[j]
<1>1. Len(f) \in Nat /\ f \in [1 .. Len(f) -> Rows]
  BY LenProperties
<1>2. g \in [1 .. Len(f) -> Rows]
  BY <1>1
<1>3. g \in Seq(Rows) /\ Len(g) = Len(f)
  BY <1>1, <1>2
<1> QED
  BY <1>1, <1>3

(* A step of one worker moves that worker only. *)
LEMMA GotoMoves ==
  ASSUME BaseInv, NEW w \in Workers, NEW from, NEW to \in Labels, Goto(w, from, to)
  PROVE  /\ pc[w] = from /\ pc' \in [Workers -> Labels] /\ pc'[w] = to
         /\ \A v \in Workers : v # w => pc'[v] = pc[v]
BY DEF BaseInv, TypeOK, Goto

(* The rows and their number. *)
LEMMA RowsShape ==
  ASSUME BaseInv
  PROVE  /\ rows \in Seq(Rows) /\ Len(rows) \in Nat /\ DOMAIN rows = 1 .. Len(rows)
         /\ \A i \in 1 .. Len(rows) :
              /\ rows[i] \in Rows /\ rows[i].key \in Keys
              /\ rows[i].start \in Nat /\ rows[i].end \in Nat
<1>1. rows \in Seq(Rows)
  BY DEF BaseInv, TypeOK
<1>2. Len(rows) \in Nat /\ DOMAIN rows = 1 .. Len(rows) /\ rows \in [1 .. Len(rows) -> Rows]
  BY <1>1, LenProperties
<1>3. \A r \in Rows : r.key \in Keys /\ r.start \in Nat /\ r.end \in Nat
  BY DEF Rows
<1> QED
  BY <1>1, <1>2, <1>3

(* A key names its camera. *)
LEMMA KeyCamera ==
  ASSUME NEW k \in Keys
  PROVE  k[1] \in Cameras /\ k[2] \in KeyTypes
BY DEF Keys

(* The type of an event is the second part of a key. *)
LEMMA TypesOfEvents ==
  ASSUME NEW c \in Cameras, NEW t \in Topics
  PROVE  /\ TypeOf(c, t) \in KeyTypes /\ ObjectType(TypeOf(c, t)) \in ObjectTypes
         /\ <<c, TypeOf(c, t)>> \in Keys
<1>1. TypeOf(c, t) \in KeyTypes
  BY ConstantsAssumption DEF TypeOf, KeyTypes, ObjectTypes, Topics
<1>2. ObjectType(TypeOf(c, t)) \in ObjectTypes
  BY <1>1 DEF ObjectType, KeyTypes, ObjectTypes
<1> QED
  BY <1>1, <1>2 DEF Keys

-----------------------------------------------------------------------------
(***************************************************************************)
(* What each action does to the calls, said without their records.         *)
(***************************************************************************)
Others(w) == \A v \in Workers : v # w => pc'[v] = pc[v] /\ call'[v] = call[v]

CallsTyped == pc' \in [Workers -> Labels] /\ call' \in [Workers -> Calls]

(* A detection begins, or ends. *)
LEMMA ReceiveFacts ==
  ASSUME BaseInv, NEW w \in Workers, NEW t \in Topics, NEW on \in BOOLEAN, NEW op,
         Receive(w, t, on, op)
  PROVE  /\ CallsTyped /\ Others(w)
         /\ pc[w] = "idle" /\ pc'[w] = IF on THEN "admit" ELSE "finish"
         /\ call'[w].key = <<CameraOf[w], TypeOf(CameraOf[w], t)>>
         /\ call'[w].key \in Keys /\ call'[w].key[1] = CameraOf[w]
         /\ call'[w].label \in ObjectTypes
         /\ UNCHANGED <<clock, open, lastEvent, recent, burst, rows>>
<1> DEFINE c == CameraOf[w]
           to == IF on THEN "admit" ELSE "finish"
           s == Received(call[w], <<c, TypeOf(c, t)>>, ObjectType(TypeOf(c, t)),
                         IsFallback(t) /\ Override[c] = NoType)
<1>1. c \in Cameras /\ call[w] \in Calls /\ call \in [Workers -> Calls]
  BY ConstantsAssumption DEF BaseInv, TypeOK
<1>2. /\ ObjectType(TypeOf(c, t)) \in ObjectTypes /\ <<c, TypeOf(c, t)>> \in Keys
  BY <1>1, TypesOfEvents
<1>3. (IsFallback(t) /\ Override[c] = NoType) \in BOOLEAN
  BY SMT DEF IsFallback
<1>5. s \in Calls /\ s.key = <<c, TypeOf(c, t)>> /\ s.label = ObjectType(TypeOf(c, t))
  <2> DEFINE key == <<c, TypeOf(c, t)>>
             label == ObjectType(TypeOf(c, t))
             inferable == IsFallback(t) /\ Override[c] = NoType
  <2>1. key \in Keys /\ label \in ObjectTypes /\ inferable \in BOOLEAN
    BY <1>2, <1>3
  <2> HIDE DEF key, label, inferable
  <2>2. LET q == Received(call[w], key, label, inferable)
        IN  q \in Calls /\ q.key = key /\ q.label = label
    BY <1>1, <2>1, CallReceived
  <2> QED
    BY <2>2 DEF key, label, inferable
<1>6. call' = [call EXCEPT ![w] = s]
  BY SMT DEF Receive, Received
<1> HIDE DEF s
<1>7. /\ call' \in [Workers -> Calls] /\ call'[w] = s
      /\ \A v \in Workers : v # w => call'[v] = call[v]
  BY <1>1, <1>5, <1>6, SetCall, Zenon
<1>8. to \in Labels /\ Goto(w, "idle", to)
  BY DEF Receive, Labels
<1> HIDE DEF to
<1>9. /\ pc[w] = "idle" /\ pc' \in [Workers -> Labels] /\ pc'[w] = to
      /\ \A v \in Workers : v # w => pc'[v] = pc[v]
  BY <1>8, GotoMoves, Zenon
<1>10. UNCHANGED <<clock, open, lastEvent, recent, burst, rows>>
  BY DEF Receive
<1>11. /\ call'[w].key = <<CameraOf[w], TypeOf(CameraOf[w], t)>>
       /\ call'[w].key \in Keys /\ call'[w].key[1] = CameraOf[w]
       /\ call'[w].label \in ObjectTypes
  BY <1>2, <1>5, <1>7
<1> QED
  BY <1>7, <1>9, <1>10, <1>11, Zenon DEF CallsTyped, Others, to

(* A detection is admitted, to a row of its own or to one there is. *)
LEMMA AdmittedFacts ==
  ASSUME BaseInv, NEW w \in Workers, NEW row \in Nat, Admitted(w, row)
  PROVE  /\ CallsTyped /\ Others(w)
         /\ pc[w] = "admit" /\ pc'[w] = "fetch"
         /\ call'[w].key = call[w].key /\ call'[w].label = call[w].label
         /\ call'[w].target = row /\ call'[w].cached = BurstFresh(CameraOf[w])
<1> DEFINE s == Targeted(call[w], row, BurstFresh(CameraOf[w]))
<1>1. call[w] \in Calls /\ call \in [Workers -> Calls]
  BY DEF BaseInv, TypeOK
<1>2. BurstFresh(CameraOf[w]) \in BOOLEAN
  BY SMT DEF BurstFresh
<1>3. call' = [call EXCEPT ![w] = s]
  BY SMT DEF Admitted, Targeted
<1>4. /\ s \in Calls /\ s.key = call[w].key /\ s.label = call[w].label
      /\ s.target = row /\ s.cached = BurstFresh(CameraOf[w])
  BY <1>1, <1>2, CallTargeted
<1> HIDE DEF s
<1>5. /\ call' \in [Workers -> Calls] /\ call'[w] = s
      /\ \A v \in Workers : v # w => call'[v] = call[v]
  BY <1>1, <1>3, <1>4, SetCall, Zenon
<1>6. /\ pc[w] = "admit" /\ pc' \in [Workers -> Labels] /\ pc'[w] = "fetch"
      /\ \A v \in Workers : v # w => pc'[v] = pc[v]
  <2>1. "fetch" \in Labels /\ Goto(w, "admit", "fetch")
    BY DEF Admitted, Labels
  <2> QED
    BY <2>1, GotoMoves, Zenon
<1> QED
  BY <1>4, <1>5, <1>6, Zenon DEF CallsTyped, Others

(* The picture is taken. *)
LEMMA FetchFacts ==
  ASSUME BaseInv, NEW w \in Workers, NEW picture \in BOOLEAN, NEW label \in ObjectTypes,
         Fetch(w, picture, label)
  PROVE  /\ CallsTyped /\ Others(w)
         /\ pc[w] = "fetch"
         /\ pc'[w] = IF picture /\ HasMsr /\ ~call[w].cached THEN "forward" ELSE "insert"
         /\ call'[w].key = call[w].key /\ call'[w].label \in ObjectTypes
         /\ call'[w].target = call[w].target /\ call'[w].start + Pre = clock
         /\ UNCHANGED <<clock, level, recorderVars, rows>>
<1> DEFINE thumb == IF ~picture THEN "none"
                    ELSE IF HasMsr /\ call[w].cached THEN "msr" ELSE "db"
           to == IF picture /\ HasMsr /\ ~call[w].cached THEN "forward" ELSE "insert"
           s == Fetched(call[w], clock - Pre, label, thumb)
<1>1. call[w] \in Calls /\ call \in [Workers -> Calls]
  BY DEF BaseInv, TypeOK
<1>2. clock - Pre \in Nat /\ (clock - Pre) + Pre = clock
  BY ConstantsAssumption DEF BaseInv, TypeOK
<1>3. thumb \in Thumbs
  BY DEF Thumbs
<1>4. call' = [call EXCEPT ![w] = s]
  BY SMT DEF Fetch, Fetched
<1> HIDE DEF thumb
<1>5. /\ s \in Calls /\ s.key = call[w].key /\ s.label = label
      /\ s.target = call[w].target /\ s.start = clock - Pre
  BY <1>1, <1>2, <1>3, CallFetched
<1> HIDE DEF s
<1>6. /\ call' \in [Workers -> Calls] /\ call'[w] = s
      /\ \A v \in Workers : v # w => call'[v] = call[v]
  BY <1>1, <1>4, <1>5, SetCall, Zenon
<1>7. to \in Labels /\ Goto(w, "fetch", to)
  BY DEF Fetch, Labels
<1> HIDE DEF to
<1>8. /\ pc[w] = "fetch" /\ pc' \in [Workers -> Labels] /\ pc'[w] = to
      /\ \A v \in Workers : v # w => pc'[v] = pc[v]
  BY <1>7, GotoMoves, Zenon
<1>9. call'[w].start + Pre = clock
  BY <1>2, <1>5, <1>6
<1>10. UNCHANGED <<clock, level, recorderVars, rows>>
  BY DEF Fetch
<1> QED
  BY <1>5, <1>6, <1>8, <1>9, <1>10, Zenon DEF CallsTyped, Others, to

(* MSR stores the picture, or fails. *)
LEMMA ForwardFacts ==
  ASSUME BaseInv, NEW w \in Workers, MsrStores(w) \/ MsrFails(w)
  PROVE  /\ CallsTyped /\ Others(w)
         /\ pc[w] = "forward" /\ pc'[w] \in {"cache", "insert"}
         /\ pc'[w] = "cache" => BurstWindow > 0
         /\ call'[w].key = call[w].key /\ call'[w].label = call[w].label
         /\ call'[w].target = call[w].target /\ call'[w].start = call[w].start
         /\ UNCHANGED <<clock, level, recorderVars, rows>>
<1>1. call[w] \in Calls /\ call \in [Workers -> Calls]
  BY DEF BaseInv, TypeOK
<1>2. ASSUME NEW thumb \in Thumbs, NEW to \in {"cache", "insert"}, Goto(w, "forward", to),
             call' = [call EXCEPT ![w].thumb = thumb]
      PROVE  /\ CallsTyped /\ Others(w)
             /\ pc[w] = "forward" /\ pc'[w] = to
             /\ call'[w].key = call[w].key /\ call'[w].label = call[w].label
             /\ call'[w].target = call[w].target /\ call'[w].start = call[w].start
  <2> DEFINE s == Forwarded(call[w], thumb)
  <2>1. call' = [call EXCEPT ![w] = s]
    BY <1>2, SMT DEF Forwarded
  <2>2. /\ s \in Calls /\ s.key = call[w].key /\ s.label = call[w].label
        /\ s.target = call[w].target /\ s.start = call[w].start
    BY <1>1, CallForwarded
  <2> HIDE DEF s
  <2>3. /\ call' \in [Workers -> Calls] /\ call'[w] = s
        /\ \A v \in Workers : v # w => call'[v] = call[v]
    BY <1>1, <2>1, <2>2, SetCall, Zenon
  <2>4. to \in Labels
    BY DEF Labels
  <2>5. /\ pc[w] = "forward" /\ pc' \in [Workers -> Labels] /\ pc'[w] = to
        /\ \A v \in Workers : v # w => pc'[v] = pc[v]
    BY <1>2, <2>4, GotoMoves, Zenon
  <2> QED
    BY <2>2, <2>3, <2>5, Zenon DEF CallsTyped, Others
<1>3. UNCHANGED <<clock, level, recorderVars, rows>>
  BY DEF MsrStores, MsrFails
<1>4. CASE MsrStores(w)
  <2> DEFINE to == IF BurstWindow > 0 THEN "cache" ELSE "insert"
  <2>1. /\ Goto(w, "forward", to) /\ to \in {"cache", "insert"} /\ "msr" \in Thumbs
        /\ call' = [call EXCEPT ![w].thumb = "msr"]
        /\ to = "cache" => BurstWindow > 0
    BY <1>4, Zenon DEF MsrStores, Thumbs
  <2> HIDE DEF to
  <2> QED
    BY <1>2, <1>3, <2>1, Zenon
<1>5. CASE MsrFails(w)
  <2> DEFINE thumb == IF DropOnFailure THEN "none" ELSE "db"
  <2>1. /\ Goto(w, "forward", "insert") /\ "insert" \in {"cache", "insert"}
        /\ thumb \in Thumbs
        /\ call' = [call EXCEPT ![w].thumb = thumb]
    BY <1>5, Zenon DEF MsrFails, Thumbs
  <2>2. "insert" # "cache"
    OBVIOUS
  <2> HIDE DEF thumb
  <2> QED
    BY <1>2, <1>3, <2>1, <2>2, Zenon
<1> QED
  BY <1>4, <1>5

(* A call that returns. *)
LEMMA ReturnFacts ==
  ASSUME BaseInv, NEW w \in Workers, NEW from, Return(w, from)
  PROVE  CallsTyped /\ Others(w) /\ pc[w] = from /\ pc'[w] = "idle"
<1>1. NoCall \in Calls
  BY DEF NoCall, Calls
<1>2. call \in [Workers -> Calls] /\ call' = [call EXCEPT ![w] = NoCall]
  BY DEF BaseInv, TypeOK, Return
<1>3. /\ call' \in [Workers -> Calls]
      /\ \A v \in Workers : v # w => call'[v] = call[v]
  BY <1>1, <1>2, SetCall, Zenon
<1>4. "idle" \in Labels /\ Goto(w, from, "idle")
  BY DEF Labels, Return
<1>5. /\ pc[w] = from /\ pc' \in [Workers -> Labels] /\ pc'[w] = "idle"
      /\ \A v \in Workers : v # w => pc'[v] = pc[v]
  BY <1>4, GotoMoves, Zenon
<1> QED
  BY <1>3, <1>5, Zenon DEF CallsTyped, Others

(* The burst cache is filled. *)
LEMMA CacheFacts ==
  ASSUME BaseInv, NEW w \in Workers, FillBurstCache(w)
  PROVE  /\ CallsTyped /\ Others(w)
         /\ pc[w] = "cache" /\ pc'[w] = "insert" /\ call'[w] = call[w]
         /\ burst' \in [Cameras -> Nat]
         /\ UNCHANGED <<clock, level, call, aiCapable, cellMotion, open, lastEvent,
                        recent, rows>>
<1>1. call \in [Workers -> Calls] /\ call' = call
  BY DEF BaseInv, TypeOK, FillBurstCache
<1>2. "insert" \in Labels /\ Goto(w, "cache", "insert")
  BY DEF Labels, FillBurstCache
<1>3. /\ pc[w] = "cache" /\ pc' \in [Workers -> Labels] /\ pc'[w] = "insert"
      /\ \A v \in Workers : v # w => pc'[v] = pc[v]
  BY <1>2, GotoMoves, Zenon
<1>4. burst' \in [Cameras -> Nat]
  BY ConstantsAssumption DEF BaseInv, TypeOK, FillBurstCache
<1>5. UNCHANGED <<clock, level, call, aiCapable, cellMotion, open, lastEvent, recent, rows>>
  BY DEF FillBurstCache
<1> QED
  BY <1>1, <1>3, <1>4, <1>5, Zenon DEF CallsTyped, Others

(* Rows that keep what the episodes are made of. *)
RowsKept ==
  /\ rows' \in Seq(Rows) /\ Len(rows') = Len(rows)
  /\ \A i \in 1 .. Len(rows) : /\ SameEvent(rows'[i], rows[i])
                               /\ rows'[i].end = rows[i].end

(* A detection is merged into its row, or its alarm is raised. *)
LEMMA TouchFacts ==
  ASSUME BaseInv, NEW w \in Workers,
         Notify(w) \/ \E ok \in Outcomes : InsertMerged(w, ok)
  PROVE  /\ CallsTyped /\ Others(w)
         /\ pc[w] \in {"insert", "notify"} /\ pc'[w] = "idle"
         /\ RowsKept
         /\ UNCHANGED <<clock, level, recorderVars>>
<1>1. /\ \E from \in {"insert", "notify"} : Return(w, from)
      /\ UNCHANGED <<clock, level, recorderVars>>
  BY DEF Notify, InsertMerged
<1>2. /\ CallsTyped /\ Others(w)
      /\ pc[w] \in {"insert", "notify"} /\ pc'[w] = "idle"
  BY <1>1, ReturnFacts, Zenon
<1> DEFINE target == call[w].target
<1>3. target \in 1 .. Len(rows)
  <2>1. CASE Notify(w)
    BY <2>1 DEF Notify, Return, Goto, BaseInv, CallInv
  <2>2. CASE \E ok \in Outcomes : InsertMerged(w, ok)
    <3>1. target # 0 /\ pc[w] = "insert"
      BY <2>2 DEF InsertMerged, Return, Goto
    <3>2. target \in 0 .. Len(rows) /\ Len(rows) \in Nat
      BY <3>1, RowsShape DEF BaseInv, CallInv, Fetching
    <3> QED
      BY <3>1, <3>2
  <2> QED
    BY <2>1, <2>2
<1>4. rows \in Seq(Rows) /\ rows[target] \in Rows
  BY <1>3, RowsShape
<1>5. \E s \in Rows : /\ rows' = [rows EXCEPT ![target] = s]
                      /\ SameEvent(s, rows[target]) /\ s.end = rows[target].end
  <2>1. CASE Notify(w)
    <3>1. rows' = [rows EXCEPT ![target] = Alarmed(rows[target])]
      BY <2>1, SMT DEF Notify, Alarmed
    <3>2. /\ SameEvent(Alarmed(rows[target]), rows[target])
          /\ Alarmed(rows[target]).end = rows[target].end
      BY <1>4, RowUpdates
    <3> QED
      BY <3>1, <3>2, Zenon DEF SameEvent
  <2>2. ASSUME NEW ok \in Outcomes, InsertMerged(w, ok)
        PROVE  \E s \in Rows : /\ rows' = [rows EXCEPT ![target] = s]
                               /\ SameEvent(s, rows[target]) /\ s.end = rows[target].end
    <3> DEFINE objects == Dependents(w, ok)
    <3>1. rows' = [rows EXCEPT ![target] = Merged(rows[target], objects)]
      BY <2>2, SMT DEF InsertMerged, Merged
    <3>2. objects \in SUBSET ObjectTypes
      BY <2>2 DEF InsertMerged, Return, Goto, BaseInv, CallInv, Dependents
    <3> HIDE DEF objects
    <3>3. /\ SameEvent(Merged(rows[target], objects), rows[target])
          /\ Merged(rows[target], objects).end = rows[target].end
      BY <1>4, <3>2, RowUpdates
    <3> QED
      BY <3>1, <3>3, Zenon DEF SameEvent
  <2> QED
    BY <2>1, <2>2
<1> HIDE DEF target
<1>6. PICK s \in Rows : /\ rows' = [rows EXCEPT ![target] = s]
                        /\ SameEvent(s, rows[target]) /\ s.end = rows[target].end
  BY <1>5
<1>7. /\ rows' \in Seq(Rows) /\ Len(rows') = Len(rows) /\ rows'[target] = s
      /\ \A j \in 1 .. Len(rows) : j # target => rows'[j] = rows[j]
  BY <1>3, <1>4, <1>6, SetRow
<1>8. RowsKept
  <2>1. \A j \in 1 .. Len(rows) : SameEvent(rows[j], rows[j])
    BY RowsShape DEF SameEvent
  <2> QED
    BY <1>3, <1>6, <1>7, <2>1 DEF RowsKept
<1> QED
  BY <1>1, <1>2, <1>8, Zenon

(* A new row is the last of the table, and the open one of its key. *)
LEMMA InsertNewFacts ==
  ASSUME BaseInv, NEW w \in Workers, NEW eventOk \in BOOLEAN, NEW objectOk \in BOOLEAN,
         InsertNew(w, eventOk, objectOk)
  PROVE  LET k == call[w].key
             n == Len(rows) + 1
         IN  /\ CallsTyped /\ Others(w)
             /\ pc[w] = "insert" /\ pc'[w] = "notify" /\ call[w].target = 0
             /\ call'[w].key = k /\ call'[w].label = call[w].label /\ call'[w].target = n
             /\ rows' \in Seq(Rows) /\ Len(rows') = n
             /\ \A i \in 1 .. Len(rows) : rows'[i] = rows[i]
             /\ rows'[n].key = k /\ rows'[n].start = call[w].start /\ rows'[n].end = 0
             /\ open' = [open EXCEPT ![k] = n]
             /\ UNCHANGED <<clock, level, aiCapable, cellMotion, lastEvent, burst>>
<1> DEFINE n == Len(rows) + 1
           s == Inserted(call[w], n)
           row == EventRow(w, eventOk, objectOk)
<1>1. call[w] \in Calls /\ call \in [Workers -> Calls]
  BY DEF BaseInv, TypeOK
<1>2. n \in Nat /\ n \in 1 .. n /\ Len(rows) \in Nat
  BY RowsShape
<1>3. call' = [call EXCEPT ![w] = s]
  BY SMT DEF InsertNew, Inserted
<1>4. pc[w] = "insert" /\ call[w].target = 0
  BY DEF InsertNew, Goto
<1>5. row \in Rows /\ row.key = call[w].key /\ row.start = call[w].start /\ row.end = 0
  <2>1. call[w].key \in Keys /\ call[w].label \in ObjectTypes
    BY <1>4 DEF BaseInv, CallInv
  <2>2. call[w].start \in Nat /\ call[w].thumb \in Thumbs
    BY <1>1 DEF Calls, Thumbs
  <2>3. Dependents(w, objectOk) \in SUBSET ObjectTypes
    BY <2>1 DEF Dependents
  <2> QED
    BY <2>1, <2>2, <2>3 DEF EventRow, Rows, Thumbs
<1>6. rows' = Append(rows, row)
  BY DEF InsertNew
<1> HIDE DEF row
<1>7. /\ rows' \in Seq(Rows) /\ Len(rows') = n
      /\ \A i \in 1 .. Len(rows) : rows'[i] = rows[i]
      /\ rows'[n] = row
  BY <1>5, <1>6, RowsShape, AppendProperties
<1> HIDE DEF n
<1>8. s \in Calls /\ s.key = call[w].key /\ s.label = call[w].label /\ s.target = n
  BY <1>1, <1>2, CallInserted
<1> HIDE DEF s
<1>9. /\ call' \in [Workers -> Calls] /\ call'[w] = s
      /\ \A v \in Workers : v # w => call'[v] = call[v]
  BY <1>1, <1>3, <1>8, SetCall, Zenon
<1>10. /\ pc[w] = "insert" /\ pc' \in [Workers -> Labels] /\ pc'[w] = "notify"
       /\ \A v \in Workers : v # w => pc'[v] = pc[v]
  <2>1. "notify" \in Labels /\ Goto(w, "insert", "notify")
    BY DEF InsertNew, Labels
  <2> QED
    BY <2>1, GotoMoves, Zenon
<1>11. /\ open' = [open EXCEPT ![call[w].key] = n]
       /\ UNCHANGED <<clock, level, aiCapable, cellMotion, lastEvent, burst>>
  BY DEF InsertNew, n
<1> QED
  BY <1>4, <1>5, <1>7, <1>8, <1>9, <1>10, <1>11, Zenon DEF CallsTyped, Others, n

(* The end of a detection closes the open row of its key and no other. *)
LEMMA FinishFacts ==
  ASSUME BaseInv, NEW w \in Workers, NEW updateOk \in BOOLEAN, Finish(w, updateOk)
  PROVE  LET k == call[w].key
         IN  /\ CallsTyped /\ Others(w)
             /\ pc[w] = "finish" /\ pc'[w] = "idle" /\ k \in Keys /\ k[1] = CameraOf[w]
             /\ open[k] \in 1 .. Len(rows)
             /\ rows' \in Seq(Rows) /\ Len(rows') = Len(rows)
             /\ \A i \in 1 .. Len(rows) : SameEvent(rows'[i], rows[i])
             /\ \A i \in 1 .. Len(rows) :
                  \/ rows'[i].end = rows[i].end
                  \/ i = open[k] /\ rows'[i].end = clock + Post
             /\ open' = [open EXCEPT ![k] = 0]
             /\ lastEvent' = [lastEvent EXCEPT ![k] = [id |-> open[k], realEnd |-> clock]]
             /\ UNCHANGED <<clock, level, aiCapable, cellMotion, recent, burst>>
<1> DEFINE k == call[w].key
<1>1. Return(w, "finish")
  BY DEF Finish
<1>2. CallsTyped /\ Others(w) /\ pc[w] = "finish" /\ pc'[w] = "idle"
  BY <1>1, ReturnFacts, Zenon
<1>3. /\ open[k] # 0
      /\ rows' = IF updateOk THEN [rows EXCEPT ![open[k]].end = clock + Post] ELSE rows
      /\ open' = [open EXCEPT ![k] = 0]
      /\ lastEvent' = [lastEvent EXCEPT ![k] = [id |-> open[k], realEnd |-> clock]]
      /\ UNCHANGED <<clock, level, aiCapable, cellMotion, recent, burst>>
  BY DEF Finish
<1>4. k \in Keys /\ k[1] = CameraOf[w]
  BY <1>2 DEF BaseInv, CallInv
<1> HIDE DEF k
<1>5. open[k] \in 1 .. Len(rows)
  <2>1. open[k] \in 0 .. Len(rows) /\ Len(rows) \in Nat
    BY <1>4, RowsShape DEF BaseInv, TypeOK
  <2> QED
    BY <1>3, <2>1
<1>6. \A i \in 1 .. Len(rows) : SameEvent(rows[i], rows[i])
  BY RowsShape DEF SameEvent
<1>7. /\ rows' \in Seq(Rows) /\ Len(rows') = Len(rows)
      /\ \A i \in 1 .. Len(rows) : SameEvent(rows'[i], rows[i])
      /\ \A i \in 1 .. Len(rows) :
           \/ rows'[i].end = rows[i].end
           \/ i = open[k] /\ rows'[i].end = clock + Post
  <2>1. CASE updateOk = FALSE
    <3>1. rows' = rows
      BY <1>3, <2>1
    <3> QED
      BY <1>6, <2>1, <3>1, RowsShape
  <2>2. CASE updateOk = TRUE
    <3> DEFINE i == open[k]
               s == Closed(rows[i], clock + Post)
    <3>1. rows \in Seq(Rows) /\ rows[i] \in Rows /\ clock + Post \in Nat
      BY <1>5, RowsShape, ConstantsAssumption DEF BaseInv, TypeOK
    <3>2. rows' = [rows EXCEPT ![i] = s]
      BY <1>3, <2>2, SMT DEF Closed
    <3>3. SameEvent(s, rows[i]) /\ s.end = clock + Post
      BY <3>1, RowUpdates
    <3>4. s \in Rows
      BY <3>3 DEF SameEvent
    <3> HIDE DEF s, i
    <3>5. i \in 1 .. Len(rows)
      BY <1>5 DEF i
    <3>6. /\ rows' \in Seq(Rows) /\ Len(rows') = Len(rows) /\ rows'[i] = s
          /\ \A j \in 1 .. Len(rows) : j # i => rows'[j] = rows[j]
      BY <3>1, <3>2, <3>4, <3>5, SetRow
    <3>7. i = open[k]
      BY DEF i
    <3> QED
      BY <1>6, <3>3, <3>6, <3>7
  <2> QED
    BY <2>1, <2>2
<1> QED
  BY <1>2, <1>3, <1>4, <1>5, <1>7, Zenon DEF k

(* If its statement goes through, the row has its end. *)
LEMMA FinishEnds ==
  ASSUME BaseInv, NEW w \in Workers, Finish(w, TRUE)
  PROVE  rows'[open[call[w].key]].end = clock + Post
<1> DEFINE i == open[call[w].key]
           s == Closed(rows[i], clock + Post)
<1>1. i \in 1 .. Len(rows)
  <2>1. LET k == call[w].key IN open[k] \in 1 .. Len(rows)
    BY FinishFacts
  <2> QED
    BY <2>1
<1>2. rows \in Seq(Rows) /\ rows[i] \in Rows
  <2> HIDE DEF i
  <2> QED
    BY <1>1, RowsShape
<1>3. rows' = [rows EXCEPT ![i] = s]
  BY SMT DEF Finish, Closed
<1> HIDE DEF i
<1>6. clock + Post \in Nat
  BY ConstantsAssumption DEF BaseInv, TypeOK
<1>4. s \in Rows /\ s.end = clock + Post
  BY <1>2, <1>6, RowUpdates DEF SameEvent
<1> HIDE DEF s
<1>5. rows'[i] = s
  BY <1>1, <1>2, <1>3, <1>4, SetRow
<1> QED
  BY <1>4, <1>5 DEF i

-----------------------------------------------------------------------------
(* A nonempty set of naturals has a smallest member. *)
LEMMA MinProperties ==
  ASSUME NEW S \in SUBSET Nat, S # {}
  PROVE  Min(S) \in S /\ \A x \in S : Min(S) <= x
<1>1. \E y \in S : \A z \in S : <<z, y>> \notin OpToRel(<, Nat)
  BY NatLessThanWellFounded, WFMin
<1>2. PICK m \in S : \A z \in S : ~ (z < m)
  BY <1>1 DEF OpToRel
<1>3. \A z \in S : m <= z
  <2> SUFFICES ASSUME NEW z \in S PROVE m <= z
    OBVIOUS
  <2>1. z \in Nat /\ m \in Nat
    OBVIOUS
  <2> QED
    BY <1>2, <2>1
<1> QED
  BY <1>3 DEF Min

(* Dropping the old entries drops a prefix of old entries and no more. *)
LEMMA FromProperties ==
  ASSUME NEW times \in Seq(Nat), NEW cutoff \in Int
  PROVE  /\ From(times, cutoff) \in Seq(Nat)
         /\ \E d \in 0 .. Len(times) :
              /\ Len(From(times, cutoff)) = Len(times) - d
              /\ \A i \in 1 .. Len(times) - d : From(times, cutoff)[i] = times[i + d]
              /\ \A i \in 1 .. d : times[i] < cutoff
<1> DEFINE fresh == {i \in DOMAIN times : times[i] >= cutoff}
<1>1. /\ Len(times) \in Nat /\ DOMAIN times = 1 .. Len(times)
      /\ \A i \in 1 .. Len(times) : times[i] \in Nat
  BY LenProperties
<1>2. CASE fresh = {}
  <2>1. From(times, cutoff) = <<>>
    BY <1>2 DEF From
  <2>2. \A i \in 1 .. Len(times) : times[i] < cutoff
    BY <1>1, <1>2
  <2>3. Len(times) \in 0 .. Len(times) /\ Len(times) - Len(times) = 0 /\ 1 .. 0 = {}
    BY <1>1
  <2> QED
    BY <2>1, <2>2, <2>3
<1>3. CASE fresh # {}
  <2> DEFINE first == Min(fresh)
  <2>1. fresh \in SUBSET Nat
    BY <1>1
  <2>2. first \in fresh /\ \A x \in fresh : first <= x
    BY <1>3, <2>1, MinProperties
  <2>3. first \in 1 .. Len(times)
    BY <1>1, <2>2
  <2>4. \A i \in 1 .. first - 1 : times[i] < cutoff
    <3> SUFFICES ASSUME NEW i \in 1 .. first - 1 PROVE times[i] < cutoff
      OBVIOUS
    <3>1. i \in DOMAIN times /\ ~ (first <= i) /\ times[i] \in Nat
      BY <1>1, <2>3
    <3>2. i \notin fresh
      BY <2>2, <3>1
    <3> QED
      BY <3>1, <3>2
  <2>5. From(times, cutoff) = SubSeq(times, first, Len(times))
    BY <1>3 DEF From
  <2> HIDE DEF first, fresh
  <2>6. \A i \in first .. Len(times) : times[i] \in Nat
    BY <1>1, <2>3
  <2>7. /\ SubSeq(times, first, Len(times)) \in Seq(Nat)
        /\ Len(SubSeq(times, first, Len(times)))
             = IF first <= Len(times) THEN Len(times) - first + 1 ELSE 0
        /\ \A i \in 1 .. Len(times) - first + 1 :
             SubSeq(times, first, Len(times))[i] = times[first + i - 1]
    <3>1. first \in Int /\ Len(times) \in Int
      BY <1>1, <2>3
    <3> QED
      BY <2>6, <3>1, SubSeqProperties
  <2> DEFINE d == first - 1
  <2>8. d \in 0 .. Len(times) /\ Len(times) - first + 1 = Len(times) - d /\ first <= Len(times)
    BY <1>1, <2>3
  <2>9. \A i \in 1 .. Len(times) - d : first + i - 1 = i + d
    BY <1>1, <2>3
  <2>10. \A i \in 1 .. d : times[i] < cutoff
    BY <2>4
  <2> HIDE DEF d
  <2>11. /\ Len(From(times, cutoff)) = Len(times) - d
         /\ \A i \in 1 .. Len(times) - d : From(times, cutoff)[i] = times[i + d]
    BY <2>5, <2>7, <2>8, <2>9
  <2>12. From(times, cutoff) \in Seq(Nat)
    BY <2>5, <2>7
  <2> QED
    BY <2>8, <2>10, <2>11, <2>12
<1> QED
  BY <1>2, <1>3

-----------------------------------------------------------------------------
(***************************************************************************)
(* Types, and what a call in hand knows.                                   *)
(***************************************************************************)

(* A step of one worker that adds rows or none keeps the base invariant    *)
(* if the worker's own call and the variables it sets are right.           *)
LEMMA BaseFrom ==
  ASSUME BaseInv, NEW w \in Workers, CallsTyped, Others(w),
         clock' = clock,
         level' \in [Workers -> [Topics -> BOOLEAN]],
         aiCapable' \subseteq Cameras, cellMotion' \subseteq Cameras,
         open' \in [Keys -> 0 .. Len(rows')],
         lastEvent' \in [Keys -> [id : 0 .. Len(rows'), realEnd : Nat]],
         recent' \in [Cameras -> Seq(Nat)], burst' \in [Cameras -> Nat],
         rows' \in Seq(Rows), Len(rows') >= Len(rows),
         pc'[w] # "idle" => /\ call'[w].key \in Keys /\ call'[w].key[1] = CameraOf[w]
                            /\ call'[w].label \in ObjectTypes,
         pc'[w] \in Fetching => call'[w].target \in 0 .. Len(rows'),
         pc'[w] = "notify" => call'[w].target \in 1 .. Len(rows')
  PROVE  BaseInv'
<1>1. TypeOK'
  BY Zenon DEF BaseInv, TypeOK, CallsTyped
<1>2. (clock > Pre)'
  BY DEF BaseInv
<1>3. CallInv'
  <2> SUFFICES ASSUME NEW v \in Workers
               PROVE  /\ pc'[v] # "idle" => /\ call'[v].key \in Keys
                                            /\ call'[v].key[1] = CameraOf[v]
                                            /\ call'[v].label \in ObjectTypes
                      /\ pc'[v] \in Fetching => call'[v].target \in 0 .. Len(rows')
                      /\ pc'[v] = "notify" => call'[v].target \in 1 .. Len(rows')
    BY DEF CallInv
  <2>1. CASE v = w
    BY <2>1
  <2>2. CASE v # w
    <3>1. pc'[v] = pc[v] /\ call'[v] = call[v]
      BY <2>2 DEF Others
    <3>2. /\ pc[v] # "idle" => /\ call[v].key \in Keys /\ call[v].key[1] = CameraOf[v]
                               /\ call[v].label \in ObjectTypes
          /\ pc[v] \in Fetching => call[v].target \in 0 .. Len(rows)
          /\ pc[v] = "notify" => call[v].target \in 1 .. Len(rows)
      BY DEF BaseInv, CallInv
    <3>3. Len(rows) \in Nat /\ Len(rows') \in Nat
      BY RowsShape, LenProperties
    <3>4. 0 .. Len(rows) \subseteq 0 .. Len(rows') /\ 1 .. Len(rows) \subseteq 1 .. Len(rows')
      BY <3>3
    <3> HIDE DEF Fetching
    <3> QED
      BY <3>1, <3>2, <3>4
  <2> QED
    BY <2>1, <2>2
<1> QED
  BY <1>1, <1>2, <1>3 DEF BaseInv

(* What the recorder remembers stays typed as rows are added. *)
LEMMA MemoryTyped ==
  ASSUME BaseInv, NEW n \in Nat, n >= Len(rows)
  PROVE  /\ open \in [Keys -> 0 .. n]
         /\ lastEvent \in [Keys -> [id : 0 .. n, realEnd : Nat]]
<1>1. 0 .. Len(rows) \subseteq 0 .. n
  BY RowsShape
<1> DEFINE A == 0 .. Len(rows)
           B == 0 .. n
<1>2. A \subseteq B
  BY <1>1
<1>3. open \in [Keys -> A] /\ lastEvent \in [Keys -> [id : A, realEnd : Nat]]
  BY DEF BaseInv, TypeOK
<1> HIDE DEF A, B
<1>4. [id : A, realEnd : Nat] \subseteq [id : B, realEnd : Nat]
  BY <1>2
<1>5. open \in [Keys -> B] /\ lastEvent \in [Keys -> [id : B, realEnd : Nat]]
  BY <1>2, <1>3, <1>4
<1> QED
  BY <1>5 DEF B

(* The times of the hour are pruned, if there is a limit. *)
LEMMA PruneTyped ==
  ASSUME BaseInv, NEW c \in Cameras, Prune(c)
  PROVE  recent' \in [Cameras -> Seq(Nat)]
<1>1. recent \in [Cameras -> Seq(Nat)] /\ clock - Hour \in Int
  BY ConstantsAssumption DEF BaseInv, TypeOK
<1>2. WithinHour(c) \in Seq(Nat)
  BY <1>1, FromProperties DEF WithinHour
<1> QED
  BY <1>1, <1>2 DEF Prune

(* The last event of a key, by its types. *)
LEMMA LastEventTyped ==
  ASSUME BaseInv, NEW k \in Keys
  PROVE  lastEvent[k].id \in 0 .. Len(rows) /\ lastEvent[k].realEnd \in Nat
BY DEF BaseInv, TypeOK

(* An event that is classified. *)
LEMMA ReceiveBase ==
  ASSUME BaseInv, NEW w \in Workers, NEW t \in Topics, NEW on \in BOOLEAN, NEW op,
         Receive(w, t, on, op)
  PROVE  BaseInv'
<1>1. /\ CallsTyped /\ Others(w)
      /\ pc'[w] = IF on THEN "admit" ELSE "finish"
      /\ call'[w].key \in Keys /\ call'[w].key[1] = CameraOf[w]
      /\ call'[w].label \in ObjectTypes
      /\ UNCHANGED <<clock, open, lastEvent, recent, burst, rows>>
  BY ReceiveFacts
<1>2. level' \in [Workers -> [Topics -> BOOLEAN]]
  BY SMT DEF BaseInv, TypeOK, Receive, Hear
<1>3. aiCapable' \subseteq Cameras /\ cellMotion' \subseteq Cameras
  <2>1. CameraOf[w] \in Cameras
    BY ConstantsAssumption
  <2> QED
    BY <2>1 DEF BaseInv, TypeOK, Receive, Marks
<1>4. /\ open' \in [Keys -> 0 .. Len(rows')]
      /\ lastEvent' \in [Keys -> [id : 0 .. Len(rows'), realEnd : Nat]]
      /\ recent' \in [Cameras -> Seq(Nat)] /\ burst' \in [Cameras -> Nat]
      /\ rows' \in Seq(Rows)
  BY <1>1, Zenon DEF BaseInv, TypeOK
<1>5. Len(rows') >= Len(rows)
  BY <1>1, RowsShape
<1>6. pc'[w] \notin Fetching /\ pc'[w] # "notify"
  BY <1>1 DEF Fetching
<1> QED
  BY <1>1, <1>2, <1>3, <1>4, <1>5, <1>6, BaseFrom, Zenon

(* Suppressed and ignored events move no call. *)
LEMMA HearBase ==
  ASSUME BaseInv, NEW w \in Workers, NEW t \in Topics, NEW on \in BOOLEAN, NEW op,
         Suppress(w, t, on, op) \/ Ignore(w, t, op)
  PROVE  BaseInv'
<1>1. UNCHANGED <<clock, pc, call, open, lastEvent, recent, burst, rows>>
  BY DEF Suppress, Ignore, recorderVars
<1>2. level' \in [Workers -> [Topics -> BOOLEAN]]
  <2>1. CASE Suppress(w, t, on, op)
    BY <2>1, SMT DEF BaseInv, TypeOK, Suppress, Hear
  <2>2. CASE Ignore(w, t, op)
    BY <2>2, Zenon DEF BaseInv, TypeOK, Ignore
  <2> QED
    BY <2>1, <2>2
<1>3. aiCapable' \subseteq Cameras /\ cellMotion' \subseteq Cameras
  <2>1. CameraOf[w] \in Cameras
    BY ConstantsAssumption
  <2> QED
    BY <2>1 DEF BaseInv, TypeOK, Suppress, Ignore, Marks, recorderVars
<1>4. TypeOK'
  BY <1>1, <1>2, <1>3, Zenon DEF BaseInv, TypeOK
<1>5. CallInv' /\ (clock > Pre)'
  BY <1>1, Zenon DEF BaseInv, CallInv
<1> QED
  BY <1>4, <1>5 DEF BaseInv

(* The admission of a detection. *)
LEMMA AdmitBase ==
  ASSUME BaseInv, NEW w \in Workers,
         MergeIntoOpen(w) \/ Reopen(w) \/ AdmitNew(w)
  PROVE  BaseInv'
<1> DEFINE k == call[w].key
<1>1. /\ pc[w] = "admit" /\ clock' = clock
      /\ UNCHANGED <<level, aiCapable, cellMotion, burst, rows>>
  BY DEF MergeIntoOpen, Reopen, AdmitNew, Admitted, Goto, recorderVars
<1>2. k \in Keys /\ k[1] = CameraOf[w] /\ call[w].label \in ObjectTypes
  BY <1>1 DEF BaseInv, CallInv
<1>3. CameraOf[w] \in Cameras /\ Len(rows) \in Nat
  BY ConstantsAssumption, RowsShape
<1> HIDE DEF k
<1>4. \E row \in 0 .. Len(rows) : Admitted(w, row)
  <2>1. open[k] \in 0 .. Len(rows) /\ lastEvent[k].id \in 0 .. Len(rows) /\ 0 \in 0 .. Len(rows)
    BY <1>2, <1>3, LastEventTyped DEF BaseInv, TypeOK
  <2> QED
    BY <2>1 DEF MergeIntoOpen, Reopen, AdmitNew, k
<1>5. PICK row \in 0 .. Len(rows) : Admitted(w, row)
  BY <1>4
<1>6. /\ CallsTyped /\ Others(w) /\ pc'[w] = "fetch"
      /\ call'[w].key = k /\ call'[w].label = call[w].label /\ call'[w].target = row
  <2>1. row \in Nat
    OBVIOUS
  <2> QED
    BY <1>5, <2>1, AdmittedFacts DEF k
<1>7. /\ open' \in [Keys -> 0 .. Len(rows)]
      /\ lastEvent' \in [Keys -> [id : 0 .. Len(rows), realEnd : Nat]]
  <2>1. /\ open \in [Keys -> 0 .. Len(rows)]
        /\ lastEvent \in [Keys -> [id : 0 .. Len(rows), realEnd : Nat]]
    BY DEF BaseInv, TypeOK
  <2>2. CASE Reopen(w)
    <3>1. open' = [open EXCEPT ![k] = lastEvent[k].id]
      BY <2>2 DEF Reopen, k
    <3>2. open' \in [Keys -> 0 .. Len(rows)]
      BY <1>2, <2>1, <3>1, LastEventTyped
    <3>3. lastEvent' = [lastEvent EXCEPT ![k] = [lastEvent[k] EXCEPT !.realEnd = 0]]
      BY <2>2, Zenon DEF Reopen, k
    <3> DEFINE n == Len(rows)
               r == lastEvent[k]
               s == [r EXCEPT !.realEnd = 0]
    <3>4. r \in [id : 0 .. n, realEnd : Nat]
      BY <1>2, <2>1
    <3> HIDE DEF n, r
    <3>5. s \in [id : 0 .. n, realEnd : Nat]
      BY <3>4
    <3>6. lastEvent' = [lastEvent EXCEPT ![k] = s]
      BY <3>3, Zenon DEF r
    <3> HIDE DEF s
    <3>7. lastEvent' \in [Keys -> [id : 0 .. Len(rows), realEnd : Nat]]
      BY <1>2, <2>1, <3>5, <3>6 DEF n
    <3> QED
      BY <3>2, <3>7
  <2>3. CASE ~Reopen(w)
    <3>1. open' = open /\ lastEvent' = lastEvent
      BY <2>3 DEF MergeIntoOpen, AdmitNew, recorderVars
    <3> QED
      BY <2>1, <3>1
  <2> QED
    BY <2>2, <2>3
<1>8. recent' \in [Cameras -> Seq(Nat)]
  <2>1. CASE AdmitNew(w)
    BY <1>3, <2>1, PruneTyped DEF AdmitNew
  <2>2. CASE ~AdmitNew(w)
    BY <2>2 DEF MergeIntoOpen, Reopen, recorderVars, BaseInv, TypeOK
  <2> QED
    BY <2>1, <2>2
<1>9. /\ level' \in [Workers -> [Topics -> BOOLEAN]]
      /\ aiCapable' \subseteq Cameras /\ cellMotion' \subseteq Cameras
      /\ burst' \in [Cameras -> Nat] /\ rows' \in Seq(Rows) /\ rows' = rows
  BY <1>1, Zenon DEF BaseInv, TypeOK
<1>10. Len(rows') >= Len(rows)
  BY <1>3, <1>9
<1>11. pc'[w] # "notify" /\ call'[w].target \in 0 .. Len(rows')
  BY <1>6, <1>9
<1>12. /\ open' \in [Keys -> 0 .. Len(rows')]
       /\ lastEvent' \in [Keys -> [id : 0 .. Len(rows'), realEnd : Nat]]
  BY <1>7, <1>9, Zenon
<1>13. /\ call'[w].key \in Keys /\ call'[w].key[1] = CameraOf[w]
       /\ call'[w].label \in ObjectTypes
  BY <1>2, <1>6
<1> QED
  BY <1>1, <1>6, <1>8, <1>9, <1>10, <1>11, <1>12, <1>13, BaseFrom, Zenon

(* Steps that leave open_, last_event_ and the number of rows alone. *)
LEMMA StillBase ==
  ASSUME BaseInv, NEW w \in Workers, CallsTyped, Others(w),
         UNCHANGED <<clock, level, aiCapable, cellMotion, open, lastEvent>>,
         recent' \in [Cameras -> Seq(Nat)], burst' \in [Cameras -> Nat],
         rows' \in Seq(Rows), Len(rows') = Len(rows),
         pc'[w] # "idle" => /\ call'[w].key \in Keys /\ call'[w].key[1] = CameraOf[w]
                            /\ call'[w].label \in ObjectTypes,
         pc'[w] \in Fetching => call'[w].target \in 0 .. Len(rows),
         pc'[w] # "notify"
  PROVE  BaseInv'
<1>1. /\ level' \in [Workers -> [Topics -> BOOLEAN]]
      /\ aiCapable' \subseteq Cameras /\ cellMotion' \subseteq Cameras
      /\ open' \in [Keys -> 0 .. Len(rows')]
      /\ lastEvent' \in [Keys -> [id : 0 .. Len(rows'), realEnd : Nat]]
      /\ clock' = clock
  BY Zenon DEF BaseInv, TypeOK
<1>2. Len(rows') >= Len(rows)
  BY RowsShape
<1>3. pc'[w] \in Fetching => call'[w].target \in 0 .. Len(rows')
  BY Zenon
<1> QED
  BY <1>1, <1>2, <1>3, BaseFrom, Zenon

(* From the snapshot to the alarm, with or without a row. *)
LEMMA WorkBase ==
  ASSUME BaseInv, NEW w \in Workers,
         \/ RateLimit(w) \/ MsrStores(w) \/ MsrFails(w) \/ FillBurstCache(w)
         \/ Notify(w) \/ FinishUnknown(w)
         \/ \E picture \in BOOLEAN, label \in ObjectTypes : Fetch(w, picture, label)
         \/ \E ok \in Outcomes : InsertMerged(w, ok)
  PROVE  BaseInv'
<1>1. /\ recent \in [Cameras -> Seq(Nat)] /\ burst \in [Cameras -> Nat]
      /\ rows \in Seq(Rows)
  BY DEF BaseInv, TypeOK
<1>2. pc[w] # "idle" => /\ call[w].key \in Keys /\ call[w].key[1] = CameraOf[w]
                        /\ call[w].label \in ObjectTypes
  BY DEF BaseInv, CallInv
<1>3. pc[w] \in Fetching => call[w].target \in 0 .. Len(rows)
  BY DEF BaseInv, CallInv
<1>4. CASE RateLimit(w)
  <2>1. CallsTyped /\ Others(w) /\ pc'[w] = "idle"
    BY <1>4, ReturnFacts, Zenon DEF RateLimit
  <2>2. CameraOf[w] \in Cameras
    BY ConstantsAssumption
  <2>3. recent' \in [Cameras -> Seq(Nat)]
    BY <1>4, <2>2, PruneTyped DEF RateLimit
  <2>4. UNCHANGED <<clock, level, aiCapable, cellMotion, open, lastEvent, burst, rows>>
    BY <1>4 DEF RateLimit
  <2>5. pc'[w] \notin Fetching /\ pc'[w] # "notify"
    BY <2>1 DEF Fetching
  <2> QED
    BY <1>1, <2>1, <2>3, <2>4, <2>5, StillBase, Zenon
<1>5. CASE MsrStores(w) \/ MsrFails(w)
  <2>1. /\ CallsTyped /\ Others(w)
        /\ pc[w] = "forward" /\ pc'[w] \in {"cache", "insert"}
        /\ call'[w].key = call[w].key /\ call'[w].label = call[w].label
        /\ call'[w].target = call[w].target
        /\ UNCHANGED <<clock, level, recorderVars, rows>>
    BY <1>5, ForwardFacts
  <2>2. pc[w] # "idle" /\ pc[w] \in Fetching /\ pc'[w] # "notify"
    BY <2>1 DEF Fetching
  <2> QED
    BY <1>1, <1>2, <1>3, <2>1, <2>2, StillBase, Zenon DEF recorderVars
<1>6. CASE FillBurstCache(w)
  <2>1. /\ CallsTyped /\ Others(w)
        /\ pc[w] = "cache" /\ pc'[w] = "insert" /\ call'[w] = call[w]
        /\ burst' \in [Cameras -> Nat]
        /\ UNCHANGED <<clock, level, aiCapable, cellMotion, open, lastEvent, recent, rows>>
    BY <1>6, CacheFacts
  <2>2. pc[w] # "idle" /\ pc[w] \in Fetching /\ pc'[w] # "notify"
    BY <2>1 DEF Fetching
  <2> QED
    BY <1>1, <1>2, <1>3, <2>1, <2>2, StillBase, Zenon
<1>7. CASE Notify(w) \/ \E ok \in Outcomes : InsertMerged(w, ok)
  <2>1. /\ CallsTyped /\ Others(w) /\ pc'[w] = "idle" /\ RowsKept
        /\ UNCHANGED <<clock, level, recorderVars>>
    BY <1>7, TouchFacts
  <2>2. pc'[w] \notin Fetching /\ pc'[w] # "notify"
    BY <2>1 DEF Fetching
  <2>3. rows' \in Seq(Rows) /\ Len(rows') = Len(rows)
    BY <2>1 DEF RowsKept
  <2> QED
    BY <1>1, <2>1, <2>2, <2>3, StillBase, Zenon DEF recorderVars
<1>8. CASE FinishUnknown(w)
  <2>1. CallsTyped /\ Others(w) /\ pc'[w] = "idle"
    BY <1>8, ReturnFacts, Zenon DEF FinishUnknown
  <2>2. UNCHANGED <<clock, level, recorderVars, rows>>
    BY <1>8 DEF FinishUnknown
  <2>3. pc'[w] \notin Fetching /\ pc'[w] # "notify"
    BY <2>1 DEF Fetching
  <2> QED
    BY <1>1, <2>1, <2>2, <2>3, StillBase, Zenon DEF recorderVars
<1>9. ASSUME NEW picture \in BOOLEAN, NEW label \in ObjectTypes, Fetch(w, picture, label)
      PROVE  BaseInv'
  <2>1. /\ CallsTyped /\ Others(w) /\ pc[w] = "fetch" /\ pc'[w] \in {"forward", "insert"}
        /\ call'[w].key = call[w].key /\ call'[w].label \in ObjectTypes
        /\ call'[w].target = call[w].target
        /\ UNCHANGED <<clock, level, recorderVars, rows>>
    BY <1>9, FetchFacts
  <2>2. pc[w] # "idle" /\ pc[w] \in Fetching /\ pc'[w] # "notify"
    BY <2>1 DEF Fetching
  <2> QED
    BY <1>1, <1>2, <1>3, <2>1, <2>2, StillBase, Zenon DEF recorderVars
<1> QED
  BY <1>4, <1>5, <1>6, <1>7, <1>8, <1>9

(* A new row. *)
LEMMA InsertNewBase ==
  ASSUME BaseInv, NEW w \in Workers, NEW eventOk \in BOOLEAN, NEW objectOk \in BOOLEAN,
         InsertNew(w, eventOk, objectOk)
  PROVE  BaseInv'
<1> DEFINE k == call[w].key
           n == Len(rows) + 1
<1>1. /\ CallsTyped /\ Others(w)
      /\ pc[w] = "insert" /\ pc'[w] = "notify"
      /\ call'[w].key = k /\ call'[w].label = call[w].label /\ call'[w].target = n
      /\ rows' \in Seq(Rows) /\ Len(rows') = n
      /\ open' = [open EXCEPT ![k] = n]
      /\ UNCHANGED <<clock, level, aiCapable, cellMotion, lastEvent, burst>>
  BY InsertNewFacts
<1>2. k \in Keys /\ k[1] = CameraOf[w] /\ call[w].label \in ObjectTypes
  BY <1>1 DEF BaseInv, CallInv
<1>3. /\ Len(rows) \in Nat /\ n \in Nat /\ n >= Len(rows)
      /\ n \in 0 .. n /\ n \in 1 .. n
  BY RowsShape
<1>4. recent' \in [Cameras -> Seq(Nat)]
  <2>1. recent \in [Cameras -> Seq(Nat)] /\ clock \in Nat /\ CameraOf[w] \in Cameras
    BY ConstantsAssumption DEF BaseInv, TypeOK
  <2>2. Append(recent[CameraOf[w]], clock) \in Seq(Nat)
    BY <2>1, AppendProperties
  <2> QED
    BY <2>1, <2>2 DEF InsertNew
<1> HIDE DEF k, n
<1>5. /\ open \in [Keys -> 0 .. n]
      /\ lastEvent \in [Keys -> [id : 0 .. n, realEnd : Nat]]
  BY <1>3, MemoryTyped
<1>6. open' \in [Keys -> 0 .. n]
  BY <1>1, <1>2, <1>3, <1>5
<1>7. /\ lastEvent' \in [Keys -> [id : 0 .. n, realEnd : Nat]]
      /\ level' \in [Workers -> [Topics -> BOOLEAN]]
      /\ aiCapable' \subseteq Cameras /\ cellMotion' \subseteq Cameras
      /\ burst' \in [Cameras -> Nat]
  BY <1>1, <1>5, Zenon DEF BaseInv, TypeOK
<1>8. pc'[w] \notin Fetching
  BY <1>1 DEF Fetching
<1>9. /\ call'[w].key \in Keys /\ call'[w].key[1] = CameraOf[w]
      /\ call'[w].label \in ObjectTypes
  BY <1>1, <1>2
<1> QED
  BY <1>1, <1>3, <1>4, <1>6, <1>7, <1>8, <1>9, BaseFrom, Zenon

(* The end of a detection. *)
LEMMA FinishBase ==
  ASSUME BaseInv, NEW w \in Workers, NEW updateOk \in BOOLEAN, Finish(w, updateOk)
  PROVE  BaseInv'
<1> DEFINE k == call[w].key
<1>1. /\ CallsTyped /\ Others(w) /\ pc'[w] = "idle" /\ k \in Keys
      /\ open[k] \in 1 .. Len(rows)
      /\ rows' \in Seq(Rows) /\ Len(rows') = Len(rows)
      /\ open' = [open EXCEPT ![k] = 0]
      /\ lastEvent' = [lastEvent EXCEPT ![k] = [id |-> open[k], realEnd |-> clock]]
      /\ UNCHANGED <<clock, level, aiCapable, cellMotion, recent, burst>>
  BY FinishFacts
<1>2. Len(rows) \in Nat /\ clock \in Nat
  BY RowsShape DEF BaseInv, TypeOK
<1> HIDE DEF k
<1> DEFINE n == Len(rows)
<1>3. open[k] \in 0 .. n /\ 0 \in 0 .. n
  BY <1>1, <1>2
<1>4. /\ open \in [Keys -> 0 .. n]
      /\ lastEvent \in [Keys -> [id : 0 .. n, realEnd : Nat]]
  BY DEF BaseInv, TypeOK
<1>5. open' \in [Keys -> 0 .. n]
  BY <1>1, <1>3, <1>4
<1>6. [id |-> open[k], realEnd |-> clock] \in [id : 0 .. n, realEnd : Nat]
  BY <1>2, <1>3
<1>7. lastEvent' \in [Keys -> [id : 0 .. n, realEnd : Nat]]
  BY <1>1, <1>4, <1>6
<1>8. /\ level' \in [Workers -> [Topics -> BOOLEAN]]
      /\ aiCapable' \subseteq Cameras /\ cellMotion' \subseteq Cameras
      /\ recent' \in [Cameras -> Seq(Nat)] /\ burst' \in [Cameras -> Nat]
  BY <1>1, Zenon DEF BaseInv, TypeOK
<1>9. pc'[w] \notin Fetching /\ pc'[w] # "notify"
  BY <1>1 DEF Fetching
<1>10. Len(rows') >= Len(rows)
  BY <1>1, <1>2
<1>11. /\ open' \in [Keys -> 0 .. Len(rows')]
       /\ lastEvent' \in [Keys -> [id : 0 .. Len(rows'), realEnd : Nat]]
  BY <1>1, <1>5, <1>7, Zenon
<1> QED
  BY <1>1, <1>8, <1>9, <1>10, <1>11, BaseFrom, Zenon

(* Time passes. *)
LEMMA TickBase ==
  ASSUME BaseInv, Tick
  PROVE  BaseInv'
<1>1. /\ clock' = clock + 1
      /\ UNCHANGED <<level, pc, call, aiCapable, cellMotion, open, lastEvent, recent,
                     burst, rows>>
  BY DEF Tick, recorderVars
<1>2. clock' \in Nat /\ clock' > Pre
  BY <1>1, ConstantsAssumption DEF BaseInv, TypeOK
<1>3. TypeOK'
  BY <1>1, <1>2, Zenon DEF BaseInv, TypeOK
<1>4. CallInv'
  BY <1>1, Zenon DEF BaseInv, CallInv
<1> QED
  BY <1>2, <1>3, <1>4 DEF BaseInv

(* The initial state. *)
LEMMA InitBase ==
  ASSUME Init
  PROVE  BaseInv
<1>1. /\ clock = Pre + 1 /\ pc = [w \in Workers |-> "idle"]
      /\ call = [w \in Workers |-> NoCall] /\ rows = <<>>
      /\ open = [k \in Keys |-> 0]
      /\ lastEvent = [k \in Keys |-> [id |-> 0, realEnd |-> 0]]
      /\ recent = [c \in Cameras |-> <<>>] /\ burst = [c \in Cameras |-> 0]
  BY DEF Init
<1>2. clock \in Nat /\ clock > Pre
  BY <1>1, ConstantsAssumption
<1>3. level \in [Workers -> [Topics -> BOOLEAN]]
  BY SMT DEF Init
<1>4. NoCall \in Calls
  BY DEF NoCall, Calls
<1>5. pc \in [Workers -> Labels] /\ call \in [Workers -> Calls]
  BY <1>1, <1>4 DEF Labels
<1>6. rows \in Seq(Rows) /\ Len(rows) = 0
  BY <1>1
<1>7. open \in [Keys -> 0 .. Len(rows)]
  BY <1>1, <1>6
<1>8. lastEvent \in [Keys -> [id : 0 .. Len(rows), realEnd : Nat]]
  <2>1. [id |-> 0, realEnd |-> 0] \in [id : 0 .. Len(rows), realEnd : Nat]
    BY <1>6
  <2> QED
    BY <1>1, <2>1
<1>9. recent \in [Cameras -> Seq(Nat)] /\ burst \in [Cameras -> Nat]
  BY <1>1
<1>10. aiCapable \subseteq Cameras /\ cellMotion \subseteq Cameras
  BY DEF Init
<1>11. TypeOK
  BY <1>2, <1>3, <1>5, <1>6, <1>7, <1>8, <1>9, <1>10, Zenon DEF TypeOK
<1>12. CallInv
  BY <1>1 DEF CallInv, Fetching
<1> QED
  BY <1>2, <1>11, <1>12 DEF BaseInv

(* Every step. *)
LEMMA NextBase ==
  ASSUME BaseInv, [Next]_vars
  PROVE  BaseInv'
<1>1. CASE UNCHANGED vars
  <2>1. UNCHANGED <<clock, level, pc, call, aiCapable, cellMotion, open, lastEvent, recent,
                    burst, rows>>
    BY <1>1 DEF vars, recorderVars
  <2> QED
    BY <2>1, Zenon DEF BaseInv, TypeOK, CallInv
<1>2. CASE Tick
  BY <1>2, TickBase
<1>3. ASSUME NEW w \in Workers, NEW t \in Emitted[CameraOf[w]], NEW op \in Ops,
             \/ Ignore(w, t, op)
             \/ \E on \in BOOLEAN : Suppress(w, t, on, op) \/ Receive(w, t, on, op)
      PROVE  BaseInv'
  <2>1. t \in Topics
    BY ConstantsAssumption
  <2> QED
    BY <1>3, <2>1, HearBase, ReceiveBase, Zenon
<1>4. ASSUME NEW w \in Workers, Proceed(w)
      PROVE  BaseInv'
  <2>1. CASE MergeIntoOpen(w) \/ Reopen(w) \/ AdmitNew(w)
    BY <2>1, AdmitBase
  <2>2. CASE \/ RateLimit(w) \/ MsrStores(w) \/ MsrFails(w) \/ FillBurstCache(w)
             \/ Notify(w) \/ FinishUnknown(w)
             \/ \E picture \in BOOLEAN, label \in ObjectTypes : Fetch(w, picture, label)
             \/ \E ok \in Outcomes : InsertMerged(w, ok)
    BY <2>2, WorkBase
  <2>3. Outcomes \subseteq BOOLEAN
    BY Zenon DEF Outcomes
  <2>4. CASE \E ok1, ok2 \in Outcomes : InsertNew(w, ok1, ok2)
    BY <2>3, <2>4, InsertNewBase, Zenon
  <2>5. CASE \E ok \in Outcomes : Finish(w, ok)
    BY <2>3, <2>5, FinishBase, Zenon
  <2> QED
    BY <1>4, <2>1, <2>2, <2>4, <2>5, Zenon DEF Proceed
<1> QED
  BY <1>1, <1>2, <1>3, <1>4, Zenon DEF Next

-----------------------------------------------------------------------------
(* Every variable has its type, whatever the cameras, workers and settings *)
(* are.                                                                    *)
THEOREM BaseInvariant == Spec => []BaseInv
<1>1. Init => BaseInv
  BY InitBase
<1>2. BaseInv /\ [Next]_vars => BaseInv'
  BY NextBase
<1> QED
  BY <1>1, <1>2, PTL DEF Spec

(* Every variable keeps its type, with any number of workers and faults. *)
THEOREM TypeCorrect == Spec => []TypeOK
<1>1. BaseInv => TypeOK
  BY DEF BaseInv
<1> QED
  BY <1>1, BaseInvariant, PTL

-----------------------------------------------------------------------------
(***************************************************************************)
(* Memory and table, for any number of workers.                            *)
(***************************************************************************)

(* The steps by what they do to open_, last_event_ and the rows: most do   *)
(* nothing to them that matters.                                           *)
Still == UNCHANGED <<open, lastEvent>> /\ RowsKept /\ clock' \in {clock, clock + 1}

(* Only reopening, inserting and finishing touch open, lastEvent or the    *)
(* rows' events.                                                           *)
LEMMA StepKinds ==
  ASSUME BaseInv, [Next]_vars
  PROVE  \/ Still
         \/ \E w \in Workers : Reopen(w)
         \/ \E w \in Workers, ok1, ok2 \in BOOLEAN : InsertNew(w, ok1, ok2)
         \/ \E w \in Workers, ok \in Outcomes : Finish(w, ok)
<1>1. rows' = rows => RowsKept
  BY RowsShape DEF RowsKept, SameEvent
<1>2. CASE UNCHANGED vars
  BY <1>1, <1>2 DEF vars, recorderVars, Still
<1>3. CASE Tick
  BY <1>1, <1>3 DEF Tick, recorderVars, Still
<1>4. ASSUME NEW w \in Workers, NEW t \in Emitted[CameraOf[w]], NEW op \in Ops,
             \/ Ignore(w, t, op)
             \/ \E on \in BOOLEAN : Suppress(w, t, on, op) \/ Receive(w, t, on, op)
      PROVE  Still
  BY <1>1, <1>4 DEF Ignore, Suppress, Receive, recorderVars, Still
<1>5. ASSUME NEW w \in Workers, Proceed(w)
      PROVE  \/ Still
             \/ Reopen(w)
             \/ \E ok1, ok2 \in BOOLEAN : InsertNew(w, ok1, ok2)
             \/ \E ok \in Outcomes : Finish(w, ok)
  <2>1. Outcomes \subseteq BOOLEAN
    BY Zenon DEF Outcomes
  <2>2. CASE \/ MergeIntoOpen(w) \/ RateLimit(w) \/ AdmitNew(w)
             \/ MsrStores(w) \/ MsrFails(w) \/ FillBurstCache(w) \/ FinishUnknown(w)
             \/ \E picture \in BOOLEAN, label \in ObjectTypes : Fetch(w, picture, label)
    <3>1. UNCHANGED <<open, lastEvent, rows, clock>>
      BY <2>2 DEF MergeIntoOpen, RateLimit, AdmitNew, MsrStores, MsrFails, FillBurstCache,
         FinishUnknown, Fetch, recorderVars
    <3> QED
      BY <1>1, <3>1 DEF Still
  <2>3. CASE Notify(w) \/ \E ok \in Outcomes : InsertMerged(w, ok)
    BY <2>3, TouchFacts DEF Still, recorderVars
  <2> QED
    BY <1>5, <2>1, <2>2, <2>3, Zenon DEF Proceed
<1> QED
  BY <1>2, <1>3, <1>4, <1>5, Zenon DEF Next

(* What is remembered of a key stays a row of it, and its newest. *)
LEMMA MemoryStep ==
  ASSUME BaseInv, MemoryInv, [Next]_vars
  PROVE  MemoryInv'
<1> DEFINE Newest(k) == IF open[k] # 0 THEN open[k] ELSE lastEvent[k].id
<1>1. /\ Len(rows) \in Nat /\ DOMAIN rows = 1 .. Len(rows)
      /\ \A i \in 1 .. Len(rows) : rows[i].key \in Keys
      /\ open \in [Keys -> 0 .. Len(rows)]
      /\ lastEvent \in [Keys -> [id : 0 .. Len(rows), realEnd : Nat]]
      /\ \A k \in Keys : /\ open[k] \in 0 .. Len(rows)
                         /\ lastEvent[k].id \in 0 .. Len(rows) /\ lastEvent[k].realEnd \in Nat
  BY RowsShape, LastEventTyped DEF BaseInv, TypeOK
<1>2. /\ \A k \in Keys, i \in 1 .. Len(rows) : rows[i].key = k =>
           Newest(k) \in 1 .. Len(rows) /\ rows[Newest(k)].key = k /\ i <= Newest(k)
      /\ \A k \in Keys : /\ open[k] # 0 => rows[open[k]].key = k
                         /\ lastEvent[k].id # 0 => rows[lastEvent[k].id].key = k
                         /\ lastEvent[k].realEnd > 0 => lastEvent[k].id # 0
  BY <1>1 DEF MemoryInv, MemoryNewest
<1>3. DOMAIN rows' = 1 .. Len(rows')
  <2>1. rows' \in Seq(Rows)
    BY NextBase DEF BaseInv, TypeOK
  <2> QED
    BY <2>1, LenProperties
<1> DEFINE NewestAfter(k) == IF open'[k] # 0 THEN open'[k] ELSE lastEvent'[k].id
           Newer == \A k \in Keys, i \in 1 .. Len(rows') : rows'[i].key = k =>
                      /\ NewestAfter(k) \in 1 .. Len(rows')
                      /\ rows'[NewestAfter(k)].key = k /\ i <= NewestAfter(k)
           Own == \A k \in Keys : /\ open'[k] # 0 => rows'[open'[k]].key = k
                                  /\ lastEvent'[k].id # 0 => rows'[lastEvent'[k].id].key = k
                                  /\ lastEvent'[k].realEnd > 0 => lastEvent'[k].id # 0
<1>4. CASE Still
  <2>1. /\ open' = open /\ lastEvent' = lastEvent /\ Len(rows') = Len(rows)
        /\ \A i \in 1 .. Len(rows) : rows'[i].key = rows[i].key
    BY <1>4 DEF Still, RowsKept, SameEvent
  <2>2. Newer
    BY <1>1, <1>2, <2>1
  <2>3. Own
    BY <1>1, <1>2, <2>1
  <2> QED
    BY <1>3, <2>2, <2>3 DEF MemoryInv, MemoryNewest
<1>5. ASSUME NEW w \in Workers, Reopen(w)
      PROVE  MemoryInv'
  <2> DEFINE q == call[w].key
  <2>1. /\ open[q] = 0 /\ rows' = rows
        /\ open' = [open EXCEPT ![q] = lastEvent[q].id]
        /\ lastEvent' = [lastEvent EXCEPT ![q] = [lastEvent[q] EXCEPT !.realEnd = 0]]
    BY <1>5, Zenon DEF Reopen
  <2>2. q \in Keys
    BY <1>5 DEF BaseInv, CallInv, Reopen, Admitted, Goto
  <2> HIDE DEF q
  <2> DEFINE r == lastEvent[q]
             s == [r EXCEPT !.realEnd = 0]
  <2>3. s.id = r.id /\ s.realEnd = 0
    <3>1. r \in [id : 0 .. Len(rows), realEnd : Nat]
      BY <1>1, <2>2
    <3> HIDE DEF r
    <3> QED
      BY <3>1
  <2>4. lastEvent' = [lastEvent EXCEPT ![q] = s]
    BY <2>1, Zenon
  <2> HIDE DEF s
  <2>5. /\ open'[q] = lastEvent[q].id
        /\ lastEvent'[q].id = lastEvent[q].id /\ lastEvent'[q].realEnd = 0
        /\ \A k \in Keys : k # q => open'[k] = open[k] /\ lastEvent'[k] = lastEvent[k]
    BY <1>1, <2>1, <2>2, <2>3, <2>4
  <2>6. \A k \in Keys : NewestAfter(k) = Newest(k)
    BY <1>1, <2>1, <2>2, <2>5
  <2>7. Newer
    BY <1>2, <2>1, <2>6
  <2>8. Own
    BY <1>1, <1>2, <2>1, <2>2, <2>5
  <2> QED
    BY <1>3, <2>7, <2>8 DEF MemoryInv, MemoryNewest
<1>6. ASSUME NEW w \in Workers, NEW ok1 \in BOOLEAN, NEW ok2 \in BOOLEAN, InsertNew(w, ok1, ok2)
      PROVE  MemoryInv'
  <2> DEFINE q == call[w].key
             n == Len(rows) + 1
  <2>1. /\ pc[w] = "insert" /\ Len(rows') = n
        /\ \A i \in 1 .. Len(rows) : rows'[i] = rows[i]
        /\ rows'[n].key = q /\ open' = [open EXCEPT ![q] = n] /\ lastEvent' = lastEvent
    BY <1>6, InsertNewFacts
  <2>2. q \in Keys
    BY <2>1 DEF BaseInv, CallInv
  <2> HIDE DEF q
  <2>3. open'[q] = n /\ \A k \in Keys : k # q => open'[k] = open[k]
    BY <1>1, <2>1, <2>2
  <2>4. Newer
    <3> SUFFICES ASSUME NEW k \in Keys, NEW i \in 1 .. n, rows'[i].key = k
                 PROVE  NewestAfter(k) \in 1 .. n /\ rows'[NewestAfter(k)].key = k
                        /\ i <= NewestAfter(k)
      BY <2>1
    <3>1. CASE k = q
      BY <1>1, <2>1, <2>3, <3>1
    <3>2. CASE k # q
      <4>1. i \in 1 .. Len(rows) /\ rows[i].key = k
        BY <1>1, <2>1, <3>2
      <4>2. NewestAfter(k) = Newest(k)
        BY <2>1, <2>3, <3>2
      <4> QED
        BY <1>1, <1>2, <2>1, <4>1, <4>2
    <3> QED
      BY <3>1, <3>2
  <2>5. Own
    <3> SUFFICES ASSUME NEW k \in Keys
                 PROVE  /\ open'[k] # 0 => rows'[open'[k]].key = k
                        /\ lastEvent[k].id # 0 => rows'[lastEvent[k].id].key = k
                        /\ lastEvent[k].realEnd > 0 => lastEvent[k].id # 0
      BY <2>1
    <3>1. lastEvent[k].id # 0 => lastEvent[k].id \in 1 .. Len(rows)
      BY <1>1
    <3>2. open[k] # 0 => open[k] \in 1 .. Len(rows)
      BY <1>1
    <3>3. CASE k = q
      BY <1>2, <2>1, <2>3, <3>1, <3>3
    <3>4. CASE k # q
      BY <1>2, <2>1, <2>3, <3>1, <3>2, <3>4
    <3> QED
      BY <3>3, <3>4
  <2> QED
    BY <1>3, <2>4, <2>5 DEF MemoryInv, MemoryNewest
<1>7. ASSUME NEW w \in Workers, NEW ok \in Outcomes, Finish(w, ok)
      PROVE  MemoryInv'
  <2> DEFINE q == call[w].key
  <2>0. ok \in BOOLEAN
    BY Zenon DEF Outcomes
  <2>1. /\ q \in Keys /\ open[q] \in 1 .. Len(rows) /\ Len(rows') = Len(rows)
        /\ \A i \in 1 .. Len(rows) : SameEvent(rows'[i], rows[i])
        /\ open' = [open EXCEPT ![q] = 0]
        /\ lastEvent' = [lastEvent EXCEPT ![q] = [id |-> open[q], realEnd |-> clock]]
    BY <1>7, <2>0, FinishFacts
  <2> HIDE DEF q
  <2>2. /\ open'[q] = 0 /\ lastEvent'[q].id = open[q] /\ lastEvent'[q].realEnd = clock
        /\ \A k \in Keys : k # q => open'[k] = open[k] /\ lastEvent'[k] = lastEvent[k]
    BY <1>1, <2>1
  <2>3. \A i \in 1 .. Len(rows) : rows'[i].key = rows[i].key
    BY <2>1 DEF SameEvent
  <2>4. \A k \in Keys : NewestAfter(k) = Newest(k)
    BY <1>1, <2>1, <2>2
  <2>5. Newer
    BY <1>2, <2>1, <2>3, <2>4
  <2>6. Own
    <3> SUFFICES ASSUME NEW k \in Keys
                 PROVE  /\ open'[k] # 0 => rows'[open'[k]].key = k
                        /\ lastEvent'[k].id # 0 => rows'[lastEvent'[k].id].key = k
                        /\ lastEvent'[k].realEnd > 0 => lastEvent'[k].id # 0
      OBVIOUS
    <3>1. /\ open[k] # 0 => open[k] \in 1 .. Len(rows)
          /\ lastEvent[k].id # 0 => lastEvent[k].id \in 1 .. Len(rows)
      BY <1>1
    <3>2. CASE k = q
      BY <1>2, <2>1, <2>2, <2>3, <3>1, <3>2
    <3>3. CASE k # q
      BY <1>2, <2>2, <2>3, <3>1, <3>3
    <3> QED
      BY <3>2, <3>3
  <2> QED
    BY <1>3, <2>5, <2>6 DEF MemoryInv, MemoryNewest
<1> QED
  BY <1>4, <1>5, <1>6, <1>7, StepKinds, Zenon

(* Whatever the recorder remembers of a key is the newest row of it, for   *)
(* any number of workers, statements that fail or not.                     *)
THEOREM MemoryNewestHolds == Spec => []MemoryNewest
<1>1. Init => BaseInv /\ MemoryInv
  <2>1. Init => BaseInv
    BY InitBase
  <2>2. Init => MemoryInv
    <3> SUFFICES ASSUME Init PROVE MemoryInv
      OBVIOUS
    <3>1. /\ rows = <<>> /\ open = [k \in Keys |-> 0]
          /\ lastEvent = [k \in Keys |-> [id |-> 0, realEnd |-> 0]]
      BY DEF Init
    <3>2. DOMAIN rows = {}
      BY <3>1
    <3> QED
      BY <3>1, <3>2 DEF MemoryInv, MemoryNewest
  <2> QED
    BY <2>1, <2>2
<1>2. BaseInv /\ MemoryInv /\ [Next]_vars => (BaseInv /\ MemoryInv)'
  BY NextBase, MemoryStep
<1>3. BaseInv /\ MemoryInv => MemoryNewest
  BY DEF MemoryInv
<1> QED
  BY <1>1, <1>2, <1>3, PTL DEF Spec

-----------------------------------------------------------------------------
(***************************************************************************)
(* What the steps do to the key of their call.                             *)
(***************************************************************************)

(* Two workers in the middle of a call hold different keys. *)
LEMMA OwnKeys ==
  ASSUME OneListenerEach, BaseInv, NEW v \in Workers, NEW w \in Workers, v # w,
         pc[v] # "idle", pc[w] # "idle"
  PROVE  call[v].key # call[w].key
BY DEF BaseInv, CallInv, OneListenerEach

(* A re-opened key. *)
LEMMA ReopenEffect ==
  ASSUME BaseInv, NEW w \in Workers, Reopen(w), NEW k, k = call[w].key
  PROVE  /\ CallsTyped /\ Others(w)
         /\ pc[w] = "admit" /\ pc'[w] = "fetch" /\ k \in Keys /\ k[1] = CameraOf[w]
         /\ call'[w].key = k /\ call'[w].target = lastEvent[k].id
         /\ call'[w].cached = BurstFresh(CameraOf[w])
         /\ open[k] = 0 /\ lastEvent[k].realEnd > 0
         /\ open'[k] = lastEvent[k].id /\ lastEvent'[k].realEnd = 0
         /\ \A q \in Keys : q # k => open'[q] = open[q] /\ lastEvent'[q] = lastEvent[q]
         /\ UNCHANGED <<clock, level, aiCapable, cellMotion, recent, burst, rows>>
<1>1. /\ Admitted(w, lastEvent[k].id) /\ open[k] = 0 /\ lastEvent[k].realEnd > 0
      /\ open' = [open EXCEPT ![k] = lastEvent[k].id]
      /\ lastEvent' = [lastEvent EXCEPT ![k] = [lastEvent[k] EXCEPT !.realEnd = 0]]
      /\ UNCHANGED <<clock, level, aiCapable, cellMotion, recent, burst, rows>>
  BY Zenon DEF Reopen, Recently
<1>2. k \in Keys /\ k[1] = CameraOf[w]
  BY <1>1 DEF Admitted, Goto, BaseInv, CallInv
<1>3. Len(rows) \in Nat /\ lastEvent[k].id \in Nat
  BY <1>2, RowsShape, LastEventTyped
<1>4. /\ CallsTyped /\ Others(w) /\ pc[w] = "admit" /\ pc'[w] = "fetch"
      /\ call'[w].key = k /\ call'[w].target = lastEvent[k].id
      /\ call'[w].cached = BurstFresh(CameraOf[w])
  BY <1>1, <1>3, AdmittedFacts
<1>5. /\ open \in [Keys -> 0 .. Len(rows)]
      /\ lastEvent \in [Keys -> [id : 0 .. Len(rows), realEnd : Nat]]
  BY DEF BaseInv, TypeOK
<1>6. open'[k] = lastEvent[k].id /\ \A q \in Keys : q # k => open'[q] = open[q]
  BY <1>1, <1>2, <1>5
<1> DEFINE r == lastEvent[k]
           s == [r EXCEPT !.realEnd = 0]
<1>7. s.realEnd = 0
  <2>1. r \in [id : 0 .. Len(rows), realEnd : Nat]
    BY <1>2, <1>5
  <2> HIDE DEF r
  <2> QED
    BY <2>1
<1>8. lastEvent' = [lastEvent EXCEPT ![k] = s]
  BY <1>1, Zenon
<1> HIDE DEF s
<1>9. lastEvent'[k].realEnd = 0 /\ \A q \in Keys : q # k => lastEvent'[q] = lastEvent[q]
  BY <1>2, <1>5, <1>7, <1>8
<1> QED
  BY <1>1, <1>2, <1>4, <1>6, <1>9, Zenon

(* A key that gets a new row. *)
LEMMA InsertNewEffect ==
  ASSUME BaseInv, NEW w \in Workers, NEW ok1 \in BOOLEAN, NEW ok2 \in BOOLEAN,
         InsertNew(w, ok1, ok2), NEW k, k = call[w].key, NEW n, n = Len(rows) + 1
  PROVE  /\ CallsTyped /\ Others(w)
         /\ pc[w] = "insert" /\ pc'[w] = "notify" /\ k \in Keys /\ k[1] = CameraOf[w]
         /\ call[w].target = 0 /\ n \in Nat
         /\ Len(rows') = n /\ DOMAIN rows' = 1 .. n
         /\ \A i \in 1 .. Len(rows) : rows'[i] = rows[i]
         /\ rows'[n].key = k /\ rows'[n].start = call[w].start /\ rows'[n].end = 0
         /\ open'[k] = n /\ \A q \in Keys : q # k => open'[q] = open[q]
         /\ UNCHANGED <<clock, level, aiCapable, cellMotion, lastEvent, burst>>
<1>1. /\ CallsTyped /\ Others(w)
      /\ pc[w] = "insert" /\ pc'[w] = "notify" /\ call[w].target = 0
      /\ rows' \in Seq(Rows) /\ Len(rows') = n
      /\ \A i \in 1 .. Len(rows) : rows'[i] = rows[i]
      /\ rows'[n].key = k /\ rows'[n].start = call[w].start /\ rows'[n].end = 0
      /\ open' = [open EXCEPT ![k] = n]
      /\ UNCHANGED <<clock, level, aiCapable, cellMotion, lastEvent, burst>>
  BY InsertNewFacts
<1>2. k \in Keys /\ k[1] = CameraOf[w]
  BY <1>1 DEF BaseInv, CallInv
<1>3. DOMAIN rows' = 1 .. n /\ n \in Nat
  BY <1>1, RowsShape, LenProperties
<1>4. open \in [Keys -> 0 .. Len(rows)]
  BY DEF BaseInv, TypeOK
<1>5. open'[k] = n /\ \A q \in Keys : q # k => open'[q] = open[q]
  BY <1>1, <1>2, <1>4
<1> QED
  BY <1>1, <1>2, <1>3, <1>5, Zenon

(* A key whose detection ends. *)
LEMMA FinishEffect ==
  ASSUME BaseInv, NEW w \in Workers, NEW ok \in BOOLEAN, Finish(w, ok),
         NEW k, k = call[w].key
  PROVE  /\ CallsTyped /\ Others(w)
         /\ pc[w] = "finish" /\ pc'[w] = "idle" /\ k \in Keys /\ k[1] = CameraOf[w]
         /\ open[k] \in 1 .. Len(rows) /\ Len(rows') = Len(rows)
         /\ DOMAIN rows' = 1 .. Len(rows)
         /\ \A i \in 1 .. Len(rows) : SameEvent(rows'[i], rows[i])
         /\ \A i \in 1 .. Len(rows) :
              \/ rows'[i].end = rows[i].end
              \/ i = open[k] /\ rows'[i].end = clock + Post
         /\ open'[k] = 0 /\ lastEvent'[k].realEnd = clock
         /\ \A q \in Keys : q # k => open'[q] = open[q] /\ lastEvent'[q] = lastEvent[q]
         /\ UNCHANGED <<clock, level, aiCapable, cellMotion, recent, burst>>
<1> DEFINE mine == call[w].key
<1>5. /\ CallsTyped /\ Others(w)
      /\ pc[w] = "finish" /\ pc'[w] = "idle" /\ mine \in Keys /\ mine[1] = CameraOf[w]
      /\ open[mine] \in 1 .. Len(rows)
      /\ rows' \in Seq(Rows) /\ Len(rows') = Len(rows)
      /\ \A i \in 1 .. Len(rows) : SameEvent(rows'[i], rows[i])
      /\ \A i \in 1 .. Len(rows) :
           \/ rows'[i].end = rows[i].end
           \/ i = open[mine] /\ rows'[i].end = clock + Post
      /\ open' = [open EXCEPT ![mine] = 0]
      /\ lastEvent' = [lastEvent EXCEPT ![mine] = [id |-> open[mine], realEnd |-> clock]]
      /\ UNCHANGED <<clock, level, aiCapable, cellMotion, recent, burst>>
  BY FinishFacts
<1> HIDE DEF mine
<1>6. k = mine
  BY DEF mine
<1>1. /\ CallsTyped /\ Others(w)
      /\ pc[w] = "finish" /\ pc'[w] = "idle" /\ k \in Keys /\ k[1] = CameraOf[w]
      /\ open[k] \in 1 .. Len(rows)
      /\ rows' \in Seq(Rows) /\ Len(rows') = Len(rows)
      /\ \A i \in 1 .. Len(rows) : SameEvent(rows'[i], rows[i])
      /\ \A i \in 1 .. Len(rows) :
           \/ rows'[i].end = rows[i].end
           \/ i = open[k] /\ rows'[i].end = clock + Post
      /\ open' = [open EXCEPT ![k] = 0]
      /\ lastEvent' = [lastEvent EXCEPT ![k] = [id |-> open[k], realEnd |-> clock]]
      /\ UNCHANGED <<clock, level, aiCapable, cellMotion, recent, burst>>
  BY <1>5, <1>6, Zenon
<1>2. DOMAIN rows' = 1 .. Len(rows)
  BY <1>1, LenProperties
<1>3. /\ open \in [Keys -> 0 .. Len(rows)]
      /\ lastEvent \in [Keys -> [id : 0 .. Len(rows), realEnd : Nat]]
  BY DEF BaseInv, TypeOK
<1>4. /\ open'[k] = 0 /\ lastEvent'[k].realEnd = clock
      /\ \A q \in Keys : q # k => open'[q] = open[q] /\ lastEvent'[q] = lastEvent[q]
  BY <1>1, <1>3
<1> QED
  BY <1>1, <1>2, <1>4, Zenon

(* How a worker comes to hold an admitted detection: it held it before, or *)
(* this step admits it.                                                    *)
LEMMA FetchingStep ==
  ASSUME BaseInv, [Next]_vars, NEW v \in Workers, pc'[v] \in Fetching
  PROVE  /\ call'[v].key = call[v].key
         /\ \/ /\ pc[v] \in Fetching /\ call'[v].target = call[v].target
               /\ Began(v)' >= Began(v)
               /\ Began(v) <= clock => Began(v)' <= clock'
            \/ /\ pc[v] = "admit" /\ pc'[v] = "fetch" /\ clock' = clock
               /\ MergeIntoOpen(v) \/ Reopen(v) \/ AdmitNew(v)
<1> DEFINE Goal == /\ call'[v].key = call[v].key
                   /\ \/ /\ pc[v] \in Fetching /\ call'[v].target = call[v].target
                         /\ Began(v)' >= Began(v)
                         /\ Began(v) <= clock => Began(v)' <= clock'
                      \/ /\ pc[v] = "admit" /\ pc'[v] = "fetch" /\ clock' = clock
                         /\ MergeIntoOpen(v) \/ Reopen(v) \/ AdmitNew(v)
<1> SUFFICES Goal
  OBVIOUS
<1> HIDE DEF Goal
<1>1. /\ clock \in Nat /\ Pre \in Nat
      /\ call[v].start \in Nat /\ call[v].target \in Nat
  <2>1. clock \in Nat /\ call[v] \in Calls
    BY DEF BaseInv, TypeOK
  <2>2. call[v].start \in Nat /\ call[v].target \in Nat
    BY <2>1 DEF Calls
  <2> QED
    BY <2>1, <2>2, ConstantsAssumption
<1>2. ASSUME pc'[v] = pc[v], call'[v] = call[v], clock' \in {clock, clock + 1}
      PROVE  Goal
  <2> USE DEF Goal
  <2>1. Began(v)' = IF pc[v] = "fetch" THEN clock' ELSE call[v].start + Pre
    BY <1>2 DEF Began
  <2>2. Began(v) = IF pc[v] = "fetch" THEN clock ELSE call[v].start + Pre
    BY DEF Began
  <2> QED
    BY <1>1, <1>2, <2>1, <2>2 DEF Fetching
<1>3. CASE UNCHANGED vars
  BY <1>2, <1>3 DEF vars
<1>4. CASE Tick
  BY <1>2, <1>4 DEF Tick
<1>5. ASSUME NEW w \in Workers, NEW t \in Emitted[CameraOf[w]], NEW op \in Ops,
             \/ Ignore(w, t, op)
             \/ \E on \in BOOLEAN : Suppress(w, t, on, op) \/ Receive(w, t, on, op)
      PROVE  Goal
  <2>1. CASE Ignore(w, t, op) \/ \E on \in BOOLEAN : Suppress(w, t, on, op)
    <3>1. UNCHANGED <<clock, pc, call>>
      BY <2>1 DEF Ignore, Suppress
    <3> QED
      BY <1>2, <3>1
  <2>2. CASE \E on \in BOOLEAN : Receive(w, t, on, op)
    <3>1. t \in Topics
      BY ConstantsAssumption
    <3>2. Others(w) /\ pc'[w] \in {"admit", "finish"} /\ clock' = clock
      BY <2>2, <3>1, ReceiveFacts
    <3>3. v # w
      BY <3>2 DEF Fetching
    <3> QED
      BY <1>2, <3>2, <3>3 DEF Others
  <2> QED
    BY <1>5, <2>1, <2>2
<1>6. ASSUME NEW w \in Workers, Proceed(w)
      PROVE  Goal
  <2>1. ASSUME Others(w), pc'[w] \notin Fetching, clock' = clock
        PROVE  Goal
    <3>1. v # w
      BY <2>1
    <3> QED
      BY <1>2, <2>1, <3>1 DEF Others
  <2>2. ASSUME Others(w), clock' = clock, pc[w] \in Fetching,
               call'[w].key = call[w].key, call'[w].target = call[w].target,
               Began(w)' = Began(w)
        PROVE  Goal
    <3>1. CASE v = w
      <4>1. Began(w) \in Nat
        BY <1>1, <3>1 DEF Began
      <4> QED
        BY <2>2, <3>1, <4>1 DEF Goal
    <3>2. CASE v # w
      BY <1>2, <2>2, <3>2 DEF Others
    <3> QED
      BY <3>1, <3>2
  <2>3. CASE MergeIntoOpen(w) \/ Reopen(w) \/ AdmitNew(w)
    <3>1. clock' = clock /\ \E row : Admitted(w, row)
      BY <2>3 DEF MergeIntoOpen, Reopen, AdmitNew
    <3>2. pc[w] = "admit"
      BY <3>1 DEF Admitted, Goto
    <3>3. \E row \in Nat : Admitted(w, row)
      <4> DEFINE k == call[w].key
      <4>1. k \in Keys
        BY <3>2 DEF BaseInv, CallInv
      <4>2. open[k] \in 0 .. Len(rows) /\ lastEvent[k].id \in 0 .. Len(rows)
        BY <4>1, LastEventTyped DEF BaseInv, TypeOK
      <4>3. open[k] \in Nat /\ lastEvent[k].id \in Nat /\ 0 \in Nat
        BY <4>2, RowsShape
      <4> QED
        BY <2>3, <4>3, Zenon DEF MergeIntoOpen, Reopen, AdmitNew
    <3>4. Others(w) /\ pc'[w] = "fetch" /\ call'[w].key = call[w].key
      BY <3>3, AdmittedFacts
    <3>5. CASE v = w
      BY <2>3, <3>1, <3>2, <3>4, <3>5 DEF Goal
    <3>6. CASE v # w
      BY <1>2, <3>1, <3>4, <3>6 DEF Others
    <3> QED
      BY <3>5, <3>6
  <2>4. CASE RateLimit(w) \/ FinishUnknown(w)
    <3>1. clock' = clock /\ \E from : Return(w, from)
      BY <2>4 DEF RateLimit, FinishUnknown
    <3>2. Others(w) /\ pc'[w] = "idle"
      BY <3>1, ReturnFacts
    <3> QED
      BY <2>1, <3>1, <3>2 DEF Fetching
  <2>5. ASSUME NEW picture \in BOOLEAN, NEW label \in ObjectTypes, Fetch(w, picture, label)
        PROVE  Goal
    <3>1. /\ Others(w) /\ pc[w] = "fetch" /\ pc'[w] \in {"forward", "insert"}
          /\ call'[w].key = call[w].key /\ call'[w].target = call[w].target
          /\ call'[w].start + Pre = clock /\ clock' = clock
      BY <2>5, FetchFacts
    <3>2. Began(w)' = Began(w)
      BY <3>1 DEF Began
    <3> QED
      BY <2>2, <3>1, <3>2 DEF Fetching
  <2>6. CASE MsrStores(w) \/ MsrFails(w)
    <3>1. /\ Others(w) /\ pc[w] = "forward" /\ pc'[w] \in {"cache", "insert"}
          /\ call'[w].key = call[w].key /\ call'[w].target = call[w].target
          /\ call'[w].start = call[w].start /\ clock' = clock
      BY <2>6, ForwardFacts
    <3>2. Began(w)' = Began(w)
      BY <3>1 DEF Began
    <3> QED
      BY <2>2, <3>1, <3>2 DEF Fetching
  <2>7. CASE FillBurstCache(w)
    <3>1. /\ Others(w) /\ pc[w] = "cache" /\ pc'[w] = "insert" /\ call'[w] = call[w]
          /\ clock' = clock
      BY <2>7, CacheFacts
    <3>2. Began(w)' = Began(w)
      BY <3>1 DEF Began
    <3> QED
      BY <2>2, <3>1, <3>2 DEF Fetching
  <2>8. Outcomes \subseteq BOOLEAN
    BY Zenon DEF Outcomes
  <2>9. CASE \E ok1, ok2 \in Outcomes : InsertNew(w, ok1, ok2)
    <3>1. Others(w) /\ pc'[w] = "notify" /\ clock' = clock
      BY <2>8, <2>9, InsertNewFacts
    <3> QED
      BY <2>1, <3>1 DEF Fetching
  <2>10. CASE Notify(w) \/ \E ok \in Outcomes : InsertMerged(w, ok)
    <3>1. Others(w) /\ pc'[w] = "idle" /\ clock' = clock
      BY <2>10, TouchFacts
    <3> QED
      BY <2>1, <3>1 DEF Fetching
  <2>11. CASE \E ok \in Outcomes : Finish(w, ok)
    <3>1. Others(w) /\ pc'[w] = "idle" /\ clock' = clock
      BY <2>8, <2>11, FinishFacts
    <3> QED
      BY <2>1, <3>1 DEF Fetching
  <2>12. CASE \E picture \in BOOLEAN, label \in ObjectTypes : Fetch(w, picture, label)
    BY <2>5, <2>12
  <2> QED
    BY <1>6, <2>3, <2>4, <2>6, <2>7, <2>9, <2>10, <2>11, <2>12, Zenon DEF Proceed
<1> HIDE DEF Goal
<1> QED
  BY <1>3, <1>4, <1>5, <1>6, Zenon DEF Next

(* An admission that merges into the open row, or asks for a new one. *)
LEMMA AdmitEffect ==
  ASSUME BaseInv, NEW w \in Workers, MergeIntoOpen(w) \/ AdmitNew(w),
         NEW k, k = call[w].key
  PROVE  /\ CallsTyped /\ Others(w)
         /\ pc[w] = "admit" /\ pc'[w] = "fetch" /\ k \in Keys /\ k[1] = CameraOf[w]
         /\ call'[w].key = k /\ call'[w].cached = BurstFresh(CameraOf[w])
         /\ \/ call'[w].target = open[k] /\ open[k] # 0 /\ recent' = recent
            \/ call'[w].target = 0 /\ AdmitNew(w)
         /\ UNCHANGED <<clock, level, open, lastEvent, burst, rows>>
<1>1. /\ pc[w] = "admit"
      /\ UNCHANGED <<clock, level, open, lastEvent, burst, rows>>
  BY DEF MergeIntoOpen, AdmitNew, Admitted, Goto, recorderVars
<1>2. k \in Keys /\ k[1] = CameraOf[w]
  BY <1>1 DEF BaseInv, CallInv
<1>3. open[k] \in Nat /\ 0 \in Nat
  BY <1>2, RowsShape DEF BaseInv, TypeOK
<1>4. \/ Admitted(w, open[k]) /\ open[k] # 0 /\ recent' = recent
      \/ Admitted(w, 0) /\ AdmitNew(w)
  BY Zenon DEF MergeIntoOpen, AdmitNew, recorderVars
<1>5. CASE Admitted(w, open[k]) /\ open[k] # 0 /\ recent' = recent
  <2>1. /\ CallsTyped /\ Others(w) /\ pc'[w] = "fetch" /\ call'[w].key = call[w].key
        /\ call'[w].target = open[k] /\ call'[w].cached = BurstFresh(CameraOf[w])
    BY <1>3, <1>5, AdmittedFacts
  <2> QED
    BY <1>1, <1>2, <1>5, <2>1, Zenon
<1>6. CASE Admitted(w, 0) /\ AdmitNew(w)
  <2>1. /\ CallsTyped /\ Others(w) /\ pc'[w] = "fetch" /\ call'[w].key = call[w].key
        /\ call'[w].target = 0 /\ call'[w].cached = BurstFresh(CameraOf[w])
    BY <1>3, <1>6, AdmittedFacts
  <2> QED
    BY <1>1, <1>2, <1>6, <2>1, Zenon
<1> QED
  BY <1>4, <1>5, <1>6

(* The numbers of a state. *)
LEMMA Types ==
  ASSUME BaseInv
  PROVE  /\ Len(rows) \in Nat /\ DOMAIN rows = 1 .. Len(rows)
         /\ clock \in Nat /\ clock > 0 /\ Pre \in Nat /\ Post \in Nat
         /\ \A i \in 1 .. Len(rows) : /\ rows[i].key \in Keys /\ rows[i].key[1] \in Cameras
                                      /\ rows[i].start \in Nat /\ rows[i].end \in Nat
         /\ \A k \in Keys : /\ open[k] \in 0 .. Len(rows) /\ k[1] \in Cameras
                            /\ lastEvent[k].id \in 0 .. Len(rows)
                            /\ lastEvent[k].realEnd \in Nat
         /\ \A c \in Cameras : Window[c] \in Nat
         /\ \A w \in Workers : CameraOf[w] \in Cameras /\ Began(w) \in Nat
<1>1. clock \in Nat /\ clock > Pre /\ Pre \in Nat /\ Post \in Nat
  BY ConstantsAssumption DEF BaseInv, TypeOK
<1>2. \A w \in Workers : Began(w) \in Nat
  <2>1. \A w \in Workers : call[w] \in Calls
    BY DEF BaseInv, TypeOK
  <2>2. \A w \in Workers : call[w].start \in Nat
    BY <2>1 DEF Calls
  <2> QED
    BY <1>1, <2>2 DEF Began
<1>3. \A k \in Keys : k[1] \in Cameras /\ open[k] \in 0 .. Len(rows)
  BY KeyCamera DEF BaseInv, TypeOK
<1>4. /\ \A c \in Cameras : Window[c] \in Nat
      /\ \A w \in Workers : CameraOf[w] \in Cameras
  BY ConstantsAssumption
<1>5. clock > 0
  BY <1>1
<1>6. /\ Len(rows) \in Nat /\ DOMAIN rows = 1 .. Len(rows)
      /\ \A i \in 1 .. Len(rows) : /\ rows[i].key \in Keys /\ rows[i].key[1] \in Cameras
                                   /\ rows[i].start \in Nat /\ rows[i].end \in Nat
  BY <1>3, RowsShape
<1>7. \A k \in Keys : lastEvent[k].id \in 0 .. Len(rows) /\ lastEvent[k].realEnd \in Nat
  BY LastEventTyped
<1> QED
  BY <1>1, <1>2, <1>3, <1>4, <1>5, <1>6, <1>7, Zenon

-----------------------------------------------------------------------------
(***************************************************************************)
(* The rows of a key as episodes: one worker per camera, coalescing on, no *)
(* statement that fails.                                                   *)
(***************************************************************************)
Episodes == MergeInv /\ EndsInv /\ ApartInv /\ BurstsApart

(* Steps that leave memory and rows alone: calls begin, time passes. *)
LEMMA StillEpisodes ==
  ASSUME Coalescing, EpisodesInv, [Next]_vars, Still
  PROVE  Episodes'
<1>1. BaseInv /\ MemoryInv /\ MergeInv /\ EndsInv /\ ApartInv /\ BurstsApart
  BY DEF EpisodesInv
<1>2. /\ Len(rows) \in Nat /\ DOMAIN rows = 1 .. Len(rows)
      /\ clock \in Nat /\ clock > 0 /\ Pre \in Nat /\ Post \in Nat
      /\ \A i \in 1 .. Len(rows) : /\ rows[i].key \in Keys /\ rows[i].key[1] \in Cameras
                                   /\ rows[i].start \in Nat /\ rows[i].end \in Nat
      /\ \A k \in Keys : /\ open[k] \in 0 .. Len(rows) /\ k[1] \in Cameras
                         /\ lastEvent[k].realEnd \in Nat
      /\ \A c \in Cameras : Window[c] \in Nat /\ Window[c] > 0
      /\ \A w \in Workers : CameraOf[w] \in Cameras /\ Began(w) \in Nat
  BY <1>1, Types DEF Coalescing
<1>3. /\ open' = open /\ lastEvent' = lastEvent /\ DOMAIN rows' = 1 .. Len(rows)
      /\ \A i \in 1 .. Len(rows) : /\ rows'[i].key = rows[i].key
                                   /\ rows'[i].start = rows[i].start
                                   /\ rows'[i].end = rows[i].end
      /\ clock' \in Nat /\ clock' >= clock
  <2>1. rows' \in Seq(Rows) /\ Len(rows') = Len(rows)
    BY DEF Still, RowsKept
  <2>2. DOMAIN rows' = 1 .. Len(rows)
    BY <2>1, LenProperties
  <2> QED
    BY <1>2, <2>2 DEF Still, RowsKept, SameEvent
<1>4. EndsInv'
  <2>1. \A i \in 1 .. Len(rows) :
          /\ rows[i].end # 0 => rows[i].end > Post /\ rows[i].end - Post <= clock'
          /\ rows[i].end = 0 => open[rows[i].key] = i
          /\ open[rows[i].key] = 0 => rows[i].end - Post <= lastEvent[rows[i].key].realEnd
    BY <1>1, <1>2, <1>3 DEF EndsInv
  <2>2. \A q \in Keys : lastEvent[q].realEnd <= clock'
    BY <1>1, <1>2, <1>3 DEF EndsInv
  <2> QED
    BY <1>3, <2>1, <2>2 DEF EndsInv
<1>5. BurstsApart'
  BY <1>1, <1>2, <1>3 DEF BurstsApart
<1>6. ASSUME NEW v \in Workers, pc'[v] \in Fetching, NEW k, k = call[v].key
      PROVE  /\ call'[v].key = k /\ k \in Keys /\ k[1] = CameraOf[v]
             /\ \/ /\ pc[v] \in Fetching /\ call'[v].target = call[v].target
                   /\ Began(v)' >= Began(v)
                \/ call'[v].target = open[k] /\ open[k] # 0
                \/ call'[v].target = 0 /\ ~Coalesces(k) /\ Began(v)' = clock
  <2>1. CASE /\ pc[v] \in Fetching /\ call'[v].target = call[v].target
             /\ Began(v)' >= Began(v)
    <3>1. call'[v].key = k
      BY <1>1, <1>6, FetchingStep
    <3>2. k \in Keys /\ k[1] = CameraOf[v]
      BY <1>1, <1>6, <2>1 DEF BaseInv, CallInv, Fetching
    <3> QED
      BY <2>1, <3>1, <3>2
  <2>2. CASE Reopen(v)
    <3>1. /\ k \in Keys /\ open[k] = 0 /\ lastEvent[k].realEnd > 0
          /\ open'[k] = lastEvent[k].id
      BY <1>1, <1>6, <2>2, ReopenEffect
    <3>2. lastEvent[k].id # 0
      BY <1>1, <3>1 DEF MemoryInv
    <3> QED
      BY <1>3, <3>1, <3>2
  <2>3. CASE (MergeIntoOpen(v) \/ AdmitNew(v)) /\ pc'[v] = "fetch" /\ clock' = clock
    <3>1. /\ k \in Keys /\ k[1] = CameraOf[v] /\ call'[v].key = k
          /\ \/ call'[v].target = open[k] /\ open[k] # 0
             \/ call'[v].target = 0 /\ AdmitNew(v)
      BY <1>1, <1>6, <2>3, AdmitEffect
    <3>2. AdmitNew(v) => ~Coalesces(k)
      BY <1>6, Zenon DEF AdmitNew
    <3>3. Began(v)' = clock
      BY <2>3 DEF Began
    <3> QED
      BY <3>1, <3>2, <3>3, Zenon
  <2> QED
    BY <1>1, <1>6, <2>1, <2>2, <2>3, FetchingStep
<1>7. MergeInv'
  <2> SUFFICES ASSUME NEW v \in Workers, pc'[v] \in Fetching
               PROVE  /\ call'[v].target # 0 => open'[call'[v].key] = call'[v].target
                      /\ call'[v].target = 0 /\ Window[call'[v].key[1]] > 0
                           => open'[call'[v].key] = 0
    BY DEF MergeInv
  <2> DEFINE k == call[v].key
  <2>1. pc[v] \in Fetching => /\ call[v].target # 0 => open[k] = call[v].target
                              /\ call[v].target = 0 /\ Window[k[1]] > 0 => open[k] = 0
    BY <1>1 DEF MergeInv
  <2> HIDE DEF k
  <2>2. /\ call'[v].key = k /\ k \in Keys /\ k[1] = CameraOf[v]
        /\ \/ /\ pc[v] \in Fetching /\ call'[v].target = call[v].target
              /\ Began(v)' >= Began(v)
           \/ call'[v].target = open[k] /\ open[k] # 0
           \/ call'[v].target = 0 /\ ~Coalesces(k) /\ Began(v)' = clock
    BY <1>6 DEF k
  <2> QED
    BY <1>2, <1>3, <2>1, <2>2 DEF Coalesces
<1>8. ApartInv'
  <2> SUFFICES ASSUME NEW v \in Workers, pc'[v] \in Fetching, call'[v].target = 0,
                      NEW i \in 1 .. Len(rows), rows'[i].key = call'[v].key
               PROVE  Began(v)' - (rows'[i].end - Post) > Window[CameraOf[v]]
    BY <1>3 DEF ApartInv
  <2> DEFINE k == call[v].key
  <2>1. pc[v] \in Fetching /\ call[v].target = 0 /\ rows[i].key = k
          => Began(v) - (rows[i].end - Post) > Window[CameraOf[v]]
    BY <1>1, <1>2 DEF ApartInv
  <2> HIDE DEF k
  <2>2. /\ call'[v].key = k /\ k \in Keys /\ k[1] = CameraOf[v]
        /\ \/ /\ pc[v] \in Fetching /\ call'[v].target = call[v].target
              /\ Began(v)' >= Began(v)
           \/ call'[v].target = open[k] /\ open[k] # 0
           \/ call'[v].target = 0 /\ ~Coalesces(k) /\ Began(v)' = clock
    BY <1>6 DEF k
  <2>3. rows[i].key = k /\ rows'[i].end = rows[i].end
    BY <1>3, <2>2
  <2>4. Began(v)' \in Nat
    <3>1. BaseInv'
      BY <1>1, NextBase
    <3>2. clock' \in Nat /\ call' \in [Workers -> Calls] /\ Pre \in Nat
      BY <1>2, <3>1 DEF BaseInv, TypeOK
    <3>3. call'[v].start \in Nat
      BY <3>2 DEF Calls
    <3> QED
      BY <3>2, <3>3 DEF Began
  <2>5. CASE pc[v] \in Fetching /\ call'[v].target = call[v].target /\ Began(v)' >= Began(v)
    BY <1>2, <2>1, <2>3, <2>4, <2>5
  <2>6. CASE ~Coalesces(k) /\ Began(v)' = clock
    <3>1. open[k] = 0 /\ ~Recently(k)
      BY <1>2, <2>2, <2>6 DEF Coalesces
    <3>2. /\ rows[i].end > Post /\ lastEvent[k].realEnd <= clock
          /\ rows[i].end - Post <= lastEvent[k].realEnd
      BY <1>1, <1>2, <2>2, <2>3, <3>1 DEF EndsInv
    <3>3. clock - lastEvent[k].realEnd > Window[k[1]]
      BY <1>2, <2>2, <3>1, <3>2 DEF Recently
    <3> QED
      BY <1>2, <2>2, <2>3, <2>6, <3>2, <3>3
  <2> QED
    BY <2>2, <2>5, <2>6
<1> QED
  BY <1>4, <1>5, <1>7, <1>8 DEF Episodes

(* What the steps of one worker leave of another's call. *)
LEMMA OtherCalls ==
  ASSUME OneListenerEach, EpisodesInv, NEW w \in Workers, Others(w), clock' = clock,
         pc[w] # "idle", NEW v \in Workers, v # w, pc'[v] \in Fetching
  PROVE  /\ pc[v] \in Fetching /\ call'[v] = call[v] /\ Began(v)' = Began(v)
         /\ call[v].key \in Keys /\ call[v].key[1] = CameraOf[v]
         /\ call[v].key # call[w].key
<1>1. pc'[v] = pc[v] /\ call'[v] = call[v]
  BY DEF Others
<1>2. Began(v)' = Began(v)
  BY <1>1 DEF Began
<1>3. pc[v] # "idle" /\ BaseInv
  BY <1>1 DEF Fetching, EpisodesInv
<1>4. call[v].key \in Keys /\ call[v].key[1] = CameraOf[v]
  BY <1>3 DEF BaseInv, CallInv
<1>5. call[v].key # call[w].key
  BY <1>3, OwnKeys
<1> QED
  BY <1>1, <1>2, <1>4, <1>5

(* An event is re-opened: it had ended, and is the open one of its key. *)
LEMMA ReopenEpisodes ==
  ASSUME OneListenerEach, EpisodesInv, NEW w \in Workers, Reopen(w)
  PROVE  Episodes'
<1> DEFINE k == call[w].key
<1>1. BaseInv /\ MemoryInv /\ MergeInv /\ EndsInv /\ ApartInv /\ BurstsApart
  BY DEF EpisodesInv
<1>2. /\ Len(rows) \in Nat /\ DOMAIN rows = 1 .. Len(rows) /\ clock \in Nat /\ Post \in Nat
      /\ \A i \in 1 .. Len(rows) : rows[i].key \in Keys /\ rows[i].end \in Nat
      /\ \A q \in Keys : open[q] \in 0 .. Len(rows)
  BY <1>1, Types
<1>3. /\ Others(w) /\ pc[w] = "admit" /\ k \in Keys
      /\ call'[w].key = k /\ call'[w].target = lastEvent[k].id
      /\ open[k] = 0 /\ lastEvent[k].realEnd > 0
      /\ open'[k] = lastEvent[k].id /\ lastEvent'[k].realEnd = 0
      /\ \A q \in Keys : q # k => open'[q] = open[q] /\ lastEvent'[q] = lastEvent[q]
      /\ clock' = clock /\ rows' = rows
  BY <1>1, ReopenEffect
<1>4. lastEvent[k].id # 0
  BY <1>1, <1>3 DEF MemoryInv
<1>5. ASSUME NEW v \in Workers, v # w, pc'[v] \in Fetching
      PROVE  /\ pc[v] \in Fetching /\ call'[v] = call[v] /\ Began(v)' = Began(v)
             /\ call[v].key \in Keys /\ call[v].key # k
  BY <1>3, <1>5, OtherCalls
<1> HIDE DEF k
<1>6. EndsInv'
  <2>1. \A i \in 1 .. Len(rows) : /\ rows[i].end = 0 => open[rows[i].key] = i
                                  /\ open[rows[i].key] = 0 =>
                                       rows[i].end - Post <= lastEvent[rows[i].key].realEnd
    BY <1>1, <1>2 DEF EndsInv
  <2>2. \A i \in 1 .. Len(rows) : /\ rows[i].end = 0 => open'[rows[i].key] = i
                                  /\ open'[rows[i].key] = 0 =>
                                       rows[i].end - Post <= lastEvent'[rows[i].key].realEnd
    BY <1>2, <1>3, <1>4, <2>1
  <2>3. \A q \in Keys : lastEvent'[q].realEnd <= clock
    BY <1>1, <1>2, <1>3 DEF EndsInv
  <2> QED
    BY <1>1, <1>2, <1>3, <2>2, <2>3 DEF EndsInv
<1>7. BurstsApart'
  BY <1>1, <1>3 DEF BurstsApart
<1>8. MergeInv'
  <2> SUFFICES ASSUME NEW v \in Workers, pc'[v] \in Fetching
               PROVE  /\ call'[v].target # 0 => open'[call'[v].key] = call'[v].target
                      /\ call'[v].target = 0 /\ Window[call'[v].key[1]] > 0
                           => open'[call'[v].key] = 0
    BY DEF MergeInv
  <2>1. CASE v = w
    BY <1>3, <1>4, <2>1
  <2>2. CASE v # w
    BY <1>1, <1>3, <1>5, <2>2 DEF MergeInv
  <2> QED
    BY <2>1, <2>2
<1>9. ApartInv'
  <2> SUFFICES ASSUME NEW v \in Workers, pc'[v] \in Fetching, call'[v].target = 0,
                      NEW i \in DOMAIN rows', rows'[i].key = call'[v].key
               PROVE  Began(v)' - (rows'[i].end - Post) > Window[CameraOf[v]]
    BY DEF ApartInv
  <2>1. v # w
    BY <1>3, <1>4
  <2> QED
    BY <1>1, <1>3, <1>5, <2>1 DEF ApartInv
<1> QED
  BY <1>6, <1>7, <1>8, <1>9 DEF Episodes

(* A new row: the earlier ones of its key have ended, long enough ago. *)
LEMMA InsertEpisodes ==
  ASSUME OneListenerEach, Coalescing, EpisodesInv, NEW w \in Workers,
         NEW ok1 \in BOOLEAN, NEW ok2 \in BOOLEAN, InsertNew(w, ok1, ok2)
  PROVE  Episodes'
<1> DEFINE k == call[w].key
           n == Len(rows) + 1
<1>1. BaseInv /\ MemoryInv /\ MergeInv /\ EndsInv /\ ApartInv /\ BurstsApart
  BY DEF EpisodesInv
<1>2. /\ Len(rows) \in Nat /\ DOMAIN rows = 1 .. Len(rows) /\ clock \in Nat /\ Post \in Nat
      /\ \A i \in 1 .. Len(rows) : rows[i].key \in Keys /\ rows[i].end \in Nat
      /\ \A q \in Keys : open[q] \in 0 .. Len(rows) /\ Window[q[1]] > 0
  BY <1>1, Types DEF Coalescing
<1>3. /\ Others(w) /\ pc[w] = "insert" /\ pc'[w] = "notify" /\ k \in Keys /\ k[1] = CameraOf[w]
      /\ call[w].target = 0 /\ n \in Nat
      /\ DOMAIN rows' = 1 .. n /\ \A i \in 1 .. Len(rows) : rows'[i] = rows[i]
      /\ rows'[n].key = k /\ rows'[n].start = call[w].start /\ rows'[n].end = 0
      /\ open'[k] = n /\ \A q \in Keys : q # k => open'[q] = open[q]
      /\ clock' = clock /\ lastEvent' = lastEvent
  BY <1>1, InsertNewEffect
<1>4. ASSUME NEW v \in Workers, v # w, pc'[v] \in Fetching
      PROVE  /\ pc[v] \in Fetching /\ call'[v] = call[v] /\ Began(v)' = Began(v)
             /\ call[v].key \in Keys /\ call[v].key # k
  BY <1>3, <1>4, OtherCalls
<1>5. pc[w] \in Fetching /\ Began(w) = call[w].start + Pre
  BY <1>3 DEF Began, Fetching
<1>6. open[k] = 0
  BY <1>1, <1>2, <1>3, <1>5 DEF MergeInv
<1>7. \A i \in 1 .. Len(rows) : rows[i].key = k =>
        /\ rows[i].end # 0
        /\ (call[w].start + Pre) - (rows[i].end - Post) > Window[k[1]]
  BY <1>1, <1>2, <1>3, <1>5, <1>6 DEF ApartInv, EndsInv
<1> HIDE DEF k
<1>8. EndsInv'
  <2>1. \A i \in 1 .. n :
          /\ rows'[i].end # 0 => rows'[i].end > Post /\ rows'[i].end - Post <= clock
          /\ rows'[i].end = 0 => open'[rows'[i].key] = i
          /\ open'[rows'[i].key] = 0 => rows'[i].end - Post <= lastEvent[rows'[i].key].realEnd
    <3> SUFFICES ASSUME NEW i \in 1 .. n
                 PROVE  /\ rows'[i].end # 0 => rows'[i].end > Post /\ rows'[i].end - Post <= clock
                        /\ rows'[i].end = 0 => open'[rows'[i].key] = i
                        /\ open'[rows'[i].key] = 0
                             => rows'[i].end - Post <= lastEvent[rows'[i].key].realEnd
      OBVIOUS
    <3>1. CASE i = n
      BY <1>2, <1>3, <3>1
    <3>2. CASE i # n
      <4>1. i \in 1 .. Len(rows) /\ rows'[i] = rows[i]
        BY <1>2, <1>3, <3>2
      <4>2. CASE rows[i].key = k
        BY <1>1, <1>2, <1>3, <1>7, <4>1, <4>2 DEF EndsInv
      <4>3. CASE rows[i].key # k
        BY <1>1, <1>2, <1>3, <4>1, <4>3 DEF EndsInv
      <4> QED
        BY <4>2, <4>3
    <3> QED
      BY <3>1, <3>2
  <2> QED
    BY <1>1, <1>3, <2>1 DEF EndsInv
<1>9. BurstsApart'
  <2> SUFFICES ASSUME NEW i \in 1 .. n, NEW j \in 1 .. n, i < j, rows'[i].key = rows'[j].key
               PROVE  /\ rows'[i].end # 0
                      /\ (rows'[j].start + Pre) - (rows'[i].end - Post) > Window[rows'[j].key[1]]
    BY <1>3 DEF BurstsApart
  <2>1. i \in 1 .. Len(rows) /\ rows'[i] = rows[i]
    BY <1>2, <1>3
  <2>2. CASE j = n
    BY <1>3, <1>7, <2>1, <2>2
  <2>3. CASE j # n
    <3>1. j \in 1 .. Len(rows) /\ rows'[j] = rows[j]
      BY <1>2, <1>3, <2>3
    <3> QED
      BY <1>1, <1>2, <2>1, <3>1 DEF BurstsApart
  <2> QED
    BY <2>2, <2>3
<1>10. MergeInv'
  <2> SUFFICES ASSUME NEW v \in Workers, pc'[v] \in Fetching
               PROVE  /\ call'[v].target # 0 => open'[call'[v].key] = call'[v].target
                      /\ call'[v].target = 0 /\ Window[call'[v].key[1]] > 0
                           => open'[call'[v].key] = 0
    BY DEF MergeInv
  <2>1. v # w
    BY <1>3 DEF Fetching
  <2> QED
    BY <1>1, <1>3, <1>4, <2>1 DEF MergeInv
<1>11. ApartInv'
  <2> SUFFICES ASSUME NEW v \in Workers, pc'[v] \in Fetching, call'[v].target = 0,
                      NEW i \in 1 .. n, rows'[i].key = call'[v].key
               PROVE  Began(v)' - (rows'[i].end - Post) > Window[CameraOf[v]]
    BY <1>3 DEF ApartInv
  <2>1. v # w
    BY <1>3 DEF Fetching
  <2>2. call[v].key # k /\ call'[v] = call[v] /\ pc[v] \in Fetching /\ Began(v)' = Began(v)
    BY <1>4, <2>1
  <2>3. i \in 1 .. Len(rows) /\ rows'[i] = rows[i]
    BY <1>2, <1>3, <2>2
  <2> QED
    BY <1>1, <1>2, <2>2, <2>3 DEF ApartInv
<1> QED
  BY <1>8, <1>9, <1>10, <1>11 DEF Episodes

(* A detection ends: the row that gets its end is the newest of its key.   *)
LEMMA FinishEpisodes ==
  ASSUME OneListenerEach, EpisodesInv, NEW w \in Workers, Finish(w, TRUE)
  PROVE  Episodes'
<1> DEFINE k == call[w].key
<1>1. BaseInv /\ MemoryInv /\ MergeInv /\ EndsInv /\ ApartInv /\ BurstsApart
  BY DEF EpisodesInv
<1>2. /\ Len(rows) \in Nat /\ DOMAIN rows = 1 .. Len(rows)
      /\ clock \in Nat /\ clock > 0 /\ Post \in Nat
      /\ \A i \in 1 .. Len(rows) : rows[i].key \in Keys /\ rows[i].end \in Nat
      /\ \A q \in Keys : open[q] \in 0 .. Len(rows)
  BY <1>1, Types
<1>3. /\ Others(w) /\ pc[w] = "finish" /\ pc'[w] = "idle" /\ k \in Keys
      /\ open[k] \in 1 .. Len(rows) /\ DOMAIN rows' = 1 .. Len(rows)
      /\ \A i \in 1 .. Len(rows) : SameEvent(rows'[i], rows[i])
      /\ \A i \in 1 .. Len(rows) :
           \/ rows'[i].end = rows[i].end
           \/ i = open[k] /\ rows'[i].end = clock + Post
      /\ open'[k] = 0 /\ lastEvent'[k].realEnd = clock
      /\ \A q \in Keys : q # k => open'[q] = open[q] /\ lastEvent'[q] = lastEvent[q]
      /\ clock' = clock
  <2>1. PICK ok \in BOOLEAN : ok = TRUE
    OBVIOUS
  <2>2. Finish(w, ok)
    BY <2>1, Zenon
  <2> QED
    BY <1>1, <2>2, FinishEffect
<1>4. rows'[open[k]].end = clock + Post
  BY <1>1, FinishEnds
<1>5. ASSUME NEW v \in Workers, v # w, pc'[v] \in Fetching
      PROVE  /\ pc[v] \in Fetching /\ call'[v] = call[v] /\ Began(v)' = Began(v)
             /\ call[v].key \in Keys /\ call[v].key # k
  BY <1>3, <1>5, OtherCalls
<1> HIDE DEF k
<1>6. /\ rows[open[k]].key = k
      /\ \A i \in 1 .. Len(rows) : rows[i].key = k => i <= open[k]
  BY <1>1, <1>2, <1>3 DEF MemoryInv, MemoryNewest
<1>7. \A i \in 1 .. Len(rows) : /\ rows'[i].key = rows[i].key /\ rows'[i].start = rows[i].start
                                /\ i # open[k] => rows'[i].end = rows[i].end
  BY <1>3 DEF SameEvent
<1>8. EndsInv'
  <2>1. \A i \in 1 .. Len(rows) :
          /\ rows'[i].end # 0 => rows'[i].end > Post /\ rows'[i].end - Post <= clock
          /\ rows'[i].end = 0 => open'[rows'[i].key] = i
          /\ open'[rows'[i].key] = 0 => rows'[i].end - Post <= lastEvent'[rows'[i].key].realEnd
    <3> SUFFICES ASSUME NEW i \in 1 .. Len(rows)
                 PROVE  /\ rows'[i].end # 0 => rows'[i].end > Post /\ rows'[i].end - Post <= clock
                        /\ rows'[i].end = 0 => open'[rows'[i].key] = i
                        /\ open'[rows'[i].key] = 0
                             => rows'[i].end - Post <= lastEvent'[rows'[i].key].realEnd
      OBVIOUS
    <3>1. CASE i = open[k]
      BY <1>2, <1>3, <1>4, <1>6, <1>7, <3>1
    <3>2. CASE i # open[k] /\ rows[i].key = k
      BY <1>1, <1>2, <1>3, <1>7, <3>2 DEF EndsInv
    <3>3. CASE rows[i].key # k
      BY <1>1, <1>2, <1>3, <1>6, <1>7, <3>3 DEF EndsInv
    <3> QED
      BY <3>1, <3>2, <3>3
  <2>2. \A q \in Keys : lastEvent'[q].realEnd <= clock
    BY <1>1, <1>2, <1>3 DEF EndsInv
  <2> QED
    BY <1>3, <2>1, <2>2 DEF EndsInv
<1>9. BurstsApart'
  <2> SUFFICES ASSUME NEW i \in 1 .. Len(rows), NEW j \in 1 .. Len(rows), i < j,
                      rows'[i].key = rows'[j].key
               PROVE  /\ rows'[i].end # 0
                      /\ (rows'[j].start + Pre) - (rows'[i].end - Post) > Window[rows'[j].key[1]]
    BY <1>3 DEF BurstsApart
  <2>1. rows[i].key = rows[j].key /\ i # open[k]
    BY <1>2, <1>3, <1>6, <1>7
  <2> QED
    BY <1>1, <1>2, <1>7, <2>1 DEF BurstsApart
<1>10. MergeInv'
  <2> SUFFICES ASSUME NEW v \in Workers, pc'[v] \in Fetching
               PROVE  /\ call'[v].target # 0 => open'[call'[v].key] = call'[v].target
                      /\ call'[v].target = 0 /\ Window[call'[v].key[1]] > 0
                           => open'[call'[v].key] = 0
    BY DEF MergeInv
  <2>1. v # w
    BY <1>3 DEF Fetching
  <2> QED
    BY <1>1, <1>3, <1>5, <2>1 DEF MergeInv
<1>11. ApartInv'
  <2> SUFFICES ASSUME NEW v \in Workers, pc'[v] \in Fetching, call'[v].target = 0,
                      NEW i \in 1 .. Len(rows), rows'[i].key = call'[v].key
               PROVE  Began(v)' - (rows'[i].end - Post) > Window[CameraOf[v]]
    BY <1>3 DEF ApartInv
  <2>1. v # w
    BY <1>3 DEF Fetching
  <2>2. call[v].key # k /\ call'[v] = call[v] /\ pc[v] \in Fetching /\ Began(v)' = Began(v)
    BY <1>5, <2>1
  <2>3. rows[i].key = call[v].key /\ rows'[i].end = rows[i].end
    BY <1>6, <1>7, <2>2
  <2> QED
    BY <1>1, <1>2, <2>2, <2>3 DEF ApartInv
<1> QED
  BY <1>8, <1>9, <1>10, <1>11 DEF Episodes

(* Every step, and the initial state. *)
LEMMA NextEpisodes ==
  ASSUME OneListenerEach, Coalescing, DbFaults = FALSE, EpisodesInv, [Next]_vars
  PROVE  EpisodesInv'
<1>1. BaseInv' /\ MemoryInv'
  BY NextBase, MemoryStep DEF EpisodesInv
<1> SUFFICES Episodes'
  BY <1>1 DEF EpisodesInv, Episodes
<1>2. Outcomes = {TRUE}
  BY DEF Outcomes
<1>3. \/ Still
      \/ \E w \in Workers : Reopen(w)
      \/ \E w \in Workers, ok1, ok2 \in BOOLEAN : InsertNew(w, ok1, ok2)
      \/ \E w \in Workers, ok \in Outcomes : Finish(w, ok)
  BY StepKinds, Zenon DEF EpisodesInv
<1>4. CASE Still
  BY <1>4, StillEpisodes
<1>5. CASE \E w \in Workers : Reopen(w)
  BY <1>5, ReopenEpisodes
<1>6. CASE \E w \in Workers, ok1, ok2 \in BOOLEAN : InsertNew(w, ok1, ok2)
  BY <1>6, InsertEpisodes
<1>7. CASE \E w \in Workers, ok \in Outcomes : Finish(w, ok)
  BY <1>2, <1>7, FinishEpisodes
<1> QED
  BY <1>3, <1>4, <1>5, <1>6, <1>7

(* At the start there are no rows and nothing is remembered. *)
LEMMA InitEpisodes ==
  ASSUME Init
  PROVE  EpisodesInv
<1>1. BaseInv
  BY InitBase
<1>2. /\ rows = <<>> /\ open = [k \in Keys |-> 0] /\ pc = [w \in Workers |-> "idle"]
      /\ lastEvent = [k \in Keys |-> [id |-> 0, realEnd |-> 0]]
  BY DEF Init
<1>3. DOMAIN rows = {} /\ clock \in Nat
  BY <1>1, <1>2 DEF BaseInv, TypeOK
<1>4. MemoryInv
  BY <1>2, <1>3 DEF MemoryInv, MemoryNewest
<1>5. MergeInv /\ ApartInv
  BY <1>2 DEF MergeInv, ApartInv, Fetching
<1>6. EndsInv /\ BurstsApart
  BY <1>2, <1>3 DEF EndsInv, BurstsApart
<1> QED
  BY <1>1, <1>4, <1>5, <1>6 DEF EpisodesInv

(* With one worker per camera, coalescing on and no failing statement: the *)
(* events of a key lie more than the window apart, however often they were *)
(* re-opened, and every row without an end is the one open_ holds.         *)
THEOREM EpisodesInvariant ==
  ASSUME OneListenerEach, Coalescing, DbFaults = FALSE
  PROVE  Spec => []EpisodesInv
<1>1. Init => EpisodesInv
  BY InitEpisodes
<1>2. EpisodesInv /\ [Next]_vars => EpisodesInv'
  BY NextEpisodes
<1> QED
  BY <1>1, <1>2, PTL DEF Spec

(* Coalescing, said of the rows: detections of a key closer than the       *)
(* window never leave two events (DetectionRecorder::on_event, case 2).    *)
THEOREM BurstsApartHolds ==
  ASSUME OneListenerEach, Coalescing, DbFaults = FALSE
  PROVE  Spec => []BurstsApart
<1>1. EpisodesInv => BurstsApart
  BY DEF EpisodesInv
<1> QED
  BY <1>1, EpisodesInvariant, PTL

(* No row is left without an end that its key does not hold open           *)
(* (DetectionRecorder::on_event, case 1).                                  *)
THEOREM OpenRowsTrackedHolds ==
  ASSUME OneListenerEach, Coalescing, DbFaults = FALSE
  PROVE  Spec => []OpenRowsTracked
<1>1. EpisodesInv => OpenRowsTracked
  BY DEF EpisodesInv, EndsInv, OpenRowsTracked, Unfinished
<1> QED
  BY <1>1, EpisodesInvariant, PTL

-----------------------------------------------------------------------------
(***************************************************************************)
(* The refinement of EventLog: one worker per camera, coalescing on, no    *)
(* statement that fails.                                                   *)
(***************************************************************************)

(* Two more things the steps need to know: the end remembered of a key is  *)
(* the one in its row, and an admitted detection began in the past.        *)
RememberInv ==
  /\ \A k \in Keys : lastEvent[k].realEnd > 0 =>
       rows[lastEvent[k].id].end = lastEvent[k].realEnd + Post
  /\ \A w \in Workers : pc[w] \in Fetching => Began(w) <= clock

(* A key whose detection ends, by a statement that works. *)
LEMMA FinishTrue ==
  ASSUME BaseInv, NEW w \in Workers, NEW ok \in BOOLEAN, ok = TRUE, Finish(w, ok)
  PROVE  LET k == call[w].key
             n == open[k]
         IN  /\ k \in Keys /\ n \in 1 .. Len(rows) /\ Len(rows') = Len(rows)
             /\ DOMAIN rows' = 1 .. Len(rows)
             /\ \A i \in 1 .. Len(rows) : SameEvent(rows'[i], rows[i])
             /\ \A i \in 1 .. Len(rows) : i # n => rows'[i].end = rows[i].end
             /\ rows'[n].end = clock + Post
             /\ open' = [open EXCEPT ![k] = 0]
             /\ lastEvent'[k].id = n /\ lastEvent'[k].realEnd = clock
             /\ \A q \in Keys : q # k => lastEvent'[q] = lastEvent[q]
             /\ clock' = clock
<1>1. Finish(w, TRUE)
  BY Zenon
<1> DEFINE k == call[w].key
           n == open[k]
<1>2. /\ k \in Keys /\ n \in 1 .. Len(rows) /\ Len(rows') = Len(rows)
      /\ rows' \in Seq(Rows)
      /\ \A i \in 1 .. Len(rows) : SameEvent(rows'[i], rows[i])
      /\ \A i \in 1 .. Len(rows) : \/ rows'[i].end = rows[i].end
                                   \/ i = n /\ rows'[i].end = clock + Post
      /\ open' = [open EXCEPT ![k] = 0]
      /\ lastEvent' = [lastEvent EXCEPT ![k] = [id |-> n, realEnd |-> clock]]
      /\ clock' = clock
  BY FinishFacts
<1>3. rows'[n].end = clock + Post
  BY <1>1, FinishEnds
<1> HIDE DEF k, n
<1>4. lastEvent \in [Keys -> [id : 0 .. Len(rows), realEnd : Nat]]
  BY DEF BaseInv, TypeOK
<1>5. DOMAIN rows' = 1 .. Len(rows)
  BY <1>2, LenProperties
<1>6. /\ k \in Keys /\ n \in 1 .. Len(rows) /\ Len(rows') = Len(rows)
      /\ DOMAIN rows' = 1 .. Len(rows)
      /\ \A i \in 1 .. Len(rows) : SameEvent(rows'[i], rows[i])
      /\ \A i \in 1 .. Len(rows) : i # n => rows'[i].end = rows[i].end
      /\ rows'[n].end = clock + Post
      /\ open' = [open EXCEPT ![k] = 0]
      /\ lastEvent'[k].id = n /\ lastEvent'[k].realEnd = clock
      /\ \A q \in Keys : q # k => lastEvent'[q] = lastEvent[q]
      /\ clock' = clock
  BY <1>2, <1>3, <1>4, <1>5
<1> QED
  BY <1>6 DEF k, n

(* Only the end of a detection of the key changes either of the two. *)
LEMMA RememberStep ==
  ASSUME EpisodesInv, RememberInv, DbFaults = FALSE, [Next]_vars
  PROVE  RememberInv'
<1>1. BaseInv /\ MemoryInv
  BY DEF EpisodesInv
<1>2. /\ Len(rows) \in Nat /\ clock \in Nat /\ Post \in Nat
      /\ \A i \in 1 .. Len(rows) : rows[i].key \in Keys /\ rows[i].end \in Nat
      /\ \A k \in Keys : /\ open[k] \in 0 .. Len(rows)
                         /\ lastEvent[k].id \in 0 .. Len(rows)
                         /\ lastEvent[k].realEnd \in Nat
  BY <1>1, Types
<1>3. \A w \in Workers : pc'[w] \in Fetching => Began(w)' <= clock'
  <2> SUFFICES ASSUME NEW w \in Workers, pc'[w] \in Fetching
               PROVE  Began(w)' <= clock'
    OBVIOUS
  <2>1. CASE pc[w] \in Fetching
    <3>1. Began(w) <= clock
      BY <2>1 DEF RememberInv
    <3> QED
      BY <1>1, <2>1, <3>1, FetchingStep DEF Fetching
  <2>2. CASE pc[w] \notin Fetching
    <3>1. pc'[w] = "fetch"
      BY <1>1, <2>2, FetchingStep
    <3>2. BaseInv'
      BY <1>1, NextBase
    <3>3. clock' \in Nat
      BY <3>2 DEF BaseInv, TypeOK
    <3> QED
      BY <3>1, <3>3 DEF Began
  <2> QED
    BY <2>1, <2>2
<1>4. \A k \in Keys : lastEvent[k].realEnd > 0 =>
        /\ lastEvent[k].id \in 1 .. Len(rows)
        /\ rows[lastEvent[k].id].key = k
        /\ rows[lastEvent[k].id].end = lastEvent[k].realEnd + Post
  BY <1>1, <1>2 DEF MemoryInv, RememberInv
<1> DEFINE Kept == \A k \in Keys : lastEvent'[k].realEnd > 0 =>
                     rows'[lastEvent'[k].id].end = lastEvent'[k].realEnd + Post
<1>5. \/ Still
      \/ \E w \in Workers : Reopen(w)
      \/ \E w \in Workers, ok1, ok2 \in BOOLEAN : InsertNew(w, ok1, ok2)
      \/ \E w \in Workers, ok \in Outcomes : Finish(w, ok)
  BY <1>1, StepKinds, Zenon
<1>6. ASSUME Still
      PROVE  Kept
  BY <1>4, <1>6 DEF Still, RowsKept
<1>7. ASSUME NEW w \in Workers, Reopen(w)
      PROVE  Kept
  <2>1. PICK k : k = call[w].key
    OBVIOUS
  <2>2. /\ k \in Keys /\ rows' = rows /\ lastEvent'[k].realEnd = 0
        /\ \A q \in Keys : q # k => lastEvent'[q] = lastEvent[q]
    BY <1>1, <1>7, <2>1, ReopenEffect
  <2> QED
    BY <1>4, <2>2
<1>8. ASSUME NEW w \in Workers, NEW ok1 \in BOOLEAN, NEW ok2 \in BOOLEAN,
             InsertNew(w, ok1, ok2)
      PROVE  Kept
  <2>1. lastEvent' = lastEvent /\ \A i \in 1 .. Len(rows) : rows'[i] = rows[i]
    BY <1>1, <1>8, InsertNewEffect
  <2> QED
    BY <1>4, <2>1
<1>9. ASSUME NEW w \in Workers, NEW ok \in Outcomes, Finish(w, ok)
      PROVE  Kept
  <2> DEFINE k == call[w].key
             n == open[k]
  <2>1. ok \in BOOLEAN /\ ok = TRUE
    BY DEF Outcomes
  <2>2. /\ k \in Keys /\ n \in 1 .. Len(rows)
        /\ \A i \in 1 .. Len(rows) : i # n => rows'[i].end = rows[i].end
        /\ rows'[n].end = clock + Post
        /\ lastEvent'[k].id = n /\ lastEvent'[k].realEnd = clock
        /\ \A q \in Keys : q # k => lastEvent'[q] = lastEvent[q]
    BY <1>1, <1>9, <2>1, FinishTrue
  <2>3. rows[n].key = k
    BY <1>1, <2>2 DEF MemoryInv
  <2> HIDE DEF k, n
  <2>4. ASSUME NEW q \in Keys, lastEvent'[q].realEnd > 0, q # k
        PROVE  rows'[lastEvent'[q].id].end = lastEvent'[q].realEnd + Post
    BY <1>4, <2>2, <2>3, <2>4
  <2> QED
    BY <2>2, <2>4
<1> QED
  BY <1>3, <1>5, <1>6, <1>7, <1>8, <1>9 DEF RememberInv

Timeline == [i \in DOMAIN rows |-> Episode(rows[i])]

EpisodeSet == [key : Keys, from : Int, to : Int]

(* The rows read as episodes. *)
LEMMA TimelineShape ==
  ASSUME BaseInv
  PROVE  /\ Timeline \in Seq(EpisodeSet) /\ Len(Timeline) = Len(rows)
         /\ DOMAIN Timeline = 1 .. Len(rows)
         /\ \A i \in 1 .. Len(rows) :
              /\ Timeline[i].key = rows[i].key
              /\ Timeline[i].from = rows[i].start + Pre
              /\ Timeline[i].to = IF rows[i].end = 0 THEN 0 ELSE rows[i].end - Post
         /\ \A k : Log!Of(k) = {i \in 1 .. Len(rows) : rows[i].key = k}
<1>1. /\ Len(rows) \in Nat /\ DOMAIN rows = 1 .. Len(rows) /\ Pre \in Nat /\ Post \in Nat
      /\ \A i \in 1 .. Len(rows) : /\ rows[i].key \in Keys
                                   /\ rows[i].start \in Nat /\ rows[i].end \in Nat
  BY Types
<1>2. \A i \in 1 .. Len(rows) : Episode(rows[i]) \in EpisodeSet
  BY <1>1 DEF Episode, EpisodeSet
<1>3. Timeline \in [1 .. Len(rows) -> EpisodeSet]
  BY <1>1, <1>2 DEF Timeline
<1>4. Timeline \in Seq(EpisodeSet) /\ Len(Timeline) = Len(rows)
  <2> HIDE DEF Timeline
  <2> QED
    BY <1>1, <1>3, SeqDef, LenProperties
<1>5. \A i \in 1 .. Len(rows) :
        /\ Timeline[i].key = rows[i].key
        /\ Timeline[i].from = rows[i].start + Pre
        /\ Timeline[i].to = IF rows[i].end = 0 THEN 0 ELSE rows[i].end - Post
  BY <1>1 DEF Timeline, Episode
<1>6. \A k : Log!Of(k) = {i \in DOMAIN Timeline : Timeline[i].key = k}
  BY DEF Log!Of, Timeline
<1>7. \A k : Log!Of(k) = {i \in 1 .. Len(rows) : rows[i].key = k}
  BY <1>3, <1>5, <1>6
<1> QED
  BY <1>3, <1>4, <1>5, <1>7

(* The last row of a key is its latest episode. *)
LEMMA LatestIs ==
  ASSUME BaseInv, NEW k, NEW n \in 1 .. Len(rows), rows[n].key = k,
         \A i \in 1 .. Len(rows) : rows[i].key = k => i <= n
  PROVE  Log!Latest(k) = n
<1>1. Log!Of(k) = {i \in 1 .. Len(rows) : rows[i].key = k} /\ Len(rows) \in Nat
  BY TimelineShape, RowsShape
<1>2. n \in Log!Of(k) /\ \A i \in Log!Of(k) : i <= n /\ i \in Nat
  BY <1>1
<1> DEFINE S == Log!Of(k)
<1>3. n \in S /\ \A i \in S : n >= i /\ i \in Nat
  BY <1>2
<1> HIDE DEF S
<1>4. \A m \in S : (\A i \in S : m >= i) => m = n
  BY <1>3
<1>5. (CHOOSE m \in S : \A i \in S : m >= i) = n
  BY <1>3, <1>4
<1> QED
  BY <1>5 DEF Log!Latest, Log!Max, S

(* Rows that keep key, start and end are the same episodes. *)
LEMMA TimelineKept ==
  ASSUME BaseInv, RowsKept
  PROVE  Timeline' = Timeline
<1>1. DOMAIN rows = 1 .. Len(rows) /\ DOMAIN rows' = 1 .. Len(rows)
  BY RowsShape, LenProperties DEF RowsKept
<1>2. \A i \in 1 .. Len(rows) : Episode(rows'[i]) = Episode(rows[i])
  BY DEF RowsKept, SameEvent, Episode
<1> QED
  BY <1>1, <1>2 DEF Timeline

(* Quiet steps are steps of time or none at all. *)
LEMMA StillImplements ==
  ASSUME BaseInv, Still
  PROVE  Log!Next \/ UNCHANGED Log!logVars
<1>1. Timeline' = Timeline
  BY TimelineKept DEF Still
<1>2. open' = open /\ clock' \in {clock, clock + 1}
  BY DEF Still
<1>3. CASE clock' = clock
  BY <1>1, <1>2, <1>3 DEF Log!logVars, Timeline
<1>4. CASE clock' = clock + 1
  BY <1>1, <1>2, <1>4 DEF Log!Next, Log!Pass, Timeline
<1> QED
  BY <1>2, <1>3, <1>4

(* Re-opening the last event of a key takes its episode up again. *)
LEMMA ReopenImplements ==
  ASSUME EpisodesInv, RememberInv, NEW w \in Workers, Reopen(w)
  PROVE  Log!Next
<1> PICK k : k = call[w].key
  OBVIOUS
<1> PICK n : n = lastEvent[k].id
  OBVIOUS
<1>1. BaseInv /\ MemoryInv
  BY DEF EpisodesInv
<1>2. /\ k \in Keys /\ open[k] = 0 /\ lastEvent[k].realEnd > 0
      /\ open'[k] = n /\ \A q \in Keys : q # k => open'[q] = open[q]
      /\ clock' = clock /\ rows' = rows
  BY <1>1, ReopenEffect
<1>3. clock - lastEvent[k].realEnd <= Window[k[1]]
  BY DEF Reopen, Recently
<1>4. /\ Len(rows) \in Nat /\ DOMAIN rows = 1 .. Len(rows) /\ clock \in Nat /\ Post \in Nat
      /\ n \in 0 .. Len(rows) /\ lastEvent[k].realEnd \in Nat
  BY <1>1, <1>2, Types
<1>5. n \in 1 .. Len(rows) /\ rows[n].key = k
  BY <1>1, <1>2, <1>4 DEF MemoryInv
<1>6. \A i \in 1 .. Len(rows) : rows[i].key = k => i <= n
  BY <1>1, <1>2, <1>4 DEF MemoryInv, MemoryNewest
<1>7. rows[n].end = lastEvent[k].realEnd + Post
  BY <1>2 DEF RememberInv
<1>8. Log!Latest(k) = n /\ n \in Log!Of(k)
  BY <1>1, <1>5, <1>6, LatestIs, TimelineShape
<1>9. Timeline[n].to = lastEvent[k].realEnd
  <2>1. Timeline[n].to = IF rows[n].end = 0 THEN 0 ELSE rows[n].end - Post
    BY <1>1, <1>5, TimelineShape
  <2> QED
    BY <1>2, <1>4, <1>7, <2>1
<1>10. {q \in Keys : open'[q] # 0} = {q \in Keys : open[q] # 0} \cup {k}
  BY <1>2, <1>5
<1>11. Timeline' = Timeline
  BY <1>2 DEF Timeline
<1>12. [q \in Keys |-> Window[q[1]]][k] = Window[k[1]]
  BY <1>2
<1>13. /\ k \notin {q \in Keys : open[q] # 0}
       /\ clock - Timeline[Log!Latest(k)].to <= [q \in Keys |-> Window[q[1]]][k]
       /\ Log!Of(k) # {}
  BY <1>2, <1>3, <1>8, <1>9, <1>12
<1>14. Log!Resume(k)
  BY <1>2, <1>10, <1>11, <1>13, Zenon DEF Log!Resume, Timeline
<1> QED
  BY <1>2, <1>14, Zenon DEF Log!Next

(* A new row begins an episode of its key. *)
LEMMA InsertImplements ==
  ASSUME OneListenerEach, Coalescing, EpisodesInv, RememberInv, NEW w \in Workers,
         NEW ok1 \in BOOLEAN, NEW ok2 \in BOOLEAN, InsertNew(w, ok1, ok2)
  PROVE  Log!Next
<1> PICK k : k = call[w].key
  OBVIOUS
<1> PICK n : n = Len(rows) + 1
  OBVIOUS
<1> PICK from : from = call[w].start + Pre
  OBVIOUS
<1>1. BaseInv /\ MemoryInv /\ MergeInv /\ EndsInv /\ ApartInv
  BY DEF EpisodesInv
<1>2. /\ pc[w] = "insert" /\ k \in Keys /\ k[1] = CameraOf[w] /\ call[w].target = 0
      /\ n \in Nat /\ DOMAIN rows' = 1 .. n
      /\ \A i \in 1 .. Len(rows) : rows'[i] = rows[i]
      /\ rows'[n].key = k /\ rows'[n].start = call[w].start /\ rows'[n].end = 0
      /\ open'[k] = n /\ \A q \in Keys : q # k => open'[q] = open[q]
      /\ clock' = clock
  BY <1>1, InsertNewEffect
<1>3. /\ Len(rows) \in Nat /\ DOMAIN rows = 1 .. Len(rows) /\ clock \in Nat /\ Post \in Nat
      /\ \A i \in 1 .. Len(rows) : rows[i].key \in Keys /\ rows[i].end \in Nat
      /\ Window[k[1]] > 0 /\ Began(w) \in Nat
  BY <1>1, <1>2, Types DEF Coalescing
<1>4. pc[w] \in Fetching /\ Began(w) = from
  BY <1>2 DEF Began, Fetching
<1>5. from \in 0 .. clock
  BY <1>3, <1>4 DEF RememberInv
<1>6. open[k] = 0
  BY <1>1, <1>2, <1>3, <1>4 DEF MergeInv
<1>7. \A i \in 1 .. Len(rows) : rows[i].key = k =>
        /\ rows[i].end # 0 /\ rows[i].end > Post
        /\ from - (rows[i].end - Post) > Window[k[1]]
  BY <1>1, <1>2, <1>3, <1>4, <1>6 DEF ApartInv, EndsInv
<1>8. Log!Of(k) # {} => /\ Timeline[Log!Latest(k)].to # 0
                        /\ from - Timeline[Log!Latest(k)].to > Window[k[1]]
  <2> SUFFICES ASSUME Log!Of(k) # {}
               PROVE  /\ Timeline[Log!Latest(k)].to # 0
                      /\ from - Timeline[Log!Latest(k)].to > Window[k[1]]
    OBVIOUS
  <2>1. PICK last : last = lastEvent[k].id
    OBVIOUS
  <2>2. PICK i \in 1 .. Len(rows) : rows[i].key = k
    BY <1>1, TimelineShape
  <2>3. /\ last \in 1 .. Len(rows) /\ rows[last].key = k
        /\ \A j \in 1 .. Len(rows) : rows[j].key = k => j <= last
    BY <1>1, <1>2, <1>3, <1>6, <2>1, <2>2 DEF MemoryInv, MemoryNewest
  <2>4. Log!Latest(k) = last
    BY <1>1, <2>3, LatestIs
  <2>5. Timeline[last].to = IF rows[last].end = 0 THEN 0 ELSE rows[last].end - Post
    BY <1>1, <2>3, TimelineShape
  <2> QED
    BY <1>3, <1>7, <2>3, <2>4, <2>5
<1>9. Timeline' = Append(Timeline, [key |-> k, from |-> from, to |-> 0])
  <2> DEFINE e == [key |-> k, from |-> from, to |-> 0]
             s == Append(Timeline, e)
  <2>1. /\ Timeline \in Seq(EpisodeSet) /\ Len(Timeline) = Len(rows)
        /\ e \in EpisodeSet
    BY <1>1, <1>2, <1>5, TimelineShape DEF EpisodeSet
  <2>2. DOMAIN Timeline' = 1 .. n /\ \A i \in 1 .. n : Timeline'[i] = Episode(rows'[i])
    BY <1>2 DEF Timeline
  <2>3. \A i \in 1 .. Len(rows) : Timeline[i] = Episode(rows[i])
    BY <1>3 DEF Timeline
  <2>4. Episode(rows'[n]) = e
    BY <1>2 DEF Episode
  <2> HIDE DEF e
  <2>5. /\ DOMAIN s = 1 .. n /\ s[n] = e
        /\ \A i \in 1 .. Len(rows) : s[i] = Timeline[i]
        /\ s = [i \in 1 .. n |-> s[i]]
    <3> HIDE DEF Timeline
    <3>1. /\ s \in Seq(EpisodeSet) /\ Len(s) = Len(Timeline) + 1 /\ s[Len(Timeline) + 1] = e
          /\ \A i \in 1 .. Len(Timeline) : s[i] = Timeline[i]
      BY <2>1, AppendProperties
    <3> HIDE DEF s
    <3>2. s \in [1 .. n -> EpisodeSet]
      BY <2>1, <3>1, LenProperties
    <3> QED
      BY <2>1, <3>1, <3>2
  <2>6. \A i \in 1 .. n : Timeline'[i] = s[i]
    BY <1>2, <1>3, <2>2, <2>3, <2>4, <2>5
  <2>7. Timeline' = [i \in 1 .. n |-> Timeline'[i]]
    BY <1>2 DEF Timeline
  <2> HIDE DEF s
  <2>8. Timeline' = s
    BY <2>5, <2>6, <2>7
  <2> QED
    BY <2>8 DEF s, e
<1>10. {q \in Keys : open'[q] # 0} = {q \in Keys : open[q] # 0} \cup {k}
  BY <1>2, <1>3
<1>11. k \notin {q \in Keys : open[q] # 0} /\ from <= clock
  BY <1>5, <1>6
<1>12. [q \in Keys |-> Window[q[1]]][k] = Window[k[1]]
  BY <1>2
<1>13. Log!Of(k) # {} =>
         /\ Timeline[Log!Latest(k)].to # 0
         /\ from - Timeline[Log!Latest(k)].to > [q \in Keys |-> Window[q[1]]][k]
  BY <1>8, <1>12
<1>14. Log!Begin(k, from)
  BY <1>2, <1>9, <1>10, <1>11, <1>13, Zenon DEF Log!Begin, Timeline
<1> QED
  BY <1>2, <1>5, <1>14, Zenon DEF Log!Next

(* The end of a row is the end of its episode. *)
LEMMA FinishImplements ==
  ASSUME EpisodesInv, NEW w \in Workers, NEW ok \in BOOLEAN, ok = TRUE, Finish(w, ok)
  PROVE  Log!Next
<1> PICK k : k = call[w].key
  OBVIOUS
<1> PICK n : n = open[k]
  OBVIOUS
<1>1. BaseInv /\ MemoryInv
  BY DEF EpisodesInv
<1>2. /\ k \in Keys /\ n \in 1 .. Len(rows) /\ DOMAIN rows' = 1 .. Len(rows)
      /\ \A i \in 1 .. Len(rows) : SameEvent(rows'[i], rows[i])
      /\ \A i \in 1 .. Len(rows) : i # n => rows'[i].end = rows[i].end
      /\ rows'[n].end = clock + Post
      /\ open' = [open EXCEPT ![k] = 0]
      /\ clock' = clock
  BY <1>1, FinishTrue
<1>3. /\ Len(rows) \in Nat /\ DOMAIN rows = 1 .. Len(rows)
      /\ clock \in Nat /\ clock > 0 /\ Post \in Nat
      /\ open \in [Keys -> 0 .. Len(rows)]
  BY <1>1, Types DEF BaseInv, TypeOK
<1>4. rows[n].key = k /\ \A i \in 1 .. Len(rows) : rows[i].key = k => i <= n
  BY <1>1, <1>2, <1>3 DEF MemoryInv, MemoryNewest
<1>5. Log!Latest(k) = n
  BY <1>1, <1>2, <1>4, LatestIs
<1>6. Timeline' = [Timeline EXCEPT ![n].to = clock]
  <2> DEFINE t == [Timeline[n] EXCEPT !.to = clock]
             s == [Timeline EXCEPT ![n] = t]
  <2>1. Timeline = [i \in 1 .. Len(rows) |-> Episode(rows[i])]
    BY <1>3 DEF Timeline
  <2>2. Timeline' = [i \in 1 .. Len(rows) |-> Episode(rows'[i])]
    BY <1>2 DEF Timeline
  <2>3. \A i \in 1 .. Len(rows) : i # n => Episode(rows'[i]) = Episode(rows[i])
    BY <1>2 DEF SameEvent, Episode
  <2>4. Timeline[n] = Episode(rows[n])
    BY <1>2, <2>1
  <2>5. t = Episode(rows'[n])
    <3>1. /\ rows'[n].key = rows[n].key /\ rows'[n].start = rows[n].start
          /\ rows'[n].end # 0 /\ rows'[n].end - Post = clock
      BY <1>2, <1>3 DEF SameEvent
    <3> QED
      BY <2>4, <3>1 DEF Episode
  <2> HIDE DEF t
  <2>6. s = [i \in 1 .. Len(rows) |-> IF i = n THEN t ELSE Timeline[i]]
    BY <2>1
  <2>7. Timeline' = s
    BY <1>2, <2>1, <2>2, <2>3, <2>5, <2>6
  <2> QED
    BY <2>7 DEF t
<1>7. {q \in Keys : open'[q] # 0} = {q \in Keys : open[q] # 0} \ {k}
  BY <1>2, <1>3
<1>8. k \in {q \in Keys : open[q] # 0}
  BY <1>2
<1>9. Log!End(k)
  BY <1>2, <1>5, <1>6, <1>7, <1>8, Zenon DEF Log!End, Timeline
<1> QED
  BY <1>2, <1>9, Zenon DEF Log!Next

(* With one worker per camera, coalescing on and no failing statement, the *)
(* rows are the timeline EventLog promises: whatever topics start and end  *)
(* in between, an episode of a key lasts while its key is open, is taken   *)
(* up again within the window, and is followed by another only after more  *)
(* quiet than that (DetectionRecorder::on_event).                          *)
THEOREM ImplementsEventLog ==
  ASSUME OneListenerEach, Coalescing, DbFaults = FALSE
  PROVE  Spec => EventLogSpec
<1> DEFINE LogInv == EpisodesInv /\ RememberInv
<1>1. Init => LogInv
  <2> SUFFICES ASSUME Init PROVE RememberInv
    BY InitEpisodes
  <2>1. /\ pc = [w \in Workers |-> "idle"]
        /\ lastEvent = [k \in Keys |-> [id |-> 0, realEnd |-> 0]]
    BY DEF Init
  <2> QED
    BY <2>1 DEF RememberInv, Fetching
<1>2. LogInv /\ [Next]_vars => LogInv'
  BY NextEpisodes, RememberStep
<1>3. Init => Log!Init
  <2> SUFFICES ASSUME Init PROVE Log!Init
    OBVIOUS
  <2>1. rows = <<>> /\ open = [k \in Keys |-> 0] /\ clock = Pre + 1
    BY DEF Init
  <2>2. clock \in Nat /\ {k \in Keys : open[k] # 0} = {}
    BY <2>1, ConstantsAssumption
  <2>3. [i \in DOMAIN rows |-> Episode(rows[i])] = <<>>
    BY <2>1
  <2> QED
    BY <2>2, <2>3 DEF Log!Init
<1>4. LogInv /\ [Next]_vars => [Log!Next]_(Log!logVars)
  <2> SUFFICES ASSUME EpisodesInv, RememberInv, [Next]_vars
               PROVE  Log!Next \/ UNCHANGED Log!logVars
    OBVIOUS
  <2>1. BaseInv
    BY DEF EpisodesInv
  <2>2. \/ Still
        \/ \E w \in Workers : Reopen(w)
        \/ \E w \in Workers, ok1, ok2 \in BOOLEAN : InsertNew(w, ok1, ok2)
        \/ \E w \in Workers, ok \in Outcomes : Finish(w, ok)
    BY <2>1, StepKinds, Zenon
  <2>3. ASSUME NEW w \in Workers, NEW ok \in Outcomes, Finish(w, ok)
        PROVE  Log!Next
    <3>1. ok \in BOOLEAN /\ ok = TRUE
      BY DEF Outcomes
    <3> QED
      BY <2>3, <3>1, FinishImplements
  <2> QED
    BY <2>1, <2>2, <2>3, StillImplements, ReopenImplements, InsertImplements, Zenon
<1> QED
  BY <1>1, <1>2, <1>3, <1>4, PTL DEF Spec, EventLogSpec, Log!Spec

-----------------------------------------------------------------------------
(***************************************************************************)
(* Bursts: one worker per camera.                                          *)
(***************************************************************************)

(* A worker with an event in hand moves itself only, in no time.           *)
LEMMA ProceedOthers ==
  ASSUME BaseInv, NEW w \in Workers, Proceed(w)
  PROVE  /\ Others(w) /\ pc[w] # "idle" /\ pc'[w] # "admit"
         /\ UNCHANGED <<clock, level, aiCapable, cellMotion>>
<1> DEFINE Goal == /\ Others(w) /\ pc[w] # "idle" /\ pc'[w] # "admit"
                   /\ UNCHANGED <<clock, level, aiCapable, cellMotion>>
<1> SUFFICES Goal
  OBVIOUS
<1>1. CASE MergeIntoOpen(w) \/ AdmitNew(w)
  <2>1. UNCHANGED <<aiCapable, cellMotion>>
    BY <1>1 DEF MergeIntoOpen, AdmitNew, recorderVars
  <2>2. /\ Others(w) /\ pc[w] = "admit" /\ pc'[w] = "fetch"
        /\ UNCHANGED <<clock, level>>
    BY <1>1, AdmitEffect
  <2> QED
    BY <2>1, <2>2
<1>2. CASE Reopen(w)
  <2>1. /\ Others(w) /\ pc[w] = "admit" /\ pc'[w] = "fetch"
        /\ UNCHANGED <<clock, level, aiCapable, cellMotion>>
    BY <1>2, ReopenEffect
  <2> QED
    BY <2>1
<1>3. CASE RateLimit(w) \/ FinishUnknown(w)
  <2>1. /\ \E from \in {"admit", "finish"} : Return(w, from)
        /\ UNCHANGED <<clock, level, aiCapable, cellMotion>>
    BY <1>3 DEF RateLimit, FinishUnknown, recorderVars
  <2>2. Others(w) /\ pc[w] \in {"admit", "finish"} /\ pc'[w] = "idle"
    BY <2>1, ReturnFacts
  <2> QED
    BY <2>1, <2>2
<1>4. CASE \E picture \in BOOLEAN, label \in ObjectTypes : Fetch(w, picture, label)
  <2>1. Others(w) /\ pc[w] = "fetch" /\ pc'[w] # "admit" /\ UNCHANGED <<clock, level, recorderVars>>
    BY <1>4, FetchFacts
  <2> QED
    BY <2>1 DEF recorderVars
<1>5. CASE MsrStores(w) \/ MsrFails(w)
  <2>1. Others(w) /\ pc[w] = "forward" /\ pc'[w] # "admit" /\ UNCHANGED <<clock, level, recorderVars>>
    BY <1>5, ForwardFacts
  <2> QED
    BY <2>1 DEF recorderVars
<1>6. CASE FillBurstCache(w)
  <2>1. /\ Others(w) /\ pc[w] = "cache" /\ pc'[w] # "admit"
        /\ UNCHANGED <<clock, level, aiCapable, cellMotion>>
    BY <1>6, CacheFacts
  <2> QED
    BY <2>1
<1>7. Outcomes \subseteq BOOLEAN
  BY Zenon DEF Outcomes
<1>8. CASE \E ok1, ok2 \in Outcomes : InsertNew(w, ok1, ok2)
  <2>1. /\ Others(w) /\ pc[w] = "insert" /\ pc'[w] # "admit"
        /\ UNCHANGED <<clock, level, aiCapable, cellMotion>>
    BY <1>7, <1>8, InsertNewFacts
  <2> QED
    BY <2>1
<1>9. CASE Notify(w) \/ \E ok \in Outcomes : InsertMerged(w, ok)
  <2>1. /\ Others(w) /\ pc[w] \in {"insert", "notify"} /\ pc'[w] = "idle"
        /\ UNCHANGED <<clock, level, recorderVars>>
    BY <1>9, TouchFacts
  <2> QED
    BY <2>1 DEF recorderVars
<1>10. CASE \E ok \in Outcomes : Finish(w, ok)
  <2>1. /\ Others(w) /\ pc[w] = "finish" /\ pc'[w] = "idle"
        /\ UNCHANGED <<clock, level, aiCapable, cellMotion>>
    BY <1>7, <1>10, FinishFacts
  <2> QED
    BY <2>1
<1> HIDE DEF Goal
<1> QED
  BY <1>1, <1>2, <1>3, <1>4, <1>5, <1>6, <1>8, <1>9, <1>10, Zenon DEF Proceed

(* A step of the system, seen from one worker: it hears, it proceeds, or   *)
(* its call stays as it is.                                                *)
LEMMA WorkerStep ==
  ASSUME BaseInv, [Next]_vars, NEW v \in Workers
  PROVE  /\ clock' \in Nat /\ clock' >= clock
         /\ \/ pc'[v] = pc[v] /\ call'[v] = call[v]
            \/ pc[v] = "idle" /\ pc'[v] \in {"admit", "finish"}
            \/ Proceed(v) /\ clock' = clock
<1> DEFINE Goal == /\ clock' \in Nat /\ clock' >= clock
                   /\ \/ pc'[v] = pc[v] /\ call'[v] = call[v]
                      \/ pc[v] = "idle" /\ pc'[v] \in {"admit", "finish"}
                      \/ Proceed(v) /\ clock' = clock
<1> SUFFICES Goal
  OBVIOUS
<1>1. clock \in Nat
  BY DEF BaseInv, TypeOK
<1>2. CASE UNCHANGED vars
  BY <1>1, <1>2 DEF vars
<1>3. CASE Tick
  BY <1>1, <1>3 DEF Tick
<1>4. ASSUME NEW w \in Workers, NEW t \in Emitted[CameraOf[w]], NEW op \in Ops,
             \/ Ignore(w, t, op)
             \/ \E on \in BOOLEAN : Suppress(w, t, on, op) \/ Receive(w, t, on, op)
      PROVE  Goal
  <2>1. CASE Ignore(w, t, op) \/ \E on \in BOOLEAN : Suppress(w, t, on, op)
    <3>1. UNCHANGED <<clock, pc, call>>
      BY <2>1 DEF Ignore, Suppress
    <3> QED
      BY <1>1, <3>1
  <2>2. CASE \E on \in BOOLEAN : Receive(w, t, on, op)
    <3>1. t \in Topics
      BY ConstantsAssumption
    <3>2. /\ Others(w) /\ pc[w] = "idle" /\ pc'[w] \in {"admit", "finish"}
          /\ clock' = clock
      BY <2>2, <3>1, ReceiveFacts
    <3> QED
      BY <1>1, <3>2 DEF Others
  <2> QED
    BY <1>4, <2>1, <2>2
<1>5. ASSUME NEW w \in Workers, Proceed(w)
      PROVE  Goal
  <2>1. Others(w) /\ clock' = clock
    BY <1>5, ProceedOthers
  <2>2. CASE v = w
    BY <1>1, <1>5, <2>1, <2>2
  <2>3. CASE v # w
    BY <1>1, <2>1, <2>3 DEF Others
  <2> QED
    BY <2>2, <2>3
<1> HIDE DEF Goal
<1> QED
  BY <1>2, <1>3, <1>4, <1>5, Zenon DEF Next

(* How a worker comes to be about to take, or have taken, a picture. *)
LEMMA PictureStep ==
  ASSUME BaseInv, [Next]_vars, NEW v \in Workers, pc'[v] \in {"fetch", "forward", "cache"}
  PROVE  \/ pc'[v] = pc[v] /\ call'[v].cached = call[v].cached
         \/ /\ pc[v] = "admit" /\ pc'[v] = "fetch" /\ clock' = clock
            /\ call'[v].cached = BurstFresh(CameraOf[v])
         \/ pc[v] = "fetch" /\ pc'[v] = "forward" /\ HasMsr /\ ~call[v].cached
         \/ pc[v] = "forward" /\ pc'[v] = "cache" /\ BurstWindow > 0
<1> DEFINE Goal ==
      \/ pc'[v] = pc[v] /\ call'[v].cached = call[v].cached
      \/ /\ pc[v] = "admit" /\ pc'[v] = "fetch" /\ clock' = clock
         /\ call'[v].cached = BurstFresh(CameraOf[v])
      \/ pc[v] = "fetch" /\ pc'[v] = "forward" /\ HasMsr /\ ~call[v].cached
      \/ pc[v] = "forward" /\ pc'[v] = "cache" /\ BurstWindow > 0
<1> SUFFICES Goal
  OBVIOUS
<1>1. CASE pc'[v] = pc[v] /\ call'[v] = call[v]
  BY <1>1
<1>2. CASE Proceed(v)
  <2>1. CASE MergeIntoOpen(v) \/ AdmitNew(v)
    <3>1. /\ pc[v] = "admit" /\ pc'[v] = "fetch" /\ clock' = clock
          /\ call'[v].cached = BurstFresh(CameraOf[v])
      BY <2>1, AdmitEffect
    <3> QED
      BY <3>1
  <2>2. CASE Reopen(v)
    <3>1. /\ pc[v] = "admit" /\ pc'[v] = "fetch" /\ clock' = clock
          /\ call'[v].cached = BurstFresh(CameraOf[v])
      BY <2>2, ReopenEffect
    <3> QED
      BY <3>1
  <2>3. CASE \E picture \in BOOLEAN, label \in ObjectTypes : Fetch(v, picture, label)
    <3>1. pc[v] = "fetch" /\ \E picture \in BOOLEAN :
            pc'[v] = IF picture /\ HasMsr /\ ~call[v].cached THEN "forward" ELSE "insert"
      BY <2>3, FetchFacts
    <3> QED
      BY <3>1
  <2>4. CASE MsrStores(v) \/ MsrFails(v)
    <3>1. /\ pc[v] = "forward" /\ pc'[v] \in {"cache", "insert"}
          /\ pc'[v] = "cache" => BurstWindow > 0
      BY <2>4, ForwardFacts
    <3> QED
      BY <3>1
  <2>5. CASE \/ RateLimit(v) \/ FinishUnknown(v) \/ FillBurstCache(v) \/ Notify(v)
             \/ \E ok1, ok2 \in Outcomes : InsertNew(v, ok1, ok2)
             \/ \E ok \in Outcomes : InsertMerged(v, ok)
             \/ \E ok \in Outcomes : Finish(v, ok)
    <3>1. \E from, to \in {"idle", "insert", "notify"} \cup Labels :
            Goto(v, from, to) /\ to \in {"idle", "insert", "notify"}
      BY <2>5, Zenon DEF RateLimit, FinishUnknown, FillBurstCache, Notify, InsertNew,
         InsertMerged, Finish, Return, Labels
    <3>2. pc'[v] \in {"idle", "insert", "notify"}
      BY <3>1 DEF Goto, BaseInv, TypeOK
    <3> QED
      BY <3>2
  <2> HIDE DEF Goal
  <2> QED
    BY <1>2, <2>1, <2>2, <2>3, <2>4, <2>5, Zenon DEF Proceed
<1>3. pc'[v] \notin {"admit", "finish"}
  OBVIOUS
<1> HIDE DEF Goal
<1> QED
  BY <1>1, <1>2, <1>3, WorkerStep

(* Only the worker of a camera fills its burst cache. *)
LEMMA BurstCacheStep ==
  ASSUME OneListenerEach, BaseInv, [Next]_vars, NEW v \in Workers, pc'[v] # "insert"
  PROVE  burst'[CameraOf[v]] = burst[CameraOf[v]]
<1>1. burst' = burst \/ \E w \in Workers : FillBurstCache(w)
  <2>1. CASE UNCHANGED vars \/ Tick
    BY <2>1 DEF vars, recorderVars, Tick
  <2>2. ASSUME NEW w \in Workers, NEW t, NEW op,
               \/ Ignore(w, t, op)
               \/ \E on \in BOOLEAN : Suppress(w, t, on, op) \/ Receive(w, t, on, op)
        PROVE  burst' = burst
    BY <2>2 DEF Ignore, Suppress, Receive, recorderVars
  <2>3. ASSUME NEW w \in Workers, Proceed(w)
        PROVE  burst' = burst \/ FillBurstCache(w)
    BY <2>3 DEF recorderVars, Proceed, MergeIntoOpen, Reopen, RateLimit, AdmitNew, Fetch,
       MsrStores, MsrFails, InsertNew, InsertMerged, Notify, FinishUnknown, Finish
  <2> QED
    BY <2>1, <2>2, <2>3, Zenon DEF Next
<1>2. ASSUME NEW w \in Workers, FillBurstCache(w)
      PROVE  burst'[CameraOf[v]] = burst[CameraOf[v]]
  <2>1. pc'[w] = "insert" /\ burst' = [burst EXCEPT ![CameraOf[w]] = clock]
    BY <1>2, CacheFacts DEF FillBurstCache
  <2>2. CameraOf[v] # CameraOf[w]
    BY <2>1 DEF OneListenerEach
  <2>3. burst \in [Cameras -> Nat] /\ CameraOf[v] \in Cameras
    BY ConstantsAssumption DEF BaseInv, TypeOK
  <2> QED
    BY <2>1, <2>2, <2>3
<1> QED
  BY <1>1, <1>2

(* Every step keeps what a picture on its way to MSR knows of the burst. *)
LEMMA BurstStep ==
  ASSUME OneListenerEach, BaseInv, BurstInv, [Next]_vars
  PROVE  BurstInv'
<1> SUFFICES ASSUME NEW v \in Workers
             PROVE  /\ pc'[v] = "cache" => BurstWindow > 0
                    /\ /\ BurstWindow > 0 /\ burst'[CameraOf[v]] > 0
                       /\ \/ pc'[v] = "fetch" /\ HasMsr /\ ~call'[v].cached
                          \/ pc'[v] \in {"forward", "cache"}
                       => clock' - burst'[CameraOf[v]] > BurstWindow
  BY DEF BurstInv
<1> DEFINE c == CameraOf[v]
<1>1. /\ clock \in Nat /\ clock' \in Nat /\ clock' >= clock
      /\ burst[c] \in Nat /\ BurstWindow \in Nat
  <2>1. burst \in [Cameras -> Nat] /\ c \in Cameras /\ BurstWindow \in Nat
    BY ConstantsAssumption DEF BaseInv, TypeOK
  <2> QED
    BY <2>1, WorkerStep DEF BaseInv, TypeOK
<1>2. CASE pc'[v] \in {"fetch", "forward", "cache"}
  <2>1. burst'[c] = burst[c]
    BY <1>2, BurstCacheStep
  <2>2. /\ pc[v] = "cache" => BurstWindow > 0
        /\ /\ BurstWindow > 0 /\ burst[c] > 0
           /\ \/ pc[v] = "fetch" /\ HasMsr /\ ~call[v].cached
              \/ pc[v] \in {"forward", "cache"}
           => clock - burst[c] > BurstWindow
    BY DEF BurstInv
  <2> HIDE DEF c
  <2>3. CASE pc'[v] = pc[v] /\ call'[v].cached = call[v].cached
    BY <1>1, <2>1, <2>2, <2>3 DEF c
  <2>4. CASE /\ pc[v] = "admit" /\ pc'[v] = "fetch" /\ clock' = clock
             /\ call'[v].cached = BurstFresh(CameraOf[v])
    BY <1>1, <2>1, <2>4 DEF c, BurstFresh
  <2>5. CASE pc[v] = "fetch" /\ pc'[v] = "forward" /\ HasMsr /\ ~call[v].cached
    BY <1>1, <2>1, <2>2, <2>5 DEF c
  <2>6. CASE pc[v] = "forward" /\ pc'[v] = "cache" /\ BurstWindow > 0
    BY <1>1, <2>1, <2>2, <2>6 DEF c
  <2> QED
    BY <1>2, <2>3, <2>4, <2>5, <2>6, PictureStep
<1>3. CASE pc'[v] \notin {"fetch", "forward", "cache"}
  BY <1>3
<1> QED
  BY <1>2, <1>3

(* MSR never takes a second picture of a camera within the burst window    *)
(* of the one it stored last, if one worker listens to each camera.        *)
THEOREM OneStorePerBurstHolds ==
  ASSUME OneListenerEach
  PROVE  Spec => OneStorePerBurst
<1>1. Init => BaseInv /\ BurstInv
  <2>1. Init => BaseInv
    BY InitBase
  <2>2. Init => BurstInv
    BY DEF Init, BurstInv
  <2> QED
    BY <2>1, <2>2
<1>2. BaseInv /\ BurstInv /\ [Next]_vars => (BaseInv /\ BurstInv)'
  BY NextBase, BurstStep
<1>3. BaseInv /\ BurstInv /\ [Next]_vars
        => [\A w \in Workers :
              FillBurstCache(w) /\ burst[CameraOf[w]] > 0
                => clock - burst[CameraOf[w]] > BurstWindow]_vars
  <2> SUFFICES ASSUME BurstInv, NEW w \in Workers, FillBurstCache(w), burst[CameraOf[w]] > 0
               PROVE  clock - burst[CameraOf[w]] > BurstWindow
    OBVIOUS
  <2>1. pc[w] = "cache"
    BY DEF FillBurstCache, Goto
  <2> QED
    BY <2>1 DEF BurstInv
<1> QED
  BY <1>1, <1>2, <1>3, PTL DEF Spec, OneStorePerBurst

-----------------------------------------------------------------------------
(***************************************************************************)
(* The hour: one worker per camera, whatever fails.                        *)
(***************************************************************************)

(* Sets of positions are finite. *)
LEMMA Positions ==
  ASSUME NEW m \in Nat, NEW S \in SUBSET (1 .. m)
  PROVE  IsFiniteSet(S) /\ Cardinality(S) \in Nat /\ Cardinality(S) <= m
<1>1. IsFiniteSet(1 .. m) /\ Cardinality(1 .. m) = m
  BY FS_Interval
<1>2. IsFiniteSet(S) /\ Cardinality(S) <= m
  BY <1>1, FS_Subset
<1> QED
  BY <1>2, FS_CardinalityType

(* A set that maps one to one into a finite set has at most its elements. *)
LEMMA InjectionCount ==
  ASSUME NEW S, NEW T, IsFiniteSet(T), NEW f \in [S -> T],
         \A a, b \in S : f[a] = f[b] => a = b
  PROVE  Cardinality(S) <= Cardinality(T)
<1>1. f \in Injection(S, T)
  BY DEF Injection, IsInjective
<1> QED
  BY <1>1, FS_Injection

(* The times of the last hour, and the rows, as sets of positions. *)
LEMMA NotedFinite ==
  ASSUME NEW times \in Seq(Nat), NEW t \in Int
  PROVE  /\ Noted(times, t) \in SUBSET (1 .. Len(times)) /\ Len(times) \in Nat
         /\ IsFiniteSet(Noted(times, t)) /\ Cardinality(Noted(times, t)) \in Nat
         /\ Cardinality(Noted(times, t)) <= Len(times)
         /\ \A u \in Int : u >= t => Cardinality(Noted(times, u)) <= Cardinality(Noted(times, t))
<1>1. Len(times) \in Nat /\ DOMAIN times = 1 .. Len(times)
  BY LenProperties
<1>2. \A u \in Int : Noted(times, u) \in SUBSET (1 .. Len(times))
  BY <1>1 DEF Noted
<1>3. /\ IsFiniteSet(Noted(times, t)) /\ Cardinality(Noted(times, t)) \in Nat
      /\ Cardinality(Noted(times, t)) <= Len(times)
  BY <1>1, <1>2, Positions
<1>4. ASSUME NEW u \in Int, u >= t
      PROVE  Cardinality(Noted(times, u)) <= Cardinality(Noted(times, t))
  <2>1. Noted(times, u) \in SUBSET Noted(times, t)
    <3>1. \A n \in DOMAIN times : times[n] \in Nat
      BY <1>1
    <3> QED
      BY <1>4, <3>1 DEF Noted
  <2> QED
    BY <1>3, <2>1, FS_Subset
<1> QED
  BY <1>1, <1>2, <1>3, <1>4

(* Pruning drops no time at or after its cutoff. *)
LEMMA PrunedCount ==
  ASSUME NEW times \in Seq(Nat), NEW cutoff \in Int, NEW t \in Int, t >= cutoff
  PROVE  Cardinality(Noted(From(times, cutoff), t)) = Cardinality(Noted(times, t))
<1> DEFINE p == From(times, cutoff)
<1>1. /\ Len(times) \in Nat /\ DOMAIN times = 1 .. Len(times)
      /\ \A n \in 1 .. Len(times) : times[n] \in Nat
  BY LenProperties
<1>2. p \in Seq(Nat)
  BY FromProperties
<1>3. PICK d \in 0 .. Len(times) :
        /\ Len(p) = Len(times) - d
        /\ \A i \in 1 .. Len(times) - d : p[i] = times[i + d]
        /\ \A i \in 1 .. d : times[i] < cutoff
  BY FromProperties
<1> HIDE DEF p
<1>4. DOMAIN p = 1 .. Len(times) - d
  BY <1>2, <1>3, LenProperties
<1> DEFINE P == Noted(p, t)
           N == Noted(times, t)
<1>5. \A n \in P : n \in 1 .. Len(times) - d /\ n + d \in N
  <2> SUFFICES ASSUME NEW n \in P PROVE n \in 1 .. Len(times) - d /\ n + d \in N
    OBVIOUS
  <2>1. n \in 1 .. Len(times) - d /\ p[n] >= t
    BY <1>4 DEF Noted
  <2>2. n + d \in 1 .. Len(times) /\ p[n] = times[n + d]
    BY <1>1, <1>3, <2>1
  <2> QED
    BY <1>1, <2>1, <2>2 DEF Noted
<1>6. \A n \in N : n \in 1 .. Len(times) /\ n - d \in P
  <2> SUFFICES ASSUME NEW n \in N PROVE n \in 1 .. Len(times) /\ n - d \in P
    OBVIOUS
  <2>1. n \in 1 .. Len(times) /\ times[n] >= t
    BY <1>1 DEF Noted
  <2>2. ~ (n <= d)
    <3>1. n <= d => n \in 1 .. d /\ times[n] < cutoff
      BY <1>3, <2>1
    <3>2. times[n] \in Int
      BY <1>1, <2>1
    <3> QED
      BY <2>1, <3>1, <3>2
  <2>3. n - d \in 1 .. Len(times) - d /\ (n - d) + d = n
    BY <1>1, <2>1, <2>2
  <2>4. p[n - d] = times[n]
    BY <1>3, <2>3
  <2> QED
    BY <1>4, <2>1, <2>3, <2>4 DEF Noted
<1>7. IsFiniteSet(P) /\ IsFiniteSet(N) /\ Cardinality(P) \in Nat /\ Cardinality(N) \in Nat
  BY <1>2, NotedFinite
<1> HIDE DEF P, N
<1>8. Cardinality(P) <= Cardinality(N)
  <2> DEFINE f == [n \in P |-> n + d]
  <2>1. f \in [P -> N] /\ \A a, b \in P : f[a] = f[b] => a = b
    BY <1>5
  <2> HIDE DEF f
  <2> QED
    BY <1>7, <2>1, InjectionCount
<1>9. Cardinality(N) <= Cardinality(P)
  <2> DEFINE f == [n \in N |-> n - d]
  <2>1. f \in [N -> P] /\ \A a, b \in N : f[a] = f[b] => a = b
    BY <1>1, <1>6
  <2> HIDE DEF f
  <2> QED
    BY <1>7, <2>1, InjectionCount
<1> QED
  BY <1>7, <1>8, <1>9 DEF P, N, p

(* A time that is appended, and a row. *)
LEMMA AppendedCount ==
  ASSUME NEW times \in Seq(Nat), NEW x \in Nat, NEW t \in Int
  PROVE  Cardinality(Noted(Append(times, x), t))
           = Cardinality(Noted(times, t)) + (IF x >= t THEN 1 ELSE 0)
<1> DEFINE n == Len(times) + 1
           s == Append(times, x)
<1>1. /\ Len(times) \in Nat /\ DOMAIN times = 1 .. Len(times) /\ s \in Seq(Nat)
      /\ Len(s) = n /\ s[n] = x /\ \A i \in 1 .. Len(times) : s[i] = times[i]
  BY LenProperties, AppendProperties
<1>2. DOMAIN s = 1 .. n
  BY <1>1, LenProperties
<1> HIDE DEF s
<1>3. Noted(s, t) = IF x >= t THEN Noted(times, t) \cup {n} ELSE Noted(times, t)
  BY <1>1, <1>2 DEF Noted
<1>4. n \notin Noted(times, t)
  BY <1>1 DEF Noted
<1>5. IsFiniteSet(Noted(times, t)) /\ Cardinality(Noted(times, t)) \in Nat
  BY NotedFinite
<1>6. Cardinality(Noted(times, t) \cup {n}) = Cardinality(Noted(times, t)) + 1
  BY <1>4, <1>5, FS_AddElement
<1> QED
  BY <1>3, <1>5, <1>6 DEF s

(* The rows of an hour are finitely many. *)
LEMMA LateFinite ==
  ASSUME BaseInv, NEW c, NEW t \in Int
  PROVE  IsFiniteSet(Late(rows, c, t)) /\ Cardinality(Late(rows, c, t)) \in Nat
<1>1. Len(rows) \in Nat /\ Late(rows, c, t) \in SUBSET (1 .. Len(rows))
  BY RowsShape DEF Late
<1> QED
  BY <1>1, Positions

(* The steps by what they do to the times and to the rows. *)
RowsSame == /\ DOMAIN rows' = DOMAIN rows
            /\ \A i \in DOMAIN rows : rows'[i].key = rows[i].key /\ rows'[i].start = rows[i].start

(* Only inserts make rows; only inserts and prunings touch the times. *)
LEMMA HourKinds ==
  ASSUME BaseInv, [Next]_vars
  PROVE  \/ RowsSame /\ recent' = recent
         \/ \E w \in Workers : RowsSame /\ Prune(CameraOf[w]) /\ clock' = clock
         \/ \E w \in Workers, ok1, ok2 \in BOOLEAN : InsertNew(w, ok1, ok2)
<1>1. rows' = rows => RowsSame
  BY DEF RowsSame
<1>2. RowsKept => RowsSame
  BY RowsShape, LenProperties DEF RowsSame, RowsKept, SameEvent
<1>3. CASE UNCHANGED vars \/ Tick
  BY <1>1, <1>3 DEF vars, recorderVars, Tick
<1>4. ASSUME NEW w \in Workers, NEW t, NEW op,
             \/ Ignore(w, t, op)
             \/ \E on \in BOOLEAN : Suppress(w, t, on, op) \/ Receive(w, t, on, op)
      PROVE  RowsSame /\ recent' = recent
  <2>1. rows' = rows /\ recent' = recent
    BY <1>4 DEF Ignore, Suppress, Receive, recorderVars
  <2> QED
    BY <1>1, <2>1
<1>5. ASSUME NEW w \in Workers, Proceed(w)
      PROVE  \/ RowsSame /\ recent' = recent
             \/ RowsSame /\ Prune(CameraOf[w]) /\ clock' = clock
             \/ \E ok1, ok2 \in BOOLEAN : InsertNew(w, ok1, ok2)
  <2>1. Outcomes \subseteq BOOLEAN
    BY Zenon DEF Outcomes
  <2>2. CASE \/ MergeIntoOpen(w) \/ Reopen(w) \/ MsrStores(w) \/ MsrFails(w)
             \/ FillBurstCache(w) \/ FinishUnknown(w)
             \/ \E picture \in BOOLEAN, label \in ObjectTypes : Fetch(w, picture, label)
    <3>1. rows' = rows /\ recent' = recent
      BY <2>2 DEF MergeIntoOpen, Reopen, MsrStores, MsrFails, FillBurstCache, FinishUnknown,
         Fetch, recorderVars
    <3> QED
      BY <1>1, <3>1
  <2>3. CASE RateLimit(w) \/ AdmitNew(w)
    <3>1. rows' = rows /\ Prune(CameraOf[w]) /\ clock' = clock
      BY <2>3 DEF RateLimit, AdmitNew
    <3> QED
      BY <1>1, <3>1
  <2>4. CASE Notify(w) \/ \E ok \in Outcomes : InsertMerged(w, ok)
    <3>1. RowsKept /\ recent' = recent
      BY <2>4, TouchFacts DEF recorderVars
    <3> QED
      BY <1>2, <3>1
  <2>5. CASE \E ok \in Outcomes : Finish(w, ok)
    <3>1. /\ DOMAIN rows' = 1 .. Len(rows) /\ recent' = recent
          /\ \A i \in 1 .. Len(rows) : SameEvent(rows'[i], rows[i])
      BY <2>1, <2>5, FinishEffect
    <3> QED
      BY <3>1, RowsShape DEF RowsSame, SameEvent
  <2> QED
    BY <1>5, <2>1, <2>2, <2>3, <2>4, <2>5, Zenon DEF Proceed
<1> QED
  BY <1>3, <1>4, <1>5, Zenon DEF Next

(* Steps that add no row and no time, though they may prune. *)
LEMMA QuietHour ==
  ASSUME BaseInv, MemoryInv, HourInv, [Next]_vars, MaxPerHour > 0, RowsSame,
         recent' = recent
           \/ \E w \in Workers : Prune(CameraOf[w]) /\ clock' = clock
  PROVE  HourInv'
<1>1. /\ clock \in Nat /\ clock' \in Nat /\ clock' >= clock /\ Hour \in Nat
      /\ MaxPerHour \in Nat /\ recent \in [Cameras -> Seq(Nat)]
      /\ \A v \in Workers : CameraOf[v] \in Cameras
  <2>1. clock' \in Nat /\ clock' >= clock
    <3>1. CASE \E w \in Workers : TRUE
      BY <3>1, WorkerStep
    <3>2. CASE ~ \E w \in Workers : TRUE
      BY <3>2 DEF Next, vars, Tick, BaseInv, TypeOK
    <3> QED
      BY <3>1, <3>2
  <2> QED
    BY <2>1, ConstantsAssumption DEF BaseInv, TypeOK
<1>2. recent' \in [Cameras -> Seq(Nat)]
  BY NextBase DEF BaseInv, TypeOK
<1>3. \A c \in Cameras : recent[c] \in Seq(Nat) /\ recent'[c] \in Seq(Nat)
  BY <1>1, <1>2
<1>4. ASSUME NEW c \in Cameras, NEW t \in Int, t >= clock - Hour
      PROVE  Cardinality(Noted(recent'[c], t)) = Cardinality(Noted(recent[c], t))
  <2>1. CASE recent'[c] = recent[c]
    BY <2>1
  <2>2. CASE recent'[c] = From(recent[c], clock - Hour)
    BY <1>1, <1>3, <1>4, <2>2, PrunedCount
  <2>3. recent'[c] = recent[c] \/ recent'[c] = From(recent[c], clock - Hour)
    <3>1. CASE recent' = recent
      BY <3>1
    <3>2. ASSUME NEW w \in Workers, Prune(CameraOf[w])
          PROVE  recent'[c] = recent[c] \/ recent'[c] = From(recent[c], clock - Hour)
      <4>1. recent' = [recent EXCEPT ![CameraOf[w]] = WithinHour(CameraOf[w])]
        BY <3>2 DEF Prune
      <4>2. CameraOf[w] = c => WithinHour(CameraOf[w]) = From(recent[c], clock - Hour)
        BY DEF WithinHour
      <4> QED
        BY <1>1, <4>1, <4>2
    <3> QED
      BY <3>1, <3>2
  <2> QED
    BY <2>1, <2>2, <2>3
<1> DEFINE now == clock' - Hour
<1>5. now \in Int /\ now >= clock - Hour /\ clock - Hour \in Int
  <2>1. clock \in Nat /\ clock' \in Nat /\ clock' >= clock /\ Hour \in Nat
    BY <1>1
  <2>2. \A a, b, h \in Nat : b >= a => b - h \in Int /\ b - h >= a - h /\ a - h \in Int
    OBVIOUS
  <2> QED
    BY <2>1, <2>2, Zenon
<1> HIDE DEF now
<1>6. \A c \in Cameras : /\ Cardinality(Noted(recent'[c], now))
                              <= Cardinality(Noted(recent[c], clock - Hour))
                         /\ Cardinality(Noted(recent'[c], now)) \in Nat
                         /\ Cardinality(Noted(recent[c], clock - Hour)) \in Nat
  <2> SUFFICES ASSUME NEW c \in Cameras
               PROVE  /\ Cardinality(Noted(recent'[c], now))
                           <= Cardinality(Noted(recent[c], clock - Hour))
                      /\ Cardinality(Noted(recent'[c], now)) \in Nat
                      /\ Cardinality(Noted(recent[c], clock - Hour)) \in Nat
    OBVIOUS
  <2>1. Cardinality(Noted(recent'[c], now)) = Cardinality(Noted(recent[c], now))
    BY <1>4, <1>5
  <2>2. /\ Cardinality(Noted(recent[c], now)) <= Cardinality(Noted(recent[c], clock - Hour))
        /\ Cardinality(Noted(recent[c], clock - Hour)) \in Nat
    BY <1>3, <1>5, NotedFinite
  <2>3. Cardinality(Noted(recent'[c], now)) \in Nat
    BY <1>3, <1>5, NotedFinite
  <2> QED
    BY <2>1, <2>2, <2>3
<1>7. \A c \in Cameras, t \in Int : Late(rows', c, t) = Late(rows, c, t)
  BY DEF Late, RowsSame
<1>8. ASSUME NEW c \in Cameras
      PROVE  /\ Cardinality(Noted(recent'[c], now)) <= MaxPerHour
             /\ \A t \in Int : t >= now =>
                  Cardinality(Late(rows', c, t)) <= Cardinality(Noted(recent'[c], t))
  <2>1. /\ Cardinality(Noted(recent[c], clock - Hour)) <= MaxPerHour
        /\ \A t \in Int : t >= clock - Hour =>
             Cardinality(Late(rows, c, t)) <= Cardinality(Noted(recent[c], t))
    BY DEF HourInv
  <2>2. Cardinality(Noted(recent'[c], now)) <= MaxPerHour
    BY <1>1, <1>6, <2>1
  <2>3. ASSUME NEW t \in Int, t >= now
        PROVE  Cardinality(Late(rows', c, t)) <= Cardinality(Noted(recent'[c], t))
    <3>1. t >= clock - Hour
      BY <1>5, <2>3
    <3> QED
      BY <1>4, <1>7, <2>1, <3>1
  <2> QED
    BY <2>2, <2>3
<1>9. ASSUME NEW v \in Workers, pc'[v] \in Fetching
      PROVE  /\ Began(v)' <= clock'
             /\ call'[v].target = 0 =>
                  Cardinality(Noted(recent'[CameraOf[v]], now)) < MaxPerHour
  <2> DEFINE c == CameraOf[v]
             k == call[v].key
  <2>1. c \in Cameras
    BY <1>1
  <2>2. CASE /\ pc[v] \in Fetching /\ call'[v].target = call[v].target
             /\ Began(v) <= clock => Began(v)' <= clock'
    <3>1. /\ Began(v) <= clock
          /\ call[v].target = 0 => Cardinality(Noted(recent[c], clock - Hour)) < MaxPerHour
      BY <2>2 DEF HourInv
    <3> HIDE DEF c
    <3> QED
      BY <1>1, <1>6, <2>1, <2>2, <3>1 DEF c
  <2>3. CASE Reopen(v) /\ pc'[v] = "fetch" /\ clock' = clock
    <3>1. k \in Keys /\ lastEvent[k].realEnd > 0 /\ call'[v].target = lastEvent[k].id
      BY <2>3, ReopenEffect
    <3>2. call'[v].target # 0
      BY <3>1 DEF MemoryInv
    <3> QED
      BY <1>1, <2>3, <3>2 DEF Began
  <2>4. CASE (MergeIntoOpen(v) \/ AdmitNew(v)) /\ pc'[v] = "fetch" /\ clock' = clock
    <3>1. call'[v].target # 0 \/ AdmitNew(v)
      BY <2>4, AdmitEffect
    <3>2. Began(v)' = clock'
      BY <2>4 DEF Began
    <3>3. CASE AdmitNew(v)
      <4>1. recent' = [recent EXCEPT ![c] = WithinHour(c)] /\ ~AtLimit(c)
        BY <3>3 DEF AdmitNew, Prune
      <4>2. recent'[c] = WithinHour(c) /\ ~ (Len(WithinHour(c)) >= MaxPerHour)
        BY <1>1, <2>1, <4>1 DEF AtLimit
      <4>3. Len(recent'[c]) \in Nat /\ Len(recent'[c]) < MaxPerHour
        BY <1>1, <1>3, <2>1, <4>2, LenProperties
      <4>4. /\ Cardinality(Noted(recent'[c], now)) <= Len(recent'[c])
            /\ Cardinality(Noted(recent'[c], now)) \in Nat
        BY <1>3, <1>5, <2>1, NotedFinite
      <4>5. Cardinality(Noted(recent'[c], now)) < MaxPerHour
        BY <1>1, <4>3, <4>4
      <4> QED
        BY <1>1, <3>2, <4>5
    <3>4. CASE call'[v].target # 0
      BY <1>1, <3>2, <3>4
    <3> QED
      BY <3>1, <3>3, <3>4
  <2> QED
    BY <1>9, <2>2, <2>3, <2>4, FetchingStep
<1> QED
  BY <1>8, <1>9 DEF HourInv, now

(* A new row, with its time. *)
LEMMA InsertHour ==
  ASSUME OneListenerEach, BaseInv, HourInv, MaxPerHour > 0,
         NEW w \in Workers, NEW ok1 \in BOOLEAN, NEW ok2 \in BOOLEAN, InsertNew(w, ok1, ok2)
  PROVE  HourInv'
<1> DEFINE k == call[w].key
           n == Len(rows) + 1
           cam == CameraOf[w]
<1>1. /\ Others(w) /\ pc[w] = "insert" /\ pc'[w] = "notify" /\ k[1] = cam
      /\ call[w].target = 0 /\ n \in Nat
      /\ DOMAIN rows' = 1 .. n /\ \A i \in 1 .. Len(rows) : rows'[i] = rows[i]
      /\ rows'[n].key = k /\ rows'[n].start = call[w].start
      /\ clock' = clock
  BY InsertNewEffect
<1>2. /\ clock \in Nat /\ Hour \in Nat /\ MaxPerHour \in Nat
      /\ recent \in [Cameras -> Seq(Nat)] /\ cam \in Cameras
      /\ Len(rows) \in Nat /\ DOMAIN rows = 1 .. Len(rows) /\ clock - Hour \in Int
  BY RowsShape, ConstantsAssumption DEF BaseInv, TypeOK
<1>3. recent' = [recent EXCEPT ![cam] = Append(recent[cam], clock)]
  BY Zenon DEF InsertNew
<1> HIDE DEF k, cam
<1>4. \A c \in Cameras :
        /\ recent[c] \in Seq(Nat)
        /\ c = cam => recent'[c] = Append(recent[c], clock)
        /\ c # cam => recent'[c] = recent[c]
  BY <1>2, <1>3
<1>5. /\ call[w].start + Pre <= clock /\ call[w].start + Pre \in Nat
      /\ Cardinality(Noted(recent[cam], clock - Hour)) < MaxPerHour
  <2>1. Began(w) = call[w].start + Pre /\ pc[w] \in Fetching
    BY <1>1 DEF Began, Fetching
  <2>2. Began(w) \in Nat
    BY Types
  <2> QED
    BY <1>1, <2>1, <2>2 DEF HourInv, cam
<1>6. ASSUME NEW c \in Cameras
      PROVE  /\ Cardinality(Noted(recent'[c], clock - Hour)) <= MaxPerHour
             /\ \A t \in Int : t >= clock - Hour =>
                  Cardinality(Late(rows', c, t)) <= Cardinality(Noted(recent'[c], t))
  <2>1. /\ Cardinality(Noted(recent[c], clock - Hour)) <= MaxPerHour
        /\ \A t \in Int : t >= clock - Hour =>
             Cardinality(Late(rows, c, t)) <= Cardinality(Noted(recent[c], t))
    BY DEF HourInv
  <2>2. CASE c # cam
    <3>1. ASSUME NEW t PROVE Late(rows', c, t) = Late(rows, c, t)
      <4>1. Late(rows', c, t) = {i \in 1 .. n : rows'[i].key[1] = c /\ rows'[i].start + Pre >= t}
        BY <1>1 DEF Late
      <4>2. Late(rows, c, t) = {i \in 1 .. Len(rows) :
                                  rows[i].key[1] = c /\ rows[i].start + Pre >= t}
        BY <1>2 DEF Late
      <4>3. rows'[n].key[1] # c
        BY <1>1, <2>2
      <4>4. \A i \in 1 .. n : i \in 1 .. Len(rows) \/ i = n
        BY <1>2
      <4>5. \A i \in 1 .. Len(rows) : i \in 1 .. n
        BY <1>2
      <4> HIDE DEF n
      <4> QED
        BY <1>1, <4>1, <4>2, <4>3, <4>4, <4>5
    <3> QED
      BY <1>4, <2>1, <2>2, <3>1
  <2>3. CASE c = cam
    <3>1. Cardinality(Noted(recent[c], clock - Hour)) \in Nat
      BY <1>2, <1>4, NotedFinite
    <3>2. Cardinality(Noted(recent'[c], clock - Hour))
            = Cardinality(Noted(recent[c], clock - Hour)) + 1
      <4>1. clock >= clock - Hour
        BY <1>2
      <4> QED
        BY <1>2, <1>4, <2>3, <4>1, AppendedCount
    <3>3. Cardinality(Noted(recent'[c], clock - Hour)) <= MaxPerHour
      BY <1>2, <1>5, <2>3, <3>1, <3>2
    <3>4. ASSUME NEW t \in Int, t >= clock - Hour
          PROVE  Cardinality(Late(rows', c, t)) <= Cardinality(Noted(recent'[c], t))
      <4> DEFINE L == Late(rows, c, t)
                 began == call[w].start + Pre
      <4>1. Late(rows', c, t) = IF began >= t THEN L \cup {n} ELSE L
        <5>1. Late(rows', c, t) = {i \in 1 .. n : rows'[i].key[1] = c /\ rows'[i].start + Pre >= t}
          BY <1>1 DEF Late
        <5>2. L = {i \in 1 .. Len(rows) : rows[i].key[1] = c /\ rows[i].start + Pre >= t}
          BY <1>2 DEF Late
        <5>3. rows'[n].key[1] = c /\ rows'[n].start + Pre = began
          BY <1>1, <2>3
        <5>4. \A i \in 1 .. n : i \in 1 .. Len(rows) \/ i = n
          BY <1>2
        <5>5. n \in 1 .. n /\ \A i \in 1 .. Len(rows) : i \in 1 .. n
          BY <1>2
        <5> HIDE DEF n, L, began
        <5> QED
          BY <1>1, <5>1, <5>2, <5>3, <5>4, <5>5
      <4>2. IsFiniteSet(L) /\ Cardinality(L) \in Nat
        BY LateFinite
      <4>3. n \notin L
        BY <1>2 DEF Late
      <4>4. Cardinality(L \cup {n}) = Cardinality(L) + 1
        <5> HIDE DEF L, n
        <5> QED
          BY <4>2, <4>3, FS_AddElement
      <4>5. Cardinality(Noted(recent'[c], t))
              = Cardinality(Noted(recent[c], t)) + (IF clock >= t THEN 1 ELSE 0)
        <5>1. recent'[c] = Append(recent[c], clock) /\ recent[c] \in Seq(Nat) /\ clock \in Nat
          BY <1>2, <1>4, <2>3
        <5> QED
          BY <5>1, AppendedCount
      <4>6. /\ Cardinality(L) <= Cardinality(Noted(recent[c], t))
            /\ Cardinality(Noted(recent[c], t)) \in Nat
        BY <1>4, <2>1, <3>4, NotedFinite
      <4>7. began <= clock /\ began \in Nat
        BY <1>5
      <4> HIDE DEF L, began
      <4> QED
        BY <1>2, <4>1, <4>2, <4>4, <4>5, <4>6, <4>7
    <3> QED
      BY <3>3, <3>4
  <2> QED
    BY <2>2, <2>3
<1>7. ASSUME NEW v \in Workers, pc'[v] \in Fetching
      PROVE  /\ Began(v)' <= clock
             /\ call'[v].target = 0 =>
                  Cardinality(Noted(recent'[CameraOf[v]], clock - Hour)) < MaxPerHour
  <2>1. v # w
    BY <1>1, <1>7 DEF Fetching
  <2>2. pc'[v] = pc[v] /\ call'[v] = call[v]
    BY <1>1, <2>1 DEF Others
  <2>3. Began(v)' = Began(v)
    BY <1>1, <2>2 DEF Began
  <2>4. CameraOf[v] # cam /\ CameraOf[v] \in Cameras
    BY <2>1, ConstantsAssumption DEF OneListenerEach, cam
  <2> QED
    BY <1>4, <1>7, <2>2, <2>3, <2>4 DEF HourInv
<1> QED
  BY <1>1, <1>6, <1>7 DEF HourInv

(* Every step keeps as many times as rows in every hour that ends now or   *)
(* later.                                                                  *)
LEMMA HourStep ==
  ASSUME OneListenerEach, MaxPerHour > 0, BaseInv, MemoryInv, HourInv, [Next]_vars
  PROVE  HourInv'
<1>1. CASE RowsSame /\ recent' = recent
  BY <1>1, QuietHour
<1>2. CASE \E w \in Workers : RowsSame /\ Prune(CameraOf[w]) /\ clock' = clock
  BY <1>2, QuietHour
<1>3. CASE \E w \in Workers, ok1, ok2 \in BOOLEAN : InsertNew(w, ok1, ok2)
  BY <1>3, InsertHour
<1> QED
  BY <1>1, <1>2, <1>3, HourKinds

(* At the start there is neither a row nor a time. *)
LEMMA InitHour ==
  ASSUME Init, MaxPerHour > 0
  PROVE  HourInv
<1>1. /\ rows = <<>> /\ recent = [c \in Cameras |-> <<>>] /\ pc = [w \in Workers |-> "idle"]
  BY DEF Init
<1>2. \A c \in Cameras : \A t : Noted(recent[c], t) = {} /\ Late(rows, c, t) = {}
  BY <1>1 DEF Noted, Late
<1>3. Cardinality({}) = 0 /\ MaxPerHour \in Nat
  BY FS_EmptySet, ConstantsAssumption
<1>4. \A w \in Workers : pc[w] \notin Fetching
  BY <1>1 DEF Fetching
<1>5. \A c \in Cameras : \A t :
        /\ Cardinality(Noted(recent[c], t)) = 0
        /\ Cardinality(Late(rows, c, t)) = 0
  BY <1>2, <1>3, Zenon
<1> QED
  BY <1>3, <1>4, <1>5 DEF HourInv

(* No hour that ends now holds more rows of a camera than                  *)
(* max_events_per_hour_, though the check and the count are in different   *)
(* lock sections and the times are pruned, if one worker listens to each   *)
(* camera.                                                                 *)
THEOREM HourlyLimitHolds ==
  ASSUME OneListenerEach
  PROVE  Spec => []HourlyLimit
<1>1. CASE MaxPerHour > 0
  <2> DEFINE Inv == BaseInv /\ MemoryInv /\ HourInv
  <2>1. Init => Inv
    BY <1>1, InitEpisodes, InitHour DEF EpisodesInv
  <2>2. Inv /\ [Next]_vars => Inv'
    BY <1>1, NextBase, MemoryStep, HourStep
  <2>3. Inv => HourlyLimit
    <3> SUFFICES ASSUME BaseInv, HourInv, NEW c \in Cameras
                 PROVE  Cardinality({i \in DOMAIN rows :
                                       /\ rows[i].key[1] = c
                                       /\ rows[i].start + Pre >= clock - Hour}) <= MaxPerHour
      BY DEF HourlyLimit
    <3>1. {i \in DOMAIN rows : rows[i].key[1] = c /\ rows[i].start + Pre >= clock - Hour}
            = Late(rows, c, clock - Hour)
      BY DEF Late
    <3>2. clock - Hour \in Int /\ clock - Hour >= clock - Hour /\ MaxPerHour \in Nat
      BY ConstantsAssumption DEF BaseInv, TypeOK
    <3>3. /\ Cardinality(Late(rows, c, clock - Hour)) \in Nat
          /\ Cardinality(Noted(recent[c], clock - Hour)) \in Nat
      <4>1. recent[c] \in Seq(Nat)
        BY DEF BaseInv, TypeOK
      <4> QED
        BY <3>2, <4>1, LateFinite, NotedFinite
    <3>4. /\ Cardinality(Noted(recent[c], clock - Hour)) <= MaxPerHour
          /\ Cardinality(Late(rows, c, clock - Hour))
               <= Cardinality(Noted(recent[c], clock - Hour))
      BY <3>2 DEF HourInv
    <3>5. Cardinality(Late(rows, c, clock - Hour)) <= MaxPerHour
      BY <3>2, <3>3, <3>4
    <3> QED
      BY <3>1, <3>5, Zenon
  <2> HIDE DEF Inv
  <2> QED
    BY <2>1, <2>2, <2>3, PTL DEF Spec
<1>2. CASE ~ (MaxPerHour > 0)
  <2>1. HourlyLimit
    BY <1>2 DEF HourlyLimit
  <2> QED
    BY <2>1, PTL
<1> QED
  BY <1>1, <1>2

-----------------------------------------------------------------------------
(***************************************************************************)
(* Rows and what the camera reports: one worker per camera, no end hidden. *)
(***************************************************************************)

(* Suppression is silence, but for Initialized. *)
LEMMA SuppressedIsMuted ==
  ASSUME NEW c, NEW t, NEW op
  PROVE  Suppressed(c, t, op) <=> op # "Initialized" /\ Muted(aiCapable, cellMotion, c, t)
BY DEF Suppressed, Muted

(* The open rows after a step of a worker: the key of a call that ends is  *)
(* closed, and only the key of an admitted call is opened.                 *)
LEMMA OpenStep ==
  ASSUME BaseInv, NEW w \in Workers, Proceed(w), NEW k \in Keys, open'[k] # 0
  PROVE  /\ pc[w] = "finish" => call[w].key # k
         /\ \/ open[k] # 0
            \/ /\ pc[w] \in Fetching \cup {"admit"}
               /\ call[w].key = k /\ CameraOf[w] = k[1]
<1> DEFINE q == call[w].key
           Goal == /\ pc[w] = "finish" => q # k
                   /\ \/ open[k] # 0
                      \/ /\ pc[w] \in Fetching \cup {"admit"}
                         /\ q = k /\ CameraOf[w] = k[1]
<1> SUFFICES Goal
  OBVIOUS
<1>1. CASE Reopen(w)
  <2>1. /\ pc[w] = "admit" /\ q[1] = CameraOf[w]
        /\ \A p \in Keys : p # q => open'[p] = open[p]
    BY <1>1, ReopenEffect
  <2> HIDE DEF q
  <2> QED
    BY <2>1
<1>2. ASSUME NEW ok1 \in BOOLEAN, NEW ok2 \in BOOLEAN, InsertNew(w, ok1, ok2)
      PROVE  Goal
  <2>1. /\ pc[w] = "insert" /\ q[1] = CameraOf[w]
        /\ \A p \in Keys : p # q => open'[p] = open[p]
    BY <1>2, InsertNewEffect
  <2> HIDE DEF q
  <2> QED
    BY <2>1 DEF Fetching
<1>3. ASSUME NEW ok \in BOOLEAN, Finish(w, ok)
      PROVE  Goal
  <2>1. open'[q] = 0 /\ \A p \in Keys : p # q => open'[p] = open[p]
    BY <1>3, FinishEffect
  <2> HIDE DEF q
  <2> QED
    BY <2>1
<1>4. CASE FinishUnknown(w)
  <2>1. open[q] = 0 /\ open' = open
    BY <1>4 DEF FinishUnknown, recorderVars
  <2> QED
    BY <2>1
<1>5. CASE \/ MergeIntoOpen(w) \/ RateLimit(w) \/ AdmitNew(w)
           \/ MsrStores(w) \/ MsrFails(w) \/ FillBurstCache(w) \/ Notify(w)
           \/ \E picture \in BOOLEAN, label \in ObjectTypes : Fetch(w, picture, label)
           \/ \E ok \in Outcomes : InsertMerged(w, ok)
  <2>1. open' = open /\ pc[w] # "finish"
    BY <1>5 DEF MergeIntoOpen, RateLimit, AdmitNew, MsrStores, MsrFails, FillBurstCache, Notify,
       Fetch, InsertMerged, Admitted, Return, Goto, recorderVars
  <2> QED
    BY <2>1
<1>6. Outcomes \subseteq BOOLEAN
  BY Zenon DEF Outcomes
<1> HIDE DEF Goal
<1>7. CASE \E ok1, ok2 \in Outcomes : InsertNew(w, ok1, ok2)
  BY <1>2, <1>6, <1>7
<1>8. CASE \E ok \in Outcomes : Finish(w, ok)
  BY <1>3, <1>6, <1>8
<1> QED
  BY <1>1, <1>4, <1>5, <1>7, <1>8, Zenon DEF Proceed

(* A worker with an event in hand hears nothing meanwhile. *)
LEMMA ProceedHeard ==
  ASSUME BaseInv, HeardInv, [Next]_vars, NEW w \in Workers, Proceed(w)
  PROVE  HeardInv'
<1>1. /\ Others(w) /\ pc'[w] # "admit" /\ aiCapable' = aiCapable
      /\ level' = level /\ cellMotion' = cellMotion
  BY ProceedOthers
<1>2. \A v \in Workers : \A k :
        HeardIn(level'[v], aiCapable', cellMotion', CameraOf[v], k)
          <=> HeardIn(level[v], aiCapable, cellMotion, CameraOf[v], k)
  BY <1>1
<1>3. ASSUME NEW v \in Workers, pc'[v] \in Fetching \cup {"admit"}
      PROVE  HeardIn(level'[v], aiCapable', cellMotion', CameraOf[v], call'[v].key)
  <2>1. CASE v # w
    <3>1. pc'[v] = pc[v] /\ call'[v] = call[v]
      BY <1>1, <2>1 DEF Others
    <3> QED
      BY <1>2, <1>3, <3>1 DEF HeardInv
  <2>2. CASE v = w
    <3>1. pc'[v] \in Fetching
      BY <1>1, <1>3, <2>2
    <3>2. call'[v].key = call[v].key /\ pc[v] \in Fetching \cup {"admit"}
      BY <3>1, FetchingStep
    <3> QED
      BY <1>2, <3>2 DEF HeardInv
  <2> QED
    BY <2>1, <2>2
<1>4. ASSUME NEW k \in Keys, open'[k] # 0
      PROVE  \E v \in Workers :
               /\ CameraOf[v] = k[1]
               /\ \/ HeardIn(level'[v], aiCapable', cellMotion', CameraOf[v], k)
                  \/ pc'[v] = "finish" /\ call'[v].key = k
  <2>1. /\ pc[w] = "finish" => call[w].key # k
        /\ \/ open[k] # 0
           \/ /\ pc[w] \in Fetching \cup {"admit"}
              /\ call[w].key = k /\ CameraOf[w] = k[1]
    BY <1>4, OpenStep
  <2>2. CASE pc[w] \in Fetching \cup {"admit"} /\ call[w].key = k /\ CameraOf[w] = k[1]
    BY <1>2, <2>2 DEF HeardInv
  <2>3. CASE open[k] # 0
    <3>1. PICK v \in Workers :
            /\ CameraOf[v] = k[1]
            /\ \/ HeardIn(level[v], aiCapable, cellMotion, CameraOf[v], k)
               \/ pc[v] = "finish" /\ call[v].key = k
      BY <2>3 DEF HeardInv
    <3>2. CASE v # w
      BY <1>1, <1>2, <3>1, <3>2 DEF Others
    <3>3. CASE v = w
      BY <1>2, <2>1, <3>1, <3>3
    <3> QED
      BY <3>2, <3>3
  <2> QED
    BY <2>1, <2>2, <2>3
<1>5. \A c \in aiCapable' : ~ (Emitted[c] \subseteq {"cell", "alarm"})
  BY <1>1 DEF HeardInv
<1> QED
  BY <1>3, <1>4, <1>5 DEF HeardInv

(* What an event leaves of what its camera is known to do. *)
LEMMA MarksKept ==
  ASSUME NEW c \in Cameras, NEW t \in Emitted[c], NEW op, Marks(c, t, op)
  PROVE  /\ \A d \in Cameras : d # c =>
              (d \in aiCapable' <=> d \in aiCapable) /\ (d \in cellMotion' <=> d \in cellMotion)
         /\ t \notin AiTopics => aiCapable' = aiCapable
         /\ t # "cell" => cellMotion' = cellMotion
         /\ \A d \in aiCapable' : d \in aiCapable \/ (d = c /\ t \in AiTopics)
BY DEF Marks

(* What is heard of the other cameras does not change. *)
LEMMA OthersHeard ==
  ASSUME OneListenerEach, NEW w \in Workers, NEW t \in Emitted[CameraOf[w]], NEW op,
         Marks(CameraOf[w], t, op) \/ UNCHANGED <<aiCapable, cellMotion>>,
         NEW v \in Workers, v # w, level'[v] = level[v], NEW k
  PROVE  HeardIn(level'[v], aiCapable', cellMotion', CameraOf[v], k)
           <=> HeardIn(level[v], aiCapable, cellMotion, CameraOf[v], k)
<1> DEFINE c == CameraOf[w]
           d == CameraOf[v]
<1>1. c \in Cameras /\ d \in Cameras /\ d # c
  BY ConstantsAssumption DEF OneListenerEach
<1>2. (d \in aiCapable' <=> d \in aiCapable) /\ (d \in cellMotion' <=> d \in cellMotion)
  BY <1>1, MarksKept
<1> HIDE DEF d
<1> QED
  BY <1>2 DEF HeardIn, Muted, d

(* Events that begin no call: a suppressed one, or one without its state. *)
LEMMA UnheardHeard ==
  ASSUME OneListenerEach, NoEndHidden, BaseInv, HeardInv, NEW w \in Workers,
         NEW t \in Emitted[CameraOf[w]], NEW on \in BOOLEAN, NEW op \in Ops,
         Suppress(w, t, on, op) \/ Ignore(w, t, op)
  PROVE  HeardInv'
<1> DEFINE c == CameraOf[w]
<1>1. pc' = pc /\ call' = call /\ open' = open
  BY DEF Suppress, Ignore, recorderVars
<1>2. c \in Cameras /\ t \in Topics /\ level \in [Workers -> [Topics -> BOOLEAN]]
  BY ConstantsAssumption DEF BaseInv, TypeOK
<1>3. \A v \in Workers : v # w => level'[v] = level[v]
  BY <1>2 DEF Suppress, Ignore, Hear
<1>4. Marks(c, t, op) \/ UNCHANGED <<aiCapable, cellMotion>>
  BY DEF Suppress, Ignore, recorderVars
<1>5. ASSUME NEW k, HeardIn(level[w], aiCapable, cellMotion, c, k)
      PROVE  HeardIn(level'[w], aiCapable', cellMotion', c, k)
  <2>1. PICK u \in Emitted[c] : level[w][u] /\ k[2] = TypeOf(c, u)
                                /\ ~Muted(aiCapable, cellMotion, c, u)
    BY <1>5 DEF HeardIn
  <2>2. CASE Suppress(w, t, on, op)
    <3>1. Muted(aiCapable, cellMotion, c, t)
      BY <2>2, SuppressedIsMuted DEF Suppress
    <3>2. u # t /\ u \in Topics
      BY <1>2, <2>1, <3>1, ConstantsAssumption
    <3>3. level'[w][u] = level[w][u] /\ aiCapable' = aiCapable /\ cellMotion' = cellMotion
      BY <1>2, <2>2, <3>2 DEF Suppress, Hear, recorderVars
    <3> QED
      BY <2>1, <3>3 DEF HeardIn
  <2>3. CASE Ignore(w, t, op)
    <3>1. level' = level /\ Marks(c, t, op) /\ t \in Incomplete
      BY <2>3 DEF Ignore
    <3>2. ~Muted(aiCapable', cellMotion', c, u)
      <4>1. CASE Emitted[c] \subseteq AiTopics
        BY <4>1 DEF Muted, AiTopics
      <4>2. CASE Emitted[c] \subseteq {"cell", "alarm"} /\ "cell" \notin Incomplete
        <5>1. t \notin AiTopics /\ t # "cell"
          BY <3>1, <4>2 DEF AiTopics
        <5>2. aiCapable' = aiCapable /\ cellMotion' = cellMotion
          BY <1>2, <3>1, <5>1, MarksKept
        <5> QED
          BY <2>1, <5>2
      <4> QED
        BY <1>2, <4>1, <4>2 DEF NoEndHidden
    <3> QED
      BY <2>1, <3>1, <3>2 DEF HeardIn
  <2> QED
    BY <2>2, <2>3
<1>6. ASSUME NEW v \in Workers, NEW k, HeardIn(level[v], aiCapable, cellMotion, CameraOf[v], k)
      PROVE  HeardIn(level'[v], aiCapable', cellMotion', CameraOf[v], k)
  <2>1. CASE v = w
    BY <1>5, <1>6, <2>1
  <2>2. CASE v # w
    BY <1>3, <1>4, <1>6, <2>2, OthersHeard
  <2> QED
    BY <2>1, <2>2
<1>7. \A d \in aiCapable' : ~ (Emitted[d] \subseteq {"cell", "alarm"})
  <2>1. \A d \in aiCapable' : d \in aiCapable \/ (d = c /\ t \in AiTopics)
    BY <1>2, <1>4, MarksKept
  <2> QED
    BY <2>1 DEF HeardInv, AiTopics
<1> HIDE DEF c
<1>8. ASSUME NEW k \in Keys, open'[k] # 0
      PROVE  \E v \in Workers :
               /\ CameraOf[v] = k[1]
               /\ \/ HeardIn(level'[v], aiCapable', cellMotion', CameraOf[v], k)
                  \/ pc'[v] = "finish" /\ call'[v].key = k
  BY <1>1, <1>6, <1>8 DEF HeardInv
<1>9. ASSUME NEW v \in Workers, pc'[v] \in Fetching \cup {"admit"}
      PROVE  HeardIn(level'[v], aiCapable', cellMotion', CameraOf[v], call'[v].key)
  BY <1>1, <1>6, <1>9 DEF HeardInv
<1> QED
  BY <1>7, <1>8, <1>9 DEF HeardInv

(* An event that is classified: its own key is heard, or its end at hand. *)
LEMMA ReceiveHeard ==
  ASSUME OneListenerEach, NoEndHidden, BaseInv, HeardInv, NEW w \in Workers,
         NEW t \in Emitted[CameraOf[w]], NEW on \in BOOLEAN, NEW op \in Ops,
         Receive(w, t, on, op)
  PROVE  HeardInv'
<1> DEFINE c == CameraOf[w]
           own == <<c, TypeOf(c, t)>>
<1>1. c \in Cameras /\ t \in Topics /\ level \in [Workers -> [Topics -> BOOLEAN]]
  BY ConstantsAssumption DEF BaseInv, TypeOK
<1>2. /\ Others(w) /\ pc[w] = "idle" /\ pc'[w] = (IF on THEN "admit" ELSE "finish")
      /\ call'[w].key = own /\ open' = open
  BY <1>1, ReceiveFacts
<1>3. /\ ~Suppressed(c, t, op) /\ Marks(c, t, op)
      /\ level' = [level EXCEPT ![w][t] = on]
  BY DEF Receive, Hear
<1>4. /\ \A v \in Workers : v # w => level'[v] = level[v]
      /\ level'[w][t] = on
      /\ \A u \in Topics : u # t => level'[w][u] = level[w][u]
  BY <1>1, <1>3
<1>5. \/ Emitted[c] \subseteq AiTopics
      \/ /\ Emitted[c] \subseteq {"cell", "alarm"} /\ op = "Changed"
         /\ c \notin aiCapable
  BY <1>1 DEF NoEndHidden, HeardInv
<1>6. on => HeardIn(level'[w], aiCapable', cellMotion', c, own)
  <2>1. ~Muted(aiCapable', cellMotion', c, t)
    <3>1. CASE Emitted[c] \subseteq AiTopics
      BY <3>1 DEF Muted, AiTopics
    <3>2. CASE /\ Emitted[c] \subseteq {"cell", "alarm"} /\ op = "Changed"
               /\ c \notin aiCapable
      <4>1. t \notin AiTopics
        BY <3>2 DEF AiTopics
      <4>2. aiCapable' = aiCapable /\ (t # "cell" => cellMotion' = cellMotion)
        BY <1>1, <1>3, <4>1, MarksKept
      <4>3. ~Muted(aiCapable, cellMotion, c, t)
        BY <1>3, <3>2, SuppressedIsMuted
      <4> QED
        BY <3>2, <4>2, <4>3 DEF Muted
    <3> QED
      BY <1>5, <3>1, <3>2
  <2>2. own[2] = TypeOf(c, t)
    OBVIOUS
  <2> HIDE DEF own, c
  <2>3. t \in Emitted[c]
    BY DEF c
  <2> QED
    BY <1>4, <2>1, <2>2, <2>3 DEF HeardIn
<1>7. ASSUME NEW k \in Keys, k[1] = c, k # own, HeardIn(level[w], aiCapable, cellMotion, c, k)
      PROVE  HeardIn(level'[w], aiCapable', cellMotion', c, k)
  <2>1. PICK u \in Emitted[c] : level[w][u] /\ k[2] = TypeOf(c, u)
    BY <1>7 DEF HeardIn
  <2>2. k = <<c, TypeOf(c, u)>>
    BY <1>7, <2>1 DEF Keys
  <2>3. u \in Topics /\ u # t
    BY <1>1, <1>7, <2>2, ConstantsAssumption
  <2>4. CASE Emitted[c] \subseteq AiTopics
    <3>1. ~Muted(aiCapable', cellMotion', c, u)
      BY <2>4 DEF Muted, AiTopics
    <3>2. level'[w][u]
      BY <1>4, <2>1, <2>3
    <3> QED
      BY <2>1, <3>1, <3>2 DEF HeardIn
  <2>5. CASE Emitted[c] \subseteq {"cell", "alarm"}
    <3>1. TypeOf(c, u) = TypeOf(c, t)
      BY <2>5 DEF TypeOf
    <3> QED
      BY <1>7, <2>2, <3>1
  <2> QED
    BY <1>5, <2>4, <2>5
<1>8. ASSUME NEW v \in Workers, v # w, NEW k
      PROVE  HeardIn(level'[v], aiCapable', cellMotion', CameraOf[v], k)
               <=> HeardIn(level[v], aiCapable, cellMotion, CameraOf[v], k)
  BY <1>3, <1>4, <1>8, OthersHeard
<1>9. \A d \in aiCapable' : ~ (Emitted[d] \subseteq {"cell", "alarm"})
  <2>1. \A d \in aiCapable' : d \in aiCapable \/ (d = c /\ t \in AiTopics)
    BY <1>1, <1>3, MarksKept
  <2> QED
    BY <2>1 DEF HeardInv, AiTopics
<1> HIDE DEF own
<1>10. ASSUME NEW v \in Workers, pc'[v] \in Fetching \cup {"admit"}
       PROVE  HeardIn(level'[v], aiCapable', cellMotion', CameraOf[v], call'[v].key)
  <2>1. CASE v # w
    <3>1. pc'[v] = pc[v] /\ call'[v] = call[v]
      BY <1>2, <2>1 DEF Others
    <3> QED
      BY <1>8, <1>10, <2>1, <3>1 DEF HeardInv
  <2>2. CASE v = w
    <3>1. on
      BY <1>2, <1>10, <2>2 DEF Fetching
    <3> QED
      BY <1>2, <1>6, <2>2, <3>1
  <2> QED
    BY <2>1, <2>2
<1>11. ASSUME NEW k \in Keys, open'[k] # 0
       PROVE  \E v \in Workers :
                /\ CameraOf[v] = k[1]
                /\ \/ HeardIn(level'[v], aiCapable', cellMotion', CameraOf[v], k)
                   \/ pc'[v] = "finish" /\ call'[v].key = k
  <2>1. PICK v \in Workers :
          /\ CameraOf[v] = k[1]
          /\ \/ HeardIn(level[v], aiCapable, cellMotion, CameraOf[v], k)
             \/ pc[v] = "finish" /\ call[v].key = k
    BY <1>2, <1>11 DEF HeardInv
  <2>2. CASE v # w
    <3>1. pc'[v] = pc[v] /\ call'[v] = call[v]
      BY <1>2, <2>2 DEF Others
    <3> QED
      BY <1>8, <2>1, <2>2, <3>1
  <2>3. CASE v = w
    <3>1. HeardIn(level[w], aiCapable, cellMotion, c, k) /\ k[1] = c
      BY <1>2, <2>1, <2>3
    <3>2. CASE k = own
      BY <1>2, <1>6, <2>1, <2>3, <3>2
    <3>3. CASE k # own
      BY <1>7, <2>1, <2>3, <3>1, <3>3
    <3> QED
      BY <3>2, <3>3
  <2> QED
    BY <2>2, <2>3
<1> QED
  BY <1>9, <1>10, <1>11 DEF HeardInv

(* Every step keeps open what was heard and closes what was heard to end. *)
LEMMA HeardStep ==
  ASSUME OneListenerEach, NoEndHidden, BaseInv, HeardInv, [Next]_vars
  PROVE  HeardInv'
<1>1. CASE UNCHANGED vars \/ Tick
  <2>1. UNCHANGED <<level, pc, call, open, aiCapable, cellMotion>>
    BY <1>1 DEF vars, recorderVars, Tick
  <2> QED
    BY <2>1, Zenon DEF HeardInv
<1>2. ASSUME NEW w \in Workers, NEW t \in Emitted[CameraOf[w]], NEW op \in Ops,
             \/ Ignore(w, t, op)
             \/ \E on \in BOOLEAN : Suppress(w, t, on, op) \/ Receive(w, t, on, op)
      PROVE  HeardInv'
  <2>1. CASE Ignore(w, t, op)
    <3>1. PICK on \in BOOLEAN : on = TRUE
      OBVIOUS
    <3> QED
      BY <2>1, UnheardHeard
  <2>2. CASE \E on \in BOOLEAN : Suppress(w, t, on, op)
    BY <2>2, UnheardHeard
  <2>3. CASE \E on \in BOOLEAN : Receive(w, t, on, op)
    BY <2>3, ReceiveHeard
  <2> QED
    BY <1>2, <2>1, <2>2, <2>3
<1>3. ASSUME NEW w \in Workers, Proceed(w)
      PROVE  HeardInv'
  BY <1>3, ProceedHeard
<1> QED
  BY <1>1, <1>2, <1>3, Zenon DEF Next

(* What is heard, beside the types. *)
THEOREM HeardInvariant ==
  ASSUME OneListenerEach, NoEndHidden
  PROVE  Spec => [](BaseInv /\ HeardInv)
<1>1. Init => BaseInv /\ HeardInv
  <2> SUFFICES ASSUME Init PROVE BaseInv /\ HeardInv
    OBVIOUS
  <2>1. /\ open = [k \in Keys |-> 0] /\ pc = [w \in Workers |-> "idle"] /\ aiCapable = {}
    BY DEF Init
  <2> QED
    BY <2>1, InitBase DEF HeardInv, Fetching
<1>2. BaseInv /\ HeardInv /\ [Next]_vars => (BaseInv /\ HeardInv)'
  BY NextBase, HeardStep
<1> QED
  BY <1>1, <1>2, PTL DEF Spec

(* A key is open only while the camera reports a detection of it           *)
(* (DetectionRecorder::on_event): for cameras with AI events only and for  *)
(* those with basic motion only, whichever types their topics share.       *)
THEOREM OpenWhileActiveHolds ==
  ASSUME OneListenerEach, NoEndHidden
  PROVE  Spec => []OpenWhileActive
<1>1. BaseInv /\ HeardInv => OpenWhileActive
  <2> SUFFICES ASSUME HeardInv, NEW k \in Keys, open[k] # 0,
                      \A w \in {v \in Workers : CameraOf[v] = k[1]} : pc[w] = "idle"
               PROVE  \E w \in {v \in Workers : CameraOf[v] = k[1]}, t \in Emitted[k[1]] :
                        level[w][t] /\ k[2] = TypeOf(k[1], t)
    BY DEF OpenWhileActive
  <2>1. PICK w \in Workers :
          /\ CameraOf[w] = k[1]
          /\ \/ HeardIn(level[w], aiCapable, cellMotion, CameraOf[w], k)
             \/ pc[w] = "finish" /\ call[w].key = k
    BY DEF HeardInv
  <2>2. pc[w] = "idle"
    BY <2>1
  <2> QED
    BY <2>1, <2>2 DEF HeardIn
<1> QED
  BY <1>1, HeardInvariant, PTL

(* "end ... NULL while active" (detection_recorder.hpp:98): a row without  *)
(* an end belongs to a detection the camera still reports.                 *)
THEOREM NullWhileActiveHolds ==
  ASSUME OneListenerEach, NoEndHidden, Coalescing, DbFaults = FALSE
  PROVE  Spec => []NullWhileActive
<1>1. BaseInv /\ OpenWhileActive /\ OpenRowsTracked => NullWhileActive
  <2> SUFFICES ASSUME BaseInv, OpenWhileActive, OpenRowsTracked, NEW i \in DOMAIN rows,
                      Unfinished(i),
                      \A w \in {v \in Workers : CameraOf[v] = rows[i].key[1]} : pc[w] = "idle"
               PROVE  \E w \in {v \in Workers : CameraOf[v] = rows[i].key[1]},
                         t \in Emitted[rows[i].key[1]] :
                           level[w][t] /\ rows[i].key[2] = TypeOf(rows[i].key[1], t)
    BY DEF NullWhileActive
  <2>1. rows[i].key \in Keys /\ i # 0
    BY RowsShape
  <2>2. open[rows[i].key] # 0
    BY <2>1 DEF OpenRowsTracked
  <2> QED
    BY <2>1, <2>2 DEF OpenWhileActive
<1>2. Spec => [](BaseInv /\ OpenWhileActive /\ OpenRowsTracked)
  BY HeardInvariant, OpenWhileActiveHolds, OpenRowsTrackedHolds, PTL
<1> QED
  BY <1>1, <1>2, PTL
=============================================================================
