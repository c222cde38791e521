---------------------- MODULE ListenerSupervisorProofs ----------------------
(***************************************************************************)
(* Theorems of ListenerSupervisor, for any finite number of cameras.       *)
(***************************************************************************)
EXTENDS ListenerSupervisor, FiniteSetTheorems, SequenceTheorems, TLAPS

(* The cameras that are listed, have left the queue or are still in it, in *)
(* the order in which they came.                                           *)
Line == cameras \o (batch \o pending)

Distinct(s) == \A i, j \in DOMAIN s : s[i] = s[j] => i = j

(* A camera enters the line once: what is in it is known, and the rescan   *)
(* thread only brings what is not.                                         *)
LineInv == /\ Distinct(Line)
           /\ \A i \in DOMAIN Line : Line[i] \in known
           /\ \A c \in fresh : c \notin known

(* What the places of the two threads say of the rest.                     *)
PlaceInv == /\ at = "load" => scan = "sleep" /\ cameras = <<>> /\ batch = <<>> /\ pending = <<>>
            /\ at \in {"load", "ready"} => workers = <<>>
            /\ at \in {"load", "ready", "watch"} => joined = 0
            /\ scan # "hand" => fresh = {}

(* The workers are those of the listed cameras, in their order.            *)
WorkersInv == at \notin {"load", "ready"} =>
                /\ Len(workers) = Len(cameras)
                /\ \A i \in DOMAIN workers : workers[i].camera = cameras[i]

SupervisorInv == TypeOK /\ PlaceInv /\ LineInv /\ WorkersInv

WorkerRecords == [camera : Cameras, finished : BOOLEAN,
                  config : {"listed", "batch", "gone"}]

(* An order of a finite set of cameras names each of them once. *)
LEMMA OrderProperties ==
  ASSUME NEW S \in SUBSET Cameras, NEW order \in SetToSeqs(S)
  PROVE  /\ order \in Seq(Cameras)
         /\ Distinct(order)
         /\ \A i \in DOMAIN order : order[i] \in S
<1>1. IsFiniteSet(S)
  BY CamerasAssumption, FS_Subset
<1>2. Cardinality(S) \in Nat
  BY <1>1, FS_CardinalityType
<1>3. order \in [1 .. Cardinality(S) -> S]
  BY DEF SetToSeqs
<1>4. order \in Seq(S)
  BY <1>2, <1>3
<1>5. order \in Seq(Cameras)
  BY <1>4, SeqMonotonic
<1> QED
  BY <1>3, <1>5 DEF SetToSeqs, Distinct

(* Moving the head of the batch to the listed cameras leaves the line as   *)
(* it was.                                                                 *)
LEMMA SpawnKeepsLine ==
  ASSUME NEW cs \in Seq(Cameras), NEW b \in Seq(Cameras), NEW p \in Seq(Cameras), b # <<>>
  PROVE  Append(cs, Head(b)) \o (Tail(b) \o p) = cs \o (b \o p)
<1>1. /\ Head(b) \in Cameras /\ Tail(b) \in Seq(Cameras)
      /\ b = <<Head(b)>> \o Tail(b)
  BY HeadTailProperties
<1>2. <<Head(b)>> \in Seq(Cameras)
  BY <1>1
<1> DEFINE h == <<Head(b)>>
           t == Tail(b)
<1>3. h \in Seq(Cameras) /\ t \in Seq(Cameras) /\ b = h \o t
  BY <1>1, <1>2
<1>4. Append(cs, Head(b)) = cs \o h
  BY <1>1, AppendIsConcat
<1> HIDE DEF h, t
<1>5. b \o p = h \o (t \o p)
  BY <1>3, ConcatAssociative
<1>6. t \o p \in Seq(Cameras)
  BY <1>3, ConcatProperties
<1>7. (cs \o h) \o (t \o p) = cs \o (h \o (t \o p))
  BY <1>3, <1>6, ConcatAssociative
<1> QED
  BY <1>4, <1>5, <1>7 DEF t

(* What is put at the end of the queue is put at the end of the line.      *)
LEMMA HandOverAppends ==
  ASSUME NEW cs \in Seq(Cameras), NEW b \in Seq(Cameras), NEW p \in Seq(Cameras),
         NEW c \in Cameras
  PROVE  cs \o (b \o Append(p, c)) = Append(cs \o (b \o p), c)
<1>1. /\ b \o p \in Seq(Cameras) /\ cs \o (b \o p) \in Seq(Cameras)
      /\ <<c>> \in Seq(Cameras)
  BY ConcatProperties
<1>2. Append(p, c) = p \o <<c>> /\ Append(cs \o (b \o p), c) = (cs \o (b \o p)) \o <<c>>
  BY <1>1, AppendIsConcat
<1>3. b \o (p \o <<c>>) = (b \o p) \o <<c>>
  BY <1>1, ConcatAssociative
<1>4. cs \o ((b \o p) \o <<c>>) = (cs \o (b \o p)) \o <<c>>
  BY <1>1, ConcatAssociative
<1> QED
  BY <1>2, <1>3, <1>4

(* What happens to a worker does not change its camera. *)
LEMMA RecordProperties ==
  ASSUME NEW r \in WorkerRecords
  PROVE  /\ [r EXCEPT !.config = "gone"] \in WorkerRecords
         /\ [r EXCEPT !.config = "gone"].camera = r.camera
         /\ [r EXCEPT !.finished = TRUE] \in WorkerRecords
         /\ [r EXCEPT !.finished = TRUE].camera = r.camera
BY DEF WorkerRecords

(* Nor does ending references, for any of them. *)
LEMMA ReferringProperties ==
  ASSUME NEW ws \in Seq(WorkerRecords), NEW moved \in BOOLEAN, NEW over \in BOOLEAN
  PROVE  /\ Referring(ws, moved, over) \in Seq(WorkerRecords)
         /\ Len(Referring(ws, moved, over)) = Len(ws)
         /\ \A i \in DOMAIN ws : Referring(ws, moved, over)[i].camera = ws[i].camera
<1> DEFINE after(i) == IF (moved /\ ws[i].config = "listed") \/ (over /\ ws[i].config = "batch")
                       THEN [ws[i] EXCEPT !.config = "gone"] ELSE ws[i]
<1>1. ASSUME NEW i \in 1 .. Len(ws)
      PROVE  after(i) \in WorkerRecords /\ after(i).camera = ws[i].camera
  <2> DEFINE r == ws[i]
             ended == [r EXCEPT !.config = "gone"]
  <2>1. r \in WorkerRecords
    BY ElementOfSeq
  <2> HIDE DEF r
  <2>2. ended \in WorkerRecords /\ ended.camera = r.camera
    BY <2>1, RecordProperties
  <2> HIDE DEF ended
  <2>3. after(i) = ended \/ after(i) = r
    BY Zenon DEF r, ended
  <2> QED
    BY <2>1, <2>2, <2>3 DEF r
<1>2. Referring(ws, moved, over) = [i \in 1 .. Len(ws) |-> after(i)]
  BY Zenon, LenProperties DEF Referring
<1> HIDE DEF after
<1> QED
  BY <1>1, <1>2

-----------------------------------------------------------------------------
(* Whether the poller runs is decided once, with the other threads. *)
LEMMA LoadTyped == ASSUME Load PROVE polling' \in BOOLEAN
BY SMT DEF Load

(* The variables of a step that nobody counts on elsewhere keep their types. *)
LEMMA FlagsTyped ==
  ASSUME TypeOK, [Next]_vars
  PROVE  /\ running' \in BOOLEAN /\ late' \in BOOLEAN /\ rescanning' \in BOOLEAN
         /\ polling' \in BOOLEAN /\ cancelled' \in BOOLEAN /\ handling' \in BOOLEAN
<1> USE Zenon DEF TypeOK
<1>1. CASE Load
  BY <1>1, LoadTyped DEF Load
<1>2. CASE Run \/ Drain \/ Spawn \/ EndWatch
  BY <1>2 DEF Run, Drain, Spawn, EndWatch, shutdownVars
<1>3. CASE Join \/ Expire \/ Return \/ JoinRescan
  BY <1>3 DEF Join, Expire, Return, JoinRescan, shutdownVars
<1>4. CASE JoinOthers \/ JoinRecovery \/ Handled \/ Stop
  BY <1>4 DEF JoinOthers, JoinRecovery, Handled, Stop, shutdownVars
<1>5. CASE Rescan \/ EndRound \/ EndRescan
  BY <1>5 DEF Rescan, EndRound, EndRescan, shutdownVars
<1>6. CASE \E c \in Cameras : HandOver(c) \/ Adopt(c)
  BY <1>6 DEF HandOver, Adopt, shutdownVars
<1>7. CASE \E i \in DOMAIN workers : Finish(i)
  BY <1>7 DEF Finish, shutdownVars
<1>8. CASE \E t \in Threads : EndThread(t)
  BY <1>8 DEF EndThread
<1>9. CASE UNCHANGED vars
  BY <1>9 DEF vars, shutdownVars
<1> QED
  BY <1>1, <1>2, <1>3, <1>4, <1>5, <1>6, <1>7, <1>8, <1>9 DEF Next, Main, Scan

(* The load of the managed cameras names distinct ones. *)
LEMMA LoadStep == ASSUME SupervisorInv, [Next]_vars, Load PROVE SupervisorInv'
<1> USE DEF SupervisorInv, TypeOK, PlaceInv, LineInv, WorkersInv
<1>1. PICK order \in SetToSeqs(adopted \ Excluded) : cameras' = order
  BY DEF Load
<1>2. /\ cameras' \in Seq(Cameras) /\ Distinct(cameras')
      /\ \A i \in DOMAIN cameras' : cameras'[i] \in adopted
  BY <1>1, OrderProperties
<1>3. Line' = cameras'
  <2>1. batch' = <<>> /\ pending' = <<>>
    BY DEF Load
  <2>2. <<>> \o <<>> = <<>>
    BY ConcatEmptySeq, EmptySeq
  <2> QED
    BY <1>2, <2>1, <2>2, ConcatEmptySeq DEF Line
<1>4. LineInv'
  BY <1>2, <1>3 DEF Load, Distinct
<1>5. TypeOK'
  BY <1>2, FlagsTyped DEF Load, Places
<1> QED
  BY <1>4, <1>5 DEF Load, Places

(* Each camera of the list gets a worker of its own. *)
LEMMA RunStep == ASSUME SupervisorInv, [Next]_vars, Run PROVE SupervisorInv'
<1> USE DEF SupervisorInv, TypeOK, PlaceInv, LineInv, WorkersInv
<1> DEFINE worker(i) == NewWorker(cameras[i], "listed")
<1>1. ASSUME NEW i \in 1 .. Len(cameras)
      PROVE  worker(i) \in WorkerRecords /\ worker(i).camera = cameras[i]
  BY ElementOfSeq DEF NewWorker, WorkerRecords
<1>2. workers' = [i \in 1 .. Len(cameras) |-> worker(i)]
  BY LenProperties DEF Run
<1> HIDE DEF worker
<1>3. /\ workers' \in Seq(WorkerRecords) /\ Len(workers') = Len(cameras)
      /\ \A i \in DOMAIN workers' : workers'[i].camera = cameras[i]
  BY <1>1, <1>2
<1>4. TypeOK'
  BY <1>3, FlagsTyped DEF Run, shutdownVars, Places, WorkerRecords
<1> QED
  BY <1>3, <1>4 DEF Run, shutdownVars, Places, Line

(* Draining moves the queue to the batch, in order. *)
LEMMA DrainStep == ASSUME SupervisorInv, [Next]_vars, Drain PROVE SupervisorInv'
<1> USE DEF SupervisorInv, TypeOK, PlaceInv, LineInv, WorkersInv
<1>1. Line' = Line
  BY ConcatEmptySeq DEF Line, Drain
<1>2. TypeOK'
  BY FlagsTyped DEF Drain, shutdownVars
<1> QED
  BY <1>1, <1>2 DEF Drain, shutdownVars

(* The first of the batch gets a worker and joins the list. *)
LEMMA SpawnStep == ASSUME SupervisorInv, [Next]_vars, Spawn PROVE SupervisorInv'
<1> USE DEF SupervisorInv, TypeOK, PlaceInv, LineInv, WorkersInv
<1>1. Line' = Line
  BY SpawnKeepsLine DEF Line, Spawn
<1>2. /\ Head(batch) \in Cameras /\ Tail(batch) \in Seq(Cameras)
      /\ batch' = Tail(batch) /\ cameras' = Append(cameras, Head(batch))
  BY HeadTailProperties DEF Spawn
<1> DEFINE more == Append(workers, NewWorker(Head(batch), "batch"))
<1>3. /\ more \in Seq(WorkerRecords) /\ Len(more) = Len(cameras')
      /\ \A i \in DOMAIN more : more[i].camera = cameras'[i]
  <2> DEFINE new == NewWorker(Head(batch), "batch")
  <2>1. new \in WorkerRecords /\ new.camera = Head(batch)
    BY <1>2 DEF NewWorker, WorkerRecords
  <2>2. workers \in Seq(WorkerRecords) /\ more = Append(workers, new)
    BY DEF WorkerRecords
  <2> HIDE DEF new, more
  <2>3. Len(workers) = Len(cameras) /\ \A i \in DOMAIN workers : workers[i].camera = cameras[i]
    BY DEF Spawn
  <2> QED
    BY <1>2, <2>1, <2>2, <2>3, AppendProperties, LenProperties
<1> HIDE DEF more
<1>4. /\ workers' \in Seq(WorkerRecords) /\ Len(workers') = Len(cameras')
      /\ \A i \in DOMAIN workers' : workers'[i].camera = cameras'[i]
  <2> DEFINE moved == MovesElements(Len(cameras))
             over == batch' = <<>>
  <2>1. workers' = Referring(more, moved, over)
    BY DEF Spawn, more
  <2>2. moved \in BOOLEAN /\ over \in BOOLEAN
    BY DEF MovesElements
  <2> HIDE DEF moved, over
  <2>3. /\ Referring(more, moved, over) \in Seq(WorkerRecords)
        /\ Len(Referring(more, moved, over)) = Len(more)
        /\ \A i \in DOMAIN more : Referring(more, moved, over)[i].camera = more[i].camera
    BY <1>3, <2>2, ReferringProperties
  <2>4. DOMAIN more = 1 .. Len(more) /\ DOMAIN workers' = 1 .. Len(workers')
    BY <1>3, <2>1, <2>3, LenProperties
  <2> QED
    BY <1>3, <2>1, <2>3, <2>4
<1>5. TypeOK'
  <2>1. cameras' \in Seq(Cameras) /\ batch' \in Seq(Cameras)
    BY <1>2, AppendProperties
  <2>2. joined' \in 0 .. Len(workers')
    BY <1>4, LenProperties DEF Spawn
  <2> QED
    BY <1>4, <2>1, <2>2, FlagsTyped DEF Spawn, shutdownVars, WorkerRecords
<1> QED
  BY <1>1, <1>4, <1>5 DEF Spawn, shutdownVars

(* A fresh camera that is handed over joins the queue as its last. *)
LEMMA HandOverStep ==
  ASSUME SupervisorInv, [Next]_vars, NEW c \in Cameras, HandOver(c) PROVE SupervisorInv'
<1> USE DEF SupervisorInv, TypeOK, PlaceInv, LineInv, WorkersInv
<1>1. /\ Line \in Seq(Cameras) /\ Line' = Append(Line, c)
      /\ pending' \in Seq(Cameras)
  <2>1. batch \o pending \in Seq(Cameras) /\ pending' \in Seq(Cameras)
    BY ConcatProperties, AppendProperties DEF HandOver
  <2>2. Line \in Seq(Cameras)
    BY <2>1, ConcatProperties DEF Line
  <2>3. Line' = cameras \o (batch \o Append(pending, c))
    BY DEF Line, HandOver
  <2>4. cameras \o (batch \o Append(pending, c)) = Append(cameras \o (batch \o pending), c)
    <3>1. cameras \in Seq(Cameras) /\ batch \in Seq(Cameras) /\ pending \in Seq(Cameras)
      OBVIOUS
    <3> HIDE DEF SupervisorInv
    <3> QED
      BY <3>1, HandOverAppends, Zenon
  <2>5. Line' = Append(Line, c)
    BY <2>3, <2>4, Zenon DEF Line
  <2> QED
    BY <2>1, <2>2, <2>5
<1>2. LineInv'
  <2> HIDE DEF TypeOK, PlaceInv, WorkersInv
  <2>1. c \notin known /\ known' = known \cup {c} /\ fresh' = fresh \ {c}
    BY DEF HandOver
  <2>2. /\ Len(Line') = Len(Line) + 1 /\ Line'[Len(Line) + 1] = c
        /\ \A i \in 1 .. Len(Line) : Line'[i] = Line[i]
        /\ DOMAIN Line = 1 .. Len(Line) /\ DOMAIN Line' = 1 .. Len(Line')
        /\ Len(Line) \in Nat
    BY <1>1, AppendProperties, LenProperties
  <2> HIDE DEF Line
  <2> QED
    BY <2>1, <2>2 DEF Distinct
<1>3. TypeOK'
  BY <1>1, FlagsTyped DEF HandOver, shutdownVars
<1> QED
  BY <1>2, <1>3 DEF HandOver, shutdownVars

(* The end of run(), by steps that leave the line and the workers alone.   *)
LEMMA EndStep ==
  ASSUME SupervisorInv, [Next]_vars,
         EndWatch \/ Join \/ Expire \/ JoinRescan \/ JoinOthers \/ JoinRecovery
  PROVE  SupervisorInv'
<1> USE DEF SupervisorInv, TypeOK, PlaceInv, LineInv, WorkersInv
<1>1. Line' = Line
  BY DEF Line, EndWatch, Join, Expire, JoinRescan, JoinOthers, JoinRecovery
<1>2. TypeOK'
  BY FlagsTyped
  DEF EndWatch, Join, Expire, JoinRescan, JoinOthers, JoinRecovery, shutdownVars, Places
<1> QED
  BY <1>1, <1>2
  DEF EndWatch, Join, Expire, JoinRescan, JoinOthers, JoinRecovery, shutdownVars

(* When run() returns, each worker keeps its camera, its record is gone. *)
LEMMA ReturnStep == ASSUME SupervisorInv, [Next]_vars, Return PROVE SupervisorInv'
<1> USE DEF SupervisorInv, TypeOK, PlaceInv, LineInv, WorkersInv
<1>0. workers \in Seq(WorkerRecords)
  BY DEF WorkerRecords
<1> DEFINE gone(i) == [workers[i] EXCEPT !.config = "gone"]
<1>1. ASSUME NEW i \in 1 .. Len(workers)
      PROVE  gone(i) \in WorkerRecords /\ gone(i).camera = workers[i].camera
  <2>1. workers[i] \in WorkerRecords
    BY <1>0, ElementOfSeq
  <2> QED
    BY <2>1, RecordProperties, Zenon
<1>2. workers' = [i \in 1 .. Len(workers) |-> gone(i)]
  BY LenProperties DEF Return
<1> HIDE DEF gone
<1>3. /\ workers' \in Seq(WorkerRecords) /\ Len(workers') = Len(workers)
      /\ DOMAIN workers' = DOMAIN workers
      /\ \A i \in DOMAIN workers' : workers'[i].camera = workers[i].camera
  BY <1>1, <1>2
<1>4. TypeOK'
  BY <1>3, FlagsTyped DEF Return, shutdownVars, WorkerRecords, Places
<1> QED
  BY <1>3, <1>4 DEF Return, shutdownVars, Line

(* A worker that ends keeps its camera. *)
LEMMA FinishStep ==
  ASSUME SupervisorInv, [Next]_vars, NEW i \in DOMAIN workers, Finish(i)
  PROVE  SupervisorInv'
<1> USE DEF SupervisorInv, TypeOK, PlaceInv, LineInv, WorkersInv
<1> DEFINE ended == [workers[i] EXCEPT !.finished = TRUE]
<1>1. workers \in Seq(WorkerRecords) /\ i \in 1 .. Len(workers)
  BY LenProperties DEF WorkerRecords
<1>2. ended \in WorkerRecords /\ ended.camera = workers[i].camera
  <2>1. workers[i] \in WorkerRecords
    BY <1>1, ElementOfSeq
  <2> QED
    BY <2>1, RecordProperties, Zenon
<1>3. workers' = [workers EXCEPT ![i] = ended]
  BY DEF Finish
<1> HIDE DEF ended
<1>4. /\ workers' \in Seq(WorkerRecords) /\ Len(workers') = Len(workers)
      /\ DOMAIN workers' = DOMAIN workers
      /\ \A j \in DOMAIN workers' : workers'[j].camera = workers[j].camera
  BY <1>1, <1>2, <1>3, ExceptSeq, LenProperties
<1>5. TypeOK'
  BY <1>4, FlagsTyped DEF Finish, shutdownVars, WorkerRecords
<1> QED
  BY <1>4, <1>5 DEF Finish, shutdownVars, Line

(* The rescan thread's other steps, the other threads and the signal.      *)
LEMMA OtherStep ==
  ASSUME SupervisorInv, [Next]_vars,
         \/ Rescan \/ EndRound \/ EndRescan \/ Stop \/ Handled
         \/ \E t \in Threads : EndThread(t)
         \/ \E c \in Cameras : Adopt(c)
         \/ UNCHANGED vars
  PROVE  SupervisorInv'
<1> USE DEF SupervisorInv, TypeOK, PlaceInv, LineInv, WorkersInv
<1>1. Line' = Line
  BY DEF Line, Rescan, EndRound, EndRescan, Stop, Handled, EndThread, Adopt, vars
<1>2. TypeOK'
  BY FlagsTyped
  DEF Rescan, EndRound, EndRescan, Stop, Handled, EndThread, Adopt, vars, shutdownVars
<1> QED
  BY <1>1, <1>2
  DEF Rescan, EndRound, EndRescan, Stop, Handled, EndThread, Adopt, vars,
      shutdownVars, Started

(* Every camera is in the line once, and the workers are its front. *)
THEOREM SupervisorInvariant == Spec => []SupervisorInv
<1>1. Init => SupervisorInv
  <2> SUFFICES ASSUME Init PROVE SupervisorInv
    OBVIOUS
  <2>1. Line = <<>>
    BY EmptySeq, ConcatEmptySeq DEF Line, Init
  <2>2. /\ running \in BOOLEAN /\ late \in BOOLEAN /\ rescanning \in BOOLEAN
        /\ polling \in BOOLEAN /\ cancelled \in BOOLEAN /\ handling \in BOOLEAN
    BY Zenon DEF Init
  <2> QED
    BY <2>1, <2>2
    DEF Init, SupervisorInv, TypeOK, PlaceInv, LineInv, WorkersInv, Distinct, Places
<1>2. SupervisorInv /\ [Next]_vars => SupervisorInv'
  <2> SUFFICES ASSUME SupervisorInv, [Next]_vars PROVE SupervisorInv'
    OBVIOUS
  <2> QED
    BY LoadStep, RunStep, DrainStep, SpawnStep, HandOverStep, EndStep,
       ReturnStep, FinishStep, OtherStep DEF Next, Main, Scan
<1> QED
  BY <1>1, <1>2, PTL DEF Spec

(* The types alone. *)
THEOREM TypeCorrect == Spec => []TypeOK
BY SupervisorInvariant, PTL DEF SupervisorInv

(* However often cameras are removed and adopted again, and wherever they  *)
(* are on their way from the rescan thread to the supervisor, no camera    *)
(* ever has two workers: for any finite number of cameras.                 *)
THEOREM OneWorkerPerCameraHolds == Spec => []OneWorkerPerCamera
<1>1. SupervisorInv => OneWorkerPerCamera
  <2> SUFFICES ASSUME SupervisorInv, NEW i \in DOMAIN workers, NEW j \in DOMAIN workers,
                      workers[i].camera = workers[j].camera
               PROVE  i = j
    BY DEF OneWorkerPerCamera
  <2> USE DEF SupervisorInv, TypeOK
  <2>1. at \notin {"load", "ready"}
    BY DEF PlaceInv
  <2>2. /\ i \in 1 .. Len(cameras) /\ j \in 1 .. Len(cameras)
        /\ cameras[i] = cameras[j]
    BY <2>1, LenProperties DEF WorkersInv
  <2>3. batch \o pending \in Seq(Cameras)
    BY ConcatProperties
  <2>4. /\ i \in DOMAIN Line /\ j \in DOMAIN Line
        /\ Line[i] = cameras[i] /\ Line[j] = cameras[j]
    BY <2>2, <2>3, ConcatProperties, LenProperties DEF Line
  <2> QED
    BY <2>2, <2>4 DEF LineInv, Distinct
<1> QED
  BY <1>1, SupervisorInvariant, PTL
=============================================================================
