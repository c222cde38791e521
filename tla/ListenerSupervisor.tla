------------------------- MODULE ListenerSupervisor -------------------------
(***************************************************************************)
(* Who starts and ends the camera workers: OnvifListener::run, stop and    *)
(* add_camera_live (src/src/onvif_listener.cpp), and in src/src/main.cpp   *)
(* the loading of the cameras, the thread that rescans Protect's table for *)
(* new ones every minute, and the shutdown.                                *)
(*                                                                         *)
(* The main thread (variable at), the rescan thread (scan) and the workers *)
(* act; of the workers and the other threads only their end is modelled    *)
(* here, CameraWorker and the others' modules have the rest.  A worker may *)
(* be inside a call for any time.  A worker reads its camera's             *)
(* configuration through a reference; config says what has become of what  *)
(* it refers to.                                                           *)
(***************************************************************************)
EXTENDS Integers, Sequences, FiniteSets, SequencesExt

CONSTANTS Cameras,   \* the ids of third-party cameras, ever
          Excluded   \* those whose MAC is in --excluded_cameras

ASSUME CamerasAssumption == IsFiniteSet(Cameras) /\ Excluded \subseteq Cameras

VARIABLES at,         \* where the main thread is
          running,    \* OnvifListener::running_
          adopted,    \* the cameras in Protect's table
          known,      \* known_ids
          cameras,    \* OnvifListener::cameras_
          pending,    \* OnvifListener::pending_cameras_
          batch,      \* hot_adds, what of it has no worker yet
          workers,    \* the workers of run(), in the order of their threads
          joined,     \* how many threads run() has joined or detached
          late,       \* the 30 s for joining are over
          scan,       \* where the rescan thread is
          fresh,      \* its cameras not yet handed over
          rescanning, \* rescan_running
          threads,    \* the other threads the shutdown waits for
          polling,    \* MotionPoller::running_
          cancelled,  \* g_recovery_shutdown
          handling    \* the main thread is in the signal handler

shutdownVars == <<threads, polling, cancelled, handling>>
vars == <<at, running, adopted, known, cameras, pending, batch, workers, joined,
          late, scan, fresh, rescanning, shutdownVars>>

Places == {"load", "ready", "watch", "join", "rejoin", "quit", "last", "done"}

Threads == {"poller", "backfill", "recovery"}

(* A worker for camera c whose cfg_ refers to an element of `config`. *)
NewWorker(c, config) == [camera |-> c, finished |-> FALSE, config |-> config]

Init == /\ at = "load"
        /\ running = FALSE
        /\ adopted \in SUBSET Cameras
        /\ known = {}
        /\ cameras = <<>> /\ pending = <<>> /\ batch = <<>>
        /\ workers = <<>>
        /\ joined = 0
        /\ late = FALSE
        /\ scan = "sleep"
        /\ fresh = {}
        /\ rescanning = FALSE
        /\ threads = {} /\ polling = FALSE
        /\ cancelled = FALSE /\ handling = FALSE

(***************************************************************************)
(* The start: the cameras that are not excluded go to the listener, all of *)
(* them are known, and the other threads are started before run(), those   *)
(* that are wanted.                                                        *)
(***************************************************************************)
Load == /\ at = "load"
        /\ at' = "ready"
        /\ \E order \in SetToSeqs(adopted \ Excluded) : cameras' = order
        /\ known' = adopted
        /\ rescanning' = TRUE
        /\ threads' \in {{}, Threads}
        /\ polling' = ("poller" \in threads')
        /\ UNCHANGED <<running, adopted, pending, batch, workers, joined, late,
                       scan, fresh, cancelled, handling>>

(* run() takes references to the elements of cameras_. *)
Run == /\ at = "ready"
       /\ at' = "watch"
       /\ running' = TRUE
       /\ workers' = [i \in DOMAIN cameras |-> NewWorker(cameras[i], "listed")]
       /\ UNCHANGED <<adopted, known, cameras, pending, batch, joined, late, scan,
                      fresh, rescanning, shutdownVars>>

-----------------------------------------------------------------------------
(***************************************************************************)
(* The supervisor loop, every 250 ms.                                      *)
(***************************************************************************)
Drain == /\ at = "watch" /\ running
         /\ batch = <<>> /\ pending # <<>>
         /\ batch' = pending
         /\ pending' = <<>>
         /\ UNCHANGED <<at, running, adopted, known, cameras, workers, joined,
                        late, scan, fresh, rescanning, shutdownVars>>

(* push_back moves a full vector's elements: its capacity is 1, 2, 4...    *)
MovesElements(n) == \E k \in 0 .. n : n = 2 ^ k

(* What the workers' references come to: those into cameras_ end when its  *)
(* elements move, those into hot_adds when the round is over.              *)
Referring(ws, moved, over) ==
  [i \in DOMAIN ws |->
     IF (moved /\ ws[i].config = "listed") \/ (over /\ ws[i].config = "batch")
     THEN [ws[i] EXCEPT !.config = "gone"] ELSE ws[i]]

Spawn == /\ at = "watch" /\ batch # <<>>
         /\ batch' = Tail(batch)
         /\ cameras' = Append(cameras, Head(batch))
         /\ workers' = Referring(Append(workers, NewWorker(Head(batch), "batch")),
                                 MovesElements(Len(cameras)), batch' = <<>>)
         /\ UNCHANGED <<at, running, adopted, known, pending, joined, late, scan,
                        fresh, rescanning, shutdownVars>>

(* The loop ends by stop(), or with its last worker if it ever had one. *)
EndWatch == /\ at = "watch" /\ batch = <<>>
            /\ \/ ~running
               \/ workers # <<>> /\ \A i \in DOMAIN workers : workers[i].finished
            /\ at' = "join"
            /\ running' = FALSE
            /\ UNCHANGED <<adopted, known, cameras, pending, batch, workers,
                           joined, late, scan, fresh, rescanning, shutdownVars>>

BadJoin == /\ at = "join" /\ joined < Len(workers)
           /\ workers[joined + 1].finished
           /\ joined' = joined + 1
           /\ UNCHANGED <<at, running, adopted, known, cameras, pending, batch,
                          workers, late, scan, fresh, rescanning, shutdownVars>>

(* Thread by thread: joined once finished, detached once it is late. *)
Join == /\ at = "join" /\ joined < Len(workers)
        /\ workers[joined + 1].finished \/ late
        /\ joined' = joined + 1
        /\ UNCHANGED <<at, running, adopted, known, cameras, pending, batch,
                       workers, late, scan, fresh, rescanning, shutdownVars>>

Expire == /\ at = "join" /\ ~late
          /\ late' = TRUE
          /\ UNCHANGED <<at, running, adopted, known, cameras, pending, batch,
                         workers, joined, scan, fresh, rescanning, shutdownVars>>

(* run() returns, and the workers it owned go; main ends the rescan thread. *)
Return == /\ at = "join" /\ joined = Len(workers)
          /\ at' = "rejoin"
          /\ workers' = [i \in DOMAIN workers |-> [workers[i] EXCEPT !.config = "gone"]]
          /\ rescanning' = FALSE
          /\ UNCHANGED <<running, adopted, known, cameras, pending, batch, joined,
                         late, scan, fresh, shutdownVars>>

JoinRescan == /\ at = "rejoin" /\ scan = "ended"
              /\ at' = "quit"
              /\ polling' = FALSE
              /\ UNCHANGED <<running, adopted, known, cameras, pending, batch,
                             workers, joined, late, scan, fresh, rescanning,
                             threads, cancelled, handling>>

(* The poller and the backfill, and only then the recovery is cancelled.   *)
JoinOthers == /\ at = "quit" /\ threads \subseteq {"recovery"}
              /\ at' = "last"
              /\ cancelled' = TRUE
              /\ UNCHANGED <<running, adopted, known, cameras, pending, batch,
                             workers, joined, late, scan, fresh, rescanning,
                             threads, polling, handling>>

JoinRecovery == /\ at = "last" /\ threads = {}
                /\ at' = "done"
                /\ UNCHANGED <<running, adopted, known, cameras, pending, batch,
                               workers, joined, late, scan, fresh, rescanning,
                               shutdownVars>>

-----------------------------------------------------------------------------
(***************************************************************************)
(* The rescan thread.  load_cameras may fail: it tries again in a minute.  *)
(***************************************************************************)
Started == at # "load"

Rescan == /\ Started /\ scan = "sleep" /\ rescanning
          /\ ~(adopted \subseteq known)
          /\ fresh' = adopted \ known
          /\ scan' = "hand"
          /\ UNCHANGED <<at, running, adopted, known, cameras, pending, batch,
                         workers, joined, late, rescanning, shutdownVars>>

BadHandOver(c) ==
  /\ scan = "hand" /\ c \in fresh
  /\ fresh' = fresh \ {c}
  /\ pending' = Append(pending, c)
  /\ UNCHANGED <<at, running, adopted, known, cameras, batch, workers, joined,
                 late, scan, rescanning, shutdownVars>>

BadHandOverwrites(c) ==
  /\ scan = "hand" /\ c \in fresh
  /\ fresh' = fresh \ {c}
  /\ known' = known \cup {c}
  /\ pending' = <<c>>
  /\ UNCHANGED <<at, running, adopted, cameras, batch, workers, joined, late,
                 scan, rescanning, shutdownVars>>

(* add_camera_live, after the camera's settings were written to the table. *)
HandOver(c) ==
  /\ scan = "hand" /\ c \in fresh
  /\ fresh' = fresh \ {c}
  /\ known' = known \cup {c}
  /\ pending' = Append(pending, c)
  /\ UNCHANGED <<at, running, adopted, cameras, batch, workers, joined, late,
                 scan, rescanning, shutdownVars>>

EndRound == /\ scan = "hand" /\ fresh = {}
            /\ scan' = "sleep"
            /\ UNCHANGED <<at, running, adopted, known, cameras, pending, batch,
                           workers, joined, late, fresh, rescanning, shutdownVars>>

EndRescan == /\ Started /\ scan = "sleep" /\ ~rescanning
             /\ scan' = "ended"
             /\ UNCHANGED <<at, running, adopted, known, cameras, pending, batch,
                            workers, joined, late, fresh, rescanning, shutdownVars>>

-----------------------------------------------------------------------------
(***************************************************************************)
(* The workers and the surroundings.                                       *)
(***************************************************************************)

(* A worker only ever ends because it sees running_ false. *)
Finish(i) == /\ ~running /\ i \in DOMAIN workers /\ ~workers[i].finished
             /\ workers' = [workers EXCEPT ![i].finished = TRUE]
             /\ UNCHANGED <<at, running, adopted, known, cameras, pending, batch,
                            joined, late, scan, fresh, rescanning, shutdownVars>>

(* The other threads end: the poller when told to, the backfill after its  *)
(* pass, the recovery when cancelled, or when nothing is left to enrich.    *)
(* Whether the last two end before they are waited for makes no difference. *)
MayEnd(t) == CASE t = "poller" -> ~polling
               [] t = "backfill" -> at = "quit"
               [] t = "recovery" -> at = "last"

MustEnd(t) == MayEnd(t) /\ (t = "recovery" => cancelled)

EndThread(t) == /\ t \in threads /\ MayEnd(t)
                /\ threads' = threads \ {t}
                /\ UNCHANGED <<at, running, adopted, known, cameras, pending,
                               batch, workers, joined, late, scan, fresh,
                               rescanning, polling, cancelled, handling>>

(* The signal handler, on the main thread; g_listener is set before the    *)
(* cameras are loaded.  It waits for the poller.  A signal that comes when *)
(* main itself waits for the others, or in the handler, is left out, as is *)
(* one that changes nothing.                                               *)
Stop == /\ at \notin {"quit", "last", "done"} /\ ~handling
        /\ running \/ polling \/ ~cancelled
        /\ running' = FALSE
        /\ polling' = FALSE
        /\ handling' = TRUE
        /\ UNCHANGED <<at, adopted, known, cameras, pending, batch, workers,
                       joined, late, scan, fresh, rescanning, threads, cancelled>>

Handled == /\ handling /\ "poller" \notin threads
           /\ handling' = FALSE
           /\ cancelled' = TRUE
           /\ UNCHANGED <<at, running, adopted, known, cameras, pending, batch,
                          workers, joined, late, scan, fresh, rescanning,
                          threads, polling>>

(* Somebody adopts a camera in Protect, or removes one. *)
Adopt(c) == /\ adopted' = IF c \in adopted THEN adopted \ {c} ELSE adopted \cup {c}
            /\ UNCHANGED <<at, running, known, cameras, pending, batch, workers,
                           joined, late, scan, fresh, rescanning, shutdownVars>>

-----------------------------------------------------------------------------
Main == \/ /\ ~handling
           /\ \/ Load \/ Run \/ Drain \/ Spawn \/ EndWatch \/ Join \/ Return
              \/ JoinRescan \/ JoinOthers \/ JoinRecovery
        \/ Handled

Scan == Rescan \/ EndRound \/ EndRescan \/ \E c \in Cameras : HandOver(c)

Next == \/ Main \/ Scan \/ Expire \/ Stop
        \/ \E i \in DOMAIN workers : Finish(i)
        \/ \E t \in Threads : EndThread(t)
        \/ \E c \in Cameras : Adopt(c)

(* The main thread polls and its join has a deadline; the rescan thread    *)
(* asks every minute, until the database answers.                          *)
(* The calls of the other threads have timeouts.  The workers need not end, *)
(* and nobody needs to call stop().                                        *)
EndOthers == \E t \in Threads : MustEnd(t) /\ EndThread(t)

Spec == /\ Init /\ [][Next]_vars
        /\ WF_vars(Main) /\ WF_vars(Expire) /\ WF_vars(Scan) /\ WF_vars(EndOthers)

-----------------------------------------------------------------------------
TypeOK ==
  /\ at \in Places
  /\ running \in BOOLEAN /\ late \in BOOLEAN /\ rescanning \in BOOLEAN
  /\ adopted \subseteq Cameras /\ known \subseteq Cameras /\ fresh \subseteq Cameras
  /\ cameras \in Seq(Cameras) /\ pending \in Seq(Cameras) /\ batch \in Seq(Cameras)
  /\ workers \in Seq([camera : Cameras, finished : BOOLEAN,
                      config : {"listed", "batch", "gone"}])
  /\ joined \in 0 .. Len(workers)
  /\ scan \in {"sleep", "hand", "ended"}
  /\ threads \subseteq Threads
  /\ polling \in BOOLEAN /\ cancelled \in BOOLEAN /\ handling \in BOOLEAN

(* A camera has at most one worker, however often it is removed from       *)
(* Protect and adopted again, and while it is on its way from the rescan   *)
(* thread through the queue to the supervisor: two would write every event *)
(* of it twice (main.cpp:1261, onvif_listener.cpp:1065-1078).              *)
OneWorkerPerCamera ==
  \A i, j \in DOMAIN workers : workers[i].camera = workers[j].camera => i = j

(* Adopted while the program runs, a camera that stays gets its worker     *)
(* ("picked up on the next tick", onvif_listener.hpp:192-194) unless the   *)
(* program is stopped: no hand-over between the threads loses one.         *)
Watched(c) == \E i \in DOMAIN workers : workers[i].camera = c

AdoptedIsWatched ==
  \A c \in Cameras \ Excluded :
    (at = "watch" /\ c \in adopted) ~>
      (Watched(c) \/ c \notin adopted \/ ~running)

(* "run() returns once all threads have joined or the shutdown deadline    *)
(* has been reached" (onvif_listener.hpp:213-215), then main joins the     *)
(* others (main.cpp:1322-1337): a stop() that run() can see ends the       *)
(* program, though workers hang in their calls, cameras are handed over    *)
(* that nobody will drain, and the recovery has work for ever.             *)
ShutdownEnds == (at \in {"watch", "join"} /\ ~running) ~> at = "done"

(* "Register a camera while run() is already executing.  Safe to call from *)
(* any thread" (onvif_listener.hpp:192-193): while the program runs, every *)
(* worker's configuration is still there.                                  *)
ConfigKept == at = "watch" => \A i \in DOMAIN workers : workers[i].config # "gone"
=============================================================================
