----------------------------- MODULE PidWatcher -----------------------------
(***************************************************************************)
(* src/src/protect_pid_watcher.cpp, with what it is for: Protect re-reads  *)
(* the cameras' capabilities a while after it starts, which undoes what    *)
(* the recorder's own startup set (protect_pid_watcher.hpp:28-47).  The    *)
(* watcher ends the recorder once another Protect has been up for long     *)
(* enough, systemd starts it again, and startup sets the flags anew.       *)
(*                                                                         *)
(* Processes of Protect are numbered in the order they start.  A poll      *)
(* happens once between two ticks.                                         *)
(***************************************************************************)
EXTENDS Integers, FiniteSetsExt

CONSTANTS Settle,    \* settle_duration, 300 s
          SyncAfter, \* when Protect re-reads the capabilities, ~3 min
          MaxPid     \* bound: starts of Protect

VARIABLES pid,       \* Protect's MainPID; 0 = not running
          newest,    \* the newest process of Protect so far
          up,        \* for how long it has been up, at most Settle
          flags,     \* who set the cameras' flags last
          on,        \* the recorder runs
          initial, pending, seen, \* initial_pid_, pending_pid_ and its age; 0 = -1
          triggered, \* restart_triggered_
          polled     \* this tick's poll is done

protectVars == <<pid, newest, up>>
watcherVars == <<initial, pending, seen, triggered>>
vars == <<protectVars, flags, on, watcherVars, polled>>

Pids == 1 .. MaxPid

Init == /\ newest = 1 /\ pid = 1 /\ up \in 0 .. Settle
        /\ flags = "theirs" /\ on = FALSE
        /\ initial = 0 /\ pending = 0 /\ seen = 0 /\ triggered = FALSE
        /\ polled = TRUE

(* Startup sets the flags, then the watcher notes who is running; systemctl *)
(* may fail to tell.                                                        *)
Start(told) == /\ ~on
               /\ on' = TRUE
               /\ flags' = "ours"
               /\ initial' = IF told THEN pid ELSE 0
               /\ pending' = 0 /\ seen' = 0 /\ triggered' = FALSE
               /\ polled' = TRUE
               /\ UNCHANGED protectVars

(* tick_for_testing on the pid it is told. *)
NotRunning(p) == p = 0 /\ UNCHANGED <<initial, pending, seen, triggered>>

LateBound(p) == /\ p # 0 /\ initial = 0
                /\ initial' = p
                /\ UNCHANGED <<pending, seen, triggered>>

NoRestart(p) == /\ p # 0 /\ p = initial
                /\ pending' = 0
                /\ UNCHANGED <<initial, seen, triggered>>

BadAnother(p) == /\ p \notin {0, initial, pending} /\ initial # 0
                 /\ pending' = p
                 /\ seen' = IF pending = 0 THEN 0 ELSE seen
                 /\ UNCHANGED <<initial, triggered>>

Another(p) == /\ p \notin {0, initial, pending} /\ initial # 0
              /\ pending' = p /\ seen' = 0
              /\ UNCHANGED <<initial, triggered>>

Settling(p) == /\ p # 0 /\ p = pending /\ p # initial /\ seen < Settle
               /\ UNCHANGED <<initial, pending, seen, triggered>>

BadTrigger(p) == /\ p # 0 /\ p = pending /\ p # initial /\ seen = Settle
                 /\ initial' = p /\ pending' = 0
                 /\ UNCHANGED <<seen, triggered>>

Trigger(p) == /\ p # 0 /\ p = pending /\ p # initial /\ seen = Settle
              /\ triggered' = TRUE
              /\ UNCHANGED <<initial, pending, seen>>

Poll(p) == /\ on /\ ~triggered /\ ~polled
           /\ p \in {0, pid}
           /\ \/ NotRunning(p) \/ LateBound(p) \/ NoRestart(p) \/ Another(p)
              \/ Settling(p) \/ Trigger(p)
           /\ polled' = TRUE
           /\ UNCHANGED <<protectVars, flags, on>>

(* SIGTERM to itself. *)
Exit == /\ on /\ triggered
        /\ on' = FALSE
        /\ UNCHANGED <<protectVars, flags, watcherVars, polled>>

(* Protect, and time. *)
ProtectStarts == /\ pid = 0 /\ newest < MaxPid
                 /\ newest' = newest + 1 /\ pid' = newest'
                 /\ up' = 0
                 /\ UNCHANGED <<flags, on, watcherVars, polled>>

ProtectStops == /\ pid # 0
                /\ pid' = 0
                /\ UNCHANGED <<newest, up, flags, on, watcherVars, polled>>

Older(age) == Min({age + 1, Settle})

Tick == /\ on => polled \/ triggered
        /\ polled' = ~on
        /\ up' = IF pid = 0 THEN up ELSE Older(up)
        /\ flags' = IF pid # 0 /\ up < SyncAfter /\ up' >= SyncAfter THEN "theirs" ELSE flags
        /\ seen' = IF pending = 0 THEN seen ELSE Older(seen)
        /\ UNCHANGED <<pid, newest, on, initial, pending, triggered>>

Next == \/ \E told \in BOOLEAN : Start(told)
        \/ \E p \in Pids \cup {0} : Poll(p)
        \/ Exit \/ ProtectStarts \/ ProtectStops \/ Tick

(* The poll sleeps for a bounded time and systemd starts the recorder      *)
(* again; systemctl is not for ever unable to tell.                        *)
Fairness == /\ WF_vars(Tick) /\ WF_vars(Exit)
            /\ WF_vars(\E told \in BOOLEAN : Start(told))
            /\ WF_vars(\E p \in Pids \cup {0} : Poll(p))
            /\ SF_vars(\E p \in Pids : Poll(p))

Spec == Init /\ [][Next]_vars /\ Fairness

-----------------------------------------------------------------------------
TypeOK == /\ pid \in Pids \cup {0} /\ newest \in Pids /\ up \in 0 .. Settle
          /\ flags \in {"ours", "theirs"} /\ on \in BOOLEAN
          /\ initial \in Pids \cup {0} /\ pending \in Pids \cup {0}
          /\ seen \in 0 .. Settle
          /\ triggered \in BOOLEAN /\ polled \in BOOLEAN

(* "we only restart once Protect's new PID has stayed alive long enough    *)
(* that the flip will actually survive" (protect_pid_watcher.hpp:46-47),   *)
(* even if Protect is crash-looping and some polls are not answered.       *)
OnlyOnceSettled == [][triggered' /\ ~triggered => pid # 0 /\ up = Settle]_vars

(* "the fresh start-up re-runs enable_smart_detect *after* Protect has     *)
(* finished its sync, and the flip sticks" (protect_pid_watcher.hpp:39-43):*)
(* when Protect is replaced while the recorder watches and the new one     *)
(* stays, the flags end up set after its sync.                             *)
Replaced(p) == on /\ ~triggered /\ pid = p /\ initial \notin {0, p}

FlipSticks ==
  \A p \in Pids :
    Replaced(p) ~> (pid # p \/ (flags = "ours" /\ up > SyncAfter))
=============================================================================
