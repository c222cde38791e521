---------------------------- MODULE CameraWorker ----------------------------
(***************************************************************************)
(* src/src/onvif_listener.cpp: CameraWorker::run, one thread per camera.   *)
(* It discovers the services, opens a pull-point subscription of PT120S,   *)
(* pulls events, renews the subscription every 90 s, backs off from a      *)
(* camera that answers empty too fast, and pauses after too many failures. *)
(*                                                                         *)
(* Time is kept as ages: how long ago the lease was granted, the renewal   *)
(* timer was set, the failure streak began.  Only the worker's own calls   *)
(* and sleeps take time, and an age is not driven past the value it is     *)
(* compared with.  A sleep ends early once stop() has been called.  The    *)
(* heartbeat only logs.  The camera is the environment: it may fail,       *)
(* refuse, answer empty or deliver; a lease it granted runs out after      *)
(* Lifetime unless it accepts a Renew, and a pull on a lease that ran out  *)
(* fails.                                                                  *)
(***************************************************************************)
EXTENDS Integers

CONSTANTS Lifetime,      \* InitialTerminationTime, PT120S
          RenewEvery,    \* renew_at, 90 s
          RetryTime,     \* cfg_.retry_interval_sec
          Window,        \* cfg_.failure_window_sec
          MaxFailures,   \* cfg_.max_consecutive_failures; 0 = unlimited
          BackoffFloor,  \* kMinMs
          BackoffCap,    \* kMaxMs
          CallTakes,     \* how long an HTTP call with its callbacks may take
          LongPoll       \* kHonoredTimeout: a call this long honoured PT5S

ASSUME ConstantsAssumption ==
  /\ Lifetime \in Nat /\ RetryTime \in Nat /\ Window \in Nat /\ MaxFailures \in Nat
  /\ RenewEvery \in Nat \ {0} /\ LongPoll \in Nat \ {0}
  /\ BackoffFloor \in Nat \ {0} /\ BackoffCap \in Nat
  /\ BackoffFloor <= BackoffCap
  /\ CallTakes \subseteq Nat

VARIABLES pc,            \* where the worker is in run()
          backoffOn,     \* ~g_pull_backoff_disabled_for_test, set before run()
          running,       \* OnvifListener::running_, cleared by stop()
          failures,      \* consecutive_failures
          streakAge,     \* time since streak_start
          renewAge,      \* time since renew_at was last set, 90 s ahead
          leaseAge,      \* time since the camera last granted the lease
          refused,       \* the camera turned down a Renew of this lease in time
          backoff,       \* pull_backoff_ms_
          subscribed,    \* subscribed_at_ms_ # 0
          shown,         \* the health last published for the admin page
          needsAdmin,    \* listener_status: flagged "needs ONVIF Administrator"
          healed         \* from now on the camera answers every call well

vars == <<pc, backoffOn, running, failures, streakAge, renewAge, leaseAge,
          refused, backoff, subscribed, shown, needsAdmin, healed>>

Labels == {"discover", "create", "loop", "renew", "sleep", "pull", "retry",
           "pause", "drop", "done"}

AgeTo(limit, age, d) == IF age + d < limit THEN age + d ELSE limit

(* d passes for the lease, the renewal timer and the failure streak. *)
Pass(d) == /\ leaseAge' = AgeTo(Lifetime, leaseAge, d)
           /\ renewAge' = AgeTo(RenewEvery, renewAge, d)
           /\ streakAge' = AgeTo(Window, streakAge, d)

Expired == leaseAge = Lifetime

Init == /\ pc = "discover"
        /\ backoffOn \in BOOLEAN
        /\ running = TRUE
        /\ failures = 0
        /\ streakAge = 0
        /\ renewAge = 0
        /\ leaseAge = Lifetime
        /\ refused = FALSE
        /\ backoff = 0
        /\ subscribed = FALSE
        /\ shown = [subscribed |-> FALSE, backoff |-> 0]
        /\ needsAdmin = FALSE
        /\ healed = FALSE

(***************************************************************************)
(* Counting a failure: the first of a streak starts the window; reaching   *)
(* the limit pauses for what is left of it, else the worker retries soon.  *)
(***************************************************************************)
CountFailure(d) ==
  /\ failures' = failures + 1
  /\ leaseAge' = AgeTo(Lifetime, leaseAge, d)
  /\ renewAge' = AgeTo(RenewEvery, renewAge, d)
  /\ streakAge' = IF failures = 0 THEN 0 ELSE AgeTo(Window, streakAge, d)
  /\ pc' = IF MaxFailures > 0 /\ failures' >= MaxFailures
           THEN "pause" ELSE "retry"

(* After a pull failed the worker still has to leave the inner loop. *)
AfterSleep == IF subscribed THEN "drop" ELSE "discover"

(* sleep_interruptible(retry_interval_sec) *)
Retry == /\ pc = "retry"
         /\ pc' = AfterSleep
         /\ Pass(IF running THEN RetryTime ELSE 0)
         /\ UNCHANGED <<running, failures, refused, backoff, subscribed, shown,
                        needsAdmin, healed>>

BadPause == /\ pc = "pause"
            /\ pc' = IF running THEN "pause" ELSE AfterSleep
            /\ Pass(IF running THEN Window - streakAge ELSE 0)
            /\ UNCHANGED <<running, failures, refused, backoff, subscribed,
                           shown, needsAdmin, healed>>

(* pause_and_reset: the rest of the window, then a clean count. *)
Pause == /\ pc = "pause"
         /\ pc' = AfterSleep
         /\ Pass(IF running THEN Window - streakAge ELSE 0)
         /\ failures' = 0
         /\ UNCHANGED <<running, refused, backoff, subscribed, shown, needsAdmin,
                        healed>>

(***************************************************************************)
(* The outer loop: discover_services, then create_subscription.            *)
(***************************************************************************)

BadDiscover == /\ pc = "discover"
               /\ pc' = "create"
               /\ \E d \in CallTakes : Pass(d)
               /\ UNCHANGED <<running, failures, refused, backoff, subscribed,
                              shown, needsAdmin, healed>>

(* GetServices never fails the worker: on any error the default URLs serve. *)
Discover == /\ pc = "discover"
            /\ IF running
               THEN pc' = "create" /\ \E d \in CallTakes : Pass(d)
               ELSE pc' = "done" /\ UNCHANGED <<leaseAge, renewAge, streakAge>>
            /\ UNCHANGED <<running, failures, refused, backoff, subscribed, shown,
                           needsAdmin, healed>>

(* A transport error, any status but 200 or an unparsable answer: no       *)
(* subscription.  ter:NotAuthorized flags the camera for the admin page.   *)
CreateFails(notAuthorized) ==
  /\ pc = "create"
  /\ ~healed
  /\ \E d \in CallTakes : CountFailure(d)
  /\ needsAdmin' = (needsAdmin \/ notAuthorized)
  /\ UNCHANGED <<running, refused, backoff, subscribed, shown, healed>>

(* A well-formed answer without an address clears the flag, and fails. *)
CreateEmpty == /\ pc = "create"
               /\ ~healed
               /\ \E d \in CallTakes : CountFailure(d)
               /\ needsAdmin' = FALSE
               /\ UNCHANGED <<running, refused, backoff, subscribed, shown, healed>>

BadCreateOk == /\ pc = "create"
               /\ pc' = "loop"
               /\ failures' = 0
               /\ subscribed' = TRUE
               /\ leaseAge' = 0 /\ renewAge' = 0
               /\ refused' = FALSE
               /\ UNCHANGED <<streakAge, running, backoff, shown, needsAdmin, healed>>

CreateOk == /\ pc = "create"
            /\ pc' = "loop"
            /\ failures' = 0
            /\ subscribed' = TRUE
            /\ leaseAge' = 0 /\ renewAge' = 0
            /\ refused' = FALSE
            /\ needsAdmin' = FALSE
            /\ UNCHANGED <<streakAge, running, backoff, shown, healed>>

(***************************************************************************)
(* The inner loop: renew when due, sleep while backing off, pull.          *)
(***************************************************************************)
Loop == /\ pc = "loop"
        /\ pc' = CASE ~running -> "drop"
                   [] running /\ renewAge >= RenewEvery -> "renew"
                   [] OTHER -> "sleep"
        /\ UNCHANGED <<running, failures, streakAge, renewAge, leaseAge, refused,
                       backoff, subscribed, shown, needsAdmin, healed>>

(* A Renew that names the wrong subscription renews nothing. *)
BadRenew(accepted) ==
  /\ pc = "renew"
  /\ pc' = "sleep"
  /\ \E d \in CallTakes :
       /\ leaseAge' = AgeTo(Lifetime, leaseAge, d)
       /\ streakAge' = AgeTo(Window, streakAge, d)
  /\ renewAge' = 0
  /\ UNCHANGED <<running, failures, refused, backoff, subscribed, shown,
                 needsAdmin, healed>>

(* The next Renew is 90 s after this one, whether it was accepted or not.  *)
(* A camera does not renew what has run out; a healed one renews the rest. *)
Renew(accepted) ==
  /\ pc = "renew"
  /\ pc' = "sleep"
  /\ accepted => ~Expired
  /\ ~accepted => ~healed \/ Expired
  /\ \E d \in CallTakes :
       /\ leaseAge' = AgeTo(Lifetime, IF accepted THEN 0 ELSE leaseAge, d)
       /\ streakAge' = AgeTo(Window, streakAge, d)
  /\ renewAge' = 0
  /\ refused' = (refused \/ (~accepted /\ ~Expired))
  /\ UNCHANGED <<running, failures, backoff, subscribed, shown, needsAdmin, healed>>

(* sleep_interruptible_ms(backoff_ms), then `if (!running_) break`. *)
Sleep == /\ pc = "sleep"
         /\ pc' = IF running THEN "pull" ELSE "drop"
         /\ Pass(IF running /\ backoffOn THEN backoff ELSE 0)
         /\ UNCHANGED <<running, failures, refused, backoff, subscribed, shown,
                        needsAdmin, healed>>

(* OnvifListener::next_backoff_ms *)
NextBackoff(b) == IF b = 0 THEN BackoffFloor
                  ELSE IF 2 * b >= BackoffCap THEN BackoffCap ELSE 2 * b

(* publish_current_health, after every pull. *)
Publish(b) == shown' = [subscribed |-> subscribed, backoff |-> b]

BadPullDelivers ==
  /\ pc = "pull"
  /\ ~Expired
  /\ pc' = "loop"
  /\ \E d \in CallTakes : /\ leaseAge' = AgeTo(Lifetime, leaseAge, d)
                          /\ streakAge' = AgeTo(Window, streakAge, d)
  /\ renewAge' = 0
  /\ backoff' = IF backoffOn THEN 0 ELSE backoff
  /\ Publish(backoff')
  /\ UNCHANGED <<running, failures, refused, subscribed, needsAdmin, healed>>

(* Events, or an empty answer after the camera held the long poll. *)
PullDelivers ==
  /\ pc = "pull"
  /\ ~Expired
  /\ pc' = "loop"
  /\ \E d \in CallTakes : Pass(d)
  /\ backoff' = IF backoffOn THEN 0 ELSE backoff
  /\ Publish(backoff')
  /\ UNCHANGED <<running, failures, refused, subscribed, needsAdmin, healed>>

(* An empty answer too fast to have honoured it: rate-limited. *)
PullEmpty == /\ pc = "pull"
             /\ ~Expired /\ ~healed
             /\ pc' = "loop"
             /\ \E d \in CallTakes : d < LongPoll /\ Pass(d)
             /\ backoff' = IF backoffOn THEN NextBackoff(backoff) ELSE backoff
             /\ Publish(backoff')
             /\ UNCHANGED <<running, failures, refused, subscribed, needsAdmin,
                            healed>>

(* A transport error or any status but 200; what an expired lease gets. *)
PullFails == /\ pc = "pull"
             /\ healed => Expired
             /\ \E d \in CallTakes : CountFailure(d)
             /\ Publish(backoff)
             /\ UNCHANGED <<running, refused, backoff, subscribed, needsAdmin,
                            healed>>

(* The inner loop is left: subscribed_at_ms_.store(0). *)
Drop == /\ pc = "drop"
        /\ pc' = "discover"
        /\ subscribed' = FALSE
        /\ UNCHANGED <<running, failures, streakAge, renewAge, leaseAge, refused,
                       backoff, shown, needsAdmin, healed>>

-----------------------------------------------------------------------------
Work == \/ Discover \/ CreateEmpty \/ CreateOk \/ Loop \/ Sleep
        \/ \E notAuthorized \in BOOLEAN : CreateFails(notAuthorized)
        \/ \E accepted \in BOOLEAN : Renew(accepted)
        \/ PullDelivers \/ PullEmpty \/ PullFails
        \/ Retry \/ Pause \/ Drop

(* OnvifListener::stop(), from the signal handler. *)
Stop == /\ running
        /\ running' = FALSE
        /\ UNCHANGED <<pc, failures, streakAge, renewAge, leaseAge, refused,
                       backoff, subscribed, shown, needsAdmin, healed>>

Heal == /\ ~healed
        /\ healed' = TRUE
        /\ UNCHANGED <<pc, running, failures, streakAge, renewAge, leaseAge,
                       refused, backoff, subscribed, shown, needsAdmin>>

(* Only the tests switch the back-off off, before they start the worker. *)
Next == (Work \/ Stop \/ Heal) /\ UNCHANGED backoffOn

(* Every HTTP call has a libcurl timeout and every sleep an end, so the    *)
(* thread always gets on.  Nothing makes the camera behave or stop() come. *)
Spec == Init /\ [][Next]_vars /\ WF_vars(Work /\ UNCHANGED backoffOn)

-----------------------------------------------------------------------------
TypeOK == /\ pc \in Labels
          /\ backoffOn \in BOOLEAN
          /\ running \in BOOLEAN
          /\ failures \in Nat
          /\ MaxFailures > 0 => failures <= MaxFailures
          /\ streakAge \in 0 .. Window
          /\ renewAge \in 0 .. RenewEvery
          /\ leaseAge \in 0 .. Lifetime
          /\ refused \in BOOLEAN
          /\ backoff \in {0} \cup (BackoffFloor .. BackoffCap)
          /\ subscribed \in BOOLEAN
          /\ shown \in [subscribed : BOOLEAN, backoff : Nat]
          /\ needsAdmin \in BOOLEAN
          /\ healed \in BOOLEAN

(* A camera that has given us a subscription is never left with the "needs *)
(* ONVIF Administrator" badge, whatever it answered before and whatever    *)
(* fails afterwards: the flag lives in another module and only             *)
(* create_subscription touches it (onvif_listener.cpp:853-857).            *)
NoStaleBadge == subscribed => ~needsAdmin

(* The 90 s renewal keeps the 120 s lease: without the back-off a pull     *)
(* never goes out on a lease that ran out unless the camera had turned a   *)
(* Renew down, though the calls, their callbacks and a pull that fails lie *)
(* between two looks at renew_at.  (With the back-off it does: its sleep   *)
(* comes after the check of renew_at and may be longer than the lease.)    *)
LeaseKept == ~backoffOn /\ pc = "pull" /\ Expired => refused

(* Without the back-off: once the camera answers every call well, the      *)
(* worker stays subscribed.  It gets out of the failures and pauses that   *)
(* came before and loses no lease again, unless stop() is called.          *)
StaysSubscribed == <>[](healed /\ running /\ ~backoffOn) => <>[]subscribed

(* "when it starts returning events (or starts honoring our PT5S long-poll *)
(* again), the caller resets to 0" (onvif_listener.cpp:1279-1280).         *)
BackoffEnds == <>[](healed /\ running) => <>[](backoff = 0)

(* A camera that keeps failing is retried for ever ("The recorder          *)
(* automatically retries", README.md:156): no sequence of failures,        *)
(* pauses and half-working subscriptions parks the thread.                 *)
KeepsTrying == []<>(pc \in {"create", "pull"} \/ ~running)

(* After stop() the thread leaves both loops and finishes, wherever in     *)
(* them it was, in the middle of a pause too.                              *)
Stops == ~running ~> pc = "done"
=============================================================================
