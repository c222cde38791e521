---------------------------- MODULE AlarmNotifier ----------------------------
(***************************************************************************)
(* src/src/alarm_notifier.cpp: notify, called by the thread of a camera    *)
(* for each new event, and refresh_alarms, which it calls when the list of *)
(* automations is empty or old.  Each section under mu_ is a step, and     *)
(* each HTTP call is one between two of them.                              *)
(*                                                                         *)
(* Protect is the environment: its users edit the automations, a restart   *)
(* forgets which of them are registered, and any call to it may fail (a    *)
(* 401 with its second attempt is part of a call).  Which automations an   *)
(* event's type and camera match is chosen with the event; one that is     *)
(* listed but not enabled matches none, and its missing registration is    *)
(* one that failed.  The map of the cameras' ids and the row in            *)
(* automationsHistory change what is shown, not what is notified, and are  *)
(* left out.                                                               *)
(***************************************************************************)
EXTENDS Integers, Sequences

CONSTANTS Callers,        \* the threads that call notify
          None,           \* no event, no automation
          Automations,    \* the automations of Protect, ever
          Cooldown,       \* cooldown_ms of each; 0 = none, or switched off
          RefreshEvery,   \* how old the list may be, 5 min
          Width,          \* 2^64, what ts_ms is counted modulo
          MaxTime,        \* bound of the clock
          MaxEvents,      \* bound of the events
          MaxRestarts     \* bound of Protect's restarts

ASSUME NumbersAssumption ==
  /\ Cooldown \in [Automations -> Nat]
  /\ RefreshEvery \in Nat /\ MaxTime \in Nat /\ MaxEvents \in Nat /\ MaxRestarts \in Nat
  /\ Width \in Nat \ {0}
  /\ \A a \in Automations : MaxTime + Cooldown[a] < Width

VARIABLES pc,           \* where each caller is in notify
          event,        \* event_id, in the order of the calls
          current,      \* the automation its loop is at
          matching,     \* the automations its event matches
          parsed,       \* the list refresh_alarms got
          todo,         \* what is left of the list it walks
          automations,  \* automations_
          listedAt,     \* last_refresh_
          lastFired,    \* last_fired_; -1 = no entry
          registered,   \* Protect: those its automation manager knows
          restarts,     \* Protect: how often it restarted
          clock,
          startedAt,    \* ts_ms of each event, in the order of their numbers
          delivered,    \* the notifications Protect accepted
          trouble       \* since a caller began to fire, a call of its own
                        \* failed or Protect restarted

vars == <<pc, event, current, matching, parsed, todo, automations, listedAt,
          lastFired, registered, restarts, clock, startedAt, delivered,
          trouble>>

callVars == <<event, current, matching, parsed, startedAt>>
notifierVars == <<automations, listedAt, lastFired>>
protectVars == <<registered, restarts, clock>>
historyVars == <<delivered, trouble>>

Labels == {"idle", "load", "register", "copy", "walk", "post", "reregister",
           "repost", "stamp"}

Firing == {"post", "reregister", "repost", "stamp"}

Events == 1 .. MaxEvents

Init == /\ pc = [w \in Callers |-> "idle"]
        /\ event = [w \in Callers |-> None]
        /\ current = [w \in Callers |-> None]
        /\ matching = [w \in Callers |-> {}]
        /\ parsed = [w \in Callers |-> {}]
        /\ todo = [w \in Callers |-> {}]
        /\ automations = {}
        /\ listedAt = 0
        /\ lastFired = [a \in Automations |-> -1]
        /\ registered = {}
        /\ restarts = 0
        /\ clock = 0
        /\ startedAt = <<>>
        /\ delivered = {}
        /\ trouble = [w \in Callers |-> FALSE]

Goto(w, label) == pc' = [pc EXCEPT ![w] = label]

-----------------------------------------------------------------------------
(***************************************************************************)
(* notify: is the list due?                                                *)
(***************************************************************************)
NeedRefresh == automations = {} \/ clock - listedAt > RefreshEvery

(* An event has its time before its thread gets to the alarms. *)
Notify(w, matched) ==
  /\ pc[w] = "idle" /\ Len(startedAt) < MaxEvents
  /\ startedAt' = Append(startedAt, clock)
  /\ event' = [event EXCEPT ![w] = Len(startedAt')]
  /\ matching' = [matching EXCEPT ![w] = matched]
  /\ Goto(w, IF NeedRefresh THEN "load" ELSE "copy")
  /\ UNCHANGED <<current, parsed, todo, notifierVars, protectVars, historyVars>>

(***************************************************************************)
(* refresh_alarms: fetch the list, register every automation, publish.     *)
(***************************************************************************)
LoadFails(w) ==
  /\ pc[w] = "load"
  /\ Goto(w, "copy")
  /\ UNCHANGED <<callVars, todo, notifierVars, protectVars, historyVars>>

(* Since the last time, Protect's users may have changed any of it. *)
Load(w, list) ==
  /\ pc[w] = "load"
  /\ Goto(w, "register")
  /\ parsed' = [parsed EXCEPT ![w] = list]
  /\ todo' = [todo EXCEPT ![w] = list]
  /\ UNCHANGED <<event, current, matching, startedAt, notifierVars, protectVars,
                 historyVars>>

(* register_automation: a POST whose failure is only logged. *)
Registering(a, accepted) ==
  registered' = IF accepted THEN registered \cup {a} ELSE registered

Register(w, a, accepted) ==
  /\ pc[w] = "register" /\ a \in todo[w]
  /\ todo' = [todo EXCEPT ![w] = @ \ {a}]
  /\ Registering(a, accepted)
  /\ UNCHANGED <<pc, callVars, notifierVars, restarts, clock, historyVars>>

Publish(w) ==
  /\ pc[w] = "register" /\ todo[w] = {}
  /\ Goto(w, "copy")
  /\ automations' = parsed[w]
  /\ listedAt' = clock
  /\ UNCHANGED <<callVars, todo, lastFired, protectVars, historyVars>>

(***************************************************************************)
(* notify: walk over a copy of the list, whose order is Protect's.         *)
(***************************************************************************)
Copy(w) ==
  /\ pc[w] = "copy"
  /\ Goto(w, "walk")
  /\ todo' = [todo EXCEPT ![w] = automations \cap matching[w]]
  /\ UNCHANGED <<callVars, notifierVars, protectVars, historyVars>>

BadCoolingDown(a, t) == /\ Cooldown[a] > 0
                        /\ lastFired[a] # -1
                        /\ (t - lastFired[a]) % Width < Cooldown[a] - 1

(* The difference of two uint64_t: an event older than the last one wraps. *)
CoolingDown(a, t) == /\ Cooldown[a] > 0
                     /\ lastFired[a] # -1
                     /\ (t - lastFired[a]) % Width < Cooldown[a]

Skip(w, a) ==
  /\ pc[w] = "walk" /\ a \in todo[w]
  /\ CoolingDown(a, startedAt[event[w]])
  /\ todo' = [todo EXCEPT ![w] = @ \ {a}]
  /\ UNCHANGED <<pc, callVars, notifierVars, protectVars, historyVars>>

Fire(w, a) ==
  /\ pc[w] = "walk" /\ a \in todo[w]
  /\ ~CoolingDown(a, startedAt[event[w]])
  /\ todo' = [todo EXCEPT ![w] = @ \ {a}]
  /\ current' = [current EXCEPT ![w] = a]
  /\ Goto(w, "post")
  /\ UNCHANGED <<event, matching, parsed, startedAt, notifierVars, protectVars,
                 historyVars>>

(* POST /actions/notify: Protect accepts what it knows, answers 500 to what *)
(* it does not, and may not be reached, or answer anything else.            *)
Accepted(w) == /\ current[w] \in registered
               /\ delivered' = delivered \cup {<<event[w], current[w]>>}
               /\ UNCHANGED trouble

Unknown(w) == /\ current[w] \notin registered
              /\ UNCHANGED <<delivered, trouble>>

Lost(w) == /\ trouble' = [trouble EXCEPT ![w] = TRUE]
           /\ UNCHANGED delivered

BadPost(w) ==
  /\ pc[w] = "post"
  /\ Accepted(w) \/ Unknown(w) \/ Lost(w)
  /\ Goto(w, "stamp")
  /\ UNCHANGED <<callVars, todo, notifierVars, protectVars>>

Post(w) ==
  /\ pc[w] = "post"
  /\ \/ (Accepted(w) \/ Lost(w)) /\ Goto(w, "stamp")
     \/ Unknown(w) /\ Goto(w, "reregister")
  /\ UNCHANGED <<callVars, todo, notifierVars, protectVars>>

Reregister(w, accepted) ==
  /\ pc[w] = "reregister"
  /\ Goto(w, "repost")
  /\ Registering(current[w], accepted)
  /\ IF accepted THEN UNCHANGED trouble
                 ELSE trouble' = [trouble EXCEPT ![w] = TRUE]
  /\ UNCHANGED <<callVars, todo, notifierVars, restarts, clock, delivered>>

(* The second attempt is the last, whatever it is answered. *)
Repost(w) ==
  /\ pc[w] = "repost"
  /\ Accepted(w) \/ Unknown(w) \/ Lost(w)
  /\ Goto(w, "stamp")
  /\ UNCHANGED <<callVars, todo, notifierVars, protectVars>>

(* Fired counts as fired, though it may not have come through. *)
Stamp(w) ==
  /\ pc[w] = "stamp"
  /\ Goto(w, "walk")
  /\ lastFired' = [lastFired EXCEPT ![current[w]] = startedAt[event[w]]]
  /\ current' = [current EXCEPT ![w] = None]
  /\ trouble' = [trouble EXCEPT ![w] = FALSE]
  /\ UNCHANGED <<event, matching, parsed, startedAt, todo, automations, listedAt,
                 protectVars, delivered>>

End(w) ==
  /\ pc[w] = "walk" /\ todo[w] = {}
  /\ Goto(w, "idle")
  /\ event' = [event EXCEPT ![w] = None]
  /\ matching' = [matching EXCEPT ![w] = {}]
  /\ parsed' = [parsed EXCEPT ![w] = {}]
  /\ UNCHANGED <<current, startedAt, todo, notifierVars, protectVars, historyVars>>

-----------------------------------------------------------------------------
(***************************************************************************)
(* Protect and time.                                                       *)
(***************************************************************************)
Restart ==
  /\ restarts < MaxRestarts
  /\ restarts' = restarts + 1
  /\ registered' = {}
  /\ trouble' = [w \in Callers |-> pc[w] \in Firing]
  /\ UNCHANGED <<pc, callVars, todo, notifierVars, clock, delivered>>

Tick ==
  /\ clock < MaxTime
  /\ clock' = clock + 1
  /\ UNCHANGED <<pc, callVars, todo, notifierVars, registered, restarts, historyVars>>

-----------------------------------------------------------------------------
Proceed(w) ==
  \/ LoadFails(w) \/ Publish(w) \/ Copy(w)
  \/ \E list \in SUBSET Automations : Load(w, list)
  \/ Post(w) \/ Repost(w) \/ Stamp(w) \/ End(w)
  \/ \E accepted \in BOOLEAN : Reregister(w, accepted)
  \/ \E a \in Automations : Skip(w, a) \/ Fire(w, a)
  \/ \E a \in Automations, accepted \in BOOLEAN : Register(w, a, accepted)

Next == \/ \E w \in Callers : Proceed(w)
        \/ \E w \in Callers, matched \in SUBSET Automations : Notify(w, matched)
        \/ Restart \/ Tick

Spec == Init /\ [][Next]_vars

-----------------------------------------------------------------------------
TypeOK ==
  /\ pc \in [Callers -> Labels]
  /\ event \in [Callers -> Events \cup {None}]
  /\ current \in [Callers -> Automations \cup {None}]
  /\ matching \in [Callers -> SUBSET Automations]
  /\ parsed \in [Callers -> SUBSET Automations]
  /\ todo \in [Callers -> SUBSET Automations]
  /\ automations \subseteq Automations
  /\ listedAt \in 0 .. MaxTime
  /\ lastFired \in [Automations -> -1 .. MaxTime]
  /\ registered \subseteq Automations
  /\ restarts \in 0 .. MaxRestarts
  /\ clock \in 0 .. MaxTime
  /\ startedAt \in Seq(0 .. MaxTime) /\ Len(startedAt) <= MaxEvents
  /\ delivered \subseteq Events \X Automations
  /\ trouble \in [Callers -> BOOLEAN]

(* "Enforce cooldown: skip if last fire was within the cooldown window"    *)
(* (alarm_notifier.cpp:729): two notifications of an automation that went  *)
(* out are for events at least its cooldown apart, whatever restarts,      *)
(* second attempts and changes of the list came in between.                *)
CooldownKept ==
  \A n, m \in delivered :
    n[2] = m[2] /\ n[1] < m[1] =>
      startedAt[m[1]] - startedAt[n[1]] >= Cooldown[n[2]]

(* A restart of Protect that a caller does not live through costs no       *)
(* alarm: an automation that starts its cooldown was notified, after       *)
(* registering it again if need be, unless a call to Protect failed        *)
(* meanwhile (alarm_notifier.cpp:760-769, 775-779).                        *)
CoolsDownForAReason ==
  [][\A w \in Callers :
       Stamp(w) => trouble[w] \/ <<event[w], current[w]>> \in delivered]_vars
=============================================================================
