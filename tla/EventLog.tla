------------------------------ MODULE EventLog ------------------------------
(***************************************************************************)
(* What DetectionRecorder promises the reader of Protect's timeline: each  *)
(* key (camera, type) has episodes, one at a time; an episode goes on      *)
(* while the camera detects, is taken up again when the camera starts      *)
(* again within the coalesce window of its end, and is followed by a new   *)
(* one only after more quiet than that (the comments of open_,             *)
(* last_event_ and set_coalesce_window in detection_recorder.hpp).         *)
(***************************************************************************)
EXTENDS Integers, Sequences, FiniteSetsExt

CONSTANTS Keys,       \* (camera, type)
          Gap         \* coalesce window of each key

VARIABLES now,        \* the wall clock
          active,     \* keys with an episode going on
          episodes    \* [key, from, to], in the order they began; to = 0
                      \* while never ended

logVars == <<now, active, episodes>>

Init == /\ now \in Nat
        /\ active = {}
        /\ episodes = <<>>

(* The episodes of a key, and the one that began last. *)
Of(k) == {i \in DOMAIN episodes : episodes[i].key = k}
Latest(k) == Max(Of(k))

(* A detection that began at `from` opens an episode, after enough quiet. *)
Begin(k, from) ==
  /\ k \notin active
  /\ active' = active \cup {k}
  /\ from <= now
  /\ Of(k) # {} => LET last == episodes[Latest(k)].to
                   IN  last # 0 /\ from - last > Gap[k]
  /\ episodes' = Append(episodes, [key |-> k, from |-> from, to |-> 0])
  /\ UNCHANGED now

(* One that began soon after the end takes the episode up again. *)
Resume(k) ==
  /\ k \notin active
  /\ active' = active \cup {k}
  /\ Of(k) # {}
  /\ now - episodes[Latest(k)].to <= Gap[k]
  /\ UNCHANGED <<now, episodes>>

(* The detection ends, and so does the episode, for the time being. *)
End(k) ==
  /\ k \in active
  /\ active' = active \ {k}
  /\ episodes' = [episodes EXCEPT ![Latest(k)].to = now]
  /\ UNCHANGED now

Pass == /\ now' = now + 1
        /\ UNCHANGED <<active, episodes>>

Next == \/ \E k \in Keys :
             \/ Resume(k) \/ End(k)
             \/ \E from \in 0 .. now : Begin(k, from)
        \/ Pass

Spec == Init /\ [][Next]_logVars
=============================================================================
