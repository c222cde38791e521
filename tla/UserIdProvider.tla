--------------------------- MODULE UserIdProvider ---------------------------
(***************************************************************************)
(* src/src/protect_user_id_provider.cpp: the user id that requests to      *)
(* Protect carry.  It is read from a file at startup, or from unifi-core's *)
(* database when there is none; a caller whose request is answered 401 has *)
(* it read again, at most once in kRefreshInterval.  The database is read  *)
(* outside the lock and may answer late, or not at all.                    *)
(*                                                                         *)
(* Ids are numbered in the order unifi-core hands them out.                *)
(***************************************************************************)
EXTENDS Integers

CONSTANTS Callers,   \* threads that send requests to Protect
          Interval,  \* kRefreshInterval
          MaxId,     \* bound: ids handed out
          MaxTrouble \* bound: queries unanswered, writes failed, crashes

VARIABLES real,    \* unifi-core: the id Protect accepts
          userId,  \* user_id_
          file,    \* the cache file; 0 = none, or too short to be an id
          age,     \* of last_refresh_attempt_, at most Interval
          at,      \* where each caller is in try_refresh
          fresh,   \* the id it was answered
          trouble

vars == <<real, userId, file, age, at, fresh, trouble>>

Ids == 1 .. MaxId

(* The file holds an id of an earlier run, if any. *)
Init == /\ real = 1 /\ file \in {0, 1}
        /\ userId = 1
        /\ age = Interval
        /\ at = [c \in Callers |-> "out"] /\ fresh = [c \in Callers |-> 0]
        /\ trouble = 0

Goto(c, from, to) == at[c] = from /\ at' = [at EXCEPT ![c] = to]

Troubled == trouble < MaxTrouble /\ trouble' = trouble + 1

(* try_refresh after a 401.  Within the interval it returns false at once. *)
Ask(c) == /\ age = Interval
          /\ Goto(c, "out", "query")
          /\ age' = 0
          /\ UNCHANGED <<real, userId, file, fresh, trouble>>

Answer(c) == /\ Goto(c, "query", "compare")
             /\ fresh' = [fresh EXCEPT ![c] = real]
             /\ UNCHANGED <<real, userId, file, age, trouble>>

NoAnswer(c) == /\ Goto(c, "query", "out")
               /\ Troubled
               /\ UNCHANGED <<real, userId, file, age, fresh>>

BadCompare(c) == /\ Goto(c, "compare", IF fresh[c] = userId THEN "out" ELSE "write")
                 /\ UNCHANGED <<real, userId, file, age, fresh, trouble>>

Compare(c) == /\ Goto(c, "compare", IF fresh[c] = userId THEN "out" ELSE "write")
              /\ userId' = fresh[c]
              /\ UNCHANGED <<real, file, age, fresh, trouble>>

Write(c) == /\ Goto(c, "write", "out")
            /\ file' = fresh[c]
            /\ UNCHANGED <<real, userId, age, fresh, trouble>>

WriteFails(c) == /\ Goto(c, "write", "out")
                 /\ Troubled
                 /\ UNCHANGED <<real, userId, file, age, fresh>>

(* discover_protect_user_id: a restart trusts the file, whatever is in it. *)
(* The process may have ended in the middle of a write.                    *)
Restart(torn) ==
  /\ Troubled
  /\ torn => \E c \in Callers : at[c] = "write"
  /\ LET left == IF torn THEN 0 ELSE file
     IN  userId' = (IF left # 0 THEN left ELSE real) /\ file' = userId'
  /\ age' = Interval
  /\ at' = [c \in Callers |-> "out"]
  /\ UNCHANGED <<real, fresh>>

Tick == age < Interval /\ age' = age + 1
        /\ UNCHANGED <<real, userId, file, at, fresh, trouble>>

(* An upgrade of Protect hands out another id. *)
Rotate == real < MaxId /\ real' = real + 1
          /\ UNCHANGED <<userId, file, age, at, fresh, trouble>>

Refresh(c) == Answer(c) \/ NoAnswer(c) \/ Compare(c) \/ Write(c) \/ WriteFails(c)

Next == \/ \E c \in Callers : Ask(c) \/ Refresh(c)
        \/ \E torn \in BOOLEAN : Restart(torn)
        \/ Tick \/ Rotate

(* Statements have timeouts and time goes on; whether anyone still sends   *)
(* requests is up to the cameras.                                          *)
Fairness == WF_vars(Tick) /\ \A c \in Callers : WF_vars(Refresh(c))

Spec == Init /\ [][Next]_vars /\ Fairness

-----------------------------------------------------------------------------
TypeOK == /\ real \in Ids /\ userId \in Ids /\ file \in Ids \cup {0}
          /\ age \in 0 .. Interval
          /\ at \in [Callers -> {"out", "query", "compare", "write"}]
          /\ fresh \in [Callers -> Ids \cup {0}]
          /\ trouble \in 0 .. MaxTrouble

(* "On observed 401 from Protect API, callers invoke try_refresh() to      *)
(* re-query unifi-core for a fresh user_id" (protect_user_id_provider.hpp: *)
(* 36-41): however late answers overwrite each other, and whatever the     *)
(* file holds at a restart, callers that go on asking end up with the id   *)
(* Protect accepts.                                                        *)
KeepAsking == \E c \in Callers : []<><<Ask(c)>>_vars

RotationIsFollowed == KeepAsking => <>[](userId = real)
=============================================================================
