---------------------------- MODULE MsrBackfill -----------------------------
(***************************************************************************)
(* src/src/msr_backfill.cpp over src/src/pg_util.cpp: at each startup the  *)
(* pictures of third-party events that are still rows of thumbnails are    *)
(* stored in MSR and the events and smartDetectObjects rows that name them *)
(* are changed to the new id; then the row is deleted.                     *)
(*                                                                         *)
(* Events are numbered in the order of their starts.  What the backfill    *)
(* did to event e is <<"events", e>> (its thumbnailId is MSR's),           *)
(* <<"objects", e>> and <<"thumbnails", e>> (the row is gone); `moved' is  *)
(* committed, `own' is in the open transaction.                            *)
(***************************************************************************)
EXTENDS Integers, FiniteSetsExt

CONSTANTS Events,    \* third-party events within backfill_msr_thumbnails days
          Apply,     \* backfill_apply
          MaxTrouble,\* bound: statements and calls that fail
          MaxRuns    \* bound: startups

VARIABLES present,   \* the events that exist
          pictures,  \* the events that had a row of thumbnails, not empty
          stored,    \* the pictures MSR has
          moved, own,
          open,      \* the session: "auto", in a "transaction", "aborted"
          pc,
          todo,      \* rows of the candidate query not yet examined
          trouble, runs

dbVars == <<present, pictures, moved, own, open>>
vars == <<dbVars, stored, pc, todo, trouble, runs>>

Tables == {"events", "objects", "thumbnails"}

Init == /\ present = Events /\ pictures \in SUBSET Events
        /\ stored = {} /\ moved = {} /\ own = {} /\ open = "auto"
        /\ pc = "off" /\ todo = {} /\ trouble = 0 /\ runs = 0

Current == Max(todo)

Goto(from, to) == pc = from /\ pc' = to

-----------------------------------------------------------------------------
(***************************************************************************)
(* pg::Exec*WithTimeout: a statement succeeds, fails, times out but took   *)
(* effect before it was cancelled ("late"), or takes the connection with it*)
(* ("lost": PQreset opens a new session, the transaction is undone).  In an*)
(* aborted transaction every statement fails.                              *)
(***************************************************************************)
Results == {"ok", "error", "late", "lost"}

Possible(res) ==
  \/ res = "ok" /\ open # "aborted" /\ trouble' = trouble
  \/ res = "error" /\ open = "aborted" /\ trouble' = trouble
  \/ res # "ok" /\ trouble < MaxTrouble /\ trouble' = trouble + 1

Change(table, res) ==
  LET change == IF res \in {"ok", "late"} /\ open # "aborted" THEN {<<table, Current>>} ELSE {}
  IN  /\ Possible(res)
      /\ moved' = IF open = "auto" THEN moved \cup change ELSE moved
      /\ own' = IF open = "auto" \/ res = "lost" THEN {} ELSE own \cup change
      /\ open' = IF res = "lost" THEN "auto"
                 ELSE IF res = "error" /\ open # "auto" THEN "aborted" ELSE open
      /\ UNCHANGED <<present, pictures>>

(* COMMIT of an aborted transaction undoes it, as ROLLBACK does. *)
CommitOwn == moved' = (IF open = "aborted" THEN moved ELSE moved \cup own)

Close(undone, res) ==
  /\ IF res = "error" THEN UNCHANGED <<open, own>> ELSE open' = "auto" /\ own' = {}
  /\ IF res \in {"ok", "late"} /\ ~undone THEN CommitOwn ELSE UNCHANGED moved
  /\ res = "ok" \/ trouble < MaxTrouble
  /\ trouble' = IF res = "ok" THEN trouble ELSE trouble + 1
  /\ UNCHANGED <<present, pictures>>

-----------------------------------------------------------------------------
(* What has an id of 24 characters is a candidate. *)
Start == /\ pc = "off" /\ runs < MaxRuns
         /\ runs' = runs + 1
         /\ pc' = "fetch"
         /\ todo' = {e \in present : <<"events", e>> \notin moved}
         /\ UNCHANGED <<dbVars, stored, trouble>>

Skip == todo' = todo \ {Current}

Finish == /\ pc = "fetch" /\ todo = {}
          /\ pc' = "off"
          /\ open' = "auto" /\ own' = {}
          /\ UNCHANGED <<present, pictures, moved, stored, todo, trouble, runs>>

(* The picture cannot be read (the session survives that, but a            *)
(* transaction it left open does not) or there is none, or it is a dry run.*)
HasPicture == Current \in pictures /\ <<"thumbnails", Current>> \notin moved \cup own

NoPicture == /\ pc = "fetch" /\ todo # {}
             /\ ~HasPicture \/ ~Apply
             /\ Skip
             /\ UNCHANGED <<dbVars, stored, pc, trouble, runs>>

FetchFails(res) == /\ pc = "fetch" /\ todo # {} /\ res # "ok"
                   /\ Possible(res)
                   /\ open' = IF res = "lost" THEN "auto" ELSE IF open = "auto" THEN open ELSE "aborted"
                   /\ own' = IF res = "lost" THEN {} ELSE own
                   /\ Skip
                   /\ UNCHANGED <<present, pictures, moved, stored, pc, runs>>

(* MSR has stored the picture, or StoreSnapshot gives up; it may have      *)
(* stored it all the same.                                                 *)
Store == /\ todo # {} /\ HasPicture /\ Apply /\ open # "aborted"
         /\ Goto("fetch", "begin")
         /\ stored' = stored \cup {Current}
         /\ UNCHANGED <<dbVars, todo, trouble, runs>>

StoreFails == /\ pc = "fetch" /\ todo # {} /\ HasPicture /\ Apply
              /\ trouble < MaxTrouble /\ trouble' = trouble + 1
              /\ \/ stored' = stored \/ stored' = stored \cup {Current}
              /\ Skip
              /\ UNCHANGED <<dbVars, pc, runs>>

(* The result of BEGIN is not looked at. *)
Begin(res) == /\ Goto("begin", "events")
              /\ Possible(res)
              /\ open' = IF res = "lost" THEN "auto"
                         ELSE IF res \in {"ok", "late"} /\ open = "auto" THEN "transaction" ELSE open
              /\ own' = IF res = "lost" THEN {} ELSE own
              /\ UNCHANGED <<present, pictures, moved, stored, todo, runs>>

BadUpdate(table, from, to, res) ==
  /\ Goto(from, IF res = "ok" \/ from = "objects" THEN to ELSE "rollback")
  /\ Change(table, res)
  /\ UNCHANGED <<stored, todo, runs>>

Update(table, from, to, res) ==
  /\ Goto(from, IF res = "ok" THEN to ELSE "rollback")
  /\ Change(table, res)
  /\ UNCHANGED <<stored, todo, runs>>

Commit(res) == /\ pc = "commit"
               /\ Close(FALSE, res)
               /\ IF res = "ok" THEN pc' = "fetch" /\ Skip ELSE pc' = "rollback" /\ todo' = todo
               /\ UNCHANGED <<stored, runs>>

(* Nor is that of ROLLBACK. *)
Rollback(res) == /\ Goto("rollback", "fetch")
                 /\ Close(TRUE, res)
                 /\ Skip
                 /\ UNCHANGED <<stored, runs>>

Statement(res) == \/ FetchFails(res) \/ Begin(res) \/ Commit(res) \/ Rollback(res)
                  \/ Update("events", "events", "objects", res)
                  \/ Update("objects", "objects", "delete", res)
                  \/ Update("thumbnails", "delete", "commit", res)

(* The process ends; the server undoes what it left open. *)
Crash == /\ pc # "off"
         /\ pc' = "off" /\ todo' = {} /\ open' = "auto" /\ own' = {}
         /\ UNCHANGED <<present, pictures, moved, stored, trouble, runs>>

(* coalesce_history, at the same time, deletes an event with its rows,     *)
(* unless the backfill has locked them.                                    *)
Coalesce(e) == /\ e \in present /\ \A t \in Tables : <<t, e>> \notin own
               /\ present' = present \ {e} /\ pictures' = pictures \ {e}
               /\ UNCHANGED <<moved, own, open, stored, pc, todo, trouble, runs>>

Next == \/ Start \/ Finish \/ NoPicture \/ Store \/ StoreFails \/ Crash
        \/ \E res \in Results : Statement(res)
        \/ \E e \in Events : Coalesce(e)

Spec == Init /\ [][Next]_vars /\ WF_vars(Next)

-----------------------------------------------------------------------------
TypeOK == /\ present \subseteq Events /\ pictures \subseteq Events /\ stored \subseteq Events
          /\ moved \subseteq Tables \X Events /\ own \subseteq Tables \X Events
          /\ open \in {"auto", "transaction", "aborted"}
          /\ pc \in {"off", "fetch", "begin", "events", "objects", "delete", "commit", "rollback"}
          /\ todo \subseteq Events

(* "obtain a new MSR-format id and atomically updates events.thumbnailId + *)
(* smartDetectObjects.thumbnailId, then deletes the old thumbnails row in a*)
(* single transaction" (msr_backfill.hpp:43-47): whichever statements fail,*)
(* even BEGIN, and wherever the process ends, no thumbnailId is left that  *)
(* neither table nor MSR knows.                                            *)
Resolves ==
  \A e \in present \cap pictures :
    /\ {<<"events", e>>, <<"objects", e>>} \cap moved # {} => e \in stored
    /\ <<"thumbnails", e>> \in moved => {<<"events", e>>, <<"objects", e>>} \subseteq moved
=============================================================================
