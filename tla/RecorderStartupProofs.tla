----------------------- MODULE RecorderStartupProofs -----------------------
(***************************************************************************)
(* Theorems of RecorderStartup, for every finite history of rows, window   *)
(* and number of interruptions.                                            *)
(***************************************************************************)
EXTENDS RecorderStartup, FiniteSetTheorems, SequenceTheorems, TLAPS

(* The columns no statement changes, as Init leaves them.                  *)
ColumnsInv ==
  /\ group \in [Ids -> Groups] /\ start \in [Ids -> Times]
  /\ before \in [Ids -> Times \cup {0}]
  /\ \A i, j \in Ids :
       i < j => start[i] <= start[j] /\ (group[i] = group[j] => start[i] < start[j])

Merging == {"extend", "raws", "thumbnails", "objects", "labels", "event"}
Walks == {"walk"} \cup Merging

(* Where the walk is in its list, and that what it merges is near.         *)
PlaceInv ==
  /\ phase \in Walks => /\ Window > 0
                        /\ base \in 1 .. Len(list) /\ next \in base + 1 .. Len(list) + 1
  /\ phase \in Merging => next <= Len(list) /\ Within

StartupTyped == TypeOK /\ ColumnsInv /\ PlaceInv

(***************************************************************************)
(* The rest is about startups in which no statement fails.                 *)
(***************************************************************************)

(* The list has every ended row, without repetition and in the order of    *)
(* the query.  None is left between base and next; up to base, rows of a   *)
(* group are more than the window apart.                                   *)
Listed(id, m, n) ==
  /\ id[m] # id[n]
  /\ m < n => \/ group[id[m]] < group[id[n]]
              \/ group[id[m]] = group[id[n]] /\ start[id[m]] <= start[id[n]]

Near(i, j) == group[i] = group[j] /\ start[j] - end[i] <= Window

ids == [m \in DOMAIN list |-> list[m].id]

ListInv ==
  phase \in Walks \cup {"orphans", "done"} /\ Window > 0 =>
    /\ \A m, n \in DOMAIN list : m # n => Listed(ids, m, n)
    /\ \A i \in Ended : \E m \in DOMAIN list : ids[m] = i
    /\ \A m \in DOMAIN list : ids[m] \in present => m <= base \/ m >= next
    /\ \A m, n \in DOMAIN list :
         m < n /\ n <= base /\ ids[m] \in present /\ ids[n] \in present => ~Near(ids[m], ids[n])
    /\ phase \notin Walks => next > Len(list)

(* What the walk has not come to is as the query found it, and what the    *)
(* list says of the end of the base is true, but for the row at hand.      *)
AheadInv ==
  phase \in Walks =>
    /\ into \in present
    /\ \A m \in DOMAIN list : m >= next => ids[m] \in present /\ list[m].end = end[ids[m]]
    /\ end[into] = IF phase \in {"walk", "extend"} THEN list[base].end ELSE NewEnd

(* Rows end after they start. *)
EndsInv == \A i \in Ids : end[i] # 0 => start[i] <= end[i]

(* The time of i is covered by j. *)
Covers(j, i, until) == group[j] = group[i] /\ start[j] <= start[i] /\ end[j] >= until

CoverInv == \A i \in Ids : before[i] # 0 => \E j \in present : Covers(j, i, before[i])

(* A row that lost a dependent ends no later than an earlier one of its    *)
(* group, so that the next startup finds the two overlap and merges them.  *)
Whole(i) == Tables \X {i} \subseteq deps

StrippedInv ==
  \A i \in present : ~Whole(i) =>
    /\ Window > 0 /\ end[i] # 0
    /\ \E j \in present : j # i /\ Covers(j, i, end[i])

RowsInv == ListInv /\ AheadInv /\ EndsInv /\ CoverInv /\ StrippedInv

StartupInv == StartupTyped /\ (~faults => RowsInv)

-----------------------------------------------------------------------------
(***************************************************************************)
(* Types.                                                                  *)
(***************************************************************************)

(* During a walk, the base and the row at hand are rows of the list.       *)
LEMMA WalkTyped ==
  ASSUME StartupTyped, phase \in Walks
  PROVE  /\ base \in DOMAIN list /\ into \in Ids /\ list[base].end \in Times
         /\ next <= Len(list) =>
              /\ next \in DOMAIN list /\ from \in Ids
              /\ list[next].end \in Times /\ NewEnd \in Times
              /\ NewEnd >= list[base].end /\ NewEnd >= list[next].end
<1>1. /\ base \in 1 .. Len(list) /\ next \in base + 1 .. Len(list) + 1
      /\ list \in Seq([id : Ids, end : Times]) /\ Len(list) \in Nat
      /\ DOMAIN list = 1 .. Len(list)
  BY LenProperties DEF StartupTyped, PlaceInv, TypeOK
<1>2. \A m \in 1 .. Len(list) : list[m] \in [id : Ids, end : Times]
  BY <1>1, ElementOfSeq
<1>3. Times \subseteq Nat
  BY ConstantsAssumption
<1>4. /\ base \in DOMAIN list /\ into \in Ids /\ list[base].end \in Times
  BY <1>1, <1>2 DEF into
<1>5. ASSUME next <= Len(list)
      PROVE  next \in DOMAIN list /\ from \in Ids /\ list[next].end \in Times
  BY <1>1, <1>2, <1>5 DEF from
<1>6. ASSUME next <= Len(list)
      PROVE  /\ NewEnd \in Times
             /\ NewEnd >= list[base].end /\ NewEnd >= list[next].end
  <2>1. \A a, b \in Times :
          LET m == IF a >= b THEN a ELSE b IN m \in Times /\ m >= a /\ m >= b
    BY <1>3
  <2>2. list[base].end \in Times /\ list[next].end \in Times
    BY <1>4, <1>5, <1>6
  <2> QED
    BY <2>1, <2>2, Zenon DEF NewEnd
<1> QED
  BY <1>4, <1>5, <1>6

(* The rows of a query are those that ended, each once.                    *)
LEMMA OrderingsList ==
  ASSUME StartupTyped, NEW s \in Orderings
  PROVE  /\ Cardinality(Ended) \in Nat /\ DOMAIN s = 1 .. Cardinality(Ended)
         /\ \A m \in DOMAIN s : s[m] \in Ended /\ s[m] \in Ids /\ end[s[m]] \in Times
         /\ \A m, n \in DOMAIN s : s[m] = s[n] => m = n
         /\ \A i \in Ended : \E m \in DOMAIN s : s[m] = i
         /\ Ordered(s)
<1>1. /\ IsFiniteSet(Ended) /\ Ended \subseteq Ids
      /\ \A i \in Ended : i \in present /\ end[i] \in Times
  <2>1. Ended \subseteq Ids /\ \A i \in Ended : i \in present /\ end[i] \in Times
    BY DEF Ended, StartupTyped, TypeOK
  <2> QED
    BY <2>1, ConstantsAssumption, FS_Subset
<1>2. Cardinality(Ended) \in Nat
  BY <1>1, FS_CardinalityType
<1>3. /\ s \in [1 .. Cardinality(Ended) -> Ended] /\ Ordered(s)
      /\ \A m, n \in DOMAIN s : s[m] = s[n] => m = n
  BY DEF Orderings
<1>4. \A i \in Ended : \E m \in DOMAIN s : s[m] = i
  <2>1. IsFiniteSet(1 .. Cardinality(Ended)) /\ Cardinality(1 .. Cardinality(Ended)) = Cardinality(Ended)
    BY <1>2, FS_Interval
  <2>2. SUFFICES ASSUME NEW i \in Ended, \A m \in DOMAIN s : s[m] # i PROVE FALSE
    OBVIOUS
  <2>3. /\ IsFiniteSet(Ended \ {i}) /\ Cardinality(Ended \ {i}) = Cardinality(Ended) - 1
    BY <1>1, FS_RemoveElement
  <2>4. s \in [1 .. Cardinality(Ended) -> Ended \ {i}]
    BY <1>3, <2>2
  <2>5. \E m, n \in 1 .. Cardinality(Ended) : m # n /\ s[m] = s[n]
    BY <2>1, <2>3, <2>4, <1>2, FS_PigeonHole
  <2> QED
    BY <2>5, <1>3
<1> QED
  BY <1>1, <1>2, <1>3, <1>4

(* The list a query makes. *)
LEMMA QueryTyped ==
  ASSUME StartupTyped, NEW ok \in BOOLEAN, Query(ok)
  PROVE  StartupTyped'
<1>1. PICK s \in Orderings :
        list' = IF ok /\ Window > 0
                THEN [n \in DOMAIN s |-> [id |-> s[n], end |-> end[s[n]]]] ELSE <<>>
  BY DEF Query
<1>2. /\ Cardinality(Ended) \in Nat /\ DOMAIN s = 1 .. Cardinality(Ended)
      /\ \A m \in DOMAIN s : s[m] \in Ids /\ end[s[m]] \in Times
      /\ \A i \in Ended : \E m \in DOMAIN s : s[m] = i
  BY OrderingsList
<1>3. ok /\ Window > 0 => /\ list' \in Seq([id : Ids, end : Times])
                          /\ Len(list') = Cardinality(Ended)
  <2> SUFFICES ASSUME ok /\ Window > 0
               PROVE  /\ list' \in Seq([id : Ids, end : Times])
                      /\ Len(list') = Cardinality(Ended)
    OBVIOUS
  <2>1. list' \in [1 .. Cardinality(Ended) -> [id : Ids, end : Times]]
    BY <1>1, <1>2
  <2>2. list' \in Seq([id : Ids, end : Times])
    <3> DEFINE S == [id : Ids, end : Times]
                n == Cardinality(Ended)
    <3>1. n \in Nat /\ list' \in [1 .. n -> S]
      BY <2>1, <1>2
    <3> HIDE DEF S, n
    <3>2. list' \in Seq(S)
      BY <3>1, SeqDef
    <3> QED
      BY <3>2 DEF S
  <2>3. DOMAIN list' = 1 .. Cardinality(Ended)
    BY <2>1
  <2>4. DOMAIN list' = 1 .. Len(list') /\ Len(list') \in Nat
    BY <2>2, LenProperties
  <2> QED
    BY <2>2, <2>3, <2>4, <1>2
<1>4. ~(ok /\ Window > 0) => list' = <<>> /\ Len(list') = 0
  BY <1>1
<1>5. <<>> \in Seq([id : Ids, end : Times])
  OBVIOUS
<1>6. /\ list' \in Seq([id : Ids, end : Times]) /\ Len(list') \in Nat
      /\ base' = 1 /\ next' = 2
  BY <1>2, <1>3, <1>4, <1>5 DEF Query
<1>7. phase' \in {"walk", "orphans"} /\ (phase' = "walk" => ok /\ Window > 0 /\ Ended # {})
  BY DEF Query, Goto
<1>8. phase' = "walk" => Len(list') >= 1
  <2>1. Ended # {} => Cardinality(Ended) >= 1
    BY <1>2
  <2> QED
    BY <2>1, <1>3, <1>7
<1>9. TypeOK'
  BY <1>6, <1>7 DEF StartupTyped, TypeOK, Query, columns, Phases
<1>10. ColumnsInv'
  BY DEF StartupTyped, ColumnsInv, Query, columns
<1>11. PlaceInv'
  BY <1>6, <1>7, <1>8 DEF PlaceInv, Walks, Merging
<1> QED
  BY <1>9, <1>10, <1>11 DEF StartupTyped

(* The other steps keep the types. *)
LEMMA WalkStepTyped ==
  ASSUME StartupTyped, KeepApart \/ Merge \/ EndWalk
  PROVE  StartupTyped'
<1>1. Len(list) \in Nat /\ list' = list
  BY LenProperties DEF StartupTyped, TypeOK, KeepApart, Merge, EndWalk, locals
<1>2. TypeOK'
  BY <1>1 DEF StartupTyped, TypeOK, PlaceInv, KeepApart, Merge, EndWalk, Walking, columns, locals,
              Phases, Walks
<1>3. ColumnsInv'
  BY DEF StartupTyped, ColumnsInv, KeepApart, Merge, EndWalk, columns
<1>4. PlaceInv'
  <2>1. CASE KeepApart
    BY <2>1, <1>1 DEF StartupTyped, PlaceInv, KeepApart, Walking, Walks, Merging
  <2>2. CASE Merge
    <3>1. Within' = Within
      BY <2>2 DEF Merge, Within, columns, locals, into, from
    <3> QED
      BY <2>2, <3>1, <1>1 DEF StartupTyped, PlaceInv, Merge, Walking, Walks, Merging, locals
  <2>3. CASE EndWalk
    BY <2>3 DEF PlaceInv, EndWalk, Walks, Merging
  <2> QED
    BY <2>1, <2>2, <2>3
<1> QED
  BY <1>2, <1>3, <1>4 DEF StartupTyped

(* A statement of a merge changes an end or dependents, never the walk. *)
LEMMA StatementTyped ==
  ASSUME StartupTyped, NEW ok \in BOOLEAN,
         \/ Extend(ok) \/ DeleteRaws(ok)
         \/ DeleteOwned("thumbnails", "objects", ok)
         \/ DeleteOwned("objects", "labels", ok)
         \/ DeleteOwned("labels", "event", ok)
  PROVE  StartupTyped'
<1>1. /\ phase \in Merging /\ phase' \in Merging /\ phase' \in Phases
      /\ UNCHANGED <<columns, locals, crashes>>
  BY DEF Extend, DeleteRaws, DeleteOwned, Goto, Merging, Phases
<1>2. into \in Ids /\ NewEnd \in Times
  BY <1>1, WalkTyped DEF Walks, StartupTyped, PlaceInv
<1>3. end' \in [Ids -> Times \cup {0}]
  BY <1>2 DEF Extend, DeleteRaws, DeleteOwned, StartupTyped, TypeOK
<1>4. deps' \subseteq deps /\ present' = present
  BY DEF Extend, DeleteRaws, DeleteOwned
<1>5. TypeOK'
  BY <1>1, <1>3, <1>4 DEF StartupTyped, TypeOK, columns, locals
<1>6. ColumnsInv'
  BY <1>1 DEF StartupTyped, ColumnsInv, columns
<1>7. Within' = Within
  BY <1>1 DEF Within, columns, locals, into, from
<1>8. PlaceInv'
  BY <1>1, <1>7 DEF StartupTyped, PlaceInv, Walks, locals
<1> QED
  BY <1>5, <1>6, <1>8 DEF StartupTyped

(* The base absorbs the row: the list keeps its rows, and the base has the new end. *)
LEMMA DeleteEventTyped ==
  ASSUME StartupTyped, NEW ok \in BOOLEAN, DeleteEvent(ok)
  PROVE  /\ StartupTyped' /\ Len(list') = Len(list) /\ DOMAIN list' = DOMAIN list
         /\ \A m \in DOMAIN list : /\ list'[m].id = list[m].id
                                   /\ m # base => list'[m] = list[m]
         /\ list'[base].end = NewEnd
<1>1. /\ phase = "event" /\ phase' = "walk" /\ phase \in Walks
      /\ present' \subseteq present /\ next' = next + 1
      /\ list' = [list EXCEPT ![base].end = NewEnd]
      /\ UNCHANGED <<columns, end, deps, base, crashes>>
  BY DEF DeleteEvent, Goto, Walks, Merging
<1>2. /\ base \in 1 .. Len(list) /\ next \in base + 1 .. Len(list) /\ Window > 0
      /\ list \in Seq([id : Ids, end : Times]) /\ Len(list) \in Nat
      /\ DOMAIN list = 1 .. Len(list)
  BY <1>1, LenProperties DEF StartupTyped, PlaceInv, TypeOK, Walks, Merging
<1>3. NewEnd \in Times /\ list[base] \in [id : Ids, end : Times]
  <2>1. NewEnd \in Times
    BY <1>1, <1>2, WalkTyped
  <2>2. list[base] \in [id : Ids, end : Times]
    BY <1>2, ElementOfSeq
  <2> QED
    BY <2>1, <2>2
<1>4. list' = [list EXCEPT ![base] = [list[base] EXCEPT !.end = NewEnd]]
  BY <1>1
<1>5. [list[base] EXCEPT !.end = NewEnd] \in [id : Ids, end : Times]
  BY <1>3
<1>6. /\ list' \in Seq([id : Ids, end : Times]) /\ Len(list') = Len(list)
  BY <1>2, <1>4, <1>5, ExceptSeq
<1>7. /\ DOMAIN list' = DOMAIN list
      /\ \A m \in DOMAIN list : /\ list'[m].id = list[m].id
                                /\ m # base => list'[m] = list[m]
      /\ list'[base].end = NewEnd
  BY <1>1, <1>2, <1>3
<1>8. TypeOK'
  BY <1>1, <1>2, <1>6 DEF StartupTyped, TypeOK, columns, Phases
<1>9. ColumnsInv'
  BY <1>1 DEF StartupTyped, ColumnsInv, columns
<1>10. PlaceInv'
  BY <1>1, <1>2, <1>6 DEF PlaceInv, Walks, Merging
<1> QED
  BY <1>6, <1>7, <1>8, <1>9, <1>10 DEF StartupTyped

(* A purge only deletes, a crash loses the list. *)
LEMMA PurgeTyped ==
  ASSUME StartupTyped,
         Crash \/ \E ok \in BOOLEAN : PurgeStale(ok) \/ PurgeOrphans(ok)
  PROVE  StartupTyped'
<1>1. /\ phase' \in {"stale", "query", "done"} /\ present' \subseteq present /\ deps' \subseteq deps
      /\ UNCHANGED <<columns, end>>
  BY DEF Crash, PurgeStale, PurgeOrphans, Goto
<1>2. \/ UNCHANGED <<locals, crashes>>
      \/ list' = <<>> /\ base' = 0 /\ next' = 0 /\ crashes' \in 0 .. MaxCrashes
  BY ConstantsAssumption DEF Crash, PurgeStale, PurgeOrphans, StartupTyped, TypeOK
<1>3. <<>> \in Seq([id : Ids, end : Times]) /\ Len(<<>>) = 0
  OBVIOUS
<1>4. TypeOK'
  <2>1. /\ list' \in Seq([id : Ids, end : Times])
        /\ base' \in 0 .. Len(list') + 1 /\ next' \in 0 .. Len(list') + 2
        /\ crashes' \in 0 .. MaxCrashes
    <3>1. CASE UNCHANGED <<locals, crashes>>
      BY <3>1 DEF StartupTyped, TypeOK, locals
    <3>2. CASE list' = <<>> /\ base' = 0 /\ next' = 0 /\ crashes' \in 0 .. MaxCrashes
      BY <3>2, <1>3
    <3> QED
      BY <1>2, <3>1, <3>2
  <2> QED
    BY <2>1, <1>1 DEF StartupTyped, TypeOK, columns, Phases
<1>5. ColumnsInv'
  BY <1>1 DEF StartupTyped, ColumnsInv, columns
<1>6. PlaceInv'
  BY <1>1 DEF PlaceInv, Walks, Merging
<1> QED
  BY <1>4, <1>5, <1>6 DEF StartupTyped

(* Every step keeps the types. *)
LEMMA NextTyped ==
  ASSUME StartupTyped, [Next]_vars
  PROVE  StartupTyped'
<1>1. CASE Next
  <2>1. \A ok \in Outcomes : ok \in BOOLEAN
    BY DEF Outcomes
  <2> QED
    BY <1>1, <2>1, QueryTyped, WalkStepTyped, StatementTyped, DeleteEventTyped, PurgeTyped
    DEF Next, Step
<1>2. CASE UNCHANGED vars
  BY <1>2 DEF StartupTyped, TypeOK, ColumnsInv, PlaceInv, Within, into, from, vars, columns, locals
<1> QED
  BY <1>1, <1>2

(* They hold of every history a startup may find. *)
LEMMA InitTyped ==
  ASSUME Init
  PROVE  StartupTyped
<1>1. <<>> \in Seq([id : Ids, end : Times]) /\ Len(<<>>) = 0
  OBVIOUS
<1> QED
  BY <1>1, ConstantsAssumption
  DEF Init, StartupTyped, TypeOK, ColumnsInv, PlaceInv, Phases, Walks, Merging

(* Types, with failing statements or without. *)
THEOREM TypeCorrect == Spec => []TypeOK
<1>1. StartupTyped => TypeOK
  BY DEF StartupTyped
<1> QED
  BY <1>1, InitTyped, NextTyped, PTL DEF Spec

-----------------------------------------------------------------------------
(***************************************************************************)
(* Startups in which every statement succeeds.                             *)
(***************************************************************************)

(* No two rows of a group start at once. *)
LEMMA StartsDiffer ==
  ASSUME StartupTyped
  PROVE  /\ \A i \in Ids : /\ start[i] \in Nat /\ end[i] \in Nat /\ before[i] \in Nat
                           /\ group[i] \in Nat
         /\ \A i, j \in Ids : i # j /\ group[i] = group[j] /\ start[i] <= start[j]
                                => i < j /\ start[i] < start[j]
<1>1. \A i \in Ids : /\ i \in Nat /\ start[i] \in Nat /\ end[i] \in Nat
                     /\ before[i] \in Nat /\ group[i] \in Nat
  <2>1. /\ \A i \in Ids : i \in Nat
        /\ \A t \in Times \cup {0} : t \in Nat
        /\ \A g \in Groups : g \in Nat
    BY ConstantsAssumption
  <2>2. \A i \in Ids : /\ start[i] \in Times \cup {0} /\ end[i] \in Times \cup {0}
                       /\ before[i] \in Times \cup {0} /\ group[i] \in Groups
    BY DEF StartupTyped, TypeOK, ColumnsInv
  <2> QED
    BY <2>1, <2>2
<1>2. \A i, j \in Ids :
        i < j => start[i] <= start[j] /\ (group[i] = group[j] => start[i] < start[j])
  BY DEF StartupTyped, ColumnsInv
<1>3. ASSUME NEW i \in Ids, NEW j \in Ids, i # j, group[i] = group[j], start[i] <= start[j]
      PROVE  i < j /\ start[i] < start[j]
  <2>1. CASE i < j
    BY <2>1, <1>2, <1>3
  <2>2. CASE j < i
    <3>1. start[j] < start[i]
      BY <2>2, <1>2, <1>3
    <3> QED
      BY <3>1, <1>1, <1>3
  <2> QED
    BY <2>1, <2>2, <1>1, <1>3
<1> QED
  BY <1>1, <1>3

(* In the list, a row of a group comes after those that start before it.   *)
LEMMA ListedInOrder ==
  ASSUME StartupTyped, ListInv, phase \in Walks \cup {"orphans", "done"}, Window > 0,
         NEW m \in DOMAIN list, NEW n \in DOMAIN list,
         group[ids[m]] = group[ids[n]], ids[m] # ids[n], start[ids[m]] <= start[ids[n]]
  PROVE  m < n
<1>1. /\ ids[m] \in Ids /\ ids[n] \in Ids /\ m \in Nat /\ n \in Nat
  <2>1. list \in Seq([id : Ids, end : Times]) /\ DOMAIN list = 1 .. Len(list)
    BY LenProperties DEF StartupTyped, TypeOK
  <2>2. list[m] \in [id : Ids, end : Times] /\ list[n] \in [id : Ids, end : Times]
    BY <2>1, ElementOfSeq
  <2> QED
    BY <2>1, <2>2 DEF ids
<1>2. start[ids[m]] < start[ids[n]] /\ start[ids[m]] \in Nat /\ start[ids[n]] \in Nat
      /\ group[ids[m]] \in Nat
  BY <1>1, StartsDiffer
<1>3. m # n
  OBVIOUS
<1>4. ~(n < m)
  <2> SUFFICES ASSUME n < m PROVE FALSE
    OBVIOUS
  <2>1. Listed(ids, n, m)
    BY <1>3 DEF ListInv
  <2> QED
    BY <2>1, <1>2 DEF Listed
<1> QED
  BY <1>1, <1>3, <1>4

(* A row the walk has come past is whole: otherwise it would have been     *)
(* merged into the row that covers it.                                     *)
LEMMA HandledIsWhole ==
  ASSUME StartupTyped, RowsInv, phase \in Walks \cup {"orphans", "done"}, Window > 0,
         NEW m \in DOMAIN list, m <= base, ids[m] \in present
  PROVE  Whole(ids[m])
<1> DEFINE i == ids[m]
<1> SUFFICES ASSUME ~Whole(i) PROVE FALSE
  OBVIOUS
<1>1. i \in Ids /\ i \in present
  BY DEF StartupTyped, TypeOK
<1>2. PICK j \in present : j # i /\ Covers(j, i, end[i])
  BY <1>1 DEF RowsInv, StrippedInv
<1>3. end[i] # 0 /\ start[i] <= end[i]
  BY <1>1 DEF RowsInv, StrippedInv, EndsInv
<1>4. j \in Ids /\ end[j] >= end[i] /\ group[j] = group[i] /\ start[j] <= start[i]
  BY <1>2 DEF Covers, StartupTyped, TypeOK
<1>5. /\ start[i] \in Nat /\ end[i] \in Nat /\ end[j] \in Nat /\ Window \in Nat
  BY <1>1, <1>4, StartsDiffer, ConstantsAssumption
<1>6. j \in Ended
  BY <1>3, <1>4, <1>5 DEF Ended
<1>7. PICK n \in DOMAIN list : ids[n] = j
  BY <1>6 DEF RowsInv, ListInv
<1>8. n < m
  <2>1. ListInv
    BY DEF RowsInv
  <2> QED
    BY <2>1, <1>2, <1>4, <1>7, ListedInOrder
<1>9. ~Near(j, i)
  BY <1>1, <1>7, <1>8 DEF RowsInv, ListInv
<1> QED
  BY <1>3, <1>4, <1>5, <1>9 DEF Near

(* The base and the row at hand.                                           *)
LEMMA AtHand ==
  ASSUME StartupTyped, RowsInv, phase \in Walks
  PROVE  /\ into \in Ids /\ into \in present /\ into = ids[base] /\ base \in DOMAIN list
         /\ Whole(into) /\ Window > 0 /\ base < next
         /\ next <= Len(list) =>
              /\ next \in DOMAIN list
              /\ from \in Ids /\ from \in present /\ from # into /\ from = ids[next]
              /\ end[from] = list[next].end /\ end[from] # 0
              /\ phase \in Merging => /\ group[into] = group[from] /\ start[into] <= start[from]
                                      /\ NewEnd >= end[from]
<1>1. /\ base \in DOMAIN list /\ into \in Ids /\ list[base].end \in Times
      /\ next <= Len(list) =>
              /\ next \in DOMAIN list /\ from \in Ids
              /\ list[next].end \in Times /\ NewEnd \in Times
              /\ NewEnd >= list[base].end /\ NewEnd >= list[next].end
  BY WalkTyped
<1>2. /\ Window > 0 /\ base \in 1 .. Len(list) /\ next \in base + 1 .. Len(list) + 1
      /\ phase \in Merging => next <= Len(list) /\ Within
  BY DEF StartupTyped, PlaceInv
<1>3. into = ids[base] /\ into \in present
  BY <1>1 DEF ids, into, RowsInv, AheadInv
<1>4. Whole(into)
  BY <1>1, <1>2, <1>3, HandledIsWhole
<1>5. base < next
  BY <1>2
<1>6. ASSUME next <= Len(list)
      PROVE  /\ from = ids[next] /\ from \in present /\ end[from] = list[next].end
             /\ end[from] # 0 /\ from # into
             /\ phase \in Merging => /\ group[into] = group[from] /\ start[into] <= start[from]
                                     /\ NewEnd >= end[from]
  <2>1. next \in DOMAIN list /\ from = ids[next]
    BY <1>1, <1>6 DEF ids, from
  <2>2. from \in present /\ end[from] = list[next].end
    BY <2>1, <1>2 DEF RowsInv, AheadInv
  <2>3. end[from] # 0
    BY <2>2, <1>1, <1>6, ConstantsAssumption
  <2>4. Listed(ids, base, next)
    BY <2>1, <1>1, <1>2, <1>5 DEF RowsInv, ListInv
  <2>5. from # into
    BY <2>1, <2>4, <1>3 DEF Listed
  <2>6. ASSUME phase \in Merging
        PROVE  group[into] = group[from] /\ start[into] <= start[from] /\ NewEnd >= end[from]
    <3>1. group[into] = group[from]
      BY <2>6, <1>2 DEF Within
    <3>2. group[from] \in Nat
      BY <1>1, <1>6, StartsDiffer
    <3>3. start[into] <= start[from]
      BY <3>1, <3>2, <2>1, <2>4, <1>3, <1>5 DEF Listed
    <3> QED
      BY <3>1, <3>3, <2>2, <1>1, <1>6
  <2> QED
    BY <2>1, <2>2, <2>3, <2>5, <2>6
<1> QED
  BY <1>1, <1>2, <1>3, <1>4, <1>5, <1>6

(* Only rows without an end are purged, and their dependents.              *)
LEMMA PurgeStaleRows ==
  ASSUME StartupTyped, RowsInv, PurgeStale(TRUE)
  PROVE  RowsInv'
<1>1. /\ phase' = "query" /\ present' = present \ Stale
      /\ deps' = deps \ (Owned(Stale) \cup
                   UNION {RawsWithin(start[i], start[i] + RawGrace) : i \in Stale})
      /\ UNCHANGED <<columns, end>>
  BY DEF PurgeStale, Goto
<1>2. \A i \in present : end[i] # 0 => i \in present'
  BY <1>1 DEF Stale
<1>3. \A i \in present' : i \in present /\ (Whole(i) => Whole(i)')
  <2> SUFFICES ASSUME NEW i \in present', NEW t \in Tables, <<t, i>> \in deps
               PROVE  <<t, i>> \in deps'
    BY <1>1 DEF Whole
  <2>1. i \notin Stale /\ t # "raws"
    BY <1>1 DEF Tables
  <2> QED
    BY <2>1, <1>1 DEF Owned, RawsWithin
<1>4. \A i, j : \A u : Covers(j, i, u)' <=> Covers(j, i, u)
  BY <1>1 DEF Covers, columns
<1>5. /\ \A i \in Ids : end[i] \in Nat
      /\ present \subseteq Ids
      /\ \A i \in Ids : before[i] \in Nat
  BY StartsDiffer DEF StartupTyped, TypeOK
<1>6. CoverInv'
  <2> SUFFICES ASSUME NEW i \in Ids, before[i] # 0
               PROVE  \E j \in present' : Covers(j, i, before[i])
    BY <1>1, <1>4 DEF CoverInv, columns
  <2>1. PICK j \in present : Covers(j, i, before[i])
    BY DEF RowsInv, CoverInv
  <2>2. end[j] # 0
    BY <2>1, <1>5 DEF Covers
  <2> QED
    BY <2>1, <2>2, <1>2
<1>7. StrippedInv'
  <2> SUFFICES ASSUME NEW i \in present', ~Whole(i)
               PROVE  /\ Window > 0 /\ end[i] # 0
                      /\ \E j \in present' : j # i /\ Covers(j, i, end[i])
    BY <1>1, <1>3, <1>4 DEF StrippedInv
  <2>1. Window > 0 /\ end[i] # 0
    BY <1>3 DEF RowsInv, StrippedInv
  <2>2. PICK j \in present : j # i /\ Covers(j, i, end[i])
    BY <1>3 DEF RowsInv, StrippedInv
  <2>3. end[j] # 0
    BY <2>1, <2>2, <1>3, <1>5 DEF Covers
  <2> QED
    BY <2>1, <2>2, <2>3, <1>2
<1>8. ListInv' /\ AheadInv' /\ EndsInv'
  BY <1>1 DEF RowsInv, ListInv, AheadInv, EndsInv, Walks, Merging, columns
<1> QED
  BY <1>6, <1>7, <1>8 DEF RowsInv

(* The list the query makes: all ended rows, in order, none handled. *)
LEMMA QueryRows ==
  ASSUME StartupTyped, RowsInv, Query(TRUE)
  PROVE  RowsInv'
<1>1. PICK s \in Orderings :
        list' = IF Window > 0
                THEN [n \in DOMAIN s |-> [id |-> s[n], end |-> end[s[n]]]] ELSE <<>>
  BY DEF Query
<1>2. /\ Cardinality(Ended) \in Nat /\ DOMAIN s = 1 .. Cardinality(Ended)
      /\ \A m \in DOMAIN s : s[m] \in Ended
      /\ \A m, n \in DOMAIN s : s[m] = s[n] => m = n
      /\ \A i \in Ended : \E m \in DOMAIN s : s[m] = i
      /\ Ordered(s)
  BY OrderingsList
<1>3. /\ UNCHANGED <<columns, end, present, deps>> /\ base' = 1 /\ next' = 2
      /\ phase' = IF Window > 0 /\ Ended # {} THEN "walk" ELSE "orphans"
  BY DEF Query, Goto
<1>4. CoverInv' /\ EndsInv' /\ StrippedInv'
  BY <1>3 DEF RowsInv, CoverInv, EndsInv, StrippedInv, Covers, Whole, columns
<1>5. CASE Window > 0
  <2>1. /\ DOMAIN list' = DOMAIN s
        /\ \A m \in DOMAIN s : list'[m].id = s[m] /\ list'[m].end = end[s[m]] /\ ids'[m] = s[m]
    BY <1>1, <1>5 DEF ids
  <2>2. \A m, n \in DOMAIN list' : m # n => Listed(ids, m, n)'
    BY <2>1, <1>2, <1>3 DEF Listed, Ordered, columns
  <2>3. Ended' = Ended
    BY <1>3 DEF Ended
  <2>4. \A m \in DOMAIN list' : m = 1 \/ m >= 2
    BY <2>1, <1>2
  <2>5. /\ \A i \in Ended' : \E m \in DOMAIN list' : ids'[m] = i
        /\ \A m \in DOMAIN list' : m <= base' \/ m >= next'
    BY <2>1, <2>3, <2>4, <1>2, <1>3
  <2>6. \A m, n \in DOMAIN list' : ~(m < n /\ n <= base')
    BY <2>1, <1>2, <1>3
  <2>7. phase' \notin Walks => Cardinality(Ended) = 0
    <3> SUFFICES ASSUME Ended = {} PROVE Cardinality(Ended) = 0
      BY <1>3, <1>5 DEF Walks
    <3> QED
      BY FS_EmptySet
  <2>8. Len(list') = Cardinality(Ended)
    <3>1. list' \in Seq([id : Ids, end : Times])
      BY QueryTyped DEF StartupTyped, TypeOK
    <3> QED
      BY <3>1, <2>1, <1>2, LenProperties
  <2>9. ListInv'
    BY <2>2, <2>5, <2>6, <2>7, <2>8, <1>3, <1>2 DEF ListInv
  <2>10. AheadInv'
    <3> SUFFICES ASSUME phase' = "walk"
                 PROVE  /\ into' \in present /\ end[into'] = list'[1].end
                        /\ \A m \in DOMAIN list' :
                             ids'[m] \in present /\ list'[m].end = end[ids'[m]]
      BY <1>3 DEF AheadInv, Walks, Merging
    <3>1. 1 \in DOMAIN s
      <4>1. Ended # {}
        BY <1>3
      <4> QED
        BY <4>1, <1>2
    <3>2. into' = s[1]
      BY <3>1, <2>1, <1>3 DEF into
    <3> QED
      BY <3>1, <3>2, <2>1, <1>2 DEF Ended
  <2> QED
    BY <1>4, <2>9, <2>10 DEF RowsInv
<1>6. CASE ~(Window > 0)
  BY <1>3, <1>4, <1>6 DEF RowsInv, ListInv, AheadInv, Walks, Merging
<1> QED
  BY <1>5, <1>6

(* The next base is more than the window after the last, and so after all  *)
(* before it.                                                              *)
LEMMA KeepApartRows ==
  ASSUME StartupTyped, RowsInv, KeepApart
  PROVE  RowsInv'
<1>1. /\ phase = "walk" /\ phase' = "walk" /\ next <= Len(list) /\ ~Within
      /\ base' = next /\ next' = next + 1
      /\ UNCHANGED <<columns, end, present, deps, list>>
  BY DEF KeepApart, Walking
<1>2. /\ into \in Ids /\ into \in present /\ into = ids[base] /\ base \in DOMAIN list
      /\ Window > 0 /\ base < next /\ next \in DOMAIN list
      /\ from \in Ids /\ from \in present /\ from # into /\ from = ids[next]
      /\ end[from] = list[next].end
  BY <1>1, AtHand DEF Walks
<1>3. /\ end[into] = list[base].end /\ DOMAIN list = 1 .. Len(list) /\ Len(list) \in Nat
      /\ base \in Nat /\ next \in Nat /\ Window \in Nat
  <2>1. end[into] = list[base].end
    BY <1>1 DEF RowsInv, AheadInv, Walks
  <2>2. DOMAIN list = 1 .. Len(list) /\ Len(list) \in Nat
    BY LenProperties DEF StartupTyped, TypeOK
  <2> QED
    BY <2>1, <2>2, <1>2, ConstantsAssumption
<1>4. /\ \A m, n \in DOMAIN list : m # n => Listed(ids, m, n)
      /\ \A i \in Ended : \E m \in DOMAIN list : ids[m] = i
      /\ \A m \in DOMAIN list : ids[m] \in present => m <= base \/ m >= next
      /\ \A m, n \in DOMAIN list :
           m < n /\ n <= base /\ ids[m] \in present /\ ids[n] \in present
             => ~Near(ids[m], ids[n])
  BY <1>1, <1>2 DEF RowsInv, ListInv, Walks
<1>5. ids' = ids /\ Ended' = Ended
  BY <1>1 DEF ids, Ended
<1>6. ~Near(into, from)
  <2>1. ~(group[from] = group[into] /\ start[from] - list[base].end <= Window)
    BY <1>1 DEF Within
  <2> QED
    BY <2>1, <1>3 DEF Near
<1>7. ASSUME NEW m \in DOMAIN list, m < next, ids[m] \in present
      PROVE  ~Near(ids[m], from)
  <2> SUFFICES ASSUME Near(ids[m], from) PROVE FALSE
    OBVIOUS
  <2>1. ids[m] \in Ids /\ m \in Nat
    BY <1>3, <1>7 DEF StartupTyped, TypeOK
  <2>2. m < base
    <3>1. m # base
      BY <1>2, <1>6
    <3> QED
      BY <3>1, <2>1, <1>3, <1>4, <1>7
  <2>3. /\ group[ids[m]] = group[from] /\ start[from] - end[ids[m]] <= Window
    BY DEF Near
  <2>4. /\ start[from] \in Nat /\ start[into] \in Nat /\ end[ids[m]] \in Nat
        /\ group[from] \in Nat /\ group[into] \in Nat /\ start[ids[m]] \in Nat
    BY <2>1, <1>2, StartsDiffer
  <2>5. /\ \/ group[ids[m]] < group[into]
           \/ group[ids[m]] = group[into] /\ start[ids[m]] <= start[into]
        /\ \/ group[into] < group[from]
           \/ group[into] = group[from] /\ start[into] <= start[from]
    <3>1. Listed(ids, m, base) /\ Listed(ids, base, next)
      BY <2>2, <2>1, <1>2, <1>3, <1>4
    <3> QED
      BY <3>1, <2>2, <1>2 DEF Listed
  <2>6. group[ids[m]] = group[into] /\ start[into] <= start[from]
    BY <2>3, <2>4, <2>5
  <2>7. ~Near(ids[m], into)
    BY <2>2, <1>2, <1>3, <1>4, <1>7
  <2>8. start[into] - end[ids[m]] > Window
    BY <2>6, <2>7, <2>4, <1>3 DEF Near
  <2> QED
    BY <2>3, <2>4, <2>6, <2>8, <1>3
<1>8. \A i, j : Near(i, j)' <=> Near(i, j)
  BY <1>1 DEF Near, columns
<1>9. \A m, n \in DOMAIN list :
        m < n /\ n <= next /\ ids[m] \in present /\ ids[n] \in present
          => ~Near(ids[m], ids[n])
  <2> SUFFICES ASSUME NEW m \in DOMAIN list, NEW n \in DOMAIN list, m < n, n <= next,
                      ids[m] \in present, ids[n] \in present
               PROVE  ~Near(ids[m], ids[n])
    OBVIOUS
  <2>1. n <= base \/ n = next
    BY <1>3, <1>4
  <2> QED
    BY <2>1, <1>2, <1>3, <1>4, <1>7
<1>10. ListInv'
  <2>1. \A m, n : Listed(ids, m, n)' <=> Listed(ids, m, n)
    BY <1>1, <1>5 DEF Listed, columns
  <2>2. \A m \in DOMAIN list : m <= next \/ m >= next + 1
    BY <1>3
  <2> QED
    BY <2>1, <2>2, <1>1, <1>4, <1>5, <1>8, <1>9 DEF ListInv, Walks
<1>11. AheadInv'
  <2>1. into' = from
    BY <1>1 DEF into, from
  <2>2. \A m \in DOMAIN list : m >= next => ids[m] \in present /\ list[m].end = end[ids[m]]
    BY <1>1 DEF RowsInv, AheadInv, Walks
  <2>3. \A m \in DOMAIN list : m >= next + 1 => m >= next
    BY <1>3
  <2> QED
    BY <2>1, <2>2, <2>3, <1>1, <1>2, <1>5 DEF AheadInv
<1> QED
  BY <1>1, <1>10, <1>11
  DEF RowsInv, CoverInv, EndsInv, StrippedInv, Covers, Whole, columns

(* Merge begins with what the walk found to be near.                       *)
LEMMA MergeRows ==
  ASSUME StartupTyped, RowsInv, Merge \/ EndWalk
  PROVE  RowsInv'
<1>1. /\ phase = "walk" /\ phase' \in {"extend", "orphans"}
      /\ phase' = "orphans" => next > Len(list)
      /\ UNCHANGED <<columns, end, present, deps, locals, crashes>>
  BY DEF Merge, Walking, EndWalk
<1>2. ids' = ids /\ Ended' = Ended /\ into' = into
  BY <1>1 DEF ids, Ended, into, locals
<1>3. /\ \A i, j : Near(i, j)' <=> Near(i, j)
      /\ \A m, n : Listed(ids, m, n)' <=> Listed(ids, m, n)
  BY <1>1, <1>2 DEF Near, Listed, columns
<1>4. ListInv'
  BY <1>1, <1>2, <1>3 DEF RowsInv, ListInv, Walks, Merging, locals
<1>5. AheadInv'
  BY <1>1, <1>2 DEF RowsInv, AheadInv, Walks, Merging, locals
<1> QED
  BY <1>1, <1>4, <1>5
  DEF RowsInv, CoverInv, EndsInv, StrippedInv, Covers, Whole, columns

(* The base is extended: what it covered stays covered.                    *)
LEMMA ExtendRows ==
  ASSUME StartupTyped, RowsInv, Extend(TRUE)
  PROVE  RowsInv'
<1>1. /\ phase = "extend" /\ phase' = "raws" /\ phase \in Walks /\ phase \in Merging
      /\ end' = [end EXCEPT ![into] = NewEnd]
      /\ UNCHANGED <<columns, present, deps, locals, crashes>>
  BY DEF Extend, Goto, Walks, Merging
<1>2. next <= Len(list)
  BY <1>1 DEF StartupTyped, PlaceInv
<1>3. /\ into \in Ids /\ into \in present /\ into = ids[base] /\ base \in DOMAIN list
      /\ Whole(into) /\ Window > 0 /\ base < next
      /\ from \in Ids /\ from # into
  BY <1>1, <1>2, AtHand
<1>4. /\ end[into] = list[base].end /\ list[base].end \in Times
      /\ NewEnd \in Times /\ NewEnd >= list[base].end
  <2>1. end[into] = list[base].end
    BY <1>1 DEF RowsInv, AheadInv
  <2> QED
    BY <2>1, <1>1, <1>2, WalkTyped
<1>5. /\ NewEnd \in Nat \ {0} /\ end[into] \in Nat \ {0} /\ NewEnd >= end[into]
  BY <1>4, ConstantsAssumption
<1>6. end \in [Ids -> Times \cup {0}]
  BY DEF StartupTyped, TypeOK
<1>7. \A i \in Ids : /\ end'[i] = IF i = into THEN NewEnd ELSE end[i]
                     /\ end[i] \in Nat /\ start[i] \in Nat /\ before[i] \in Nat
  BY <1>1, <1>6, StartsDiffer
<1>8. /\ \A i \in Ids : end'[i] >= end[i] /\ (end'[i] = 0 <=> end[i] = 0)
      /\ present \subseteq Ids
  <2>1. ASSUME NEW i \in Ids
        PROVE  end'[i] >= end[i] /\ (end'[i] = 0 <=> end[i] = 0)
    <3>1. CASE i = into
      BY <3>1, <1>5, <1>7
    <3>2. CASE i # into
      BY <3>2, <1>7
    <3> QED
      BY <3>1, <3>2
  <2> QED
    BY <2>1 DEF StartupTyped, TypeOK
<1>9. Ended' = Ended /\ ids' = ids /\ into' = into /\ NewEnd' = NewEnd
  BY <1>1, <1>8 DEF Ended, ids, into, NewEnd, locals
<1>10. ASSUME NEW j \in present, NEW i, NEW u \in Nat, Covers(j, i, u)
       PROVE  group[j] = group[i] /\ start[j] <= start[i] /\ end'[j] >= u
  <2>1. j \in Ids
    BY <1>8
  <2>2. end'[j] \in Nat /\ end[j] \in Nat /\ end'[j] >= end[j]
    BY <2>1, <1>5, <1>7, <1>8
  <2> QED
    BY <2>2, <1>10 DEF Covers
<1>11. ListInv'
  <2>1. ASSUME NEW m \in DOMAIN list, NEW n \in DOMAIN list, m < n, n <= base,
               ids[m] \in present, ids[n] \in present
        PROVE  ~Near(ids[m], ids[n])'
    <3>1. m # base /\ ~Near(ids[m], ids[n]) /\ Listed(ids, m, base)
      <4>1. m # base /\ m \in Int /\ n \in Int /\ base \in Int
        BY <1>3, <2>1 DEF StartupTyped, TypeOK
      <4> QED
        BY <4>1, <1>1, <1>3, <2>1 DEF RowsInv, ListInv
    <3>2. ids[m] # into /\ ids[m] \in Ids
      BY <3>1, <1>3, <1>8, <2>1 DEF Listed
    <3> QED
      BY <3>1, <3>2, <1>1, <1>7, <1>9 DEF Near, columns
  <2>2. \A m, n : Listed(ids, m, n)' <=> Listed(ids, m, n)
    BY <1>1, <1>9 DEF Listed, columns
  <2> QED
    BY <2>1, <2>2, <1>1, <1>3, <1>9 DEF RowsInv, ListInv, Walks, Merging, locals
<1>12. AheadInv'
  <2>1. ASSUME NEW m \in DOMAIN list, m >= next
        PROVE  ids[m] \in present /\ list[m].end = end'[ids[m]]
    <3>1. ids[m] \in present /\ list[m].end = end[ids[m]]
      BY <2>1, <1>1 DEF RowsInv, AheadInv
    <3>2. m # base
      BY <2>1, <1>3 DEF StartupTyped, TypeOK
    <3>3. Listed(ids, m, base)
      BY <3>2, <1>1, <1>3, <2>1 DEF RowsInv, ListInv
    <3> QED
      BY <3>1, <3>3, <1>3, <1>7, <1>8 DEF Listed
  <2>2. into' \in present' /\ end'[into'] = NewEnd'
    BY <1>1, <1>3, <1>7, <1>9
  <2> QED
    BY <2>1, <2>2, <1>1, <1>9 DEF AheadInv, locals
<1>13. EndsInv'
  <2>1. start[into] <= NewEnd
    BY <1>3, <1>5, <1>7 DEF RowsInv, EndsInv
  <2> QED
    BY <2>1, <1>1, <1>7 DEF RowsInv, EndsInv, columns
<1>14. CoverInv'
  <2> SUFFICES ASSUME NEW i \in Ids, before[i] # 0
               PROVE  \E j \in present :
                        group[j] = group[i] /\ start[j] <= start[i] /\ end'[j] >= before[i]
    BY <1>1 DEF CoverInv, Covers, columns
  <2>1. PICK j \in present : Covers(j, i, before[i])
    BY DEF RowsInv, CoverInv
  <2> QED
    BY <2>1, <1>7, <1>10
<1>15. StrippedInv'
  <2> SUFFICES ASSUME NEW i \in present, ~Whole(i)
               PROVE  /\ Window > 0 /\ end'[i] # 0
                      /\ \E j \in present :
                           /\ j # i /\ group[j] = group[i]
                           /\ start[j] <= start[i] /\ end'[j] >= end'[i]
    BY <1>1 DEF StrippedInv, Whole, Covers, columns
  <2>1. /\ Window > 0 /\ end[i] # 0
        /\ \E j \in present : j # i /\ Covers(j, i, end[i])
    BY DEF RowsInv, StrippedInv
  <2>2. i \in Ids /\ end'[i] = end[i] /\ end[i] \in Nat
    BY <1>3, <1>7, <1>8
  <2> QED
    BY <2>1, <2>2, <1>10
<1> QED
  BY <1>11, <1>12, <1>13, <1>14, <1>15 DEF RowsInv

(* The dependents of the merged row are deleted: the base covers it.       *)
LEMMA DependentsRows ==
  ASSUME StartupTyped, RowsInv,
         \/ DeleteRaws(TRUE)
         \/ DeleteOwned("thumbnails", "objects", TRUE)
         \/ DeleteOwned("objects", "labels", TRUE)
         \/ DeleteOwned("labels", "event", TRUE)
  PROVE  RowsInv'
<1>1. /\ phase \in Merging \ {"extend"} /\ phase' \in Merging \ {"extend"}
      /\ UNCHANGED <<columns, end, present, locals, crashes>>
      /\ \A d \in deps : d \in deps' \/ d[1] = "raws" \/ d[2] = from
  <2>1. ASSUME DeleteRaws(TRUE)
        PROVE  \A d \in deps : d \in deps' \/ d[1] = "raws"
    BY <2>1 DEF DeleteRaws, RawsWithin
  <2>2. ASSUME NEW table, NEW to, DeleteOwned(table, to, TRUE)
        PROVE  \A d \in deps : d \in deps' \/ d[2] = from
    BY <2>2 DEF DeleteOwned
  <2>3. \A d \in deps : d \in deps' \/ d[1] = "raws" \/ d[2] = from
    BY <2>1, <2>2
  <2> QED
    BY <2>3 DEF DeleteRaws, DeleteOwned, Goto, Merging
<1>2. next <= Len(list) /\ phase \in Walks /\ phase \in Merging
  BY <1>1 DEF StartupTyped, PlaceInv, Walks
<1>3. /\ into \in Ids /\ into \in present /\ Window > 0
      /\ from \in Ids /\ from \in present /\ from # into /\ end[from] # 0
      /\ group[into] = group[from] /\ start[into] <= start[from] /\ NewEnd >= end[from]
  BY <1>2, AtHand
<1>4. end[into] = NewEnd
  BY <1>1, <1>2 DEF RowsInv, AheadInv, Merging
<1>5. ids' = ids /\ Ended' = Ended /\ into' = into /\ NewEnd' = NewEnd
  BY <1>1 DEF ids, Ended, into, NewEnd, locals
<1>6. /\ \A i, j : Near(i, j)' <=> Near(i, j)
      /\ \A m, n : Listed(ids, m, n)' <=> Listed(ids, m, n)
      /\ \A i, j : \A u : Covers(j, i, u)' <=> Covers(j, i, u)
  BY <1>1, <1>5 DEF Near, Listed, Covers, columns
<1>7. ListInv'
  BY <1>1, <1>5, <1>6 DEF RowsInv, ListInv, Walks, Merging, locals
<1>8. AheadInv'
  BY <1>1, <1>2, <1>5 DEF RowsInv, AheadInv, Walks, Merging, locals
<1>9. StrippedInv'
  <2> SUFFICES ASSUME NEW i \in present, ~Whole(i)'
               PROVE  /\ Window > 0 /\ end[i] # 0
                      /\ \E j \in present : j # i /\ Covers(j, i, end[i])
    BY <1>1, <1>6 DEF StrippedInv
  <2>1. CASE i = from
    BY <2>1, <1>3, <1>4 DEF Covers
  <2>2. CASE i # from
    <3>1. ~Whole(i)
      <4> SUFFICES ASSUME NEW t \in Tables, <<t, i>> \in deps PROVE <<t, i>> \in deps'
        BY DEF Whole
      <4> QED
        BY <2>2, <1>1 DEF Tables
    <3> QED
      BY <3>1 DEF RowsInv, StrippedInv
  <2> QED
    BY <2>1, <2>2
<1> QED
  BY <1>1, <1>6, <1>7, <1>8, <1>9 DEF RowsInv, EndsInv, CoverInv, columns

(* The merged row is deleted: what it covered the base covers.             *)
LEMMA DeleteEventRows ==
  ASSUME StartupTyped, RowsInv, DeleteEvent(TRUE)
  PROVE  RowsInv'
<1>1. /\ phase = "event" /\ phase' = "walk" /\ phase \in Walks /\ phase \in Merging
      /\ present' = present \ {from} /\ next' = next + 1
      /\ UNCHANGED <<columns, end, deps, base, crashes>>
  BY DEF DeleteEvent, Goto, Walks, Merging
<1>2. /\ Len(list') = Len(list) /\ DOMAIN list' = DOMAIN list
      /\ \A m \in DOMAIN list : /\ list'[m].id = list[m].id
                                /\ m # base => list'[m] = list[m]
      /\ list'[base].end = NewEnd
  BY DeleteEventTyped
<1>3. next <= Len(list)
  BY <1>1 DEF StartupTyped, PlaceInv
<1>4. /\ into \in Ids /\ into \in present /\ into = ids[base] /\ base \in DOMAIN list
      /\ Whole(into) /\ Window > 0 /\ base < next /\ next \in DOMAIN list
      /\ from \in Ids /\ from \in present /\ from # into /\ from = ids[next]
      /\ end[from] # 0
      /\ group[into] = group[from] /\ start[into] <= start[from] /\ NewEnd >= end[from]
  BY <1>1, <1>3, AtHand
<1>5. end[into] = NewEnd
  BY <1>1 DEF RowsInv, AheadInv
<1>6. /\ \A i \in Ids : end[i] \in Nat /\ start[i] \in Nat /\ before[i] \in Nat
      /\ present \subseteq Ids
  BY StartsDiffer DEF StartupTyped, TypeOK
<1>7. /\ ids' = ids /\ Ended' = Ended \ {from} /\ into' = into
  BY <1>1, <1>2, <1>4 DEF ids, Ended, into
<1>8. /\ \A i, j : Near(i, j)' <=> Near(i, j)
      /\ \A m, n : Listed(ids, m, n)' <=> Listed(ids, m, n)
      /\ \A i, j : \A u : Covers(j, i, u)' <=> Covers(j, i, u)
  BY <1>1, <1>7 DEF Near, Listed, Covers, columns
<1>9. \A m \in DOMAIN list : m \in Nat /\ base \in Nat /\ next \in Nat
  <2>1. DOMAIN list = 1 .. Len(list)
    BY LenProperties DEF StartupTyped, TypeOK
  <2> QED
    BY <2>1, <1>4
<1>10. ListInv'
  <2>1. \A m \in DOMAIN list : ids[m] \in present' => m <= base \/ m >= next + 1
    <3> SUFFICES ASSUME NEW m \in DOMAIN list, ids[m] \in present, ids[m] # from
                 PROVE  m <= base \/ m >= next + 1
      BY <1>1
    <3>1. (m <= base \/ m >= next) /\ m # next
      BY <1>1, <1>4 DEF RowsInv, ListInv
    <3> QED
      BY <3>1, <1>9
  <2> QED
    BY <2>1, <1>1, <1>2, <1>4, <1>7, <1>8 DEF RowsInv, ListInv, Walks
<1>11. AheadInv'
  <2>1. ASSUME NEW m \in DOMAIN list, m >= next + 1
        PROVE  ids[m] \in present' /\ list'[m].end = end[ids[m]]
    <3>1. m >= next /\ m # next /\ m # base
      BY <2>1, <1>4, <1>9
    <3>2. ids[m] \in present /\ list[m].end = end[ids[m]] /\ Listed(ids, m, next)
      BY <3>1, <2>1, <1>1, <1>4 DEF RowsInv, AheadInv, ListInv
    <3> QED
      BY <3>1, <3>2, <1>1, <1>2, <1>4 DEF Listed
  <2> QED
    BY <2>1, <1>1, <1>2, <1>4, <1>5, <1>7 DEF AheadInv
<1>12. ASSUME NEW j \in present, NEW i, NEW u \in Nat, Covers(j, i, u)
       PROVE  /\ j # from => j \in present'
              /\ j = from => /\ into \in present' /\ (start[i] \in Nat => Covers(into, i, u))
  BY <1>1, <1>4, <1>5, <1>6, <1>12 DEF Covers
<1>13. CoverInv'
  <2> SUFFICES ASSUME NEW i \in Ids, before[i] # 0
               PROVE  \E j \in present' : Covers(j, i, before[i])
    BY <1>1, <1>8 DEF CoverInv, columns
  <2>1. PICK j \in present : Covers(j, i, before[i])
    BY DEF RowsInv, CoverInv
  <2> QED
    BY <2>1, <1>6, <1>12
<1>14. StrippedInv'
  <2> SUFFICES ASSUME NEW i \in present', ~Whole(i)
               PROVE  /\ Window > 0 /\ end[i] # 0
                      /\ \E j \in present' : j # i /\ Covers(j, i, end[i])
    BY <1>1, <1>8 DEF StrippedInv, Whole
  <2>1. /\ i \in present /\ i \in Ids /\ i # into
    BY <1>1, <1>4, <1>6
  <2>2. PICK j \in present : j # i /\ Covers(j, i, end[i])
    BY <2>1 DEF RowsInv, StrippedInv
  <2>3. Window > 0 /\ end[i] # 0
    BY <2>1 DEF RowsInv, StrippedInv
  <2> QED
    BY <2>1, <2>2, <2>3, <1>6, <1>12
<1>15. EndsInv'
  BY <1>1 DEF RowsInv, EndsInv, columns
<1> QED
  BY <1>10, <1>11, <1>13, <1>14, <1>15 DEF RowsInv

(* The orphans are no dependents of rows.                                  *)
LEMMA PurgeOrphansRows ==
  ASSUME StartupTyped, RowsInv, PurgeOrphans(TRUE) \/ Crash
  PROVE  RowsInv'
<1>1. /\ UNCHANGED <<columns, end, present>>
      /\ \/ phase = "orphans" /\ phase' = "done" /\ UNCHANGED <<locals, crashes>>
         \/ phase' = "stale"
  BY DEF PurgeOrphans, Crash, Goto
<1>2. \A i \in present : Whole(i) => Whole(i)'
  <2> SUFFICES ASSUME NEW i \in present, NEW t \in Tables, <<t, i>> \in deps
               PROVE  <<t, i>> \in deps'
    BY DEF Whole
  <2> QED
    BY DEF PurgeOrphans, Crash, Orphans, Tables
<1>3. ids' = ids \/ phase' = "stale"
  BY <1>1 DEF ids, locals
<1>4. /\ \A i, j : Near(i, j)' <=> Near(i, j)
      /\ \A i, j : \A u : Covers(j, i, u)' <=> Covers(j, i, u)
      /\ Ended' = Ended
  BY <1>1 DEF Near, Covers, Ended, columns
<1>5. ListInv'
  <2>1. CASE phase' = "done"
    <3>1. /\ phase = "orphans" /\ ids' = ids /\ UNCHANGED <<columns, locals, end, present>>
      BY <2>1, <1>1, <1>3
    <3>2. \A m, n : Listed(ids, m, n)' <=> Listed(ids, m, n)
      BY <3>1 DEF Listed, columns
    <3> QED
      BY <2>1, <3>1, <3>2, <1>4 DEF RowsInv, ListInv, Walks, Merging, locals
  <2>2. CASE phase' = "stale"
    BY <2>2 DEF ListInv, Walks, Merging
  <2> QED
    BY <2>1, <2>2, <1>1
<1>6. AheadInv'
  BY <1>1 DEF AheadInv, Walks, Merging
<1>7. CoverInv' /\ EndsInv' /\ StrippedInv'
  BY <1>1, <1>2, <1>4 DEF RowsInv, CoverInv, EndsInv, StrippedInv, columns
<1> QED
  BY <1>5, <1>6, <1>7 DEF RowsInv

(* Every step of a startup in which no statement fails keeps the rows. *)
LEMMA NextRows ==
  ASSUME StartupTyped, RowsInv, ~faults, [Next]_vars
  PROVE  RowsInv'
<1>1. CASE Next
  <2>1. Outcomes = {TRUE}
    BY DEF Outcomes
  <2> QED
    BY <1>1, <2>1, PurgeStaleRows, QueryRows, KeepApartRows, MergeRows, ExtendRows,
       DependentsRows, DeleteEventRows, PurgeOrphansRows
    DEF Next, Step
<1>2. CASE UNCHANGED vars
  <2>1. /\ ids' = ids /\ Ended' = Ended /\ into' = into /\ NewEnd' = NewEnd
        /\ UNCHANGED <<columns, end, present, deps, phase, locals>>
    BY <1>2 DEF vars, ids, Ended, into, NewEnd, columns, locals
  <2>2. /\ \A i, j : Near(i, j)' <=> Near(i, j)
        /\ \A m, n : Listed(ids, m, n)' <=> Listed(ids, m, n)
        /\ \A i, j : \A u : Covers(j, i, u)' <=> Covers(j, i, u)
        /\ \A i : Whole(i)' <=> Whole(i)
    BY <2>1 DEF Near, Listed, Covers, Whole, columns
  <2> QED
    BY <2>1, <2>2
    DEF RowsInv, ListInv, AheadInv, EndsInv, CoverInv, StrippedInv, columns, locals
<1> QED
  BY <1>1, <1>2

(* At the start every row is whole and covers itself. *)
LEMMA InitRows ==
  ASSUME Init
  PROVE  RowsInv
<1>1. phase = "stale" /\ present = Ids /\ before = end /\ deps = (Tables \cup {"raws"}) \X Ids
      /\ \A i \in Ids : end[i] # 0 => start[i] <= end[i]
  BY DEF Init
<1>2. ListInv /\ AheadInv /\ EndsInv
  BY <1>1 DEF ListInv, AheadInv, EndsInv, Walks, Merging
<1>3. \A i \in Ids : start[i] \in Nat /\ end[i] \in Nat
  BY InitTyped, StartsDiffer
<1>4. CoverInv
  BY <1>1, <1>3 DEF CoverInv, Covers
<1>5. \A i \in present : Whole(i)
  BY <1>1 DEF Whole
<1> QED
  BY <1>2, <1>4, <1>5 DEF RowsInv, StrippedInv

(* The invariant of the startup: the order of its list, what is left of    *)
(* it, and that every time covered and every row stripped is covered by a  *)
(* row of its group.                                                       *)
THEOREM StartupInvariant == Spec => []StartupInv
<1>1. Init => StartupInv
  BY InitTyped, InitRows DEF StartupInv
<1>2. StartupInv /\ [Next]_vars => StartupInv'
  <2>1. ASSUME StartupTyped, [Next]_vars PROVE faults' = faults
    BY <2>1 DEF Next, Step, PurgeStale, Query, KeepApart, Merge, Extend, DeleteRaws, DeleteOwned,
                DeleteEvent, EndWalk, PurgeOrphans, Crash, columns, vars
  <2> QED
    BY <2>1, NextTyped, NextRows DEF StartupInv
<1> QED
  BY <1>1, <1>2, PTL DEF Spec

(* However often a startup is interrupted between the statements of a      *)
(* merge, the time of an event that had ended stays covered, if no         *)
(* statement fails.                                                        *)
THEOREM CoverageKeptHolds == Spec => []CoverageKept
<1>1. StartupInv => CoverageKept
  BY DEF StartupInv, RowsInv, CoverInv, Covers, CoverageKept
<1> QED
  BY <1>1, StartupInvariant, PTL

(* Of the ended rows a completed startup leaves, each was in the list and  *)
(* the walk came past it.                                                  *)
LEMMA AllHandled ==
  ASSUME StartupTyped, RowsInv, phase = "done", Window > 0, NEW i \in Ended
  PROVE  \E m \in DOMAIN list : ids[m] = i /\ m <= base
<1>1. PICK m \in DOMAIN list : ids[m] = i
  BY DEF RowsInv, ListInv
<1>2. m <= base \/ m >= next
  BY <1>1 DEF RowsInv, ListInv, Ended
<1>3. m <= Len(list) /\ next > Len(list) /\ Len(list) \in Nat /\ m \in Nat /\ next \in Nat
  <2>1. DOMAIN list = 1 .. Len(list) /\ Len(list) \in Nat
    BY LenProperties DEF StartupTyped, TypeOK
  <2>2. next > Len(list)
    BY DEF RowsInv, ListInv, Walks, Merging
  <2> QED
    BY <2>1, <2>2, <1>1 DEF StartupTyped, TypeOK
<1> QED
  BY <1>1, <1>2, <1>3

(* A startup that comes to its end leaves nothing to merge, though the     *)
(* walk compares each row with the base alone and merged rows only with    *)
(* what was read at its start, and though earlier startups were cut off.   *)
THEOREM NothingLeftToMergeHolds == Spec => []NothingLeftToMerge
<1>1. StartupInv => NothingLeftToMerge
  <2> SUFFICES ASSUME StartupTyped, RowsInv, phase = "done", Window > 0,
                      NEW i \in Ended, NEW j \in Ended, i < j, group[i] = group[j]
               PROVE  start[j] - end[i] > Window
    BY DEF StartupInv, NothingLeftToMerge
  <2>1. /\ i \in Ids /\ j \in Ids /\ i \in present /\ j \in present /\ i \in Nat /\ j \in Nat
    BY ConstantsAssumption DEF Ended, StartupTyped, TypeOK
  <2>2. PICK m \in DOMAIN list : ids[m] = i /\ m <= base
    BY AllHandled
  <2>3. PICK n \in DOMAIN list : ids[n] = j /\ n <= base
    BY AllHandled
  <2>4. start[i] <= start[j] /\ i # j
    BY <2>1 DEF StartupTyped, ColumnsInv
  <2>5. m < n
    <3>1. ListInv
      BY DEF RowsInv
    <3> QED
      BY <3>1, <2>2, <2>3, <2>4, ListedInOrder
  <2>6. ~Near(i, j)
    BY <2>1, <2>2, <2>3, <2>5 DEF RowsInv, ListInv
  <2>7. start[j] \in Nat /\ end[i] \in Nat /\ Window \in Nat
    BY <2>1, StartsDiffer, ConstantsAssumption
  <2> QED
    BY <2>6, <2>7 DEF Near
<1> QED
  BY <1>1, StartupInvariant, PTL

(* A row that a cut-off merge had stripped of dependents is gone when a    *)
(* later startup has come to its end, and so are the dependents of rows    *)
(* that are gone.                                                          *)
THEOREM WholeOrGoneHolds == Spec => []WholeOrGone
<1> DEFINE Kept == phase = "done" /\ ~faults => \A d \in deps : d[1] # "raws" => d[2] \in present
<1>1. Init => Kept
  BY DEF Init
<1>2. StartupInv /\ Kept /\ [Next]_vars => Kept'
  <2> SUFFICES ASSUME StartupInv, Kept, [Next]_vars, phase' = "done", ~faults'
               PROVE  \A d \in deps' : d[1] # "raws" => d[2] \in present'
    OBVIOUS
  <2>1. \/ UNCHANGED vars
        \/ \E ok \in Outcomes : PurgeOrphans(ok)
    BY DEF Next, Step, PurgeStale, Query, KeepApart, Merge, Extend, DeleteRaws, DeleteOwned,
           DeleteEvent, EndWalk, Crash, Goto, Walking
  <2>2. CASE UNCHANGED vars
    BY <2>2 DEF vars, columns
  <2>3. CASE \E ok \in Outcomes : PurgeOrphans(ok)
    <3>1. PurgeOrphans(TRUE)
      BY <2>3 DEF Outcomes, PurgeOrphans, columns
    <3> QED
      BY <3>1 DEF PurgeOrphans, Orphans
  <2> QED
    BY <2>1, <2>2, <2>3
<1>3. StartupInv /\ Kept => WholeOrGone
  <2> SUFFICES ASSUME StartupTyped, RowsInv, phase = "done", ~faults,
                      NEW i \in present
               PROVE  Whole(i)
    BY DEF StartupInv, WholeOrGone, Whole
  <2> SUFFICES ASSUME ~Whole(i) PROVE FALSE
    OBVIOUS
  <2>1. Window > 0 /\ i \in Ended
    BY DEF RowsInv, StrippedInv, Ended
  <2>2. PICK m \in DOMAIN list : ids[m] = i /\ m <= base
    BY <2>1, AllHandled
  <2> QED
    BY <2>1, <2>2, HandledIsWhole
<1> QED
  BY <1>1, <1>2, <1>3, StartupInvariant, PTL DEF Spec
=============================================================================
