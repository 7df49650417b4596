-------------------------- MODULE HTTPCacheProofs --------------------------
(***************************************************************************)
(* Proofs about HTTPCache, for any number of keys, tasks and calls: its    *)
(* types; that a key has one background revalidation at most and a mark    *)
(* only while one is in flight; that the books tell of what the storage    *)
(* holds; and that a set() keeps within the capacity.                      *)
(*                                                                         *)
(* The second is not inductive: a key without its mark would be            *)
(* revalidated again.  So a revalidation has the mark of its key, or a     *)
(* clear() has taken it (HasMark); and since no segment but Mark and       *)
(* Unmark makes or ends one, most preserve all of this alike (SameRoles).  *)
(*                                                                         *)
(* Nor are the books right at every moment.  While an operation is         *)
(* between two of its segments it owes the books a key (Owes), and they    *)
(* tell of every other key what the storage holds (Handled).  What an      *)
(* operation has read of a key is what the storage still holds, but for    *)
(* the keys that others have written since, on which it is behind (Knows). *)
(* So two operations may owe different keys and never disturb each other;  *)
(* where two owe the same key, one of them is behind on it (Sole), and its *)
(* next write of that key is a race (Doomed).  The room that a set() has   *)
(* made stays, but for what others add (Roomy).                            *)
(***************************************************************************)
EXTENDS HTTPCache, FiniteSetTheorems, WellFoundedInduction, TLAPS

USE CacheAssumption

\* What an operation has at hand, by where it stands.
Keyed   == {"got", "mark", "origin", "body", "got304", "renewed", "unmark", "previous",
            "evicting", "room", "stored", "refused", "found", "restored"}
Taking  == {"evicting", "deleting", "struck", "swept"}
Storing == {"previous", "evicting", "room", "stored", "refused", "restored"}
Evicting(o) == o.at \in {"deleting", "struck"} /\ o.then \in {"count", "size"}
Fit(o) ==
  /\ o.at \in Keyed \/ o.bg \/ Evicting(o) => o.key \in Keys
  /\ o.at \in Storing \/ Evicting(o) => o.new \in Responses
  /\ o.at \in Taking => o.victim \in Keys

Equipped == \A t \in Tasks : Fit(task[t])

TypeInv == TypeOK /\ Equipped

----------------------------------------------------------------------------
\* Facts about the helpers.

\* Taking a key out of a list, and putting it first, gives a list of keys.
LEMMA WithoutType ==
  ASSUME NEW s \in Seq(Keys), NEW k
  PROVE  Without(s, k) \in Seq(Keys)
  <1>1. CASE k \in Range(s)
    <2> DEFINE i == CHOOSE i \in DOMAIN s : s[i] = k
    <2>1. i \in DOMAIN s
      BY <1>1 DEF Range
    <2>2. i \in 1..Len(s) /\ Len(s) \in Nat
      BY <2>1
    <2> HIDE DEF i
    <2>3. SubSeq(s, 1, i - 1) \in Seq(Keys) /\ SubSeq(s, i + 1, Len(s)) \in Seq(Keys)
      BY <2>2
    <2> QED BY <1>1, <2>3 DEF Without, RemoveAt, i
  <1>2. CASE k \notin Range(s)
    BY <1>2 DEF Without
  <1> QED BY <1>1, <1>2

LEMMA TouchedType ==
  ASSUME lru \in Seq(Keys), NEW k \in Keys
  PROVE  Touched(k) \in Seq(Keys)
  <1>1. Without(lru, k) \in Seq(Keys)
    BY WithoutType
  <1> QED BY <1>1 DEF Touched

LEMMA EndsType ==
  ASSUME NEW s \in Seq(Keys), s # <<>>
  PROVE  Front(s) \in Seq(Keys) /\ Last(s) \in Keys
  <1>1. Len(s) \in Nat \ {0}
    OBVIOUS
  <1> QED BY <1>1 DEF Front, Last

LEMMA LessType ==
  ASSUME NEW n \in Nat, NEW m \in Nat
  PROVE  Less(n, m) \in Nat
  BY DEF Less

\* The adapter holds entries, and a new entry enters the books, by their types.
LEMMA HoldsType ==
  ASSUME TypeOK, NEW k, NEW e \in Maybe(Responses), Holds(k, e)
  PROVE  storage' \in [Keys -> Maybe(Responses)] /\ phase' \in [Keys -> Phases]
  BY DEF TypeOK, Holds, Phases

LEMMA EnrolType ==
  ASSUME TypeOK, NEW t \in Tasks, NEW k \in Keys, NEW e \in Responses, Enrol(t, k, e)
  PROVE  /\ lru' \in Seq(Keys)
         /\ entries' \in Nat
         /\ bytes' \in Nat
         /\ tagIndex' \in [Tags -> SUBSET Keys]
         /\ late' \in [Tasks -> SUBSET Keys]
  <1>1. lru' \in Seq(Keys)
    BY TouchedType DEF TypeOK, Enrol
  <1>2. e.size \in Nat
    OBVIOUS
  <1>3. entries' \in Nat /\ bytes' \in Nat
    BY <1>2 DEF TypeOK, Enrol
  <1>4. tagIndex' \in [Tags -> SUBSET Keys]
    BY DEF TypeOK, Enrol, Index
  <1>5. late' \in [Tasks -> SUBSET Keys]
    BY DEF TypeOK, Enrol
  <1> QED BY <1>1, <1>3, <1>4, <1>5

LEMMA NoTaskType == NoTask \in Task
  BY DEF NoTask, Task, Places, Phases, Maybe

LEMMA NoTaskFits == Fit(NoTask)
  BY DEF Fit, NoTask, Keyed, Storing, Taking, Evicting

LEMMA EndedType ==
  ASSUME TypeInv, NEW t \in Tasks
  PROVE  Ended(t) \in Task /\ Fit(Ended(t))
  <1>1. CASE task[t].bg
    <2>1. task[t].key \in Keys
      BY <1>1 DEF TypeInv, Equipped, Fit
    <2> QED BY <1>1, <2>1 DEF Ended, Fit, Task, NoTask, Places, Phases, Maybe,
       Storing, Taking, Evicting
  <1>2. CASE ~task[t].bg
    BY <1>2, NoTaskType, NoTaskFits DEF Ended
  <1> QED BY <1>1, <1>2

\* One operation moves, and is equipped for where it now stands.
LEMMA TaskStep ==
  ASSUME TypeInv, NEW t \in Tasks, NEW o \in Task, Fit(o), Goes(t, o)
  PROVE  task' \in [Tasks -> Task] /\ Equipped'
  BY DEF TypeInv, TypeOK, Equipped, Goes, Fit, Evicting

LEMMA BehindType ==
  ASSUME TypeOK, NEW t \in Tasks, NEW K \in SUBSET Keys, NEW S, Overtakes(t, K, S)
  PROVE  behind' \in [Tasks -> SUBSET Keys]
  BY DEF TypeOK, Overtakes

LEMMA WritesType ==
  ASSUME TypeOK, NEW t \in Tasks, NEW K \in SUBSET Keys, Writes(t, K)
  PROVE  behind' \in [Tasks -> SUBSET Keys] /\ skewed' \in BOOLEAN
  BY BehindType DEF TypeOK, Writes

\* TypeOK without the bound on the calls, which Next deals with.
TypeInvExceptCalls ==
  /\ storage \in [Keys -> Maybe(Responses)]
  /\ phase \in [Keys -> Phases]
  /\ lru \in Seq(Keys)
  /\ tagIndex \in [Tags -> SUBSET Keys]
  /\ entries \in Nat /\ bytes \in Nat
  /\ marked \subseteq Keys
  /\ task \in [Tasks -> Task]
  /\ behind \in [Tasks -> SUBSET Keys]
  /\ skewed \in BOOLEAN
  /\ late \in [Tasks -> SUBSET Keys]
  /\ forgotten \subseteq Keys
  /\ Equipped

----------------------------------------------------------------------------
\* The types are preserved, one operation after the other.

\* An operation that only starts to read, with what it takes along.
LEMMA BeginType ==
  ASSUME TypeInv, NEW t \in Tasks, NEW o \in Task, Fit(o), Goes(t, o), Begins(t),
         UNCHANGED <<kept, books, marked, forgotten>>
  PROVE  TypeInvExceptCalls'
  <1>1. task' \in [Tasks -> Task] /\ Equipped'
    BY TaskStep
  <1>2. behind' \in [Tasks -> SUBSET Keys] /\ skewed' \in BOOLEAN
    BY DEF TypeInv, TypeOK, Begins
  <1> QED BY <1>1, <1>2 DEF TypeInvExceptCalls, TypeInv, TypeOK, kept, books

\* An operation that waits for something else, and changes nothing.
LEMMA WaitType ==
  ASSUME TypeInv, NEW t \in Tasks, NEW o \in Task, Fit(o), Goes(t, o),
         UNCHANGED <<kept, books, marked, history, forgotten>>
  PROVE  TypeInvExceptCalls'
  <1>1. task' \in [Tasks -> Task] /\ Equipped'
    BY TaskStep
  <1> QED BY <1>1 DEF TypeInvExceptCalls, TypeInv, TypeOK, kept, books, history

\* An operation that writes, to the storage or to the books.
LEMMA WriteType ==
  ASSUME TypeInv, NEW t \in Tasks, NEW o \in Task, Fit(o), Goes(t, o),
         UNCHANGED <<marked, forgotten>>,
         behind' \in [Tasks -> SUBSET Keys], skewed' \in BOOLEAN,
         storage' \in [Keys -> Maybe(Responses)], phase' \in [Keys -> Phases],
         lru' \in Seq(Keys), entries' \in Nat, bytes' \in Nat,
         tagIndex' \in [Tags -> SUBSET Keys], late' \in [Tasks -> SUBSET Keys]
  PROVE  TypeInvExceptCalls'
  <1>1. task' \in [Tasks -> Task] /\ Equipped'
    BY TaskStep
  <1> QED BY <1>1 DEF TypeInvExceptCalls, TypeInv, TypeOK

LEMMA TakeOutType ==
  ASSUME TypeInv, NEW t \in Tasks, NEW k \in Keys, NEW e \in Maybe(Responses),
         NEW then \in {"end", "count", "size", "sweep"}, TakeOut(t, k, e, then),
         then \in {"count", "size"} => task[t].at = "evicting"
  PROVE  TypeInvExceptCalls'
  <1> DEFINE o == [task[t] EXCEPT !.at = "deleting", !.victim = k, !.last = e, !.then = then]
  <1>1. task[t] \in Task /\ Fit(task[t])
    BY DEF TypeInv, TypeOK, Equipped
  <1>2. o \in Task
    <2>1. k \in Maybe(Keys)
      BY DEF Maybe
    <2> QED BY <1>1, <2>1 DEF Task, Places
  <1>3. Fit(o)
    BY <1>1 DEF Fit, Evicting, Keyed, Storing, Taking, Task
  <1>4. storage' \in [Keys -> Maybe(Responses)] /\ phase' \in [Keys -> Phases]
    BY HoldsType DEF TakeOut, Maybe, TypeInv
  <1>5. Goes(t, o) /\ Writes(t, {k}) /\ UNCHANGED <<books, marked, forgotten>>
    BY DEF TakeOut
  <1> HIDE DEF o
  <1>6. behind' \in [Tasks -> SUBSET Keys] /\ skewed' \in BOOLEAN
    BY <1>5, WritesType DEF TypeInv
  <1> QED BY <1>2, <1>3, <1>4, <1>5, <1>6, WriteType DEF TypeInv, TypeOK, books

LEMMA StrikeType ==
  ASSUME TypeInv, NEW t \in Tasks, Strike(t)
  PROVE  TypeInvExceptCalls'
  <1> DEFINE o == IF task[t].then = "end" THEN Ended(t) ELSE [task[t] EXCEPT !.at = "struck"]
             e == task[t].last
             k == task[t].victim
  <1>1. task[t] \in Task /\ Fit(task[t]) /\ task[t].at = "deleting"
    BY DEF TypeInv, TypeOK, Equipped, Strike
  <1>2. o \in Task
    BY <1>1, EndedType DEF Task, Places
  <1>3. Fit(o)
    <2>1. CASE task[t].then = "end"
      BY <2>1, EndedType
    <2>2. CASE task[t].then # "end"
      BY <1>1, <2>2 DEF Fit, Evicting, Keyed, Storing, Taking, Task
    <2> QED BY <2>1, <2>2
  <1>4. lru' \in Seq(Keys)
    BY WithoutType DEF Strike, TypeInv, TypeOK
  <1>5. entries' \in Nat /\ bytes' \in Nat
    <2>1. CASE e = None
      BY <2>1 DEF Strike, TypeInv, TypeOK
    <2>2. CASE e # None
      <3>1. e.size \in Nat
        BY <1>1, <2>2 DEF Task, Maybe
      <3> QED BY <2>2, <3>1, LessType DEF Strike, TypeInv, TypeOK
    <2> QED BY <2>1, <2>2
  <1>6. tagIndex' \in [Tags -> SUBSET Keys]
    <2>1. \A S : Unindex(k, S) \in [Tags -> SUBSET Keys]
      BY DEF Unindex, TypeInv, TypeOK
    <2> QED BY <2>1 DEF Strike, TypeInv, TypeOK
  <1>7. Goes(t, o) /\ Writes(t, {k}) /\ UNCHANGED <<kept, late, marked, forgotten>>
    BY DEF Strike
  <1> HIDE DEF o
  <1>8. k \in Keys
    BY <1>1 DEF Fit, Taking
  <1>9. behind' \in [Tasks -> SUBSET Keys] /\ skewed' \in BOOLEAN
    BY <1>7, <1>8, WritesType DEF TypeInv
  <1> QED BY <1>2, <1>3, <1>4, <1>5, <1>6, <1>7, <1>9, WriteType DEF TypeInv, TypeOK, kept

----------------------------------------------------------------------------
\* get() and the mark.

LEMMA GetType ==
  ASSUME TypeInv, NEW t \in Tasks, NEW k \in Keys, Get(t, k)
  PROVE  TypeInvExceptCalls'
  <1> DEFINE o == [NoTask EXCEPT !.at = "got", !.key = k, !.phase = phase[k], !.held = storage[k]]
  <1>1. storage[k] \in Maybe(Responses) /\ phase[k] \in Phases
    BY DEF TypeInv, TypeOK
  <1>2. o \in Task
    BY <1>1, NoTaskType DEF Task, Places, Maybe
  <1>3. Fit(o)
    BY DEF Fit, Evicting, Keyed, Storing, Taking, NoTask
  <1>4. Goes(t, o) /\ Begins(t) /\ UNCHANGED <<kept, books, marked, forgotten>>
    BY DEF Get, kept
  <1> HIDE DEF o
  <1> QED BY <1>2, <1>3, <1>4, BeginType

LEMMA MissType ==
  ASSUME TypeInv, NEW t \in Tasks, Miss(t)
  PROVE  TypeInvExceptCalls'
  BY NoTaskType, NoTaskFits, WaitType DEF Miss

\* A hit touches the key, or not.
LEMMA HitType ==
  ASSUME TypeInv, NEW t \in Tasks, FreshHit(t) \/ StaleHit(t)
  PROVE  TypeInvExceptCalls'
  <1> DEFINE o == [NoTask EXCEPT !.at = "mark", !.key = task[t].key]
  <1>1. task[t].key \in Keys
    BY DEF TypeInv, Equipped, Fit, Keyed, FreshHit, StaleHit, Hit
  <1>2. lru' \in Seq(Keys)
    BY <1>1, TouchedType DEF TypeInv, TypeOK, FreshHit, StaleHit
  <1>3. o \in Task
    BY <1>1, NoTaskType, ZenonT(30) DEF Task, Places, Maybe
  <1>4. Fit(o)
    BY <1>1 DEF Fit, Evicting, Keyed, Storing, Taking, NoTask
  <1>5. Goes(t, NoTask) \/ Goes(t, o)
    BY DEF FreshHit, StaleHit
  <1> HIDE DEF o
  <1>6. task' \in [Tasks -> Task] /\ Equipped'
    BY <1>3, <1>4, <1>5, NoTaskType, NoTaskFits, TaskStep
  <1>7. behind' \in [Tasks -> SUBSET Keys]
    BY <1>1, BehindType DEF TypeInv, FreshHit, StaleHit
  <1> QED BY <1>2, <1>6, <1>7 DEF TypeInvExceptCalls, TypeInv, TypeOK, FreshHit, StaleHit, kept

LEMMA DeadHitType ==
  ASSUME TypeInv, NEW t \in Tasks, DeadHit(t)
  PROVE  TypeInvExceptCalls'
  <1>1. task[t].key \in Keys /\ task[t].held \in Maybe(Responses)
    BY DEF TypeInv, TypeOK, Equipped, Fit, Keyed, Task, DeadHit, Hit
  <1> QED BY <1>1, TakeOutType DEF DeadHit

LEMMA MarkType ==
  ASSUME TypeInv, NEW t \in Tasks, Mark(t)
  PROVE  TypeInvExceptCalls'
  <1> DEFINE o == [task[t] EXCEPT !.at = "origin", !.bg = TRUE]
  <1>1. task[t] \in Task /\ task[t].key \in Keys
    BY DEF TypeInv, TypeOK, Equipped, Fit, Keyed, Mark
  <1>2. o \in Task
    BY <1>1 DEF Task, Places
  <1>3. Fit(o)
    BY <1>1 DEF Fit, Evicting, Keyed, Storing, Taking, Task
  <1>4. Goes(t, NoTask) \/ Goes(t, o)
    BY DEF Mark
  <1> HIDE DEF o
  <1>5. task' \in [Tasks -> Task] /\ Equipped'
    BY <1>2, <1>3, <1>4, NoTaskType, NoTaskFits, TaskStep
  <1>6. marked' \subseteq Keys
    BY <1>1 DEF Mark, TypeInv, TypeOK
  <1> QED BY <1>5, <1>6 DEF TypeInvExceptCalls, TypeInv, TypeOK, Mark, kept, books, history

LEMMA UnmarkType ==
  ASSUME TypeInv, NEW t \in Tasks, Unmark(t)
  PROVE  TypeInvExceptCalls'
  <1>1. task' \in [Tasks -> Task] /\ Equipped'
    BY NoTaskType, NoTaskFits, TaskStep DEF Unmark
  <1> QED BY <1>1 DEF TypeInvExceptCalls, TypeInv, TypeOK, Unmark, kept, books, history

----------------------------------------------------------------------------
\* set().

LEMMA LooksUpType ==
  ASSUME TypeInv, NEW t \in Tasks, NEW k \in Keys, NEW e \in Responses, LooksUp(t, k, e)
  PROVE  TypeInvExceptCalls'
  <1> DEFINE o == [task[t] EXCEPT !.at = "previous", !.key = k, !.new = e, !.held = storage[k]]
  <1>1. task[t] \in Task /\ storage[k] \in Maybe(Responses)
    BY DEF TypeInv, TypeOK
  <1>2. k \in Maybe(Keys) /\ e \in Maybe(Responses)
    BY DEF Maybe
  <1>3. o \in Task
    BY <1>1, <1>2 DEF Task, Places
  <1>4. Fit(o)
    BY <1>1 DEF Fit, Evicting, Keyed, Storing, Taking, Task
  <1>5. Goes(t, o) /\ Begins(t) /\ UNCHANGED <<kept, books, marked, forgotten>>
    BY DEF LooksUp, kept
  <1> HIDE DEF o
  <1> QED BY <1>3, <1>4, <1>5, BeginType

\* _ensureCapacity() takes a key of the list for its victim, or goes on.
LEMMA MakeRoomType ==
  ASSUME TypeInv, NEW t \in Tasks, task[t].at = "previous" \/ Evicting(task[t]),
         NEW loop, NEW s \in Seq(Keys), MakeRoom(t, loop, s)
  PROVE  /\ lru' \in Seq(Keys) /\ late' \in [Tasks -> SUBSET Keys]
         /\ Chosen(t) \subseteq Keys
         /\ \E o \in Task : Fit(o) /\ Goes(t, o)
  <1>1. task[t] \in Task /\ task[t].key \in Keys /\ task[t].new \in Responses
    BY DEF TypeInv, TypeOK, Equipped, Fit, Keyed, Storing, Taking
  <1>2. ASSUME NEW l \in {"count", "size"}, s # <<>>, lru' = Front(s),
               Goes(t, [task[t] EXCEPT !.at = "evicting", !.victim = Last(s),
                                       !.last = storage[Last(s)], !.then = l]),
               late' \in {late, [late EXCEPT ![t] = {}]}
        PROVE  /\ lru' \in Seq(Keys) /\ late' \in [Tasks -> SUBSET Keys]
               /\ Chosen(t) \subseteq Keys
               /\ \E o \in Task : Fit(o) /\ Goes(t, o)
    <2> DEFINE o == [task[t] EXCEPT !.at = "evicting", !.victim = Last(s),
                                    !.last = storage[Last(s)], !.then = l]
    <2>1. Front(s) \in Seq(Keys) /\ Last(s) \in Keys
      BY <1>2, EndsType
    <2>2. storage[Last(s)] \in Maybe(Responses) /\ Last(s) \in Maybe(Keys)
      BY <2>1 DEF TypeInv, TypeOK, Maybe
    <2>3. o \in Task
      BY <1>1, <2>2 DEF Task, Places
    <2>4. Fit(o)
      BY <1>1, <2>1 DEF Fit, Evicting, Keyed, Storing, Taking, Task
    <2>5. task'[t] = o /\ o.victim = Last(s)
      BY <1>1, <1>2 DEF Goes, TypeInv, TypeOK, Task
    <2>6. Chosen(t) \subseteq Keys
      BY <2>1, <2>5 DEF Chosen
    <2>7. lru' \in Seq(Keys) /\ late' \in [Tasks -> SUBSET Keys]
      BY <1>2, <2>1 DEF TypeInv, TypeOK
    <2> QED BY <1>2, <2>3, <2>4, <2>6, <2>7
  <1>3. ASSUME lru' = s, Goes(t, [task[t] EXCEPT !.at = "room"]),
               late' \in {late, [late EXCEPT ![t] = {}]}
        PROVE  /\ lru' \in Seq(Keys) /\ late' \in [Tasks -> SUBSET Keys]
               /\ Chosen(t) \subseteq Keys
               /\ \E o \in Task : Fit(o) /\ Goes(t, o)
    <2> DEFINE o == [task[t] EXCEPT !.at = "room"]
    <2>1. o \in Task
      BY <1>1 DEF Task, Places
    <2>2. Fit(o)
      BY <1>1 DEF Fit, Evicting, Keyed, Storing, Taking, Task
    <2>3. Chosen(t) = {}
      BY <1>1, <1>3 DEF Goes, TypeInv, TypeOK, Task, Chosen
    <2>4. lru' \in Seq(Keys) /\ late' \in [Tasks -> SUBSET Keys]
      BY <1>3 DEF TypeInv, TypeOK
    <2> QED BY <1>3, <2>1, <2>2, <2>3, <2>4
  <1>4. late' \in {late, [late EXCEPT ![t] = {}]}
    BY DEF MakeRoom, TypeInv, TypeOK
  <1> QED BY <1>2, <1>3, <1>4 DEF MakeRoom

LEMMA SupplantType ==
  ASSUME TypeInv, NEW t \in Tasks, Supplant(t)
  PROVE  TypeInvExceptCalls'
  <1> DEFINE k == task[t].key
             e == task[t].held
             s == IF e = None THEN lru ELSE Without(lru, k)
  <1>1. task[t] \in Task
    BY DEF TypeInv, TypeOK
  <1>2. s \in Seq(Keys)
    BY WithoutType DEF TypeInv, TypeOK
  <1>3. entries' \in Nat /\ bytes' \in Nat
    <2>1. CASE e = None
      BY <2>1 DEF Supplant, TypeInv, TypeOK
    <2>2. CASE e # None
      <3>1. e.size \in Nat
        BY <1>1, <2>2 DEF Task, Maybe
      <3> QED BY <2>2, <3>1, LessType DEF Supplant, TypeInv, TypeOK
    <2> QED BY <2>1, <2>2
  <1>4. tagIndex' \in [Tags -> SUBSET Keys]
    BY DEF Supplant, Unindex, TypeInv, TypeOK
  <1>5. /\ MakeRoom(t, "count", s) /\ task[t].at = "previous"
        /\ Overtakes(t, {k} \cup Chosen(t), Chosen(t) \ {k})
        /\ UNCHANGED <<kept, marked, forgotten>>
    BY DEF Supplant
  <1> HIDE DEF s
  <1>6. /\ lru' \in Seq(Keys) /\ late' \in [Tasks -> SUBSET Keys] /\ Chosen(t) \subseteq Keys
        /\ \E o \in Task : Fit(o) /\ Goes(t, o)
    BY <1>2, <1>5, MakeRoomType
  <1>7. k \in Keys
    BY <1>5 DEF TypeInv, Equipped, Fit, Keyed
  <1>8. {k} \cup Chosen(t) \in SUBSET Keys
    BY <1>6, <1>7
  <1>9. behind' \in [Tasks -> SUBSET Keys]
    BY <1>5, <1>8, BehindType DEF TypeInv
  <1>10. skewed' \in BOOLEAN
    BY DEF Supplant, TypeInv, TypeOK
  <1> QED BY <1>3, <1>4, <1>5, <1>6, <1>9, <1>10, WriteType DEF TypeInv, TypeOK, kept

LEMMA EvictType ==
  ASSUME TypeInv, NEW t \in Tasks, Evict(t)
  PROVE  TypeInvExceptCalls'
  <1>1. /\ task[t].victim \in Keys
        /\ task[t].last \in Maybe(Responses)
        /\ task[t].then \in {"end", "count", "size", "sweep"}
    BY DEF TypeInv, TypeOK, Equipped, Fit, Taking, Task, Evict
  <1> QED BY <1>1, TakeOutType DEF Evict

LEMMA EvictedType ==
  ASSUME TypeInv, NEW t \in Tasks, Evicted(t)
  PROVE  TypeInvExceptCalls'
  <1>1. /\ Evicting(task[t]) /\ MakeRoom(t, task[t].then, lru)
        /\ Overtakes(t, Chosen(t), Chosen(t) \ {task[t].key})
        /\ UNCHANGED <<kept, entries, bytes, tagIndex, skewed, marked, forgotten>>
    BY DEF Evicted, Evicting
  <1>2. /\ lru' \in Seq(Keys) /\ late' \in [Tasks -> SUBSET Keys] /\ Chosen(t) \in SUBSET Keys
        /\ \E o \in Task : Fit(o) /\ Goes(t, o)
    BY <1>1, MakeRoomType DEF TypeInv, TypeOK
  <1>3. behind' \in [Tasks -> SUBSET Keys]
    BY <1>1, <1>2, BehindType DEF TypeInv
  <1> QED BY <1>1, <1>2, <1>3, WriteType DEF TypeInv, TypeOK, kept

LEMMA StoreType ==
  ASSUME TypeInv, NEW t \in Tasks, Store(t)
  PROVE  TypeInvExceptCalls'
  <1>1. task[t] \in Task /\ task[t].key \in Keys /\ task[t].new \in Responses
    BY DEF TypeInv, TypeOK, Equipped, Fit, Keyed, Storing, Taking, Store
  <1>2. PICK a \in {"stored", "refused"} : Goes(t, [task[t] EXCEPT !.at = a])
    BY DEF Store
  <1> DEFINE o == [task[t] EXCEPT !.at = a]
  <1>3. o \in Task
    BY <1>1 DEF Task, Places
  <1>4. Fit(o)
    BY <1>1 DEF Fit, Evicting, Keyed, Storing, Taking, Task
  <1>5. storage' \in [Keys -> Maybe(Responses)] /\ phase' \in [Keys -> Phases]
    BY <1>1, HoldsType DEF Store, Maybe, TypeInv, TypeOK, kept
  <1>6. Goes(t, o) /\ Writes(t, {task[t].key}) /\ UNCHANGED <<books, marked, forgotten>>
    BY <1>2 DEF Store
  <1> HIDE DEF o
  <1>7. behind' \in [Tasks -> SUBSET Keys] /\ skewed' \in BOOLEAN
    BY <1>1, <1>6, WritesType DEF TypeInv
  <1> QED BY <1>3, <1>4, <1>5, <1>6, <1>7, WriteType DEF TypeInv, TypeOK, books

\* The end of a set(), with an entry for the books or none.
LEMMA StoredType ==
  ASSUME TypeInv, NEW t \in Tasks, Stored(t) \/ Refused(t)
  PROVE  TypeInvExceptCalls'
  <1>1. task[t] \in Task /\ task[t].key \in Keys /\ task[t].new \in Responses
    BY DEF TypeInv, TypeOK, Equipped, Fit, Keyed, Storing, Taking, Stored, Refused
  <1>2. task[t].held # None => task[t].held \in Responses
    BY <1>1 DEF Task, Maybe
  <1>3. UNCHANGED books \/ \E e \in Responses : Enrol(t, task[t].key, e)
    BY <1>1, <1>2 DEF Stored, Refused
  <1>4. /\ lru' \in Seq(Keys)
        /\ entries' \in Nat
        /\ bytes' \in Nat
        /\ tagIndex' \in [Tags -> SUBSET Keys]
        /\ late' \in [Tasks -> SUBSET Keys]
    BY <1>1, <1>3, EnrolType DEF TypeInv, TypeOK, books
  <1>5. Goes(t, Ended(t)) /\ Writes(t, {task[t].key}) /\ UNCHANGED <<kept, marked, forgotten>>
    BY DEF Stored, Refused
  <1>6. Ended(t) \in Task /\ Fit(Ended(t))
    BY EndedType
  <1>7. behind' \in [Tasks -> SUBSET Keys] /\ skewed' \in BOOLEAN
    BY <1>1, <1>5, WritesType DEF TypeInv
  <1> QED BY <1>4, <1>5, <1>6, <1>7, WriteType DEF TypeInv, TypeOK, kept

----------------------------------------------------------------------------
\* The background revalidation.

LEMMA NotModifiedType ==
  ASSUME TypeInv, NEW t \in Tasks, NotModified(t)
  PROVE  TypeInvExceptCalls'
  <1> DEFINE o == [task[t] EXCEPT !.at = "got304", !.held = storage[task[t].key]]
  <1>1. task[t] \in Task /\ task[t].key \in Keys
    BY DEF TypeInv, TypeOK, Equipped, Fit, Keyed, NotModified
  <1>2. storage[task[t].key] \in Maybe(Responses)
    BY <1>1 DEF TypeInv, TypeOK
  <1>3. o \in Task
    BY <1>1, <1>2 DEF Task, Places
  <1>4. Fit(o)
    BY <1>1 DEF Fit, Evicting, Keyed, Storing, Taking, Task
  <1>5. Goes(t, o) /\ Begins(t) /\ UNCHANGED <<kept, books, marked, forgotten>>
    BY DEF NotModified
  <1> HIDE DEF o
  <1> QED BY <1>3, <1>4, <1>5, BeginType

LEMMA RenewType ==
  ASSUME TypeInv, NEW t \in Tasks, Renew(t)
  PROVE  TypeInvExceptCalls'
  <1> DEFINE o == [task[t] EXCEPT !.at = "renewed"]
  <1>1. task[t] \in Task /\ task[t].key \in Keys
    BY DEF TypeInv, TypeOK, Equipped, Fit, Keyed, Renew
  <1>2. o \in Task
    BY <1>1 DEF Task, Places
  <1>3. Fit(o)
    BY <1>1 DEF Fit, Evicting, Keyed, Storing, Taking, Task
  <1>4. task[t].held \in Maybe(Responses)
    BY <1>1 DEF Task
  <1>5. storage' \in [Keys -> Maybe(Responses)] /\ phase' \in [Keys -> Phases]
    BY <1>4, HoldsType DEF Renew, TypeInv, TypeOK, kept
  <1>6. Goes(t, o) /\ Writes(t, {task[t].key}) /\ UNCHANGED <<books, marked, forgotten>>
    BY DEF Renew
  <1> HIDE DEF o
  <1>7. behind' \in [Tasks -> SUBSET Keys] /\ skewed' \in BOOLEAN
    BY <1>1, <1>6, WritesType DEF TypeInv
  <1> QED BY <1>2, <1>3, <1>5, <1>6, <1>7, WriteType DEF TypeInv, TypeOK, books

LEMMA RenewedType ==
  ASSUME TypeInv, NEW t \in Tasks, Renewed(t)
  PROVE  TypeInvExceptCalls'
  <1>1. task[t].key \in Keys
    BY DEF TypeInv, Equipped, Fit, Keyed, Renewed
  <1>2. lru' \in Seq(Keys)
    BY <1>1, TouchedType DEF TypeInv, TypeOK, Renewed
  <1>3. Ended(t) \in Task /\ Fit(Ended(t))
    BY EndedType
  <1>4. behind' \in [Tasks -> SUBSET Keys]
    BY <1>1, BehindType DEF TypeInv, Renewed
  <1> QED BY <1>2, <1>3, <1>4, WriteType DEF Renewed, TypeInv, TypeOK, kept

LEMMA AnsweredType ==
  ASSUME TypeInv, NEW t \in Tasks, Answered(t)
  PROVE  TypeInvExceptCalls'
  <1> DEFINE o == [task[t] EXCEPT !.at = "body"]
  <1>1. task[t] \in Task /\ task[t].key \in Keys
    BY DEF TypeInv, TypeOK, Equipped, Fit, Keyed, Answered
  <1>2. o \in Task
    BY <1>1 DEF Task, Places
  <1>3. Fit(o)
    BY <1>1 DEF Fit, Evicting, Keyed, Storing, Taking, Task
  <1>4. Goes(t, o) /\ UNCHANGED <<kept, books, marked, history, forgotten>>
    BY DEF Answered
  <1> HIDE DEF o
  <1> QED BY <1>2, <1>3, <1>4, WaitType

LEMMA FruitlessType ==
  ASSUME TypeInv, NEW t \in Tasks, Fruitless(t) \/ BodyLost(t)
  PROVE  TypeInvExceptCalls'
  <1>1. Ended(t) \in Task /\ Fit(Ended(t))
    BY EndedType
  <1> QED BY <1>1, WaitType DEF Fruitless, BodyLost

LEMMA BodyReadType ==
  ASSUME TypeInv, NEW t \in Tasks, NEW e \in Responses, BodyRead(t, e)
  PROVE  TypeInvExceptCalls'
  <1>1. task[t].key \in Keys
    BY DEF TypeInv, Equipped, Fit, Keyed, BodyRead
  <1> QED BY <1>1, LooksUpType DEF BodyRead

----------------------------------------------------------------------------
\* Invalidation, and the operations on the whole cache.

LEMMA DeleteType ==
  ASSUME TypeInv, NEW t \in Tasks, NEW k \in Keys, Delete(t, k)
  PROVE  TypeInvExceptCalls'
  <1> DEFINE o == [NoTask EXCEPT !.at = "found", !.key = k, !.held = storage[k]]
  <1>1. storage[k] \in Maybe(Responses)
    BY DEF TypeInv, TypeOK
  <1>2. o \in Task
    BY <1>1, NoTaskType DEF Task, Places, Maybe
  <1>3. Fit(o)
    BY DEF Fit, Evicting, Keyed, Storing, Taking, NoTask
  <1>4. Goes(t, o) /\ Begins(t) /\ UNCHANGED <<kept, books, marked, forgotten>>
    BY DEF Delete
  <1> HIDE DEF o
  <1> QED BY <1>2, <1>3, <1>4, BeginType

LEMMA FoundType ==
  ASSUME TypeInv, NEW t \in Tasks, Found(t)
  PROVE  TypeInvExceptCalls'
  <1>1. task[t].key \in Keys /\ task[t].held \in Maybe(Responses)
    BY DEF TypeInv, TypeOK, Equipped, Fit, Keyed, Task, Found
  <1> QED BY <1>1, TakeOutType, NoTaskType, NoTaskFits, WaitType DEF Found

\* The loop of an invalidation takes the next of a set of keys.
LEMMA SweptTask ==
  ASSUME TypeInv, NEW o \in Task, NEW k \in Keys, NEW S \in SUBSET Keys, NEW g \in Maybe(Tags),
         ~o.bg
  PROVE  LET p == [o EXCEPT !.at = "swept", !.victim = k, !.last = storage[k],
                            !.todo = S, !.tag = g]
         IN p \in Task /\ Fit(p)
  <1>1. storage[k] \in Maybe(Responses) /\ k \in Maybe(Keys)
    BY DEF TypeInv, TypeOK, Maybe
  <1> QED BY <1>1 DEF Task, Places, Fit, Evicting, Keyed, Storing, Taking

LEMMA InvalidateByTagType ==
  ASSUME TypeInv, NEW t \in Tasks, NEW g \in Tags, InvalidateByTag(t, g)
  PROVE  TypeInvExceptCalls'
  <1>1. tagIndex[g] \in SUBSET Keys
    BY DEF TypeInv, TypeOK
  <1>2. PICK k \in tagIndex[g] :
          Goes(t, [NoTask EXCEPT !.at = "swept", !.victim = k, !.last = storage[k],
                                 !.todo = tagIndex[g] \ {k}, !.tag = g])
    BY DEF InvalidateByTag
  <1> DEFINE o == [NoTask EXCEPT !.at = "swept", !.victim = k, !.last = storage[k],
                                 !.todo = tagIndex[g] \ {k}, !.tag = g]
  <1>3. k \in Keys /\ tagIndex[g] \ {k} \in SUBSET Keys /\ g \in Maybe(Tags) /\ ~NoTask.bg
    BY <1>1 DEF Maybe, NoTask
  <1>4. o \in Task /\ Fit(o)
    BY <1>3, NoTaskType, SweptTask
  <1>5. Goes(t, o) /\ Begins(t) /\ UNCHANGED <<kept, books, marked, forgotten>>
    BY <1>2 DEF InvalidateByTag
  <1> HIDE DEF o
  <1> QED BY <1>4, <1>5, BeginType

LEMMA InvalidateByURLType ==
  ASSUME TypeInv, NEW t \in Tasks, InvalidateByURL(t)
  PROVE  TypeInvExceptCalls'
  <1> DEFINE o == [NoTask EXCEPT !.at = "listed", !.todo = {k \in Keys : storage[k] # None}]
  <1>1. o \in Task
    BY NoTaskType DEF Task, Places
  <1>2. Fit(o)
    BY DEF Fit, Evicting, Keyed, Storing, Taking, NoTask
  <1>3. Goes(t, o) /\ Begins(t) /\ UNCHANGED <<kept, books, marked, forgotten>>
    BY DEF InvalidateByURL
  <1> HIDE DEF o
  <1> QED BY <1>1, <1>2, <1>3, BeginType

\* NextOf, whatever the task was about.
LEMMA NextOfType ==
  ASSUME TypeInv, NEW t \in Tasks, NEW S \in SUBSET Keys, NextOf(t, S),
         UNCHANGED <<kept, books, marked, skewed, forgotten>>
  PROVE  TypeInvExceptCalls'
  <1>1. PICK k \in S : /\ Goes(t, [task[t] EXCEPT !.at = "swept", !.victim = k,
                                                  !.last = storage[k], !.todo = S \ {k}])
                       /\ Overtakes(t, {}, {k})
    BY DEF NextOf
  <1> DEFINE o == [task[t] EXCEPT !.at = "swept", !.victim = k,
                                  !.last = storage[k], !.todo = S \ {k}]
  <1>2. task[t] \in Task /\ Fit(task[t])
    BY DEF TypeInv, TypeOK, Equipped
  <1>3. storage[k] \in Maybe(Responses) /\ k \in Maybe(Keys)
    BY DEF TypeInv, TypeOK, Maybe
  <1>4. o \in Task
    BY <1>2, <1>3 DEF Task, Places
  <1>5. Fit(o)
    BY <1>2 DEF Fit, Evicting, Keyed, Storing, Taking, Task
  <1>6. Goes(t, o)
    BY <1>1
  <1> HIDE DEF o
  <1>7. behind' \in [Tasks -> SUBSET Keys]
    BY <1>1, BehindType DEF TypeInv
  <1> QED BY <1>4, <1>5, <1>6, <1>7, WriteType DEF TypeInv, TypeOK, kept, books

LEMMA ListedType ==
  ASSUME TypeInv, NEW t \in Tasks, Listed(t)
  PROVE  TypeInvExceptCalls'
  <1>1. CASE Goes(t, NoTask) /\ UNCHANGED behind
    BY <1>1, NoTaskType, NoTaskFits, WaitType DEF Listed, history
  <1>2. CASE \E S \in SUBSET task[t].todo : NextOf(t, S)
    <2>1. PICK S \in SUBSET task[t].todo : NextOf(t, S)
      BY <1>2
    <2>2. S \in SUBSET Keys
      BY DEF TypeInv, TypeOK, Task
    <2> QED BY <2>1, <2>2, NextOfType DEF Listed
  <1> QED BY <1>1, <1>2 DEF Listed

LEMMA SweepType ==
  ASSUME TypeInv, NEW t \in Tasks, Sweep(t)
  PROVE  TypeInvExceptCalls'
  <1>1. task[t].victim \in Keys /\ task[t].last \in Maybe(Responses)
    BY DEF TypeInv, TypeOK, Equipped, Fit, Taking, Task, Sweep
  <1> QED BY <1>1, TakeOutType DEF Sweep

LEMMA SweptType ==
  ASSUME TypeInv, NEW t \in Tasks, Swept(t)
  PROVE  TypeInvExceptCalls'
  <1>1. CASE NextOf(t, task[t].todo) /\ UNCHANGED <<books, skewed>>
    <2>1. task[t].todo \in SUBSET Keys
      BY DEF TypeInv, TypeOK, Task
    <2> QED BY <1>1, <2>1, NextOfType DEF Swept
  <1>2. CASE ~(NextOf(t, task[t].todo) /\ UNCHANGED <<books, skewed>>)
    <2> DEFINE K == UNION {tagIndex[g] : g \in Tags \cap {task[t].tag}}
    <2>1. /\ Goes(t, NoTask) /\ Writes(t, K)
          /\ UNCHANGED <<kept, marked, forgotten, lru, entries, bytes, late>>
      BY <1>2 DEF Swept
    <2>2. tagIndex' \in [Tags -> SUBSET Keys]
      BY <1>2 DEF Swept, TypeInv, TypeOK
    <2>3. K \in SUBSET Keys
      BY DEF TypeInv, TypeOK
    <2> HIDE DEF K
    <2>4. behind' \in [Tasks -> SUBSET Keys] /\ skewed' \in BOOLEAN
      BY <2>1, <2>3, WritesType DEF TypeInv
    <2> QED BY <2>1, <2>2, <2>4, NoTaskType, NoTaskFits, WriteType DEF TypeInv, TypeOK, kept
  <1> QED BY <1>1, <1>2

LEMMA ClearType ==
  ASSUME TypeInv, NEW t \in Tasks, Clear(t)
  PROVE  TypeInvExceptCalls'
  <1> DEFINE o == [NoTask EXCEPT !.at = "cleared"]
  <1>1. o \in Task
    BY NoTaskType DEF Task, Places
  <1>2. Fit(o)
    BY DEF Fit, Evicting, Keyed, Storing, Taking, NoTask
  <1>3. Goes(t, o)
    BY DEF Clear
  <1> HIDE DEF o
  <1>4. task' \in [Tasks -> Task] /\ Equipped'
    BY <1>1, <1>2, <1>3, TaskStep
  <1>5. behind' \in [Tasks -> SUBSET Keys]
    BY BehindType DEF TypeInv, Clear
  <1>6. storage' \in [Keys -> Maybe(Responses)] /\ phase' \in [Keys -> Phases]
    BY DEF Clear, Maybe, Phases
  <1> QED BY <1>4, <1>5, <1>6 DEF TypeInvExceptCalls, TypeInv, TypeOK, Clear, books

LEMMA ClearedType ==
  ASSUME TypeInv, NEW t \in Tasks, Cleared(t)
  PROVE  TypeInvExceptCalls'
  <1>1. task' \in [Tasks -> Task] /\ Equipped'
    BY NoTaskType, NoTaskFits, TaskStep DEF Cleared
  <1>2. behind' \in [Tasks -> SUBSET Keys]
    BY BehindType DEF TypeInv, Cleared
  <1>3. lru' \in Seq(Keys) /\ tagIndex' \in [Tags -> SUBSET Keys]
    BY DEF Cleared
  <1> QED BY <1>1, <1>2, <1>3 DEF TypeInvExceptCalls, TypeInv, TypeOK, Cleared, kept

LEMMA RestoreType ==
  ASSUME TypeInv, NEW t \in Tasks, NEW k \in Keys, NEW e \in Responses, Restore(t, k, e)
  PROVE  TypeInvExceptCalls'
  <1> DEFINE o == [NoTask EXCEPT !.at = "restored", !.key = k, !.new = e]
  <1>1. o \in Task
    BY NoTaskType DEF Task, Places, Maybe
  <1>2. Fit(o)
    BY DEF Fit, Evicting, Keyed, Storing, Taking, NoTask
  <1>3. Goes(t, o)
    BY DEF Restore
  <1> HIDE DEF o
  <1>4. task' \in [Tasks -> Task] /\ Equipped'
    BY <1>1, <1>2, <1>3, TaskStep
  <1>5. behind' \in [Tasks -> SUBSET Keys]
    BY DEF Restore, TypeInv, TypeOK
  <1>6. storage' \in [Keys -> Maybe(Responses)] /\ phase' \in [Keys -> Phases]
    BY HoldsType DEF Restore, Maybe, TypeInv, TypeOK, kept
  <1>7. skewed' \in BOOLEAN
    BY DEF Restore, TypeInv, TypeOK
  <1> QED BY <1>4, <1>5, <1>6, <1>7 DEF TypeInvExceptCalls, TypeInv, TypeOK, Restore, books

LEMMA RestoredType ==
  ASSUME TypeInv, NEW t \in Tasks, Restored(t)
  PROVE  TypeInvExceptCalls'
  <1>1. task[t].key \in Keys /\ task[t].new \in Responses
    BY DEF TypeInv, Equipped, Fit, Keyed, Storing, Taking, Restored
  <1>2. /\ lru' \in Seq(Keys)
        /\ entries' \in Nat
        /\ bytes' \in Nat
        /\ tagIndex' \in [Tags -> SUBSET Keys]
        /\ late' \in [Tasks -> SUBSET Keys]
    BY <1>1, EnrolType DEF TypeInv, Restored
  <1>3. behind' \in [Tasks -> SUBSET Keys] /\ skewed' \in BOOLEAN
    BY <1>1, WritesType DEF TypeInv, Restored
  <1> QED BY <1>2, <1>3, NoTaskType, NoTaskFits, WriteType DEF Restored, TypeInv, TypeOK, kept

LEMMA AgeType ==
  ASSUME TypeInv, NEW k \in Keys, NEW age \in Phases, Age(k, age)
  PROVE  TypeInvExceptCalls'
  <1>1. phase' \in [Keys -> Phases]
    BY DEF Age, TypeInv, TypeOK
  <1>2. ASSUME NEW t \in Tasks
        PROVE  /\ task'[t] \in Task /\ Fit(task'[t])
    <2>1. task[t] \in Task /\ Fit(task[t])
      BY DEF TypeInv, TypeOK, Equipped
    <2>2. task'[t] = task[t] \/ task'[t] = [task[t] EXCEPT !.phase = age]
      BY DEF Age
    <2> QED BY <2>1, <2>2 DEF Task, Fit, Evicting
  <1>3. task' \in [Tasks -> Task] /\ Equipped'
    BY <1>2 DEF Age, Equipped
  <1> QED BY <1>1, <1>3 DEF TypeInvExceptCalls, TypeInv, TypeOK, Age, books, history

LEMMA StepType ==
  ASSUME TypeInv, Next
  PROVE  TypeInv'
  <1>1. calls' \in 0..MaxCalls
    BY DEF TypeInv, TypeOK, Next, Calls
  <1>2. ASSUME NEW t \in Tasks, Calls(t)
        PROVE  TypeInvExceptCalls'
    BY <1>2, GetType, DeleteType, RestoreType, InvalidateByTagType, InvalidateByURLType,
       ClearType, LooksUpType DEF Calls, Set
  <1>3. ASSUME NEW t \in Tasks, Continues(t)
        PROVE  TypeInvExceptCalls'
    BY <1>3, MissType, HitType, DeadHitType, MarkType, SupplantType, EvictType, EvictedType,
       StoreType, StoredType, NotModifiedType, RenewType, RenewedType, AnsweredType,
       FruitlessType, UnmarkType, FoundType, ListedType, SweepType, SweptType, StrikeType,
       ClearedType, RestoredType DEF Continues
  <1>4. ASSUME NEW t \in Tasks, BodyEnds(t)
        PROVE  TypeInvExceptCalls'
    BY <1>4, FruitlessType, BodyReadType DEF BodyEnds
  <1>5. TypeInvExceptCalls'
    BY <1>2, <1>3, <1>4, AgeType DEF Next
  <1> QED BY <1>1, <1>5 DEF TypeInvExceptCalls, TypeInv, TypeOK

LEMMA StutterType ==
  ASSUME TypeInv, UNCHANGED vars
  PROVE  TypeInv'
  BY DEF TypeInv, TypeOK, Equipped, vars, kept, books, history

LEMMA InitType == Init => TypeInv
  <1> SUFFICES ASSUME Init PROVE TypeInv
    OBVIOUS
  <1>1. task \in [Tasks -> Task]
    BY NoTaskType DEF Init
  <1>2. storage \in [Keys -> Maybe(Responses)] /\ phase \in [Keys -> Phases]
    BY DEF Init, Maybe, Phases
  <1>3. lru \in Seq(Keys) /\ tagIndex \in [Tags -> SUBSET Keys]
    BY DEF Init
  <1>4. calls \in 0..MaxCalls
    BY DEF Init
  <1>5. Equipped
    BY NoTaskFits DEF Init, Equipped
  <1> QED BY <1>1, <1>2, <1>3, <1>4, <1>5 DEF TypeInv, TypeOK, Init

LEMMA TypeInvCorrect == Spec => []TypeInv
  <1>1. TypeInv /\ [Next]_vars => TypeInv'
    BY StepType, StutterType
  <1> QED BY <1>1, InitType, PTL DEF Spec

\* The books, the marks and what every operation has at hand are of their types
\* whatever the operations and their interleaving; in particular the two gauges
\* never fall below zero, which is what the clamps of _delete() are for.
THEOREM TypeCorrect == Spec => []TypeOK
  BY TypeInvCorrect, PTL DEF TypeInv

----------------------------------------------------------------------------
\* One revalidation of a key.

\* Only a background revalidation gets to the finally block, and it never leaves
\* otherwise.
Role(o) ==
  /\ \/ o.at \in {"got", "mark", "found", "listed", "swept", "cleared", "restored"}
     \/ o.at \in {"deleting", "struck"} /\ o.then = "sweep"
     => ~o.bg
  /\ o.at = "evicting" => o.then # "sweep"
  /\ o.at = "unmark" => o.bg

InRole == \A t \in Tasks : Role(task[t])

\* A revalidation has the mark of its key, unless a clear() has taken it.
HasMark == \A t \in Tasks : task[t].bg => task[t].key \in marked \cup forgotten

MarkInv == InRole /\ HasMark /\ OneRevalidation

\* An operation moves on and stays what it is.
SameRole(t, o) == Role(o) /\ o.bg = task[t].bg /\ (o.bg => o.key = task[t].key)

LEMMA SameRoles ==
  ASSUME TypeInv, MarkInv, NEW t \in Tasks, NEW o, Goes(t, o), SameRole(t, o),
         UNCHANGED <<marked, forgotten>>
  PROVE  MarkInv'
  <1>1. ASSUME NEW u \in Tasks
        PROVE  /\ task'[u].bg = task[u].bg
               /\ task[u].bg => task'[u].key = task[u].key
               /\ Role(task'[u])
    BY DEF Goes, SameRole, TypeInv, TypeOK, MarkInv, InRole
  <1>2. InRole' /\ HasMark'
    BY <1>1 DEF MarkInv, InRole, HasMark, Role
  <1>3. OneRevalidation'
    BY <1>1 DEF MarkInv, OneRevalidation, Revalidating
  <1> QED BY <1>2, <1>3 DEF MarkInv

LEMMA EndedRole ==
  ASSUME NEW t \in Tasks, TypeInv
  PROVE  SameRole(t, Ended(t))
  <1>1. task[t].bg \in BOOLEAN
    BY DEF TypeInv, TypeOK, Task
  <1> QED BY <1>1 DEF SameRole, Role, Ended, NoTask

\* To return is to stay what it was, for an operation that is no revalidation.
LEMMA NoTaskRole ==
  ASSUME NEW t \in Tasks, TypeInv, ~task[t].bg
  PROVE  SameRole(t, NoTask)
  <1>1. task[t].bg \in BOOLEAN
    BY DEF TypeInv, TypeOK, Task
  <1> QED BY <1>1 DEF SameRole, Role, NoTask

\* The operations that begin, and never revalidate.
LEMMA CallsMark ==
  ASSUME TypeInv, MarkInv, NEW t \in Tasks, Calls(t)
  PROVE  MarkInv'
  <1>1. task[t] = NoTask
    BY DEF Calls, Get, Delete, Set, Restore, InvalidateByTag, InvalidateByURL, Clear
  <1> DEFINE Begun(o) == Goes(t, o) /\ SameRole(t, o)
  <1>2. ASSUME NEW k \in Keys, Get(t, k) \/ Delete(t, k)
        PROVE  \E o : Begun(o)
    <2>1. /\ SameRole(t, [NoTask EXCEPT !.at = "got", !.key = k, !.phase = phase[k],
                                        !.held = storage[k]])
          /\ SameRole(t, [NoTask EXCEPT !.at = "found", !.key = k, !.held = storage[k]])
      BY <1>1 DEF SameRole, Role, NoTask
    <2> QED BY <1>2, <2>1 DEF Get, Delete
  <1>3. ASSUME NEW k \in Keys, NEW e \in Responses, Set(t, k, e) \/ Restore(t, k, e)
        PROVE  \E o : Begun(o)
    <2>1. /\ SameRole(t, [task[t] EXCEPT !.at = "previous", !.key = k, !.new = e,
                                         !.held = storage[k]])
          /\ SameRole(t, [NoTask EXCEPT !.at = "restored", !.key = k, !.new = e])
      BY <1>1 DEF SameRole, Role, NoTask
    <2> QED BY <1>3, <2>1 DEF Set, LooksUp, Restore
  <1>4. ASSUME NEW g \in Tags, InvalidateByTag(t, g)
        PROVE  \E o : Begun(o)
    <2>1. ASSUME NEW k, NEW e, NEW S
          PROVE  SameRole(t, [NoTask EXCEPT !.at = "swept", !.victim = k, !.last = e,
                                            !.todo = S, !.tag = g])
      BY <1>1 DEF SameRole, Role, NoTask
    <2> QED BY <1>4, <2>1 DEF InvalidateByTag
  <1>5. ASSUME InvalidateByURL(t) \/ Clear(t)
        PROVE  \E o : Begun(o)
    <2>1. ASSUME NEW S
          PROVE  /\ SameRole(t, [NoTask EXCEPT !.at = "listed", !.todo = S])
                 /\ SameRole(t, [NoTask EXCEPT !.at = "cleared"])
      BY <1>1 DEF SameRole, Role, NoTask
    <2> QED BY <1>5, <2>1 DEF InvalidateByURL, Clear
  <1>6. \E o : Begun(o)
    BY <1>2, <1>3, <1>4, <1>5 DEF Calls
  <1>7. UNCHANGED <<marked, forgotten>>
    BY DEF Calls, Get, Delete, Set, LooksUp, Restore, InvalidateByTag, InvalidateByURL, Clear
  <1> QED BY <1>6, <1>7, SameRoles

\* The segments that leave every mark and every revalidation alone.
Plain(t) ==
  \/ Miss(t) \/ FreshHit(t) \/ StaleHit(t) \/ DeadHit(t)
  \/ Supplant(t) \/ Evict(t) \/ Evicted(t) \/ Store(t) \/ Stored(t) \/ Refused(t)
  \/ NotModified(t) \/ Renew(t) \/ Renewed(t) \/ Answered(t) \/ Fruitless(t)
  \/ Found(t) \/ Listed(t) \/ Sweep(t) \/ Swept(t) \/ Strike(t) \/ Restored(t)
  \/ BodyEnds(t)

LEMMA PlainUnmarked ==
  ASSUME NEW t \in Tasks, Plain(t)
  PROVE  UNCHANGED <<marked, forgotten>>
  BY DEF Plain, Miss, FreshHit, StaleHit, DeadHit, Supplant, Evict, Evicted, Store, Stored,
         Refused, NotModified, Renew, Renewed, Answered, Fruitless, Found, Listed, Sweep,
         Swept, Strike, Restored, BodyEnds, BodyLost, BodyRead, LooksUp, TakeOut

LEMMA TakeOutRole ==
  ASSUME TypeInv, NEW t \in Tasks, NEW k, NEW e,
         NEW then \in {"end", "count", "size", "sweep"},
         TakeOut(t, k, e, then), then = "sweep" => ~task[t].bg
  PROVE  \E o : Goes(t, o) /\ SameRole(t, o)
  <1> DEFINE o == [task[t] EXCEPT !.at = "deleting", !.victim = k, !.last = e, !.then = then]
  <1>1. SameRole(t, o)
    BY DEF SameRole, Role, TypeInv, TypeOK, Task
  <1> QED BY <1>1 DEF TakeOut

LEMMA MakeRoomRole ==
  ASSUME TypeInv, NEW t \in Tasks, NEW loop, NEW s, MakeRoom(t, loop, s)
  PROVE  \E o : Goes(t, o) /\ SameRole(t, o)
  <1>1. ASSUME NEW l \in {"count", "size"}, NEW v, NEW e
        PROVE  SameRole(t, [task[t] EXCEPT !.at = "evicting", !.victim = v, !.last = e,
                                           !.then = l])
    BY DEF SameRole, Role, TypeInv, TypeOK, Task
  <1>2. SameRole(t, [task[t] EXCEPT !.at = "room"])
    BY DEF SameRole, Role, TypeInv, TypeOK, Task
  <1> QED BY <1>1, <1>2 DEF MakeRoom

LEMMA NextOfRole ==
  ASSUME TypeInv, NEW t \in Tasks, ~task[t].bg, NEW S, NextOf(t, S)
  PROVE  \E o : Goes(t, o) /\ SameRole(t, o)
  <1>1. ASSUME NEW k, NEW e, NEW T
        PROVE  SameRole(t, [task[t] EXCEPT !.at = "swept", !.victim = k, !.last = e,
                                           !.todo = T])
    BY DEF SameRole, Role, TypeInv, TypeOK, Task
  <1> QED BY <1>1 DEF NextOf

LEMMA PlainRole ==
  ASSUME TypeInv, MarkInv, NEW t \in Tasks, Plain(t)
  PROVE  \E o : Goes(t, o) /\ SameRole(t, o)
  <1>1. task[t] \in Task /\ Role(task[t])
    BY DEF TypeInv, TypeOK, MarkInv, InRole
  <1>2. CASE Miss(t) \/ FreshHit(t) \/ StaleHit(t)
    <2>1. ~task[t].bg
      BY <1>1, <1>2 DEF Miss, FreshHit, StaleHit, Hit, Role
    <2>2. SameRole(t, [NoTask EXCEPT !.at = "mark", !.key = task[t].key])
      BY <1>1, <2>1 DEF SameRole, Role, NoTask, Task
    <2> QED BY <1>2, <2>1, <2>2, NoTaskRole DEF Miss, FreshHit, StaleHit
  <1>3. CASE DeadHit(t)
    BY <1>3, TakeOutRole DEF DeadHit
  <1>4. CASE Supplant(t) \/ Evicted(t)
    BY <1>4, MakeRoomRole DEF Supplant, Evicted
  <1>5. CASE Evict(t)
    BY <1>1, <1>5, TakeOutRole DEF Evict, Role, Task
  <1>6. CASE Store(t)
    BY <1>1, <1>6 DEF Store, SameRole, Role, Task
  <1>7. CASE Stored(t) \/ Refused(t) \/ Renewed(t) \/ Fruitless(t) \/ BodyLost(t)
    BY <1>7, EndedRole DEF Stored, Refused, Renewed, Fruitless, BodyLost
  <1>8. CASE NotModified(t) \/ Renew(t) \/ Answered(t)
    <2>1. ASSUME NEW e
          PROVE  SameRole(t, [task[t] EXCEPT !.at = "got304", !.held = e])
      BY <1>1 DEF SameRole, Role, Task
    <2>2. /\ SameRole(t, [task[t] EXCEPT !.at = "renewed"])
          /\ SameRole(t, [task[t] EXCEPT !.at = "body"])
      BY <1>1 DEF SameRole, Role, Task
    <2> QED BY <1>8, <2>1, <2>2 DEF NotModified, Renew, Answered
  <1>9. CASE Found(t)
    BY <1>1, <1>9, TakeOutRole, NoTaskRole DEF Found, Role
  <1>10. CASE Listed(t)
    BY <1>1, <1>10, NextOfRole, NoTaskRole DEF Listed, Role
  <1>11. CASE Sweep(t)
    BY <1>1, <1>11, TakeOutRole DEF Sweep, Role
  <1>12. CASE Swept(t)
    BY <1>1, <1>12, NextOfRole, NoTaskRole DEF Swept, Role
  <1>13. CASE Strike(t)
    <2>1. SameRole(t, [task[t] EXCEPT !.at = "struck"])
      BY <1>1, <1>13 DEF Strike, SameRole, Role, Task
    <2> QED BY <1>13, <2>1, EndedRole DEF Strike
  <1>14. CASE Restored(t)
    BY <1>1, <1>14, NoTaskRole DEF Restored, Role
  <1>15. ASSUME NEW e \in Responses, BodyRead(t, e)
         PROVE  \E o : Goes(t, o) /\ SameRole(t, o)
    <2>1. SameRole(t, [task[t] EXCEPT !.at = "previous", !.key = task[t].key, !.new = e,
                                      !.held = storage[task[t].key]])
      BY <1>1 DEF SameRole, Role, Task
    <2> QED BY <1>15, <2>1 DEF BodyRead, LooksUp
  <1> QED BY <1>2, <1>3, <1>4, <1>5, <1>6, <1>7, <1>8, <1>9, <1>10, <1>11, <1>12, <1>13,
             <1>14, <1>15 DEF Plain, BodyEnds

LEMMA PlainMark ==
  ASSUME TypeInv, MarkInv, NEW t \in Tasks, Plain(t)
  PROVE  MarkInv'
  BY PlainUnmarked, PlainRole, SameRoles

\* The first to mark a key finds no revalidation of it, but for a forgotten one.
LEMMA MarkMark ==
  ASSUME TypeInv, MarkInv, NEW t \in Tasks, Mark(t)
  PROVE  MarkInv'
  <1> DEFINE k == task[t].key
             o == [task[t] EXCEPT !.at = "origin", !.bg = TRUE]
  <1>1. task[t] \in Task /\ k \in Keys /\ ~task[t].bg
    BY DEF TypeInv, TypeOK, Equipped, Fit, Keyed, MarkInv, InRole, Role, Mark
  <1>2. CASE k \in marked
    BY <1>1, <1>2, NoTaskRole, SameRoles DEF Mark
  <1>3. CASE k \notin marked
    <2>1. Goes(t, o) /\ marked' = marked \cup {k} /\ forgotten' = forgotten
      BY <1>3 DEF Mark
    <2>2. o.bg /\ o.key = k /\ Role(o)
      BY <1>1 DEF Task, Role
    <2> HIDE DEF o
    <2>3. task' = [task EXCEPT ![t] = o] /\ task \in [Tasks -> Task]
      BY <2>1 DEF Goes, TypeInv, TypeOK
    <2>4. InRole' /\ HasMark'
      BY <2>1, <2>2, <2>3 DEF MarkInv, InRole, HasMark, Role
    <2>5. \A u \in Tasks : task[u].bg /\ task[u].key = k => k \in forgotten
      BY <1>3 DEF MarkInv, HasMark
    <2>6. OneRevalidation'
      BY <1>1, <2>1, <2>2, <2>3, <2>5 DEF MarkInv, OneRevalidation, Revalidating
    <2> QED BY <2>4, <2>6 DEF MarkInv
  <1> QED BY <1>2, <1>3

\* A revalidation that ends leaves none of its key, but for a forgotten one.
LEMMA UnmarkMark ==
  ASSUME TypeInv, MarkInv, NEW t \in Tasks, Unmark(t)
  PROVE  MarkInv'
  <1> DEFINE k == task[t].key
  <1>1. task[t].bg /\ k \in Keys
    BY DEF TypeInv, Equipped, Fit, MarkInv, InRole, Role, Unmark
  <1>2. task' = [task EXCEPT ![t] = NoTask] /\ task \in [Tasks -> Task]
    BY DEF Unmark, Goes, TypeInv, TypeOK
  <1>3. ~NoTask.bg /\ Role(NoTask)
    BY DEF NoTask, Role
  <1>4. /\ marked' = marked \ {k}
        /\ forgotten' \subseteq forgotten /\ forgotten \ {k} \subseteq forgotten'
    BY DEF Unmark
  <1>5. ASSUME NEW u \in Tasks, u # t, task[u].bg, task[u].key = k
        PROVE  k \in forgotten'
    <2>1. t \in Revalidating(k) /\ u \in Revalidating(k)
      BY <1>1, <1>5 DEF Revalidating
    <2>2. k \in forgotten
      BY <1>1, <1>5, <2>1 DEF MarkInv, OneRevalidation
    <2> QED BY <1>5, <2>1, <2>2 DEF Unmark
  <1>6. InRole'
    BY <1>2, <1>3 DEF MarkInv, InRole, Role
  <1>7. HasMark'
    BY <1>2, <1>3, <1>4, <1>5 DEF MarkInv, HasMark
  <1>8. OneRevalidation'
    BY <1>1, <1>2, <1>3, <1>4, <1>5 DEF MarkInv, OneRevalidation, Revalidating
  <1> QED BY <1>6, <1>7, <1>8 DEF MarkInv

\* A clear() takes every mark, and forgets who had them.
LEMMA ClearedMark ==
  ASSUME TypeInv, MarkInv, NEW t \in Tasks, Cleared(t)
  PROVE  MarkInv'
  <1>1. task' = [task EXCEPT ![t] = NoTask] /\ task \in [Tasks -> Task]
    BY DEF Cleared, Goes, TypeInv, TypeOK
  <1>2. ~NoTask.bg /\ Role(NoTask)
    BY DEF NoTask, Role
  <1>3. marked' = {} /\ forgotten' = {k \in Keys : Revalidating(k) # {}}
    BY DEF Cleared
  <1>4. \A u \in Tasks : task[u].bg => task[u].key \in Keys
    BY DEF TypeInv, Equipped, Fit
  <1>5. InRole'
    BY <1>1, <1>2 DEF MarkInv, InRole, Role
  <1>6. HasMark'
    BY <1>1, <1>2, <1>3, <1>4 DEF HasMark, Revalidating
  <1>7. OneRevalidation'
    BY <1>1, <1>2, <1>3 DEF OneRevalidation, Revalidating
  <1> QED BY <1>5, <1>6, <1>7 DEF MarkInv

LEMMA AgeMark ==
  ASSUME TypeInv, MarkInv, NEW k \in Keys, NEW age \in Phases, Age(k, age)
  PROVE  MarkInv'
  <1>1. ASSUME NEW u \in Tasks
        PROVE  /\ task'[u].bg = task[u].bg
               /\ task'[u].key = task[u].key
               /\ Role(task'[u])
    <2>1. task[u] \in Task /\ Role(task[u])
      BY DEF TypeInv, TypeOK, MarkInv, InRole
    <2>2. task'[u] = task[u] \/ task'[u] = [task[u] EXCEPT !.phase = age]
      BY DEF Age
    <2> QED BY <2>1, <2>2 DEF Task, Role
  <1>2. UNCHANGED <<marked, forgotten>>
    BY DEF Age
  <1>3. InRole' /\ HasMark'
    BY <1>1, <1>2 DEF MarkInv, InRole, HasMark, Role
  <1>4. OneRevalidation'
    BY <1>1, <1>2 DEF MarkInv, OneRevalidation, Revalidating
  <1> QED BY <1>3, <1>4 DEF MarkInv

\* Whatever the reads, writes, clears and answers, and in whatever order the
\* storage and the origin answer: a key that is marked has a revalidation in flight
\* that will remove the mark, and a key is not revalidated twice at a time, but for
\* the revalidations that a clear() has forgotten.
THEOREM OneRevalidationCorrect == Spec => []OneRevalidation
  <1>1. Init => MarkInv
    BY DEF Init, MarkInv, InRole, HasMark, OneRevalidation, Revalidating, Role, NoTask
  <1>2. ASSUME TypeInv, MarkInv, Next
        PROVE  MarkInv'
    <2>1. ASSUME NEW t \in Tasks, Continues(t) \/ BodyEnds(t)
          PROVE  MarkInv'
      BY <1>2, <2>1, PlainMark, MarkMark, UnmarkMark, ClearedMark DEF Continues, Plain
    <2> QED BY <1>2, <2>1, CallsMark, AgeMark DEF Next
  <1>3. MarkInv /\ UNCHANGED vars => MarkInv'
    BY DEF MarkInv, InRole, HasMark, OneRevalidation, Revalidating, Role, vars
  <1>4. TypeInv /\ MarkInv /\ [Next]_vars => MarkInv'
    BY <1>2, <1>3
  <1>5. MarkInv => OneRevalidation
    BY DEF MarkInv
  <1> QED BY <1>1, <1>4, <1>5, TypeInvCorrect, PTL DEF Spec

----------------------------------------------------------------------------
(* Sums over finite sets, by way of a least counterexample.                *)

\* Of some subsets of a finite set one is least: what proofs by induction over
\* finite sets come down to.
LEMMA LeastSubset ==
  ASSUME NEW S, IsFiniteSet(S), NEW Bad \in SUBSET SUBSET S, Bad # {}
  PROVE  \E T \in Bad : \A U \in Bad : ~(U \subseteq T /\ U # T)
  <1>1. Bad \subseteq FiniteSubsetsOf(S)
    BY FS_Subset DEF FiniteSubsetsOf
  <1>2. PICK T \in Bad : \A U \in Bad : <<U, T>> \notin StrictSubsetOrdering(S)
    BY <1>1, WFMin, FS_StrictSubsetOrderingWellFounded
  <1>3. ASSUME NEW U \in Bad, U \subseteq T, U # T PROVE FALSE
    BY <1>2, <1>3 DEF StrictSubsetOrdering
  <1> QED BY <1>3

Pick(S) == CHOOSE x \in S : TRUE

\* A recursive sum over the subsets of a finite set.
IsSum(g, f, S) == g = [s \in SUBSET S |-> IF s = {} THEN 0 ELSE f[Pick(s)] + g[s \ {Pick(s)}]]

LEMMA PickIn == ASSUME NEW S, S # {} PROVE Pick(S) \in S
  BY DEF Pick

\* The equation has one solution,
LEMMA SumUnique ==
  ASSUME NEW f, NEW S, IsFiniteSet(S), NEW g, NEW h, IsSum(g, f, S), IsSum(h, f, S)
  PROVE  g = h
  <1> DEFINE Bad == {s \in SUBSET S : g[s] # h[s]}
  <1>1. ASSUME NEW T \in Bad, \A U \in Bad : ~(U \subseteq T /\ U # T)
        PROVE  FALSE
    <2>1. T # {}
      BY DEF IsSum
    <2>2. Pick(T) \in T
      BY <2>1, PickIn
    <2>3. g[T \ {Pick(T)}] = h[T \ {Pick(T)}]
      BY <1>1, <2>2
    <2>4. g[T] = f[Pick(T)] + g[T \ {Pick(T)}] /\ h[T] = f[Pick(T)] + h[T \ {Pick(T)}]
      BY <2>1 DEF IsSum
    <2> QED BY <2>3, <2>4
  <1>2. Bad \in SUBSET SUBSET S
    OBVIOUS
  <1> HIDE DEF Bad
  <1>3. Bad = {}
    BY <1>1, <1>2, LeastSubset
  <1> QED BY <1>3 DEF IsSum, Bad

\* which is the same over a subset,
LEMMA SumRestricts ==
  ASSUME NEW f, NEW S, NEW T \in SUBSET S, NEW g, IsSum(g, f, S)
  PROVE  IsSum([s \in SUBSET T |-> g[s]], f, T)
  <1> DEFINE h == [s \in SUBSET T |-> g[s]]
  <1>1. ASSUME NEW s \in SUBSET T
        PROVE  h[s] = IF s = {} THEN 0 ELSE f[Pick(s)] + h[s \ {Pick(s)}]
    BY DEF IsSum
  <1> HIDE DEF h
  <1>2. h = [s \in SUBSET T |-> h[s]]
    BY DEF h
  <1>3. h = [s \in SUBSET T |-> IF s = {} THEN 0 ELSE f[Pick(s)] + h[s \ {Pick(s)}]]
    BY <1>1, <1>2
  <1> QED BY <1>3 DEF IsSum, h

TheSum(f, S) == CHOOSE g : IsSum(g, f, S)

\* and it has one.
LEMMA SumExists ==
  ASSUME NEW f, NEW S, IsFiniteSet(S)
  PROVE  IsSum(TheSum(f, S), f, S)
  <1> DEFINE Bad == {T \in SUBSET S : ~IsSum(TheSum(f, T), f, T)}
  <1>1. ASSUME NEW T \in Bad, \A U \in Bad : ~(U \subseteq T /\ U # T)
        PROVE  FALSE
    <2> DEFINE less(s) == s \ {Pick(s)}
                g == [s \in SUBSET T |->
                         IF s = {} THEN 0 ELSE f[Pick(s)] + TheSum(f, less(s))[less(s)]]
    <2>1. ASSUME NEW s \in SUBSET T, s # {}
          PROVE  g[less(s)] = TheSum(f, less(s))[less(s)]
      <3> DEFINE u == less(s)
      <3>1. u \in SUBSET T /\ u # T
        BY <2>1, PickIn
      <3>2. IsSum(TheSum(f, u), f, u)
        BY <1>1, <3>1
      <3>3. ASSUME u = {} PROVE g[u] = TheSum(f, u)[u]
        BY <3>2, <3>3 DEF IsSum
      <3>4. ASSUME u # {} PROVE g[u] = TheSum(f, u)[u]
        <4> DEFINE v == less(u)
        <4>7. g[u] = f[Pick(u)] + TheSum(f, v)[v]
          BY <3>1, <3>4
        <4>8. TheSum(f, u)[u] = f[Pick(u)] + TheSum(f, u)[v]
          <5>1. u \in SUBSET u
            OBVIOUS
          <5> HIDE DEF u
          <5> QED BY <3>2, <3>4, <5>1 DEF IsSum
        <4>1. v \in SUBSET u /\ v \in SUBSET T /\ v # T
          BY <3>1
        <4>2. IsSum(TheSum(f, v), f, v)
          BY <1>1, <4>1
        <4> HIDE DEF v, u
        <4>3. IsSum([x \in SUBSET v |-> TheSum(f, u)[x]], f, v)
          BY <3>2, <4>1, SumRestricts, ZenonT(30)
        <4>4. IsFiniteSet(v)
          BY <4>1, FS_Subset
        <4>5. TheSum(f, v) = [x \in SUBSET v |-> TheSum(f, u)[x]]
          BY <4>2, <4>3, <4>4, SumUnique
        <4>6. TheSum(f, v)[v] = TheSum(f, u)[v]
          BY <4>5
        <4> QED BY <4>6, <4>7, <4>8
      <3> QED BY <3>3, <3>4
    <2>2. IsSum(g, f, T)
      <3>1. ASSUME NEW s \in SUBSET T
            PROVE  g[s] = IF s = {} THEN 0 ELSE f[Pick(s)] + g[s \ {Pick(s)}]
        BY <2>1
      <3> HIDE DEF g
      <3>2. g = [s \in SUBSET T |-> g[s]]
        BY DEF g
      <3>3. g = [s \in SUBSET T |-> IF s = {} THEN 0 ELSE f[Pick(s)] + g[s \ {Pick(s)}]]
        BY <3>1, <3>2
      <3> QED BY <3>3 DEF IsSum
    <2> QED BY <2>2 DEF TheSum
  <1>2. Bad \in SUBSET SUBSET S
    OBVIOUS
  <1> HIDE DEF Bad
  <1>3. Bad = {}
    BY <1>1, <1>2, LeastSubset
  <1> QED BY <1>3 DEF Bad

\* The community operator is that solution.
LEMMA SumIs ==
  ASSUME NEW f, NEW S
  PROVE  SumFunctionOnSet(f, S) = TheSum(f, S)[S]
  BY DEF SumFunctionOnSet, FoldFunctionOnSet, MapThenFoldSet, IsSum, Pick, TheSum

\* TheSum sum over a finite set, one element at a time.
LEMMA SumStep ==
  ASSUME NEW f, NEW S, IsFiniteSet(S)
  PROVE  SumFunctionOnSet(f, S) =
           IF S = {} THEN 0 ELSE f[Pick(S)] + SumFunctionOnSet(f, S \ {Pick(S)})
  <1> DEFINE T == S \ {Pick(S)}
  <1>1. IsSum(TheSum(f, S), f, S) /\ IsSum(TheSum(f, T), f, T)
    BY SumExists, FS_Subset
  <1>2. IsSum([s \in SUBSET T |-> TheSum(f, S)[s]], f, T)
    <2>1. T \in SUBSET S
      OBVIOUS
    <2>2. IsSum(TheSum(f, S), f, S)
      BY <1>1
    <2> HIDE DEF T
    <2> QED BY <2>1, <2>2, SumRestricts
  <1>3. TheSum(f, T) = [s \in SUBSET T |-> TheSum(f, S)[s]]
    BY <1>1, <1>2, SumUnique, FS_Subset
  <1>4. TheSum(f, T)[T] = TheSum(f, S)[T]
    BY <1>3
  <1>5. TheSum(f, S)[S] = IF S = {} THEN 0 ELSE f[Pick(S)] + TheSum(f, S)[T]
    BY <1>1 DEF IsSum
  <1> QED BY <1>4, <1>5, SumIs

\* A sum of naturals is a natural,
LEMMA SumNat ==
  ASSUME NEW f, NEW S, IsFiniteSet(S), \A x \in S : f[x] \in Nat
  PROVE  SumFunctionOnSet(f, S) \in Nat
  <1> DEFINE Bad == {T \in SUBSET S : SumFunctionOnSet(f, T) \notin Nat}
  <1>1. ASSUME NEW T \in Bad, \A U \in Bad : ~(U \subseteq T /\ U # T)
        PROVE  FALSE
    <2> DEFINE u == T \ {Pick(T)}
    <2>1. SumFunctionOnSet(f, T) = IF T = {} THEN 0 ELSE f[Pick(T)] + SumFunctionOnSet(f, u)
      BY SumStep, FS_Subset
    <2>2. T # {} => Pick(T) \in T /\ u # T
      BY PickIn
    <2>3. T # {} => SumFunctionOnSet(f, u) \in Nat
      BY <1>1, <2>2
    <2> QED BY <2>1, <2>2, <2>3
  <1>2. Bad \in SUBSET SUBSET S
    OBVIOUS
  <1> HIDE DEF Bad
  <1>3. Bad = {}
    BY <1>1, <1>2, LeastSubset
  <1> QED BY <1>3 DEF Bad

\* is taken in any order,
LEMMA SumAny ==
  ASSUME NEW f, NEW S, IsFiniteSet(S), \A x \in S : f[x] \in Nat, NEW x \in S
  PROVE  SumFunctionOnSet(f, S) = f[x] + SumFunctionOnSet(f, S \ {x})
  <1> DEFINE Sum(T) == SumFunctionOnSet(f, T)
              Bad == {T \in SUBSET S : \E y \in T : Sum(T) # f[y] + Sum(T \ {y})}
  <1>1. ASSUME NEW T \in Bad, \A U \in Bad : ~(U \subseteq T /\ U # T)
        PROVE  FALSE
    <2>1. PICK y \in T : Sum(T) # f[y] + Sum(T \ {y})
      OBVIOUS
    <2> DEFINE p == Pick(T)
    <2>2. p \in T
      BY <2>1, PickIn
    <2>3. IsFiniteSet(T)
      BY FS_Subset
    <2>4. Sum(T) = f[p] + Sum(T \ {p})
      BY <2>1, <2>3, SumStep
    <2>5. p # y
      BY <2>1, <2>4
    <2>6. Sum(T \ {p}) = f[y] + Sum((T \ {p}) \ {y})
      <3>1. T \ {p} \in SUBSET S /\ T \ {p} # T /\ y \in T \ {p}
        BY <2>2, <2>5
      <3>2. T \ {p} \notin Bad
        BY <1>1, <3>1
      <3> QED BY <3>1, <3>2
    <2>7. Sum(T \ {y}) = f[p] + Sum((T \ {y}) \ {p})
      <3>1. T \ {y} \in SUBSET S /\ T \ {y} # T /\ p \in T \ {y}
        BY <2>2, <2>5
      <3>2. T \ {y} \notin Bad
        BY <1>1, <3>1
      <3> QED BY <3>1, <3>2
    <2>8. (T \ {y}) \ {p} = (T \ {p}) \ {y}
      OBVIOUS
    <2>9. Sum((T \ {p}) \ {y}) \in Nat /\ f[p] \in Nat /\ f[y] \in Nat
      BY <2>2, <2>3, FS_Subset, SumNat
    <2> DEFINE rest == Sum((T \ {p}) \ {y})
    <2>10. Sum(T) = f[p] + (f[y] + rest) /\ Sum(T \ {y}) = f[p] + rest
      BY <2>4, <2>6, <2>7, <2>8
    <2>11. rest \in Nat
      BY <2>9
    <2> HIDE DEF Sum, p, rest
    <2>12. f[p] + (f[y] + rest) = f[y] + (f[p] + rest)
      BY <2>9, <2>11
    <2> QED BY <2>1, <2>10, <2>12
  <1>2. Bad \in SUBSET SUBSET S
    OBVIOUS
  <1> HIDE DEF Bad
  <1>3. Bad = {}
    BY <1>1, <1>2, LeastSubset
  <1> QED BY <1>3 DEF Bad

\* and depends on the values over the set only.
LEMMA SumSame ==
  ASSUME NEW f, NEW g, NEW S, IsFiniteSet(S), \A x \in S : f[x] = g[x]
  PROVE  SumFunctionOnSet(f, S) = SumFunctionOnSet(g, S)
  <1> DEFINE Bad == {T \in SUBSET S : SumFunctionOnSet(f, T) # SumFunctionOnSet(g, T)}
  <1>1. ASSUME NEW T \in Bad, \A U \in Bad : ~(U \subseteq T /\ U # T)
        PROVE  FALSE
    <2> DEFINE u == T \ {Pick(T)}
    <2>1. /\ SumFunctionOnSet(f, T) = IF T = {} THEN 0 ELSE f[Pick(T)] + SumFunctionOnSet(f, u)
          /\ SumFunctionOnSet(g, T) = IF T = {} THEN 0 ELSE g[Pick(T)] + SumFunctionOnSet(g, u)
      BY SumStep, FS_Subset
    <2>2. T # {} => Pick(T) \in T /\ u # T
      BY PickIn
    <2>3. T # {} => SumFunctionOnSet(f, u) = SumFunctionOnSet(g, u)
      BY <1>1, <2>2
    <2> QED BY <2>1, <2>2, <2>3
  <1>2. Bad \in SUBSET SUBSET S
    OBVIOUS
  <1> HIDE DEF Bad
  <1>3. Bad = {}
    BY <1>1, <1>2, LeastSubset
  <1> QED BY <1>3 DEF Bad

----------------------------------------------------------------------------
\* The LRU list has each key once, and every helper keeps it so.

Once(s) == \A i, j \in DOMAIN s : s[i] = s[j] => i = j

\* LRUTracker.remove takes out the key and nothing else.
LEMMA WithoutOnce ==
  ASSUME NEW s \in Seq(Keys), NEW k, Once(s)
  PROVE  /\ Range(Without(s, k)) = Range(s) \ {k}
         /\ Once(Without(s, k))
  <1>1. CASE k \notin Range(s)
    BY <1>1 DEF Without
  <1>2. CASE k \in Range(s)
    <2> DEFINE i == CHOOSE i \in DOMAIN s : s[i] = k
               w == SubSeq(s, 1, i - 1) \o SubSeq(s, i + 1, Len(s))
    <2>1. i \in DOMAIN s /\ s[i] = k
      BY <1>2 DEF Range
    <2>2. Without(s, k) = w
      BY <1>2 DEF Without, RemoveAt
    <2> HIDE DEF i
    <2>3. i \in 1..Len(s) /\ Len(s) \in Nat
      BY <2>1
    <2>4. /\ DOMAIN w = 1..(Len(s) - 1)
          /\ \A j \in 1..(Len(s) - 1) : w[j] = IF j < i THEN s[j] ELSE s[j + 1]
      <3> DEFINE a == SubSeq(s, 1, i - 1)
                 b == SubSeq(s, i + 1, Len(s))
      <3>1. /\ a \in Seq(Keys) /\ Len(a) = i - 1
            /\ \A j \in 1..(i - 1) : a[j] = s[j]
        BY <2>3
      <3>2. /\ b \in Seq(Keys) /\ Len(b) = Len(s) - i
            /\ \A j \in 1..(Len(s) - i) : b[j] = s[i + j]
        BY <2>3
      <3> HIDE DEF a, b
      <3>3. /\ a \o b \in Seq(Keys) /\ Len(a \o b) = Len(s) - 1
            /\ \A j \in 1..(Len(s) - 1) : (a \o b)[j] = IF j < i THEN a[j] ELSE b[j - i + 1]
        BY <2>3, <3>1, <3>2, SMTT(20)
      <3>4. DOMAIN (a \o b) = 1..(Len(s) - 1)
        BY <3>3
      <3>5. ASSUME NEW j \in 1..(Len(s) - 1)
            PROVE  (a \o b)[j] = IF j < i THEN s[j] ELSE s[j + 1]
        <4>1. CASE j < i
          BY <2>3, <3>1, <3>3, <4>1
        <4>2. CASE ~(j < i)
          <5>1. j - i + 1 \in 1..(Len(s) - i) /\ i + (j - i + 1) = j + 1
            BY <2>3, <4>2
          <5> QED BY <3>2, <3>3, <4>2, <5>1
        <4> QED BY <4>1, <4>2
      <3> QED BY <3>4, <3>5 DEF a, b
    <2> HIDE DEF w
    <2>5. Once(w)
      BY <2>3, <2>4 DEF Once
    <2>6. ASSUME NEW x \in Range(s), x # k PROVE x \in Range(w)
      <3>1. PICK j \in DOMAIN s : s[j] = x
        BY DEF Range
      <3>2. j \in 1..Len(s) /\ j # i
        BY <2>1, <2>6, <3>1
      <3>3. CASE j < i
        <4>1. j \in 1..(Len(s) - 1) /\ w[j] = x
          BY <2>3, <2>4, <3>1, <3>2, <3>3
        <4> QED BY <2>4, <4>1 DEF Range
      <3>4. CASE j > i
        <4>1. j - 1 \in 1..(Len(s) - 1) /\ w[j - 1] = x
          BY <2>3, <2>4, <3>1, <3>2, <3>4
        <4> QED BY <2>4, <4>1 DEF Range
      <3> QED BY <2>3, <3>2, <3>3, <3>4
    <2>7. ASSUME NEW x \in Range(w) PROVE x \in Range(s) /\ x # k
      <3>1. PICK j \in DOMAIN w : w[j] = x
        BY DEF Range
      <3>2. j \in 1..(Len(s) - 1)
        BY <2>4, <3>1
      <3> DEFINE m == IF j < i THEN j ELSE j + 1
      <3>3. m \in 1..Len(s) /\ m # i /\ s[m] = x
        BY <2>3, <2>4, <3>1, <3>2
      <3> QED BY <2>1, <3>3 DEF Once, Range
    <2> QED BY <2>2, <2>5, <2>6, <2>7
  <1> QED BY <1>1, <1>2

\* LRUTracker.touch puts the key in, or leaves it in.
LEMMA TouchedOnce ==
  ASSUME TypeOK, NEW k \in Keys, Once(lru)
  PROVE  Range(Touched(k)) = Range(lru) \cup {k} /\ Once(Touched(k))
  <1> DEFINE w == Without(lru, k)
  <1>1. w \in Seq(Keys) /\ Range(w) = Range(lru) \ {k} /\ Once(w)
    BY WithoutOnce, WithoutType DEF TypeOK
  <1> HIDE DEF w
  <1>2. /\ DOMAIN (<<k>> \o w) = 1..(Len(w) + 1)
        /\ (<<k>> \o w)[1] = k
        /\ \A j \in 1..Len(w) : (<<k>> \o w)[j + 1] = w[j]
        /\ \A j \in 2..(Len(w) + 1) : (<<k>> \o w)[j] = w[j - 1]
        /\ Len(w) \in Nat /\ DOMAIN w = 1..Len(w)
    BY <1>1
  <1> DEFINE v == <<k>> \o w
  <1>3. Touched(k) = v
    BY DEF Touched, w
  <1> HIDE DEF v
  <1>4. \A j \in 1..Len(w) : w[j] # k
    BY <1>1, <1>2 DEF Range
  <1>5. Once(v)
    BY <1>1, <1>2, <1>4 DEF Once, v
  <1>6. ASSUME NEW x \in Range(w) PROVE x \in Range(v)
    <2>1. PICK j \in 1..Len(w) : w[j] = x
      BY <1>2 DEF Range
    <2>2. v[j + 1] = x /\ j + 1 \in DOMAIN v
      BY <1>2, <2>1 DEF v
    <2> QED BY <2>2 DEF Range
  <1>7. k \in Range(v)
    <2>1. v[1] = k /\ 1 \in DOMAIN v
      BY <1>2 DEF v
    <2> QED BY <2>1 DEF Range
  <1>8. ASSUME NEW x \in Range(v) PROVE x \in Range(w) \cup {k}
    <2>1. PICK j \in DOMAIN v : v[j] = x
      BY DEF Range
    <2>2. CASE j = 1
      BY <1>2, <2>1, <2>2 DEF v
    <2>3. CASE j # 1
      <3>1. j - 1 \in 1..Len(w) /\ w[j - 1] = x
        BY <1>2, <2>1, <2>3 DEF v
      <3> QED BY <1>2, <3>1 DEF Range
    <2> QED BY <2>2, <2>3
  <1> QED BY <1>1, <1>3, <1>5, <1>6, <1>7, <1>8

\* Eviction takes the last key off the list.
LEMMA FrontOnce ==
  ASSUME NEW s \in Seq(Keys), s # <<>>, Once(s)
  PROVE  /\ Once(Front(s))
         /\ Range(s) = Range(Front(s)) \cup {Last(s)}
         /\ Last(s) \notin Range(Front(s))
  <1>1. Len(s) \in Nat \ {0} /\ DOMAIN s = 1..Len(s)
    OBVIOUS
  <1>2. /\ DOMAIN Front(s) = 1..(Len(s) - 1)
        /\ \A j \in 1..(Len(s) - 1) : Front(s)[j] = s[j]
        /\ Last(s) = s[Len(s)]
    BY <1>1 DEF Front, Last
  <1> DEFINE w == Front(s)
  <1> HIDE DEF w
  <1>3. Once(w) /\ \A j \in 1..(Len(s) - 1) : w[j] # Last(s)
    BY <1>1, <1>2 DEF Once, w
  <1>4. ASSUME NEW x \in Range(s) PROVE x \in Range(w) \cup {Last(s)}
    BY <1>1, <1>2 DEF Range, w
  <1>5. ASSUME NEW x \in Range(w) PROVE x \in Range(s)
    BY <1>1, <1>2 DEF Range, w
  <1>6. Last(s) \in Range(s)
    BY <1>1, <1>2 DEF Range
  <1>7. Last(s) \notin Range(w)
    BY <1>2, <1>3 DEF Range, w
  <1> QED BY <1>3, <1>4, <1>5, <1>6, <1>7 DEF w

----------------------------------------------------------------------------
(* The books.                                                              *)

\* What s holds, and books that tell of it: the gauges n and b, and the tag index x.
Holdings  == [Keys -> Maybe(Responses)]
In(s)     == {k \in Keys : s[k] # None}
Weight(s) == [k \in Keys |-> IF s[k] = None THEN 0 ELSE s[k].size]
Tell(n, b, x, s) ==
  /\ n = Cardinality(In(s))
  /\ b = SumFunctionOnSet(Weight(s), In(s))
  /\ \A g \in Tags : x[g] = {k \in In(s) : g \in s[k].tags}

\* What is held is finite, and so is its size.
LEMMA HeldFinite ==
  ASSUME NEW s \in Holdings
  PROVE  /\ IsFiniteSet(In(s)) /\ Cardinality(In(s)) \in Nat
         /\ \A k \in Keys : Weight(s)[k] \in Nat
         /\ SumFunctionOnSet(Weight(s), In(s)) \in Nat
         /\ \A k \in In(s) : s[k] \in Responses /\ s[k].size \in Nat \ {0}
  <1>1. IsFiniteSet(In(s))
    BY FS_Subset DEF In
  <1>2. \A k \in In(s) : s[k] \in Responses
    BY DEF In, Holdings, Maybe
  <1>3. \A k \in In(s) : s[k].size \in Nat \ {0}
    BY <1>2
  <1>4. \A k \in Keys : Weight(s)[k] \in Nat
    BY <1>3 DEF Weight, In
  <1>5. \A k \in In(s) : Weight(s)[k] \in Nat
    BY <1>4 DEF In
  <1> QED BY <1>1, <1>2, <1>3, <1>4, <1>5, FS_CardinalityType, SumNat

\* An entry more.
LEMMA TellMore ==
  ASSUME NEW s \in Holdings, NEW k \in Keys, s[k] = None, NEW e \in Responses,
         NEW n, NEW b, NEW x, Tell(n, b, x, s)
  PROVE  Tell(n + 1, b + e.size, [g \in Tags |-> IF g \in e.tags THEN x[g] \cup {k} ELSE x[g]],
              [s EXCEPT ![k] = e])
  <1> DEFINE r == [s EXCEPT ![k] = e]
  <1>1. r \in Holdings /\ r[k] = e /\ e # None /\ \A j \in Keys : j # k => r[j] = s[j]
    BY DEF Holdings, Maybe
  <1> HIDE DEF r
  <1>2. In(r) = In(s) \cup {k} /\ k \notin In(s) /\ In(r) \ {k} = In(s) /\ k \in In(r)
    BY <1>1 DEF In
  <1>3. n + 1 = Cardinality(In(r))
    BY <1>2, HeldFinite, FS_AddElement DEF Tell
  <1>4. b + e.size = SumFunctionOnSet(Weight(r), In(r))
    <2>1. \A j \in In(r) : Weight(r)[j] \in Nat
      BY <1>1, HeldFinite DEF In
    <2>2. SumFunctionOnSet(Weight(r), In(r)) = Weight(r)[k] + SumFunctionOnSet(Weight(r), In(s))
      <3>1. IsFiniteSet(In(r))
        BY <1>1, HeldFinite
      <3> QED BY <1>2, <2>1, <3>1, SumAny
    <2>3. \A j \in In(s) : Weight(r)[j] = Weight(s)[j]
      BY <1>1, <1>2 DEF In, Weight
    <2>4. SumFunctionOnSet(Weight(r), In(s)) = SumFunctionOnSet(Weight(s), In(s))
      BY <2>3, HeldFinite, SumSame
    <2>5. Weight(r)[k] = e.size
      BY <1>1 DEF Weight
    <2>6. b \in Nat /\ e.size \in Nat
      BY HeldFinite DEF Tell
    <2> QED BY <2>2, <2>4, <2>5, <2>6 DEF Tell
  <1>5. ASSUME NEW g \in Tags
        PROVE  (IF g \in e.tags THEN x[g] \cup {k} ELSE x[g]) = {j \in In(r) : g \in r[j].tags}
    BY <1>1, <1>2 DEF Tell, In
  <1> QED BY <1>3, <1>4, <1>5 DEF Tell, r

\* An entry less.
LEMMA TellLess ==
  ASSUME NEW s \in Holdings, NEW k \in Keys, s[k] # None,
         NEW n, NEW b, NEW x, Tell(n, b, x, s)
  PROVE  /\ Tell(Less(n, 1), Less(b, s[k].size),
                 [g \in Tags |-> IF g \in s[k].tags THEN x[g] \ {k} ELSE x[g]],
                 [s EXCEPT ![k] = None])
         /\ Less(n, 1) < n
  <1> DEFINE r == [s EXCEPT ![k] = None]
  <1>1. r \in Holdings /\ r[k] = None /\ \A j \in Keys : j # k => r[j] = s[j]
    BY DEF Holdings, Maybe
  <1> HIDE DEF r
  <1>2. In(r) = In(s) \ {k} /\ k \in In(s)
    BY <1>1 DEF In
  <1>3. Less(n, 1) = Cardinality(In(r)) /\ Less(n, 1) < n
    <2>1. Cardinality(In(r)) = n - 1 /\ n \in Nat /\ Cardinality(In(r)) \in Nat
      BY <1>1, <1>2, HeldFinite, FS_RemoveElement, ZenonT(30) DEF Tell
    <2> QED BY <2>1 DEF Less
  <1>4. Less(b, s[k].size) = SumFunctionOnSet(Weight(r), In(r))
    <2>1. \A j \in In(s) : Weight(s)[j] \in Nat
      BY HeldFinite DEF In
    <2>2. SumFunctionOnSet(Weight(s), In(s)) = Weight(s)[k] + SumFunctionOnSet(Weight(s), In(r))
      BY <1>2, <2>1, SumAny, HeldFinite
    <2>3. \A j \in In(r) : Weight(s)[j] = Weight(r)[j]
      BY <1>1, <1>2 DEF In, Weight
    <2>4. SumFunctionOnSet(Weight(s), In(r)) = SumFunctionOnSet(Weight(r), In(r))
      BY <1>1, <2>3, HeldFinite, SumSame
    <2>5. Weight(s)[k] = s[k].size
      BY DEF Weight
    <2>6. b \in Nat /\ s[k].size \in Nat /\ SumFunctionOnSet(Weight(r), In(r)) \in Nat
      BY <1>1, <1>2, HeldFinite DEF Tell
    <2> QED BY <2>2, <2>4, <2>5, <2>6 DEF Tell, Less
  <1>5. ASSUME NEW g \in Tags
        PROVE  (IF g \in s[k].tags THEN x[g] \ {k} ELSE x[g]) = {j \in In(r) : g \in r[j].tags}
    BY <1>1, <1>2 DEF Tell, In
  <1> QED BY <1>3, <1>4, <1>5 DEF Tell, r

\* The books of an empty storage.
LEMMA TellNothing ==
  ASSUME NEW s, \A k \in Keys : s[k] = None
  PROVE  Tell(0, 0, [g \in Tags |-> {}], s)
  <1>1. In(s) = {}
    BY DEF In
  <1>2. Cardinality(In(s)) = 0 /\ SumFunctionOnSet(Weight(s), In(s)) = 0
    BY <1>1, FS_EmptySet, SumStep
  <1> QED BY <1>1, <1>2 DEF Tell

----------------------------------------------------------------------------
(* What an operation owes the books, and what it has learned.              *)

\* A set() that has taken the old entry off the books, or is about to add one; an entry that
\* is being taken out; an entry that somebody has yet to take off the books, or to add.
Replacing(o) == o.at = "evicting" \/ Evicting(o)
Adds(o, k)   == /\ o.at \in {"room", "stored", "refused", "restored"} \/ Replacing(o)
                /\ o.key = k
Drops(o, k)  == o.at \in {"evicting", "deleting"} /\ o.victim = k
Takes(o, k)  == o.at = "deleting" /\ o.victim = k
Owes(o, k)   == o.at = "cleared" \/ Adds(o, k) \/ Drops(o, k)
Sweeping(o)  == o.at = "swept" \/ (o.at \in {"deleting", "struck"} /\ o.then = "sweep")

Shape(o) ==
  /\ o.at = "evicting" => o.then \in {"count", "size"}
  /\ o.at = "listed" => o.tag = None

\* What an operation has read of a key, or has made of it, is what the storage s and the list l
\* say, but for the keys of b, where others have written since.
Knows(o, s, l, b) ==
  /\ o.at \in {"got", "found", "previous", "got304", "room", "refused"} \/ Replacing(o)
       => o.key \in b \/ o.held = s[o.key]
  /\ o.at \in {"evicting", "swept"} => o.victim \in b \/ o.last = s[o.victim]
  /\ o.at \in {"deleting", "struck"} => o.victim \in b \/ s[o.victim] = None
  /\ o.at \in {"stored", "restored"} => o.key \in b \/ s[o.key] = o.new
  /\ Replacing(o) /\ o.held # None => o.key \in b \/ o.key \notin Range(l)
  /\ o.at \in {"evicting", "deleting"} /\ Replacing(o) /\ o.victim = o.key
       => o.key \in b \/ (o.held = None /\ o.last = None)
  /\ o.at = "cleared" => \A k \in Keys : k \in b \/ s[k] = None

\* The entry e of k that the books tell of, if nobody but o deals with k.
Own(o, k, e, s, l) ==
  /\ Takes(o, k) => e = o.last
  /\ Adds(o, k) => e = None
  /\ ~Takes(o, k) /\ ~Adds(o, k) => e = s[k]
  /\ s[k] # None => k \in Range(l) \/ Owes(o, k)

\* An invalidation by tag has yet to come to every key that bears the tag.
Left(o, x, b) ==
  Sweeping(o) /\ o.tag # None =>
    x[o.tag] \subseteq o.todo \cup b \cup (IF o.at = "struck" THEN {} ELSE {o.victim})

\* There is room for the entry of o beside those of r.
Fills(o, r, w) ==
  /\ Cardinality(r) < MaxEntries
  /\ o.at \in {"room", "stored"} => SumFunctionOnSet(w, r) + o.new.size <= MaxSize

Shaped == \A t \in Tasks : Shape(task[t])
Known  == \A t \in Tasks : Inside(t) => Knows(task[t], storage, lru, behind[t])

\* Of two operations that owe the books a key, one is behind on it,
Sole == \A k \in Keys, t, u \in Tasks :
          t # u /\ Owes(task[t], k) /\ Owes(task[u], k) => k \in behind[t] \cup behind[u]
\* which is lost: its next write is a race.
Doomed == \E t \in Tasks, k \in Keys : Owes(task[t], k) /\ k \in behind[t]

\* Otherwise the books tell of the entries of B: every key as its one operation has left it,
Handled(B) ==
  \A t \in Tasks, k \in Keys :
    (\A u \in Tasks \ {t} : ~Owes(task[u], k)) => Own(task[t], k, B[k], storage, lru)
\* and a set() that has made room has it still, but for what has come since.
Dropped(S) == \A k \in S : \E u \in Tasks : Drops(task[u], k)
Roomy(t, B) ==
  Counted(task[t]) =>
    \/ Dropped(In(B) \ late[t]) /\ task[t].at \in {"room", "stored"}
    \/ Fills(task[t], In(B) \ late[t], Weight(B))
Agree(B) ==
  /\ Tell(entries, bytes, tagIndex, B)
  /\ Handled(B)
  /\ \A t \in Tasks : Roomy(t, B)
Straight ==
  \/ \E t \in Tasks : task[t].at = "cleared"
  \/ /\ \A t \in Tasks : Left(task[t], tagIndex, behind[t])
     /\ \E B \in Holdings : Agree(B)

BooksInv == Once(lru) /\ Shaped /\ Known /\ Sole /\ (skewed \/ Doomed \/ Straight)

----------------------------------------------------------------------------
(* One segment, of an operation t that becomes o, which touches no keys    *)
(* but those of K.                                                         *)

SameStand(o, p, k) ==
  /\ Adds(o, k) <=> Adds(p, k)
  /\ Drops(o, k) <=> Drops(p, k)
  /\ Takes(o, k) <=> Takes(p, k)
  /\ Takes(o, k) => o.last = p.last

Frame(t, o, K) ==
  /\ Goes(t, o) /\ task[t].at # "cleared" /\ o.at # "cleared"
  /\ skewed => skewed'
  /\ \A u \in Tasks \ {t} : Inside(u) => behind'[u] = behind[u] \cup K
  /\ \A k \in Keys \ K :
       /\ storage'[k] = storage[k]
       /\ k \in Range(lru') <=> k \in Range(lru)
       /\ \A g \in Tags : k \in tagIndex'[g] <=> k \in tagIndex[g]
       /\ SameStand(o, task[t], k)
       /\ Owes(o, k) /\ k \in behind[t] => k \in behind'[t]
  /\ \A k \in K : Owes(task[t], k) /\ k \in behind[t]
                    => skewed' \/ (Owes(o, k) /\ k \in behind'[t])
  /\ Once(lru') /\ Shape(o)
  /\ Inside(t)' => Knows(o, storage', lru', behind'[t])

\* Who owes the books anything is inside the cache.
LEMMA OwesInside ==
  ASSUME NEW t \in Tasks, NEW k, Owes(task[t], k)
  PROVE  Inside(t)
  BY DEF Owes, Adds, Drops, Replacing, Evicting, Inside

LEMMA FrameKnown ==
  ASSUME TypeInv, Known, NEW t \in Tasks, NEW o, NEW K \in SUBSET Keys, Frame(t, o, K)
  PROVE  Known'
  <1>1. ASSUME NEW u \in Tasks \ {t}, Inside(u)
        PROVE  Knows(task[u], storage', lru', behind'[u])
    <2>1. Knows(task[u], storage, lru, behind[u]) /\ behind'[u] = behind[u] \cup K
      BY <1>1 DEF Known, Frame
    <2>2. ASSUME NEW k \in Keys
          PROVE  k \in K \/ (storage'[k] = storage[k] /\ (k \in Range(lru') <=> k \in Range(lru)))
      BY DEF Frame
    <2>3. Fit(task[u])
      BY DEF TypeInv, Equipped
    <2>4. task[u].at \in {"got", "found", "previous", "got304", "room", "refused", "stored",
                          "restored"} \/ Replacing(task[u]) => task[u].key \in Keys
      BY <2>3 DEF Fit, Keyed, Replacing
    <2>5. task[u].at \in Taking => task[u].victim \in Keys
      BY <2>3 DEF Fit
    <2> QED BY <2>1, <2>2, <2>4, <2>5 DEF Knows, Taking
  <1>2. task'[t] = o /\ \A u \in Tasks \ {t} : task'[u] = task[u]
    BY DEF Frame, Goes, TypeInv, TypeOK
  <1>3. Inside(t)' => Knows(task'[t], storage', lru', behind'[t])
    BY <1>2 DEF Frame
  <1>4. ASSUME NEW u \in Tasks \ {t} PROVE Inside(u)' <=> Inside(u)
    BY <1>2 DEF Inside
  <1> QED BY <1>1, <1>2, <1>3, <1>4 DEF Known

LEMMA FrameKeeps ==
  ASSUME TypeInv, BooksInv, NEW t \in Tasks, NEW o, NEW K \in SUBSET Keys, Frame(t, o, K)
  PROVE  /\ Once(lru') /\ Shaped' /\ Known' /\ Sole'
         /\ skewed \/ Doomed => skewed' \/ Doomed'
  <1>1. task'[t] = o /\ \A u \in Tasks \ {t} : task'[u] = task[u]
    BY DEF Frame, Goes, TypeInv, TypeOK
  <1>2. Once(lru') /\ Shaped'
    BY <1>1 DEF Frame, BooksInv, Shaped
  <1>3. Known'
    BY FrameKnown DEF BooksInv
  <1>4. ASSUME NEW u \in Tasks \ {t}, NEW k \in Keys, Owes(task[u], k)
        PROVE  behind'[u] = behind[u] \cup K
    BY <1>4, OwesInside DEF Frame
  <1>5. ASSUME NEW k \in Keys \ K PROVE Owes(o, k) <=> Owes(task[t], k)
    BY DEF Frame, SameStand, Owes
  <1>6. Sole'
    <2>1. ASSUME NEW u \in Tasks \ {t}, NEW k \in Keys, Owes(o, k), Owes(task[u], k)
          PROVE  k \in behind'[t] \cup behind'[u]
      BY <1>4, <1>5, <2>1 DEF BooksInv, Sole, Frame
    <2>2. ASSUME NEW u \in Tasks \ {t}, NEW v \in Tasks \ {t}, u # v, NEW k \in Keys,
                 Owes(task[v], k), Owes(task[u], k)
          PROVE  k \in behind'[v] \cup behind'[u]
      BY <1>4, <2>2 DEF BooksInv, Sole
    <2> QED BY <1>1, <2>1, <2>2 DEF Sole
  <1>7. ASSUME Doomed PROVE skewed' \/ Doomed'
    <2>1. PICK u \in Tasks, k \in Keys : Owes(task[u], k) /\ k \in behind[u]
      BY <1>7 DEF Doomed
    <2>2. CASE u # t
      BY <1>1, <1>4, <2>1, <2>2 DEF Doomed
    <2>3. CASE u = t /\ k \notin K
      BY <1>1, <1>5, <2>1, <2>3 DEF Doomed, Frame
    <2>4. CASE u = t /\ k \in K
      BY <1>1, <2>1, <2>4 DEF Doomed, Frame
    <2> QED BY <2>2, <2>3, <2>4
  <1> QED BY <1>2, <1>3, <1>6, <1>7 DEF Frame

\* What t finds if nobody has raced for a key: it alone deals with those of K.
Ready(t, K, B) ==
  /\ B \in Holdings /\ Agree(B)
  /\ \A u \in Tasks : Left(task[u], tagIndex, behind[u])
  /\ \A k \in Keys : Owes(task[t], k) => k \notin behind[t]
  /\ \A k \in K : /\ \A u \in Tasks \ {t} : ~Owes(task[u], k)
                  /\ Own(task[t], k, B[k], storage, lru)

LEMMA FrameReady ==
  ASSUME TypeInv, BooksInv, NEW t \in Tasks, NEW o, NEW K \in SUBSET Keys, Frame(t, o, K),
         ~skewed', ~Doomed', ~Straight'
  PROVE  ~skewed /\ (\E B : Ready(t, K, B)) /\ \A u \in Tasks : task[u].at # "cleared"
  <1>1. task'[t] = o /\ \A u \in Tasks \ {t} : task'[u] = task[u]
    BY DEF Frame, Goes, TypeInv, TypeOK
  <1>2. ~skewed /\ ~Doomed /\ Straight
    BY FrameKeeps DEF BooksInv
  <1>3. \A u \in Tasks : task[u].at # "cleared"
    BY <1>1 DEF Straight, Frame
  <1>4. PICK B \in Holdings : Agree(B)
    BY <1>2, <1>3 DEF Straight
  <1>5. \A u \in Tasks : Left(task[u], tagIndex, behind[u])
    BY <1>2, <1>3 DEF Straight
  <1>6. ASSUME NEW k \in K, NEW u \in Tasks \ {t} PROVE ~Owes(task[u], k)
    <2>1. SUFFICES ASSUME Owes(task[u], k) PROVE FALSE
      OBVIOUS
    <2>2. behind'[u] = behind[u] \cup K
      BY <2>1, OwesInside DEF Frame
    <2> QED BY <1>1, <2>1, <2>2 DEF Doomed
  <1>7. \A k \in K : Own(task[t], k, B[k], storage, lru)
    BY <1>4, <1>6 DEF Agree, Handled
  <1>8. Ready(t, K, B)
    BY <1>2, <1>4, <1>5, <1>6, <1>7 DEF Ready, Doomed
  <1> QED BY <1>2, <1>3, <1>8

\* Every key is as its one operation has left it, if those of K are.
LEMMA FrameHandled ==
  ASSUME TypeInv, NEW t \in Tasks, NEW o, NEW K \in SUBSET Keys, Frame(t, o, K),
         NEW B, Ready(t, K, B), NEW C,
         \A k \in Keys \ K : C[k] = B[k],
         \A k \in K : Own(o, k, C[k], storage', lru')
  PROVE  Handled(C)'
  <1>1. task'[t] = o /\ \A u \in Tasks \ {t} : task'[u] = task[u]
    BY DEF Frame, Goes, TypeInv, TypeOK
  <1>2. ASSUME NEW v \in Tasks, NEW k \in Keys, \A u \in Tasks \ {v} : ~Owes(task'[u], k)
        PROVE  Own(task'[v], k, C[k], storage', lru')
    <2>1. CASE k \in K /\ v = t
      BY <1>1, <2>1
    <2>2. CASE k \in K /\ v # t
      <3>1. ~Owes(task[v], k) /\ ~Owes(o, k)
        BY <1>1, <1>2, <2>2 DEF Ready
      <3>2. Own(o, k, C[k], storage', lru')
        BY <2>2
      <3> QED BY <1>1, <2>2, <3>1, <3>2 DEF Own, Owes, Drops, Takes
    <2>3. CASE k \notin K
      <3>1. SameStand(o, task[t], k)
        BY <2>3 DEF Frame
      <3>2. Owes(o, k) <=> Owes(task[t], k)
        BY <3>1 DEF SameStand, Owes, Frame
      <3>3. Own(task[v], k, B[k], storage, lru)
        BY <1>1, <1>2, <3>2 DEF Ready, Agree, Handled
      <3>4. C[k] = B[k] /\ storage'[k] = storage[k] /\ (k \in Range(lru') <=> k \in Range(lru))
        BY <2>3 DEF Frame
      <3>5. CASE v = t
        BY <1>1, <3>1, <3>2, <3>3, <3>4, <3>5 DEF Own, SameStand
      <3>6. CASE v # t
        BY <1>1, <3>3, <3>4, <3>6 DEF Own
      <3> QED BY <3>5, <3>6
    <2> QED BY <2>1, <2>2, <2>3
  <1> QED BY <1>2 DEF Handled

\* Less of a finite set weighs no more.
LEMMA SumLess ==
  ASSUME NEW f, NEW S, IsFiniteSet(S), \A x \in S : f[x] \in Nat, NEW T \in SUBSET S
  PROVE  SumFunctionOnSet(f, T) <= SumFunctionOnSet(f, S)
  <1> DEFINE Bad == {U \in SUBSET S :
                   T \subseteq U /\ ~(SumFunctionOnSet(f, T) <= SumFunctionOnSet(f, U))}
  <1>1. ASSUME NEW U \in Bad, \A V \in Bad : ~(V \subseteq U /\ V # U)
        PROVE  FALSE
    <2>1. IsFiniteSet(U) /\ \A x \in U : f[x] \in Nat
      BY FS_Subset
    <2>2. SumFunctionOnSet(f, T) \in Nat /\ SumFunctionOnSet(f, U) \in Nat
      BY <2>1, FS_Subset, SumNat
    <2>3. CASE U = T
      BY <2>2, <2>3
    <2>4. CASE U # T
      <3>1. PICK x \in U : x \notin T
        BY <2>4
      <3>2. SumFunctionOnSet(f, U) = f[x] + SumFunctionOnSet(f, U \ {x})
        BY <2>1, SumAny
      <3>3. U \ {x} \notin Bad
        BY <1>1
      <3>4. SumFunctionOnSet(f, T) <= SumFunctionOnSet(f, U \ {x})
        BY <3>1, <3>3
      <3>5. SumFunctionOnSet(f, U \ {x}) \in Nat /\ f[x] \in Nat
        BY <2>1, FS_Subset, SumNat
      <3> DEFINE a == SumFunctionOnSet(f, T)
                 b == SumFunctionOnSet(f, U \ {x})
                 c == SumFunctionOnSet(f, U)
      <3>6. ~(a <= c) /\ a <= b /\ c = f[x] + b /\ a \in Nat /\ b \in Nat /\ f[x] \in Nat
        BY <2>2, <3>2, <3>4, <3>5
      <3> HIDE DEF a, b, c
      <3> QED BY <3>6
    <2> QED BY <2>3, <2>4
  <1>2. Bad \in SUBSET SUBSET S
    OBVIOUS
  <1> HIDE DEF Bad
  <1>3. Bad = {}
    BY <1>1, <1>2, LeastSubset
  <1>4. ASSUME ~(SumFunctionOnSet(f, T) <= SumFunctionOnSet(f, S)) PROVE FALSE
    <2>1. S \in Bad
      BY <1>4 DEF Bad
    <2> QED BY <1>3, <2>1
  <1> QED BY <1>4

\* Room for an entry beside those of B is room beside fewer of them.
LEMMA FillsLess ==
  ASSUME NEW o, o.at \in {"room", "stored"} => o.new \in Responses,
         NEW B \in Holdings, NEW C \in Holdings, NEW r \in SUBSET Keys, NEW q \in SUBSET r,
         \A k \in q : C[k] = B[k], Fills(o, r, Weight(B))
  PROVE  Fills(o, q, Weight(C))
  <1>1. IsFiniteSet(r) /\ IsFiniteSet(q) /\ q \subseteq Keys
    BY FS_Subset
  <1>2. Cardinality(q) <= Cardinality(r) /\ Cardinality(r) \in Nat /\ Cardinality(q) \in Nat
    BY <1>1, FS_Subset, FS_CardinalityType
  <1>3. \A k \in Keys : Weight(B)[k] \in Nat /\ Weight(C)[k] \in Nat
    BY HeldFinite
  <1>4. SumFunctionOnSet(Weight(C), q) = SumFunctionOnSet(Weight(B), q)
    <2>1. \A k \in q : Weight(C)[k] = Weight(B)[k]
      BY <1>1 DEF Weight
    <2> QED BY <1>1, <2>1, SumSame
  <1>5. SumFunctionOnSet(Weight(B), q) <= SumFunctionOnSet(Weight(B), r)
    <2>1. \A k \in r : Weight(B)[k] \in Nat
      BY <1>3
    <2> QED BY <1>1, <2>1, SumLess
  <1>6. SumFunctionOnSet(Weight(B), q) \in Nat /\ SumFunctionOnSet(Weight(B), r) \in Nat
    BY <1>1, <1>3, SumNat
  <1>7. o.at \in {"room", "stored"} => o.new.size \in Nat
    OBVIOUS
  <1> DEFINE a == SumFunctionOnSet(Weight(B), q)
             b == SumFunctionOnSet(Weight(B), r)
             c == SumFunctionOnSet(Weight(C), q)
  <1>8. c = a /\ a <= b /\ a \in Nat /\ b \in Nat
    BY <1>4, <1>5, <1>6
  <1>9. o.at \in {"room", "stored"} => b + o.new.size <= MaxSize
    BY DEF Fills
  <1>10. Cardinality(r) < MaxEntries
    BY DEF Fills
  <1> HIDE DEF a, b, c
  <1>11. Cardinality(q) < MaxEntries
    BY <1>2, <1>10
  <1>12. o.at \in {"room", "stored"} => c + o.new.size <= MaxSize
    BY <1>7, <1>8, <1>9
  <1> QED BY <1>11, <1>12 DEF Fills, c

LEMMA FrameStraight ==
  ASSUME TypeInv, NEW t \in Tasks, NEW o, NEW K \in SUBSET Keys, Frame(t, o, K),
         NEW B, Ready(t, K, B), NEW C \in Holdings, Tell(entries', bytes', tagIndex', C),
         Handled(C)', Left(o, tagIndex', behind'[t]), Roomy(t, C)',
         \A u \in Tasks \ {t} : Counted(task[u]) =>
           \A k \in In(C) \ late'[u] : /\ C[k] = B[k] /\ k \notin late[u]
                                       /\ Drops(task[t], k) => Drops(o, k)
  PROVE  Straight'
  <1>1. task'[t] = o /\ \A u \in Tasks \ {t} : task'[u] = task[u]
    BY DEF Frame, Goes, TypeInv, TypeOK
  <1>2. ASSUME NEW u \in Tasks \ {t} PROVE Roomy(u, C)'
    <2>1. SUFFICES ASSUME Counted(task[u])
                   PROVE  \/ /\ \A k \in In(C) \ late'[u] : \E w \in Tasks : Drops(task'[w], k)
                             /\ task[u].at \in {"room", "stored"}
                          \/ Fills(task[u], In(C) \ late'[u], Weight(C))
      BY <1>1 DEF Roomy, Dropped
    <2> DEFINE q == In(C) \ late'[u]
               r == In(B) \ late[u]
    <2>2. q \subseteq r /\ \A k \in q : C[k] = B[k] /\ (Drops(task[t], k) => Drops(o, k))
      BY <2>1 DEF In
    <2>3. Roomy(u, B) /\ B \in Holdings
      BY DEF Ready, Agree
    <2>4. CASE Dropped(r) /\ task[u].at \in {"room", "stored"}
      <3>1. ASSUME NEW k \in q PROVE \E w \in Tasks : Drops(task'[w], k)
        <4>1. PICK w \in Tasks : Drops(task[w], k)
          BY <2>2, <2>4 DEF Dropped
        <4> QED BY <1>1, <2>2, <4>1
      <3> QED BY <2>4, <3>1
    <2>5. CASE Fills(task[u], r, Weight(B))
      <3>1. task[u].at \in {"room", "stored"} => task[u].new \in Responses
        BY DEF TypeInv, Equipped, Fit, Storing
      <3>2. r \in SUBSET Keys
        BY DEF In
      <3> HIDE DEF q, r
      <3>3. Fills(task[u], q, Weight(C))
        BY <2>2, <2>3, <2>5, <3>1, <3>2, FillsLess
      <3> QED BY <3>3 DEF q
    <2> QED BY <2>1, <2>3, <2>4, <2>5 DEF Roomy
  <1>3. \A u \in Tasks : Roomy(u, C)'
    BY <1>2
  <1>4. ASSUME NEW u \in Tasks \ {t} PROVE Left(task'[u], tagIndex', behind'[u])
    <2>1. SUFFICES ASSUME Sweeping(task[u]), task[u].tag # None
                   PROVE  tagIndex'[task[u].tag] \subseteq task[u].todo \cup behind'[u]
                            \cup (IF task[u].at = "struck" THEN {} ELSE {task[u].victim})
      BY <1>1 DEF Left
    <2>2. behind'[u] = behind[u] \cup K
      BY <2>1 DEF Frame, Inside, Sweeping
    <2>3. task[u].tag \in Tags
      BY <2>1 DEF TypeInv, TypeOK, Task, Maybe
    <2>4. tagIndex[task[u].tag] \subseteq task[u].todo \cup behind[u]
            \cup (IF task[u].at = "struck" THEN {} ELSE {task[u].victim})
      BY <2>1 DEF Ready, Left
    <2>5. tagIndex'[task[u].tag] \subseteq Keys
      BY <2>3 DEF Tell, In
    <2>6. \A k \in Keys \ K : k \in tagIndex'[task[u].tag] <=> k \in tagIndex[task[u].tag]
      BY <2>3 DEF Frame
    <2> QED BY <2>2, <2>4, <2>5, <2>6
  <1>5. \A u \in Tasks : Left(task'[u], tagIndex', behind'[u])
    BY <1>1, <1>4
  <1>6. Agree(C)'
    BY <1>3 DEF Agree
  <1> QED BY <1>5, <1>6 DEF Straight

----------------------------------------------------------------------------
\* The segments that leave the storage and the books alone, of operations that owe nothing.

Idle(o) == o.at # "cleared" /\ \A k \in Keys : ~Owes(o, k)

LEMMA Reads ==
  ASSUME TypeInv, BooksInv, NEW t \in Tasks, NEW o, Goes(t, o),
         UNCHANGED <<storage, books, skewed>>,
         \A u \in Tasks \ {t} : behind'[u] = behind[u],
         Idle(task[t]), Idle(o), Shape(o), ~Counted(o),
         Inside(t)' => Knows(o, storage, lru, behind'[t]),
         Left(task[t], tagIndex, behind[t]) => Left(o, tagIndex, behind'[t])
  PROVE  BooksInv'
  <1>1. UNCHANGED <<storage, lru, tagIndex, entries, bytes, late, skewed>>
    BY DEF books
  <1>2. Frame(t, o, {})
    BY <1>1 DEF Frame, SameStand, Idle, Owes, Drops, Takes, BooksInv
  <1>3. Once(lru') /\ Shaped' /\ Known' /\ Sole'
    BY <1>2, FrameKeeps
  <1>4. ASSUME ~skewed', ~Doomed', ~Straight' PROVE FALSE
    <2>1. PICK B : Ready(t, {}, B)
      BY <1>2, <1>4, FrameReady
    <2>2. Tell(entries', bytes', tagIndex', B) /\ B \in Holdings
      BY <1>1, <2>1 DEF Ready, Agree
    <2>3. Handled(B)'
      BY <1>2, <2>1, FrameHandled
    <2>4. task'[t] = o
      BY DEF Goes, TypeInv, TypeOK
    <2>5. Roomy(t, B)'
      BY <2>4 DEF Roomy
    <2>6. Left(o, tagIndex', behind'[t])
      BY <1>1, <2>1 DEF Ready
    <2>7. \A k \in Keys : ~Drops(task[t], k)
      BY DEF Idle, Owes
    <2>8. Straight'
      BY <1>1, <1>2, <2>1, <2>2, <2>3, <2>5, <2>6, <2>7, FrameStraight DEF In
    <2> QED BY <1>4, <2>8
  <1> QED BY <1>3, <1>4 DEF BooksInv

\* Where an operation stands when it owes nothing, and when it knows nothing.
LEMMA IdleAt ==
  ASSUME NEW o, o.at \in {"idle", "got", "mark", "origin", "body", "got304", "renewed", "unmark",
                          "previous", "found", "listed", "swept"}
                \/ (o.at = "struck" /\ o.then = "sweep")
  PROVE  Idle(o) /\ ~Counted(o)
  BY DEF Idle, Owes, Adds, Drops, Replacing, Evicting, Counted

LEMMA OutsideAt ==
  ASSUME NEW o, o.at \in {"idle", "mark", "origin", "body", "unmark"}, NEW x, NEW b
  PROVE  Idle(o) /\ ~Counted(o) /\ Shape(o) /\ Left(o, x, b)
  BY DEF Idle, Owes, Adds, Drops, Replacing, Evicting, Counted, Shape, Left, Sweeping

LEMMA EndedAt ==
  ASSUME NEW t \in Tasks
  PROVE  Ended(t).at \in {"idle", "unmark"} /\ NoTask.at = "idle"
  BY DEF Ended, NoTask

\* The new place of t, after a segment that has set it to o.
LEMMA GoesAt ==
  ASSUME TypeInv, NEW t \in Tasks, NEW o, Goes(t, o)
  PROVE  /\ task'[t] = o /\ \A u \in Tasks \ {t} : task'[u] = task[u]
         /\ Inside(t)' <=> o.at \notin {"idle", "mark", "origin", "body", "unmark"}
  <1>1. task'[t] = o /\ \A u \in Tasks \ {t} : task'[u] = task[u]
    BY DEF Goes, TypeInv, TypeOK
  <1> QED BY <1>1 DEF Inside

\* An operation leaves the cache, or awaits the network.
LEMMA LeavesBooks ==
  ASSUME TypeInv, BooksInv, NEW t \in Tasks, NEW o, Goes(t, o),
         o.at \in {"idle", "mark", "origin", "body", "unmark"}, Idle(task[t]),
         UNCHANGED <<storage, books, skewed>>, \A u \in Tasks \ {t} : behind'[u] = behind[u]
  PROVE  BooksInv'
  <1>1. ~Inside(t)'
    BY GoesAt
  <1>2. Idle(o) /\ ~Counted(o) /\ Shape(o) /\ Left(o, tagIndex, behind'[t])
    BY OutsideAt
  <1> QED BY <1>1, <1>2, Reads

LEMMA OutsideBooks ==
  ASSUME TypeInv, BooksInv, NEW t \in Tasks,
         Miss(t) \/ Mark(t) \/ Answered(t) \/ Fruitless(t) \/ BodyLost(t) \/ Unmark(t)
  PROVE  BooksInv'
  <1>1. task[t] \in Task
    BY DEF TypeInv, TypeOK
  <1>2. PICK o : Goes(t, o) /\ o.at \in {"idle", "mark", "origin", "body", "unmark"}
    <2>1. [task[t] EXCEPT !.at = "body"].at = "body"
      BY <1>1 DEF Task
    <2>2. [task[t] EXCEPT !.at = "origin", !.bg = TRUE].at = "origin"
      BY <1>1 DEF Task
    <2> QED BY <2>1, <2>2, EndedAt DEF Miss, Mark, Answered, Fruitless, BodyLost, Unmark
  <1>3. Idle(task[t])
    BY IdleAt DEF Miss, Mark, Answered, Fruitless, BodyLost, Unmark
  <1>4. UNCHANGED <<storage, books, skewed>> /\ behind' = behind
    BY DEF Miss, Mark, Answered, Fruitless, BodyLost, Unmark, kept, history
  <1> QED BY <1>2, <1>3, <1>4, LeavesBooks

\* An operation that begins to read is behind on nothing.
LEMMA BeginsBooks ==
  ASSUME TypeInv, BooksInv, NEW t \in Tasks, NEW o, Goes(t, o), Begins(t),
         UNCHANGED <<kept, books>>, Idle(task[t]),
         \/ o.at \in {"got", "found", "previous", "got304"} /\ o.held = storage[o.key]
         \/ o.at = "swept" /\ o.last = storage[o.victim] /\ o.tag \in Tags
            /\ tagIndex[o.tag] \subseteq o.todo \cup {o.victim}
         \/ o.at = "listed" /\ o.tag = None
  PROVE  BooksInv'
  <1>1. Idle(o) /\ ~Counted(o)
    BY IdleAt
  <1>2. Shape(o) /\ Knows(o, storage, lru, behind'[t]) /\ Left(o, tagIndex, behind'[t])
    BY DEF Shape, Knows, Left, Sweeping, Replacing, Evicting
  <1>3. UNCHANGED <<storage, books, skewed>> /\ \A u \in Tasks \ {t} : behind'[u] = behind[u]
    BY DEF Begins, kept, TypeInv, TypeOK
  <1> QED BY <1>1, <1>2, <1>3, Reads

LEMMA LooksUpBooks ==
  ASSUME TypeInv, BooksInv, NEW t \in Tasks, NEW k \in Keys, NEW e \in Responses,
         LooksUp(t, k, e), Idle(task[t])
  PROVE  BooksInv'
  <1> DEFINE o == [task[t] EXCEPT !.at = "previous", !.key = k, !.new = e, !.held = storage[k]]
  <1>1. o.at = "previous" /\ o.held = storage[o.key]
    BY DEF TypeInv, TypeOK, Task
  <1>2. Goes(t, o) /\ Begins(t) /\ UNCHANGED <<kept, books>>
    BY DEF LooksUp
  <1> HIDE DEF o
  <1> QED BY <1>1, <1>2, BeginsBooks

LEMMA CallsBooks ==
  ASSUME TypeInv, BooksInv, NEW t \in Tasks,
         \/ \E k \in Keys : Get(t, k) \/ Delete(t, k)
         \/ \E k \in Keys, e \in Responses : Set(t, k, e)
         \/ \E g \in Tags : InvalidateByTag(t, g)
         \/ InvalidateByURL(t)
  PROVE  BooksInv'
  <1>1. task[t] = NoTask /\ Idle(task[t])
    BY EndedAt, IdleAt DEF Get, Delete, Set, InvalidateByTag, InvalidateByURL
  <1>2. ASSUME NEW k \in Keys, Get(t, k) \/ Delete(t, k) PROVE BooksInv'
    <2> DEFINE p == [NoTask EXCEPT !.at = "got", !.key = k, !.phase = phase[k], !.held = storage[k]]
               q == [NoTask EXCEPT !.at = "found", !.key = k, !.held = storage[k]]
    <2>3. /\ p.at = "got" /\ p.held = storage[p.key]
          /\ q.at = "found" /\ q.held = storage[q.key]
      BY DEF NoTask
    <2>4. Goes(t, p) \/ Goes(t, q)
      BY <1>2 DEF Get, Delete
    <2> HIDE DEF p, q
    <2>1. PICK o : Goes(t, o) /\ o.at \in {"got", "found"} /\ o.held = storage[o.key]
      BY <2>3, <2>4
    <2>2. Begins(t) /\ UNCHANGED <<kept, books>>
      BY <1>2 DEF Get, Delete
    <2> QED BY <1>1, <2>1, <2>2, BeginsBooks
  <1>3. ASSUME NEW k \in Keys, NEW e \in Responses, Set(t, k, e) PROVE BooksInv'
    BY <1>1, <1>3, LooksUpBooks DEF Set
  <1>4. ASSUME NEW g \in Tags, InvalidateByTag(t, g) PROVE BooksInv'
    <2>1. PICK k \in tagIndex[g] :
            Goes(t, [NoTask EXCEPT !.at = "swept", !.victim = k, !.last = storage[k],
                                   !.todo = tagIndex[g] \ {k}, !.tag = g])
      BY <1>4 DEF InvalidateByTag
    <2> DEFINE o == [NoTask EXCEPT !.at = "swept", !.victim = k, !.last = storage[k],
                                   !.todo = tagIndex[g] \ {k}, !.tag = g]
    <2>2. /\ o.at = "swept" /\ o.last = storage[o.victim] /\ o.tag \in Tags
          /\ tagIndex[o.tag] \subseteq o.todo \cup {o.victim}
      BY DEF NoTask
    <2>3. Goes(t, o) /\ Begins(t) /\ UNCHANGED <<kept, books>>
      BY <1>4, <2>1 DEF InvalidateByTag
    <2> HIDE DEF o
    <2> QED BY <1>1, <2>2, <2>3, BeginsBooks
  <1>5. ASSUME InvalidateByURL(t) PROVE BooksInv'
    <2> DEFINE o == [NoTask EXCEPT !.at = "listed", !.todo = {k \in Keys : storage[k] # None}]
    <2>1. o.at = "listed" /\ o.tag = None
      BY DEF NoTask
    <2>2. Goes(t, o) /\ Begins(t) /\ UNCHANGED <<kept, books>>
      BY <1>5 DEF InvalidateByURL
    <2> HIDE DEF o
    <2> QED BY <1>1, <2>1, <2>2, BeginsBooks
  <1> QED BY <1>2, <1>3, <1>4, <1>5

LEMMA NotModifiedBooks ==
  ASSUME TypeInv, BooksInv, NEW t \in Tasks, NotModified(t)
  PROVE  BooksInv'
  <1> DEFINE o == [task[t] EXCEPT !.at = "got304", !.held = storage[task[t].key]]
  <1>1. o.at = "got304" /\ o.held = storage[o.key]
    BY DEF TypeInv, TypeOK, Task
  <1>2. Goes(t, o) /\ Begins(t) /\ UNCHANGED <<kept, books>>
    BY DEF NotModified
  <1>3. Idle(task[t])
    BY IdleAt DEF NotModified
  <1> HIDE DEF o
  <1> QED BY <1>1, <1>2, <1>3, BeginsBooks

LEMMA BodyReadBooks ==
  ASSUME TypeInv, BooksInv, NEW t \in Tasks, NEW e \in Responses, BodyRead(t, e)
  PROVE  BooksInv'
  <1>1. task[t].key \in Keys
    BY DEF TypeInv, Equipped, Fit, Keyed, BodyRead
  <1> QED BY <1>1, LooksUpBooks, IdleAt DEF BodyRead

\* The loop of an invalidation comes to its next key.
LEMMA NextOfBooks ==
  ASSUME TypeInv, BooksInv, NEW t \in Tasks, NEW S \in SUBSET Keys, NextOf(t, S),
         UNCHANGED <<kept, books, skewed>>, Idle(task[t]),
         Left(task[t], tagIndex, behind[t]) /\ task[t].tag # None
           => tagIndex[task[t].tag] \subseteq S \cup behind[t]
  PROVE  BooksInv'
  <1>1. PICK k \in S : /\ Goes(t, [task[t] EXCEPT !.at = "swept", !.victim = k,
                                                  !.last = storage[k], !.todo = S \ {k}])
                       /\ Overtakes(t, {}, {k})
    BY DEF NextOf
  <1> DEFINE o == [task[t] EXCEPT !.at = "swept", !.victim = k,
                                  !.last = storage[k], !.todo = S \ {k}]
  <1>2. /\ o.at = "swept" /\ o.victim = k /\ o.last = storage[k]
        /\ o.todo = S \ {k} /\ o.tag = task[t].tag
    BY DEF TypeInv, TypeOK, Task
  <1>3. Goes(t, o)
    BY <1>1
  <1> HIDE DEF o
  <1>4. behind'[t] = behind[t] \ {k} /\ \A u \in Tasks \ {t} : behind'[u] = behind[u]
    BY <1>1 DEF Overtakes, TypeInv, TypeOK
  <1>5. Idle(o) /\ ~Counted(o)
    BY <1>2, IdleAt
  <1>6. Shape(o) /\ Knows(o, storage, lru, behind'[t])
    BY <1>2, <1>4 DEF Shape, Knows, Replacing, Evicting
  <1>7. Left(task[t], tagIndex, behind[t]) => Left(o, tagIndex, behind'[t])
    BY <1>2, <1>4 DEF Left
  <1> QED BY <1>3, <1>4, <1>5, <1>6, <1>7, Reads DEF kept

LEMMA ListedBooks ==
  ASSUME TypeInv, BooksInv, NEW t \in Tasks, Listed(t)
  PROVE  BooksInv'
  <1>1. Idle(task[t]) /\ UNCHANGED <<kept, books, skewed>>
    BY IdleAt DEF Listed
  <1>2. CASE Goes(t, NoTask) /\ UNCHANGED behind
    BY <1>1, <1>2, EndedAt, LeavesBooks DEF kept
  <1>3. ASSUME NEW S \in SUBSET task[t].todo, NextOf(t, S) PROVE BooksInv'
    <2>1. S \in SUBSET Keys
      BY DEF TypeInv, TypeOK, Task
    <2>2. task[t].tag = None
      BY DEF BooksInv, Shaped, Shape, Listed
    <2> QED BY <1>1, <1>3, <2>1, <2>2, NextOfBooks
  <1> QED BY <1>2, <1>3 DEF Listed

----------------------------------------------------------------------------
\* An entry is touched by an operation that then leaves the cache.
LEMMA TouchBooks ==
  ASSUME TypeInv, BooksInv, NEW t \in Tasks, FreshHit(t) \/ StaleHit(t) \/ Renewed(t)
  PROVE  BooksInv'
  <1> DEFINE k == task[t].key
  <1>1. k \in Keys /\ Idle(task[t])
    BY IdleAt DEF TypeInv, Equipped, Fit, Keyed, FreshHit, StaleHit, Hit, Renewed
  <1>2. PICK o : Goes(t, o) /\ o.at \in {"idle", "mark", "unmark"}
    <2>1. [NoTask EXCEPT !.at = "mark", !.key = k].at = "mark"
      BY DEF NoTask
    <2> QED BY <2>1, EndedAt DEF FreshHit, StaleHit, Renewed
  <1>3. /\ Overtakes(t, {k}, {}) /\ lru' \in {lru, Touched(k)}
        /\ UNCHANGED <<storage, tagIndex, entries, bytes, late, skewed>>
    BY DEF FreshHit, StaleHit, Renewed, kept
  <1>4. Idle(o) /\ ~Counted(o) /\ Shape(o) /\ Left(o, tagIndex', behind'[t])
    BY <1>2, OutsideAt
  <1>5. ~Inside(t)' /\ task'[t] = o
    BY <1>2, GoesAt
  <1>6. Range(lru') \in {Range(lru), Range(lru) \cup {k}} /\ Once(lru')
    BY <1>1, <1>3, TouchedOnce DEF BooksInv, TypeInv
  <1>7. \A u \in Tasks \ {t} : Inside(u) => behind'[u] = behind[u] \cup {k}
    BY <1>3 DEF Overtakes
  <1> HIDE DEF k
  <1>8. Frame(t, o, {k})
    BY <1>1, <1>2, <1>3, <1>4, <1>5, <1>6, <1>7 DEF Frame, SameStand, Idle, Owes, Drops, Takes
  <1>9. Once(lru') /\ Shaped' /\ Known' /\ Sole'
    BY <1>1, <1>8, FrameKeeps
  <1>10. ASSUME ~skewed', ~Doomed', ~Straight' PROVE FALSE
    <2>1. PICK B : Ready(t, {k}, B)
      BY <1>1, <1>8, <1>10, FrameReady
    <2>2. Tell(entries', bytes', tagIndex', B) /\ B \in Holdings
      BY <1>3, <2>1 DEF Ready, Agree
    <2>3. Own(o, k, B[k], storage', lru')
      <3>1. Own(task[t], k, B[k], storage, lru) /\ ~Owes(task[t], k) /\ ~Owes(o, k)
        BY <1>1, <1>4, <2>1 DEF Ready, Idle
      <3> QED BY <1>3, <1>6, <3>1 DEF Own, Owes, Drops, Takes
    <2>4. Handled(B)'
      BY <1>1, <1>8, <2>1, <2>3, FrameHandled
    <2>5. Roomy(t, B)'
      BY <1>4, <1>5 DEF Roomy
    <2>6. \A j \in Keys : ~Drops(task[t], j)
      BY <1>1 DEF Idle, Owes
    <2>7. Straight'
      BY <1>1, <1>3, <1>4, <1>8, <2>1, <2>2, <2>4, <2>5, <2>6, FrameStraight DEF In
    <2> QED BY <1>10, <2>7
  <1> QED BY <1>9, <1>10 DEF BooksInv

\* A key is taken out of the storage.
LEMMA TakeOutBooks ==
  ASSUME TypeInv, BooksInv, NEW t \in Tasks, NEW k \in Keys, NEW e,
         NEW then \in {"end", "count", "size", "sweep"}, TakeOut(t, k, e, then),
         k \in behind[t] \/ e = storage[k],
         \/ /\ task[t].at \in {"got", "found"} /\ then = "end"
         \/ /\ task[t].at = "swept" /\ then = "sweep" /\ k = task[t].victim
         \/ /\ task[t].at = "evicting" /\ then = task[t].then /\ then \in {"count", "size"}
            /\ k = task[t].victim /\ e = task[t].last
  PROVE  BooksInv'
  <1> DEFINE p == task[t]
             o == [task[t] EXCEPT !.at = "deleting", !.victim = k, !.last = e, !.then = then]
  <1>1. p \in Task /\ Fit(p)
    BY DEF TypeInv, TypeOK, Equipped
  <1>2. /\ o.at = "deleting" /\ o.victim = k /\ o.last = e /\ o.then = then
        /\ o.key = p.key /\ o.held = p.held /\ o.new = p.new /\ o.todo = p.todo /\ o.tag = p.tag
    BY <1>1 DEF Task
  <1>3. Goes(t, o) /\ Writes(t, {k}) /\ UNCHANGED books
    BY DEF TakeOut
  <1> HIDE DEF o
  <1>4. /\ storage' = [storage EXCEPT ![k] = None] /\ storage \in Holdings
        /\ UNCHANGED <<lru, tagIndex, entries, bytes, late>>
    BY <1>3 DEF TakeOut, Holds, books, TypeInv, TypeOK, Holdings
  <1>5. /\ behind' = [u \in Tasks |-> IF u = t THEN behind[t]
                                      ELSE IF Inside(u) THEN behind[u] \cup {k} ELSE behind[u]]
        /\ skewed' = (skewed \/ k \in behind[t])
    BY <1>3 DEF Writes, Overtakes
  <1>6. /\ behind'[t] = behind[t]
        /\ \A u \in Tasks \ {t} : Inside(u) => behind'[u] = behind[u] \cup {k}
    BY <1>5
  <1>7. task'[t] = o /\ Inside(t)
    BY <1>3, GoesAt DEF Inside
  <1>8. Knows(p, storage, lru, behind[t])
    BY <1>7 DEF BooksInv, Known
  <1>9. p.at = "evicting" <=> Replacing(o)
    BY <1>2 DEF Replacing, Evicting
  <1>10. \A j \in Keys : Adds(o, j) <=> Adds(p, j)
    BY <1>2, <1>9 DEF Adds, Replacing, Evicting
  <1>11. Knows(o, storage', lru', behind'[t])
    <2>1. p.at = "evicting" => p.key \in Keys
      BY <1>1 DEF Fit, Keyed
    <2> QED BY <1>2, <1>4, <1>6, <1>8, <1>9, <2>1 DEF Knows, Replacing, Evicting, Holdings
  <1>12. Frame(t, o, {k})
    <2>1. \A j \in Keys \ {k} : SameStand(o, p, j)
      BY <1>2, <1>10 DEF SameStand, Drops, Takes
    <2>2. Shape(o) /\ Once(lru')
      BY <1>2, <1>4 DEF Shape, BooksInv
    <2>3. p.at # "cleared" /\ o.at # "cleared"
      BY <1>2
    <2>4. \A j \in Keys \ {k} : storage'[j] = storage[j]
      BY <1>4 DEF Holdings
    <2> QED BY <1>3, <1>4, <1>5, <1>6, <1>11, <2>1, <2>2, <2>3, <2>4 DEF Frame
  <1>13. Once(lru') /\ Shaped' /\ Known' /\ Sole'
    BY <1>12, FrameKeeps
  <1>14. ASSUME ~skewed', ~Doomed', ~Straight' PROVE FALSE
    <2>1. PICK B : Ready(t, {k}, B)
      BY <1>12, <1>14, FrameReady
    <2>2. e = storage[k]
      BY <1>5, <1>14
    <2>3. B \in Holdings /\ Tell(entries', bytes', tagIndex', B)
      BY <1>4, <2>1 DEF Ready, Agree
    <2>4. Own(o, k, B[k], storage', lru')
      <3>1. Own(p, k, B[k], storage, lru)
        BY <2>1 DEF Ready
      <3>2. CASE Adds(p, k)
        <4>1. p.at = "evicting" /\ p.key = k /\ p.victim = k
          BY <3>2 DEF Adds, Replacing, Evicting
        <4>2. k \notin behind[t]
          BY <1>5, <1>14
        <4>3. p.held = None /\ p.last = None
          BY <1>8, <4>1, <4>2 DEF Knows, Replacing
        <4> QED BY <1>2, <1>4, <1>10, <3>1, <3>2, <4>1, <4>3 DEF Own, Takes, Owes, Drops, Holdings
      <3>3. CASE ~Adds(p, k)
        <4>1. ~Takes(p, k)
          BY DEF Takes
        <4> QED BY <1>2, <1>4, <1>10, <2>2, <3>1, <3>3, <4>1 DEF Own, Takes, Owes, Drops, Holdings
      <3> QED BY <3>2, <3>3
    <2>5. Handled(B)'
      BY <1>12, <2>1, <2>4, FrameHandled
    <2>6. Left(o, tagIndex', behind'[t])
      <3>1. Left(p, tagIndex, behind[t])
        BY <2>1 DEF Ready
      <3> QED BY <1>2, <1>4, <1>6, <3>1 DEF Left, Sweeping
    <2>7. \A j \in Keys : Drops(p, j) => Drops(o, j)
      BY <1>2 DEF Drops
    <2>8. Roomy(t, B)'
      <3>1. SUFFICES ASSUME Counted(o) PROVE Fills(o, In(B) \ late[t], Weight(B))
        BY <1>4, <1>7 DEF Roomy
      <3>2. Counted(p) /\ Roomy(t, B) /\ p.at = "evicting"
        BY <1>2, <2>1, <3>1 DEF Counted, Ready, Agree
      <3>3. Fills(p, In(B) \ late[t], Weight(B))
        BY <3>2 DEF Roomy
      <3> QED BY <1>2, <3>3 DEF Fills
    <2>9. \A u \in Tasks \ {t} : Counted(task[u]) =>
           \A j \in In(B) \ late'[u] : /\ B[j] = B[j] /\ j \notin late[u]
                                       /\ Drops(task[t], j) => Drops(o, j)
      BY <1>4, <2>7 DEF In
    <2>10. Straight'
      BY <1>12, <2>1, <2>3, <2>5, <2>6, <2>8, <2>9, FrameStraight
    <2> QED BY <1>14, <2>10
  <1> QED BY <1>13, <1>14 DEF BooksInv

\* Those that take a key out know what the storage holds, or are behind on it.
LEMMA TakesBooks ==
  ASSUME TypeInv, BooksInv, NEW t \in Tasks,
         DeadHit(t) \/ Evict(t) \/ Sweep(t) \/ (Found(t) /\ task[t].held # None)
  PROVE  BooksInv'
  <1>1. Inside(t) /\ Knows(task[t], storage, lru, behind[t]) /\ Shape(task[t])
    BY DEF DeadHit, Hit, Evict, Sweep, Found, Inside, BooksInv, Known, Shaped
  <1>2. Fit(task[t])
    BY DEF TypeInv, Equipped
  <1>3. CASE DeadHit(t) \/ (Found(t) /\ task[t].held # None)
    <2>1. /\ TakeOut(t, task[t].key, task[t].held, "end") /\ task[t].at \in {"got", "found"}
      BY <1>3 DEF DeadHit, Hit, Found
    <2>2. task[t].key \in Keys /\ (task[t].key \in behind[t] \/ task[t].held = storage[task[t].key])
      BY <1>1, <1>2, <2>1 DEF Fit, Keyed, Knows
    <2> QED BY <2>1, <2>2, TakeOutBooks
  <1>4. CASE Evict(t)
    <2>1. /\ TakeOut(t, task[t].victim, task[t].last, task[t].then) /\ task[t].at = "evicting"
      BY <1>4 DEF Evict
    <2>2. /\ task[t].victim \in Keys /\ task[t].then \in {"count", "size"}
          /\ task[t].victim \in behind[t] \/ task[t].last = storage[task[t].victim]
      BY <1>1, <1>2, <2>1 DEF Fit, Taking, Knows, Shape
    <2> QED BY <2>1, <2>2, TakeOutBooks
  <1>5. CASE Sweep(t)
    <2>1. /\ TakeOut(t, task[t].victim, task[t].last, "sweep") /\ task[t].at = "swept"
      BY <1>5 DEF Sweep
    <2>2. /\ task[t].victim \in Keys
          /\ task[t].victim \in behind[t] \/ task[t].last = storage[task[t].victim]
      BY <1>1, <1>2, <2>1 DEF Fit, Taking, Knows
    <2> QED BY <2>1, <2>2, TakeOutBooks
  <1> QED BY <1>3, <1>4, <1>5

----------------------------------------------------------------------------
\* An entry that has been taken out goes off the books.
LEMMA StrikeBooks ==
  ASSUME TypeInv, BooksInv, NEW t \in Tasks, Strike(t)
  PROVE  BooksInv'
  <1> DEFINE p == task[t]
             k == task[t].victim
             e == task[t].last
  <1>1. p \in Task /\ Fit(p) /\ p.at = "deleting" /\ k \in Keys
    BY DEF TypeInv, TypeOK, Equipped, Fit, Taking, Strike
  <1>2. PICK o : /\ Goes(t, o)
                 /\ \/ o.at \in {"idle", "unmark"} /\ p.then = "end"
                    \/ /\ o.at = "struck" /\ p.then # "end" /\ o.then = p.then /\ o.victim = k
                       /\ o.key = p.key /\ o.held = p.held /\ o.todo = p.todo /\ o.tag = p.tag
    <2> DEFINE q == [task[t] EXCEPT !.at = "struck"]
    <2>1. /\ q.at = "struck" /\ q.then = p.then /\ q.victim = k
          /\ q.key = p.key /\ q.held = p.held /\ q.todo = p.todo /\ q.tag = p.tag
      BY <1>1 DEF Task
    <2>2. Goes(t, IF p.then = "end" THEN Ended(t) ELSE q)
      BY DEF Strike
    <2> HIDE DEF q
    <2> QED BY <2>1, <2>2, EndedAt
  <1>3. /\ lru' = Without(lru, k) /\ Writes(t, {k}) /\ UNCHANGED <<storage, late>>
    BY DEF Strike, kept
  <1>4. Range(lru') = Range(lru) \ {k} /\ Once(lru')
    BY <1>3, WithoutOnce DEF BooksInv, TypeInv, TypeOK
  <1>5. /\ behind'[t] = behind[t]
        /\ \A u \in Tasks \ {t} : Inside(u) => behind'[u] = behind[u] \cup {k}
    BY <1>3 DEF Writes, Overtakes, TypeInv, TypeOK
  <1>6. skewed' = (skewed \/ k \in behind[t])
    BY <1>3 DEF Writes
  <1>7. task'[t] = o /\ Inside(t) /\ (Inside(t)' => o.at = "struck")
    BY <1>1, <1>2, GoesAt DEF Inside
  <1>8. Knows(p, storage, lru, behind[t])
    BY <1>7 DEF BooksInv, Known
  <1>9. \A j \in Keys : Adds(o, j) <=> Adds(p, j)
    BY <1>1, <1>2 DEF Adds, Replacing, Evicting
  <1>10. \A j \in Keys \ {k}, g \in Tags : j \in tagIndex'[g] <=> j \in tagIndex[g]
    BY DEF Strike, Unindex
  <1>11. Frame(t, o, {k})
    <2>1. \A j \in Keys \ {k} : SameStand(o, p, j)
      BY <1>1, <1>2, <1>9 DEF SameStand, Drops, Takes
    <2>2. Shape(o) /\ p.at # "cleared" /\ o.at # "cleared"
      BY <1>1, <1>2 DEF Shape
    <2>3. Inside(t)' => Knows(o, storage', lru', behind'[t])
      BY <1>1, <1>2, <1>3, <1>4, <1>5, <1>7, <1>8 DEF Knows, Replacing, Evicting
    <2> QED BY <1>2, <1>3, <1>4, <1>5, <1>6, <1>10, <2>1, <2>2, <2>3 DEF Frame
  <1>12. Once(lru') /\ Shaped' /\ Known' /\ Sole'
    BY <1>1, <1>11, FrameKeeps
  <1>13. ASSUME ~skewed', ~Doomed', ~Straight' PROVE FALSE
    <2>1. PICK B : Ready(t, {k}, B)
      BY <1>1, <1>11, <1>13, FrameReady
    <2>2. storage[k] = None /\ B[k] = e /\ B \in Holdings
      <3>1. k \notin behind[t] /\ Own(p, k, B[k], storage, lru)
        BY <1>6, <1>13, <2>1 DEF Ready
      <3> QED BY <1>1, <1>8, <2>1, <3>1 DEF Knows, Own, Takes, Ready
    <2>3. PICK C \in Holdings : C = [B EXCEPT ![k] = None]
      BY <2>2 DEF Holdings, Maybe
    <2>4. C[k] = None /\ \A j \in Keys : j # k => C[j] = B[j]
      BY <1>1, <2>2, <2>3 DEF Holdings
    <2>5. Tell(entries', bytes', tagIndex', C)
      <3>1. Tell(entries, bytes, tagIndex, B)
        BY <2>1 DEF Ready, Agree
      <3>2. CASE e = None
        <4>1. entries' = entries /\ bytes' = bytes /\ tagIndex' = Unindex(k, Tags)
          BY <3>2 DEF Strike
        <4>2. C = B
          BY <2>2, <2>3, <3>2 DEF Holdings
        <4>3. \A g \in Tags : tagIndex'[g] = tagIndex[g]
          BY <2>2, <3>1, <3>2, <4>1 DEF Unindex, Tell, In
        <4> QED BY <3>1, <4>1, <4>2, <4>3 DEF Tell
      <3>3. CASE e # None
        <4>1. /\ entries' = Less(entries, 1) /\ bytes' = Less(bytes, e.size)
              /\ tagIndex' = [g \in Tags |->
                                IF g \in e.tags THEN tagIndex[g] \ {k} ELSE tagIndex[g]]
          BY <3>3 DEF Strike, Unindex
        <4>2. Tell(Less(entries, 1), Less(bytes, B[k].size),
                   [g \in Tags |-> IF g \in B[k].tags THEN tagIndex[g] \ {k} ELSE tagIndex[g]],
                   [B EXCEPT ![k] = None])
          BY <1>1, <2>2, <3>1, <3>3, TellLess
        <4> QED BY <2>2, <2>3, <4>1, <4>2
      <3> QED BY <3>2, <3>3
    <2>6. Own(o, k, C[k], storage', lru')
      BY <1>2, <1>3, <2>2, <2>4 DEF Own, Takes
    <2>7. Handled(C)'
      BY <1>1, <1>11, <2>1, <2>4, <2>6, FrameHandled
    <2>8. Left(o, tagIndex', behind'[t])
      <3>1. SUFFICES ASSUME Sweeping(o), o.tag # None
                     PROVE  tagIndex'[o.tag] \subseteq o.todo \cup behind'[t]
        BY <1>2 DEF Left
      <3>2. /\ Left(p, tagIndex, behind[t]) /\ Sweeping(p) /\ p.tag = o.tag /\ p.todo = o.todo
        BY <1>1, <1>2, <2>1, <3>1 DEF Ready, Sweeping
      <3>3. o.tag \in Tags
        BY <1>1, <3>1, <3>2 DEF Task, Maybe
      <3>4. tagIndex'[o.tag] \subseteq Keys \ {k}
        BY <2>4, <2>5, <3>3 DEF Tell, In
      <3>5. tagIndex[o.tag] \subseteq o.todo \cup behind[t] \cup {k}
        BY <1>1, <3>1, <3>2 DEF Left
      <3> QED BY <1>5, <1>10, <3>3, <3>4, <3>5
    <2>9. Roomy(t, C)'
      <3>1. SUFFICES ASSUME Counted(o) PROVE Fills(o, In(C) \ late[t], Weight(C))
        BY <1>3, <1>7 DEF Roomy
      <3>2. Counted(p) /\ o.at = "struck"
        BY <1>1, <1>2, <3>1 DEF Counted
      <3>3. Fills(p, In(B) \ late[t], Weight(B))
        BY <1>1, <2>1, <3>2 DEF Ready, Agree, Roomy
      <3> DEFINE q == In(C) \ late[t]
                 r == In(B) \ late[t]
      <3>4. r \in SUBSET Keys /\ q \in SUBSET r /\ \A j \in q : C[j] = B[j]
        BY <2>4 DEF In
      <3> HIDE DEF q, r
      <3>5. Fills(p, q, Weight(C))
        BY <1>1, <2>2, <3>3, <3>4, FillsLess DEF r
      <3> QED BY <3>2, <3>5 DEF Fills, q
    <2>10. \A u \in Tasks \ {t} : Counted(task[u]) =>
             \A j \in In(C) \ late'[u] : /\ C[j] = B[j] /\ j \notin late[u]
                                         /\ Drops(task[t], j) => Drops(o, j)
      BY <1>3, <2>4 DEF In, Drops
    <2>11. Straight'
      BY <1>1, <1>11, <2>1, <2>5, <2>7, <2>8, <2>9, <2>10, FrameStraight
    <2> QED BY <1>13, <2>11
  <1> QED BY <1>12, <1>13 DEF BooksInv

----------------------------------------------------------------------------
\* Making room.

\* If the list is empty, whatever the books tell of is being dropped.
LEMMA AllDropped ==
  ASSUME NEW C, Handled(C)', Sole', ~Doomed', \A u \in Tasks : task'[u].at # "cleared",
         Range(lru') = {}, NEW t \in Tasks, NEW k \in In(C)
  PROVE  \E u \in Tasks : Drops(task'[u], k)
  <1>1. k \in Keys /\ C[k] # None
    BY DEF In
  <1>2. CASE \A u \in Tasks : ~Owes(task'[u], k)
    <2>1. Own(task'[t], k, C[k], storage', lru')
      BY <1>1, <1>2 DEF Handled
    <2> QED BY <1>1, <1>2, <2>1 DEF Own, Owes, Takes, Drops
  <1>3. ASSUME NEW u \in Tasks, Owes(task'[u], k) PROVE \E v \in Tasks : Drops(task'[v], k)
    <2>1. \A v \in Tasks \ {u} : ~Owes(task'[v], k)
      BY <1>1, <1>3 DEF Sole, Doomed
    <2>2. Own(task'[u], k, C[k], storage', lru')
      BY <1>1, <2>1 DEF Handled
    <2> QED BY <1>1, <1>3, <2>2 DEF Own, Owes
  <1> QED BY <1>2, <1>3

\* The task that makes room takes the last key of the list s, or goes on.
Makes(t, loop, s, o) ==
  /\ Goes(t, o) /\ o.key = task[t].key /\ o.held = task[t].held /\ o.new = task[t].new
  /\ \A u \in Tasks \ {t} : late'[u] = late[u]
  /\ Once(lru')
  /\ \/ /\ o.at = "evicting" /\ o.then \in {"count", "size"} /\ Chosen(t) = {o.victim}
        /\ o.victim \in Keys /\ o.last = storage[o.victim]
        /\ Range(s) = Range(lru') \cup {o.victim} /\ o.victim \notin Range(lru')
        /\ o.then = "size" => \/ loop = "size" /\ late'[t] = late[t]
                              \/ loop = "count" /\ late'[t] = {} /\ entries' < MaxEntries
     \/ /\ o.at = "room" /\ Chosen(t) = {} /\ Range(lru') = Range(s)
        /\ late'[t] = IF loop = "size" THEN late[t] ELSE {}
        /\ \/ Range(lru') = {}
           \/ (loop = "count" => entries' < MaxEntries) /\ bytes' + o.new.size <= MaxSize

LEMMA MakesRoom ==
  ASSUME TypeInv, entries' \in Nat, bytes' \in Nat, NEW t \in Tasks, task[t].new \in Responses,
         NEW loop \in {"count", "size"}, NEW s \in Seq(Keys), Once(s), MakeRoom(t, loop, s)
  PROVE  \E o : Makes(t, loop, s, o)
  <1> DEFINE tooMany == loop = "count" /\ entries' >= MaxEntries
             tooBig == bytes' + task[t].new.size > MaxSize
             p == [task[t] EXCEPT !.at = "evicting", !.victim = Last(s), !.last = storage[Last(s)],
                                  !.then = IF tooMany THEN "count" ELSE "size"]
             q == [task[t] EXCEPT !.at = "room"]
  <1>1. /\ p.at = "evicting" /\ p.victim = Last(s) /\ p.last = storage[Last(s)]
        /\ p.then = IF tooMany THEN "count" ELSE "size"
        /\ p.key = task[t].key /\ p.held = task[t].held /\ p.new = task[t].new
        /\ q.at = "room" /\ q.key = task[t].key /\ q.held = task[t].held /\ q.new = task[t].new
    BY DEF TypeInv, TypeOK, Task
  <1>2. late' = [late EXCEPT ![t] = IF loop = "size" \/ (s # <<>> /\ tooMany) THEN @ ELSE {}]
    BY DEF MakeRoom
  <1>3. IF s # <<>> /\ (tooMany \/ tooBig) THEN lru' = Front(s) /\ Goes(t, p)
                                           ELSE lru' = s /\ Goes(t, q)
    BY DEF MakeRoom
  <1> HIDE DEF p, q
  <1>4. /\ \A u \in Tasks \ {t} : late'[u] = late[u]
        /\ late'[t] = IF loop = "size" \/ (s # <<>> /\ tooMany) THEN late[t] ELSE {}
    BY <1>2 DEF TypeInv, TypeOK
  <1>5. CASE s # <<>> /\ (tooMany \/ tooBig)
    <2>1. /\ Once(lru') /\ Range(s) = Range(lru') \cup {Last(s)} /\ Last(s) \notin Range(lru')
          /\ Last(s) \in Keys
      BY <1>3, <1>5, FrontOnce, EndsType
    <2>2. Chosen(t) = {p.victim}
      BY <1>1, <1>3, <1>5, GoesAt DEF Chosen
    <2>3. p.then = "size" => \/ loop = "size" /\ late'[t] = late[t]
                             \/ loop = "count" /\ late'[t] = {} /\ entries' < MaxEntries
      BY <1>1, <1>4, <1>5
    <2>4. Makes(t, loop, s, p)
      BY <1>1, <1>3, <1>4, <1>5, <2>1, <2>2, <2>3 DEF Makes
    <2> QED BY <2>4
  <1>6. CASE ~(s # <<>> /\ (tooMany \/ tooBig))
    <2>1. Chosen(t) = {}
      BY <1>1, <1>3, <1>6, GoesAt DEF Chosen
    <2>2. late'[t] = IF loop = "size" THEN late[t] ELSE {}
      BY <1>4, <1>6
    <2>3. \/ Range(lru') = {}
          \/ (loop = "count" => entries' < MaxEntries) /\ bytes' + q.new.size <= MaxSize
      <3>1. CASE s = <<>>
        BY <1>3, <1>6, <3>1 DEF Range
      <3>2. CASE s # <<>>
        <4>1. ~tooMany /\ ~tooBig /\ q.new.size \in Nat
          BY <1>1, <1>6, <3>2
        <4> QED BY <1>1, <4>1
      <3> QED BY <3>1, <3>2
    <2>4. Makes(t, loop, s, q)
      BY <1>1, <1>3, <1>4, <1>6, <2>1, <2>2, <2>3 DEF Makes
    <2> QED BY <2>4
  <1> QED BY <1>5, <1>6

\* It has the room then, but for what others have added since it counted.
LEMMA MakesRoomy ==
  ASSUME TypeInv, NEW t \in Tasks, NEW o, NEW loop, NEW s, Makes(t, loop, s, o),
         loop \in {"count", "size"}, o.new \in Responses,
         NEW C \in Holdings, Tell(entries', bytes', tagIndex', C),
         Handled(C)', Sole', ~Doomed', \A u \in Tasks : task'[u].at # "cleared",
         loop = "size" => Cardinality(In(C) \ late[t]) < MaxEntries
  PROVE  Roomy(t, C)'
  <1>1. task'[t] = o
    BY GoesAt DEF Makes
  <1> DEFINE r == In(C) \ late'[t]
  <1>2. SUFFICES ASSUME Counted(o)
                 PROVE  \/ (\A k \in r : \E u \in Tasks : Drops(task'[u], k)) /\ o.at = "room"
                        \/ Fills(o, r, Weight(C))
    BY <1>1 DEF Roomy, Dropped
  <1>3. IsFiniteSet(In(C)) /\ r \in SUBSET In(C) /\ \A k \in In(C) : Weight(C)[k] \in Nat
    BY HeldFinite DEF In
  <1>4. SumFunctionOnSet(Weight(C), r) <= bytes'
    BY <1>3, SumLess DEF Tell
  <1>5. SumFunctionOnSet(Weight(C), r) \in Nat /\ bytes' \in Nat /\ o.new.size \in Nat
    BY <1>3, HeldFinite, SumNat, FS_Subset DEF Tell
  <1>6. late'[t] = {} => r = In(C) /\ Cardinality(r) = entries'
    BY DEF Tell
  <1>7. CASE o.at = "evicting"
    <2>1. o.then = "size"
      BY <1>2, <1>7 DEF Counted
    <2> QED BY <1>6, <1>7, <2>1 DEF Makes, Fills
  <1>8. CASE o.at = "room" /\ Range(lru') = {}
    BY <1>3, <1>8, AllDropped
  <1>9. CASE o.at = "room" /\ Range(lru') # {}
    <2>1. (loop = "count" => entries' < MaxEntries) /\ bytes' + o.new.size <= MaxSize
          /\ late'[t] = IF loop = "size" THEN late[t] ELSE {}
      BY <1>9 DEF Makes
    <2>2. Cardinality(r) < MaxEntries
      BY <1>6, <2>1
    <2> DEFINE a == SumFunctionOnSet(Weight(C), r)
    <2>3. a <= bytes' /\ a \in Nat
      BY <1>4, <1>5
    <2> HIDE DEF a
    <2>4. a + o.new.size <= MaxSize
      BY <1>5, <2>1, <2>3
    <2> QED BY <2>2, <2>4 DEF Fills, a
  <1> QED BY <1>7, <1>8, <1>9 DEF Makes

\* The entry that a set() replaces goes off the books, and room is made.
LEMMA SupplantBooks ==
  ASSUME TypeInv, BooksInv, NEW t \in Tasks, Supplant(t), entries' \in Nat, bytes' \in Nat
  PROVE  BooksInv'
  <1> DEFINE p == task[t]
             k == task[t].key
             e == task[t].held
             s == IF e = None THEN lru ELSE Without(lru, k)
  <1>1. /\ p \in Task /\ k \in Keys /\ p.new \in Responses /\ p.at = "previous"
        /\ Inside(t) /\ storage \in Holdings /\ Idle(p)
    BY IdleAt DEF TypeInv, TypeOK, Equipped, Fit, Keyed, Storing, Supplant, Inside, Holdings
  <1>2. /\ s \in Seq(Keys) /\ Once(s)
        /\ Range(s) = IF e = None THEN Range(lru) ELSE Range(lru) \ {k}
    BY WithoutOnce, WithoutType DEF BooksInv, TypeInv, TypeOK
  <1>3. MakeRoom(t, "count", s)
    BY DEF Supplant
  <1> HIDE DEF s
  <1>4. PICK o : Makes(t, "count", s, o)
    BY <1>1, <1>2, <1>3, MakesRoom
  <1>5. /\ o.key = k /\ o.held = e /\ o.new = p.new /\ Once(lru') /\ Goes(t, o)
        /\ o.at \in {"evicting", "room"} /\ (o.at = "evicting" => o.then \in {"count", "size"})
        /\ Range(lru') \subseteq Range(s)
    BY <1>4 DEF Makes
  <1> DEFINE v == Chosen(t)
             K == {k} \cup Chosen(t)
  <1>6. /\ v \subseteq Keys /\ (o.at = "evicting" => v = {o.victim})
        /\ Range(s) \ v = Range(lru') \ v
        /\ o.at = "evicting" => o.last = storage[o.victim] /\ o.victim \in Range(s)
    BY <1>4 DEF Makes
  <1>7. K \in SUBSET Keys
    BY <1>1, <1>6
  <1>8. /\ Overtakes(t, K, v \ {k}) /\ skewed' = (skewed \/ k \in behind[t])
        /\ UNCHANGED storage
    BY DEF Supplant, kept
  <1> HIDE DEF v, K
  <1>9. /\ behind'[t] = behind[t] \ (v \ {k})
        /\ \A u \in Tasks \ {t} : Inside(u) => behind'[u] = behind[u] \cup K
    BY <1>8 DEF Overtakes, TypeInv, TypeOK
  <1>10. Knows(p, storage, lru, behind[t])
    BY <1>1 DEF BooksInv, Known
  <1>11. k \in behind'[t] \/ e = storage[k]
    BY <1>1, <1>9, <1>10 DEF Knows
  <1>12. Knows(o, storage', lru', behind'[t])
    <2>1. e # None => k \notin Range(lru')
      BY <1>2, <1>5
    <2>2. o.at = "evicting" /\ o.victim = k => k \in behind'[t] \/ (e = None /\ o.last = None)
      BY <1>2, <1>6, <1>11
    <2> QED BY <1>5, <1>6, <1>8, <1>11, <2>1, <2>2 DEF Knows, Replacing, Evicting
  <1>13. Adds(o, k) /\ (\A j \in Keys \ {k} : ~Adds(o, j)) /\ \A j \in Keys : ~Takes(o, j)
    BY <1>5 DEF Adds, Replacing, Takes
  <1>14. \A j \in Keys : Drops(o, j) => j \in v
    BY <1>5, <1>6 DEF Drops
  <1>15. \A j \in Keys \ {k}, g \in Tags : j \in tagIndex'[g] <=> j \in tagIndex[g]
    BY DEF Supplant, Unindex
  <1>16. k \in K /\ v \subseteq K /\ K \subseteq {k} \cup v
    BY DEF K, v
  <1>17. Frame(t, o, K)
    <2>1. \A j \in Keys \ K : /\ SameStand(o, p, j) /\ ~Owes(o, j)
                              /\ j \in Range(lru') <=> j \in Range(lru)
      <3>1. ASSUME NEW j \in Keys \ K
            PROVE  /\ ~Adds(o, j) /\ ~Drops(o, j) /\ ~Takes(o, j)
                   /\ ~Adds(p, j) /\ ~Drops(p, j) /\ ~Takes(p, j)
        BY <1>1, <1>13, <1>14, <1>16 DEF Idle, Owes, Drops, Takes
      <3>2. ASSUME NEW j \in Keys \ K PROVE j \in Range(lru') <=> j \in Range(lru)
        BY <1>2, <1>6, <1>16
      <3> QED BY <1>5, <3>1, <3>2 DEF SameStand, Owes
    <2>2. Shape(o) /\ p.at # "cleared" /\ o.at # "cleared"
      BY <1>1, <1>5 DEF Shape
    <2>3. \A j \in K : ~Owes(p, j)
      BY <1>1, <1>7 DEF Idle
    <2> QED BY <1>5, <1>8, <1>9, <1>12, <1>15, <1>16, <2>1, <2>2, <2>3 DEF Frame
  <1>18. Once(lru') /\ Shaped' /\ Known' /\ Sole'
    BY <1>7, <1>17, FrameKeeps
  <1>19. ASSUME ~skewed', ~Doomed', ~Straight' PROVE FALSE
    <2>1. (\E B : Ready(t, K, B)) /\ \A u \in Tasks : task[u].at # "cleared"
      BY <1>7, <1>17, <1>19, FrameReady
    <2>2. PICK B : Ready(t, K, B)
      BY <2>1
    <2>3. B \in Holdings /\ Tell(entries, bytes, tagIndex, B)
      BY <2>2 DEF Ready, Agree
    <2>4. storage[k] = e /\ B[k] = e
      <3>1. k \notin behind[t] /\ Own(p, k, B[k], storage, lru)
        BY <1>8, <1>16, <1>19, <2>2 DEF Ready
      <3>2. storage[k] = e
        BY <1>1, <1>10, <3>1 DEF Knows
      <3> QED BY <1>1, <3>1, <3>2 DEF Own, Takes, Adds, Replacing, Evicting
    <2>5. PICK C \in Holdings : C = [B EXCEPT ![k] = None]
      BY <2>3 DEF Holdings, Maybe
    <2>6. C[k] = None /\ \A j \in Keys : j # k => C[j] = B[j]
      BY <1>1, <2>3, <2>5 DEF Holdings
    <2>7. Tell(entries', bytes', tagIndex', C)
      <3>1. CASE e = None
        <4>1. UNCHANGED <<entries, bytes, tagIndex>>
          BY <3>1 DEF Supplant
        <4>2. C = B
          BY <2>3, <2>4, <2>5, <3>1 DEF Holdings
        <4> QED BY <2>3, <4>1, <4>2
      <3>2. CASE e # None
        <4>1. /\ entries' = Less(entries, 1) /\ bytes' = Less(bytes, e.size)
              /\ tagIndex' = [g \in Tags |->
                                IF g \in e.tags THEN tagIndex[g] \ {k} ELSE tagIndex[g]]
          BY <3>2 DEF Supplant, Unindex
        <4> QED BY <1>1, <2>3, <2>4, <2>5, <3>2, <4>1, TellLess
      <3> QED BY <3>1, <3>2
    <2>8. ASSUME NEW j \in K PROVE Own(o, j, C[j], storage', lru')
      <3>1. CASE j = k
        BY <1>7, <1>13, <2>6, <3>1 DEF Own, Owes
      <3>2. CASE j # k
        <4>1. j \in Keys /\ j \in v /\ C[j] = B[j]
          BY <1>7, <1>16, <2>6, <3>2
        <4>2. Own(p, j, B[j], storage, lru) /\ ~Owes(p, j)
          BY <1>1, <2>2, <4>1 DEF Ready, Idle
        <4>3. B[j] = storage[j]
          BY <4>2 DEF Own, Owes, Takes, Drops
        <4>4. Drops(o, j)
          <5>1. o.at = "evicting"
            BY <1>4, <4>1 DEF Makes, v
          <5> QED BY <1>6, <4>1, <5>1 DEF Drops
        <4> QED BY <1>8, <1>13, <3>2, <4>1, <4>3, <4>4 DEF Own, Owes
      <3> QED BY <3>1, <3>2
    <2>9. Handled(C)'
      BY <1>7, <1>16, <1>17, <2>2, <2>6, <2>8, FrameHandled
    <2>10. Left(o, tagIndex', behind'[t])
      BY <1>5 DEF Left, Sweeping
    <2>11. \A u \in Tasks : task'[u].at # "cleared"
      BY <1>5, <2>1, GoesAt
    <2>12. Roomy(t, C)'
      BY <1>1, <1>4, <1>5, <1>18, <1>19, <2>7, <2>9, <2>11, MakesRoomy
    <2>13. \A u \in Tasks \ {t} : Counted(task[u]) =>
             \A j \in In(C) \ late'[u] : /\ C[j] = B[j] /\ j \notin late[u]
                                         /\ Drops(task[t], j) => Drops(o, j)
      BY <1>1, <1>4, <2>6 DEF In, Makes, Drops
    <2>14. Straight'
      BY <1>7, <1>17, <2>2, <2>7, <2>9, <2>10, <2>12, <2>13, FrameStraight
    <2> QED BY <1>19, <2>14
  <1> QED BY <1>18, <1>19 DEF BooksInv

\* The loop goes on after an eviction.
LEMMA EvictedBooks ==
  ASSUME TypeInv, BooksInv, NEW t \in Tasks, Evicted(t)
  PROVE  BooksInv'
  <1> DEFINE p == task[t]
             k == task[t].key
             e == task[t].held
             loop == task[t].then
             v == Chosen(t)
  <1>1. /\ p \in Task /\ k \in Keys /\ p.new \in Responses /\ p.at = "struck"
        /\ loop \in {"count", "size"} /\ Inside(t) /\ storage \in Holdings
    BY DEF TypeInv, TypeOK, Equipped, Fit, Evicting, Evicted, Inside, Holdings
  <1>2. MakeRoom(t, loop, lru) /\ lru \in Seq(Keys) /\ Once(lru)
        /\ Overtakes(t, v, v \ {k})
        /\ UNCHANGED <<storage, entries, bytes, tagIndex, skewed>>
    BY DEF Evicted, kept, TypeInv, TypeOK, BooksInv
  <1>3. entries' \in Nat /\ bytes' \in Nat
    BY <1>2 DEF TypeInv, TypeOK
  <1>4. PICK o : Makes(t, loop, lru, o)
    BY <1>1, <1>2, <1>3, MakesRoom
  <1>5. /\ o.key = k /\ o.held = e /\ o.new = p.new /\ Once(lru') /\ Goes(t, o)
        /\ o.at \in {"evicting", "room"} /\ (o.at = "evicting" => o.then \in {"count", "size"})
        /\ Range(lru') \subseteq Range(lru)
    BY <1>4 DEF Makes
  <1>6. /\ v \in SUBSET Keys /\ Range(lru) \ v = Range(lru') \ v
        /\ \A j \in v : o.at = "evicting" /\ j = o.victim
        /\ o.at = "evicting" => /\ v = {o.victim} /\ o.last = storage[o.victim]
                                /\ o.victim \in Range(lru)
    BY <1>4 DEF Makes
  <1> HIDE DEF v
  <1>7. /\ behind'[t] = behind[t] \ (v \ {k})
        /\ \A u \in Tasks \ {t} : Inside(u) => behind'[u] = behind[u] \cup v
    BY <1>2 DEF Overtakes, TypeInv, TypeOK
  <1>8. Knows(p, storage, lru, behind[t])
    BY <1>1 DEF BooksInv, Known
  <1>9. /\ k \in behind'[t] \/ e = storage[k]
        /\ e # None => k \in behind'[t] \/ k \notin Range(lru)
    BY <1>1, <1>7, <1>8 DEF Knows, Replacing, Evicting
  <1>10. Knows(o, storage', lru', behind'[t])
    <2>1. o.at = "evicting" /\ o.victim = k => k \in behind'[t] \/ (e = None /\ o.last = None)
      BY <1>6, <1>9
    <2> QED BY <1>2, <1>5, <1>6, <1>9, <2>1 DEF Knows, Replacing, Evicting
  <1>11. \A j \in Keys : /\ Adds(o, j) <=> j = k
                         /\ Adds(p, j) <=> j = k
                         /\ ~Takes(o, j) /\ ~Takes(p, j) /\ ~Drops(p, j)
                         /\ Drops(o, j) <=> j \in v
    BY <1>1, <1>5, <1>6 DEF Adds, Replacing, Evicting, Takes, Drops
  <1>12. Frame(t, o, v)
    <2>1. ASSUME NEW j \in Keys \ v
          PROVE  SameStand(o, p, j) /\ (j \in Range(lru') <=> j \in Range(lru))
      BY <1>6, <1>11 DEF SameStand
    <2>2. Shape(o) /\ p.at # "cleared" /\ o.at # "cleared"
      BY <1>1, <1>5 DEF Shape
    <2>3. \A j \in v : Owes(p, j) /\ j \in behind[t] => Owes(o, j) /\ j \in behind'[t]
      BY <1>1, <1>6, <1>7, <1>11 DEF Owes
    <2>4. \A j \in Keys \ v : j \in behind[t] => j \in behind'[t]
      BY <1>7
    <2> QED BY <1>2, <1>5, <1>7, <1>10, <2>1, <2>2, <2>3, <2>4 DEF Frame
  <1>13. Once(lru') /\ Shaped' /\ Known' /\ Sole'
    BY <1>6, <1>12, FrameKeeps
  <1>14. ASSUME ~skewed', ~Doomed', ~Straight' PROVE FALSE
    <2>1. (\E B : Ready(t, v, B)) /\ \A u \in Tasks : task[u].at # "cleared"
      BY <1>6, <1>12, <1>14, FrameReady
    <2>2. PICK B : Ready(t, v, B)
      BY <2>1
    <2>3. B \in Holdings /\ Tell(entries', bytes', tagIndex', B)
      BY <1>2, <2>2 DEF Ready, Agree
    <2>4. ASSUME NEW j \in v PROVE Own(o, j, B[j], storage', lru')
      <3>1. j \in Keys /\ Own(p, j, B[j], storage, lru) /\ Drops(o, j)
        BY <1>6, <1>11, <2>2 DEF Ready
      <3> QED BY <1>2, <1>11, <3>1 DEF Own, Owes
    <2>5. Handled(B)'
      BY <1>6, <1>12, <2>2, <2>4, FrameHandled
    <2>6. Left(o, tagIndex', behind'[t])
      BY <1>5 DEF Left, Sweeping
    <2>7. \A u \in Tasks : task'[u].at # "cleared"
      BY <1>5, <2>1, GoesAt
    <2>8. loop = "size" => Cardinality(In(B) \ late[t]) < MaxEntries
      BY <1>1, <2>2 DEF Ready, Agree, Roomy, Counted, Fills
    <2>9. Roomy(t, B)'
      BY <1>1, <1>4, <1>5, <1>13, <1>14, <2>3, <2>5, <2>7, <2>8, MakesRoomy
    <2>10. \A u \in Tasks \ {t} : Counted(task[u]) =>
             \A j \in In(B) \ late'[u] : /\ B[j] = B[j] /\ j \notin late[u]
                                         /\ Drops(task[t], j) => Drops(o, j)
      BY <1>4, <1>11 DEF In, Makes
    <2>11. Straight'
      BY <1>6, <1>12, <2>2, <2>3, <2>5, <2>6, <2>9, <2>10, FrameStraight
    <2> QED BY <1>14, <2>11
  <1> QED BY <1>13, <1>14 DEF BooksInv

----------------------------------------------------------------------------
\* The adapter takes the entry or refuses it.
LEMMA StoreBooks ==
  ASSUME TypeInv, BooksInv, NEW t \in Tasks, Store(t)
  PROVE  BooksInv'
  <1> DEFINE p == task[t]
             k == task[t].key
  <1>1. p \in Task /\ k \in Keys /\ p.at = "room" /\ Inside(t) /\ storage \in Holdings
    BY DEF TypeInv, TypeOK, Equipped, Fit, Keyed, Store, Inside, Holdings
  <1>2. PICK o : /\ Goes(t, o) /\ o.key = k /\ o.held = p.held /\ o.new = p.new
                 /\ \/ o.at = "stored" /\ storage' = [storage EXCEPT ![k] = p.new]
                    \/ o.at = "refused" /\ storage' = storage
    <2> DEFINE q(a) == [task[t] EXCEPT !.at = a]
    <2>1. \A a : q(a).at = a /\ q(a).key = k /\ q(a).held = p.held /\ q(a).new = p.new
      BY <1>1 DEF Task
    <2>2. \/ Goes(t, q("stored")) /\ storage' = [storage EXCEPT ![k] = p.new]
          \/ Goes(t, q("refused")) /\ storage' = storage
      BY DEF Store, Holds, kept
    <2> HIDE DEF q
    <2> QED BY <2>1, <2>2
  <1>3. Writes(t, {k}) /\ UNCHANGED <<lru, tagIndex, entries, bytes, late>>
    BY DEF Store, books
  <1>4. /\ behind'[t] = behind[t]
        /\ \A u \in Tasks \ {t} : Inside(u) => behind'[u] = behind[u] \cup {k}
    BY <1>3 DEF Writes, Overtakes, TypeInv, TypeOK
  <1>5. skewed' = (skewed \/ k \in behind[t])
    BY <1>3 DEF Writes
  <1>6. /\ \A j \in Keys \ {k} : storage'[j] = storage[j]
        /\ IF o.at = "stored" THEN storage'[k] = p.new ELSE storage' = storage
    BY <1>1, <1>2 DEF Holdings
  <1>7. Knows(p, storage, lru, behind[t])
    BY <1>1 DEF BooksInv, Known
  <1>8. Knows(o, storage', lru', behind'[t])
    BY <1>1, <1>2, <1>4, <1>6, <1>7 DEF Knows, Replacing, Evicting
  <1>9. \A j \in Keys : /\ Adds(o, j) <=> j = k
                        /\ Adds(p, j) <=> j = k
                        /\ ~Takes(o, j) /\ ~Takes(p, j) /\ ~Drops(p, j) /\ ~Drops(o, j)
    BY <1>1, <1>2 DEF Adds, Takes, Drops
  <1>10. Frame(t, o, {k})
    <2>1. ASSUME NEW j \in Keys \ {k} PROVE SameStand(o, p, j)
      BY <1>9 DEF SameStand
    <2>2. Shape(o) /\ p.at # "cleared" /\ o.at # "cleared" /\ Once(lru')
      BY <1>1, <1>2, <1>3 DEF Shape, BooksInv
    <2> QED BY <1>2, <1>3, <1>4, <1>5, <1>6, <1>8, <2>1, <2>2 DEF Frame
  <1>11. Once(lru') /\ Shaped' /\ Known' /\ Sole'
    BY <1>1, <1>10, FrameKeeps
  <1>12. ASSUME ~skewed', ~Doomed', ~Straight' PROVE FALSE
    <2>1. PICK B : Ready(t, {k}, B)
      BY <1>1, <1>10, <1>12, FrameReady
    <2>2. B \in Holdings /\ Tell(entries', bytes', tagIndex', B)
      BY <1>3, <2>1 DEF Ready, Agree
    <2>3. Own(o, k, B[k], storage', lru')
      BY <1>1, <1>9, <2>1 DEF Ready, Own, Owes
    <2>4. Handled(B)'
      BY <1>1, <1>10, <2>1, <2>3, FrameHandled
    <2>5. Left(o, tagIndex', behind'[t])
      BY <1>2 DEF Left, Sweeping
    <2>6. task'[t] = o /\ \A u \in Tasks \ {t} : task'[u] = task[u]
      BY <1>2, GoesAt
    <2>7. Roomy(t, B)'
      <3>1. SUFFICES ASSUME Counted(o)
                     PROVE  \/ /\ \A j \in In(B) \ late[t] : \E u \in Tasks : Drops(task'[u], j)
                               /\ o.at \in {"room", "stored"}
                            \/ Fills(o, In(B) \ late[t], Weight(B))
        BY <1>3, <2>6 DEF Roomy, Dropped
      <3>2. o.at = "stored"
        BY <1>2, <3>1 DEF Counted
      <3>3. CASE Dropped(In(B) \ late[t])
        <4>1. ASSUME NEW j \in In(B) \ late[t] PROVE \E u \in Tasks : Drops(task'[u], j)
          <5>1. PICK u \in Tasks : Drops(task[u], j)
            BY <3>3 DEF Dropped
          <5>2. u # t
            BY <1>9, <5>1 DEF In
          <5> QED BY <2>6, <5>1, <5>2
        <4> QED BY <3>2, <4>1
      <3>4. CASE Fills(p, In(B) \ late[t], Weight(B))
        BY <1>1, <1>2, <3>2, <3>4 DEF Fills
      <3> QED BY <1>1, <2>1, <3>3, <3>4 DEF Ready, Agree, Roomy, Counted
    <2>8. \A u \in Tasks \ {t} : Counted(task[u]) =>
             \A j \in In(B) \ late'[u] : /\ B[j] = B[j] /\ j \notin late[u]
                                         /\ Drops(task[t], j) => Drops(o, j)
      BY <1>3, <1>9 DEF In
    <2>9. Straight'
      BY <1>1, <1>10, <2>1, <2>2, <2>4, <2>5, <2>7, <2>8, FrameStraight
    <2> QED BY <1>12, <2>9
  <1> QED BY <1>11, <1>12 DEF BooksInv

\* An entry enters the books, and the operation that has brought it returns.
LEMMA EnrolBooks ==
  ASSUME TypeInv, BooksInv, NEW t \in Tasks, NEW e \in Responses, Enrol(t, task[t].key, e),
         \/ task[t].at \in {"stored", "restored"} /\ e = task[t].new
         \/ task[t].at = "refused" /\ e = task[t].held,
         NEW o, Goes(t, o), o.at \in {"idle", "unmark"},
         Writes(t, {task[t].key}), UNCHANGED storage
  PROVE  BooksInv'
  <1> DEFINE p == task[t]
             k == task[t].key
  <1>1. k \in Keys /\ Inside(t) /\ storage \in Holdings
    BY DEF TypeInv, TypeOK, Equipped, Fit, Keyed, Inside, Holdings
  <1>2. /\ behind'[t] = behind[t] /\ skewed' = (skewed \/ k \in behind[t])
        /\ \A u \in Tasks \ {t} : Inside(u) => behind'[u] = behind[u] \cup {k}
    BY DEF Writes, Overtakes, TypeInv, TypeOK
  <1>3. /\ Range(lru') = Range(lru) \cup {k} /\ Once(lru')
        /\ entries' = entries + 1 /\ bytes' = bytes + e.size
        /\ tagIndex' = [g \in Tags |-> IF g \in e.tags THEN tagIndex[g] \cup {k} ELSE tagIndex[g]]
        /\ late' = [u \in Tasks |-> IF u # t /\ Counted(task[u]) THEN late[u] \cup {k} ELSE late[u]]
    BY <1>1, TouchedOnce DEF Enrol, Index, BooksInv, TypeInv
  <1>4. Knows(p, storage, lru, behind[t])
    BY <1>1 DEF BooksInv, Known
  <1>5. Idle(o) /\ ~Counted(o) /\ Shape(o) /\ Left(o, tagIndex', behind'[t])
    BY OutsideAt
  <1>6. task'[t] = o /\ ~Inside(t)'
    BY GoesAt
  <1>7. \A j \in Keys : /\ Adds(p, j) <=> j = k
                        /\ ~Takes(p, j) /\ ~Drops(p, j)
    BY DEF Adds, Takes, Drops
  <1>8. Frame(t, o, {k})
    <2>1. ASSUME NEW j \in Keys \ {k} PROVE SameStand(o, p, j)
      BY <1>5, <1>7 DEF SameStand, Idle, Owes, Takes, Drops
    <2> QED BY <1>2, <1>3, <1>5, <1>6, <2>1 DEF Frame
  <1>9. Once(lru') /\ Shaped' /\ Known' /\ Sole'
    BY <1>1, <1>8, FrameKeeps
  <1>10. ASSUME ~skewed', ~Doomed', ~Straight' PROVE FALSE
    <2>1. PICK B : Ready(t, {k}, B)
      BY <1>1, <1>8, <1>10, FrameReady
    <2>2. B \in Holdings /\ Tell(entries, bytes, tagIndex, B)
      BY <2>1 DEF Ready, Agree
    <2>3. B[k] = None
      BY <1>1, <1>7, <2>1 DEF Ready, Own
    <2>4. storage[k] = e
      BY <1>1, <1>2, <1>4, <1>10 DEF Knows
    <2>5. PICK C \in Holdings : C = [B EXCEPT ![k] = e]
      BY <2>2 DEF Holdings, Maybe
    <2>6. C[k] = e /\ \A j \in Keys : j # k => C[j] = B[j]
      BY <1>1, <2>2, <2>5 DEF Holdings
    <2>7. Tell(entries', bytes', tagIndex', C)
      BY <1>1, <1>3, <2>2, <2>3, <2>5, TellMore
    <2>8. Own(o, k, C[k], storage', lru')
      BY <1>1, <1>3, <1>5, <2>4, <2>6 DEF Own, Idle, Owes, Takes, Drops
    <2>9. Handled(C)'
      BY <1>1, <1>8, <2>1, <2>6, <2>8, FrameHandled
    <2>10. Roomy(t, C)'
      BY <1>5, <1>6 DEF Roomy
    <2>11. \A u \in Tasks \ {t} : Counted(task[u]) =>
             \A j \in In(C) \ late'[u] : /\ C[j] = B[j] /\ j \notin late[u]
                                         /\ Drops(task[t], j) => Drops(o, j)
      BY <1>3, <1>7, <2>6 DEF In
    <2>12. Straight'
      BY <1>1, <1>5, <1>8, <2>1, <2>7, <2>9, <2>10, <2>11, FrameStraight
    <2> QED BY <1>10, <2>12
  <1> QED BY <1>9, <1>10 DEF BooksInv

\* An operation returns, and the storage is as it believes.
LEMMA RefusedBooks ==
  ASSUME TypeInv, BooksInv, NEW t \in Tasks, Refused(t), task[t].held = None
  PROVE  BooksInv'
  <1> DEFINE p == task[t]
             k == task[t].key
  <1>1. k \in Keys /\ Inside(t) /\ p.at = "refused"
    BY DEF TypeInv, Equipped, Fit, Keyed, Inside, Refused
  <1>2. PICK o : Goes(t, o) /\ o.at \in {"idle", "unmark"}
    BY EndedAt DEF Refused
  <1>3. Writes(t, {k}) /\ UNCHANGED <<storage, lru, tagIndex, entries, bytes, late>>
    BY DEF Refused, kept, books
  <1>4. /\ behind'[t] = behind[t] /\ skewed' = (skewed \/ k \in behind[t])
        /\ \A u \in Tasks \ {t} : Inside(u) => behind'[u] = behind[u] \cup {k}
    BY <1>3 DEF Writes, Overtakes, TypeInv, TypeOK
  <1>5. Idle(o) /\ ~Counted(o) /\ Shape(o) /\ Left(o, tagIndex', behind'[t])
    BY <1>2, OutsideAt
  <1>6. task'[t] = o /\ ~Inside(t)'
    BY <1>2, GoesAt
  <1>7. \A j \in Keys : /\ Adds(p, j) <=> j = k
                        /\ ~Takes(p, j) /\ ~Drops(p, j)
    BY <1>1 DEF Adds, Takes, Drops
  <1>8. Frame(t, o, {k})
    <2>1. ASSUME NEW j \in Keys \ {k} PROVE SameStand(o, p, j)
      BY <1>5, <1>7 DEF SameStand, Idle, Owes, Takes, Drops
    <2>2. Once(lru')
      BY <1>3 DEF BooksInv
    <2> QED BY <1>1, <1>2, <1>3, <1>4, <1>5, <1>6, <2>1, <2>2 DEF Frame
  <1>9. Once(lru') /\ Shaped' /\ Known' /\ Sole'
    BY <1>1, <1>8, FrameKeeps
  <1>10. ASSUME ~skewed', ~Doomed', ~Straight' PROVE FALSE
    <2>1. PICK B : Ready(t, {k}, B)
      BY <1>1, <1>8, <1>10, FrameReady
    <2>2. B \in Holdings /\ Tell(entries', bytes', tagIndex', B)
      BY <1>3, <2>1 DEF Ready, Agree
    <2>3. Own(o, k, B[k], storage', lru')
      <3>1. B[k] = None
        BY <1>1, <1>7, <2>1 DEF Ready, Own
      <3>2. storage[k] = None
        <4>1. Knows(p, storage, lru, behind[t])
          BY <1>1 DEF BooksInv, Known
        <4> QED BY <1>1, <1>4, <1>10, <4>1 DEF Knows
      <3> QED BY <1>1, <1>3, <1>5, <3>1, <3>2 DEF Own, Idle, Owes, Takes, Drops
    <2>4. Handled(B)'
      BY <1>1, <1>8, <2>1, <2>3, FrameHandled
    <2>5. Roomy(t, B)'
      BY <1>5, <1>6 DEF Roomy
    <2>6. \A u \in Tasks \ {t} : Counted(task[u]) =>
             \A j \in In(B) \ late'[u] : /\ B[j] = B[j] /\ j \notin late[u]
                                         /\ Drops(task[t], j) => Drops(o, j)
      BY <1>3, <1>7 DEF In
    <2>7. Straight'
      BY <1>1, <1>5, <1>8, <2>1, <2>2, <2>4, <2>5, <2>6, FrameStraight
    <2> QED BY <1>10, <2>7
  <1> QED BY <1>9, <1>10 DEF BooksInv

LEMMA StoredBooks ==
  ASSUME TypeInv, BooksInv, NEW t \in Tasks, Stored(t) \/ Refused(t) \/ Restored(t)
  PROVE  BooksInv'
  <1>1. Fit(task[t]) /\ task[t] \in Task
    BY DEF TypeInv, TypeOK, Equipped
  <1>2. CASE Stored(t) \/ Restored(t)
    <2>1. /\ task[t].at \in {"stored", "restored"} /\ task[t].new \in Responses
          /\ Enrol(t, task[t].key, task[t].new) /\ Writes(t, {task[t].key}) /\ UNCHANGED storage
      BY <1>1, <1>2 DEF Stored, Restored, Fit, Storing, kept
    <2>2. Goes(t, NoTask) \/ Goes(t, Ended(t))
      BY <1>2 DEF Stored, Restored
    <2> QED BY <2>1, <2>2, EndedAt, EnrolBooks
  <1>3. CASE Refused(t) /\ task[t].held # None
    <2>1. /\ task[t].at = "refused" /\ task[t].held \in Responses
          /\ Enrol(t, task[t].key, task[t].held) /\ Writes(t, {task[t].key})
          /\ Goes(t, Ended(t)) /\ UNCHANGED storage
      BY <1>1, <1>3 DEF Refused, Task, Maybe, kept
    <2> QED BY <2>1, EndedAt, EnrolBooks
  <1> QED BY <1>2, <1>3, RefusedBooks

\* A revalidation writes back what it has read.
LEMMA RenewBooks ==
  ASSUME TypeInv, BooksInv, NEW t \in Tasks, Renew(t)
  PROVE  BooksInv'
  <1> DEFINE p == task[t]
             k == task[t].key
             o == [task[t] EXCEPT !.at = "renewed"]
  <1>1. p \in Task /\ k \in Keys /\ p.at = "got304" /\ Inside(t) /\ storage \in Holdings
    BY DEF TypeInv, TypeOK, Equipped, Fit, Keyed, Renew, Inside, Holdings
  <1>2. o.at = "renewed" /\ Goes(t, o)
    BY <1>1 DEF Task, Renew
  <1> HIDE DEF o
  <1>3. /\ Writes(t, {k}) /\ UNCHANGED <<lru, tagIndex, entries, bytes, late>>
        /\ storage' \in {storage, [storage EXCEPT ![k] = p.held]}
    BY DEF Renew, Holds, books, kept
  <1>4. /\ behind'[t] = behind[t] /\ skewed' = (skewed \/ k \in behind[t])
        /\ \A u \in Tasks \ {t} : Inside(u) => behind'[u] = behind[u] \cup {k}
    BY <1>3 DEF Writes, Overtakes, TypeInv, TypeOK
  <1>5. Idle(o) /\ ~Counted(o) /\ Idle(p)
    BY <1>1, <1>2, IdleAt
  <1>6. Shape(o) /\ Left(o, tagIndex', behind'[t]) /\ Knows(o, storage', lru', behind'[t])
    BY <1>2 DEF Shape, Left, Sweeping, Knows, Replacing, Evicting
  <1>7. Frame(t, o, {k})
    <2>1. ASSUME NEW j \in Keys \ {k} PROVE SameStand(o, p, j) /\ storage'[j] = storage[j]
      BY <1>1, <1>3, <1>5 DEF SameStand, Idle, Owes, Takes, Drops, Holdings
    <2>2. Once(lru') /\ ~Owes(p, k)
      BY <1>1, <1>3, <1>5 DEF BooksInv, Idle
    <2> QED BY <1>1, <1>2, <1>3, <1>4, <1>5, <1>6, <2>1, <2>2 DEF Frame, Idle
  <1>8. Once(lru') /\ Shaped' /\ Known' /\ Sole'
    BY <1>1, <1>7, FrameKeeps
  <1>9. ASSUME ~skewed', ~Doomed', ~Straight' PROVE FALSE
    <2>1. PICK B : Ready(t, {k}, B)
      BY <1>1, <1>7, <1>9, FrameReady
    <2>2. B \in Holdings /\ Tell(entries', bytes', tagIndex', B)
      BY <1>3, <2>1 DEF Ready, Agree
    <2>3. storage' = storage
      <3>1. Knows(p, storage, lru, behind[t])
        BY <1>1 DEF BooksInv, Known
      <3>2. p.held = storage[k]
        BY <1>1, <1>4, <1>9, <3>1 DEF Knows
      <3> QED BY <1>1, <1>3, <3>2 DEF Holdings
    <2>4. Own(o, k, B[k], storage', lru')
      BY <1>1, <1>3, <1>5, <2>1, <2>3 DEF Ready, Own, Idle, Owes, Takes, Drops
    <2>5. Handled(B)'
      BY <1>1, <1>7, <2>1, <2>4, FrameHandled
    <2>6. Roomy(t, B)'
      BY <1>2, <1>5, GoesAt DEF Roomy
    <2>7. \A u \in Tasks \ {t} : Counted(task[u]) =>
             \A j \in In(B) \ late'[u] : /\ B[j] = B[j] /\ j \notin late[u]
                                         /\ Drops(task[t], j) => Drops(o, j)
      BY <1>3, <1>5 DEF In, Idle, Owes
    <2>8. Straight'
      BY <1>1, <1>6, <1>7, <2>1, <2>2, <2>5, <2>6, <2>7, FrameStraight
    <2> QED BY <1>9, <2>8
  <1> QED BY <1>8, <1>9 DEF BooksInv

----------------------------------------------------------------------------
\* An invalidation finds nothing, or comes to its end.
LEMMA FoundBooks ==
  ASSUME TypeInv, BooksInv, NEW t \in Tasks, Found(t), task[t].held = None
  PROVE  BooksInv'
  <1>1. Goes(t, NoTask) /\ UNCHANGED <<storage, books, skewed>> /\ behind' = behind
    BY DEF Found, kept, history
  <1>2. Idle(task[t])
    BY IdleAt DEF Found
  <1> QED BY <1>1, <1>2, EndedAt, LeavesBooks

LEMMA SweepEnds ==
  ASSUME TypeInv, BooksInv, NEW t \in Tasks, Swept(t), task[t].todo = {},
         tagIndex' = [g \in Tags |-> IF g = task[t].tag THEN {} ELSE tagIndex[g]],
         Goes(t, NoTask), Writes(t, UNION {tagIndex[g] : g \in Tags \cap {task[t].tag}}),
         UNCHANGED <<lru, entries, bytes, late>>
  PROVE  BooksInv'
  <1> DEFINE p == task[t]
             K == UNION {tagIndex[g] : g \in Tags \cap {task[t].tag}}
  <1>1. p \in Task /\ p.at = "struck" /\ p.then = "sweep" /\ p.todo = {}
    BY DEF TypeInv, TypeOK, Swept
  <1>2. K \in SUBSET Keys /\ \A g \in Tags : g = p.tag => tagIndex[g] = K
    BY DEF TypeInv, TypeOK
  <1>3. /\ behind'[t] = behind[t] /\ skewed' = (skewed \/ behind[t] \cap K # {})
        /\ \A u \in Tasks \ {t} : Inside(u) => behind'[u] = behind[u] \cup K
    BY DEF Writes, Overtakes, TypeInv, TypeOK
  <1>4. Idle(p) /\ Idle(NoTask) /\ Shape(NoTask) /\ Left(NoTask, tagIndex', behind'[t])
    BY <1>1, IdleAt, OutsideAt, EndedAt
  <1>5. task'[t] = NoTask /\ ~Inside(t)' /\ ~Counted(NoTask)
    BY GoesAt, OutsideAt, EndedAt
  <1>6. ASSUME NEW k \in Keys \ K, NEW g \in Tags PROVE k \in tagIndex'[g] <=> k \in tagIndex[g]
    BY <1>2
  <1>7. UNCHANGED storage
    BY DEF Swept, kept
  <1> HIDE DEF K
  <1>8. Frame(t, NoTask, K)
    <2>1. ASSUME NEW j \in Keys PROVE SameStand(NoTask, p, j) /\ ~Owes(p, j) /\ ~Owes(NoTask, j)
      BY <1>4 DEF SameStand, Idle, Owes, Takes, Drops
    <2>2. Once(lru')
      BY DEF BooksInv
    <2> QED BY <1>1, <1>2, <1>3, <1>4, <1>5, <1>6, <1>7, <2>1, <2>2 DEF Frame, Idle
  <1>9. Once(lru') /\ Shaped' /\ Known' /\ Sole'
    BY <1>2, <1>8, FrameKeeps
  <1>10. ASSUME ~skewed', ~Doomed', ~Straight' PROVE FALSE
    <2>1. PICK B : Ready(t, K, B)
      BY <1>2, <1>8, <1>10, FrameReady
    <2>2. K = {}
      <3>1. CASE p.tag \in Tags
        <4>1. Left(p, tagIndex, behind[t]) /\ p.tag # None
          BY <2>1, <3>1 DEF Ready
        <4>2. tagIndex[p.tag] \subseteq behind[t]
          BY <1>1, <4>1 DEF Left, Sweeping
        <4> QED BY <1>2, <1>3, <1>10, <3>1, <4>2
      <3>2. CASE p.tag \notin Tags
        BY <3>2 DEF K
      <3> QED BY <3>1, <3>2
    <2>3. B \in Holdings /\ Tell(entries', bytes', tagIndex', B)
      <3>1. \A g \in Tags : tagIndex'[g] = tagIndex[g]
        BY <1>2, <2>2
      <3> QED BY <2>1, <3>1 DEF Ready, Agree, Tell
    <2>4. Handled(B)'
      BY <1>2, <1>8, <2>1, <2>2, FrameHandled
    <2>5. Roomy(t, B)'
      BY <1>5 DEF Roomy
    <2>6. \A u \in Tasks \ {t} : Counted(task[u]) =>
             \A j \in In(B) \ late'[u] : /\ B[j] = B[j] /\ j \notin late[u]
                                         /\ Drops(task[t], j) => Drops(NoTask, j)
      BY <1>4 DEF In, Idle, Owes
    <2>7. Straight'
      BY <1>2, <1>4, <1>8, <2>1, <2>3, <2>4, <2>5, <2>6, FrameStraight
    <2> QED BY <1>10, <2>7
  <1> QED BY <1>9, <1>10 DEF BooksInv

LEMMA SweptBooks ==
  ASSUME TypeInv, BooksInv, NEW t \in Tasks, Swept(t)
  PROVE  BooksInv'
  <1>1. CASE NextOf(t, task[t].todo) /\ UNCHANGED <<books, skewed>>
    <2>1. task[t].todo \in SUBSET Keys
      BY DEF TypeInv, TypeOK, Task
    <2>2. Idle(task[t])
      BY IdleAt DEF Swept
    <2>3. Left(task[t], tagIndex, behind[t]) /\ task[t].tag # None
            => tagIndex[task[t].tag] \subseteq task[t].todo \cup behind[t]
      BY DEF Left, Sweeping, Swept
    <2>4. UNCHANGED <<kept, books, skewed>>
      BY <1>1 DEF Swept
    <2> QED BY <1>1, <2>1, <2>2, <2>3, <2>4, NextOfBooks
  <1>2. CASE ~(NextOf(t, task[t].todo) /\ UNCHANGED <<books, skewed>>)
    BY <1>2, SweepEnds DEF Swept
  <1> QED BY <1>1, <1>2

\* A restored entry goes where there was none, or it is lost at once.
LEMMA RestoreBooks ==
  ASSUME TypeInv, BooksInv, NEW t \in Tasks, NEW k \in Keys, NEW e \in Responses,
         Restore(t, k, e)
  PROVE  BooksInv'
  <1> DEFINE o == [NoTask EXCEPT !.at = "restored", !.key = k, !.new = e]
  <1>1. o.at = "restored" /\ o.key = k /\ o.new = e
    BY DEF NoTask
  <1>2. /\ task[t] = NoTask /\ Goes(t, o)
        /\ UNCHANGED <<lru, tagIndex, entries, bytes, late, skewed>>
        /\ storage' \in {storage, [storage EXCEPT ![k] = e]}
    BY DEF Restore, Holds, books, kept
  <1> HIDE DEF o
  <1>3. storage \in Holdings /\ Idle(task[t]) /\ task[t].at = "idle"
    <2>1. storage \in Holdings
      BY DEF TypeInv, TypeOK, Holdings
    <2>2. task[t].at = "idle"
      BY <1>2, EndedAt
    <2> QED BY <2>1, <2>2, IdleAt
  <1>4. /\ \A u \in Tasks \ {t} : Inside(u) => behind'[u] = behind[u] \cup {k}
        /\ behind'[t] = IF storage[k] # None \/ storage' = storage THEN {k} ELSE {}
    BY DEF Restore
  <1>5. ~Counted(o) /\ Shape(o) /\ Left(o, tagIndex', behind'[t])
    BY <1>1 DEF Counted, Shape, Left, Sweeping
  <1>6. Knows(o, storage', lru', behind'[t])
    BY <1>1, <1>2, <1>3, <1>4 DEF Knows, Replacing, Evicting, Holdings
  <1>7. \A j \in Keys : (Adds(o, j) <=> j = k) /\ ~Takes(o, j) /\ ~Drops(o, j)
    BY <1>1 DEF Adds, Takes, Drops
  <1>8. Frame(t, o, {k})
    <2>1. ASSUME NEW j \in Keys
          PROVE  ~Owes(task[t], j) /\ (j # k => SameStand(o, task[t], j) /\ ~Owes(o, j))
      BY <1>1, <1>3, <1>7 DEF SameStand, Idle, Owes, Takes, Drops
    <2>2. Once(lru') /\ \A j \in Keys \ {k} : storage'[j] = storage[j]
      BY <1>2, <1>3 DEF BooksInv, Holdings
    <2> QED BY <1>1, <1>2, <1>3, <1>4, <1>5, <1>6, <2>1, <2>2 DEF Frame
  <1>9. Once(lru') /\ Shaped' /\ Known' /\ Sole'
    BY <1>8, FrameKeeps
  <1>10. ASSUME ~skewed', ~Doomed', ~Straight' PROVE FALSE
    <2>1. PICK B : Ready(t, {k}, B)
      BY <1>8, <1>10, FrameReady
    <2>2. B \in Holdings /\ Tell(entries', bytes', tagIndex', B)
      BY <1>2, <2>1 DEF Ready, Agree
    <2>3. Owes(o, k) /\ task'[t] = o
      BY <1>2, <1>7, GoesAt DEF Owes
    <2>4. storage[k] = None
      BY <1>4, <1>10, <2>3 DEF Doomed
    <2>5. Own(o, k, B[k], storage', lru')
      <3>1. B[k] = None
        BY <1>3, <2>1, <2>4 DEF Ready, Own, Idle, Owes, Takes, Drops
      <3> QED BY <1>7, <2>3, <3>1 DEF Own
    <2>6. Handled(B)'
      BY <1>8, <2>1, <2>5, FrameHandled
    <2>7. Roomy(t, B)'
      BY <1>5, <2>3 DEF Roomy
    <2>8. \A u \in Tasks \ {t} : Counted(task[u]) =>
             \A j \in In(B) \ late'[u] : /\ B[j] = B[j] /\ j \notin late[u]
                                         /\ Drops(task[t], j) => Drops(o, j)
      BY <1>2, <1>3 DEF In, Idle, Owes
    <2>9. Straight'
      BY <1>5, <1>8, <2>1, <2>2, <2>6, <2>7, <2>8, FrameStraight
    <2> QED BY <1>10, <2>9
  <1> QED BY <1>9, <1>10 DEF BooksInv

----------------------------------------------------------------------------
\* clear() puts every other operation behind on every key.
LEMMA AllBehind ==
  ASSUME TypeInv, BooksInv, NEW t \in Tasks, NEW o, Goes(t, o), Once(lru'), Shape(o),
         \A u \in Tasks \ {t} : Inside(u) => behind'[u] = behind[u] \cup Keys,
         Inside(t)' => Knows(o, storage', lru', behind'[t])
  PROVE  Once(lru') /\ Shaped' /\ Known' /\ Sole'
  <1>1. task'[t] = o /\ \A u \in Tasks \ {t} : task'[u] = task[u]
    BY GoesAt
  <1>2. ASSUME NEW u \in Tasks \ {t}, Inside(u)
        PROVE  Knows(task[u], storage', lru', behind'[u])
    <2>1. Knows(task[u], storage, lru, behind[u]) /\ Keys \subseteq behind'[u] /\ Fit(task[u])
      BY <1>2 DEF BooksInv, Known, TypeInv, Equipped
    <2>2. task[u].at \in {"got", "found", "previous", "got304", "room", "refused", "stored",
                          "restored"} \/ Replacing(task[u]) => task[u].key \in Keys
      BY <2>1 DEF Fit, Keyed, Replacing
    <2>3. task[u].at \in Taking => task[u].victim \in Keys
      BY <2>1 DEF Fit
    <2> QED BY <2>1, <2>2, <2>3 DEF Knows, Taking
  <1>3. ASSUME NEW u \in Tasks \ {t} PROVE Inside(u)' <=> Inside(u)
    BY <1>1 DEF Inside
  <1>4. Known'
    BY <1>1, <1>2, <1>3 DEF Known
  <1>5. ASSUME NEW u \in Tasks \ {t}, NEW k \in Keys, Owes(task[u], k) PROVE k \in behind'[u]
    BY <1>5, OwesInside
  <1>6. Sole'
    BY <1>1, <1>5 DEF Sole
  <1>7. Shaped'
    BY <1>1 DEF BooksInv, Shaped
  <1> QED BY <1>4, <1>6, <1>7

LEMMA ClearBooks ==
  ASSUME TypeInv, BooksInv, NEW t \in Tasks, Clear(t)
  PROVE  BooksInv'
  <1> DEFINE o == [NoTask EXCEPT !.at = "cleared"]
  <1>1. o.at = "cleared" /\ Goes(t, o)
    BY DEF NoTask, Clear
  <1> HIDE DEF o
  <1>2. /\ storage' = [k \in Keys |-> None] /\ lru' = lru
        /\ \A u \in Tasks \ {t} : Inside(u) => behind'[u] = behind[u] \cup Keys
    BY DEF Clear, Overtakes, books
  <1>3. Knows(o, storage', lru', behind'[t]) /\ Shape(o) /\ Once(lru')
    BY <1>1, <1>2 DEF Knows, Replacing, Evicting, Shape, BooksInv
  <1>4. Once(lru') /\ Shaped' /\ Known' /\ Sole'
    BY <1>1, <1>2, <1>3, AllBehind
  <1>5. task'[t] = o
    BY <1>1, GoesAt
  <1>6. Straight'
    BY <1>1, <1>5 DEF Straight
  <1> QED BY <1>4, <1>6 DEF BooksInv

LEMMA ClearedBooks ==
  ASSUME TypeInv, BooksInv, NEW t \in Tasks, Cleared(t)
  PROVE  BooksInv'
  <1>1. /\ Goes(t, NoTask) /\ task[t].at = "cleared" /\ UNCHANGED <<storage, late>>
        /\ lru' = <<>> /\ entries' = 0 /\ bytes' = 0 /\ tagIndex' = [g \in Tags |-> {}]
        /\ \A u \in Tasks \ {t} : Inside(u) => behind'[u] = behind[u] \cup Keys
        /\ skewed' = (behind[t] # {})
    BY DEF Cleared, Overtakes, kept
  <1>2. task'[t] = NoTask /\ ~Inside(t)' /\ \A u \in Tasks \ {t} : task'[u] = task[u]
    BY <1>1, GoesAt, EndedAt
  <1>3. Once(lru') /\ Shape(NoTask) /\ ~Counted(NoTask) /\ Idle(NoTask)
    BY <1>1, EndedAt, OutsideAt DEF Once
  <1>4. Once(lru') /\ Shaped' /\ Known' /\ Sole'
    BY <1>1, <1>2, <1>3, AllBehind
  <1>5. ASSUME ~skewed', ~Doomed' PROVE Straight'
    <2>1. \A k \in Keys : storage[k] = None
      BY <1>1, <1>5 DEF BooksInv, Known, Knows, Inside
    <2>2. ASSUME NEW u \in Tasks, NEW k \in Keys PROVE ~Owes(task'[u], k)
      <3>1. CASE u = t
        BY <1>2, <1>3, <3>1 DEF Idle
      <3>2. CASE u # t
        <4>1. SUFFICES ASSUME Owes(task[u], k) PROVE FALSE
          BY <1>2, <3>2
        <4>2. behind'[u] = behind[u] \cup Keys
          BY <1>1, <3>2, <4>1, OwesInside
        <4> QED BY <1>2, <1>5, <3>2, <4>1, <4>2 DEF Doomed
      <3> QED BY <3>1, <3>2
    <2>3. storage \in Holdings /\ Tell(entries', bytes', tagIndex', storage)
      BY <1>1, <2>1, TellNothing DEF TypeInv, TypeOK, Holdings
    <2>4. Handled(storage)'
      BY <1>1, <2>1, <2>2 DEF Handled, Own, Owes, Takes, Drops
    <2>5. ASSUME NEW u \in Tasks PROVE Roomy(u, storage)'
      <3>1. SUFFICES ASSUME Counted(task'[u]) PROVE FALSE
        BY DEF Roomy
      <3>2. u # t
        BY <1>2, <1>3, <3>1
      <3>3. Counted(task[u]) /\ Fit(task[u]) /\ task'[u] = task[u]
        BY <1>2, <3>1, <3>2 DEF TypeInv, Equipped
      <3>4. Adds(task[u], task[u].key) /\ task[u].key \in Keys
        BY <3>3 DEF Counted, Adds, Replacing, Evicting, Fit, Keyed
      <3> QED BY <2>2, <3>3, <3>4 DEF Owes
    <2>6. ASSUME NEW u \in Tasks PROVE Left(task'[u], tagIndex', behind'[u])
      <3>1. CASE u = t
        BY <1>2, <3>1, OutsideAt, EndedAt
      <3>2. CASE u # t
        <4>1. task'[u] = task[u] /\ task[u].tag \in Tags \cup {None}
          BY <1>2, <3>2 DEF TypeInv, TypeOK, Task, Maybe
        <4> QED BY <1>1, <4>1 DEF Left
      <3> QED BY <3>1, <3>2
    <2>7. Agree(storage)'
      BY <1>1, <2>3, <2>4, <2>5 DEF Agree
    <2>8. \E B \in Holdings : Agree(B)'
      BY <1>1, <2>3, <2>7
    <2> QED BY <2>6, <2>8 DEF Straight
  <1> QED BY <1>4, <1>5 DEF BooksInv

----------------------------------------------------------------------------
\* Time passes, for an entry and for the copies of it that nobody has looked at, or nothing
\* happens.
LEMMA AgedBooks ==
  ASSUME TypeInv, BooksInv, NEW age,
         \A u \in Tasks : task'[u] \in {task[u], [task[u] EXCEPT !.phase = age]},
         UNCHANGED <<storage, books, history>>
  PROVE  BooksInv'
  <1>1. ASSUME NEW u \in Tasks
        PROVE  /\ task'[u].at = task[u].at /\ task'[u].key = task[u].key
               /\ task'[u].new = task[u].new /\ task'[u].held = task[u].held
               /\ task'[u].victim = task[u].victim /\ task'[u].last = task[u].last
               /\ task'[u].then = task[u].then /\ task'[u].todo = task[u].todo
               /\ task'[u].tag = task[u].tag
    BY DEF TypeInv, TypeOK, Task
  <1>2. UNCHANGED <<storage, lru, tagIndex, entries, bytes, late, behind, skewed>>
    BY DEF books, history
  <1>3. ASSUME NEW u \in Tasks
        PROVE  /\ \A k : /\ Adds(task'[u], k) <=> Adds(task[u], k)
                         /\ Drops(task'[u], k) <=> Drops(task[u], k)
                         /\ Takes(task'[u], k) <=> Takes(task[u], k)
               /\ Counted(task'[u]) <=> Counted(task[u])
               /\ Inside(u)' <=> Inside(u)
               /\ Shape(task[u]) => Shape(task'[u])
               /\ Left(task[u], tagIndex, behind[u]) => Left(task'[u], tagIndex, behind[u])
    BY <1>1 DEF Adds, Drops, Takes, Counted, Inside, Shape, Left, Sweeping, Replacing, Evicting
  <1>4. ASSUME NEW u \in Tasks, NEW k PROVE Owes(task'[u], k) <=> Owes(task[u], k)
    BY <1>1, <1>3 DEF Owes
  <1>5. ASSUME NEW u \in Tasks, Knows(task[u], storage, lru, behind[u])
        PROVE  Knows(task'[u], storage, lru, behind[u])
    BY <1>1, <1>5 DEF Knows, Replacing, Evicting
  <1>6. Once(lru') /\ Shaped' /\ Known' /\ Sole'
    BY <1>2, <1>3, <1>4, <1>5 DEF BooksInv, Shaped, Known, Sole
  <1>7. ASSUME Doomed PROVE Doomed'
    BY <1>2, <1>4, <1>7 DEF Doomed
  <1>8. ASSUME NEW B \in Holdings, Agree(B) PROVE Agree(B)'
    <2>1. ASSUME NEW u \in Tasks, NEW k \in Keys, Own(task[u], k, B[k], storage, lru)
          PROVE  Own(task'[u], k, B[k], storage, lru)
      BY <1>1, <1>3, <1>4, <2>1 DEF Own
    <2>2. Handled(B)'
      BY <1>2, <1>4, <1>8, <2>1 DEF Agree, Handled
    <2>3. ASSUME NEW S \in SUBSET Keys, Dropped(S)
          PROVE  \A k \in S : \E u \in Tasks : Drops(task'[u], k)
      BY <1>3, <2>3 DEF Dropped
    <2>4. ASSUME NEW u \in Tasks, NEW r, Fills(task[u], r, Weight(B))
          PROVE  Fills(task'[u], r, Weight(B))
      BY <1>1, <2>4 DEF Fills
    <2>5. ASSUME NEW u \in Tasks, Counted(task[u])
          PROVE  \/ /\ \A k \in In(B) \ late[u] : \E w \in Tasks : Drops(task'[w], k)
                    /\ task'[u].at \in {"room", "stored"}
                 \/ Fills(task'[u], In(B) \ late[u], Weight(B))
      <3>1. Roomy(u, B) /\ In(B) \ late[u] \in SUBSET Keys
        BY <1>8 DEF Agree, In
      <3> QED BY <1>1, <2>3, <2>4, <2>5, <3>1 DEF Roomy
    <2>6. \A u \in Tasks : Roomy(u, B)'
      BY <1>2, <1>3, <2>5 DEF Roomy, Dropped
    <2> QED BY <1>2, <1>8, <2>2, <2>6 DEF Agree
  <1>9. ASSUME Straight PROVE Straight'
    <2>1. CASE \E u \in Tasks : task[u].at = "cleared"
      BY <1>1, <2>1 DEF Straight
    <2>2. CASE /\ \A u \in Tasks : Left(task[u], tagIndex, behind[u])
               /\ \E B \in Holdings : Agree(B)
      <3>1. \A u \in Tasks : Left(task'[u], tagIndex', behind'[u])
        BY <1>2, <1>3, <2>2
      <3>2. \E B \in Holdings : Agree(B)'
        BY <1>8, <2>2
      <3> QED BY <3>1, <3>2 DEF Straight
    <2> QED BY <1>9, <2>1, <2>2 DEF Straight
  <1> QED BY <1>2, <1>6, <1>7, <1>9 DEF BooksInv

LEMMA AgeBooks ==
  ASSUME TypeInv, BooksInv, NEW k \in Keys, NEW age \in Phases, Age(k, age)
  PROVE  BooksInv'
  BY AgedBooks DEF Age

LEMMA StutterBooks ==
  ASSUME TypeInv, BooksInv, UNCHANGED vars
  PROVE  BooksInv'
  BY AgedBooks DEF vars, kept

----------------------------------------------------------------------------
(* The theorems.                                                           *)

LEMMA StepBooks ==
  ASSUME TypeInv, BooksInv, Next
  PROVE  BooksInv'
  <1>0. entries' \in Nat /\ bytes' \in Nat
    BY StepType DEF TypeInv, TypeOK
  <1>1. ASSUME NEW t \in Tasks, Calls(t)
        PROVE  BooksInv'
    BY <1>1, CallsBooks, RestoreBooks, ClearBooks DEF Calls
  <1>2. ASSUME NEW t \in Tasks, Continues(t)
        PROVE  BooksInv'
    <2>1. CASE Found(t)
      BY <2>1, FoundBooks, TakesBooks
    <2>2. CASE ~Found(t)
      BY <1>0, <1>2, <2>2, OutsideBooks, TouchBooks, TakesBooks, SupplantBooks, EvictedBooks,
         StoreBooks, StoredBooks, NotModifiedBooks, RenewBooks, ListedBooks, SweptBooks,
         StrikeBooks, ClearedBooks DEF Continues
    <2> QED BY <2>1, <2>2
  <1>3. ASSUME NEW t \in Tasks, BodyEnds(t)
        PROVE  BooksInv'
    BY <1>3, OutsideBooks, BodyReadBooks DEF BodyEnds
  <1> QED BY <1>1, <1>2, <1>3, AgeBooks DEF Next

LEMMA InitBooks == Init => BooksInv
  <1> SUFFICES ASSUME Init PROVE BooksInv
    OBVIOUS
  <1>1. ASSUME NEW t \in Tasks
        PROVE  /\ task[t] = NoTask /\ ~Inside(t) /\ Idle(NoTask) /\ ~Counted(NoTask)
               /\ Shape(NoTask) /\ Left(NoTask, tagIndex, behind[t])
    BY EndedAt, OutsideAt DEF Init, Inside
  <1>2. storage \in Holdings /\ \A k \in Keys : storage[k] = None
    BY DEF Init, Holdings, Maybe
  <1>3. Tell(entries, bytes, tagIndex, storage)
    BY <1>2, TellNothing DEF Init
  <1>4. Handled(storage)
    BY <1>1, <1>2 DEF Handled, Own, Idle, Owes, Takes, Drops
  <1>5. Agree(storage)
    BY <1>1, <1>3, <1>4 DEF Agree, Roomy
  <1>6. Straight
    BY <1>1, <1>2, <1>5 DEF Straight
  <1>7. Once(lru) /\ Shaped /\ Known /\ Sole
    BY <1>1 DEF Init, Once, Shaped, Known, Sole, Idle
  <1> QED BY <1>6, <1>7 DEF BooksInv

LEMMA BooksInvCorrect == Spec => []BooksInv
  <1>1. TypeInv /\ BooksInv /\ [Next]_vars => BooksInv'
    BY StepBooks, StutterBooks
  <1> QED BY <1>1, InitBooks, TypeInvCorrect, PTL DEF Spec

\* Where no operation owes the books anything, they tell of what the storage holds.
LEMMA BooksTell ==
  ASSUME TypeInv, BooksInv
  PROVE  Accounted
  <1> SUFFICES ASSUME ~skewed, Quiet
               PROVE  /\ entries = Cardinality(InStorage)
                      /\ bytes = SumFunction([k \in InStorage |-> storage[k].size])
                      /\ InStorage \subseteq Range(lru)
                      /\ \A g \in Tags : tagIndex[g] = {k \in InStorage : g \in storage[k].tags}
    BY DEF Accounted, BooksExact, IndexExact
  <1>1. \A t \in Tasks, k \in Keys : ~Owes(task[t], k) /\ ~Takes(task[t], k) /\ ~Adds(task[t], k)
    BY DEF Quiet, Owes, Adds, Drops, Takes, Replacing, Evicting
  <1>2. ~Doomed /\ \A t \in Tasks : task[t].at # "cleared"
    BY <1>1 DEF Doomed, Quiet
  <1>3. PICK B \in Holdings : Agree(B)
    BY <1>2 DEF BooksInv, Straight
  <1>4. InStorage = In(storage) /\ storage \in Holdings
    BY DEF InStorage, In, TypeInv, TypeOK, Holdings
  <1>5. PICK t \in Tasks : TRUE
    OBVIOUS
  <1>6. \A k \in Keys : Own(task[t], k, B[k], storage, lru)
    BY <1>1, <1>3 DEF Agree, Handled
  <1>7. B = storage
    BY <1>1, <1>4, <1>6 DEF Own, Holdings
  <1>8. InStorage \subseteq Range(lru)
    BY <1>1, <1>6 DEF Own, InStorage
  <1>9. Tell(entries, bytes, tagIndex, storage)
    BY <1>3, <1>7 DEF Agree
  <1> DEFINE f == [k \in InStorage |-> storage[k].size]
  <1>10. \A k \in In(storage) : Weight(storage)[k] = f[k]
    BY <1>4 DEF Weight, In
  <1>11. SumFunctionOnSet(Weight(storage), In(storage)) = SumFunctionOnSet(f, In(storage))
    BY <1>4, <1>10, HeldFinite, SumSame
  <1>12. SumFunction(f) = SumFunctionOnSet(f, In(storage))
    BY <1>4 DEF SumFunction, SumFunctionOnSet, FoldFunction
  <1> QED BY <1>4, <1>8, <1>9, <1>11, <1>12 DEF Tell

\* Whatever the operations on other keys do in between, for any number of keys, tasks, tags and
\* calls: unless two operations have raced for one key, both past the same look at it, or a
\* restore has gone over an entry or was refused, then whenever none is between two steps of its
\* bookkeeping the gauges count exactly the entries the storage holds and their sizes, each of
\* them is in the LRU list, and the tag index names exactly those that bear each tag.
THEOREM AccountedCorrect == Spec => []Accounted
  BY BooksTell, BooksInvCorrect, TypeInvCorrect, PTL

\* A set() has made room, and the room is still there but for what others have added.
LEMMA StoredWithin ==
  ASSUME TypeInv, BooksInv, NEW t \in Tasks, Stored(t), ~skewed', Quiet'
  PROVE  \/ InStorage \ late[t] \subseteq {task[t].key}
         \/ /\ Cardinality(InStorage \ late[t]) <= MaxEntries
            /\ SumFunction([k \in InStorage \ late[t] |-> storage[k].size]) <= MaxSize
  <1> DEFINE k == task[t].key
             e == task[t].new
             mine == InStorage \ late[t]
             f == [j \in mine |-> storage[j].size]
  <1>1. /\ task[t].at = "stored" /\ k \in Keys /\ e \in Responses /\ Inside(t)
        /\ storage \in Holdings
    BY DEF Stored, TypeInv, TypeOK, Equipped, Fit, Keyed, Storing, Inside, Holdings
  <1>2. ~skewed /\ k \notin behind[t]
    BY DEF Stored, Writes
  <1>3. ASSUME NEW u \in Tasks \ {t}, NEW j
        PROVE  ~Owes(task[u], j) /\ ~Drops(task[u], j) /\ task[u].at # "cleared"
    <2>1. task'[u] = task[u]
      BY DEF Stored, Goes, TypeInv, TypeOK
    <2>2. task'[u].at \notin {"evicting", "deleting", "struck", "room", "stored", "refused",
                              "cleared", "restored"}
      BY DEF Quiet
    <2> QED BY <2>1, <2>2 DEF Owes, Adds, Drops, Replacing, Evicting
  <1>4. \A j : /\ Adds(task[t], j) <=> j = k
               /\ ~Takes(task[t], j) /\ ~Drops(task[t], j)
               /\ Owes(task[t], j) <=> j = k
    BY <1>1 DEF Adds, Takes, Drops, Owes
  <1>5. ~Doomed /\ \A u \in Tasks : task[u].at # "cleared"
    BY <1>1, <1>2, <1>3, <1>4 DEF Doomed
  <1>6. PICK B \in Holdings : Agree(B)
    BY <1>2, <1>5 DEF BooksInv, Straight
  <1>7. \A j \in Keys : Own(task[t], j, B[j], storage, lru)
    BY <1>3, <1>6 DEF Agree, Handled
  <1>8. \A j \in Keys : B[j] = IF j = k THEN None ELSE storage[j]
    BY <1>4, <1>7 DEF Own
  <1>9. storage[k] = e
    BY <1>1, <1>2 DEF BooksInv, Known, Knows
  <1> DEFINE r == In(B) \ late[t]
  <1>10. r = mine \ {k} /\ mine \in SUBSET Keys
    BY <1>8 DEF In, InStorage
  <1>11. Roomy(t, B) /\ Counted(task[t])
    BY <1>1, <1>6 DEF Agree, Counted
  <1>12. CASE Dropped(r)
    <2>1. r = {}
      BY <1>3, <1>4, <1>12 DEF Dropped
    <2> QED BY <1>10, <2>1
  <1>13. CASE Fills(task[t], r, Weight(B))
    <2>1. /\ IsFiniteSet(mine) /\ IsFiniteSet(r) /\ r \in SUBSET Keys
          /\ \A j \in mine : storage[j] \in Responses
      BY <1>1, <1>10, FS_Subset DEF InStorage, Holdings, Maybe
    <2>2. \A j \in mine : f[j] \in Nat
      BY <2>1
    <2>3. \A j \in r : Weight(B)[j] = f[j]
      BY <1>8, <1>10 DEF Weight, In
    <2> HIDE DEF f, r
    <2>4. SumFunctionOnSet(f, r) = SumFunctionOnSet(Weight(B), r)
      BY <2>1, <2>3, SumSame
    <2>5. SumFunctionOnSet(f, r) \in Nat /\ Cardinality(r) \in Nat
      BY <1>10, <2>1, <2>2, SumNat, FS_CardinalityType
    <2>6. Cardinality(r) < MaxEntries /\ SumFunctionOnSet(f, r) + e.size <= MaxSize
      BY <1>1, <1>13, <2>4 DEF Fills
    <2>7. SumFunction(f) = SumFunctionOnSet(f, mine)
      BY DEF SumFunction, SumFunctionOnSet, FoldFunction, f
    <2>8. e.size \in Nat
      BY <1>1
    <2>9. CASE k \in mine
      <3>1. mine = r \cup {k} /\ k \notin r
        BY <1>10, <2>9
      <3>2. Cardinality(mine) = Cardinality(r) + 1
        BY <2>1, <3>1, FS_AddElement
      <3>3. SumFunctionOnSet(f, mine) = f[k] + SumFunctionOnSet(f, mine \ {k})
        BY <2>1, <2>2, <2>9, SumAny
      <3>4. f[k] = e.size
        BY <1>9, <2>9 DEF f
      <3>5. Cardinality(mine) <= MaxEntries
        BY <2>5, <2>6, <3>2
      <3>6. SumFunction(f) <= MaxSize
        BY <1>10, <2>5, <2>6, <2>7, <2>8, <3>3, <3>4
      <3> QED BY <3>5, <3>6 DEF f
    <2>10. CASE k \notin mine
      <3>1. mine = r
        BY <1>10, <2>10
      <3>2. Cardinality(mine) = Cardinality(r) /\ SumFunction(f) = SumFunctionOnSet(f, r)
        BY <2>7, <3>1, Zenon
      <3> HIDE DEF mine
      <3>3. Cardinality(mine) <= MaxEntries /\ SumFunction(f) <= MaxSize
        BY <2>5, <2>6, <2>8, <3>2
      <3> QED BY <3>3 DEF f, mine
    <2> QED BY <2>9, <2>10
  <1> QED BY <1>11, <1>12, <1>13 DEF Roomy

\* _ensureCapacity() suffices for each set(), whatever overlaps with it: under the same condition,
\* when its entry is booked the storage holds maxEntries entries and maxSizeBytes bytes at most
\* but for what others have added since it counted the entries, or that entry alone.
THEOREM SetWithinCapacityCorrect == Spec => SetWithinCapacity
  <1>1. ASSUME TypeInv, BooksInv
        PROVE  [\A t \in Tasks :
                  Stored(t) /\ ~skewed' /\ Quiet' =>
                    LET mine == InStorage \ late[t]
                    IN \/ mine \subseteq {task[t].key}
                       \/ /\ Cardinality(mine) <= MaxEntries
                          /\ SumFunction([k \in mine |-> storage[k].size]) <= MaxSize]_vars
    BY <1>1, StoredWithin
  <1> QED BY <1>1, BooksInvCorrect, TypeInvCorrect, PTL DEF SetWithinCapacity
=============================================================================
