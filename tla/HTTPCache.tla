----------------------------- MODULE HTTPCache -----------------------------
(***************************************************************************)
(* The response cache (class HTTPCache) and the client's background        *)
(* revalidation of what it serves stale (HttpClient._executeOnce).         *)
(*                                                                         *)
(* The storage adapter is asynchronous, so an operation is a chain of      *)
(* segments, each ending with the storage call it awaits: the call takes   *)
(* effect at once, and any other operation may run before its answer is    *)
(* used.  Beside the storage the cache keeps an LRU list, a tag index, two *)
(* gauges and the marks of the revalidations in flight, all in memory: the *)
(* hard part is to keep these in step with the storage.                    *)
(*                                                                         *)
(* Time is abstracted to the phase of an entry: fresh, stale (within a     *)
(* stale window, or to be revalidated in any case) or dead.  Whether a     *)
(* request matches the Vary key of an entry is a choice.                   *)
(***************************************************************************)
EXTENDS Naturals, Sequences, FiniteSets, SequencesExt

CONSTANTS Keys,        \* cache keys
          Tags,        \* tags of entries
          Responses,   \* what may be stored: the size and the tags of an entry
          Tasks,       \* operations in progress, and background revalidations
          MaxEntries, MaxSize,  \* maxEntries, maxSizeBytes
          MaxCalls,    \* bound: operations begun
          None         \* nothing: no entry, no key, no tag

ASSUME CacheAssumption ==
  /\ IsFiniteSet(Keys) /\ IsFiniteSet(Tasks) /\ Tasks # {}
  /\ Responses \subseteq [size : Nat \ {0}, tags : SUBSET Tags]
  /\ MaxEntries \in Nat \ {0} /\ MaxSize \in Nat \ {0}
  /\ MaxCalls \in Nat
  /\ None \notin Keys \cup Tags \cup Responses

Phases == {"fresh", "stale", "dead"}
Maybe(S) == S \cup {None}

VARIABLES storage,    \* what the adapter holds
          phase,      \* how old it is; "dead" where it holds nothing
          lru,        \* LRUTracker, the most recently used key first
          tagIndex,   \* tag -> keys
          entries,    \* stats.totalEntries
          bytes,      \* stats.totalSizeBytes
          marked,     \* swrInFlight
          task,       \* where each operation stands, and what it holds
          calls,      \* operations begun, for the bound
          behind,     \* history: keys that others have written since an operation read them
          skewed,     \* history: two operations have raced for a key (see Writes)
          late,       \* history: what others have added since an operation's count of the entries
          forgotten   \* history: keys whose revalidation a clear() has forgotten
books   == <<lru, tagIndex, entries, bytes, late>>
kept    == <<storage, phase>>
history == <<behind, skewed>>
vars    == <<kept, books, marked, task, calls, history, forgotten>>

\* What an operation awaits.
Places ==
  {"idle", "got", "mark",                                        \* get
   "origin", "body", "got304", "renewed", "unmark",              \* revalidation
   "previous", "evicting", "deleting", "struck", "room", "stored", "refused",  \* set
   "found", "listed", "swept", "cleared", "restored"}            \* the others

Task == [at : Places,
         bg : BOOLEAN,            \* it is a background revalidation
         key : Maybe(Keys), new : Maybe(Responses),
         phase : Phases,          \* how old the entry is that get() has read
         held : Maybe(Responses), \* what storage.get(key) has returned
         victim : Maybe(Keys), last : Maybe(Responses),  \* the arguments of _delete
         then : {"end", "count", "size", "sweep"},      \* and who called it
         todo : SUBSET Keys, tag : Maybe(Tags)]         \* an invalidation's

NoTask == [at |-> "idle", bg |-> FALSE, key |-> None, new |-> None, phase |-> "dead", held |-> None,
           victim |-> None, last |-> None, then |-> "end", todo |-> {}, tag |-> None]

\* Types of the variables.
TypeOK ==
  /\ storage \in [Keys -> Maybe(Responses)]
  /\ phase \in [Keys -> Phases]
  /\ lru \in Seq(Keys)
  /\ tagIndex \in [Tags -> SUBSET Keys]
  /\ entries \in Nat /\ bytes \in Nat
  /\ marked \subseteq Keys
  /\ task \in [Tasks -> Task]
  /\ calls \in 0..MaxCalls
  /\ behind \in [Tasks -> SUBSET Keys]
  /\ skewed \in BOOLEAN
  /\ late \in [Tasks -> SUBSET Keys]
  /\ forgotten \subseteq Keys

Init ==
  /\ storage = [k \in Keys |-> None]
  /\ phase = [k \in Keys |-> "dead"]
  /\ lru = <<>>
  /\ tagIndex = [g \in Tags |-> {}]
  /\ entries = 0
  /\ bytes = 0
  /\ marked = {}
  /\ task = [t \in Tasks |-> NoTask]
  /\ calls = 0
  /\ behind = [t \in Tasks |-> {}]
  /\ skewed = FALSE
  /\ late = [t \in Tasks |-> {}]
  /\ forgotten = {}

----------------------------------------------------------------------------
\* The state of the cache.

Revalidating(k) == {t \in Tasks : task[t].bg /\ task[t].key = k}

\* An operation inside the cache, as opposed to one that awaits the network.
Inside(t) == task[t].at \notin {"idle", "mark", "origin", "body", "unmark"}

\* No operation has changed some of the books and awaits before the rest.
Quiet == \A t \in Tasks :
  task[t].at \notin {"evicting", "deleting", "struck", "room", "stored", "refused",
                    "cleared", "restored"}

Goes(t, new) == task' = [task EXCEPT ![t] = new]

\* An operation returns: to its caller, or to the background's finally block.
Ended(t) == IF task[t].bg
            THEN [NoTask EXCEPT !.at = "unmark", !.bg = TRUE, !.key = task[t].key]
            ELSE NoTask

\* A segment of t writes the keys of K, which puts every other operation inside the cache
\* behind on them, and it looks those of S up anew.
Overtakes(t, K, S) ==
  behind' = [u \in Tasks |-> IF u = t THEN behind[t] \ S
                             ELSE IF Inside(u) THEN behind[u] \cup K ELSE behind[u]]
\* A segment that changes the storage or the books of the keys of K; if t is behind on one of
\* them, it has raced another operation for that key.
Writes(t, K) == Overtakes(t, K, {}) /\ skewed' = (skewed \/ behind[t] \cap K # {})
\* The first segment of an operation that only reads.
Begins(t) == behind' = [behind EXCEPT ![t] = {}] /\ UNCHANGED skewed

\* LRUTracker.remove: a list has each key once.
Without(s, k) == IF k \in Range(s) THEN RemoveAt(s, CHOOSE i \in DOMAIN s : s[i] = k) ELSE s
Touched(k)    == <<k>> \o Without(lru, k)              \* LRUTracker.touch
Less(n, m)    == IF m < n THEN n - m ELSE 0            \* Math.max(0, n - m)

Index(k, S)   == [g \in Tags |-> IF g \in S THEN tagIndex[g] \cup {k} ELSE tagIndex[g]]
Unindex(k, S) == [g \in Tags |-> IF g \in S THEN tagIndex[g] \ {k} ELSE tagIndex[g]]

\* A set() has found few enough entries: it is past the first loop of _ensureCapacity().
Counted(o) == \/ o.at \in {"room", "stored"}
              \/ o.at \in {"evicting", "deleting", "struck"} /\ o.then = "size"

\* An entry enters the books.
Enrol(t, k, e) ==
  /\ lru' = Touched(k)
  /\ entries' = entries + 1
  /\ bytes' = bytes + e.size
  /\ tagIndex' = Index(k, e.tags)
  /\ late' = [u \in Tasks |-> IF u # t /\ Counted(task[u]) THEN late[u] \cup {k} ELSE late[u]]

----------------------------------------------------------------------------
\* _delete(key, entry): removes the key, then takes the entry off the books.

\* The adapter's set, and delete (e = None).  An entry that is stored stale has
\* become so at once.
Holds(k, e) ==
  /\ storage' = [storage EXCEPT ![k] = e]
  /\ phase' = [phase EXCEPT ![k] = IF e = None THEN "dead" ELSE "fresh"]

TakeOut(t, k, e, then) ==
  /\ Holds(k, None)
  /\ Goes(t, [task[t] EXCEPT !.at = "deleting", !.victim = k, !.last = e, !.then = then])
  /\ Writes(t, {k})
  /\ UNCHANGED <<books, marked, forgotten>>

\* A key that had no entry is taken out of every tag.
Strike(t) ==
  LET k == task[t].victim
      e == task[t].last
  IN /\ task[t].at = "deleting"
     /\ lru' = Without(lru, k)
     /\ IF e # None
        THEN /\ entries' = Less(entries, 1)
             /\ bytes' = Less(bytes, e.size)
             /\ tagIndex' = Unindex(k, e.tags)
        ELSE tagIndex' = Unindex(k, Tags) /\ UNCHANGED <<entries, bytes>>
     /\ Goes(t, IF task[t].then = "end" THEN Ended(t)
                                        ELSE [task[t] EXCEPT !.at = "struck"])
     /\ Writes(t, {k})
     /\ UNCHANGED <<kept, late, marked, forgotten>>

----------------------------------------------------------------------------
\* get(), and what the client does with a stale answer.

Get(t, k) ==
  /\ task[t] = NoTask
  /\ Goes(t, [NoTask EXCEPT !.at = "got", !.key = k, !.phase = phase[k],
                            !.held = storage[k]])
  /\ Begins(t)
  /\ UNCHANGED <<kept, books, marked, forgotten>>

Hit(t, age) == task[t].at = "got" /\ task[t].held # None /\ task[t].phase = age

\* No entry, or one whose Vary key is not this request's.
Miss(t) ==
  /\ task[t].at = "got"
  /\ Goes(t, NoTask)
  /\ UNCHANGED <<kept, books, marked, history, forgotten>>

FreshHit(t) ==
  /\ Hit(t, "fresh")
  /\ lru' = Touched(task[t].key)
  /\ Goes(t, NoTask)
  /\ Overtakes(t, {task[t].key}, {}) /\ UNCHANGED skewed
  /\ UNCHANGED <<kept, tagIndex, entries, bytes, late, marked, forgotten>>

\* Served stale.  An entry within its stale-if-error window only is not touched.
StaleHit(t) ==
  /\ Hit(t, "stale")
  /\ lru' \in {lru, Touched(task[t].key)}
  /\ Goes(t, [NoTask EXCEPT !.at = "mark", !.key = task[t].key])
  /\ Overtakes(t, {task[t].key}, {}) /\ UNCHANGED skewed
  /\ UNCHANGED <<kept, tagIndex, entries, bytes, late, marked, forgotten>>

\* Past every window, or older than maxAbsoluteAgeMs.
DeadHit(t) ==
  /\ Hit(t, "dead")
  /\ TakeOut(t, task[t].key, task[t].held, "end")

\* Fault: whoever is served stale revalidates.
MarkAlways(t) ==
  /\ task[t].at = "mark"
  /\ Goes(t, [task[t] EXCEPT !.at = "origin", !.bg = TRUE])
  /\ marked' = marked \cup {task[t].key}
  /\ UNCHANGED <<kept, books, history, forgotten>>

\* markSWRInFlight(): the first to be served a stale entry revalidates it.
Mark(t) ==
  /\ task[t].at = "mark"
  /\ IF task[t].key \in marked
     THEN Goes(t, NoTask) /\ UNCHANGED marked
     ELSE /\ Goes(t, [task[t] EXCEPT !.at = "origin", !.bg = TRUE])
          /\ marked' = marked \cup {task[t].key}
  /\ UNCHANGED <<kept, books, history, forgotten>>

----------------------------------------------------------------------------
\* set(): takes the entry it replaces off the books, makes room, stores.

LooksUp(t, k, e) ==
  /\ Goes(t, [task[t] EXCEPT !.at = "previous", !.key = k, !.new = e,
                             !.held = storage[k]])
  /\ Begins(t)
  /\ UNCHANGED <<kept, books, marked, forgotten>>

Set(t, k, e) == task[t] = NoTask /\ LooksUp(t, k, e)

\* Fault: room is made for one entry too few.
MakeRoomOneOver(t, loop, s) ==
  LET tooMany == loop = "count" /\ entries' > MaxEntries
      tooBig  == bytes' + task[t].new.size > MaxSize
  IN /\ IF s # <<>> /\ (tooMany \/ tooBig)
        THEN /\ lru' = Front(s)
             /\ Goes(t, [task[t] EXCEPT !.at = "evicting",
                                        !.victim = Last(s), !.last = storage[Last(s)],
                                        !.then = IF tooMany THEN "count" ELSE "size"])
        ELSE /\ lru' = s
             /\ Goes(t, [task[t] EXCEPT !.at = "room"])
     /\ late' = [late EXCEPT ![t] = IF loop = "size" \/ (s # <<>> /\ tooMany) THEN @ ELSE {}]

\* _ensureCapacity(), from one of its two loops on; s is the LRU list by now.
MakeRoom(t, loop, s) ==
  LET tooMany == loop = "count" /\ entries' >= MaxEntries
      tooBig  == bytes' + task[t].new.size > MaxSize
  IN /\ IF s # <<>> /\ (tooMany \/ tooBig)
        THEN /\ lru' = Front(s)
             /\ Goes(t, [task[t] EXCEPT !.at = "evicting",
                                        !.victim = Last(s), !.last = storage[Last(s)],
                                        !.then = IF tooMany THEN "count" ELSE "size"])
        ELSE /\ lru' = s
             /\ Goes(t, [task[t] EXCEPT !.at = "room"])
     /\ late' = [late EXCEPT ![t] = IF loop = "size" \/ (s # <<>> /\ tooMany) THEN @ ELSE {}]

\* The entry that a segment of t has chosen for eviction.
Chosen(t) == IF task'[t].at = "evicting" THEN {task'[t].victim} ELSE {}

Supplant(t) ==
  LET k == task[t].key
      e == task[t].held
  IN /\ task[t].at = "previous"
     /\ entries' = IF e = None THEN entries ELSE Less(entries, 1)
     /\ bytes' = IF e = None THEN bytes ELSE Less(bytes, e.size)
     /\ tagIndex' = IF e = None THEN tagIndex ELSE Unindex(k, e.tags)
     /\ MakeRoom(t, "count", IF e = None THEN lru ELSE Without(lru, k))
     /\ Overtakes(t, {k} \cup Chosen(t), Chosen(t) \ {k})
     /\ skewed' = (skewed \/ k \in behind[t])
     /\ UNCHANGED <<kept, marked, forgotten>>

Evict(t) ==
  /\ task[t].at = "evicting"
  /\ TakeOut(t, task[t].victim, task[t].last, task[t].then)

\* One eviction is over, and the loop that made it goes on.
Evicted(t) ==
  /\ task[t].at = "struck" /\ task[t].then \in {"count", "size"}
  /\ UNCHANGED <<entries, bytes, tagIndex>>
  /\ MakeRoom(t, task[t].then, lru)
  /\ Overtakes(t, Chosen(t), Chosen(t) \ {task[t].key})
  /\ UNCHANGED <<kept, skewed, marked, forgotten>>

\* The adapter takes the entry, or refuses it (quota).
Store(t) ==
  /\ task[t].at = "room"
  /\ \/ /\ Holds(task[t].key, task[t].new)
        /\ Goes(t, [task[t] EXCEPT !.at = "stored"])
     \/ /\ Goes(t, [task[t] EXCEPT !.at = "refused"])
        /\ UNCHANGED kept
  /\ Writes(t, {task[t].key})
  /\ UNCHANGED <<books, marked, forgotten>>

Stored(t) ==
  /\ task[t].at = "stored"
  /\ Enrol(t, task[t].key, task[t].new)
  /\ Goes(t, Ended(t))
  /\ Writes(t, {task[t].key})
  /\ UNCHANGED <<kept, marked, forgotten>>

\* Fault: the entry that stays is forgotten.
RefusedForgetting(t) ==
  /\ task[t].at = "refused"
  /\ Goes(t, Ended(t))
  /\ Writes(t, {task[t].key})
  /\ UNCHANGED <<kept, books, marked, forgotten>>

\* The entry it was to replace stays, and returns to the books.
Refused(t) ==
  /\ task[t].at = "refused"
  /\ IF task[t].held = None THEN UNCHANGED books
                            ELSE Enrol(t, task[t].key, task[t].held)
  /\ Goes(t, Ended(t))
  /\ Writes(t, {task[t].key})
  /\ UNCHANGED <<kept, marked, forgotten>>

----------------------------------------------------------------------------
\* The background revalidation.

\* 304: revalidate() looks the entry up,
NotModified(t) ==
  /\ task[t].at = "origin"
  /\ Goes(t, [task[t] EXCEPT !.at = "got304", !.held = storage[task[t].key]])
  /\ Begins(t)
  /\ UNCHANGED <<kept, books, marked, forgotten>>

\* and writes it back with the lifetime of the new headers.  Whether the adapter
\* has taken it is not looked at.
Renew(t) ==
  /\ task[t].at = "got304" /\ task[t].held # None
  /\ Holds(task[t].key, task[t].held) \/ UNCHANGED kept
  /\ Goes(t, [task[t] EXCEPT !.at = "renewed"])
  /\ Writes(t, {task[t].key})
  /\ UNCHANGED <<books, marked, forgotten>>

Renewed(t) ==
  /\ task[t].at = "renewed"
  /\ lru' = Touched(task[t].key)
  /\ Goes(t, Ended(t))
  /\ Overtakes(t, {task[t].key}, {}) /\ UNCHANGED skewed
  /\ UNCHANGED <<kept, tagIndex, entries, bytes, late, marked, forgotten>>

\* Any other status: the headers are there, and the body is read without a
\* deadline.
Answered(t) ==
  /\ task[t].at = "origin"
  /\ Goes(t, [task[t] EXCEPT !.at = "body"])
  /\ UNCHANGED <<kept, books, marked, history, forgotten>>

BodyRead(t, e) == task[t].at = "body" /\ LooksUp(t, task[t].key, e)

\* No answer in time, a broken body, or a response that set() rejects at once;
\* nothing to revalidate any more.
Fruitless(t) ==
  /\ \/ task[t].at = "origin"
     \/ task[t].at = "got304" /\ task[t].held = None
  /\ Goes(t, Ended(t))
  /\ UNCHANGED <<kept, books, marked, history, forgotten>>
BodyLost(t) ==
  /\ task[t].at = "body"
  /\ Goes(t, Ended(t))
  /\ UNCHANGED <<kept, books, marked, history, forgotten>>

\* finally: clearSWRInFlight().
Unmark(t) ==
  LET k == task[t].key
  IN /\ task[t].at = "unmark"
     /\ marked' = marked \ {k}
     /\ forgotten' = IF Revalidating(k) = {t} THEN forgotten \ {k} ELSE forgotten
     /\ Goes(t, NoTask)
     /\ UNCHANGED <<kept, books, history>>

----------------------------------------------------------------------------
\* Invalidation.

Delete(t, k) ==
  /\ task[t] = NoTask
  /\ Goes(t, [NoTask EXCEPT !.at = "found", !.key = k, !.held = storage[k]])
  /\ Begins(t)
  /\ UNCHANGED <<kept, books, marked, forgotten>>

Found(t) ==
  /\ task[t].at = "found"
  /\ \/ task[t].held # None /\ TakeOut(t, task[t].key, task[t].held, "end")
     \/ /\ task[t].held = None
        /\ Goes(t, NoTask)
        /\ UNCHANGED <<kept, books, marked, history, forgotten>>

\* The loop of the two invalidations: looks the next key up, of those in S.
NextOf(t, S) ==
  \E k \in S :
    /\ Goes(t, [task[t] EXCEPT !.at = "swept", !.victim = k, !.last = storage[k],
                               !.todo = S \ {k}])
    /\ Overtakes(t, {}, {k})

\* The keys are those that bear the tag now.
InvalidateByTag(t, g) ==
  /\ task[t] = NoTask
  /\ \E k \in tagIndex[g] :
       Goes(t, [NoTask EXCEPT !.at = "swept", !.victim = k, !.last = storage[k],
                              !.todo = tagIndex[g] \ {k}, !.tag = g])
  /\ Begins(t)
  /\ UNCHANGED <<kept, books, marked, forgotten>>

InvalidateByURL(t) ==
  /\ task[t] = NoTask
  /\ Goes(t, [NoTask EXCEPT !.at = "listed", !.todo = {k \in Keys : storage[k] # None}])
  /\ Begins(t)
  /\ UNCHANGED <<kept, books, marked, forgotten>>

\* Any of the keys may have the prefix.
Listed(t) ==
  /\ task[t].at = "listed"
  /\ \/ Goes(t, NoTask) /\ UNCHANGED behind
     \/ \E S \in SUBSET task[t].todo : NextOf(t, S)
  /\ UNCHANGED <<kept, books, marked, skewed, forgotten>>

Sweep(t) ==
  /\ task[t].at = "swept"
  /\ TakeOut(t, task[t].victim, task[t].last, "sweep")

Swept(t) ==
  /\ task[t].at = "struck" /\ task[t].then = "sweep"
  /\ \/ NextOf(t, task[t].todo) /\ UNCHANGED <<books, skewed>>
     \/ /\ task[t].todo = {}
        /\ tagIndex' = [g \in Tags |-> IF g = task[t].tag THEN {} ELSE tagIndex[g]]
        /\ Goes(t, NoTask)
        /\ Writes(t, UNION {tagIndex[g] : g \in Tags \cap {task[t].tag}})
        /\ UNCHANGED <<lru, entries, bytes, late>>
  /\ UNCHANGED <<kept, marked, forgotten>>

Clear(t) ==
  /\ task[t] = NoTask
  /\ storage' = [k \in Keys |-> None]
  /\ phase' = [k \in Keys |-> "dead"]
  /\ Goes(t, [NoTask EXCEPT !.at = "cleared"])
  /\ Overtakes(t, Keys, Keys) /\ UNCHANGED skewed
  /\ UNCHANGED <<books, marked, forgotten>>

\* The books of an empty cache: right, unless something was stored meanwhile.
Cleared(t) ==
  /\ task[t].at = "cleared"
  /\ lru' = <<>>
  /\ tagIndex' = [g \in Tags |-> {}]
  /\ entries' = 0
  /\ bytes' = 0
  /\ marked' = {}
  /\ forgotten' = {k \in Keys : Revalidating(k) # {}}
  /\ Goes(t, NoTask)
  /\ skewed' = (behind[t] # {})
  /\ Overtakes(t, Keys, {})
  /\ UNCHANGED <<kept, late>>

\* deserialize(), one entry: no look at what the key held, nor at whether the adapter has
\* taken the entry, nor at the capacity.  Where the key held an entry, or the adapter refuses
\* this one, what is to enter the books is wrong from the start.
Restore(t, k, e) ==
  /\ task[t] = NoTask
  /\ Holds(k, e) \/ UNCHANGED kept
  /\ Goes(t, [NoTask EXCEPT !.at = "restored", !.key = k, !.new = e])
  /\ behind' = [u \in Tasks |->
                 IF u # t THEN IF Inside(u) THEN behind[u] \cup {k} ELSE behind[u]
                 ELSE IF storage[k] # None \/ storage' = storage THEN {k} ELSE {}]
  /\ UNCHANGED <<books, skewed, marked, forgotten>>

Restored(t) ==
  /\ task[t].at = "restored"
  /\ Enrol(t, task[t].key, task[t].new)
  /\ Goes(t, NoTask)
  /\ Writes(t, {task[t].key})
  /\ UNCHANGED <<kept, marked, forgotten>>

----------------------------------------------------------------------------
\* Time passes for an entry, and for a copy of it that get() has yet to look at.
Age(k, age) ==
  /\ storage[k] # None
  /\ <<phase[k], age>> \in {<<"fresh", "stale">>, <<"fresh", "dead">>, <<"stale", "dead">>}
  /\ phase' = [phase EXCEPT ![k] = age]
  /\ task' = [t \in Tasks |->
               IF task[t].at = "got" /\ task[t].key = k /\ task[t].phase = phase[k]
               THEN [task[t] EXCEPT !.phase = age] ELSE task[t]]
  /\ UNCHANGED <<storage, books, marked, history, forgotten>>

----------------------------------------------------------------------------
\* A new operation of t.
Calls(t) ==
  /\ calls < MaxCalls
  /\ calls' = calls + 1
  /\ \/ \E k \in Keys : Get(t, k) \/ Delete(t, k)
     \/ \E k \in Keys, e \in Responses : Set(t, k, e) \/ Restore(t, k, e)
     \/ \E g \in Tags : InvalidateByTag(t, g)
     \/ InvalidateByURL(t) \/ Clear(t)

\* A segment of t whose turn comes by itself: the adapter answers, and the
\* transport answers or times out.
Continues(t) ==
  \/ Miss(t) \/ FreshHit(t) \/ StaleHit(t) \/ DeadHit(t) \/ Mark(t)
  \/ Supplant(t) \/ Evict(t) \/ Evicted(t) \/ Store(t) \/ Stored(t) \/ Refused(t)
  \/ NotModified(t) \/ Renew(t) \/ Renewed(t)
  \/ Answered(t) \/ Fruitless(t) \/ Unmark(t)
  \/ Found(t) \/ Listed(t) \/ Sweep(t) \/ Swept(t) \/ Strike(t)
  \/ Cleared(t) \/ Restored(t)

\* The body of a revalidation ends when the server ends it.
BodyEnds(t) == BodyLost(t) \/ \E e \in Responses : BodyRead(t, e)

Next ==
  \/ \E t \in Tasks : Calls(t)
  \/ UNCHANGED calls /\ \E t \in Tasks : Continues(t) \/ BodyEnds(t)
  \/ UNCHANGED calls /\ \E k \in Keys, age \in Phases : Age(k, age)

Spec == Init /\ [][Next]_vars

\* An adapter answers every call, and the transport answers or the client's
\* deadline passes.  No deadline covers the body, and nobody must call.
Fairness == \A t \in Tasks : WF_vars(UNCHANGED calls /\ Continues(t))
FairSpec == Spec /\ Fairness

----------------------------------------------------------------------------
\* Properties.

InStorage == {k \in Keys : storage[k] # None}

\* Whatever operations on other keys do in between, the gauges say what the storage holds, and
\* everything it holds can be evicted; unless two operations have raced for one key, both past
\* the same look at it, or a restore has gone over an entry or was refused.
BooksExact ==
  ~skewed /\ Quiet =>
    /\ entries = Cardinality(InStorage)
    /\ bytes = SumFunction([k \in InStorage |-> storage[k].size])
    /\ InStorage \subseteq Range(lru)

\* Under the same condition an invalidation by tag finds exactly the entries that
\* bear the tag.
IndexExact ==
  ~skewed /\ Quiet =>
    \A g \in Tags : tagIndex[g] = {k \in InStorage : g \in storage[k].tags}

\* Gauges, LRU list and tag index agree with the storage (cache.ts 1008-1111 and 1438-1474).
Accounted == BooksExact /\ IndexExact

\* The capacity is looked at before the entry is stored (cache.ts 1457), and the number before
\* the size, so sets of different keys that overlap exceed it: each leaves the cache within its
\* capacity but for what others have added since it counted the entries, or has evicted all the
\* rest for an entry that is too large.
SetWithinCapacity ==
  [][\A t \in Tasks :
       Stored(t) /\ ~skewed' /\ Quiet' =>
         LET mine == InStorage \ late[t]
         IN \/ mine \subseteq {task[t].key}
            \/ /\ Cardinality(mine) <= MaxEntries
               /\ SumFunction([k \in mine |-> storage[k].size]) <= MaxSize]_vars

\* A mark always has a revalidation in flight that will remove it, and a key has
\* one at most, unless clear() has forgotten one.
OneRevalidation ==
  \A k \in Keys :
    /\ k \in marked => Revalidating(k) # {}
    /\ k \notin forgotten => \A t, u \in Revalidating(k) : t = u

\* What the comment on the finally block promises: no mark stays for ever.
MarkNeverStuck == \A k \in Keys : k \in marked ~> k \notin marked

----------------------------------------------------------------------------
\* For TLC: a small response and a large one with tags; keys are alike, and so are tasks.
TwoResponses == {[size |-> 1, tags |-> {}], [size |-> 2, tags |-> Tags]}
Symmetric == Permutations(Tasks) \cup Permutations(Keys)
=============================================================================
