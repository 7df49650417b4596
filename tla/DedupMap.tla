------------------------------ MODULE DedupMap ------------------------------
(***************************************************************************)
(* Coalescing of identical requests (class DedupMap): the map entry and    *)
(* the window timer of ONE key.  Keys share nothing but clear(), which     *)
(* does to each of them what invalidate() does to one.                     *)
(*                                                                         *)
(* The first call of a key leads: it registers an entry and runs its       *)
(* factory.  Calls made meanwhile share its promise, and calls made within *)
(* the window after it has succeeded share its result.  An entry can lose  *)
(* the key while its factory still runs (abort, clear, invalidate), and    *)
(* then another call leads: the hard part is that everything an old entry  *)
(* does later must leave the new one alone.  It does not, always: a caller *)
(* that finds a result older than its own window replaces it and leaves    *)
(* the timer of that result running, which then deletes the new entry      *)
(* while it is in flight (wiped).                                          *)
(*                                                                         *)
(* An entry is named by the call that leads it, and a call is made once.   *)
(* A due timer runs in a task of its own, so other code may run before it  *)
(* unless PromptTimers says otherwise.                                     *)
(***************************************************************************)
EXTENDS Naturals, FiniteSets

CONSTANTS Calls,         \* calls of execute() for the key
          Windows,       \* the values of effectiveWindowMs, in ticks
          PromptTimers,  \* environment: a due timer runs before anything else
          None           \* nothing: no entry, no timer

MaxWindow == CHOOSE w \in Windows : \A v \in Windows : v <= w

VARIABLES owner,     \* inflight.get(key): the entry that owns the key
          entry,     \* what has become of the entry of each call
          window,    \* the window of the call that leads each entry
          age,       \* Date.now() - resolvedAt of the owner, up to MaxWindow + 1
          timer,     \* timeouts.get(key): ticks until it is due
          timerOf,   \* history: the entry the timer was set for
          role,      \* what execute() made of each call
          leader,    \* the entry whose promise a call shares
          outcome,   \* how each call has ended
          aborted,   \* the calls whose signal has fired
          dropped,   \* history: an abort, clear() or invalidate() has emptied the key
          wiped,     \* history: the entries in flight that a window timer has deleted
          hits, misses
mapVars   == <<owner, age, timer, timerOf>>
callVars  == <<entry, window, role, leader, outcome>>
dedupVars == <<mapVars, callVars, aborted, dropped, wiped, hits, misses>>

\* Types of the variables; a timer and the entry it was set for go together.
TypeOK ==
  /\ owner \in Calls \cup {None}
  /\ entry \in [Calls -> {"none", "pending", "resolved", "failed"}]
  /\ window \in [Calls -> Windows \cup {None}]
  /\ age \in 0..(MaxWindow + 1)
  /\ timer \in 0..MaxWindow \cup {None}
  /\ timerOf \in Calls \cup {None}
  /\ (timer = None) = (timerOf = None)
  /\ role \in [Calls -> {"new", "leader", "sharer", "alone"}]
  /\ leader \in [Calls -> Calls \cup {None}]
  /\ outcome \in [Calls -> {"none", "ok", "failed", "aborted"}]
  /\ aborted \subseteq Calls
  /\ dropped \in BOOLEAN /\ wiped \subseteq Calls
  /\ hits \in Nat /\ misses \in Nat

Init ==
  /\ owner = None
  /\ entry = [c \in Calls |-> "none"]
  /\ window = [c \in Calls |-> None]
  /\ age = 0
  /\ timer = None
  /\ timerOf = None
  /\ role = [c \in Calls |-> "new"]
  /\ leader = [c \in Calls |-> None]
  /\ outcome = [c \in Calls |-> "none"]
  /\ aborted = {}
  /\ dropped = FALSE
  /\ wiped = {}
  /\ hits = 0
  /\ misses = 0

----------------------------------------------------------------------------
\* The state of the key.

Free     == owner = None
Pending  == owner # None /\ entry[owner] = "pending"
Resolved == owner # None /\ entry[owner] = "resolved"
TimerDue == timer = 0

\* Nothing else runs while a due timer must run first.
Loop == ~(PromptTimers /\ TimerDue)

NoTimer == timer' = None /\ timerOf' = None

----------------------------------------------------------------------------
\* execute(): the decision is synchronous.

Becomes(c, r) == role[c] = "new" /\ role' = [role EXCEPT ![c] = r]

\* The signal has fired already, or the method is not coalesced.
Bypass(c) ==
  /\ Becomes(c, "alone")
  /\ misses' = misses + 1
  /\ UNCHANGED <<mapVars, entry, window, leader, outcome, aborted, dropped, wiped, hits>>

\* The entry is in flight: its promise is shared.
Join(c) ==
  /\ c \notin aborted
  /\ Pending
  /\ Becomes(c, "sharer")
  /\ leader' = [leader EXCEPT ![c] = owner]
  /\ hits' = hits + 1
  /\ UNCHANGED <<mapVars, entry, window, outcome, aborted, dropped, wiped, misses>>

\* The entry has succeeded within this caller's window: its result is shared.
JoinWindow(c, w) ==
  /\ c \notin aborted
  /\ Resolved
  /\ w > 0 /\ age <= w
  /\ Becomes(c, "sharer")
  /\ leader' = [leader EXCEPT ![c] = owner]
  /\ outcome' = [outcome EXCEPT ![c] = "ok"]
  /\ hits' = hits + 1
  /\ UNCHANGED <<mapVars, entry, window, aborted, dropped, wiped, misses>>

\* Fault: a caller without a window empties the key for everyone.
OwnRequestEvicting(c, w) ==
  /\ c \notin aborted
  /\ Resolved
  /\ w = 0
  /\ Becomes(c, "alone")
  /\ owner' = None /\ NoTimer
  /\ misses' = misses + 1
  /\ UNCHANGED <<age, entry, window, leader, outcome, aborted, dropped, wiped, hits>>

\* The entry has succeeded, and this caller asked for no window.
OwnRequest(c, w) ==
  /\ c \notin aborted
  /\ Resolved
  /\ w = 0
  /\ Becomes(c, "alone")
  /\ misses' = misses + 1
  /\ UNCHANGED <<mapVars, entry, window, leader, outcome, aborted, dropped, wiped, hits>>

\* The entry this caller finds is older than its window.
Lapsed(w) == Resolved /\ w > 0 /\ age > w

\* Fault: an entry in flight is not recognised.
LeadAlways(c, w) ==
  /\ c \notin aborted
  /\ Becomes(c, "leader")
  /\ owner' = c
  /\ entry' = [entry EXCEPT ![c] = "pending"]
  /\ window' = [window EXCEPT ![c] = w]
  /\ misses' = misses + 1
  /\ UNCHANGED <<age, timer, timerOf, leader, outcome, aborted, dropped, wiped, hits>>

\* No entry, or one older than this caller's window: the call leads.  The timer
\* of an entry dropped here is left running.
Lead(c, w) ==
  /\ c \notin aborted
  /\ Free \/ Lapsed(w)
  /\ Becomes(c, "leader")
  /\ owner' = c
  /\ entry' = [entry EXCEPT ![c] = "pending"]
  /\ window' = [window EXCEPT ![c] = w]
  /\ misses' = misses + 1
  /\ UNCHANGED <<age, timer, timerOf, leader, outcome, aborted, dropped, wiped, hits>>

Execute(c) ==
  /\ Loop
  /\ \/ Bypass(c) \/ Join(c)
     \/ \E w \in Windows : JoinWindow(c, w) \/ OwnRequest(c, w) \/ Lead(c, w)

----------------------------------------------------------------------------
\* The factory of a leader settles.

\* The leader and everyone sharing its promise get the same outcome.
Deliver(c, o) ==
  outcome' = [d \in Calls |-> IF d = c \/ (leader[d] = c /\ outcome[d] = "none")
                                THEN o ELSE outcome[d]]

Leading(c) == role[c] = "leader" /\ outcome[c] = "none"

\* Success of the entry that owns the key: the key is freed, or its window opens
\* with a timer in place of any older one.
SucceedOwner(c) ==
  /\ Leading(c)
  /\ owner = c
  /\ entry' = [entry EXCEPT ![c] = "resolved"]
  /\ Deliver(c, "ok")
  /\ age' = 0
  /\ IF window[c] = 0 THEN owner' = None /\ UNCHANGED <<timer, timerOf>>
                      ELSE timer' = window[c] /\ timerOf' = c /\ UNCHANGED owner
  /\ UNCHANGED <<window, role, leader, aborted, dropped, wiped, hits, misses>>

\* Success of an entry that has lost the key: nothing is registered for it.
SucceedDropped(c) ==
  /\ Leading(c)
  /\ owner # c
  /\ entry' = [entry EXCEPT ![c] = "resolved"]
  /\ Deliver(c, "ok")
  /\ UNCHANGED <<mapVars, window, role, leader, aborted, dropped, wiped, hits, misses>>

\* Failure: the entry gives up the key if it owns it, and clears the key's timer
\* whoever owns it.
Fail(c, o) ==
  /\ Leading(c)
  /\ o = "aborted" => c \in aborted
  /\ entry' = [entry EXCEPT ![c] = "failed"]
  /\ Deliver(c, o)
  /\ owner' = IF owner = c THEN None ELSE owner
  /\ NoTimer
  /\ UNCHANGED <<age, window, role, leader, aborted, dropped, wiped, hits, misses>>

\* A request that shares nothing ends.
SettleAlone(c, o) ==
  /\ role[c] = "alone" /\ outcome[c] = "none"
  /\ o = "aborted" => c \in aborted
  /\ outcome' = [outcome EXCEPT ![c] = o]
  /\ UNCHANGED <<mapVars, entry, window, role, leader, aborted, dropped, wiped, hits, misses>>

Settle(c) ==
  /\ Loop
  /\ \/ SucceedOwner(c) \/ SucceedDropped(c) \/ SettleAlone(c, "ok")
     \/ \E o \in {"failed", "aborted"} : Fail(c, o) \/ SettleAlone(c, o)

----------------------------------------------------------------------------
\* Signals, timers and the owner of the map.

\* The signal of a call fires: of a leader, the listener drops whatever entry
\* owns the key, and its timer; of any other call, nobody listens.
Abort(c) ==
  /\ Loop
  /\ c \notin aborted /\ outcome[c] = "none"
  /\ aborted' = aborted \cup {c}
  /\ IF role[c] = "leader" THEN owner' = None /\ NoTimer /\ dropped' = TRUE
                           ELSE UNCHANGED <<owner, timer, timerOf, dropped>>
  /\ UNCHANGED <<age, callVars, wiped, hits, misses>>

\* clear(), or invalidate() of the key.
Invalidate ==
  /\ Loop
  /\ owner # None \/ timer # None
  /\ owner' = None
  /\ NoTimer
  /\ dropped' = TRUE
  /\ UNCHANGED <<age, callVars, aborted, wiped, hits, misses>>

\* The window timer fires: it deletes whatever entry owns the key.
Expire ==
  /\ TimerDue
  /\ owner' = None
  /\ NoTimer
  /\ wiped' = wiped \cup (IF Pending THEN {owner} ELSE {})
  /\ UNCHANGED <<age, callVars, aborted, dropped, hits, misses>>

Older == IF age <= MaxWindow THEN age + 1 ELSE age

\* Time passes, as long as it can matter.
Tick ==
  /\ Loop
  /\ Resolved \/ timer # None
  /\ age' = Older
  /\ timer' = IF timer \in 1..MaxWindow THEN timer - 1 ELSE timer
  /\ <<age, timer>>' # <<age, timer>>
  /\ UNCHANGED <<owner, timerOf, callVars, aborted, dropped, wiped, hits, misses>>

Next ==
  \/ \E c \in Calls : Execute(c) \/ Settle(c) \/ Abort(c)
  \/ Invalidate \/ Expire \/ Tick

\* Timers fire and factories settle.
Fairness == WF_dedupVars(Expire) /\ WF_dedupVars(Tick) /\ \A c \in Calls : WF_dedupVars(Settle(c))

Spec     == Init /\ [][Next]_dedupVars
FairSpec == Spec /\ Fairness

----------------------------------------------------------------------------
\* Properties.

PendingLeaders == {c \in Calls : entry[c] = "pending"}

\* What the map is for: until something empties the key, the one factory in flight is that of
\* the entry that has it, beside those whose entries a timer has deleted, which asked for a
\* window (dedup.ts 254-296, 317-364).
SingleFlight ==
  /\ ~dropped => PendingLeaders \subseteq wiped \cup {owner}
  /\ \A c \in wiped : window[c] > 0

\* As the comments have it: it is the only one.
OneFactory == ~dropped => Cardinality(PendingLeaders) <= 1

\* The window timer is that of the result that has the key, or of one that an entry with a
\* window of its own has replaced and that is in flight; a free key has none.
TimerTraced ==
  timer # None =>
    /\ entry[timerOf] = "resolved"
    /\ \/ timerOf = owner
       \/ Pending /\ window[owner] > 0

\* Whoever shares a promise ends as its leader does, also when that is aborted, and not
\* before, whatever becomes of its own signal.
SharersFollow == \A c \in Calls : role[c] = "sharer" => outcome[c] = outcome[leader[c]]

\* A result stays available for the whole window its leader opened, unless a caller finds it
\* older than its own window, which is shorter: one that asks for none does not end it.
WindowHonoured ==
  [][Resolved /\ owner' # owner /\ ~dropped' =>
       \/ age >= window[owner]
       \/ owner' # None /\ window'[owner'] \in 1..(age - 1)]_dedupVars

\* Nobody waits for ever: a call that shares a promise ends when its leader does,
\* also when the leader's entry has been dropped meanwhile.
SharersAnswered ==
  \A c \in Calls : role[c] = "sharer" ~> outcome[c] # "none"

\* A completed response is kept for its window and not for ever, until something
\* empties the key.  (A leader that has lost the key and fails late clears the timer of the
\* entry that has replaced it, and then the response does stay.)
WindowEnds ==
  \A c \in Calls : owner = c /\ Resolved ~> owner # c \/ dropped \/ wiped # {}
=============================================================================
