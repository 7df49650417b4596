----------------------------- MODULE FlowsProofs -----------------------------
(***************************************************************************)
(* Proofs about the parts of MCFlows, for any calls, URLs, bounds and      *)
(* configurations: the map of requests in flight, the attempt of a request *)
(* with its redirects, a request over node:http, the reading of a body,    *)
(* and an event stream.  A part at rest keeps its variables, so that each  *)
(* part's invariant is one of all of them.                                 *)
(*                                                                         *)
(* What a timer of the map may delete rests on what it was set for: it is  *)
(* the timer of the result that has the key, and then makes up the window  *)
(* with its age, or of one that an entry with a window of its own has      *)
(* replaced (Agree).  So what is in flight has the key unless such a timer *)
(* has taken it (Owned), for any windows and however late a timer runs.    *)
(***************************************************************************)
EXTENDS MCFlows, FiniteSetTheorems, SequenceTheorems, TLAPS

----------------------------------------------------------------------------
(* The map of requests in flight.                                          *)

\* Every entry is that of a leader and has its window, a leader that has not settled has one
\* in flight, and whoever shares ends as the leader does.
Led ==
  \A c \in Calls :
    /\ Dedup!Leading(c) <=> entry[c] = "pending"
    /\ entry[c] # "none" => role[c] = "leader" /\ window[c] \in Windows
    /\ entry[c] = "resolved" => outcome[c] = "ok"
    /\ role[c] = "new" => outcome[c] = "none"
    /\ leader[c] # None => role[c] = "sharer"
    /\ role[c] = "sharer" => /\ leader[c] \in Calls /\ role[leader[c]] = "leader"
                             /\ outcome[c] = outcome[leader[c]]

\* What is in flight has the key, unless something has emptied it or a timer has deleted it,
\* which only an entry with a window is exposed to.
Owned ==
  /\ ~dropped => \A c \in Calls : entry[c] = "pending" => owner = c \/ c \in wiped
  /\ \A c \in wiped : entry[c] # "none" /\ window[c] > 0

\* A result that is kept has a window, and its timer has what is left of it or is late; a
\* timer that is not its own was left by a result that was replaced.
Agree ==
  /\ owner # None => entry[owner] \in {"pending", "resolved"}
  /\ Dedup!Resolved => window[owner] > 0
  /\ Dedup!TimerTraced
  /\ timer # None /\ timerOf = owner =>
       \/ timer > 0 /\ age + timer = window[owner]
       \/ timer = 0 /\ age >= window[owner]

DedupInv == Dedup!TypeOK /\ Led /\ Owned /\ Agree

\* There is a longest window, and nothing is neither a number nor a call.
LEMMA LongestWindow ==
  /\ Dedup!MaxWindow \in Nat /\ Windows \subseteq 0..Dedup!MaxWindow /\ Windows \subseteq Nat
  /\ None \notin Nat /\ None \notin Calls
<1>1. Windows \subseteq Nat /\ \E w \in Windows : \A v \in Windows : v <= w
  BY FlowsAssumption
<1>2. Dedup!MaxWindow \in Windows /\ \A v \in Windows : v <= Dedup!MaxWindow
  BY <1>1 DEF Dedup!MaxWindow
<1>. QED  BY <1>1, <1>2, FlowsAssumption

LEMMA DedupInit == ASSUME Dedup!Init PROVE DedupInv
<1>1. Dedup!MaxWindow \in Nat
  BY LongestWindow
<1>2. Dedup!TypeOK
  <2>1. (timer = None) = (timerOf = None)
    BY DEF Dedup!Init
  <2>2. age \in 0..(Dedup!MaxWindow + 1)
    BY <1>1 DEF Dedup!Init
  <2>. QED  BY <2>1, <2>2 DEF Dedup!Init, Dedup!TypeOK
<1>3. Led /\ Owned /\ Agree
  BY DEF Dedup!Init, Led, Owned, Dedup!Leading, Agree, Dedup!Resolved, Dedup!TimerTraced
<1>. QED  BY <1>2, <1>3 DEF DedupInv

----------------------------------------------------------------------------
(* The steps of the callers.                                               *)

LEMMA DedupExecute ==
  ASSUME DedupInv, NEW c \in Calls, Dedup!Execute(c)
  PROVE  DedupInv'
<1>. USE DEF DedupInv
<1>l. /\ Dedup!MaxWindow \in Nat /\ Windows \subseteq 0..Dedup!MaxWindow /\ Windows \subseteq Nat
      /\ None \notin Nat /\ None \notin Calls
  BY LongestWindow
<1>1. CASE Dedup!Bypass(c)
  <2>1. Dedup!TypeOK'
    BY <1>1 DEF Dedup!Bypass, Dedup!Becomes, Dedup!TypeOK, Dedup!mapVars
  <2>2. Led'
    BY <1>1 DEF Dedup!Bypass, Dedup!Becomes, Dedup!TypeOK, Led, Dedup!Leading
  <2>3. Owned' /\ Agree'
    BY <1>1 DEF Dedup!Bypass, Dedup!mapVars, Owned, Agree, Dedup!Resolved, Dedup!Pending,
      Dedup!TimerTraced
  <2>. QED  BY <2>1, <2>2, <2>3
<1>2. CASE Dedup!Join(c)
  <2>1. Dedup!TypeOK'
    BY <1>2 DEF Dedup!Join, Dedup!Becomes, Dedup!Pending, Dedup!TypeOK, Dedup!mapVars
  <2>2. owner \in Calls /\ entry[owner] = "pending" /\ role[owner] = "leader" /\ outcome[owner] = "none"
    BY <1>2 DEF Dedup!Join, Dedup!Pending, Dedup!TypeOK, Led, Dedup!Leading
  <2>3. Led'
    BY <1>2, <2>2 DEF Dedup!Join, Dedup!Becomes, Dedup!TypeOK, Led, Dedup!Leading
  <2>4. Owned' /\ Agree'
    BY <1>2 DEF Dedup!Join, Dedup!mapVars, Owned, Agree, Dedup!Resolved, Dedup!Pending,
      Dedup!TimerTraced
  <2>. QED  BY <2>1, <2>3, <2>4
<1>3. ASSUME NEW w \in Windows, Dedup!JoinWindow(c, w) PROVE DedupInv'
  <2>1. Dedup!TypeOK'
    BY <1>3 DEF Dedup!JoinWindow, Dedup!Becomes, Dedup!Resolved, Dedup!TypeOK, Dedup!mapVars
  <2>2. /\ owner \in Calls /\ entry[owner] = "resolved" /\ role[owner] = "leader"
        /\ outcome[owner] = "ok"
    BY <1>3 DEF Dedup!JoinWindow, Dedup!Resolved, Dedup!TypeOK, Led
  <2>3. Led'
    BY <1>3, <2>2 DEF Dedup!JoinWindow, Dedup!Becomes, Dedup!TypeOK, Led, Dedup!Leading
  <2>4. Owned' /\ Agree'
    BY <1>3 DEF Dedup!JoinWindow, Dedup!mapVars, Owned, Agree, Dedup!Resolved, Dedup!Pending,
      Dedup!TimerTraced
  <2>. QED  BY <2>1, <2>3, <2>4
<1>4. ASSUME NEW w \in Windows, Dedup!OwnRequest(c, w) PROVE DedupInv'
  <2>1. Dedup!TypeOK'
    BY <1>4 DEF Dedup!OwnRequest, Dedup!Becomes, Dedup!TypeOK, Dedup!mapVars
  <2>2. Led'
    BY <1>4 DEF Dedup!OwnRequest, Dedup!Becomes, Dedup!TypeOK, Led, Dedup!Leading
  <2>3. Owned' /\ Agree'
    BY <1>4 DEF Dedup!OwnRequest, Dedup!mapVars, Owned, Agree, Dedup!Resolved, Dedup!Pending,
      Dedup!TimerTraced
  <2>. QED  BY <2>1, <2>2, <2>3
<1>5. ASSUME NEW w \in Windows, Dedup!Lead(c, w) PROVE DedupInv'
  <2>0. /\ owner' = c /\ entry' = [entry EXCEPT ![c] = "pending"]
        /\ window' = [window EXCEPT ![c] = w] /\ role[c] = "new"
        /\ role' = [role EXCEPT ![c] = "leader"]
        /\ UNCHANGED <<age, timer, timerOf, leader, outcome, dropped, wiped>>
        /\ w \in Nat /\ entry[c] = "none"
    BY <1>5, <1>l DEF Dedup!Lead, Dedup!Becomes, Dedup!TypeOK, Led
  <2>1. Dedup!TypeOK'
    BY <1>5 DEF Dedup!Lead, Dedup!Becomes, Dedup!TypeOK
  <2>2. Led'
    BY <2>0 DEF Dedup!TypeOK, Led, Dedup!Leading
  \* The one it replaces, if any, is no longer in flight.
  <2>3. Owned'
    <3>1. ~dropped => \A d \in Calls : entry[d] = "pending" => d \in wiped
      BY <1>5, <1>l DEF Dedup!Lead, Dedup!Free, Dedup!Lapsed, Dedup!Resolved, Owned
    <3>2. \A d \in Calls \ {c} : entry'[d] = entry[d] /\ window'[d] = window[d]
      BY <2>0 DEF Dedup!TypeOK
    <3>3. \A d \in wiped : d \in Calls \ {c}
      BY <2>0 DEF Owned, Dedup!TypeOK
    <3>. QED  BY <2>0, <3>1, <3>2, <3>3 DEF Owned
  \* A timer that is left is that of the result it replaces.
  <2>4. timer # None => /\ timerOf \in Calls \ {c} /\ entry[timerOf] = "resolved" /\ w > 0
    <3>1. timer # None => timerOf \in Calls /\ entry[timerOf] = "resolved" /\ timerOf # c
      BY <1>l, <2>0 DEF Dedup!TypeOK, Agree, Dedup!TimerTraced
    <3>2. timer # None => ~Dedup!Free
      BY <1>l, <3>1 DEF Dedup!Free, Agree, Dedup!TimerTraced, Dedup!Pending
    <3>. QED  BY <1>5, <3>1, <3>2 DEF Dedup!Lead, Dedup!Lapsed
  <2>5. Agree'
    <3>1. entry'[c] = "pending" /\ window'[c] = w /\ c # None
      BY <2>0, <1>l DEF Dedup!TypeOK
    <3>2. Dedup!TimerTraced'
      <4>1. timer # None => entry'[timerOf] = "resolved"
        BY <2>0, <2>4 DEF Dedup!TypeOK
      <4>. QED  BY <2>0, <2>4, <3>1, <4>1 DEF Dedup!TimerTraced, Dedup!Pending
    <3>. QED  BY <2>0, <2>4, <3>1, <3>2 DEF Agree, Dedup!Resolved
  <2>. QED  BY <2>1, <2>2, <2>3, <2>5
<1>. QED  BY <1>1, <1>2, <1>3, <1>4, <1>5 DEF Dedup!Execute

\* Who shares with a leader hears of its end at once, and nobody else does.
LEMMA Delivered ==
  ASSUME DedupInv, NEW c \in Calls, NEW o \in {"ok", "failed", "aborted"}, Dedup!Leading(c),
         Dedup!Deliver(c, o), UNCHANGED <<window, role, leader>>,
         NEW e \in {"resolved", "failed"}, entry' = [entry EXCEPT ![c] = e],
         e = "resolved" => o = "ok"
  PROVE  /\ outcome' \in [Calls -> {"none", "ok", "failed", "aborted"}]
         /\ Led'
<1>. USE DEF DedupInv, Dedup!TypeOK
<1>0. None \notin Calls
  BY LongestWindow
<1>1. outcome' \in [Calls -> {"none", "ok", "failed", "aborted"}]
  BY DEF Dedup!Deliver
<1>2. /\ outcome'[c] = o
      /\ \A d \in Calls : leader[d] = c => outcome'[d] = o
      /\ \A d \in Calls : d # c /\ leader[d] # c => outcome'[d] = outcome[d]
  BY <1>0 DEF Dedup!Deliver, Led, Dedup!Leading
<1>3. role[c] = "leader" /\ leader[c] = None /\ entry[c] = "pending"
  BY DEF Dedup!Leading, Led
<1>4. \A d \in Calls : leader[d] = c => role[d] = "sharer" /\ entry[d] = "none"
  BY <1>0 DEF Led
<1>5. entry'[c] = e /\ \A d \in Calls \ {c} : entry'[d] = entry[d]
  OBVIOUS
\* Whoever leads is told by itself only.
<1>6. \A d \in Calls : role[d] = "leader" /\ d # c => outcome'[d] = outcome[d]
  BY <1>0, <1>2, <1>4
<1>7. Led'
  <2>. SUFFICES ASSUME NEW d \in Calls
       PROVE  /\ (Dedup!Leading(d) <=> entry[d] = "pending")'
              /\ entry'[d] # "none" => role'[d] = "leader" /\ window'[d] \in Windows
              /\ entry'[d] = "resolved" => outcome'[d] = "ok"
              /\ role'[d] = "new" => outcome'[d] = "none"
              /\ leader'[d] # None => role'[d] = "sharer"
              /\ role'[d] = "sharer" => /\ leader'[d] \in Calls /\ role'[leader'[d]] = "leader"
                                       /\ outcome'[d] = outcome'[leader'[d]]
    BY DEF Led
  <2>1. CASE d = c
    BY <1>2, <1>3, <1>5, <2>1 DEF Led, Dedup!Leading
  <2>2. CASE d # c /\ leader[d] = c
    BY <1>2, <1>3, <1>4, <1>5, <2>2 DEF Led, Dedup!Leading
  <2>3. CASE d # c /\ leader[d] # c
    BY <1>2, <1>5, <1>6, <2>3 DEF Led, Dedup!Leading
  <2>. QED  BY <2>1, <2>2, <2>3
<1>. QED  BY <1>1, <1>7

LEMMA DedupSettle ==
  ASSUME DedupInv, NEW c \in Calls, Dedup!Settle(c)
  PROVE  DedupInv'
<1>. USE DEF DedupInv
<1>l. /\ Dedup!MaxWindow \in Nat /\ Windows \subseteq 0..Dedup!MaxWindow /\ Windows \subseteq Nat
      /\ None \notin Nat /\ None \notin Calls
  BY LongestWindow
<1>1. CASE Dedup!SucceedOwner(c)
  <2>1. /\ Dedup!Leading(c) /\ owner = c /\ entry' = [entry EXCEPT ![c] = "resolved"]
        /\ Dedup!Deliver(c, "ok") /\ age' = 0 /\ entry[c] = "pending"
        /\ UNCHANGED <<window, role, leader, gaveUp, dropped, wiped, hits, misses>>
    BY <1>1 DEF Dedup!SucceedOwner, Led
  <2>2. outcome' \in [Calls -> {"none", "ok", "failed", "aborted"}] /\ Led'
    BY <2>1, Delivered
  <2>3. entry' \in [Calls -> {"none", "pending", "resolved", "failed"}]
    BY <2>1 DEF Dedup!TypeOK
  <2>w. window[c] \in Windows /\ window[c] \in 0..Dedup!MaxWindow /\ window[c] \in Nat /\ window[c] # None
    BY <1>l, <2>1 DEF Led
  <2>o. Owned'
    BY <2>1 DEF Dedup!TypeOK, Owned
  \* An entry without a window has nothing to do with a timer.
  <2>4. CASE window[c] = 0
    <3>1. owner' = None /\ timer' = timer /\ timerOf' = timerOf
      BY <1>1, <2>4 DEF Dedup!SucceedOwner
    <3>2. timer = None
      BY <2>1, <2>4 DEF Agree, Dedup!TimerTraced
    <3>3. Dedup!TypeOK'
      BY <1>l, <2>1, <2>2, <2>3, <3>1 DEF Dedup!TypeOK
    <3>4. Agree'
      BY <3>1, <3>2 DEF Agree, Dedup!Resolved, Dedup!TimerTraced
    <3>. QED  BY <2>2, <2>o, <3>3, <3>4
  <2>5. CASE window[c] # 0
    <3>1. owner' = c /\ timer' = window[c] /\ timerOf' = c
      BY <1>1, <2>1, <2>5 DEF Dedup!SucceedOwner
    <3>2. entry'[c] = "resolved" /\ window'[c] = window[c] /\ window[c] > 0
      BY <2>1, <2>5, <2>w DEF Dedup!TypeOK
    <3>3. (timer' = None) = (timerOf' = None)
      BY <1>l, <2>w, <3>1
    <3>4. Dedup!TypeOK'
      BY <1>l, <2>1, <2>2, <2>3, <2>w, <3>1, <3>3 DEF Dedup!TypeOK
    <3>5. Agree'
      BY <1>l, <2>1, <2>w, <3>1, <3>2 DEF Agree, Dedup!Resolved, Dedup!TimerTraced
    <3>. QED  BY <2>2, <2>o, <3>4, <3>5
  <2>. QED  BY <2>4, <2>5
<1>2. CASE Dedup!SucceedDropped(c)
  <2>1. /\ Dedup!Leading(c) /\ owner # c /\ entry' = [entry EXCEPT ![c] = "resolved"]
        /\ Dedup!Deliver(c, "ok") /\ entry[c] = "pending"
        /\ UNCHANGED <<owner, age, timer, timerOf, window, role, leader, gaveUp, dropped, wiped,
                       hits, misses>>
    BY <1>2 DEF Dedup!SucceedDropped, Dedup!mapVars, Led
  <2>2. outcome' \in [Calls -> {"none", "ok", "failed", "aborted"}] /\ Led'
    BY <2>1, Delivered
  <2>3. Dedup!TypeOK'
    BY <2>1, <2>2 DEF Dedup!TypeOK
  <2>4. \A d \in Calls \ {c} : entry'[d] = entry[d]
    BY <2>1 DEF Dedup!TypeOK
  <2>5. Owned'
    BY <2>1, <2>4 DEF Dedup!TypeOK, Owned
  <2>6. owner # None => owner \in Calls \ {c}
    BY <2>1 DEF Dedup!TypeOK
  <2>7. timer # None => timerOf \in Calls \ {c} /\ entry[timerOf] = "resolved"
    BY <1>l, <2>1 DEF Dedup!TypeOK, Agree, Dedup!TimerTraced
  <2>8. Agree'
    BY <2>1, <2>4, <2>6, <2>7 DEF Agree, Dedup!Resolved, Dedup!Pending, Dedup!TimerTraced
  <2>. QED  BY <2>2, <2>3, <2>5, <2>8
<1>3. ASSUME NEW o \in {"failed", "aborted"}, Dedup!Fail(c, o) PROVE DedupInv'
  <2>1. /\ Dedup!Leading(c) /\ entry' = [entry EXCEPT ![c] = "failed"]
        /\ Dedup!Deliver(c, o) /\ owner' = (IF owner = c THEN None ELSE owner)
        /\ timer' = None /\ timerOf' = None /\ entry[c] = "pending"
        /\ UNCHANGED <<age, window, role, leader, gaveUp, dropped, wiped, hits, misses>>
    BY <1>3 DEF Dedup!Fail, Dedup!NoTimer, Led
  <2>2. outcome' \in [Calls -> {"none", "ok", "failed", "aborted"}] /\ Led'
    BY <2>1, Delivered
  <2>3. Dedup!TypeOK'
    BY <2>1, <2>2 DEF Dedup!TypeOK
  <2>4. \A d \in Calls \ {c} : entry'[d] = entry[d]
    BY <2>1 DEF Dedup!TypeOK
  <2>5. Owned'
    BY <1>l, <2>1, <2>4 DEF Dedup!TypeOK, Owned
  <2>6. Agree'
    BY <1>l, <2>1, <2>4 DEF Dedup!TypeOK, Agree, Dedup!Resolved, Dedup!TimerTraced
  <2>. QED  BY <2>2, <2>3, <2>5, <2>6
<1>4. ASSUME NEW o \in {"ok", "failed", "aborted"}, Dedup!SettleAlone(c, o) PROVE DedupInv'
  <2>1. Dedup!TypeOK'
    BY <1>4 DEF Dedup!SettleAlone, Dedup!TypeOK, Dedup!mapVars
  <2>2. Led'
    BY <1>4 DEF Dedup!SettleAlone, Dedup!TypeOK, Led, Dedup!Leading
  <2>3. Owned' /\ Agree'
    BY <1>4 DEF Dedup!SettleAlone, Dedup!mapVars, Owned, Agree, Dedup!Resolved, Dedup!Pending,
      Dedup!TimerTraced
  <2>. QED  BY <2>1, <2>2, <2>3
<1>. QED  BY <1>1, <1>2, <1>3, <1>4 DEF Dedup!Settle

----------------------------------------------------------------------------
(* Signals, timers and the owner of the map.                               *)

LEMMA DedupAbort ==
  ASSUME DedupInv, NEW c \in Calls, Dedup!Abort(c)
  PROVE  DedupInv'
<1>. USE DEF DedupInv
<1>1. Dedup!TypeOK'
  BY DEF Dedup!Abort, Dedup!NoTimer, Dedup!TypeOK, Dedup!callVars
<1>2. Led'
  BY DEF Dedup!Abort, Dedup!callVars, Led, Dedup!Leading
<1>3. Owned'
  BY DEF Dedup!Abort, Dedup!callVars, Owned
<1>4. Agree'
  <2>1. CASE role[c] = "leader"
    <3>1. owner' = None /\ timer' = None
      BY <2>1 DEF Dedup!Abort, Dedup!NoTimer
    <3>. QED  BY <3>1 DEF Agree, Dedup!Resolved, Dedup!TimerTraced
  <2>2. CASE role[c] # "leader"
    BY <2>2 DEF Dedup!Abort, Dedup!callVars, Agree, Dedup!Resolved, Dedup!Pending,
      Dedup!TimerTraced
  <2>. QED  BY <2>1, <2>2
<1>. QED  BY <1>1, <1>2, <1>3, <1>4

\* A timer that deletes an entry in flight was left by another one, which the entry could
\* replace for the window it has.
LEMMA DedupEmptied ==
  ASSUME DedupInv, Dedup!Invalidate \/ Dedup!Expire
  PROVE  DedupInv'
<1>. USE DEF DedupInv
<1>l. None \notin Nat /\ None \notin Calls
  BY LongestWindow
<1>1. Dedup!TypeOK'
  BY DEF Dedup!Invalidate, Dedup!Expire, Dedup!NoTimer, Dedup!Pending, Dedup!TypeOK, Dedup!callVars
<1>2. Led'
  BY DEF Dedup!Invalidate, Dedup!Expire, Dedup!callVars, Led, Dedup!Leading
<1>3. Owned'
  <2>1. CASE Dedup!Invalidate
    BY <2>1 DEF Dedup!Invalidate, Dedup!callVars, Owned
  <2>2. CASE Dedup!Expire
    <3>1. timer # None
      BY <1>l, <2>2 DEF Dedup!Expire, Dedup!TimerDue
    <3>2. Dedup!Pending => entry[owner] = "pending" /\ window[owner] > 0 /\ owner \in Calls
      BY <3>1 DEF Agree, Dedup!TimerTraced, Dedup!Pending, Dedup!TypeOK
    <3>3. wiped' = wiped \cup (IF Dedup!Pending THEN {owner} ELSE {})
          /\ UNCHANGED <<entry, window, dropped>>
      BY <2>2 DEF Dedup!Expire, Dedup!callVars
    <3>4. \A c \in Calls : entry[c] = "pending" /\ owner = c => Dedup!Pending
      BY <1>l DEF Dedup!Pending
    <3>. QED  BY <3>2, <3>3, <3>4 DEF Owned
  <2>. QED  BY <2>1, <2>2
<1>4. Agree'
  <2>1. owner' = None /\ timer' = None
    BY DEF Dedup!Invalidate, Dedup!Expire, Dedup!NoTimer
  <2>. QED  BY <2>1 DEF Agree, Dedup!Resolved, Dedup!TimerTraced
<1>. QED  BY <1>1, <1>2, <1>3, <1>4

LEMMA DedupTick ==
  ASSUME DedupInv, Dedup!Tick
  PROVE  DedupInv'
<1>. USE DEF DedupInv
<1>l. /\ Dedup!MaxWindow \in Nat /\ Windows \subseteq 0..Dedup!MaxWindow /\ Windows \subseteq Nat
      /\ None \notin Nat /\ None \notin Calls
  BY LongestWindow
<1>1. Dedup!TypeOK'
  BY <1>l DEF Dedup!Tick, Dedup!Older, Dedup!TypeOK, Dedup!callVars
<1>2. Led' /\ Owned'
  BY DEF Dedup!Tick, Dedup!callVars, Led, Dedup!Leading, Owned
<1>3. /\ UNCHANGED <<owner, timerOf, entry, window>> /\ age \in Nat
      /\ age' = (IF age <= Dedup!MaxWindow THEN age + 1 ELSE age)
      /\ timer' = (IF timer \in 1..Dedup!MaxWindow THEN timer - 1 ELSE timer)
      /\ timer' # None <=> timer # None
  BY <1>l DEF Dedup!Tick, Dedup!Older, Dedup!TypeOK, Dedup!callVars
<1>4. Dedup!TimerTraced'
  BY <1>3 DEF Agree, Dedup!TimerTraced, Dedup!Pending
\* The timer goes down as the age of its result goes up.
<1>5. ASSUME timer # None, timerOf = owner
      PROVE  \/ timer' > 0 /\ age' + timer' = window[owner]
             \/ timer' = 0 /\ age' >= window[owner]
  <2>1. entry[owner] = "resolved" /\ owner \in Calls
    BY <1>l, <1>5 DEF Agree, Dedup!TimerTraced, Dedup!TypeOK
  <2>2. window[owner] \in Nat /\ window[owner] <= Dedup!MaxWindow
    <3>1. window[owner] \in 0..Dedup!MaxWindow
      BY <1>l, <2>1 DEF Led
    <3>. QED  BY <1>l, <3>1
  <2>3. timer \in 0..Dedup!MaxWindow
    BY <1>5 DEF Dedup!TypeOK
  <2>4. CASE timer > 0
    BY <1>l, <1>3, <1>5, <2>2, <2>3, <2>4 DEF Agree
  <2>5. CASE timer = 0
    BY <1>l, <1>3, <1>5, <2>2, <2>5 DEF Agree
  <2>. QED  BY <2>3, <2>4, <2>5
<1>6. Agree'
  BY <1>3, <1>4, <1>5 DEF Agree, Dedup!Resolved
<1>. QED  BY <1>1, <1>2, <1>6

----------------------------------------------------------------------------
LEMMA DedupNext ==
  ASSUME DedupInv, [Dedup!Next]_(Dedup!dedupVars)
  PROVE  DedupInv'
<1>1. CASE Dedup!Next
  BY <1>1, DedupExecute, DedupSettle, DedupAbort, DedupEmptied, DedupTick DEF Dedup!Next
<1>2. CASE UNCHANGED Dedup!dedupVars
  <2>. USE <1>2 DEF Dedup!dedupVars, Dedup!mapVars, Dedup!callVars
  <2>1. Dedup!TypeOK' /\ Led'
    BY DEF DedupInv, Dedup!TypeOK, Led, Dedup!Leading
  <2>2. Owned' /\ Agree'
    BY DEF DedupInv, Owned, Agree, Dedup!Resolved, Dedup!Pending, Dedup!TimerTraced
  <2>. QED  BY <2>1, <2>2 DEF DedupInv
<1>. QED  BY <1>1, <1>2

\* No step of the map takes a result from its owner before its window is over, unless it
\* empties the key or is that of a caller for whom the result is too old.
LEMMA KeptForWindow ==
  ASSUME DedupInv, [Dedup!Next]_(Dedup!dedupVars), Dedup!Resolved, owner' # owner, ~dropped'
  PROVE  \/ age >= window[owner]
         \/ owner' # None /\ window'[owner'] \in 1..(age - 1)
<1>l. Windows \subseteq Nat /\ None \notin Nat /\ None \notin Calls
  BY LongestWindow
<1>2. ASSUME NEW c \in Calls, Dedup!Execute(c)
      PROVE  owner' # None /\ window'[owner'] \in 1..(age - 1)
  <2>1. PICK w \in Windows : Dedup!Lead(c, w)
    BY <1>2 DEF Dedup!Execute, Dedup!Bypass, Dedup!Join, Dedup!JoinWindow, Dedup!OwnRequest,
      Dedup!mapVars
  <2>2. w > 0 /\ age > w /\ w \in Nat /\ age \in Nat
    BY <1>l, <2>1 DEF Dedup!Lead, Dedup!Free, Dedup!Resolved, Dedup!Lapsed, DedupInv, Dedup!TypeOK
  <2>3. owner' = c /\ window'[c] = w
    BY <2>1 DEF Dedup!Lead, DedupInv, Dedup!TypeOK
  <2>. QED  BY <1>l, <2>2, <2>3
<1>3. ASSUME NEW c \in Calls, Dedup!Settle(c) PROVE FALSE
  <2>1. owner # c \/ ~Dedup!Leading(c)
    BY DEF DedupInv, Led, Dedup!Resolved
  <2>. QED  BY <1>3, <2>1 DEF Dedup!Settle, Dedup!SucceedOwner, Dedup!SucceedDropped,
      Dedup!SettleAlone, Dedup!Fail, Dedup!mapVars
<1>4. ASSUME NEW c \in Calls, Dedup!Abort(c) PROVE FALSE
  BY <1>4 DEF Dedup!Abort
<1>5. CASE Dedup!Invalidate
  BY <1>5 DEF Dedup!Invalidate
<1>6. CASE Dedup!Expire
  <2>1. timer = 0 /\ timer # None
    BY <1>6, <1>l DEF Dedup!Expire, Dedup!TimerDue
  <2>2. timerOf = owner
    BY <2>1 DEF DedupInv, Agree, Dedup!TimerTraced, Dedup!Resolved, Dedup!Pending
  <2>. QED  BY <2>1, <2>2 DEF DedupInv, Agree
<1>7. CASE Dedup!Tick
  BY <1>7 DEF Dedup!Tick
<1>8. CASE UNCHANGED Dedup!dedupVars
  BY <1>8 DEF Dedup!dedupVars, Dedup!mapVars
<1>. QED  BY <1>2, <1>3, <1>4, <1>5, <1>6, <1>7, <1>8 DEF Dedup!Next

LEMMA DedupStep == [Next]_vars => [Dedup!Next]_(Dedup!dedupVars)
<1>1. CASE OfDedup(Dedup!Next)
  BY <1>1 DEF OfDedup
<1>2. CASE OfSse(Sse!Next) \/ OfExchange(Exchange!Next) \/ OfHttp(Http!Next) \/ OfBody(Body!Next)
           \/ UNCHANGED vars
  BY <1>2 DEF OfSse, OfExchange, OfHttp, OfBody, vars, dedup, Dedup!dedupVars, Dedup!mapVars, Dedup!callVars
<1>. QED  BY <1>1, <1>2 DEF Next

LEMMA DedupKept == Spec => []DedupInv
<1>1. Init => DedupInv
  BY DedupInit DEF Init
<1>2. DedupInv /\ [Next]_vars => DedupInv'
  BY DedupStep, DedupNext
<1>. QED  BY <1>1, <1>2, PTL DEF Spec

\* For any callers and windows, and however late a timer runs: what is in flight for a key has
\* it until something empties it, but for entries that the timer of an older result has
\* deleted; a timer that is not that of the key's result was left by one that an entry with a
\* window replaced; and whoever shares a promise ends as its leader (dedup.ts 241-364).
THEOREM AlwaysMapExact == Spec => []MapExact
<1>1. DedupInv => Dedup!SingleFlight
  BY DEF DedupInv, Owned, Dedup!SingleFlight, Dedup!PendingLeaders
<1>2. DedupInv => Dedup!TimerTraced /\ Dedup!SharersFollow
  BY DEF DedupInv, Agree, Led, Dedup!SharersFollow
<1>3. DedupInv => MapExact
  BY <1>1, <1>2 DEF DedupInv, MapExact
<1>. QED  BY <1>3, DedupKept, PTL

\* Unless something empties the key, it keeps a result for the whole window of its leader, or
\* until a caller with a shorter window finds it too old for that.
THEOREM WindowsHonoured == Spec => WindowHonoured
<1>1. DedupInv /\ [Next]_vars
        => [Dedup!Resolved /\ owner' # owner /\ ~dropped' =>
              \/ age >= window[owner]
              \/ owner' # None /\ window'[owner'] \in 1..(age - 1)]_(Dedup!dedupVars)
  BY DedupStep, KeptForWindow
<1>. QED  BY <1>1, DedupKept, PTL DEF Spec, WindowHonoured, Dedup!WindowHonoured

----------------------------------------------------------------------------
(* The attempt of a request, with its redirects.                           *)

\* What every request of a chain is: its credentials are at home, its cookies are those of
\* its own origin, a body comes with a POST, and a HEAD is a HEAD.
Proper(r) ==
  /\ r.auth => Origin[r.url] = Origin[First]
  /\ r.cookies \subseteq {Origin[r.url]}
  /\ r.body # "none" => r.method = "POST"
  /\ request.method = "HEAD" => r.method = "HEAD"

Streaming == {i \in DOMAIN trail : trail[i].body = "stream"}

\* The chain of requests: the one at hand is proper and so are those that were sent, and a
\* stream that is about to be sent has not been sent.
Chain ==
  /\ request.url = First /\ Proper(request)
  /\ Proper(current) /\ \A i \in DOMAIN trail : Proper(trail[i])
  /\ \A i, j \in Streaming : i = j
  /\ place = "sending" /\ current.body = "stream" => Streaming = {}

\* A hop has been sent or is about to be.
Hops ==
  /\ place = "sending" => Len(trail) = hop
  /\ place = "waiting" => Len(trail) = hop + 1

\* The places between an attempt's beginning and the end of what is nested in it.
Going == {"interceptors", "lookup", "sending", "waiting", "answered", "reading", "parsing",
          "responding"}

\* onSuccess is called once for each attempt, after those that are nested in it.
TellsLeft ==
  /\ place \in Going => told = 0
  /\ place = "finishing" => told + depth <= MaxResends

\* A response without a body is not held open.
Held == Exchange!NothingHeld /\ (place = "answered" /\ status = "not modified" => ~open)

ExchangeInv == Exchange!TypeOK /\ Chain /\ Hops /\ TellsLeft /\ Held

LEMMA ExchangeInit == Init => ExchangeInv
<1>. SUFFICES ASSUME Exchange!Init PROVE ExchangeInv
  BY DEF Init
<1>. USE FlowsAssumption
<1>1. PICK m \in {"GET", "HEAD", "POST"}, b \in Exchange!Bodies, a \in BOOLEAN :
        /\ b # "none" => m = "POST"
        /\ request = [url |-> First, method |-> m, body |-> b, auth |-> a,
                      cookies |-> Exchange!CookiesFor(First, jar)]
  BY DEF Exchange!Init
<1>2. jar \subseteq Exchange!Origins /\ Exchange!CookiesFor(First, jar) \subseteq {Origin[First]}
  BY DEF Exchange!Init, Exchange!CookiesFor
<1>3. request \in Exchange!Requests /\ current = request /\ trail = <<>>
  BY <1>1, <1>2 DEF Exchange!Init, Exchange!Requests, Exchange!Bodies, Exchange!CookiesFor
<1>4. Exchange!TypeOK
  <2>1. trail \in Seq(Exchange!Requests) /\ Len(trail) = 0 /\ hop = 0 /\ limit \in {0, MaxRedirects}
    BY <1>3 DEF Exchange!Init
  <2>2. hop \in 0..limit /\ Len(trail) <= limit + 1
    BY <2>1
  <2>3. /\ place \in Exchange!Places /\ status \in Exchange!Statuses /\ visited \subseteq Urls
        /\ depth \in 0..MaxResends /\ told \in 0..(MaxResends + 1)
    BY DEF Exchange!Init, Exchange!Places, Exchange!Statuses
  <2>. QED  BY <1>2, <1>3, <2>1, <2>2, <2>3 DEF Exchange!Init, Exchange!TypeOK
<1>5. Proper(request)
  BY <1>1, <1>2 DEF Proper
<1>6. Chain
  BY <1>1, <1>3, <1>5 DEF Chain, Streaming, Exchange!Init
<1>7. Hops /\ TellsLeft /\ Held
  BY DEF Exchange!Init, Hops, TellsLeft, Held, Going, Exchange!NothingHeld
<1>. QED  BY <1>4, <1>6, <1>7 DEF ExchangeInv

\* What a hop adds to the trail.
LEMMA Sent ==
  ASSUME NEW S, NEW seq \in Seq(S), NEW e \in S
  PROVE  /\ Append(seq, e) \in Seq(S) /\ Len(Append(seq, e)) = Len(seq) + 1
         /\ DOMAIN seq = 1..Len(seq) /\ DOMAIN Append(seq, e) = 1..(Len(seq) + 1)
         /\ \A i \in 1..Len(seq) : Append(seq, e)[i] = seq[i]
         /\ Append(seq, e)[Len(seq) + 1] = e /\ Len(seq) \in Nat
  OBVIOUS

LEMMA TransmitKept == ASSUME ExchangeInv, Exchange!Transmit PROVE ExchangeInv'
<1>. USE DEF ExchangeInv
<1>1. /\ current' = [current EXCEPT !.auth = @ \/ Exchange!Reapply]
      /\ trail' = Append(trail, current') /\ place = "sending" /\ place' = "waiting"
      /\ deaf' \in {deaf, aborted}
      /\ UNCHANGED <<depth, request, limit, hop, visited, jar, status, open, armed, aborted, told>>
  BY DEF Exchange!Transmit
<1>2. current \in Exchange!Requests /\ request \in Exchange!Requests /\ trail \in Seq(Exchange!Requests)
  BY DEF Exchange!TypeOK
<1>3. /\ current' \in Exchange!Requests /\ current'.url = current.url /\ current'.body = current.body
      /\ current'.method = current.method /\ current'.cookies = current.cookies
      /\ current'.auth = (current.auth \/ Exchange!Reapply)
  BY <1>1, <1>2 DEF Exchange!Requests, Exchange!Reapply
<1>4. /\ trail' \in Seq(Exchange!Requests) /\ Len(trail') = Len(trail) + 1
      /\ DOMAIN trail = 1..Len(trail) /\ DOMAIN trail' = 1..(Len(trail) + 1)
      /\ \A i \in 1..Len(trail) : trail'[i] = trail[i]
      /\ trail'[Len(trail) + 1] = current' /\ Len(trail) \in Nat
  BY <1>1, <1>2, <1>3, Sent
<1>5. Exchange!TypeOK'
  <2>1. Len(trail) = hop /\ hop \in 0..limit /\ limit \in Nat
    BY <1>1, FlowsAssumption DEF Hops, Exchange!TypeOK
  <2>. QED  BY <1>1, <1>3, <1>4, <2>1 DEF Exchange!TypeOK, Exchange!Places
<1>6. Proper(current)'
  <2>1. Exchange!Reapply => Origin[current.url] = Origin[First]
    BY DEF Exchange!Reapply, Chain
  <2>. QED  BY <1>1, <1>3, <2>1 DEF Chain, Proper
<1>7. Proper(request)'
  BY <1>1, <1>4 DEF Chain, Proper
<1>8. Chain'
  <2>1. (\A i \in DOMAIN trail : Proper(trail[i]))'
    <3>1. SUFFICES ASSUME NEW i \in DOMAIN trail' PROVE Proper(trail[i])'
      OBVIOUS
    <3>2. CASE i \in 1..Len(trail)
      BY <1>1, <1>4, <3>2 DEF Chain, Proper
    <3>3. CASE i = Len(trail) + 1
      BY <1>4, <1>6, <3>3 DEF Proper
    <3>. QED  BY <1>4, <3>1, <3>2, <3>3
  <2>2. \A i \in Streaming' : i \in Streaming \/ (i = Len(trail) + 1 /\ current.body = "stream")
    BY <1>3, <1>4 DEF Streaming
  <2>3. \A i, j \in Streaming' : i = j
    BY <1>1, <2>2 DEF Chain
  <2>. QED  BY <1>1, <1>6, <1>7, <2>1, <2>3 DEF Chain
<1>9. Hops' /\ TellsLeft' /\ Held'
  BY <1>1, <1>4 DEF Hops, TellsLeft, Going, Held, Exchange!NothingHeld
<1>. QED  BY <1>5, <1>8, <1>9

\* A redirect keeps a proper request proper, and no stream survives it.
LEMMA FollowKept ==
  ASSUME ExchangeInv, NEW s \in Exchange!Redirects, NEW to \in Urls, Exchange!Follow(s, to)
  PROVE  ExchangeInv'
<1>. USE DEF ExchangeInv
<1>1. /\ current' = Exchange!Redirected(s, to, jar') /\ Exchange!NextBody(s) # "stream"
      /\ hop' = hop + 1 /\ hop < limit /\ status' = s
      /\ place = "waiting" /\ place' = "sending" /\ UNCHANGED armed
      /\ visited' = visited \cup {current.url}
      /\ jar' \in {jar, jar \cup {Origin[current.url]}}
      /\ UNCHANGED <<depth, request, limit, trail, deaf, open, aborted, told>>
  BY DEF Exchange!Follow, Exchange!Hearing, Exchange!Keep
<1>2. /\ current \in Exchange!Requests /\ current.url \in Urls /\ current.auth \in BOOLEAN
      /\ current.method \in {"GET", "HEAD", "POST"} /\ current.body \in Exchange!Bodies
  BY DEF Exchange!TypeOK, Exchange!Requests
<1>3. jar' \subseteq Exchange!Origins
  BY <1>1, <1>2 DEF Exchange!TypeOK, Exchange!Origins
<1>. DEFINE across == Origin[to] # Origin[current.url]
<1>4. /\ current'.url = to /\ current'.body = Exchange!NextBody(s)
      /\ current'.method = IF Exchange!BecomesGet(s) THEN "GET" ELSE current.method
      /\ current'.auth = (current.auth /\ ~across)
      /\ current'.cookies = Exchange!CookiesFor(to, jar')
      /\ current' = [url |-> to,
                     method |-> IF Exchange!BecomesGet(s) THEN "GET" ELSE current.method,
                     body |-> Exchange!NextBody(s), auth |-> current.auth /\ ~across,
                     cookies |-> Exchange!CookiesFor(to, jar')]
  BY <1>1 DEF Exchange!Redirected
<1>5. current' \in Exchange!Requests
  <2>1. Exchange!NextBody(s) \in Exchange!Bodies
    BY <1>2 DEF Exchange!NextBody, Exchange!Bodies
  <2>2. Exchange!CookiesFor(to, jar') \subseteq Exchange!Origins
    BY <1>3 DEF Exchange!CookiesFor
  <2>. QED  BY <1>2, <1>4, <2>1, <2>2 DEF Exchange!Requests
<1>6. Exchange!TypeOK'
  <2>1. hop' \in 0..limit
    BY <1>1, FlowsAssumption DEF Exchange!TypeOK
  <2>. QED  BY <1>1, <1>2, <1>3, <1>5, <2>1 DEF Exchange!TypeOK, Exchange!Places, Exchange!Statuses
<1>7. Proper(current)'
  <2>1. current'.auth => Origin[to] = Origin[First]
    BY <1>4 DEF Chain, Proper
  <2>2. current'.cookies \subseteq {Origin[to]}
    BY <1>4 DEF Exchange!CookiesFor
  <2>3. current'.body # "none" => current'.method = "POST"
    BY <1>4 DEF Exchange!NextBody, Chain, Proper
  <2>4. request.method = "HEAD" => current'.method = "HEAD"
    BY <1>4 DEF Exchange!BecomesGet, Chain, Proper
  <2>. QED  BY <1>1, <1>4, <2>1, <2>2, <2>3, <2>4 DEF Proper
<1>8. Proper(request)' /\ \A i \in DOMAIN trail : Proper(trail[i])'
  BY <1>1 DEF Chain, Proper
<1>9. Chain'
  BY <1>1, <1>4, <1>7, <1>8 DEF Chain, Proper, Streaming
<1>10. Hops'
  BY <1>1 DEF Hops
<1>11. TellsLeft' /\ Held'
  BY <1>1 DEF TellsLeft, Going, Held, Exchange!NothingHeld
<1>. QED  BY <1>6, <1>9, <1>10, <1>11

LEMMA DispatchKept == ASSUME ExchangeInv, Exchange!Dispatch PROVE ExchangeInv'
<1>. USE DEF ExchangeInv
<1>1. /\ place = "lookup" /\ place' = "sending" /\ armed' = TRUE
      /\ current' = request /\ hop' = 0 /\ visited' = {} /\ trail' = <<>>
      /\ deaf' = FALSE
      /\ UNCHANGED <<depth, request, limit, jar, status, open, aborted, told>>
  BY DEF Exchange!Dispatch
<1>2. trail' \in Seq(Exchange!Requests) /\ Len(trail') = 0 /\ DOMAIN trail' = {}
  BY <1>1
<1>3. Exchange!TypeOK'
  <2>1. limit \in Nat /\ hop' \in 0..limit'
    BY <1>1, FlowsAssumption DEF Exchange!TypeOK
  <2>2. /\ armed' \in BOOLEAN /\ deaf' \in BOOLEAN /\ aborted' \in BOOLEAN /\ open' \in BOOLEAN
        /\ current' \in Exchange!Requests /\ place' \in Exchange!Places
    BY <1>1, Zenon DEF Exchange!TypeOK, Exchange!Places
  <2>3. Len(trail') <= limit' + 1 /\ visited' \subseteq Urls
    BY <1>1, <1>2, <2>1
  <2>. QED  BY <1>1, <1>2, <2>1, <2>2, <2>3 DEF Exchange!TypeOK
<1>4. Chain' /\ Hops'
  BY <1>1, <1>2 DEF Chain, Proper, Streaming, Hops
<1>5. TellsLeft' /\ Held'
  BY <1>1 DEF TellsLeft, Going, Held, Exchange!NothingHeld
<1>. QED  BY <1>3, <1>4, <1>5

\* The chain is as it was, and is not continued.
LEMMA ChainAside ==
  ASSUME ExchangeInv, UNCHANGED <<request, current, limit, hop, trail>>,
         place' = place \/ place' \notin {"sending", "waiting"}
  PROVE  Chain' /\ Hops'
  BY DEF ExchangeInv, Chain, Hops, Proper, Streaming

\* An attempt is left for the one that has sent it, or for the caller.
LEMMA BuiltKept ==
  ASSUME ExchangeInv, place \in Going, Exchange!Built
  PROVE  /\ depth' \in 0..MaxResends /\ place' \in {"done", "finishing", "failed"}
         /\ place' = "finishing" => told + depth' <= MaxResends
  BY FlowsAssumption DEF ExchangeInv, Exchange!Built, Exchange!Returned, Exchange!TypeOK, TellsLeft

\* One more of a bounded number, and none told of what is within the bound.
LEMMA OneFurther == ASSUME NEW n \in Nat, NEW d \in 0..n, d < n PROVE d + 1 \in 0..n
  OBVIOUS

LEMMA WithinResends == ASSUME NEW n \in Nat, NEW d \in 0..n PROVE 0 + d <= n
  OBVIOUS

\* The response interceptors send once more, or give the response on.
LEMMA RespondKept == ASSUME ExchangeInv, Exchange!Respond PROVE ExchangeInv'
<1>1. /\ told = 0 /\ ~armed /\ ~open /\ depth \in 0..MaxResends /\ place = "responding"
      /\ UNCHANGED <<request, current, limit, hop, visited, trail, deaf, jar, open, armed, told>>
  BY DEF Exchange!Respond, ExchangeInv, Exchange!TypeOK, TellsLeft, Going, Held,
         Exchange!NothingHeld, Exchange!wire
<1>2. /\ depth' \in 0..MaxResends /\ place' \in {"finishing", "failed", "interceptors"}
      /\ status' \in Exchange!Statuses /\ aborted' = aborted
  <2>1. CASE place' \in {"finishing", "failed"} /\ UNCHANGED <<depth, aborted>>
    BY <1>1, <2>1 DEF Exchange!Respond, ExchangeInv, Exchange!TypeOK, Exchange!Statuses
  <2>2. CASE place' = "interceptors" /\ depth' = depth + 1 /\ depth < MaxResends
             /\ UNCHANGED <<status, aborted>>
    BY <1>1, <2>2, FlowsAssumption, OneFurther DEF ExchangeInv, Exchange!TypeOK
  <2>. QED  BY <2>1, <2>2 DEF Exchange!Respond
<1>3. Exchange!TypeOK'
  BY <1>1, <1>2 DEF ExchangeInv, Exchange!TypeOK, Exchange!Places
<1>4. TellsLeft'
  <2>1. 0 + depth' <= MaxResends
    BY <1>2, FlowsAssumption, WithinResends
  <2>. QED  BY <1>1, <2>1 DEF TellsLeft
<1>5. Held'
  BY <1>1, <1>2 DEF Held, Exchange!NothingHeld
<1>. QED  BY <1>1, <1>2, <1>3, <1>4, <1>5, ChainAside DEF ExchangeInv

\* An attempt ends, and the one that has sent it goes on.
LEMMA FinishKept == ASSUME ExchangeInv, Exchange!Finish PROVE ExchangeInv'
<1>1. /\ ~armed /\ ~open /\ depth \in 0..MaxResends /\ told \in 0..(MaxResends + 1)
      /\ place = "finishing" /\ told + depth <= MaxResends
      /\ UNCHANGED <<request, current, limit, hop, visited, trail, deaf, jar, status, open,
                     armed, aborted>>
  BY DEF Exchange!Finish, ExchangeInv, Exchange!TypeOK, TellsLeft, Held, Exchange!NothingHeld,
         Exchange!wire
<1>2. /\ place' \in {"done", "finishing", "failed"} /\ depth' \in 0..MaxResends
      /\ told' \in 0..(MaxResends + 1)
      /\ place' = "finishing" => told' + depth' <= MaxResends
  <2>1. CASE told' = told + 1 /\ Exchange!Returned
    <3>1. CASE depth = 0 /\ place' = "done" /\ depth' = depth
      BY <1>1, <2>1, <3>1, FlowsAssumption
    <3>2. CASE depth # 0 /\ place' = "finishing" /\ depth' = depth - 1
      BY <1>1, <2>1, <3>2, FlowsAssumption
    <3>. QED  BY <2>1, <3>1, <3>2 DEF Exchange!Returned
  <2>2. CASE place' = "failed" /\ UNCHANGED <<depth, told>>
    BY <1>1, <2>2
  <2>. QED  BY <2>1, <2>2 DEF Exchange!Finish
<1>3. Exchange!TypeOK'
  BY <1>1, <1>2 DEF ExchangeInv, Exchange!TypeOK, Exchange!Places
<1>4. TellsLeft'
  BY <1>2 DEF TellsLeft, Going
<1>5. Held'
  BY <1>1, <1>2 DEF Held, Exchange!NothingHeld
<1>. QED  BY <1>1, <1>2, <1>3, <1>4, <1>5, ChainAside DEF ExchangeInv

LEMMA OthersKept ==
  ASSUME ExchangeInv,
         \/ Exchange!Intercept \/ Exchange!Synthetic \/ Exchange!Hit \/ Exchange!Answered
         \/ Exchange!AfterRequest \/ Exchange!Read \/ Exchange!Abort \/ Exchange!CallerAborts
         \/ Exchange!GiveUp \/ Exchange!HopTimesOut
         \/ Exchange!Parse \/ Exchange!Respond \/ Exchange!Finish
         \/ \E s \in Exchange!Redirects : Exchange!Refuse(s)
  PROVE  ExchangeInv'
<1>n. MaxRedirects \in Nat /\ MaxResends \in Nat
  BY FlowsAssumption
<1>. USE <1>n DEF ExchangeInv, Exchange!TypeOK, TellsLeft, Held, Exchange!NothingHeld
<1>. USE DEF Exchange!Places, Exchange!Statuses, Exchange!Redirects, Going, Exchange!wire,
             Exchange!EndAttempt, Exchange!Keep, Exchange!Parsed
<1>1. CASE Exchange!Intercept
  <2>1. Exchange!TypeOK' /\ TellsLeft' /\ Held'
    BY <1>1 DEF Exchange!Intercept
  <2>. QED  BY <1>1, <2>1, ChainAside DEF Exchange!Intercept
<1>2. CASE Exchange!Synthetic
  <2>1. Exchange!TypeOK' /\ TellsLeft' /\ Held'
    BY <1>2 DEF Exchange!Synthetic
  <2>. QED  BY <1>2, <2>1, ChainAside DEF Exchange!Synthetic
<1>3. CASE Exchange!Hit
  <2>1. /\ depth' \in 0..MaxResends /\ place' \in {"done", "finishing", "failed"}
        /\ place' = "finishing" => told + depth' <= MaxResends
    BY <1>3, BuiltKept DEF Exchange!Hit
  <2>2. Exchange!TypeOK' /\ TellsLeft' /\ Held'
    BY <1>3, <2>1 DEF Exchange!Hit
  <2>. QED  BY <1>3, <2>1, <2>2, ChainAside DEF Exchange!Hit
<1>4. CASE Exchange!Answered
  <2>1. Exchange!TypeOK' /\ TellsLeft' /\ Held'
    BY <1>4 DEF Exchange!Answered, Exchange!Hearing
  <2>. QED  BY <1>4, <2>1, ChainAside DEF Exchange!Answered
<1>5. CASE Exchange!AfterRequest
  <2>1. CASE Exchange!Built /\ status = "not modified" /\ armed' = FALSE
    <3>1. /\ depth' \in 0..MaxResends /\ place' \in {"done", "finishing", "failed"}
          /\ place' = "finishing" => told + depth' <= MaxResends
      BY <1>5, <2>1, BuiltKept DEF Exchange!AfterRequest
    <3>2. Exchange!TypeOK' /\ TellsLeft' /\ Held'
      BY <1>5, <2>1, <3>1 DEF Exchange!AfterRequest
    <3>. QED  BY <1>5, <3>1, <3>2, ChainAside DEF Exchange!AfterRequest
  <2>2. CASE place' \in {"reading", "abandoned"} /\ UNCHANGED depth /\ armed' = (place' = "reading")
    <3>1. Exchange!TypeOK' /\ TellsLeft' /\ Held'
      BY <1>5, <2>2 DEF Exchange!AfterRequest
    <3>. QED  BY <1>5, <2>2, <3>1, ChainAside DEF Exchange!AfterRequest
  <2>. QED  BY <1>5, <2>1, <2>2 DEF Exchange!AfterRequest
<1>6. CASE Exchange!Read
  <2>1. Exchange!TypeOK' /\ TellsLeft' /\ Held'
    BY <1>6 DEF Exchange!Read
  <2>. QED  BY <1>6, <2>1, ChainAside DEF Exchange!Read
<1>7. CASE Exchange!Abort \/ Exchange!CallerAborts
  <2>1. /\ aborted' = TRUE
        /\ UNCHANGED <<place, depth, request, current, limit, hop, visited, trail, deaf, jar,
                       status, open, armed, told>>
    BY <1>7 DEF Exchange!Abort, Exchange!CallerAborts
  <2>2. Exchange!TypeOK'
    BY <2>1
  <2>3. TellsLeft' /\ Held'
    BY <2>1
  <2>. QED  BY <2>1, <2>2, <2>3, ChainAside
<1>8. CASE Exchange!GiveUp \/ Exchange!HopTimesOut
  <2>1. /\ place' = "failed" /\ armed' = FALSE /\ open' \in {FALSE, open}
        /\ place \in {"waiting", "reading"}
        /\ UNCHANGED <<depth, request, current, limit, hop, visited, trail, deaf, jar, status,
                       aborted, told>>
    BY <1>8 DEF Exchange!GiveUp, Exchange!HopTimesOut
  <2>2. Exchange!TypeOK'
    BY <2>1
  <2>3. open' = FALSE
    <3>1. place = "waiting" => open = FALSE
      OBVIOUS
    <3>. QED  BY <1>8, <3>1, Zenon DEF Exchange!GiveUp, Exchange!HopTimesOut
  <2>4. TellsLeft' /\ Held'
    <3>1. ~armed' /\ ~open' /\ place' = "failed"
      BY <2>1, <2>3
    <3>. QED  BY <3>1
  <2>. QED  BY <2>1, <2>2, <2>4, ChainAside
<1>9. CASE Exchange!Parse
  <2>1. Origin[current.url] \in Exchange!Origins
    BY DEF Exchange!Requests, Exchange!Origins
  <2>2. Exchange!TypeOK' /\ TellsLeft' /\ Held'
    BY <1>9, <2>1 DEF Exchange!Parse
  <2>. QED  BY <1>9, <2>2, ChainAside DEF Exchange!Parse
<1>10. CASE Exchange!Respond
  BY <1>10, RespondKept
<1>11. CASE Exchange!Finish
  BY <1>11, FinishKept
<1>12. ASSUME NEW s \in Exchange!Redirects, Exchange!Refuse(s) PROVE ExchangeInv'
  <2>1. Origin[current.url] \in Exchange!Origins /\ current.url \in Urls
    BY DEF Exchange!Requests, Exchange!Origins
  <2>2. Exchange!TypeOK' /\ TellsLeft' /\ Held'
    BY <1>12, <2>1 DEF Exchange!Refuse, Exchange!Hearing
  <2>. QED  BY <1>12, <2>2, ChainAside DEF Exchange!Refuse
<1>. QED  BY <1>1, <1>2, <1>3, <1>4, <1>5, <1>6, <1>7, <1>8, <1>9, <1>10, <1>11, <1>12

LEMMA ExchangeStep == ExchangeInv /\ [Next]_vars => ExchangeInv'
<1>. SUFFICES ASSUME ExchangeInv, [Next]_vars PROVE ExchangeInv'
  OBVIOUS
<1>1. CASE OfExchange(Exchange!Next)
  <2>1. Exchange!Next
    BY <1>1 DEF OfExchange
  <2>. QED  BY <2>1, DispatchKept, TransmitKept, FollowKept, OthersKept DEF Exchange!Next
<1>2. CASE OfDedup(Dedup!Next) \/ OfSse(Sse!Next) \/ OfHttp(Http!Next) \/ OfBody(Body!Next)
           \/ UNCHANGED vars
  <2>1. UNCHANGED exchange
    BY <1>2 DEF OfDedup, OfSse, OfHttp, OfBody, vars
  <2>2. Exchange!TypeOK' /\ TellsLeft'
    BY <2>1 DEF exchange, ExchangeInv, Exchange!TypeOK, TellsLeft
  <2>3. Held'
    BY <2>1 DEF exchange, ExchangeInv, Held, Exchange!NothingHeld
  <2>. QED  BY <2>1, <2>2, <2>3, ChainAside DEF exchange, ExchangeInv
<1>. QED  BY <1>1, <1>2 DEF Next

LEMMA ExchangeKept == Spec => []ExchangeInv
  BY ExchangeInit, ExchangeStep, PTL DEF Spec

\* However redirects lead from origin to origin and back, the credentials go to the origin
\* of the request only, each origin is sent its own cookies only, a stream is sent once, a
\* HEAD stays a HEAD and a body goes with a POST (client.ts).
THEOREM RedirectsSafeCorrect == Spec => []RedirectsSafe
<1>1. ASSUME ExchangeInv PROVE RedirectsSafe
  <2>1. Exchange!CredentialsStayHome
    BY <1>1 DEF ExchangeInv, Chain, Proper, Exchange!CredentialsStayHome
  <2>2. Exchange!ChainKeepsRequest
    BY <1>1 DEF ExchangeInv, Chain, Proper, Streaming, Exchange!ChainKeepsRequest
  <2>. QED  BY <2>1, <2>2 DEF RedirectsSafe
<1>. QED  BY <1>1, ExchangeKept, PTL

----------------------------------------------------------------------------
(* A request over node:http.                                               *)

\* Before the request is made nothing of it is there, and only the deadline can have ended
\* the wait for it.
Unmade ==
  stage # "made" => /\ ~listening /\ wire = "none" /\ writer = "none" /\ agent = "none"
                    /\ result = "pending" \/ fired
                    /\ stage = "idle" => ~fired

\* A timer is one of the deadline, which is still to pass; and while the request lives, a
\* signal that may abort is listened to.
Watched ==
  /\ deadline => setup.timeout /\ ~fired /\ stage # "idle"
  /\ fired => result # "pending"
  /\ stage = "made" /\ Http!Alive /\ (setup.signal \/ setup.timeout) => listening

HttpInv == Http!TypeOK /\ Http!RequestsClosed /\ Unmade /\ Watched

LEMMA HttpInit == Init => HttpInv
  BY DEF Init, Http!Init, HttpInv, Http!TypeOK, Http!RequestsClosed, Unmade, Watched, Http!Alive,
         Http!Setups

LEMMA HttpTypes ==
  ASSUME HttpInv, Http!Next PROVE Http!TypeOK'
<1>. USE DEF HttpInv, Http!TypeOK, Http!Settle, Http!Closed
<1>1. CASE Http!Begin \/ Http!Connected \/ Http!Blocked \/ Http!Drained
  BY <1>1 DEF Http!Begin, Http!Setups, Http!Connected, Http!Blocked, Http!Drained
<1>2. CASE Http!Imported \/ Http!Encoded
  BY <1>2 DEF Http!Imported, Http!Encoded, Http!Make, Http!Dialled, Http!Written, Http!Merged, Http!Setups
<1>3. CASE Http!BodyEnds \/ Http!Answered
  BY <1>3 DEF Http!BodyEnds, Http!Answered
<1>4. CASE Http!Finished \/ Http!Fails \/ Http!Destroy
  BY <1>4 DEF Http!Finished, Http!Fails, Http!Destroy
<1>5. CASE Http!CallerAborts
  BY <1>5 DEF Http!CallerAborts, Http!Heard
<1>6. CASE Http!Fire
  BY <1>6 DEF Http!Fire, Http!Race
<1>. QED  BY <1>1, <1>2, <1>3, <1>4, <1>5, <1>6 DEF Http!Next

LEMMA HttpNext == ASSUME HttpInv, Http!Next PROVE HttpInv'
<1>. USE DEF HttpInv, Http!RequestsClosed, Unmade, Watched, Http!Alive, Http!Settle, Http!Closed
<1>0. /\ Http!TypeOK'
      /\ listening \in BOOLEAN /\ fired \in BOOLEAN /\ deadline \in BOOLEAN
      /\ missed \in BOOLEAN /\ signalled \in BOOLEAN
      /\ setup.timeout \in BOOLEAN /\ setup.signal \in BOOLEAN
  BY HttpTypes DEF Http!TypeOK, Http!Setups
<1>1. CASE Http!Begin
  BY <1>0, <1>1 DEF Http!Begin
<1>2. CASE Http!Imported \/ Http!Encoded
  <2>1. CASE stage' = "encoding"
    BY <1>0, <1>2, <2>1 DEF Http!Imported, Http!Encoded, Http!Make
  <2>2. CASE Http!Make /\ stage # "made" /\ UNCHANGED <<setup, fired, deadline, result>>
    <3>1. /\ listening' = (setup.signal \/ setup.timeout) /\ missed' = (signalled \/ fired)
          /\ wire' \in {"dialling", "open"} /\ stage' = "made"
      BY <2>2 DEF Http!Make, Http!Dialled, Http!Merged
    <3>. QED  BY <1>0, <2>2, <3>1
  <2>. QED  BY <1>2, <2>1, <2>2 DEF Http!Imported, Http!Encoded
<1>3. CASE Http!Connected
  BY <1>0, <1>3 DEF Http!Connected
<1>4. CASE Http!Blocked \/ Http!Drained
  BY <1>0, <1>4 DEF Http!Blocked, Http!Drained
<1>5. CASE Http!BodyEnds
  <2>1. CASE writer' = "ended"
    BY <1>0, <1>5, <2>1 DEF Http!BodyEnds
  <2>2. CASE writer' = "broken"
    BY <1>0, <1>5, <2>2 DEF Http!BodyEnds
  <2>. QED  BY <1>5, <2>1, <2>2 DEF Http!BodyEnds
<1>6. CASE Http!Answered
  BY <1>0, <1>6 DEF Http!Answered
<1>7. CASE Http!Finished
  BY <1>0, <1>7 DEF Http!Finished
<1>8. CASE Http!Fails
  BY <1>0, <1>8 DEF Http!Fails
<1>9. CASE Http!Destroy
  BY <1>0, <1>9 DEF Http!Destroy
<1>10. CASE Http!CallerAborts
  BY <1>0, <1>10 DEF Http!CallerAborts, Http!Heard
<1>11. CASE Http!Fire
  <2>1. /\ result = "pending" /\ result' = "timeout" /\ fired' = TRUE /\ deadline' = FALSE
        /\ setup.timeout /\ UNCHANGED <<setup, stage, missed, writer, agent>>
        /\ stage # "idle"
    BY <1>0, <1>11 DEF Http!Fire, Http!Race
  <2>2. ~listening' /\ wire' \notin {"dialling", "open", "answered"}
        /\ (stage # "made" => wire' = "none")
    BY <1>0, <1>11, <2>1 DEF Http!Fire, Http!Race
  <2>. QED  BY <1>0, <2>1, <2>2
<1>. QED  BY <1>1, <1>2, <1>3, <1>4, <1>5, <1>6, <1>7, <1>8, <1>9, <1>10, <1>11 DEF Http!Next

LEMMA HttpStep == HttpInv /\ [Next]_vars => HttpInv'
<1>. SUFFICES ASSUME HttpInv, [Next]_vars PROVE HttpInv'
  OBVIOUS
<1>1. CASE OfHttp(Http!Next)
  BY <1>1, HttpNext DEF OfHttp
<1>2. CASE OfDedup(Dedup!Next) \/ OfSse(Sse!Next) \/ OfExchange(Exchange!Next) \/ OfBody(Body!Next)
           \/ UNCHANGED vars
  <2>1. UNCHANGED http
    BY <1>2 DEF OfDedup, OfSse, OfExchange, OfBody, vars
  <2>. QED  BY <2>1 DEF http, HttpInv, Http!TypeOK, Http!RequestsClosed, Unmade, Watched, Http!Alive
<1>. QED  BY <1>1, <1>2 DEF Next

LEMMA HttpKept == Spec => []HttpInv
  BY HttpInit, HttpStep, PTL DEF Spec

----------------------------------------------------------------------------
(* The reading of a body.                                                  *)

\* What a stream that has closed has let through, and who may leave one open that has failed.
Readable ==
  /\ conf.reader = "raw" => conf.mode = "throw"
  /\ duct = "ended" => arrived = length
  /\ readable = "closed" => \/ passed = length /\ duct = "ended"
                            \/ Body!TakenForEmpty /\ duct = "failed"
  /\ readable = "errored" => duct # "flowing" \/ conf.decoder = "zlib"

BodyInv == Body!TypeOK /\ Body!BodyWhole /\ Body!SourceReleased /\ Readable

LEMMA BodyInit == Init => BodyInv
<1>. SUFFICES ASSUME Body!Init PROVE BodyInv
  BY DEF Init
<1>1. MaxBytes \in Nat /\ MaxBody \in Nat /\ None # "done" /\ None # "limit"
  BY FlowsAssumption
<1>2. conf \in Body!Confs /\ (conf.reader = "raw" => conf.mode = "throw") /\ length \in 0..MaxBody
  BY DEF Body!Init
<1>3. /\ duct = "flowing" /\ readable = "readable" /\ abandoned = FALSE
      /\ arrived = 0 /\ passed = 0 /\ taken = 0 /\ verdict = None
  BY DEF Body!Init
<1>4. Body!TypeOK
  <2>1. length \in Nat
    BY <1>1, <1>2
  <2>2. arrived \in 0..length /\ passed \in 0..arrived /\ taken \in 0..passed
    BY <1>3, <2>1
  <2>3. abandoned \in BOOLEAN
    BY <1>3
  <2>. QED  BY <1>2, <1>3, <2>2, <2>3 DEF Body!TypeOK
<1>. QED  BY <1>1, <1>2, <1>3, <1>4 DEF BodyInv, Body!BodyWhole, Body!SourceReleased, Readable

LEMMA BodyNext == ASSUME BodyInv, Body!Next PROVE BodyInv'
<1>. USE DEF BodyInv, Body!TypeOK, Body!BodyWhole, Body!SourceReleased, Readable,
             Body!TakenForEmpty, Body!Limited
<1>1. MaxBytes \in Nat /\ MaxBody \in Nat
  BY FlowsAssumption
<1>2. ASSUME NEW n \in 1..MaxBody, Body!Arrive(n) PROVE BodyInv'
  BY <1>1, <1>2 DEF Body!Arrive
<1>3. ASSUME NEW n \in 1..MaxBody, Body!Decode(n) PROVE BodyInv'
  BY <1>1, <1>3 DEF Body!Decode
<1>4. ASSUME NEW n \in 1..MaxBody, Body!ReadChunk(n) PROVE BodyInv'
  <2>1. CASE ~Body!Crosses(n)
    BY <1>1, <1>4, <2>1 DEF Body!ReadChunk, Body!Crosses
  <2>2. CASE Body!Crosses(n)
    <3>1. /\ verdict = None /\ taken + n <= passed /\ taken + n > MaxBytes /\ Body!Crossing
          /\ UNCHANGED <<conf, length, arrived, passed, readable, abandoned>>
      BY <1>4, <2>2 DEF Body!ReadChunk, Body!Crosses
    <3>2. CASE conf.mode = "throw"
      BY <1>1, <3>1, <3>2 DEF Body!Crossing, Body!Ends, Body!Cancelled
    <3>3. CASE conf.mode = "abort"
      BY <1>1, <3>1, <3>3 DEF Body!Crossing, Body!Ends, Body!Cancelled
    <3>4. CASE conf.mode = "truncate"
      BY <1>1, <3>1, <3>4 DEF Body!Crossing, Body!Ends, Body!Cancelled, Body!Confs
    <3>. QED  BY <3>2, <3>3, <3>4 DEF Body!Confs
  <2>. QED  BY <2>1, <2>2
<1>5. CASE Body!Settle
  BY <1>1, <1>5 DEF Body!Settle, Body!WireFails, Body!WireEnds
<1>6. CASE Body!DecoderEnds
  BY <1>1, <1>6 DEF Body!DecoderEnds
<1>7. CASE Body!DecoderFails
  BY <1>1, <1>7 DEF Body!DecoderFails, Body!Cancelled, Body!Confs
<1>8. CASE Body!ReadEnd
  BY <1>1, <1>8 DEF Body!ReadEnd, Body!Ends
<1>9. CASE Body!Abort
  BY <1>1, <1>9 DEF Body!Abort, Body!Ends, Body!Cancelled
<1>. QED  BY <1>2, <1>3, <1>4, <1>5, <1>6, <1>7, <1>8, <1>9 DEF Body!Next

LEMMA BodyStep == BodyInv /\ [Next]_vars => BodyInv'
<1>. SUFFICES ASSUME BodyInv, [Next]_vars PROVE BodyInv'
  OBVIOUS
<1>1. CASE OfBody(Body!Next)
  BY <1>1, BodyNext DEF OfBody
<1>2. CASE OfDedup(Dedup!Next) \/ OfSse(Sse!Next) \/ OfExchange(Exchange!Next) \/ OfHttp(Http!Next)
           \/ UNCHANGED vars
  <2>1. UNCHANGED body
    BY <1>2 DEF OfDedup, OfSse, OfExchange, OfHttp, vars
  <2>. QED  BY <2>1 DEF body, BodyInv, Body!TypeOK, Body!BodyWhole, Body!SourceReleased, Readable,
                        Body!TakenForEmpty, Body!Limited
<1>. QED  BY <1>1, <1>2 DEF Next

LEMMA BodyKept == Spec => []BodyInv
  BY BodyInit, BodyStep, PTL DEF Spec

\* No timer, controller or body is left behind by an attempt and its nested ones, no listener,
\* timer or connection by a request over node:http whose caller has been told of a failure,
\* whatever came first, and no stream by who is done with a body, who has it whole or up to
\* the limit (client.ts, core.ts, response.ts).
THEOREM NothingHeldCorrect == Spec => []NothingHeld
<1>1. ExchangeInv /\ HttpInv /\ BodyInv => NothingHeld
  BY DEF ExchangeInv, Held, HttpInv, BodyInv, NothingHeld
<1>. QED  BY <1>1, ExchangeKept, HttpKept, BodyKept, PTL

----------------------------------------------------------------------------
(* An event stream.                                                        *)

\* One stream at a time, as the property says.
OneAtATime == \A s, t \in Streams : s = t

\* The last event given is the last id remembered, and what a connection sends next, or has
\* sent and not yet given, goes on from there.
Following ==
  \A s \in Streams :
    /\ at[s] = "reading" => pending[s] = 0 /\ next[s] = lastEventId + 1
    /\ at[s] = "yielding" => next[s] = lastEventId + pending[s] + 1

StreamInv == Sse!TypeOK /\ Len(given) = lastEventId /\ Sse!NothingSkipped /\ Following

LEMMA StreamInit == Init => StreamInv
<1>. SUFFICES ASSUME Sse!Init PROVE StreamInv
  BY DEF Init
<1>1. given = <<>> /\ Len(given) = 0 /\ lastEventId = 0
  BY DEF Sse!Init
<1>2. Sse!TypeOK
  <2>1. given \in Seq(1..MaxEvents)
    BY <1>1
  <2>2. 0 \in 0..MaxEvents /\ 0 \in 0..MaxReconnects /\ 0 \in 0..MaxStarts /\ 1 \in 1..(MaxEvents + 1)
    BY FlowsAssumption
  <2>3. /\ at \in [Streams -> {"idle", "connecting", "reading", "yielding", "flushing",
                               "backoff", "ended", "failed"}]
        /\ next \in [Streams -> 1..(MaxEvents + 1)] /\ part \in [Streams -> BOOLEAN]
        /\ pending \in [Streams -> 0..MaxEvents] /\ dog \in [Streams -> {"off", "set", "bitten"}]
    BY <2>2 DEF Sse!Init
  <2>. QED  BY <2>1, <2>2, <2>3 DEF Sse!Init, Sse!TypeOK
<1>3. Sse!NothingSkipped
  BY <1>1 DEF Sse!NothingSkipped
<1>. QED  BY <1>1, <1>2, <1>3 DEF Sse!Init, StreamInv, Following

\* One more event, the next one.
LEMMA OneMore ==
  ASSUME NEW seq \in Seq(1..MaxEvents), seq = [i \in 1..Len(seq) |-> i],
         Len(seq) + 1 \in 1..MaxEvents, NEW more, more = Append(seq, Len(seq) + 1)
  PROVE  /\ more \in Seq(1..MaxEvents) /\ Len(more) = Len(seq) + 1
         /\ more = [i \in 1..Len(more) |-> i]
<1>1. /\ more \in Seq(1..MaxEvents) /\ Len(more) = Len(seq) + 1 /\ DOMAIN more = 1..(Len(seq) + 1)
      /\ \A i \in 1..Len(seq) : more[i] = seq[i]
      /\ more[Len(seq) + 1] = Len(seq) + 1 /\ Len(seq) \in Nat
  BY Sent
<1>2. \A i \in 1..Len(more) : more[i] = i
  BY <1>1
<1>3. more = [i \in DOMAIN more |-> more[i]]
  BY <1>1
<1>. QED  BY <1>1, <1>2, <1>3

\* Giving the next event, of n that are at hand.
LEMMA GiveKept ==
  ASSUME OneAtATime, StreamInv, NEW s \in Streams, NEW n \in Nat \ {0},
         next' \in [Streams -> 1..(MaxEvents + 1)], next'[s] = lastEventId + n + 1,
         n <= MaxEvents, part' \in [Streams -> BOOLEAN],
         Sse!Give(s, lastEventId + 1, n), UNCHANGED <<Sse!client, reconnects, starts>>
  PROVE  StreamInv'
<1>. USE FlowsAssumption DEF StreamInv
<1>1. lastEventId \in Nat /\ lastEventId + 1 \in 1..MaxEvents
  BY DEF Sse!TypeOK
<1>2. /\ lastEventId' = lastEventId + 1 /\ given' = Append(given, lastEventId + 1)
      /\ pending' = [pending EXCEPT ![s] = n - 1] /\ dog' = [dog EXCEPT ![s] = "set"]
      /\ at' = [at EXCEPT ![s] = "yielding"]
  BY DEF Sse!Give, Sse!Go
<1>3. given' \in Seq(1..MaxEvents) /\ Len(given') = lastEventId' /\ Sse!NothingSkipped'
  BY <1>1, <1>2, OneMore DEF Sse!TypeOK, Sse!NothingSkipped
<1>4. Sse!TypeOK'
  BY <1>1, <1>2, <1>3, SMTT(20) DEF Sse!TypeOK, Sse!client
<1>5. Following'
  <2>1. at'[s] = "yielding" /\ pending'[s] = n - 1
    BY <1>2 DEF Sse!TypeOK
  <2>2. next'[s] = lastEventId' + pending'[s] + 1
    BY <1>1, <1>2, <2>1
  <2>. QED  BY <2>1, <2>2 DEF Following, OneAtATime
<1>. QED  BY <1>3, <1>4, <1>5

\* The steps that give nothing: whoever reads or yields afterwards did so before, and has
\* what it had.
LEMMA StreamAside ==
  ASSUME StreamInv, UNCHANGED <<lastEventId, given>>, Sse!TypeOK',
         \A s \in Streams : at'[s] \in {"reading", "yielding"} =>
            at'[s] = at[s] /\ next'[s] = next[s] /\ pending'[s] = pending[s]
  PROVE  StreamInv'
  BY DEF StreamInv, Following, Sse!NothingSkipped

\* A connection more, or the end.
LEMMA Retried ==
  ASSUME Sse!TypeOK, NEW s \in Streams, NEW end \in {"ended", "failed"}, Sse!Retry(s, end)
  PROVE  /\ reconnects' \in 0..MaxReconnects
         /\ at' \in [Streams -> {"idle", "connecting", "reading", "yielding", "flushing",
                                 "backoff", "ended", "failed"}]
         /\ \A t \in Streams : at'[t] \in {"reading", "yielding"} => t # s /\ at'[t] = at[t]
<1>1. PICK e \in {"backoff", "ended", "failed"} : at' = [at EXCEPT ![s] = e]
  BY DEF Sse!Retry, Sse!Go
<1>2. reconnects' \in 0..MaxReconnects
  BY OneFurther, FlowsAssumption DEF Sse!Retry, Sse!TypeOK
<1>. QED  BY <1>1, <1>2 DEF Sse!TypeOK

LEMMA StreamNext == ASSUME OneAtATime, StreamInv, Sse!Next PROVE StreamInv'
<1>. USE FlowsAssumption DEF Sse!TypeOK, Sse!Go, Sse!stream, Sse!client
<1>0. Sse!TypeOK /\ Following /\ StreamInv
  BY DEF StreamInv
<1>1. ASSUME NEW s \in Streams, Sse!Start(s) PROVE StreamInv'
  <2>1. Sse!TypeOK' /\ UNCHANGED <<lastEventId, given>>
    BY <1>0, <1>1 DEF Sse!Start
  <2>2. \A t \in Streams : at'[t] \in {"reading", "yielding"} =>
           at'[t] = at[t] /\ next'[t] = next[t] /\ pending'[t] = pending[t]
    BY <1>0, <1>1 DEF Sse!Start
  <2>. QED  BY <1>0, <2>1, <2>2, StreamAside
<1>2. ASSUME NEW s \in Streams, Sse!Fail(s) PROVE StreamInv'
  <2>1. CASE Sse!Retry(s, "failed")
    <3>1. Sse!TypeOK' /\ UNCHANGED <<lastEventId, given, next, pending>>
      BY <1>0, <1>2, <2>1, Retried DEF Sse!Fail
    <3>. QED  BY <1>0, <2>1, <3>1, Retried, StreamAside
  <2>2. CASE at' = [at EXCEPT ![s] = "ended"] /\ UNCHANGED reconnects
    <3>1. Sse!TypeOK' /\ UNCHANGED <<lastEventId, given, next, pending>>
      BY <1>0, <1>2, <2>2 DEF Sse!Fail
    <3>. QED  BY <1>0, <2>2, <3>1, StreamAside
  <2>. QED  BY <1>2, <2>1, <2>2 DEF Sse!Fail
<1>3. ASSUME NEW s \in Streams, Sse!Forbid(s) PROVE StreamInv'
  <2>1. Sse!TypeOK' /\ UNCHANGED <<lastEventId, given>>
    BY <1>0, <1>3 DEF Sse!Forbid
  <2>2. \A t \in Streams : at'[t] \in {"reading", "yielding"} =>
           at'[t] = at[t] /\ next'[t] = next[t] /\ pending'[t] = pending[t]
    BY <1>0, <1>3 DEF Sse!Forbid
  <2>. QED  BY <1>0, <2>1, <2>2, StreamAside
<1>4. ASSUME NEW s \in Streams, Sse!EndOfBody(s) PROVE StreamInv'
  <2>1. CASE Sse!Retry(s, "ended") /\ connected' = FALSE
    <3>1. Sse!TypeOK' /\ UNCHANGED <<lastEventId, given, next, pending>>
      BY <1>0, <1>4, <2>1, Retried DEF Sse!EndOfBody
    <3>. QED  BY <1>0, <2>1, <3>1, Retried, StreamAside
  <2>2. CASE at' = [at EXCEPT ![s] = "flushing"] /\ UNCHANGED <<connected, reconnects>>
    <3>1. Sse!TypeOK' /\ UNCHANGED <<lastEventId, given, next, pending>>
      BY <1>0, <1>4, <2>2 DEF Sse!EndOfBody
    <3>. QED  BY <1>0, <2>2, <3>1, StreamAside
  <2>. QED  BY <1>4, <2>1, <2>2 DEF Sse!EndOfBody
<1>5. ASSUME NEW s \in Streams, Sse!StopReading(s) PROVE StreamInv'
  <2>1. Sse!Retry(s, "ended")
    BY <1>5 DEF Sse!StopReading
  <2>2. Sse!TypeOK' /\ UNCHANGED <<lastEventId, given, next, pending>>
    BY <1>0, <1>5, <2>1, Retried DEF Sse!StopReading
  <2>. QED  BY <1>0, <2>1, <2>2, Retried, StreamAside
<1>6. ASSUME NEW s \in Streams, Sse!AskFlushed(s) PROVE StreamInv'
  <2>1. Sse!Retry(s, "ended")
    BY <1>6 DEF Sse!AskFlushed
  <2>2. Sse!TypeOK' /\ UNCHANGED <<lastEventId, given, next, pending>>
    BY <1>0, <1>6, <2>1, Retried DEF Sse!AskFlushed
  <2>. QED  BY <1>0, <2>1, <2>2, Retried, StreamAside
<1>7. ASSUME NEW s \in Streams, Sse!Wake(s) PROVE StreamInv'
  <2>1. Sse!TypeOK' /\ UNCHANGED <<lastEventId, given>>
    BY <1>0, <1>7 DEF Sse!Wake, Sse!Again
  <2>2. \A t \in Streams : at'[t] \in {"reading", "yielding"} =>
           at'[t] = at[t] /\ next'[t] = next[t] /\ pending'[t] = pending[t]
    BY <1>0, <1>7 DEF Sse!Wake, Sse!Again
  <2>. QED  BY <1>0, <2>1, <2>2, StreamAside
<1>8. ASSUME NEW s \in Streams, Sse!Leave(s) PROVE StreamInv'
  <2>1. Sse!TypeOK' /\ UNCHANGED <<lastEventId, given>>
    BY <1>0, <1>8 DEF Sse!Leave
  <2>2. \A t \in Streams : at'[t] \in {"reading", "yielding"} =>
           at'[t] = at[t] /\ next'[t] = next[t] /\ pending'[t] = pending[t]
    BY <1>0, <1>8 DEF Sse!Leave
  <2>. QED  BY <1>0, <2>1, <2>2, StreamAside
<1>9. ASSUME NEW s \in Streams, Sse!Watchdog(s) PROVE StreamInv'
  <2>1. Sse!TypeOK' /\ UNCHANGED <<lastEventId, given>>
    BY <1>0, <1>9 DEF Sse!Watchdog
  <2>2. \A t \in Streams : at'[t] \in {"reading", "yielding"} =>
           at'[t] = at[t] /\ next'[t] = next[t] /\ pending'[t] = pending[t]
    BY <1>0, <1>9 DEF Sse!Watchdog
  <2>. QED  BY <1>0, <2>1, <2>2, StreamAside
<1>10. ASSUME Sse!Close \/ Sse!AbortCollect \/ Sse!AbortConfig PROVE StreamInv'
  <2>1. Sse!TypeOK' /\ UNCHANGED <<lastEventId, given, at, next, pending>>
    BY <1>0, <1>10 DEF Sse!Close, Sse!AbortCollect, Sse!AbortConfig
  <2>. QED  BY <1>0, <2>1, StreamAside
<1>11. ASSUME NEW s \in Streams, Sse!Connect(s) PROVE StreamInv'
  <2>1. Sse!TypeOK'
    BY <1>0, <1>11 DEF Sse!Connect
  <2>2. Following'
    BY <1>0, <1>11 DEF Sse!Connect, Following, OneAtATime
  <2>. QED  BY <1>11, <2>1, <2>2 DEF Sse!Connect, Sse!NothingSkipped, StreamInv
<1>12. ASSUME NEW s \in Streams, NEW n \in 0..MaxEvents, NEW rest \in BOOLEAN, Sse!Receive(s, n, rest)
      PROVE  StreamInv'
  <2>1. at[s] = "reading" /\ next[s] = lastEventId + 1 /\ next[s] + n - 1 <= MaxEvents
    BY <1>0, <1>12 DEF Sse!Receive, Following
  <2>2. /\ next' = [next EXCEPT ![s] = @ + n] /\ next' \in [Streams -> 1..(MaxEvents + 1)]
        /\ part' \in [Streams -> BOOLEAN] /\ UNCHANGED <<Sse!client, reconnects, starts>>
    BY <1>0, <1>12, <2>1 DEF Sse!Receive
  <2>3. CASE n = 0
    <3>1. UNCHANGED <<lastEventId, given, pending, dog, at>>
      BY <1>12, <2>3 DEF Sse!Receive
    <3>2. next' = next
      BY <1>0, <2>2, <2>3
    <3>3. Sse!TypeOK'
      BY <1>0, <2>2, <3>1
    <3>. QED  BY <1>0, <3>1, <3>2, <3>3, StreamAside
  <2>4. CASE n # 0
    <3>1. next'[s] = lastEventId + n + 1 /\ n \in Nat \ {0} /\ n <= MaxEvents
      BY <1>0, <2>1, <2>2, <2>4
    <3>2. Sse!Give(s, lastEventId + 1, n)
      BY <1>12, <2>1, <2>4 DEF Sse!Receive
    <3>. QED  BY <1>0, <2>2, <3>1, <3>2, GiveKept
  <2>. QED  BY <2>3, <2>4
<1>13. ASSUME NEW s \in Streams, Sse!Ask(s) PROVE StreamInv'
  <2>1. /\ at[s] = "yielding" /\ next[s] = lastEventId + pending[s] + 1
        /\ UNCHANGED <<next, part, Sse!client, reconnects, starts>>
    BY <1>0, <1>13 DEF Sse!Ask, Following
  <2>2. CASE pending[s] > 0
    <3>1. /\ pending[s] \in Nat \ {0} /\ pending[s] <= MaxEvents /\ next[s] - pending[s] = lastEventId + 1
          /\ next' \in [Streams -> 1..(MaxEvents + 1)] /\ part' \in [Streams -> BOOLEAN]
      BY <1>0, <2>1, <2>2
    <3>2. Sse!Give(s, lastEventId + 1, pending[s])
      BY <1>13, <2>2, <3>1 DEF Sse!Ask
    <3>. QED  BY <1>0, <2>1, <3>1, <3>2, GiveKept
  <2>3. CASE pending[s] = 0
    <3>1. at' = [at EXCEPT ![s] = "reading"] /\ UNCHANGED <<lastEventId, given, pending, dog>>
      BY <1>13, <2>3 DEF Sse!Ask
    <3>2. Sse!TypeOK'
      BY <1>0, <2>1, <3>1
    <3>3. Following'
      BY <1>0, <2>1, <2>3, <3>1 DEF Following
    <3>. QED  BY <1>0, <3>1, <3>2, <3>3 DEF StreamInv, Sse!NothingSkipped
  <2>4. pending[s] \in Nat
    BY <1>0
  <2>. QED  BY <2>2, <2>3, <2>4
<1>. QED  BY <1>1, <1>2, <1>3, <1>4, <1>5, <1>6, <1>7, <1>8, <1>9, <1>10, <1>11, <1>12, <1>13 DEF Sse!Next

LEMMA StreamStep == OneAtATime /\ StreamInv /\ [Next]_vars => StreamInv'
<1>. SUFFICES ASSUME OneAtATime, StreamInv, [Next]_vars PROVE StreamInv'
  OBVIOUS
<1>1. CASE OfSse(Sse!Next)
  BY <1>1, StreamNext DEF OfSse
<1>2. CASE OfDedup(Dedup!Next) \/ OfExchange(Exchange!Next) \/ OfHttp(Http!Next) \/ OfBody(Body!Next)
           \/ UNCHANGED vars
  <2>1. UNCHANGED sse
    BY <1>2 DEF OfDedup, OfExchange, OfHttp, OfBody, vars
  <2>. QED  BY <2>1 DEF sse, StreamInv, Sse!TypeOK, Sse!NothingSkipped, Following
<1>. QED  BY <1>1, <1>2 DEF Next

\* Against a server that resumes after the id it is asked for, the consumer of one stream at
\* a time is given the server's events, each once and in their order, whatever breaks,
\* bites, leaves and begins again (sse.ts).
THEOREM NothingSkippedCorrect == ASSUME OneAtATime PROVE Spec => []NothingSkipped
<1>1. Init => StreamInv
  BY StreamInit
<1>2. StreamInv /\ [Next]_vars => StreamInv'
  BY StreamStep
<1>3. StreamInv => NothingSkipped
  BY DEF StreamInv, NothingSkipped
<1>. QED  BY <1>1, <1>2, <1>3, PTL DEF Spec
=============================================================================
