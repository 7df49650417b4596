----------------------------- MODULE SessionPool -----------------------------
(***************************************************************************)
(* The HTTP/2 sessions of NodeHTTP2Transport: one pooled per origin, with  *)
(* a least-recently-used limit, a time to live and a ping timer, and one   *)
(* creation that the concurrent requests of an origin share.               *)
(*                                                                         *)
(* The sessions belong to the runtime.  One that was closed gracefully     *)
(* (goaway) goes on for its open streams and keeps its handlers, and so    *)
(* does an outstanding ping, whose callback hears of the end of a session. *)
(* A session's name is used again when nothing refers to it.               *)
(*                                                                         *)
(* Times of use are told apart, so that the usage map is an order.  The    *)
(* redirects, the headers and the fallback to HTTP/1.1 are left out; a     *)
(* tunnel through a proxy is a part of the time that a session connects.   *)
(***************************************************************************)
EXTENDS Naturals, FiniteSets

CONSTANTS Requests,     \* callers of send()
          Origins,      \* url.origin
          Sessions,     \* bound: names for the sessions alive at one time
          MaxSessions,  \* maxSessions
          None          \* undefined

VARIABLES pool,       \* sessions: the session of each origin
          usage,      \* sessionUsage: the pairs of origins, the second used no earlier
          timers,     \* pingTimers: the origins with one
          creating,   \* _sessionCreating: the request whose creation it is
          ses,        \* runtime: what each session is, of which origin, aged past its TTL
          pinged,     \* sessions with an outstanding ping
          req,        \* where each request stands, for which origin and on which session
          strayed,    \* history: an origin was emptied for another session's sake
          crowded     \* history: a creation began beside another one
books    == <<pool, usage, timers, creating>>
poolVars == <<books, ses, pinged, req, strayed, crowded>>

TypeOK ==
  /\ pool \in [Origins -> Sessions \cup {None}]
  /\ usage \subseteq Origins \X Origins /\ timers \subseteq Origins
  /\ creating \in [Origins -> Requests \cup {None}]
  /\ ses \in [Sessions -> [state : {"connecting", "live", "closed", "dead"},
                           origin : Origins \cup {None}, aged : BOOLEAN]]
  /\ pinged \subseteq Sessions
  /\ req \in [Requests -> [at : {"idle", "leading", "joined", "sending", "done", "failed"},
                           origin : Origins \cup {None}, on : Sessions \cup {None},
                           leader : Requests \cup {None}]]
  /\ strayed \in BOOLEAN /\ crowded \in BOOLEAN

Buried == [state |-> "dead", origin |-> None, aged |-> FALSE]
Standing(place) == [at |-> place, origin |-> None, on |-> None, leader |-> None]

Init ==
  /\ pool = [o \in Origins |-> None] /\ usage = {} /\ timers = {}
  /\ creating = [o \in Origins |-> None]
  /\ ses = [s \in Sessions |-> Buried]
  /\ pinged = {}
  /\ req = [r \in Requests |-> Standing("idle")]
  /\ strayed = FALSE /\ crowded = FALSE

----------------------------------------------------------------------------
Leading == {r \in Requests : req[r].at = "leading"}
Pooled  == {o \in Origins : pool[o] # None}
Usable(s) == s # None /\ ses[s].state = "live" /\ ~ses[s].aged
Unused(s) == /\ ses[s].state = "dead" /\ s \notin pinged
             /\ \A o \in Origins : pool[o] # s
             /\ \A r \in Requests : req[r].on # s

\* The origins with a time of use, those of S used before any other of S, the times of
\* those in S, and the times once o has been used.
OnRecord     == {o \in Origins : <<o, o>> \in usage}
LeastUsed(S) == {p \in S : \A q \in S : <<p, q>> \in usage}
Among(S)     == usage \cap (S \X S)
Touched(o)   == Among(Origins \ {o}) \cup ((OnRecord \cup {o}) \X {o})

\* The books once the origins O have been evicted, and the sessions that an eviction
\* destroys when it is given those of gone: a session that was closed lives on.
\* Fault: the use of the origin stays on record.
EvictedKeepingUse(O) ==
  [pool     |-> [o \in Origins |-> IF o \in O THEN None ELSE pool[o]],
   usage    |-> usage,
   timers   |-> timers \ O,
   creating |-> [o \in Origins |-> IF o \in O THEN None ELSE creating[o]]]

Evicted(O) ==
  [pool     |-> [o \in Origins |-> IF o \in O THEN None ELSE pool[o]],
   usage    |-> Among(Origins \ O),
   timers   |-> timers \ O,
   creating |-> [o \in Origins |-> IF o \in O THEN None ELSE creating[o]]]

\* A dead session is remembered as long as the callback of a ping is to come.
Dead(s, pings) == IF s \in pings THEN [ses[s] EXCEPT !.state = "dead", !.aged = FALSE]
                                 ELSE Buried

Destroyed(gone) ==
  [s \in Sessions |-> IF s \in gone /\ ses[s].state = "live"
                        THEN Dead(s, pinged) ELSE ses[s]]

SetBooks(b) == /\ pool' = b.pool /\ usage' = b.usage
               /\ timers' = b.timers /\ creating' = b.creating

\* _evictSession(origin, s), of a session that may no longer be the origin's.
Evict(o, s) ==
  /\ SetBooks(Evicted({o}))
  /\ strayed' = (strayed \/ (pool[o] # s /\ (pool[o] # None \/ creating[o] # None)))

\* The origins that a creation for o evicts: its own, if it holds a session, and then the
\* least recently used one, if the pool is still full.

MakeRoom(o) ==
  LET own == {o} \cap Pooled
  IN own \cup (IF Cardinality(Pooled \ own) >= MaxSessions
                 THEN LeastUsed(OnRecord \ own) ELSE {})

----------------------------------------------------------------------------
\* A request asks for the session of its origin.

\* The promise of the creation is stored before anything is awaited.

Marked(b, o, r) == [b EXCEPT !.creating[o] = r]

Reuse(r, o) ==
  /\ Usable(pool[o])
  /\ usage' = Touched(o)
  /\ req' = [req EXCEPT ![r] = [Standing("sending") EXCEPT !.on = pool[o]]]
  /\ UNCHANGED <<pool, timers, creating, ses, pinged, strayed, crowded>>

Join(r, o) ==
  /\ ~Usable(pool[o]) /\ creating[o] # None
  /\ req' = [req EXCEPT ![r] = [Standing("joined") EXCEPT !.leader = creating[o]]]
  /\ UNCHANGED <<books, ses, pinged, strayed, crowded>>

Create(r, o) ==
  /\ ~Usable(pool[o]) /\ creating[o] = None
  /\ LET O    == MakeRoom(o)
         gone == {pool[p] : p \in O}
         b    == Evicted(O)
     IN \E n \in Sessions :
          /\ Unused(n)
          /\ SetBooks(Marked(b, o, r))
          /\ ses' = [Destroyed(gone) EXCEPT
                       ![n] = [state |-> "connecting", origin |-> o, aged |-> FALSE]]
          /\ req' = [req EXCEPT ![r] = [Standing("leading") EXCEPT
                                        !.origin = o, !.on = n]]
          /\ strayed' = (strayed \/ \E p \in O : creating[p] # None)
  /\ crowded' = (crowded \/ Leading # {})
  /\ UNCHANGED pinged

Send(r, o) == req[r].at = "idle" /\ (Reuse(r, o) \/ Join(r, o) \/ Create(r, o))

\* The creation of r is over: those who joined it go where it goes.

Shared(r, place, s) ==
  req' = [q \in Requests |->
            IF q = r \/ (req[q].at = "joined" /\ req[q].leader = r)
              THEN [Standing(place) EXCEPT !.on = s] ELSE req[q]]

\* The marker goes only if it is still that of r's creation.
Unmark(r) == LET o == req[r].origin IN
  creating' = [creating EXCEPT ![o] = IF @ = r THEN None ELSE @]

\* The session connects: it takes the place of whatever the origin holds.
Connected(r) ==
  /\ r \in Leading
  /\ LET o == req[r].origin
         s == req[r].on
     IN /\ pool' = [pool EXCEPT ![o] = s]
        /\ usage' = Touched(o)
        /\ timers' = timers \cup {o}
        /\ ses' = [ses EXCEPT ![s].state = "live"]
        /\ Shared(r, "sending", s)
  /\ Unmark(r)
  /\ UNCHANGED <<pinged, strayed, crowded>>

\* It does not: an error, the connect timeout, or an abort by the one who leads.
ConnectFails(r) ==
  /\ r \in Leading
  /\ ses' = [ses EXCEPT ![req[r].on] = Buried]
  /\ Shared(r, "failed", None)
  /\ Unmark(r)
  /\ UNCHANGED <<pool, usage, timers, pinged, strayed, crowded>>

\* A stream answers, fails, is aborted or times out; on a dead session it fails.
Answered(r) ==
  /\ req[r].at = "sending"
  /\ \E end \in {"done", "failed"} :
       /\ end = "done" => ses[req[r].on].state \in {"live", "closed"}
       /\ req' = [req EXCEPT ![r] = Standing(end)]
  /\ UNCHANGED <<books, ses, pinged, strayed, crowded>>

----------------------------------------------------------------------------
\* What happens to sessions.

Dies(s) == ses' = [ses EXCEPT ![s] = Dead(s, pinged)]

\* The server sends a goaway, for the first time or again.
GoAway(s) ==
  /\ ses[s].state \in {"live", "closed"}
  /\ ses' = [ses EXCEPT ![s].state = "closed", ![s].aged = FALSE]
  /\ Evict(ses[s].origin, s)
  /\ UNCHANGED <<pinged, req, crowded>>

SessionError(s) ==
  /\ ses[s].state \in {"live", "closed"}
  /\ Dies(s)
  /\ Evict(ses[s].origin, s)
  /\ UNCHANGED <<pinged, req, crowded>>

\* The connection ends without an error or a goaway, which no handler hears.
Hangup(s) ==
  /\ ses[s].state \in {"live", "closed"}
  /\ Dies(s)
  /\ UNCHANGED <<books, pinged, req, strayed, crowded>>

\* The time to live of a session passes.
Ages(s) ==
  /\ ses[s].state = "live" /\ ~ses[s].aged
  /\ ses' = [ses EXCEPT ![s].aged = TRUE]
  /\ UNCHANGED <<books, pinged, req, strayed, crowded>>

\* The ping timer of an origin.
PingTimer(o) ==
  /\ o \in timers
  /\ IF pool[o] # None /\ ses[pool[o]].state = "live"
       THEN /\ pool[o] \notin pinged
            /\ pinged' = pinged \cup {pool[o]}
            /\ UNCHANGED <<books, ses, strayed>>
       ELSE Evict(o, pool[o]) /\ UNCHANGED <<ses, pinged>>
  /\ UNCHANGED <<req, crowded>>

PingAnswered(s) ==
  /\ s \in pinged /\ ses[s].state # "dead"
  /\ pinged' = pinged \ {s}
  /\ UNCHANGED <<books, ses, req, strayed, crowded>>

\* A ping fails, or is cancelled because its session has ended.
PingFails(s) ==
  /\ s \in pinged
  /\ pinged' = pinged \ {s}
  /\ Evict(ses[s].origin, s)
  /\ ses' = [ses EXCEPT ![s] = IF @.state = "closed" THEN @ ELSE Buried]
  /\ UNCHANGED <<req, crowded>>

\* destroy(): the creations in flight go on.
Destroy ==
  /\ Pooled # {} \/ Leading # {}
  /\ SetBooks(Evicted(Origins))
  /\ ses' = Destroyed({pool[o] : o \in Pooled})
  /\ strayed' = (strayed \/ Leading # {})
  /\ UNCHANGED <<pinged, req, crowded>>

Next ==
  \/ \E r \in Requests :
       \/ \E o \in Origins : Send(r, o)
       \/ Connected(r) \/ ConnectFails(r) \/ Answered(r)
  \/ \E s \in Sessions :
       GoAway(s) \/ SessionError(s) \/ Hangup(s) \/ Ages(s) \/ PingAnswered(s) \/ PingFails(s)
  \/ \E o \in Origins : PingTimer(o)
  \/ Destroy

Spec == Init /\ [][Next]_poolVars

----------------------------------------------------------------------------
\* An origin has a session, a time of use and a ping timer, or none of them: a time of
\* use without a session would be the least recent for ever, and its eviction would
\* make no room (core.ts 728-741, 1507-1519).
BooksAgree == OnRecord = Pooled /\ timers = Pooled

\* While no event of a session that has left the pool empties its origin, "only ONE
\* session is created even when many requests arrive together" (core.ts 677), and a
\* session that is up and not on its way out is the one that is pooled.  The pool stays
\* within its limit as long as no two sessions are created at a time.
OneSession ==
  ~strayed =>
    /\ \A r \in Leading : creating[req[r].origin] = r
    /\ \A s \in Sessions : ses[s].state = "live" => pool[ses[s].origin] = s
    /\ ~crowded => Cardinality(Pooled) + Cardinality(Leading) <= MaxSessions

\* Whoever joined a creation waits for one that is still under way, through evictions of
\* the origin, destroy() and the abort of the one who leads it: it will hear of its end,
\* for a connection is made, fails or times out (core.ts 685-699, 782-812).
NobodyForgotten ==
  \A r \in Requests : req[r].at = "joined" => req[r].leader \in Leading
=============================================================================
