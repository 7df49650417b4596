----------------------------- MODULE LogDelivery -----------------------------
(***************************************************************************)
(* Log entries on their way: HTTPLogger, which remembers the requests it   *)
(* has logged until they are answered, a BatchingTransport and the         *)
(* RemoteTransport behind it, which posts what it has gathered.            *)
(*                                                                         *)
(* Redaction, levels and the fields of an entry are left out.  The         *)
(* receiver may take a post and its answer still get lost.                 *)
(***************************************************************************)
EXTENDS Naturals, Sequences, FiniteSets, SequencesExt

CONSTANTS Requests, Excluded,   \* by methods, URL or level
          SweepAbove,           \* 500 in the code
          MaxBatch, BatchSize,  \* of the two transports
          SmallBatch            \* what is posted in one piece, 10 in the code

VARIABLES made, answered,       \* requests sent, and those whose answer was logged
          active,               \* activeIds
          buffer, timer,        \* of the batching transport
          remote, remoteTimer,  \* of the remote transport
          posts,                \* in flight: the batch, whether it is the second attempt
          received, lost        \* history: entries the receiver took, and how often; given up
logVars == <<made, answered, active, buffer, timer, remote, remoteTimer, posts, received, lost>>

Entries == Requests \X {"request", "response"}

TypeOK ==
  /\ made \subseteq Requests /\ answered \subseteq made /\ active \subseteq Requests
  /\ buffer \in Seq(Entries) /\ Len(buffer) < MaxBatch /\ timer \in BOOLEAN
  /\ remote \in Seq(Entries) /\ Len(remote) < BatchSize /\ remoteTimer \in BOOLEAN
  /\ \A p \in posts : p.batch \in Seq(Entries) /\ p.again \in BOOLEAN
  /\ received \in [Entries -> 0..2] /\ lost \subseteq Entries

Init ==
  /\ made = {} /\ answered = {} /\ active = {} /\ posts = {} /\ lost = {}
  /\ buffer = <<>> /\ remote = <<>> /\ timer = FALSE /\ remoteTimer = FALSE
  /\ received = [e \in Entries |-> 0]

----------------------------------------------------------------------------
(* The transports, as functions of what they hold.                         *)

Post(batch) == [batch |-> batch, again |-> FALSE]

\* RemoteTransport.write.
RemoteWrite(r, e) ==
  LET full == Append(r.remote, e)
  IN IF Len(full) >= BatchSize
       THEN [remote |-> <<>>, remoteTimer |-> FALSE, posts |-> r.posts \cup {Post(full)}]
       ELSE [r EXCEPT !.remote = full, !.remoteTimer = TRUE]

After(batch) ==
  FoldLeft(RemoteWrite, [remote |-> remote, remoteTimer |-> remoteTimer, posts |-> posts], batch)

Handed(batch) == /\ remote' = After(batch).remote
                 /\ remoteTimer' = After(batch).remoteTimer
                 /\ posts' = After(batch).posts

\* Fault: a full batch is handed on without its timer being cleared.
WriteKeepingTimer(e) ==
  IF Len(buffer) + 1 >= MaxBatch
    THEN buffer' = <<>> /\ Handed(Append(buffer, e)) /\ UNCHANGED timer
    ELSE buffer' = Append(buffer, e) /\ timer' = TRUE /\ UNCHANGED <<remote, remoteTimer, posts>>

\* BatchingTransport.write.
Write(e) ==
  IF Len(buffer) + 1 >= MaxBatch
    THEN buffer' = <<>> /\ timer' = FALSE /\ Handed(Append(buffer, e))
    ELSE buffer' = Append(buffer, e) /\ timer' = TRUE /\ UNCHANGED <<remote, remoteTimer, posts>>

(* The logger.                                                             *)

\* A sweep forgets those that are a minute old, whatever has become of them.
LogRequest(r) ==
  /\ r \notin made
  /\ made' = made \cup {r}
  /\ IF r \in Excluded
       THEN UNCHANGED <<active, buffer, timer, remote, remoteTimer, posts>>
       ELSE /\ \E aged \in IF Cardinality(active) > SweepAbove THEN SUBSET active ELSE {{}} :
                 active' = (active \ aged) \cup {r}
            /\ Write(<<r, "request">>)
  /\ UNCHANGED <<answered, received, lost>>

\* An answer whose request is not remembered is logged for GET and no URL, which no
\* pattern excludes.
LogResponse(r) ==
  /\ r \in made \ answered
  /\ answered' = answered \cup {r}
  /\ active' = active \ {r}
  /\ Write(<<r, "response">>)
  /\ UNCHANGED <<made, received, lost>>

(* Timers, flush() and the posts.                                          *)

BatchTimer ==
  /\ timer
  /\ buffer' = <<>> /\ timer' = FALSE /\ Handed(buffer)
  /\ UNCHANGED <<made, answered, active, received, lost>>

Posted(r) == posts' = r.posts \cup (IF r.remote = <<>> THEN {} ELSE {Post(r.remote)})

RemoteFlush ==
  /\ remoteTimer
  /\ remote' = <<>> /\ remoteTimer' = FALSE /\ Posted(After(<<>>))
  /\ UNCHANGED <<made, answered, active, buffer, timer, received, lost>>

\* Both buffers in one go; posts that are in flight already are not waited for.
Flush ==
  /\ buffer # <<>> \/ remote # <<>>
  /\ buffer' = <<>> /\ timer' = FALSE /\ remote' = <<>> /\ remoteTimer' = FALSE
  /\ Posted(After(buffer))
  /\ UNCHANGED <<made, answered, active, received, lost>>

\* A post ends: taken or not, and answered or not.  One that is streamed is sent once more.
PostEnds(p, taken, answeredToo) ==
  /\ p \in posts /\ answeredToo => taken
  /\ received' = [e \in Entries |-> IF taken /\ Contains(p.batch, e) THEN received[e] + 1
                                                                    ELSE received[e]]
  /\ IF ~answeredToo /\ Len(p.batch) > SmallBatch /\ ~p.again
       THEN posts' = (posts \ {p}) \cup {[p EXCEPT !.again = TRUE]} /\ UNCHANGED lost
       ELSE /\ posts' = posts \ {p}
            /\ lost' = IF answeredToo THEN lost ELSE lost \cup ToSet(p.batch)
  /\ UNCHANGED <<made, answered, active, buffer, timer, remote, remoteTimer>>

Next ==
  \/ \E r \in Requests : LogRequest(r) \/ LogResponse(r)
  \/ BatchTimer \/ RemoteFlush \/ Flush
  \/ \E p \in posts, t, a \in BOOLEAN : PostEnds(p, t, a)

Spec == Init /\ [][Next]_logVars

----------------------------------------------------------------------------
Written == ((made \ Excluded) \X {"request"}) \cup (answered \X {"response"})
Places(e) == (IF Contains(buffer, e) THEN 1 ELSE 0) + (IF Contains(remote, e) THEN 1 ELSE 0)
               + Cardinality({p \in posts : Contains(p.batch, e)})

\* Every entry that was written is in one buffer or one post, or has been taken or given up,
\* never in two places; a buffer that is not empty has its timer (logging.ts 458-494,
\* 530-612).
EntriesAccounted ==
  /\ \A e \in Entries :
       /\ Places(e) <= 1
       /\ e \in Written <=> Places(e) = 1 \/ received[e] > 0 \/ e \in lost
  /\ timer <=> buffer # <<>>
  /\ remoteTimer <=> remote # <<>>

\* A request that was answered is forgotten, also if its answer is not logged
\* (logging.ts 953-973, 1036-1062).
ActiveExact == active \subseteq (made \ Excluded) \ answered
=============================================================================
