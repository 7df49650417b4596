------------------------------- MODULE MCQueues -------------------------------
(***************************************************************************)
(* The parts in which one thing comes after another while others come in   *)
(* between, side by side: the attempts of a request, the hooks of a phase, *)
(* a queue that is sent in bursts, the pages of a listing, and what is     *)
(* made, fetched or kept once for all who ask: the parts of a client,      *)
(* credentials, the hashes of queries, and cookies.  They share no state;  *)
(* a behaviour is of one of them, chosen at its beginning, while the       *)
(* others keep one initial state.                                          *)
(***************************************************************************)
EXTENDS Naturals, Sequences, FiniteSets, Functions

CONSTANTS MaxRetries, Timeout, TotalTimeout, Backoffs,  \* RetryLoop
          MaxQueued, OnTimeout, Signing,
          Entries, Once, Early, Runs, MaxRemoved,       \* HookLists
          Items, MaxBatch,                              \* BatchQueue
          Cursors, Limit, MaxTotal, MaxAhead,           \* Pager
          Calls, Own, Childs, Added,                    \* ClientLife
          Callers, Lifetime, Window,                    \* Credentials
          Nonces, MaxNonces, MaxTime, MaxUses,
          Queriers, Texts, Asked, MaxHashes,            \* GraphQLCall
          Retries, LinkRetries,
          Domains, Under, Suffixes, Names, Lives,       \* CookieJar
          JarLimits, JarDefaults, MaxDays,
          None

\* Attempts have a deadline, batches and pages something in them.  What a list may hold is not
\* a name for nothing.  An interceptor is in one config and once, or registered while the
\* client lives; those of a client itself are its own.
ASSUME QueuesAssumption ==
  /\ MaxRetries \in Nat /\ Timeout \in Nat \ {0} /\ TotalTimeout \in Nat
  /\ Backoffs \subseteq Nat /\ MaxQueued \in Nat /\ OnTimeout \in BOOLEAN /\ Signing \in BOOLEAN
  /\ None \notin Entries \cup Seq(Entries) /\ Once \subseteq Entries /\ MaxRemoved \in Nat
  /\ MaxBatch \in Nat \ {0}
  /\ None \notin Cursors \cup Nat /\ Limit \in Nat \ {0} /\ MaxTotal \in Nat /\ MaxAhead \in Nat
  /\ IsFiniteSet(Calls) /\ Own \in Seq(Range(Own)) /\ Childs \in Seq(Range(Childs))
  /\ IsInjective(<<"parent", "child", "hooks">> \o Own \o Childs)
  /\ Added \cap ({"parent", "child", "hooks"} \cup Range(Own) \cup Range(Childs)) = {}
  /\ Lifetime \subseteq Nat /\ Window \in Nat /\ IsFiniteSet(Nonces)
  /\ MaxNonces \in Nat \ {0} /\ MaxTime \in Nat /\ MaxUses \in Nat
  /\ MaxHashes \in Nat \ {0} /\ Retries \in Nat /\ LinkRetries \in Nat
  /\ IsFiniteSet(Domains) /\ IsFiniteSet(Names) /\ Lives \subseteq Nat
  /\ None \notin Domains \cup [expires : Nat \cup {None}, used : Nat, hostOnly : BOOLEAN]
  /\ MaxDays \in Nat
  /\ JarLimits \cup {JarDefaults} \subseteq [total : Nat \ {0}, perDomain : Nat \ {0}]

\* For TLC: one interceptor of each config, a host of a domain, and a persisted query beside
\* any other call; calls and texts are alike.  Jars whose limits a reload makes smaller, or larger.
OwnList    == <<"own">>
ChildsList == <<"theirs">>
OneUnder   == {<<"host", "domain">>}
TwoLimits  == {[total |-> 2, perDomain |-> 2], [total |-> 1, perDomain |-> 1]}
Middle     == [total |-> 2, perDomain |-> 1]
OneQuery   ==
  LET first == CHOOSE c \in Queriers : TRUE
      asked == [kind |-> "persisted", text |-> CHOOSE t \in Texts : TRUE]
  IN {a \in [Queriers -> [kind : {"persisted", "plain", "upload"}, text : Texts]] :
        a[first] = asked}

VARIABLES focus   \* the part that moves
VARIABLES req, pc, attempt, sent, elapsed, left, aborted, skewed, answer, guarded, told, result
VARIABLES kind, list, walk, next, inside, spent, phase, called, present, added, removed, used
VARIABLES delayed, batched, timer, tasks, signal, promise, sends
VARIABLES setup, stopped, gen, state, queue, consumer, asked, given
VARIABLES wanted, jar, jars, lock, call, with, tracked, importFailed, destroyed, chains,
          breakers, open
VARIABLES clock, issued, cached, inflight, fetch, fetchTimer, caller, counters, uses
VARIABLES asks, hashes, texts, sweeping, orphans, step, tries, full, deadline, heard, aborters,
          posted
VARIABLES today, dm, total, maxTotal, maxPerDomain, loading

Retry == INSTANCE RetryLoop
Hooks == INSTANCE HookLists
Batch == INSTANCE BatchQueue WITH queue <- batched, state <- promise, sent <- sends
Pages == INSTANCE Pager WITH aborted <- stopped
Life  == INSTANCE ClientLife
Keys  == INSTANCE Credentials WITH timer <- fetchTimer, spent <- uses
Query == INSTANCE GraphQLCall WITH Calls <- Queriers, given <- aborters, wire <- posted
Jar   == INSTANCE CookieJar WITH Limits <- JarLimits, Defaults <- JarDefaults,
                                 MaxTime <- MaxDays, now <- today

retry == <<req, pc, attempt, sent, elapsed, left, aborted, skewed, answer, guarded, told, result>>
hooks == <<kind, list, walk, next, inside, spent, phase, called, present, added, removed, used>>
batch == <<delayed, batched, timer, tasks, signal, promise, sends>>
pages == <<setup, stopped, gen, state, queue, consumer, asked, given>>
life  == <<wanted, jar, jars, lock, call, with, tracked, importFailed, destroyed, chains,
           breakers, open>>
keys  == <<clock, issued, cached, inflight, fetch, fetchTimer, caller, counters, uses>>
query == <<asks, hashes, texts, sweeping, orphans, step, tries, full, deadline, heard, aborters,
           posted>>
kept  == <<today, dm, total, maxTotal, maxPerDomain, loading>>
vars  == <<focus, retry, hooks, batch, pages, life, keys, query, kept>>

Init ==
  /\ focus \in {"retry", "hooks", "batch", "pages", "life", "aws", "digest", "query", "cookies"}
  /\ focus # "retry" =>
       /\ elapsed = 0
       /\ req = [repeatable |-> TRUE, replayable |-> TRUE, throws |-> TRUE, predicate |-> FALSE]
  /\ focus # "hooks" => kind = "emitter"
  /\ focus # "batch" => delayed = TRUE
  /\ focus # "pages" =>
       setup = [strategy |-> "page", total |-> 0, reported |-> FALSE, maxPages |-> 0,
                delayed |-> FALSE, lazy |-> TRUE, ahead |-> 0]
  /\ focus # "life" => wanted = "jar"
  /\ focus # "query" =>
       asks = [c \in Queriers |-> [kind |-> "plain", text |-> CHOOSE t \in Texts : TRUE]]
  /\ Retry!Init /\ Hooks!Init /\ Batch!Init /\ Pages!Init /\ Life!Init /\ Keys!Init
  /\ Query!Init /\ Jar!Init
  /\ focus = "query" => asks \in Asked
  /\ focus # "cookies" =>
       [total |-> maxTotal, perDomain |-> maxPerDomain] = CHOOSE l \in JarLimits : TRUE

\* A step of one part.
OfRetry(A) == /\ focus = "retry" /\ A
              /\ UNCHANGED <<focus, hooks, batch, pages, life, keys, query, kept>>
OfHooks(A) == /\ focus = "hooks" /\ A
              /\ UNCHANGED <<focus, retry, batch, pages, life, keys, query, kept>>
OfBatch(A) == /\ focus = "batch" /\ A
              /\ UNCHANGED <<focus, retry, hooks, pages, life, keys, query, kept>>
OfPages(A) == /\ focus = "pages" /\ A
              /\ UNCHANGED <<focus, retry, hooks, batch, life, keys, query, kept>>
OfLife(A)  == /\ focus = "life" /\ A
              /\ UNCHANGED <<focus, retry, hooks, batch, pages, keys, query, kept>>
OfKeys(A)  == A /\ UNCHANGED <<focus, retry, hooks, batch, pages, life, query, kept>>
OfQuery(A) == /\ focus = "query" /\ A
              /\ UNCHANGED <<focus, retry, hooks, batch, pages, life, keys, kept>>
OfJar(A)   == /\ focus = "cookies" /\ A
              /\ UNCHANGED <<focus, retry, hooks, batch, pages, life, keys, query>>

\* Bounds: hooks are removed while fewer than MaxRemoved have been; one GraphQL call is aborted,
\* and one retries.
Next ==
  \/ OfRetry(Retry!Next)
  \/ OfHooks(Hooks!Next /\ (removed' = removed \/ Cardinality(removed) < MaxRemoved))
  \/ OfBatch(Batch!Next)
  \/ OfPages(Pages!Next)
  \/ OfLife(Life!Next)
  \/ OfKeys(focus = "aws" /\ Keys!AwsNext)
  \/ OfKeys(focus = "digest" /\ Keys!DigestNext)
  \/ OfQuery(Query!Next /\ Cardinality(aborters') <= 1
               /\ Cardinality({c \in Queriers : tries'[c] # Query!Fresh}) <= 1)
  \/ OfJar(Jar!Next)

Spec     == Init /\ [][Next]_vars
FairSpec == Spec /\ WF_vars(OfRetry(Retry!Run))

----------------------------------------------------------------------------
\* What must not be repeated is not: a request that is not safe to repeat, a body that can be
\* read once, a request of a batch, a query in full; and a batch does not wait for a call that
\* may never come: see RetryLoop, BatchQueue and GraphQLCall.
SentOnce ==
  /\ Retry!TypeOK /\ Retry!SentSafely
  /\ Batch!TypeOK /\ Batch!SentOnce /\ Batch!QueueFlushed
  /\ Query!TextOnRequest /\ Query!FlightOnly

\* No backoff outlives the budget of its request: see RetryLoop.
BackoffInBudget == Retry!BackoffInBudget

\* The caller of a request is told what the last attempt came to: see RetryLoop.
CauseKept == Retry!CauseKept

\* A request ends, also when the server never answers: see RetryLoop.
Terminates == focus = "retry" => Retry!Terminates

\* What is registered and removed while hooks run stands, and a run goes through all that
\* was registered as it began: see HookLists.
HooksStand == Hooks!TypeOK /\ Hooks!RegistrationStands /\ Hooks!NoneSkipped

\* The consumer of a listing is given every item once, and no cursor is asked for twice:
\* see Pager.
PagesComplete == Pages!TypeOK /\ Pages!PagesComplete /\ Pages!NoCursorTwice /\ Pages!PageComes

\* However many ask at once, a part of a client is made once and credentials are fetched once,
\* a socket or a caller is not forgotten, no nonce is counted twice, and the hash of a query is
\* kept while its text is, for as long as a timer drops what is old: see ClientLife, Credentials
\* and GraphQLCall.
OneForAll == Life!LifeHolds /\ Keys!CredentialsHold /\ Query!TypeOK /\ Query!CacheMirrored

\* The jar is counted and within its limits, and gives up what was used the longest ago: see
\* CookieJar.
JarKept == [](Jar!TypeOK /\ Jar!JarExact) /\ Jar!LeastUsedGoes
=============================================================================
