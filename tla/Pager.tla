-------------------------------- MODULE Pager --------------------------------
(***************************************************************************)
(* Pagination: the generator paginate() with the strategies of the         *)
(* create...Paginator() functions, the consumer that asks for one page     *)
(* after another and may leave, and prefetchPaginate(), which asks ahead.  *)
(*                                                                         *)
(* For the strategies that count (offset, page) the server keeps total     *)
(* items and answers honestly; for those that follow what the last page    *)
(* names (cursor, token, link header, relay, keyset) it answers what it    *)
(* likes.  A page of theirs is one item, and a token is a cursor.          *)
(* Filters, transforms and URLs are left out.                              *)
(***************************************************************************)
EXTENDS Naturals, Sequences, Functions

CONSTANTS Cursors,    \* the cursors, tokens and URLs that the server may name
          Limit,      \* items of a page
          MaxTotal,   \* bound: items that the server keeps
          MaxAhead,   \* bound: prefetchAhead
          None        \* null

Counting == {"offset", "page"}
Following == {"cursor", "token", "link", "relay", "keyset"}

VARIABLES setup,     \* strategy, total, whether it is reported, maxPages, delayMs, ahead
          aborted,   \* config.signal
          gen,       \* where the generator stands
          state,     \* its state: page, cursor, seenCursors, whether there is more
          queue,     \* what the calls of gen.next() have come to, of those still awaited
          consumer,  \* where the consumer stands
          asked,     \* history: the cursors that were asked for
          given      \* history: the items that the consumer was given
pagerVars == <<setup, aborted, gen, state, queue, consumer, asked, given>>

\* Lazy: the consumer of paginate() itself.
Setups == [strategy : Counting, total : 0..MaxTotal, reported : BOOLEAN, maxPages : {0, 2},
           delayed : BOOLEAN, lazy : BOOLEAN, ahead : 0..MaxAhead]
          \cup
          [strategy : Following, total : {0}, reported : {FALSE}, maxPages : {0, 2},
           delayed : BOOLEAN, lazy : BOOLEAN, ahead : 0..MaxAhead]

TypeOK ==
  /\ setup \in Setups /\ aborted \in BOOLEAN
  /\ gen \in {"idle", "sleeping", "fetching", "ended"}
  /\ state \in [pages : Nat, cursor : Cursors \cup {None}, seen : SUBSET Cursors,
                more : BOOLEAN]
  /\ queue \in Seq([is : {"pending", "page", "end", "error"}, items : Seq(Nat)])
  /\ consumer \in {"new", "thinking", "waiting", "left", "done", "failed"}
  /\ asked \in Seq(Cursors \cup {None}) /\ given \in Seq(Nat)

Init ==
  /\ setup \in Setups /\ (setup.lazy => setup.ahead = 0)
  /\ aborted = FALSE /\ gen = "idle" /\ queue = <<>> /\ consumer = "new"
  /\ \E start \in Cursors \cup {None} :
       /\ setup.strategy \in Counting \cup {"token", "link"} => start = None
       /\ state = [pages |-> 0, cursor |-> start, seen |-> {start} \ {None}, more |-> TRUE]
  /\ asked = <<>> /\ given = <<>>

----------------------------------------------------------------------------
\* The generator.

Outcome(is, items) == [is |-> is, items |-> items]

Pending == Outcome("pending", <<>>)
End     == Outcome("end", <<>>)

Awaited == Pending \in Range(queue)
First   == CHOOSE i \in DOMAIN queue : /\ queue[i] = Pending
                                       /\ \A j \in 1..(i - 1) : queue[j] # Pending

\* The oldest call of next() comes to result.
Resolved(result) == [queue EXCEPT ![First] = result]

\* The generator returns or throws: the other calls find its end.
Ended(q) == gen' = "ended" /\ queue' = [i \in DOMAIN q |-> IF q[i] = Pending THEN End ELSE q[i]]

Fetch == gen' = "fetching" /\ asked' = Append(asked, state.cursor) /\ UNCHANGED queue

\* The loop goes on: the limit is of the pages fetched.
MayFetch == state.more /\ ~aborted /\ (setup.maxPages > 0 => state.pages < setup.maxPages)

Resume ==
  /\ gen = "idle" /\ Awaited
  /\ \/ ~MayFetch /\ Ended(queue) /\ UNCHANGED asked
     \/ MayFetch /\ setup.delayed /\ state.pages > 0 /\ gen' = "sleeping"
          /\ UNCHANGED <<queue, asked>>
     \/ MayFetch /\ ~(setup.delayed /\ state.pages > 0) /\ Fetch
  /\ UNCHANGED <<setup, aborted, state, consumer, given>>

\* The delay ends, also because the signal aborts: the next page is asked for all the same.
Wake ==
  /\ gen = "sleeping"
  /\ Fetch
  /\ UNCHANGED <<setup, aborted, state, consumer, given>>

\* The items of the page that the generator asks an honest server for.
ItemsOf(page) ==
  LET first == page * Limit + 1
      last  == IF first + Limit - 1 < setup.total THEN first + Limit - 1 ELSE setup.total
  IN [i \in 1..(IF last >= first THEN last - first + 1 ELSE 0) |-> first + i - 1]

\* hasNext() of the strategies that count.

Counted(items) ==
  IF setup.reported THEN (state.pages + 1) * Limit < setup.total ELSE Len(items) = Limit

\* Whether the loop goes on to the cursor n that getNext() has returned.
\* Fault: the cursor is compared with the last one only.
FollowsLast(n, more) == more /\ n # None /\ n # state.cursor

Follows(n, more) == more /\ n # None /\ n \notin state.seen

AnswerCounted ==
  /\ gen = "fetching" /\ setup.strategy \in Counting
  /\ LET items == ItemsOf(state.pages)
     IN /\ queue' = Resolved(Outcome("page", items))
        /\ state' = [state EXCEPT !.pages = @ + 1, !.more = Counted(items)]
  /\ gen' = "idle"
  /\ UNCHANGED <<setup, aborted, consumer, asked, given>>

\* hasNext() and getNext() of the others: the cursor, the token or the link says whether there
\* is more; a connection says so beside its cursor; and of a keyset the page or hasMore() says
\* so, beside the key of the last item.
CursorAnswers(n, more) == setup.strategy = "cursor" /\ more = (n # None)
TokenAnswers(n, more)  == setup.strategy = "token" /\ more = (n # None)
RelayAnswers(n, more)  == setup.strategy = "relay"
KeysetAnswers(n, more) == setup.strategy = "keyset"

\* The links of an answer, of which the first that is the next page counts.
NextLink(links) ==
  LET nexts == SelectSeq(links, LAMBDA l : "next" \in l.rels)
  IN  IF nexts = <<>> THEN None ELSE Head(nexts).to

Links == {<<>>} \cup
         {<<[to |-> c, rels |-> {"prev"}], [to |-> d, rels |-> r]>> :
            c, d \in Cursors, r \in {{"next"}, {"last", "next"}, {"last"}}}

LinkAnswers(n, more) ==
  setup.strategy = "link" /\ more = (n # None) /\ \E links \in Links : n = NextLink(links)

AnswerCursor(n, more) ==
  /\ gen = "fetching"
  /\ \/ CursorAnswers(n, more) \/ TokenAnswers(n, more) \/ LinkAnswers(n, more)
     \/ RelayAnswers(n, more) \/ KeysetAnswers(n, more)
  /\ queue' = Resolved(Outcome("page", <<state.pages + 1>>))
  /\ state' = [pages |-> state.pages + 1, more |-> Follows(n, more),
               cursor |-> IF n # None THEN n ELSE state.cursor,
               seen |-> IF Follows(n, more) THEN state.seen \cup {n} ELSE state.seen]
  /\ gen' = "idle"
  /\ UNCHANGED <<setup, aborted, consumer, asked, given>>

\* fetch() rejects, which is the end if the signal has aborted.
Fail ==
  /\ gen = "fetching"
  /\ Ended(IF aborted THEN queue ELSE Resolved(Outcome("error", <<>>)))
  /\ UNCHANGED <<setup, aborted, state, consumer, asked, given>>

----------------------------------------------------------------------------
\* The consumer.

\* Its first call, or a call of the generator itself, calls gen.next().
Asking == IF setup.lazy THEN 1 ELSE IF consumer = "new" THEN setup.ahead + 1 ELSE 0

Ask ==
  /\ consumer \in {"new", "thinking"}
  /\ consumer' = "waiting"
  /\ queue' = queue \o [i \in 1..Asking |-> IF gen = "ended" THEN End ELSE Pending]
  /\ UNCHANGED <<setup, aborted, gen, state, asked, given>>

\* The prefetching generator takes the page at the head, and asks for one more.

Taken == Head(queue)

Refilled == IF setup.lazy \/ gen = "ended" THEN Tail(queue) ELSE Append(Tail(queue), Pending)

Deliver ==
  /\ consumer = "waiting" /\ queue # <<>> /\ Head(queue).is = "page"
  /\ given' = given \o Taken.items
  /\ consumer' = "thinking"
  /\ queue' = Refilled
  /\ UNCHANGED <<setup, aborted, gen, state, asked>>

Stop ==
  /\ consumer = "waiting"
  /\ queue # <<>> => Head(queue).is \in {"end", "error"}
  /\ consumer' = IF queue # <<>> /\ Head(queue).is = "error" THEN "failed" ELSE "done"
  /\ queue' = <<>>
  /\ UNCHANGED <<setup, aborted, gen, state, asked, given>>

\* The consumer breaks off: return() ends paginate(), and not the one that prefetches.
Leave ==
  /\ consumer = "thinking"
  /\ consumer' = "left"
  /\ gen' = IF setup.lazy THEN "ended" ELSE gen
  /\ UNCHANGED <<setup, aborted, state, queue, asked, given>>

Abort == ~aborted /\ aborted' = TRUE
         /\ UNCHANGED <<setup, gen, state, queue, consumer, asked, given>>

Next ==
  \/ Resume \/ Wake \/ AnswerCounted \/ Fail
  \/ \E n \in Cursors \cup {None}, more \in BOOLEAN : AnswerCursor(n, more)
  \/ Ask \/ Deliver \/ Stop \/ Leave \/ Abort

Spec == Init /\ [][Next]_pagerVars

----------------------------------------------------------------------------
\* The consumer is given the items in their order and each once, however far ahead they
\* are fetched; when it is told the end it has been given everything that was fetched,
\* and everything an honest server keeps, unless pages were limited or it was aborted.
PagesComplete ==
  /\ given = [i \in 1..Len(given) |-> i]
  /\ consumer = "done" =>
       /\ setup.strategy \in Following => Len(given) = state.pages
       /\ setup.strategy \in Counting /\ setup.maxPages = 0 /\ ~aborted => Len(given) = setup.total

\* A server cannot keep a pager that follows its cursors going for ever: none is asked for
\* twice (pagination.ts 195-203 and 279-298).
NoCursorTwice == setup.strategy \in Following => IsInjective(asked)

\* Who waits for a page waits for one that is asked for.
PageComes ==
  /\ Awaited => gen # "ended"
  /\ consumer = "waiting" => queue # <<>> \/ gen = "ended"
=============================================================================
