------------------------------ MODULE GraphQLCall ------------------------------
(***************************************************************************)
(* Calls of a GraphQL client: a query over automatic persisted queries,    *)
(* with the retries of the client and of a retry link inside them, or an   *)
(* upload or a batch, which are sent once; and the cache of query hashes   *)
(* that the clients of a process share.                                    *)
(*                                                                         *)
(* A hash stands for its query.  What is in the answers, the headers and   *)
(* the forms a request is written in are left out.                         *)
(***************************************************************************)
EXTENDS Naturals, Sequences, FiniteSets

CONSTANTS Calls, Texts,     \* of queries
          MaxHashes,        \* MAX_APQ_CACHE_ENTRIES
          Retries, LinkRetries

VARIABLES asks,        \* what each call is for, and its text
          hashes,      \* apqCache, in the order of creation
          texts,       \* apqHashToQuery
          sweeping,    \* _apqCleanupTimer
          orphans,     \* history: texts hashed while the cache was cleared
          step,        \* where each call is
          tries,       \* attempts begun, by the client and by the link
          full,        \* the request carries its query
          deadline, heard,   \* the timer, the listener on the caller's signal
          given,       \* the callers that have aborted
          wire         \* history: requests sent in this attempt, by hash and in full
graphqlVars == <<asks, hashes, texts, sweeping, orphans, step, tries, full, deadline, heard, given,
                 wire>>

Kinds == {"persisted", "plain", "upload"}   \* a batch is sent as an upload is

TypeOK ==
  /\ asks \in [Calls -> [kind : Kinds, text : Texts]]
  /\ hashes \in Seq([text : Texts, old : BOOLEAN])
  /\ texts \subseteq Texts /\ sweeping \in BOOLEAN /\ orphans \subseteq Texts
  /\ step \in [Calls -> {"headers", "digest", "flight", "body", "failed", "pause",
                         "linkPause", "answered", "rejected"}]
  /\ tries \in [Calls -> [client : 0..Retries, link : 0..LinkRetries]]
  /\ full \in [Calls -> BOOLEAN] /\ deadline \subseteq Calls /\ heard \subseteq Calls
  /\ given \subseteq Calls /\ wire \in [Calls -> [hash : Nat, full : Nat]]

Fresh == [client |-> 0, link |-> 0]

Init ==
  /\ asks \in [Calls -> [kind : Kinds, text : Texts]]
  /\ hashes = <<>> /\ texts = {} /\ sweeping = FALSE /\ orphans = {}
  /\ step = [c \in Calls |-> "headers"] /\ tries = [c \in Calls |-> Fresh]
  /\ full = [c \in Calls |-> FALSE] /\ deadline = {} /\ heard = {} /\ given = {}
  /\ wire = [c \in Calls |-> [hash |-> 0, full |-> 0]]

----------------------------------------------------------------------------
(* The cache of hashes, which all clients share.                           *)

Persisted(c) == asks[c].kind = "persisted"
Cached(t)    == \E i \in DOMAIN hashes : hashes[i].text = t /\ ~hashes[i].old
Of(t)        == [text : {t}, old : BOOLEAN]

\* seq without the entries in S.
Without(seq, S) ==
  LET rest[i \in 0..Len(seq)] ==
        IF i = 0 THEN <<>>
        ELSE IF seq[i] \in S THEN rest[i - 1] ELSE Append(rest[i - 1], seq[i])
  IN rest[Len(seq)]

\* What a full cache keeps, and the hash of t behind it.
Oldest(seq)  == IF Len(seq) >= MaxHashes THEN Tail(seq) ELSE seq
Renewed(t)   == hashes' = Append(Without(Oldest(hashes), Of(t)), [text |-> t, old |-> FALSE])

\* Fault: the oldest hash is forgotten by its text alone.
RememberedHalf(t) ==
  Renewed(t) /\ texts' = texts \cup {t}

\* A full cache gives up its oldest entry, also when the text is there already.
Remembered(t) ==
  /\ Renewed(t)
  /\ texts' = (IF Len(hashes) >= MaxHashes THEN texts \ {hashes[1].text} ELSE texts) \cup {t}

\* The timer of the cache drops what is old from both maps.
Sweep ==
  /\ sweeping
  /\ hashes' = Without(hashes, [text : Texts, old : {TRUE}])
  /\ texts' = {hashes'[i].text : i \in DOMAIN hashes'}
  /\ UNCHANGED <<asks, sweeping, orphans, step, tries, full, deadline, heard, given, wire>>

\* clearAPQCache().  A hash that is being computed is stored after it, with no timer to drop it.
Clear ==
  /\ sweeping \/ hashes # <<>>
  /\ hashes' = <<>> /\ texts' = {} /\ sweeping' = FALSE
  /\ orphans' = {asks[c].text : c \in {d \in Calls : step[d] = "digest"}}
  /\ UNCHANGED <<asks, step, tries, full, deadline, heard, given, wire>>

\* Entries age in the order of their creation.
Age ==
  \E i \in DOMAIN hashes :
     /\ ~hashes[i].old
     /\ hashes' = [j \in DOMAIN hashes |-> [hashes[j] EXCEPT !.old = @ \/ j <= i]]
     /\ UNCHANGED <<asks, texts, sweeping, orphans, step, tries, full, deadline, heard, given, wire>>

----------------------------------------------------------------------------
(* One request.                                                            *)

\* A listener added to a signal that is aborted already is not called.
Sent(c) ==
  /\ step' = [step EXCEPT ![c] = "flight"]
  /\ wire' = IF Persisted(c) /\ ~full[c] THEN [wire EXCEPT ![c].hash = @ + 1]
                                         ELSE [wire EXCEPT ![c].full = @ + 1]
  /\ deadline' = IF asks[c].kind = "upload" THEN deadline ELSE deadline \cup {c}
  /\ heard' = IF c \in given THEN heard ELSE heard \cup {c}

\* The headers are there; a cached hash is taken, an old one is forgotten and computed again.
Written(c) ==
  /\ step[c] = "headers"
  /\ LET t == asks[c].text
     IN CASE ~Persisted(c) -> Sent(c) /\ UNCHANGED <<hashes, texts, sweeping>>
          [] Persisted(c) /\ Cached(t) ->
               Sent(c) /\ sweeping' = TRUE /\ UNCHANGED <<hashes, texts>>
          [] OTHER ->
               /\ hashes' = Without(hashes, Of(t)) /\ sweeping' = TRUE
               /\ texts' = IF hashes' = hashes THEN texts ELSE texts \ {t}
               /\ step' = [step EXCEPT ![c] = "digest"]
               /\ UNCHANGED <<deadline, heard, wire>>
  /\ UNCHANGED <<asks, orphans, tries, full, given>>

\* The hash of the text is computed, stored and sent.
Digested(c) ==
  /\ step[c] = "digest"
  /\ Remembered(asks[c].text)
  /\ Sent(c)
  /\ UNCHANGED <<asks, sweeping, orphans, tries, full, given>>

Released(c) == deadline' = deadline \ {c} /\ heard' = heard \ {c}

\* fetch resolves with the headers of the answer, or rejects; the body is read untimed.
Answered(c) ==
  /\ step[c] = "flight"
  /\ Released(c)
  /\ step' = [step EXCEPT ![c] = "body"]
  /\ UNCHANGED <<asks, hashes, texts, sweeping, orphans, tries, full, given, wire>>

Rejected(c) ==
  /\ Released(c)
  /\ step' = [step EXCEPT ![c] = "failed"]
  /\ UNCHANGED <<asks, hashes, texts, sweeping, orphans, tries, full, given, wire>>

FetchFails(c) == step[c] = "flight" /\ Rejected(c)
TimesOut(c)   == c \in deadline /\ Rejected(c)

Abort(c) ==
  /\ c \notin given /\ step[c] \notin {"answered", "rejected"}
  /\ given' = given \cup {c}
  /\ IF c \in heard
       THEN Released(c) /\ step' = [step EXCEPT ![c] = "failed"]
       ELSE UNCHANGED <<step, deadline, heard>>
  /\ UNCHANGED <<asks, hashes, texts, sweeping, orphans, tries, full, wire>>

\* The body: an answer, with data or with errors, or nothing that can be read.
Read(c) ==
  /\ step[c] = "body"
  /\ \E to \in {"answered", "failed"} : step' = [step EXCEPT ![c] = to]
  /\ UNCHANGED <<asks, hashes, texts, sweeping, orphans, tries, full, deadline, heard, given, wire>>

\* PERSISTED_QUERY_NOT_FOUND: the query is sent in full.
NotFound(c) ==
  /\ step[c] = "body" /\ Persisted(c) /\ ~full[c]
  /\ full' = [full EXCEPT ![c] = TRUE]
  /\ step' = [step EXCEPT ![c] = "headers"]
  /\ UNCHANGED <<asks, hashes, texts, sweeping, orphans, tries, deadline, heard, given, wire>>

----------------------------------------------------------------------------
(* The retries: of the link, which does not look at the signal, inside     *)
(* those of the client, which does.                                        *)

Retry(c) ==
  /\ step[c] = "failed"
  /\ step' = [step EXCEPT ![c] =
       CASE asks[c].kind # "upload" /\ tries[c].link < LinkRetries -> "linkPause"
         [] asks[c].kind # "upload" /\ tries[c].link >= LinkRetries
              /\ tries[c].client < Retries /\ c \notin given -> "pause"
         [] OTHER -> "rejected"]
  /\ UNCHANGED <<asks, hashes, texts, sweeping, orphans, tries, full, deadline, heard, given, wire>>

\* The delay is over; an attempt begins with the hash again.
Wake(c) ==
  /\ step[c] \in {"pause", "linkPause"}
  /\ step' = [step EXCEPT ![c] = "headers"]
  /\ full' = [full EXCEPT ![c] = FALSE]
  /\ wire' = [wire EXCEPT ![c] = [hash |-> 0, full |-> 0]]
  /\ tries' = [tries EXCEPT ![c] =
       IF step[c] = "pause" THEN [client |-> @.client + 1, link |-> 0]
                            ELSE [client |-> @.client, link |-> @.link + 1]]
  /\ UNCHANGED <<asks, hashes, texts, sweeping, orphans, deadline, heard, given>>

Next ==
  \/ \E c \in Calls : \/ Written(c) \/ Digested(c)
                      \/ Answered(c) \/ FetchFails(c) \/ TimesOut(c) \/ Abort(c)
                      \/ Read(c) \/ NotFound(c) \/ Retry(c) \/ Wake(c)
  \/ Sweep \/ Clear \/ Age

Spec == Init /\ [][Next]_graphqlVars

----------------------------------------------------------------------------
\* The two maps of the cache are each other's inverse and within the limit, and a timer
\* drops what is old, but for a text that was being hashed as the cache was cleared
\* (graphql.ts:890-951).
CacheMirrored ==
  /\ texts = {hashes[i].text : i \in DOMAIN hashes}
  /\ Cardinality(texts) = Len(hashes) /\ Len(hashes) <= MaxHashes
  /\ sweeping \/ texts \subseteq orphans

\* In an attempt a persisted query is sent by its hash once and with its text at most once,
\* after that; whatever else is sent once, and an upload or a batch in one attempt
\* (graphql.ts:1066-1131, 1148-1262, 1432-1478, 1597-1628).
TextOnRequest ==
  \A c \in Calls :
     /\ wire[c].full <= IF Persisted(c) THEN wire[c].hash ELSE 1
     /\ wire[c].hash <= IF Persisted(c) THEN 1 ELSE 0
     /\ asks[c].kind = "upload" => tries[c] = Fresh

\* A timer and a listener belong to a request in flight (graphql.ts:745-778).
FlightOnly ==
  \A c \in Calls : c \in deadline \cup heard => step[c] = "flight"
=============================================================================
