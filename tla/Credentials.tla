------------------------------ MODULE Credentials ------------------------------
(***************************************************************************)
(* The credentials requests are signed with: those of AWS, which the       *)
(* metadata service gives in three answers and cachingCredentials keeps    *)
(* until they are about to expire, for callers that sign a request once    *)
(* or, when its body goes in signed chunks, ask for them twice; and the    *)
(* nonce counts of Digest authentication.                                  *)
(*                                                                         *)
(* Keys, hashes, dates and the canonical form of requests are left out.    *)
(***************************************************************************)
EXTENDS Naturals, Sequences, FiniteSets, Functions

CONSTANTS Callers,
          Lifetime, Window,   \* of credentials; refreshBeforeExpiryMs
          Nonces,             \* scopes: a realm with a nonce
          MaxNonces,          \* MAX_TRACKED_NONCES, 64 in the code
          MaxTime, MaxUses    \* bounds: time stops, authorizations end

VARIABLES clock, issued,   \* time, and how many credentials the service has given out
          cached,          \* what cachingCredentials keeps
          inflight,        \* the promise of a call of the provider
          fetch,           \* the provider: what it fetches, and which part of it
          timer,           \* of fetchWithTimeout
          caller,          \* where each is, and the credentials it was given
          counters,        \* createDigestAuthorizer: scopes in the order of use, with counts
          spent            \* history: the scopes in the order of their authorizations, with counts
credVars == <<clock, issued, cached, inflight, fetch, timer, caller, counters, spent>>

Nothing == [id |-> 0, until |-> 0]
Idle    == <<"none", "none">>
Asking  == {"first", "second"}

TypeOK ==
  /\ clock \in 0..MaxTime /\ issued \in Nat /\ inflight \in BOOLEAN /\ timer \in BOOLEAN
  /\ cached.id \in 0..issued
  /\ fetch \in {Idle} \cup {"token", "role", "keys"} \X {"headers", "body"}
  /\ \A c \in Callers :
       /\ caller[c].at \in Asking \cup {"new", "signing", "signed", "refused"}
       /\ caller[c].seed.id \in 0..issued /\ caller[c].key.id \in 0..issued
  /\ counters \in Seq(Nonces \X (1..MaxUses)) /\ spent \in Seq(Nonces \X (1..MaxUses))

Init ==
  /\ clock = 0 /\ issued = 0 /\ cached = Nothing /\ inflight = FALSE /\ fetch = Idle
  /\ timer = FALSE
  /\ caller = [c \in Callers |-> [at |-> "new", seed |-> Nothing, key |-> Nothing, again |-> 0]]
  /\ counters = <<>> /\ spent = <<>>

----------------------------------------------------------------------------
(* cachingCredentials around imdsCredentials.                              *)

Fresh(creds)   == creds # Nothing /\ creds.until > clock + Window
Waiting        == {c \in Callers : caller[c].at \in Asking}
Fetching(what) == fetch' = <<what, "headers">> /\ timer' = TRUE

\* The first time a request is signed, the second time the key of its chunks is derived.
Given(r, creds) == IF r.at = "first" THEN [r EXCEPT !.at = "signing", !.seed = creds]
                                     ELSE [r EXCEPT !.at = "signed", !.key = creds]

\* A caller asks for credentials: it is given the cached ones, or waits with the others.
Ask(c, which) ==
  /\ caller[c].at = IF which = "first" THEN "new" ELSE "signing"
  /\ LET r == [caller[c] EXCEPT !.at = which, !.again = clock]
     IN caller' = [caller EXCEPT ![c] = IF Fresh(cached) THEN Given(r, cached) ELSE r]
  /\ IF Fresh(cached) \/ inflight
       THEN UNCHANGED <<inflight, fetch, timer>>
       ELSE inflight' = TRUE /\ Fetching("token")
  /\ UNCHANGED <<clock, issued, cached, counters, spent>>

\* A request that is not sent in chunks needs nothing more.
Signed(c) ==
  /\ caller[c].at = "signing"
  /\ caller' = [caller EXCEPT ![c].at = "signed", ![c].key = caller[c].seed]
  /\ UNCHANGED <<clock, issued, cached, inflight, fetch, timer, counters, spent>>

\* The timer ends with the headers; the body is read without one.
Headers ==
  /\ timer
  /\ fetch' = <<fetch[1], "body">> /\ timer' = FALSE
  /\ UNCHANGED <<clock, issued, cached, inflight, caller, counters, spent>>

Body ==
  /\ fetch # Idle /\ fetch[2] = "body" /\ fetch[1] # "keys"
  /\ Fetching(IF fetch[1] = "token" THEN "role" ELSE "keys")
  /\ UNCHANGED <<clock, issued, cached, inflight, caller, counters, spent>>

\* The credentials have come: whoever waited is given them.
Issued ==
  /\ fetch = <<"keys", "body">>
  /\ \E life \in Lifetime :
       LET creds == [id |-> issued + 1, until |-> clock + life]
       IN /\ cached' = creds /\ issued' = issued + 1
          /\ caller' = [c \in Callers |-> IF c \in Waiting THEN Given(caller[c], creds)
                                                           ELSE caller[c]]
  /\ inflight' = FALSE /\ fetch' = Idle
  /\ UNCHANGED <<clock, timer, counters, spent>>

\* Fault: the promise of a failed call is kept.
SettledKept == UNCHANGED inflight
Settled     == inflight' = FALSE

\* A request fails or times out, or its answer is refused: so are those who wait, also when
\* the credentials cached before have not expired yet.
Fails ==
  /\ fetch # Idle
  /\ caller' = [c \in Callers |-> IF c \in Waiting THEN [caller[c] EXCEPT !.at = "refused"]
                                                   ELSE caller[c]]
  /\ fetch' = Idle /\ timer' = FALSE /\ Settled
  /\ UNCHANGED <<clock, issued, cached, counters, spent>>

Tick ==
  /\ clock < MaxTime
  /\ clock' = clock + 1
  /\ UNCHANGED <<issued, cached, inflight, fetch, timer, caller, counters, spent>>

----------------------------------------------------------------------------
(* createDigestAuthorizer.  The count is taken before the hashes.          *)

Counted(n) == \E i \in DOMAIN counters : counters[i][1] = n
PlaceOf(n) == CHOOSE i \in DOMAIN counters : counters[i][1] = n
AllBut(p)  == SubSeq(counters, 1, p - 1) \o SubSeq(counters, p + 1, Len(counters))

\* rememberNonce: the latest used is the last; the first of too many is forgotten.
Authorize(n) ==
  LET next == IF Counted(n) THEN counters[PlaceOf(n)][2] + 1 ELSE 1
      kept == Append(IF Counted(n) THEN AllBut(PlaceOf(n)) ELSE counters, <<n, next>>)
  IN /\ Len(spent) < MaxUses
     /\ counters' = IF Len(kept) > MaxNonces THEN Tail(kept) ELSE kept
     /\ spent' = Append(spent, <<n, next>>)
     /\ UNCHANGED <<clock, issued, cached, inflight, fetch, timer, caller>>

AwsNext ==
  \/ \E c \in Callers, which \in Asking : Ask(c, which)
  \/ \E c \in Callers : Signed(c)
  \/ Headers \/ Body \/ Issued \/ Fails \/ Tick

DigestNext == \E n \in Nonces : Authorize(n)

Next == AwsNext \/ DigestNext

Spec == Init /\ [][Next]_credVars

----------------------------------------------------------------------------
\* Whoever waits for credentials waits for a call of the provider that is under way, of which
\* there is one, and a timer runs for the headers it waits for (aws-sigv4.ts:259-290, 343-445,
\* 1401-1437).
OneCall ==
  /\ inflight <=> fetch # Idle
  /\ Waiting # {} <=> inflight
  /\ timer <=> fetch[2] = "headers"

\* The key of the chunks is of the credentials the request was signed with, or of later ones
\* if those were about to expire when it was derived (aws-sigv4.ts:1010-1060).
KeyFollowsSeed ==
  \A c \in Callers : caller[c].at = "signed" =>
     /\ caller[c].key.id >= caller[c].seed.id
     /\ caller[c].key # caller[c].seed => caller[c].seed.until <= caller[c].again + Window

\* A count is not used twice with one nonce while fewer than MaxNonces others were used in
\* between (digest.ts:828-889).
CountsFresh ==
  \A i, j \in DOMAIN spent : i < j /\ spent[i] = spent[j] =>
     \E k, l \in i..j : /\ k <= l /\ \A m \in k..l : spent[m][1] # spent[i][1]
                        /\ Cardinality({spent[m][1] : m \in k..l}) >= MaxNonces

CredentialsHold == TypeOK /\ OneCall /\ KeyFollowsSeed /\ CountsFresh
=============================================================================
