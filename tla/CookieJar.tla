------------------------------ MODULE CookieJar ------------------------------
(***************************************************************************)
(* The cookie store (class CookieJar): what Set-Cookie headers put into it *)
(* and take out of it, the two limits with their evictions by the latest   *)
(* use, expiry and its timer, the ways to clear it, the answer to a        *)
(* request, which counts as a use, and the jar made of the data of another *)
(* one, which takes its place here with the default limits: fromJSON()     *)
(* passes none on, and puts the cookies one by one, with the evictions of  *)
(* any other (Load), in one call that nothing comes between.               *)
(*                                                                         *)
(* Domains are related by Under; values, sizes, times of creation and the  *)
(* text of headers are left out.  What paths, Secure, SameSite, HttpOnly   *)
(* and the name prefixes keep back from a request is a choice by name.     *)
(* Several calls may fall on one time.                                     *)
(***************************************************************************)
EXTENDS Naturals, FiniteSets

CONSTANTS Domains,       \* hosts and cookie domains
          Under,         \* the pairs of a host and a domain above it
          Suffixes,      \* the domains that are public suffixes
          Names,         \* the names of cookies, with their paths
          Lives,         \* Max-Age values of the headers, in ticks; 0 deletes
          Limits,        \* the limits a jar may be made with: [total, perDomain]
          Defaults,      \* those of a jar made without any: MAX_TOTAL, MAX_PER_DOMAIN
          MaxTime,       \* bound: time stops here
          None           \* no cookie, no Domain attribute, no Max-Age, no expiry (Infinity)

Keys == Domains \X Names

VARIABLES now,            \* Date.now()
          dm,             \* the cookie of each domain and name
          total,          \* total
          maxTotal,       \* maxTotal and maxPerDomain of the jar
          maxPerDomain,
          loading         \* the cookies that fromJSON() has still to put
jarVars == <<now, dm, total, maxTotal, maxPerDomain, loading>>

Jars == [Keys -> {None} \cup [expires : Nat \cup {None}, used : Nat, hostOnly : BOOLEAN]]

TypeOK ==
  /\ now \in 0..MaxTime /\ total \in Nat /\ dm \in Jars /\ loading \in Jars
  /\ [total |-> maxTotal, perDomain |-> maxPerDomain] \in Limits \cup {Defaults}

Empty == [k \in Keys |-> None]

Init ==
  /\ now = 0 /\ total = 0 /\ dm = Empty /\ loading = Empty
  /\ \E limits \in Limits : maxTotal = limits.total /\ maxPerDomain = limits.perDomain

----------------------------------------------------------------------------
Stored      == {k \in Keys : dm[k] # None}
OfDomain(d) == {k \in Stored : k[1] = d}
Below(h, d) == h = d \/ <<h, d>> \in Under

\* The cookies S are deleted, of which the total hears.
Delete(S) ==
  /\ S \cap Stored # {}
  /\ dm' = [k \in Keys |-> IF k \in S THEN None ELSE dm[k]]
  /\ total' = total - Cardinality(S \cap Stored)
  /\ UNCHANGED <<now, maxTotal, maxPerDomain, loading>>

\* Those of S whose latest use is the longest ago, of which a sort puts any first.
\* Fault: the order of the sort is the other one.
MostUsed(S)  == {k \in S : \A j \in S : dm[k].used >= dm[j].used}
LeastUsed(S) == {k \in S : \A j \in S : dm[k].used <= dm[j].used}

\* evictForDomain and evictGlobal: what may have to go so that a cookie finds room among S.
Overfull(S, limit)     == Cardinality(S) >= limit

Room(S, limit) == IF Overfull(S, limit) THEN {{k} : k \in LeastUsed(S)} ELSE {{}}

\* putCookie of a new key, after the evictions, and of one that is there.
PutNew(k, cookie) ==
  /\ dm[k] = None
  /\ \E near \in Room(OfDomain(k[1]), maxPerDomain) :
       \E far \in Room(Stored \ near, maxTotal) :
         /\ dm' = [j \in Keys |-> IF j = k THEN cookie
                                  ELSE IF j \in near \cup far THEN None ELSE dm[j]]
         /\ total' = total - Cardinality(near \cup far) + 1

PutAgain(k, cookie)        == dm[k] # None /\ dm' = [dm EXCEPT ![k] = cookie] /\ UNCHANGED total

\* setCookie(): a response of host sets a cookie that is of its host alone or, with the
\* Domain attribute, of a domain above it.
SetCookie(host, domain, name, life) ==
  LET k == <<IF domain = None THEN host ELSE domain, name>>
      expires == IF life = None THEN None ELSE now + life
      cookie  == [expires |-> expires, used |-> now, hostOnly |-> domain = None]
  IN /\ domain # None => Below(host, domain) /\ domain \notin Suffixes
     /\ IF life = 0 THEN Delete({k})
                    ELSE /\ PutNew(k, cookie) \/ PutAgain(k, cookie)
                         /\ UNCHANGED <<now, maxTotal, maxPerDomain, loading>>

\* Who would be sent to a request: the barred names are kept back by their attributes and paths.
Expired(k) == dm[k].expires # None /\ dm[k].expires < now

Sent(host, barred) ==
  {k \in Stored : /\ Below(host, k[1]) /\ (dm[k].hostOnly => host = k[1])
                  /\ ~Expired(k) /\ k[2] \notin barred /\ k[1] \notin Suffixes}

\* getCookies(): what is sent has been used.
GetCookies(host, barred) ==
  LET S == Sent(host, barred)
  IN /\ S # {}
     /\ dm' = [k \in Keys |-> IF k \in S THEN [dm[k] EXCEPT !.used = now] ELSE dm[k]]
     /\ UNCHANGED <<now, total, maxTotal, maxPerDomain, loading>>

RemoveCookie(k) == Delete({k})
Clear           == Delete(Stored)

\* The timer, or a caller: clearExpired() and clearSession().
ClearExpired == Delete({k \in Stored : Expired(k)})
ClearSession == Delete({k \in Stored : dm[k].expires = None})

\* clearForDomain(), clearForUrl(): the domain and what is below it.
ClearForDomain(d) == Delete({k \in Stored : Below(k[1], d)})

\* toJSON() and fromJSON(): the cookies that have not expired, with their latest uses, are put
\* in any order into a new jar, whose limits are the default ones.
Reload ==
  /\ loading' = [k \in Keys |-> IF k \in Stored /\ ~Expired(k) THEN dm[k] ELSE None]
  /\ dm' = Empty /\ total' = 0
  /\ maxTotal' = Defaults.total /\ maxPerDomain' = Defaults.perDomain
  /\ UNCHANGED now

Load(k) ==
  /\ loading[k] # None /\ PutNew(k, loading[k])
  /\ loading' = [loading EXCEPT ![k] = None]
  /\ UNCHANGED <<now, maxTotal, maxPerDomain>>

Tick == now < MaxTime /\ now' = now + 1 /\ UNCHANGED <<dm, total, maxTotal, maxPerDomain, loading>>

Next ==
  \/ /\ loading = Empty
     /\ \/ \E h \in Domains, n \in Names :
             \E d \in Domains \cup {None}, l \in Lives \cup {None} : SetCookie(h, d, n, l)
        \/ \E h \in Domains, barred \in SUBSET Names : GetCookies(h, barred)
        \/ \E k \in Keys : RemoveCookie(k)
        \/ \E d \in Domains : ClearForDomain(d)
        \/ Clear \/ ClearExpired \/ ClearSession \/ Reload \/ Tick
  \/ \E k \in Keys : Load(k)

Spec == Init /\ [][Next]_jarVars

----------------------------------------------------------------------------
\* The total is the number of cookies, and neither limit of the jar is exceeded, also while it
\* is filled from the data of a jar with larger ones (cookie-store.ts 842-876, 932-1040).
JarExact ==
  /\ total = Cardinality(Stored) /\ total <= maxTotal
  /\ \A d \in Domains : Cardinality(OfDomain(d)) <= maxPerDomain

\* One cookie at most makes room for another: none of its domain was used longer ago when
\* the domain was full, and none at all when the jar was.
LeastUsedGoes ==
  [][\A k \in Keys \ Stored : dm'[k] # None =>
       LET gone == {j \in Stored : dm'[j] = None}
           full == Cardinality(OfDomain(k[1])) = maxPerDomain
       IN /\ gone # {} => full \/ total = maxTotal
          /\ Cardinality(gone) <= 1
          /\ \A g \in gone, j \in (IF full THEN OfDomain(k[1]) ELSE Stored) :
               dm[g].used <= dm[j].used]_jarVars
=============================================================================
