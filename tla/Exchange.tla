------------------------------- MODULE Exchange -------------------------------
(***************************************************************************)
(* One attempt of a request: Kinetex._executeOnce with the interceptors,   *)
(* the cache lookup, the redirects followed by hand, the deadline of the   *)
(* attempt, the body and the cookie jar; and the attempts nested in it     *)
(* when a response interceptor sends again.                                *)
(*                                                                         *)
(* A URL stands for itself; its origin is a constant function.  A header   *)
(* set is what it carries: the credentials of the auth configuration, and  *)
(* the origins whose cookies it holds.  A hook that rewrites a redirected  *)
(* request is left out.                                                    *)
(***************************************************************************)
EXTENDS Naturals, Sequences, FiniteSets

CONSTANTS Urls,          \* what may be requested, and what a Location may name
          Origin,        \* the origin of each
          First,         \* the URL of the request
          MaxRedirects,  \* maxRedirects
          MaxResends     \* MAX_INTERCEPTOR_RESENDS

Origins == {Origin[u] : u \in Urls}
Bodies  == {"none", "text", "stream"}   \* a stream can be read once

Requests == [url : Urls, method : {"GET", "HEAD", "POST"}, body : Bodies,
             auth : BOOLEAN, cookies : SUBSET Origins]

\* 301 or 302, 303, 307 or 308; 304; below 400; the rest.
Redirects == {"found", "see other", "temporary"}
Statuses  == Redirects \cup {"not modified", "success", "error"}

VARIABLES place,    \* the await at which the attempt stands
          depth,    \* attempts that wait for the one they have sent again
          request,  \* the request as it was before the attempt changed it
          current,  \* currentReq: the request of this hop
          limit,    \* maxRedirects, or 0 if redirects are not followed
          hop,      \* hop
          visited,  \* visited
          trail,    \* history: what this attempt has sent
          deaf,     \* the transport does not hear the signal, aborted before it was asked
          jar,      \* the origins that have set cookies
          status,   \* of the response at hand
          open,     \* its body has been neither read to its end nor cancelled
          armed,    \* the deadline is set, and destroy() knows of the attempt
          aborted,  \* the signal of the attempt
          told      \* calls of onSuccess
wire         == <<current, limit, hop, visited, trail, deaf>>
exchangeVars == <<place, depth, request, wire, jar, status, open, armed, aborted, told>>

Places == {"interceptors", "lookup", "sending", "waiting", "answered", "reading", "parsing",
           "responding", "finishing", "done", "failed", "abandoned"}

TypeOK ==
  /\ place \in Places /\ depth \in 0..MaxResends /\ told \in 0..(MaxResends + 1)
  /\ request \in Requests /\ current \in Requests
  /\ limit \in {0, MaxRedirects} /\ hop \in 0..limit /\ visited \subseteq Urls
  /\ trail \in Seq(Requests) /\ Len(trail) <= limit + 1
  /\ jar \subseteq Origins /\ status \in Statuses
  /\ open \in BOOLEAN /\ armed \in BOOLEAN /\ aborted \in BOOLEAN /\ deaf \in BOOLEAN

\* The jar's cookies for a URL.
CookiesFor(u, j) == j \cap {Origin[u]}

\* send() has built the request: credentials and cookies are in its headers.
Init ==
  /\ place = "interceptors" /\ depth = 0 /\ told = 0
  /\ jar \in SUBSET Origins
  /\ \E m \in {"GET", "HEAD", "POST"}, b \in Bodies, a \in BOOLEAN :
       /\ b # "none" => m = "POST"
       /\ request = [url |-> First, method |-> m, body |-> b, auth |-> a,
                     cookies |-> CookiesFor(First, jar)]
  /\ limit \in {0, MaxRedirects}
  /\ current = request /\ hop = 0 /\ visited = {} /\ trail = <<>> /\ deaf = FALSE
  /\ status = "success" /\ open = FALSE /\ armed = FALSE /\ aborted = FALSE

\* endAttempt(): on leaving the part that the deadline covers.
\* Fault: it is not reached.
EndAttemptNot(p) == place' = p /\ UNCHANGED armed

EndAttempt(p) == place' = p /\ armed' = FALSE

\* On to another place in that part.

Keep(p) == place' = p /\ UNCHANGED armed

----------------------------------------------------------------------------
\* The request interceptors: on, or an error.
Intercept ==
  /\ place = "interceptors"
  /\ place' \in {"lookup", "failed"}
  /\ UNCHANGED <<depth, request, wire, jar, status, open, armed, aborted, told>>

\* A body of the type that was asked for, or an error: it is no JSON, the caller's parser throws.
Parsed == place' \in {"responding", "failed"}

\* An interceptor answers: its response is parsed, where a parser may throw, and goes to the
\* response interceptors.
Synthetic ==
  /\ place = "interceptors" /\ Parsed
  /\ status' \in {"success", "error"}
  /\ UNCHANGED <<depth, request, wire, jar, open, armed, aborted, told>>

\* A nested attempt gives its response to the one that sent again.
Returned == IF depth = 0 THEN place' = "done" /\ UNCHANGED depth
                         ELSE place' = "finishing" /\ depth' = depth - 1

\* A cached response is parsed anew, where a parser may throw.
Built == Returned \/ (place' = "failed" /\ UNCHANGED depth)

\* The cache has an answer, fresh or stale: no hook, no check of its status.
Hit ==
  /\ place = "lookup"
  /\ Built
  /\ status' \in {"success", "error"}
  /\ UNCHANGED <<request, wire, jar, open, armed, aborted, told>>

\* Dispatch: the deadline is set, and the chain of redirects begins.
Dispatch ==
  /\ place = "lookup"
  /\ place' = "sending" /\ armed' = TRUE
  /\ current' = request /\ hop' = 0 /\ visited' = {} /\ trail' = <<>> /\ deaf' = FALSE
  /\ UNCHANGED <<depth, request, limit, jar, status, open, aborted, told>>

\* Fault: the credentials are set on every hop.
ReapplyAlways == hop > 0 /\ request.auth

\* On a later hop the credentials are set again if it goes to the first origin.
Reapply == hop > 0 /\ request.auth /\ Origin[current.url] = Origin[request.url]

\* A transport may not hear a signal that has aborted by now: node:http waits for the event.
Transmit ==
  /\ place = "sending"
  /\ place' = "waiting"
  /\ current' = [current EXCEPT !.auth = @ \/ Reapply]
  /\ trail' = Append(trail, current')
  /\ deaf' \in {deaf, aborted}
  /\ UNCHANGED <<depth, request, limit, hop, visited, jar, status, open, armed, aborted, told>>

\* The server may be heard.
Hearing == place = "waiting" /\ (aborted => deaf)

\* A response that is no redirect, or one that the caller wants to see.
Answered ==
  /\ Hearing
  /\ Keep("answered")
  /\ \/ status' \in {"success", "error"} /\ open' = TRUE
     \/ status' = "not modified" /\ open' = FALSE
     \/ /\ status' \in Redirects /\ limit = 0 /\ current.url \notin visited
        /\ open' = TRUE
  /\ UNCHANGED <<depth, request, wire, jar, aborted, told>>

\* What a redirect makes of the request.
BecomesGet(s) == (s = "found" /\ current.method = "POST")
                 \/ (s = "see other" /\ current.method \notin {"GET", "HEAD"})

NextBody(s) == IF BecomesGet(s) \/ current.method = "HEAD" THEN "none" ELSE current.body

Redirected(s, to, j) ==
  LET across == Origin[to] # Origin[current.url]
  IN [url |-> to, method |-> IF BecomesGet(s) THEN "GET" ELSE current.method,
      body |-> NextBody(s), auth |-> current.auth /\ ~across, cookies |-> CookiesFor(to, j)]

\* A redirect that is followed: its cookies are kept, its body is cancelled.
Follow(s, to) ==
  /\ Hearing
  /\ hop < limit /\ current.url \notin visited
  /\ visited' = visited \cup {current.url}
  /\ jar' \in {jar, jar \cup {Origin[current.url]}}
  /\ NextBody(s) # "stream"
  /\ current' = Redirected(s, to, jar')
  /\ hop' = hop + 1
  /\ status' = s
  /\ Keep("sending")
  /\ UNCHANGED <<depth, request, limit, trail, deaf, open, aborted, told>>

\* One that is refused: in a loop, one too many, to a bad address, with a body that is gone.
Refuse(s) ==
  /\ Hearing
  /\ \/ /\ current.url \in visited
        /\ UNCHANGED <<visited, jar>> /\ open' = TRUE
     \/ /\ current.url \notin visited /\ limit > 0
        /\ visited' = visited \cup {current.url}
        /\ jar' \in {jar, jar \cup {Origin[current.url]}}
        /\ open' = (hop = limit)
  /\ status' = s
  /\ EndAttempt("abandoned")
  /\ UNCHANGED <<depth, request, current, limit, hop, trail, deaf, aborted, told>>

----------------------------------------------------------------------------
\* onAfterRequest; then a 304 is answered from the cache, if it has the entry.
AfterRequest ==
  /\ place = "answered"
  /\ \/ Keep("reading") /\ UNCHANGED depth
     \/ EndAttempt("abandoned") /\ UNCHANGED depth
     \/ status = "not modified" /\ Built /\ armed' = FALSE
  /\ UNCHANGED <<request, wire, jar, status, open, aborted, told>>

\* The body: to its end, or too long, or broken.  Behind the progress of a download one that
\* is too long is not cancelled: the wrapper holds the lock of the source (client.ts 3879).
Read ==
  /\ place = "reading" /\ ~aborted
  /\ \/ EndAttempt("parsing") /\ open' = FALSE
     \/ EndAttempt("failed") /\ open' = FALSE
     \/ EndAttempt("abandoned") /\ UNCHANGED open
  /\ UNCHANGED <<depth, request, wire, jar, status, aborted, told>>

\* The deadline, or destroy().
Abort ==
  /\ armed /\ ~aborted
  /\ aborted' = TRUE
  /\ UNCHANGED <<place, depth, request, wire, jar, status, open, armed, told>>

\* The caller's own signal: it reaches an attempt that has been dispatched.
CallerAborts ==
  /\ ~aborted /\ place \in {"interceptors", "lookup", "sending", "waiting", "answered", "reading"}
  /\ aborted' = TRUE
  /\ UNCHANGED <<place, depth, request, wire, jar, status, open, armed, told>>

\* The reader gives up once the signal has aborted, and so does a transport that hears it.
GiveUp ==
  /\ aborted /\ (place = "reading" \/ (place = "waiting" /\ ~deaf))
  /\ EndAttempt("failed")
  /\ open' = FALSE
  /\ UNCHANGED <<depth, request, wire, jar, status, aborted, told>>

\* Fault: the deadline of a hop is left to the transport.
HopTimesOutHeard == place = "waiting" /\ ~deaf /\ EndAttempt("failed")
                    /\ UNCHANGED <<depth, request, wire, jar, status, open, aborted, told>>

\* The deadline of this hop, which sendWithTimeout() races against whatever the transport does.
HopTimesOut == place = "waiting" /\ EndAttempt("failed")
               /\ UNCHANGED <<depth, request, wire, jar, status, open, aborted, told>>

----------------------------------------------------------------------------
\* The last response's cookies, parsing, the transforms, the cache and the log.
Parse ==
  /\ place = "parsing" /\ Parsed
  /\ jar' \in {jar, jar \cup {Origin[current.url]}}
  /\ UNCHANGED <<depth, request, wire, status, open, armed, aborted, told>>

\* The response interceptors: the response, another one, an error, or once more.
Respond ==
  /\ place = "responding"
  /\ \/ place' = "finishing" /\ status' \in {status, "success", "error"}
        /\ UNCHANGED <<depth, aborted>>
     \/ place' = "failed" /\ UNCHANGED <<depth, status, aborted>>
     \/ /\ depth < MaxResends
        /\ place' = "interceptors" /\ depth' = depth + 1
        /\ UNCHANGED <<status, aborted>>
  /\ UNCHANGED <<request, wire, jar, open, armed, told>>

\* throwOnError, the last hooks, onSuccess.
Finish ==
  /\ place = "finishing"
  /\ \/ /\ status # "error"
        /\ told' = told + 1 /\ Returned
     \/ place' = "failed" /\ UNCHANGED <<depth, told>>
  /\ UNCHANGED <<request, wire, jar, status, open, armed, aborted>>

Next ==
  \/ Intercept \/ Synthetic \/ Hit \/ Dispatch \/ Transmit \/ Answered
  \/ \E s \in Redirects : Refuse(s) \/ \E to \in Urls : Follow(s, to)
  \/ AfterRequest \/ Read \/ Abort \/ CallerAborts \/ GiveUp \/ HopTimesOut
  \/ Parse \/ Respond \/ Finish

\* Interceptors, hooks, the cache and parsing come to an end; the timers fire.  That a
\* server answers, or sends the rest of a body, is not assumed.
Proceed  == Intercept \/ Synthetic \/ Hit \/ Dispatch \/ Transmit \/ AfterRequest
              \/ Parse \/ Respond \/ Finish \/ GiveUp \/ HopTimesOut
Fairness == WF_exchangeVars(Proceed) /\ WF_exchangeVars(Abort)
Spec     == Init /\ [][Next]_exchangeVars
FairSpec == Spec /\ Fairness

----------------------------------------------------------------------------
\* However redirects lead from origin to origin and back, the credentials go to the origin
\* of the request only, and each origin is sent its own cookies only.
CredentialsStayHome ==
  \A i \in DOMAIN trail :
    /\ trail[i].auth => Origin[trail[i].url] = Origin[First]
    /\ trail[i].cookies \subseteq {Origin[trail[i].url]}

\* A stream is sent once in a chain of redirects, a HEAD stays a HEAD, and a body goes with
\* the method it came with only.
ChainKeepsRequest ==
  /\ \A i, j \in DOMAIN trail : trail[i].body = "stream" /\ trail[j].body = "stream" => i = j
  /\ \A i \in DOMAIN trail : /\ trail[i].body # "none" => trail[i].method = "POST"
                             /\ request.method = "HEAD" => trail[i].method = "HEAD"

\* While a server is waited for, the deadline is set; otherwise neither timer nor controller
\* is left, and no body is left open but that of a redirect that was refused, of a response
\* whose hook threw, or of a download that is watched and too long (place "abandoned").
NothingHeld ==
  /\ armed <=> place \in {"sending", "waiting", "answered", "reading"}
  /\ open => place \in {"answered", "reading", "abandoned"}

\* With a deadline the call ends, whatever a server withholds, wherever it redirects to, and
\* though the transport may not hear a signal that had aborted before (core.ts 1384, 1697-1700).
CallEnds == <>(place \in {"done", "failed", "abandoned"})
=============================================================================
