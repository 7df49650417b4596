------------------------------ MODULE ClientLife ------------------------------
(***************************************************************************)
(* The life of a client (client.ts): what it makes when it is first asked  *)
(* for, the sockets its ws() opens, the client extend() makes of it, and   *)
(* destroy().                                                              *)
(*                                                                         *)
(* A behaviour is about one of the subsystems made on demand: the cookie   *)
(* jar, which ws() asks for, a jar of the user's own, the cache or the     *)
(* logger, which calls ask for that open no socket.  A call of ws() that   *)
(* waits for its token or key before is still idle here: it may ask, and   *)
(* dial, after destroy() as well, which no step of it looks for.           *)
(* Interceptors are those of requests.                                     *)
(***************************************************************************)
EXTENDS Naturals, Sequences, Functions, FiniteSets

CONSTANTS Calls,          \* of ws(), each of one socket
          Own, Childs,    \* interceptors of the configs of the client and of extend()
          Added,          \* interceptors registered while the client lives
          None

VARIABLES wanted,        \* the subsystem: "jar", "ownJar", "cache", "logger"
          jar, jars,     \* the one the client has, or 0; how many were made
          lock,          \* somebody makes one
          call,          \* where each call of ws() is
          with,          \* the jar it was given, 0 for none
          tracked,       \* sockets the client knows of
          importFailed,  \* some import of the jar's module has failed
          destroyed,     \* the clients destroy() was called on
          chains,        \* interceptors of the client and of its child
          breakers,      \* the registry of circuit breakers each has, or 0
          open           \* registries whose circuit for the server is open
lifeVars == <<wanted, jar, jars, lock, call, with, tracked, importFailed, destroyed, chains,
              breakers, open>>

Clients == {"parent", "child"}

Steps == {"idle", "waiting", "woken", "making", "ready", "refused", "connecting", "open",
          "retrying", "closed", "abandoned"}
Alive == {"connecting", "open", "retrying"}

TypeOK ==
  /\ wanted \in {"jar", "ownJar", "cache", "logger"}
  /\ jar \in 0..jars /\ jars \in Nat /\ lock \in BOOLEAN
  /\ call \in [Calls -> Steps] /\ with \in [Calls -> 0..jars \cup {None}]
  /\ tracked \subseteq Calls /\ importFailed \in BOOLEAN /\ destroyed \subseteq Clients
  /\ DOMAIN chains = Clients /\ breakers \in [Clients -> 0..2] /\ open \subseteq 1..2

\* What the constructor registers: the client's own limit of its rate, or its signer, and
\* the interceptors of its config.
Constructed(client, config) == <<client>> \o config

Init ==
  /\ wanted \in {"jar", "ownJar", "cache", "logger"}
  /\ jar = 0 /\ jars = 0 /\ lock = FALSE /\ importFailed = FALSE /\ destroyed = {}
  /\ call = [c \in Calls |-> "idle"] /\ with = [c \in Calls |-> None] /\ tracked = {}
  /\ chains = [k \in Clients |-> IF k = "parent" THEN Constructed(k, Own) ELSE <<>>]
  /\ breakers = [k \in Clients |-> 0] /\ open = {}

----------------------------------------------------------------------------
(* getCookieJar(), which ws() waits for last, getCache(), getLogger().      *)

Go(c, step) == call' = [call EXCEPT ![c] = step]

Given(c, n) == with' = [with EXCEPT ![c] = n]

Locked == lock

Ask(c) ==
  /\ call[c] = "idle"
  /\ \/ jar # 0 /\ Go(c, "ready") /\ Given(c, jar) /\ UNCHANGED lock
     \/ jar = 0 /\ Locked /\ Go(c, "waiting") /\ UNCHANGED <<with, lock>>
     \/ jar = 0 /\ ~Locked /\ Go(c, "making") /\ lock' = TRUE /\ UNCHANGED with
  /\ UNCHANGED <<wanted, jar, jars, tracked, importFailed, destroyed, chains, breakers, open>>

\* A jar of the user's own is there without an import.
TakeOwnJar(c) ==
  /\ call[c] = "idle"
  /\ jar' = 1 /\ jars' = 1 /\ Go(c, "ready") /\ Given(c, jar')
  /\ UNCHANGED <<wanted, lock, tracked, importFailed, destroyed, chains, breakers, open>>

AskForJar(c) == (wanted = "jar" /\ Ask(c)) \/ (wanted = "ownJar" /\ TakeOwnJar(c))
AskForCache(c)  == wanted = "cache" /\ Ask(c)
AskForLogger(c) == wanted = "logger" /\ Ask(c)

\* Whoever waited looks at the client again, a step later.
Unlocked(c, step) ==
  /\ lock' = FALSE
  /\ call' = [d \in Calls |-> CASE d = c -> step
                                [] call[d] = "waiting" -> "woken"
                                [] OTHER -> call[d]]

JarMade(c) ==
  /\ call[c] = "making" /\ Unlocked(c, "ready")
  /\ jars' = jars + 1 /\ jar' = jars' /\ Given(c, jars')
  /\ UNCHANGED <<wanted, tracked, importFailed, destroyed, chains, breakers, open>>

ImportFails(c) ==
  /\ call[c] = "making" /\ Unlocked(c, "refused") /\ importFailed' = TRUE
  /\ UNCHANGED <<wanted, jar, jars, with, tracked, destroyed, chains, breakers, open>>

\* There may be no jar even so: the import failed, or destroy() dropped it.
Woken(c) ==
  /\ call[c] = "woken" /\ Go(c, "ready") /\ Given(c, jar)
  /\ UNCHANGED <<wanted, jar, jars, lock, tracked, importFailed, destroyed, chains, breakers, open>>

(* ws(): without a pause from the look at the breaker to the socket.       *)

Dial(c) ==
  /\ call[c] = "ready" /\ wanted \in {"jar", "ownJar"}
  /\ \/ \* another origin than the base URL's, or an open circuit
        Go(c, "refused") /\ UNCHANGED tracked
     \/ /\ breakers["parent"] \notin open
        /\ tracked' = tracked \cup {c} /\ Go(c, "connecting")
  /\ UNCHANGED <<wanted, jar, jars, lock, with, importFailed, destroyed, chains, breakers, open>>

\* The first connection: one that fails is destroyed.
Connected(c) ==
  /\ call[c] \in {"connecting", "retrying"} /\ Go(c, "open") /\ UNCHANGED tracked

ConnectFails(c) ==
  /\ call[c] = "connecting" /\ Go(c, "closed") /\ tracked' = tracked \ {c}

\* Fault: a socket that will reconnect is forgotten as well.
ForgottenOnce(c, reconnects) == tracked \ {c}

ForgottenWhenOver(c, reconnects) == IF reconnects THEN tracked ELSE tracked \ {c}

\* onClose, of a connection that broke or was closed by its user.
Drops(c) ==
  /\ call[c] \in {"open", "retrying"}
  /\ \E reconnects \in BOOLEAN :
       /\ Go(c, IF reconnects THEN "retrying" ELSE "closed")
       /\ tracked' = ForgottenWhenOver(c, reconnects)

\* destroy() of the socket tells nobody.
Abandon(c) == call[c] \in Alive \ {"connecting"} /\ Go(c, "abandoned") /\ UNCHANGED tracked

Socket(c) ==
  /\ Connected(c) \/ ConnectFails(c) \/ Drops(c) \/ Abandon(c)
  /\ UNCHANGED <<wanted, jar, jars, lock, with, importFailed, destroyed, chains, breakers, open>>

(* Interceptors, breakers and the child.                                   *)

\* seq without the entries in S.
Without(seq, S) ==
  LET rest[i \in 0..Len(seq)] ==
        IF i = 0 THEN <<>>
        ELSE IF seq[i] \in S THEN rest[i - 1] ELSE Append(rest[i - 1], seq[i])
  IN rest[Len(seq)]

Chain(k, chain) == chains' = [chains EXCEPT ![k] = chain]

Use(f) ==
  /\ f \notin Range(chains["parent"]) /\ Chain("parent", Append(chains["parent"], f))
  /\ UNCHANGED <<breakers, open>>

\* What is in the config comes back in a child.
Eject(f) ==
  /\ Chain("parent", Without(chains["parent"], {f}))
  /\ UNCHANGED <<breakers, open>>

\* attachHookRegistry(): a registry's hooks run in an interceptor of each phase, which its one
\* ejector takes out of all of them.
Attach == Use("hooks")
Detach == Eject("hooks")

\* The rest comes with the config.
Runtime(chain, config) == Without(chain, Range(config))

\* extend(): the registry of breakers is the same one.
Extend ==
  /\ chains["child"] = <<>>
  /\ Chain("child", Constructed("child", Own \o Childs)
                      \o Runtime(chains["parent"], Own \o Childs))
  /\ breakers' = [breakers EXCEPT !["child"] = breakers["parent"]]
  /\ UNCHANGED open

EnableBreaker(k) ==
  /\ chains[k] # <<>> /\ breakers[k] = 0
  /\ breakers' = [breakers EXCEPT ![k] = CHOOSE n \in 1..2 : \A j \in Clients : breakers[j] # n]
  /\ UNCHANGED <<chains, open>>

Trip(k)  == breakers[k] # 0 /\ open' = open \cup {breakers[k]} /\ UNCHANGED <<chains, breakers>>
Reset(k) == open' = open \ {breakers[k]} /\ UNCHANGED <<chains, breakers>>

\* Bounds: before any destroy(), and in behaviours of the jar only, as it has nothing to do with
\* the cache or the logger.
Configure ==
  /\ destroyed = {} /\ wanted = "jar"
  /\ \/ Extend
     \/ \E k \in Clients : EnableBreaker(k) \/ Trip(k) \/ Reset(k)
     \/ \E f \in Added : Use(f)
     \/ Attach \/ Detach
     \/ \E f \in Added \cup Range(Own) : Eject(f)
  /\ UNCHANGED <<wanted, jar, jars, lock, call, with, tracked, importFailed, destroyed>>

\* destroy(), which may be called again: the registry is cleared for whoever else has it, the
\* cache is kept, and a jar being made is not known of yet.
Destroy(k) ==
  /\ k = "parent" \/ chains[k] # <<>>
  /\ destroyed' = destroyed \cup {k}
  /\ Chain(k, <<>>) /\ open' = open \ {breakers[k]}
  /\ IF k = "parent"
     THEN /\ jar' = (IF wanted = "cache" THEN jar ELSE 0) /\ tracked' = {}
          /\ call' = [c \in Calls |-> IF c \in tracked /\ call[c] \in Alive THEN "closed"
                                       ELSE call[c]]
     ELSE UNCHANGED <<jar, tracked, call>>
  /\ UNCHANGED <<wanted, jars, lock, with, importFailed, breakers>>

Next ==
  \/ \E c \in Calls : \/ AskForJar(c) \/ AskForCache(c) \/ AskForLogger(c)
                      \/ JarMade(c) \/ ImportFails(c) \/ Woken(c)
                      \/ Dial(c) \/ Socket(c)
  \/ Configure
  \/ \E k \in Clients : Destroy(k)

Spec == Init /\ [][Next]_lifeVars

----------------------------------------------------------------------------
\* However many ask at once, one makes the jar, cache or logger, and everyone is given what the
\* client has: one in all until destroy() drops it, after which another may be made.  A caller
\* goes without only after an import that failed or a destroy() (client.ts 1865-1958).
JarOnce ==
  /\ Cardinality({c \in Calls : call[c] = "making"}) <= 1
  /\ lock <=> \E c \in Calls : call[c] = "making"
  /\ "parent" \notin destroyed => jars <= 1
  /\ \A c \in Calls :
       /\ with[c] = 0 => importFailed \/ "parent" \in destroyed
       /\ with[c] \notin {None, 0, jar} => "parent" \in destroyed
       /\ call[c] \in {"making", "waiting"} => lock /\ jar = 0

\* A socket that is open, or may be again, is one that destroy() will close, and a socket
\* that was closed is not kept (client.ts 2288-2326, 4709-4716).  One dialled after destroy()
\* is left for another destroy().
SocketsOwned ==
  \A c \in Calls : /\ call[c] \in Alive => c \in tracked
                   /\ call[c] = "closed" => c \notin tracked

\* No interceptor runs twice for one request, whatever it was inherited from (client.ts
\* 1970-2012).
InterceptorsOnce == \A k \in Clients : IsInjective(chains[k])

LifeHolds == TypeOK /\ JarOnce /\ SocketsOwned /\ InterceptorsOnce
=============================================================================
