----------------------------- MODULE CookieRules -----------------------------
(***************************************************************************)
(* What decides whether a cookie is taken and to whom it is shown: the     *)
(* attributes of a Set-Cookie header, the public suffix list, domain and   *)
(* path matching, SameSite and the name prefixes; and how a line into      *)
(* which several headers were folded is taken apart.                       *)
(*                                                                         *)
(* A host is the sequence of its labels, a path that of its segments, and  *)
(* a line that of its tokens.  Values, sizes, HttpOnly, and the life of    *)
(* cookies (see CookieJar) are left out, and so are IP addresses.          *)
(***************************************************************************)
EXTENDS Naturals, Sequences, SequencesExt, FiniteSetsExt

CONSTANTS Hosts,                          \* sequences of labels
          Exact, Wildcards, Exceptions,   \* PSL_EXACT, PSL_WILDCARDS, PSL_EXCEPTIONS
          Paths,                          \* of Path attributes, and of requests but for ".."
          Bodies,                         \* Set-Cookie headers, as sequences of tokens
          MaxAttrs, MaxHeaders            \* bounds: attributes of a header, headers of a line

VARIABLES cookie,   \* the cookie stored, or the empty record of none
          setter,   \* history: the URL of the response that set it
          line      \* headers folded into one line so far
ruleVars == <<cookie, setter, line>>

NamePrefixes == {"", "__Secure-", "__Host-"}
Schemes  == {"https", "http", "local"}   \* local is plain text to this computer
Urls     == [host : Hosts, path : {p \in Paths : ".." \notin Range(p)}, scheme : Schemes]
Contexts == {"strict", "lax", "cross-site", "none"}

\* An attribute without "=" has the value Bare.
Bare  == <<>>
Attrs ==
  [name : {"domain"}, val : Hosts \cup {Bare}] \cup [name : {"path"}, val : Paths \cup {Bare}]
    \cup [name : {"samesite"}, val : {<<"strict">>, <<"none">>}]
    \cup [name : {"secure"}, val : {Bare}]

Nobody == [name |-> "nobody"]

----------------------------------------------------------------------------
(* Domains.                                                                *)

Tails(h)    == {SubSeq(h, i, Len(h)) : i \in DOMAIN h}
Parent(h)   == Tail(h)
Longest(S)  == CHOOSE s \in S : \A t \in S : Len(t) <= Len(s)
Below(h, d) == Len(h) > Len(d) /\ d \in Tails(h)

\* A rule of the list is the host.
Listed(h) == h \in Exact \/ (Len(h) > 1 /\ Parent(h) \in Wildcards)

GetPublicSuffix(h) ==
  LET listed == {s \in Tails(h) : Listed(s)}
  IN IF h \in Exceptions THEN h ELSE IF listed # {} THEN Longest(listed) ELSE <<Last(h)>>

IsPublicSuffix(h) == h \in Exceptions \/ Listed(h)

DomainMatch(h, d) == h = d \/ (Below(h, d) /\ ~IsPublicSuffix(d))

\* The algorithm of the list: an exception prevails and gives up its first label, then the
\* longest rule, then the last label.
Prevailing(h) == {s \in Tails(h) : s \in Exceptions}
Suffix(h)     == IF Prevailing(h) # {} THEN Parent(Longest(Prevailing(h))) ELSE GetPublicSuffix(h)

(* Paths, whose segments are between their slashes.                        *)

DefaultPath(p) == IF Len(p) <= 1 THEN <<"">> ELSE Front(p)

NormalizePath(p) ==
  FoldLeft(LAMBDA parts, s :
             CASE s \in {"", "."} -> parts
               [] s = ".."        -> IF parts = <<>> THEN parts ELSE Front(parts)
               [] OTHER           -> Append(parts, s),
           <<>>, p)

PathMatch(p, cp) == IsPrefix(NormalizePath(cp), NormalizePath(p))

----------------------------------------------------------------------------
(* Headers.                                                                *)

\* The first of equal attributes holds, but one without a value holds over those before it.
AttrsOf(seq) ==
  FoldLeft(LAMBDA got, a : IF a.val # Bare /\ a.name \in DOMAIN got THEN got
                           ELSE [n \in DOMAIN got \cup {a.name} |-> IF n = a.name THEN a.val ELSE got[n]],
           [n \in {} |-> Bare], seq)

Get(got, n) == IF n \in DOMAIN got THEN got[n] ELSE Bare

SecureContext(u) == u.scheme \in {"https", "local"}

PrefixRules(c, u) ==
  /\ c.prefix # "" => c.secure /\ u.scheme = "https"
  /\ c.prefix = "__Host-" => c.path = <<"">> /\ c.hostOnly

\* setCookie().
SetCookie(u, prefix, seq) ==
  LET got == AttrsOf(seq)
      d   == Get(got, "domain")
      c   == [name |-> "some", prefix |-> prefix, secure |-> "secure" \in DOMAIN got,
              sameSite |-> Get(got, "samesite"), hostOnly |-> d = Bare,
              domain |-> IF d = Bare THEN u.host ELSE d,
              path |-> IF Get(got, "path") = Bare THEN DefaultPath(u.path) ELSE Get(got, "path")]
  IN /\ d # Bare => DomainMatch(u.host, d) /\ ~IsPublicSuffix(d)
     /\ c.secure => SecureContext(u)
     /\ c.sameSite = <<"none">> => c.secure
     /\ PrefixRules(c, u)
     /\ cookie' = c /\ setter' = u /\ UNCHANGED line

SameSiteAllows(value, context) ==
  CASE value = <<"strict">> -> context = "strict"
    [] value = <<"none">>   -> TRUE
    [] OTHER                -> context # "cross-site"

\* getCookies(): the cookie is in the answer.
Shown(u, context) ==
  /\ DomainMatch(u.host, cookie.domain) /\ (cookie.hostOnly => u.host = cookie.domain)
  /\ PathMatch(u.path, cookie.path)
  /\ cookie.secure => SecureContext(u)
  /\ SameSiteAllows(cookie.sameSite, context)
  /\ cookie.prefix # "" => cookie.secure /\ SecureContext(u)
  /\ cookie.prefix = "__Host-" => cookie.path = <<"">> /\ cookie.hostOnly
  /\ ~IsPublicSuffix(cookie.domain)

----------------------------------------------------------------------------
(* splitSetCookieHeaders(), token by token: "n" stands for a run of other  *)
(* characters and " " for white space.                                     *)

\* What follows a comma belongs to the value before it: a comma or a semicolon is met before
\* an equals sign, or neither is.
Continues(raw, i) ==
  LET rest == SelectInSubSeq(raw, i, Len(raw), LAMBDA t : t # " ")
      sign == SelectInSubSeq(raw, i, Len(raw), LAMBDA t : t \in {";", ",", "="})
  IN rest # 0 /\ (sign = 0 \/ raw[sign] # "=")

Add(s, t)   == [s EXCEPT !.buffer = Append(@, t)]
Trimmed(b)  == LET last == SelectLastInSeq(b, LAMBDA t : t # " ") IN SubSeq(b, 1, last)
Empty(s)    == [s EXCEPT !.buffer = <<>>, !.name = FALSE, !.value = FALSE]
Commit(s)   == Empty(IF s.name /\ s.value /\ Trimmed(s.buffer) # <<>>
                       THEN [s EXCEPT !.out = Append(@, Trimmed(s.buffer))] ELSE s)

Token(raw, s, i) ==
  LET t == raw[i]
      next == IF i < Len(raw) THEN raw[i + 1] ELSE ""
  IN CASE s.escaped -> [Add(s, t) EXCEPT !.escaped = FALSE]
       [] ~s.escaped /\ t = "\\" /\ (s.quoted \/ next \in {"'", "\\"}) ->
            [Add(s, t) EXCEPT !.escaped = TRUE]
       [] ~s.escaped /\ t = "'" ->
            [Add(s, t) EXCEPT !.quoted = ~@ /\ s.name, !.value = @ \/ s.quoted]
       [] ~s.escaped /\ s.quoted /\ t \notin {"'", "\\"} -> Add(s, t)
       [] ~s.escaped /\ ~s.quoted /\ t = "," /\ s.name ->
            IF Continues(raw, i + 1) THEN Add(s, t) ELSE Commit(s)
       [] ~s.escaped /\ ~s.quoted /\ t = ";" -> [Add(s, t) EXCEPT !.name = TRUE]
       [] ~s.escaped /\ ~s.quoted /\ t = "=" /\ ~s.name ->
            [Add(s, t) EXCEPT !.name = TRUE, !.value = TRUE]
       [] ~s.escaped /\ ~s.quoted /\ t = " " ->
            IF s.buffer = <<>> THEN s ELSE [Add(s, t) EXCEPT !.value = @ \/ s.name]
       [] OTHER -> [Add(s, t) EXCEPT !.value = @ \/ (s.name /\ t # ",")]

Split(raw) ==
  Commit(FoldLeft(LAMBDA s, i : Token(raw, s, i),
                  [buffer |-> <<>>, out |-> <<>>, quoted |-> FALSE, escaped |-> FALSE,
                   name |-> FALSE, value |-> FALSE],
                  [i \in DOMAIN raw |-> i])).out

Folded(headers) == FlattenSeq([i \in DOMAIN headers |->
                                 IF i = 1 THEN headers[i] ELSE <<",", " ">> \o headers[i]])

----------------------------------------------------------------------------
TypeOK ==
  /\ cookie # Nobody => cookie.name = "some" /\ setter \in Urls
  /\ Len(line) <= MaxHeaders

Init == cookie = Nobody /\ setter = Nobody /\ line = <<>>

\* A header is folded into the line behind the others.
Fold ==
  /\ Len(line) < MaxHeaders
  /\ \E b \in Bodies : line' = Append(line, b)
  /\ UNCHANGED <<cookie, setter>>

Set ==
  \E u \in Urls, prefix \in NamePrefixes, n \in 0..MaxAttrs :
     \E seq \in [1..n -> Attrs] : SetCookie(u, prefix, seq)

Next == cookie = Nobody /\ ((line = <<>> /\ Set) \/ Fold)

Spec == Init /\ [][Next]_ruleVars

----------------------------------------------------------------------------
\* A cookie is shown to another host than its own only below a domain that is not on the
\* public suffix list, and a name prefix keeps to what it promises: __Host- to the one host,
\* both to the hosts of a secure answer (cookie-store.ts:353-459, 476-575).
CookieAtHome ==
  cookie # Nobody =>
    \A u \in Urls, context \in Contexts : Shown(u, context) =>
       /\ u.host # setter.host => ~Listed(cookie.domain) /\ Below(setter.host, Suffix(cookie.domain))
       /\ cookie.prefix # "" => setter.scheme = "https"
       /\ cookie.prefix = "__Host-" => u.host = setter.host
       /\ context = "cross-site" => cookie.secure

\* Whoever set a cookie is shown it, at a path of the cookie, unless its host is a public
\* suffix.
SetterIsShown ==
  cookie # Nobody /\ PathMatch(setter.path, cookie.path) /\ ~IsPublicSuffix(cookie.domain)
    => Shown(setter, "strict")

\* The default path of a request is a path of the cookie.
DefaultPathMatches == \A u \in Urls : PathMatch(u.path, DefaultPath(u.path))

\* Headers that were folded into one line come apart again, with the commas of their dates
\* and of what is quoted (cookie-parser.ts:2315-2458).
HeadersComeApart == line # <<>> => Split(Folded(line)) = line

RulesHold == TypeOK /\ CookieAtHome /\ SetterIsShown /\ DefaultPathMatches /\ HeadersComeApart
=============================================================================
