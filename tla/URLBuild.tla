------------------------------- MODULE URLBuild -------------------------------
(***************************************************************************)
(* The URL of a request and the host it names: buildURL of the client,     *)
(* isSafeURL and isBlockedAddress (utils.ts).                              *)
(*                                                                         *)
(* A path is a sequence of segments, the last one "" after a slash at its  *)
(* end; a query is a sequence of pairs.  A length counts segments and      *)
(* pairs.  Escapes, ports and user names are left out.  The components of  *)
(* an address are given by their octets, whatever base they are written    *)
(* in, so that 2130706433 is <<127, 0, 0, 1>>.                             *)
(***************************************************************************)
EXTENDS Naturals, Sequences, SequencesExt

CONSTANTS Bases,      \* URLs of clients
          Paths, Queries, Params,   \* of requests
          MaxParams, MaxLength,
          Octets,     \* that addresses are made of
          None

VARIABLES asked,    \* what buildURL is given, or an address
          built,    \* what it returned
          again,    \* what it made of that in the send() of a paginator
          spelled   \* a spelling of the address
urlVars == <<asked, built, again, spelled>>

Refused == [refused |-> TRUE]

----------------------------------------------------------------------------
(* Addresses.                                                              *)

Zeros(n) == [i \in 1..n |-> 0]

\* All components but the last are octets; the last one takes what is left.
ParseIPv4Host(parts) ==
  LET rest == 5 - Len(parts)
  IN  IF /\ Len(parts) \in 1..4 /\ None \notin ToSet(parts)
         /\ \A i \in 1..Len(parts) - 1 : Len(parts[i]) = 1
         /\ Len(Last(parts)) <= rest
      THEN FlattenSeq(Front(parts)) \o Zeros(rest - Len(Last(parts))) \o Last(parts)
      ELSE None

BlockedIPv4(a) ==
  \/ a[1] \in {0, 10, 127} \cup 224..255
  \/ a[1] = 100 /\ a[2] \in 64..127
  \/ a[1] = 172 /\ a[2] \in 16..31
  \/ <<a[1], a[2]>> \in {<<169, 254>>, <<192, 168>>, <<198, 18>>, <<198, 19>>}
  \/ <<a[1], a[2], a[3]>> \in {<<192, 0, 0>>, <<192, 0, 2>>, <<198, 51, 100>>, <<203, 0, 113>>}

\* Groups are pairs of octets; a dotted address may be the last one of its half.
ExpandGroups(half) ==
  LET dotted(i) == half[i].dotted # None
      octets(i) == IF dotted(i) THEN ParseIPv4Host(half[i].dotted) ELSE half[i].pair
      all == [i \in DOMAIN half |-> octets(i)]
  IN  IF \E i \in DOMAIN half : all[i] = None \/ (dotted(i) /\ i # Len(half)) THEN None
      ELSE FlattenSeq(all)

\* "::" between two halves, or one half that is the whole address.
ParseIPv6Host(halves) ==
  LET expanded == [i \in DOMAIN halves |-> ExpandGroups(halves[i])]
  IN  IF None \in ToSet(expanded) THEN None
      ELSE LET size == Len(FlattenSeq(expanded))
           IN  CASE Len(halves) = 1 /\ size = 16 -> expanded[1]
                 [] Len(halves) = 2 /\ size <= 16 ->
                      expanded[1] \o Zeros(16 - size) \o expanded[2]
                 [] OTHER -> None

\* Fault: the addresses that carry one of the other kind are not looked into.
CarriedNone(b) == None

\* Mapped, compatible, NAT64 and 6to4 addresses.
Carried(b) ==
  LET zero(i, j) == SubSeq(b, i, j) = Zeros(j - i + 1)
  IN  CASE \/ zero(1, 10) /\ b[11] = 255 /\ b[12] = 255
           \/ zero(1, 12)
           \/ SubSeq(b, 1, 4) = <<0, 100, 255, 155>> /\ zero(5, 12) -> SubSeq(b, 13, 16)
        [] SubSeq(b, 1, 2) = <<32, 2>> -> SubSeq(b, 3, 6)
        [] OTHER -> None

BlockedIPv6(b) ==
  \/ SubSeq(b, 1, 15) = Zeros(15) /\ b[16] \in {0, 1}
  \/ b[1] \in {252, 253, 255} \/ (b[1] = 254 /\ b[2] \in 128..191)
  \/ SubSeq(b, 1, 4) = <<32, 1, 13, 184>>
  \/ Carried(b) # None /\ BlockedIPv4(Carried(b))

\* isBlockedAddress: what cannot be read is blocked.  In isSafeURL a name that is not an
\* address is let through, unless it is one of this machine's.
BlockedAddress(text) ==
  IF text.halves # None
  THEN ParseIPv6Host(text.halves) = None \/ BlockedIPv6(ParseIPv6Host(text.halves))
  ELSE ParseIPv4Host(text.parts) = None \/ BlockedIPv4(ParseIPv4Host(text.parts))

----------------------------------------------------------------------------
(* URLs.                                                                   *)

Length(u) == Len(u.path) + Len(u.query)

\* isSafeURL, with "inner" for the hosts it blocks.  The parser has resolved every "..".
Safe(u, schemes, private) ==
  /\ u.scheme \in schemes /\ (u.host = "inner" => private)
  /\ Length(u) <= MaxLength

\* What the URL parser does with a path.
Normal(path) ==
  LET Step(done, s) == CASE s = ".." -> IF done = <<>> THEN done ELSE Front(done)
                         [] s = "."  -> done
                         [] OTHER    -> Append(done, s)
      dotless == FoldLeft(Step, <<>>, path)
  IN  IF Last(path) \in {".", ".."} THEN Append(dotless, "") ELSE dotless

Directory(path) == IF Last(path) = "" THEN path ELSE Append(path, "")

\* Leading slashes do not lead out of the base's path, and a request without a path keeps it.
Under(base, ref) ==
  CASE ref.path # <<>> -> Normal(Front(Directory(base)) \o ref.path)
    [] ref.slash       -> Directory(base)
    [] OTHER           -> base

\* A request that names a scheme the client does not know is resolved like a relative one,
\* and what remains of it is its path.
Resolved(base, ref) ==
  LET absolute(scheme) == [scheme |-> scheme, host |-> ref.host, path |-> Normal(ref.path),
                           query |-> ref.query, hash |-> ref.hash]
  IN  CASE ref.scheme \in {"https", "wss"} -> absolute(ref.scheme)
        [] base = None /\ ref.scheme # None -> absolute(ref.scheme)
        [] base = None -> Refused
        [] ref.host # None /\ ref.scheme = None -> absolute(base.scheme)
        [] OTHER -> [base EXCEPT !.path = IF ref.scheme = None THEN Under(base.path, ref)
                                          ELSE Normal(ref.path),
                                 !.query = @ \o ref.query, !.hash = ref.hash]

\* forEachQueryParam: a key, one value or an array, and the names keys of arrays are given.
Listed(params, format) ==
  LET name(p) == IF p.array /\ format = "bracket" THEN p.brackets ELSE p.key
      given(p) == SelectSeq(p.values, LAMBDA v : v # None)
  IN  FlattenSeq([i \in DOMAIN params |->
        [j \in DOMAIN given(params[i]) |-> <<name(params[i]), given(params[i])[j]>>]])

Serializable(pairs) ==
  /\ Len(pairs) <= MaxParams
  /\ \A i \in DOMAIN pairs : pairs[i][2] # "object"

\* The serializer of the caller may return anything and is not counted.
Added(ask) ==
  CASE ask.params = <<>> -> <<>>
    [] ask.serializer = None ->
         LET pairs == Listed(ask.params, ask.format)
         IN  IF Serializable(pairs) THEN pairs ELSE None
    [] ask.serializer = "text" -> <<<<"s", "t">>>>
    [] OTHER -> None

BuildURL(ask) ==
  LET full  == Resolved(ask.base, ask.ref)
      added == Added(ask)
      fits(u) == Safe(u, ask.schemes, ask.private)
  IN  IF full = Refused THEN Refused
      ELSE IF ~fits(full) \/ added = None THEN Refused
      ELSE LET result == [full EXCEPT !.query = @ \o added]
           IN  IF fits(result) THEN result ELSE Refused

----------------------------------------------------------------------------

References ==
  [scheme : {None}, host : {None}, path : Paths, slash : BOOLEAN, query : Queries,
   hash : {None, "h"}]
    \cup [scheme : {None, "https", "wss", "ftp"}, host : {"there", "inner"},
          path : Paths \ {<<>>}, slash : {TRUE}, query : Queries, hash : {None}]

Asks ==
  [base : Bases \cup {None}, ref : References, params : Params,
   serializer : {None, "text", "fails"}, format : {"bracket"},
   schemes : {{"http", "https"}}, private : {FALSE}]
    \cup [base : Bases, ref : References, params : Params, serializer : {None},
          format : {"repeat"}, schemes : {{"http", "https", "ws", "wss"}}, private : {TRUE}]

Addresses == [octets : [1..4 -> Octets]]

TypeOK ==
  /\ asked \in Asks \/ asked \in Addresses
  /\ built = None \/ built = Refused \/ Safe(built, asked.schemes, asked.private)

Init ==
  /\ asked \in Asks \cup Addresses
  /\ built = None /\ again = None /\ spelled = None

IsAddress == "octets" \in DOMAIN asked

Build ==
  /\ ~IsAddress /\ built = None /\ built' = BuildURL(asked)
  /\ UNCHANGED <<asked, again, spelled>>

\* paginate() and graphql() hand what they built to send(), which adds the client's
\* parameters once more.
AsReference(u) ==
  [scheme |-> u.scheme, host |-> u.host, path |-> u.path, slash |-> TRUE, query |-> u.query,
   hash |-> u.hash]

BuildAgain ==
  /\ ~IsAddress /\ built \notin {None, Refused} /\ again = None
  /\ \E params \in {<<>>, asked.params} :
       again' = BuildURL([asked EXCEPT !.ref = AsReference(built), !.params = params])
  /\ UNCHANGED <<asked, built, spelled>>

\* The spellings of an address: its last octets as one number, and the ways to carry it in
\* the other kind, with its octets dotted or in two groups.
Number(octets) ==
  LET zero == \A i \in DOMAIN octets : octets[i] = 0
      first == CHOOSE i \in DOMAIN octets : octets[i] # 0 /\ \A j \in 1..i - 1 : octets[j] = 0
  IN  IF zero THEN <<0>> ELSE SubSeq(octets, first, Len(octets))

Spellings(a) ==
  LET pair(x, y) == [dotted |-> None, pair |-> <<x, y>>]
      tails  == {<<pair(a[1], a[2]), pair(a[3], a[4])>>,
                 <<[dotted |-> [i \in 1..4 |-> <<a[i]>>], pair |-> None]>>}
      heads  == {<<>>, <<pair(255, 255)>>}
      v4(n)  == [halves |-> None,
                 parts |-> [i \in 1..n - 1 |-> <<a[i]>>] \o <<Number(SubSeq(a, n, 4))>>]
      v6(halves) == [halves |-> halves, parts |-> None]
  IN  {v4(n) : n \in 1..4}
        \cup {v6(<<<<>>, head \o tail>>) : head \in heads, tail \in tails}
        \cup {v6(<<<<pair(0, 0), pair(0, 0)>>, head \o tail>>) : head \in heads, tail \in tails}
        \cup {v6(<<[i \in 1..5 |-> pair(0, 0)] \o <<pair(255, 255)>> \o tail>>) : tail \in tails}
        \cup {v6(<<<<pair(0, 100), pair(255, 155)>>, tail>>) : tail \in tails}
        \cup {v6(<<<<pair(32, 2), pair(a[1], a[2]), pair(a[3], a[4])>>, <<>>>>)}

Spell ==
  /\ IsAddress /\ spelled = None /\ spelled' \in Spellings(asked.octets)
  /\ UNCHANGED <<asked, built, again>>

Next == Build \/ BuildAgain \/ Spell

Spec == Init /\ [][Next]_urlVars

----------------------------------------------------------------------------
\* An address is blocked in every spelling or in none (utils.ts 556-760).
OneVerdict == spelled # None => (BlockedAddress(spelled) <=> BlockedIPv4(asked.octets))

\* A URL that was built is unchanged when it is built again, except that what is added to
\* it is added twice; a slash more between base and request changes nothing; and a relative
\* request never leaves the host of its base (client.ts 901-1170).
BuiltWell ==
  /\ again # None /\ again # Refused =>
       /\ again.path = built.path /\ again.host = built.host /\ again.hash = built.hash
       /\ again.query \in {built.query, built.query \o Added(asked)}
  /\ (/\ built # None /\ ~IsAddress
      /\ asked.base # None /\ asked.ref.path # <<>> /\ asked.ref.host = None) =>
       /\ built = BuildURL([asked EXCEPT !.ref.slash = ~@])
       /\ Length([asked.base EXCEPT !.path = Directory(@)]) < MaxLength =>
            built = BuildURL([asked EXCEPT !.base.path = Directory(@)])
  /\ built \notin {None, Refused} /\ asked.ref.host = None =>
       built.host = asked.base.host /\ built.scheme = asked.base.scheme

URLsHold == TypeOK /\ OneVerdict /\ BuiltWell
=============================================================================
