------------------------------ MODULE HeaderTable ------------------------------
(***************************************************************************)
(* Headers (headers.ts): the tables of HttpHeaders, their copies and       *)
(* merges, the texts that some of their values are written to and read     *)
(* from, and the headers a request is made with (client.ts).               *)
(*                                                                         *)
(* A name is a key, its lower case, and the caller's spelling of it; a     *)
(* value of a table is a sequence, so that joining values is flattening.   *)
(* A text is a sequence of characters and of the words no parser looks     *)
(* into.  A quality is given in tenths.                                    *)
(***************************************************************************)
EXTENDS Integers, Sequences, SequencesExt, FiniteSets, FiniteSetsExt

CONSTANTS Names, Values,              \* of headers
          MaxTables, MaxChanges,
          Chars, MaxText,             \* the values that are written
          None

VARIABLES tables,   \* the entries of each in their order, its guard, what it was made with
          heap,     \* the lists of values, where the entries point
          changes,
          asked,    \* what is written or looked for
          answer
headerVars == <<tables, heap, changes, asked, answer>>

Guards == {"none", "request", "response", "immutable"}

NoCombine == {"set-cookie"}
ForbiddenRequest == {"cookie"}
ForbiddenResponse == {"set-cookie"}

----------------------------------------------------------------------------
(* Tables.                                                                 *)

Index(map, key) == SelectInSeq(map, LAMBDA e : e.key = key)

GetAll(map, store, key) ==
  IF Index(map, key) = 0 THEN <<>> ELSE store[map[Index(map, key)].list]

Get(map, store, key) ==
  LET list == GetAll(map, store, key)
  IN  IF list = <<>> THEN None ELSE IF key \in NoCombine THEN list[1] ELSE FlattenSeq(list)

\* What can be read of a table, whatever lists hold it.
Contents(map, store) ==
  [i \in DOMAIN map |-> [key |-> map[i].key, as |-> map[i].as, values |-> store[map[i].list]]]

Forbidden(guard, key) ==
  \/ guard = "immutable"
  \/ guard = "request" /\ key \in ForbiddenRequest
  \/ guard = "response" /\ key \in ForbiddenResponse

\* checkGuardDelete knows nothing of responses.
ForbiddenToDelete(guard, key) ==
  guard = "immutable" \/ (guard = "request" /\ key \in ForbiddenRequest)

\* Entries in a state [map, heap]: Map.set keeps the place of a key it has.
Stored(s, name, list) ==
  LET entry == [key |-> name.key, as |-> name.as, list |-> Len(s.heap) + 1]
      at == Index(s.map, name.key)
  IN  [map |-> IF at = 0 THEN Append(s.map, entry) ELSE [s.map EXCEPT ![at] = entry],
       heap |-> Append(s.heap, list)]

Appended(s, name, value) ==
  LET at == Index(s.map, name.key)
  IN  IF at = 0 THEN Stored(s, name, <<value>>)
      ELSE [s EXCEPT !.heap[s.map[at].list] = Append(@, value)]

\* Fault: a copy has the entries of the table it was made from.
CopiedShallow(s, entries) == [s EXCEPT !.map = @ \o entries]

\* Each entry with a list of its own.
Copied(s, entries) ==
  FoldLeft(LAMBDA done, e : Stored(done, e, done.heap[e.list]), s, entries)

\* merge() with "append", by the keys of the other table.
AppendedAll(s, entries) ==
  FoldLeft(LAMBDA done, e :
             FoldLeft(LAMBDA d, v : Appended(d, [key |-> e.key, as |-> e.key], v), done,
                      done.heap[e.list]),
           s, entries)

Pointing(i) == [map |-> tables[i].map, heap |-> heap]

\* "merged" says that a merge() has gone past the guard.
Change(i, s, merged) ==
  /\ changes < MaxChanges /\ changes' = changes + 1
  /\ tables' = [tables EXCEPT ![i].map = s.map, ![i].merged = @ \/ merged]
  /\ heap' = s.heap /\ UNCHANGED <<asked, answer>>

Make(s, guard) ==
  /\ changes < MaxChanges /\ changes' = changes + 1 /\ Len(tables) < MaxTables
  /\ tables' = Append(tables, [map |-> s.map, guard |-> guard, merged |-> FALSE,
                               born |-> Contents(s.map, s.heap)])
  /\ heap' = s.heap /\ UNCHANGED <<asked, answer>>

Put(i, name, value) ==
  /\ ~Forbidden(tables[i].guard, name.key)
  /\ \/ Change(i, Appended(Pointing(i), name, value), FALSE)
     \/ Change(i, Stored(Pointing(i), name, <<value>>), FALSE)

Delete(i, key) ==
  /\ ~ForbiddenToDelete(tables[i].guard, key)
  /\ Change(i, [Pointing(i) EXCEPT !.map = SelectSeq(@, LAMBDA e : e.key # key)], FALSE)

\* What append() refuses throws in the middle: what was merged before stays.
Merge(i, j) ==
  \/ Change(i, Copied(Pointing(i), tables[j].map), TRUE)
  \/ /\ i # j
     /\ LET refused == SelectInSeq(tables[j].map,
                                   LAMBDA e : Forbidden(tables[i].guard, e.key))
            let == IF refused = 0 THEN tables[j].map ELSE SubSeq(tables[j].map, 1, refused - 1)
        IN  Change(i, AppendedAll(Pointing(i), let), FALSE)

\* clone(), freeze(), and those that keep a part: pick() has no guard, omit() has its table's.
Copy(i) ==
  LET part(entries) == Copied([map |-> <<>>, heap |-> heap], entries)
      among(keys) == SelectSeq(tables[i].map, LAMBDA e : e.key \in keys)
      keysOf == {tables[i].map[k].key : k \in DOMAIN tables[i].map}
  IN  \/ \E guard \in Guards : Make(part(tables[i].map), guard)
      \/ \E key \in keysOf : \/ Make(part(among({key})), "none")
                             \/ Make(part(among(keysOf \ {key})), tables[i].guard)

\* redact(): the copy's entry is replaced, not its list.
Redact(i, key) ==
  LET s == Copied([map |-> <<>>, heap |-> heap], tables[i].map)
      at == Index(s.map, key)
  IN  /\ at # 0
      /\ Make(Stored(s, s.map[at], [v \in DOMAIN s.heap[s.map[at].list] |-> <<"redacted">>]),
              tables[i].guard)

\* Through Headers, which spell names in lower case and join all but the cookies, and through
\* the headers of Node.
Entry(done, e, store) ==
  LET list == IF e.key \in NoCombine THEN store[e.list] ELSE <<FlattenSeq(store[e.list])>>
  IN  FoldLeft(LAMBDA d, v : Appended(d, [key |-> e.key, as |-> e.key], v), done, list)

ThroughWeb(i) ==
  FoldLeft(LAMBDA done, e : Entry(done, e, heap), [map |-> <<>>, heap |-> <<>>], tables[i].map)

ThroughNode(i) ==
  FoldLeft(LAMBDA done, e :
             FoldLeft(LAMBDA d, v : Appended(d, [key |-> e.key, as |-> e.key], v), done,
                      heap[e.list]),
           [map |-> <<>>, heap |-> <<>>], tables[i].map)

----------------------------------------------------------------------------
(* Texts.                                                                  *)

Text(word) == <<word>>

Trim(text) ==
  LET solid == {i \in DOMAIN text : text[i] # " "}
  IN  IF solid = {} THEN <<>> ELSE SubSeq(text, Min(solid), Max(solid))

Join(texts, between) ==
  FlattenSeq([i \in DOMAIN texts |-> IF i = 1 THEN texts[i] ELSE between \o texts[i]])

\* At the separators outside quotes; a backslash in them escapes, if it "escapes".
Split(text, separator, escapes) ==
  LET Step(s, c) ==
        CASE s.escaped -> [s EXCEPT !.now = Append(@, c), !.escaped = FALSE]
          [] ~s.escaped /\ c = separator /\ ~s.quoted ->
               [s EXCEPT !.parts = Append(@, s.now), !.now = <<>>]
          [] OTHER -> [s EXCEPT !.now = Append(@, c), !.quoted = IF c = "\"" THEN ~@ ELSE @,
                                !.escaped = escapes /\ s.quoted /\ c = "\\"]
      end == FoldLeft(Step, [parts |-> <<>>, now |-> <<>>, quoted |-> FALSE, escaped |-> FALSE],
                      text)
  IN  Append(end.parts, end.now)

Quote(v) ==
  Text("\"")
    \o FlattenSeq([i \in DOMAIN v |-> IF v[i] \in {"\"", "\\"} THEN <<"\\", v[i]>> ELSE <<v[i]>>])
    \o Text("\"")

\* A backslash at the end of what was quoted stays.
Unescaped(text) ==
  LET Step(s, c) == IF c = "\\" /\ ~s.escaped THEN [s EXCEPT !.escaped = TRUE]
                    ELSE [done |-> Append(s.done, c), escaped |-> FALSE]
      end == FoldLeft(Step, [done |-> <<>>, escaped |-> FALSE], text)
  IN  IF end.escaped THEN Append(end.done, "\\") ELSE end.done

Unquote(v) ==
  IF Len(v) >= 2 /\ v[1] = "\"" /\ Last(v) = "\"" THEN Unescaped(SubSeq(v, 2, Len(v) - 1)) ELSE v

\* Parts that are a key and, after the first "=", a value.
Halves(part) ==
  LET eq == SelectInSeq(part, LAMBDA c : c = "=")
  IN  IF eq = 0 THEN [key |-> part, value |-> <<>>]
      ELSE [key |-> Trim(SubSeq(part, 1, eq - 1)), value |-> Trim(SubSeq(part, eq + 1, Len(part)))]

ParseParams(text) ==
  LET parts == SelectSeq([i \in DOMAIN Split(text, ";", TRUE) |-> Trim(Split(text, ";", TRUE)[i])],
                         LAMBDA p : p # <<>>)
  IN  [i \in DOMAIN parts |-> [Halves(parts[i]) EXCEPT !.value = Unquote(@)]]

\* The last one of a name, or None.
Param(params, key) ==
  LET with == {i \in DOMAIN params : params[i].key = Text(key)}
  IN  IF with = {} THEN None ELSE params[Max(with)].value

Quoted(key, v) == IF v = <<>> THEN <<>> ELSE <<";", " ", key, "=">> \o Quote(v)

FormatLinks(links) ==
  Join([i \in DOMAIN links |-> Text("<") \o links[i].uri \o Text(">")
          \o Quoted("rel", Text("next")) \o Quoted("title", links[i].title)], <<",", " ">>)

\* At the commas that a "<" follows, wherever they are.
Bracketed(text) ==
  LET next(i) == SelectInSeq(SubSeq(text, i + 1, Len(text)), LAMBDA c : c # " ")
      Step(s, i) == CASE i < s.from -> s
                      [] i >= s.from /\ text[i] = "," /\ next(i) # 0 /\ text[i + next(i)] = "<" ->
                           [parts |-> Append(s.parts, SubSeq(text, s.from, i - 1)),
                            from |-> i + next(i)]
                      [] OTHER -> s
      end == FoldLeft(Step, [parts |-> <<>>, from |-> 1], [i \in DOMAIN text |-> i])
  IN  Append(end.parts, SubSeq(text, end.from, Len(text)))

ParseLinks(text) ==
  LET entries == [i \in DOMAIN Bracketed(text) |-> Trim(Bracketed(text)[i])]
      closed == SelectSeq(entries, LAMBDA t : t # <<>> /\ t[1] = "<" /\ ">" \in ToSet(t))
      Link(t) == LET close == SelectInSeq(t, LAMBDA c : c = ">")
                     title == Param(ParseParams(SubSeq(t, close + 1, Len(t))), "title")
                 IN  [uri |-> SubSeq(t, 2, close - 1),
                      title |-> IF title = None THEN <<>> ELSE title]
  IN  [i \in DOMAIN closed |-> Link(closed[i])]

\* encodeURIComponent leaves words alone.
Escape(c) == IF c \in {";", ",", "\"", "\\", " ", "<", "="} THEN "%" \o c ELSE c

FormatDisposition(file) ==
  LET encoded == [i \in DOMAIN file |-> Escape(file[i])]
  IN  Text("attachment") \o Quoted("filename", file)
        \o IF encoded = file THEN <<>> ELSE <<";", " ", "filename*", "=">> \o encoded

ParseDisposition(text) ==
  LET semi == SelectInSeq(text, LAMBDA c : c = ";")
      params == ParseParams(IF semi = 0 THEN <<>> ELSE SubSeq(text, semi, Len(text)))
      star == Param(params, "filename*")
      Plain(c) == CHOOSE p \in Chars : c \in {p, Escape(p)}
  IN  IF star # None THEN [i \in DOMAIN star |-> Plain(star[i])] ELSE Param(params, "filename")

\* A boundary is written as it is, another parameter in quotes when it has a space.
FormatContentType(type) ==
  LET v == type.other
  IN  Text("multipart/form-data") \o <<";", " ", "boundary", "=">> \o type.boundary
        \o IF v = <<>> THEN <<>>
           ELSE <<";", " ", "other", "=">>
                  \o IF " " \in ToSet(v) THEN Text("\"") \o v \o Text("\"") ELSE v

ParseContentType(text) ==
  LET params == ParseParams(SubSeq(text, 2, Len(text)))
      Or(v) == IF v = None THEN <<>> ELSE v
  IN  [boundary |-> Or(Param(params, "boundary")), other |-> Or(Param(params, "other"))]

\* The fields of "private" are written without quotes, and a list of them is read from within
\* quotes only.
FormatCacheControl(d) ==
  Join(SelectSeq(<<IF d.noStore THEN Text("no-store") ELSE <<>>,
                   IF d.maxAge = None THEN <<>> ELSE <<"max-age", "=", d.maxAge>>,
                   CASE d.private = <<>> -> <<>>
                     [] d.private = Text("all") -> Text("private")
                     [] OTHER -> <<"private", "=">>
                                   \o Join([i \in DOMAIN d.private |-> Text(d.private[i])],
                                           <<",", " ">>)>>,
                 LAMBDA part : part # <<>>), <<",", " ">>)

ParseCacheControl(text) ==
  LET all == Split(text, ",", FALSE)
      parts == [i \in DOMAIN all |-> Halves(Trim(all[i]))]
      stripped(v) == SelectSeq(v, LAMBDA c : c \notin {"\"", " ", ","})
      value(key) == Param(parts, key)
  IN  [noStore |-> value("no-store") # None,
       maxAge |-> IF value("max-age") = None THEN None ELSE value("max-age")[1],
       private |-> CASE value("private") = None -> <<>>
                     [] value("private") = <<>> -> Text("all")
                     [] OTHER -> stripped(value("private"))]

----------------------------------------------------------------------------
(* Choices.                                                                *)

\* A quality that is no number is none, and means 1.
Clamped(q) == IF q = None THEN 10 ELSE IF q > 10 THEN 10 ELSE IF q < 0 THEN 0 ELSE q

ByQuality(ranges) ==
  LET order == SetToSortSeq(DOMAIN ranges, LAMBDA i, j :
                 \/ Clamped(ranges[i].q) > Clamped(ranges[j].q)
                 \/ Clamped(ranges[i].q) = Clamped(ranges[j].q) /\ i < j)
  IN  [i \in DOMAIN order |-> ranges[order[i]]]

\* A range is a type and a subtype, either of them "*".
Specificity(range, type) ==
  CASE range.type = type -> 2
    [] range.type[2] = "*" /\ range.type[1] = type[1] -> 1
    [] range.type = <<"*", "*">> -> 0
    [] OTHER -> -1

Negotiated(accept, available) ==
  LET Fit(type) ==
        FoldLeft(LAMBDA best, r : IF Specificity(r, type) > best.spec
                                  THEN [spec |-> Specificity(r, type), q |-> Clamped(r.q)]
                                  ELSE best,
                 [spec |-> -1, q |-> 0], ByQuality(accept))
      Step(best, type) ==
        LET fit == Fit(type)
        IN  IF /\ fit.q > 0
               /\ \/ best.type = None \/ fit.q > best.q
                  \/ fit.q = best.q /\ fit.spec > best.spec
            THEN [type |-> type, q |-> fit.q, spec |-> fit.spec] ELSE best
  IN  IF available = <<>> THEN None
      ELSE IF accept = <<>> THEN available[1]
      ELSE FoldLeft(Step, [type |-> None, q |-> 0, spec |-> -1], available).type

\* getClientIP: from the entry of the last trusted hop to the left, or else any of them.
ClientAddress(chain, hops, real) ==
  LET index == IF hops = 0 THEN 1 ELSE Len(chain) - hops + 1
      usable == {i \in DOMAIN chain : chain[i] # "unknown"}
      outwards == {i \in usable : i <= index}
  IN  CASE chain = <<>> -> IF real = "unknown" THEN None ELSE real
        [] outwards # {} -> chain[Max(outwards)]
        [] outwards = {} /\ chain # <<>> -> IF usable = {} THEN None ELSE chain[Min(usable)]

----------------------------------------------------------------------------
(* The headers of a request: those of the client, under those of the call. *)

\* What throws: a name that is none, a value that may not be sent.
Refused(pair) ==
  /\ pair.key # "__proto__"
  /\ pair.key = "bad name" \/ (pair.values # None /\ "bad" \in ToSet(pair.values))

Given(local, key) == IF key \in DOMAIN local THEN local[key] ELSE <<>>

\* Fault: a name of a source has its last value.
LocalLast(source) ==
  FoldLeft(LAMBDA local, p : IF p.key = "__proto__" \/ p.values = None THEN local
                             ELSE (p.key :> p.values) @@ local,
           <<>>, source)

\* Every value that a source has for a name, whatever its spelling.
Local(source) ==
  FoldLeft(LAMBDA local, p : IF p.key = "__proto__" \/ p.values = None THEN local
                             ELSE (p.key :> Given(local, p.key) \o p.values) @@ local,
           <<>>, source)

\* mergeHeaders(): nothing if it throws.
MergedHeaders(sources) ==
  IF \E i \in DOMAIN sources : \E j \in DOMAIN sources[i] : Refused(sources[i][j]) THEN None
  ELSE FoldLeft(LAMBDA out, source : Local(source) @@ out, <<>>, sources)

----------------------------------------------------------------------------
Texts == SeqOf(Chars, MaxText)

Pairs == [key : {"accept"}, values : {None, <<>>, <<"a">>, <<"a", "b">>, <<"bad">>}]
         \cup [key : {"cookie", "__proto__"}, values : {<<"a">>, <<"bad">>}]
         \cup [key : {"bad name"}, values : {None}]

Types == {<<"a", "b">>, <<"a", "c">>}
Ranges == [type : Types \cup {<<"a", "*">>, <<"*", "*">>}, q : {None, -1, 0, 5, 15}]

Questions ==
  [kind : {"link"}, uri : {<<"a">>}, title : Texts]
  \cup [kind : {"disposition"}, file : Texts]
  \cup [kind : {"type"}, boundary : Texts, other : SeqOf(Chars, 1)]
  \cup [kind : {"control"}, noStore : BOOLEAN, maxAge : {None, "a"},
        private : {<<>>, <<"all">>, <<"a">>, <<"a", "b">>}]
  \cup [kind : {"accept"}, accept : SeqOf(Ranges, 2), available : {<<>>} \cup {<<t>> : t \in Types}
                                                                  \cup {<<t, u>> : t, u \in Types}]
  \cup [kind : {"client"}, chain : SeqOf({"a", "b", "unknown"}, 3), hops : 0..4,
        real : {"a", "unknown"}]

\* The links are two, so that one ends in the middle of the text.
Links(q) == <<[uri |-> q.uri, title |-> q.title], [uri |-> <<"b">>, title |-> q.title]>>

Answered(q) ==
  CASE q.kind = "link"        -> ParseLinks(FormatLinks(Links(q)))
    [] q.kind = "disposition" -> ParseDisposition(FormatDisposition(q.file))
    [] q.kind = "type"        -> ParseContentType(FormatContentType(q))
    [] q.kind = "control"     -> ParseCacheControl(FormatCacheControl(q))
    [] q.kind = "accept"      -> Negotiated(q.accept, q.available)
    [] q.kind = "client"      -> ClientAddress(q.chain, q.hops, q.real)
    [] q.kind = "merge"       -> MergedHeaders(q.sources)

Init ==
  /\ tables = <<[map |-> <<>>, guard |-> "none", merged |-> FALSE, born |-> <<>>]>> /\ heap = <<>>
  /\ changes = 0 /\ asked = None /\ answer = None

\* A table changes, or a value is written and read.
Ask(q) ==
  /\ asked' = q /\ answer' = Answered(q)
  /\ UNCHANGED <<tables, heap, changes>>

Next ==
  \/ /\ changes = 0 /\ asked = None
     /\ \/ \E q \in Questions : Ask(q)
        \/ \E a, b \in SeqOf(Pairs, 2) : Ask([kind |-> "merge", sources |-> <<a, b>>])
  \/ /\ asked = None
     /\ \E i \in DOMAIN tables :
          \/ \E name \in Names, v \in Values : Put(i, name, v)
          \/ \E name \in Names : Delete(i, name.key) \/ Redact(i, name.key)
          \/ \E j \in DOMAIN tables : Merge(i, j)
          \/ Copy(i)

----------------------------------------------------------------------------
TypeOK ==
  \A i \in DOMAIN tables :
    /\ tables[i].guard \in Guards
    /\ IsInjective([k \in DOMAIN tables[i].map |-> tables[i].map[k].key])
    /\ \A k \in DOMAIN tables[i].map : heap[tables[i].map[k].list] # <<>>

\* A frozen table reads as it did when it was made, whatever is done to the table it is a copy
\* of and to its other copies; merge() alone does not ask the guard.
FrozenStays ==
  \A i \in DOMAIN tables :
    tables[i].guard = "immutable" /\ ~tables[i].merged
      => Contents(tables[i].map, heap) = tables[i].born

\* What goes through the headers of a platform reads the same: every cookie is there, and
\* other values are joined.
ReadBack ==
  \A i \in DOMAIN tables : \A name \in Names :
    LET web == ThroughWeb(i)
        node == ThroughNode(i)
    IN  /\ Get(web.map, web.heap, name.key) = Get(tables[i].map, heap, name.key)
        /\ name.key \in NoCombine =>
             GetAll(web.map, web.heap, name.key) = GetAll(tables[i].map, heap, name.key)
        /\ GetAll(node.map, node.heap, name.key) = GetAll(tables[i].map, heap, name.key)

\* What is written and read is what it was: a file's name and a link's title whatever they
\* are made of, unless a title looks like the next link; a parameter of a type only if it has
\* nothing to escape; and not the names of several private fields, which are not quoted.
WrittenIsRead ==
  LET bare(v) == ToSet(v) \cap {";", "\"", "\\"} = {} /\ Trim(v) = v
      linkLike(v) == \E i \in DOMAIN v : v[i] = "," /\ "<" \in ToSet(SubSeq(v, i, Len(v)))
  IN  asked # None =>
        CASE asked.kind = "link" -> linkLike(asked.title) \/ answer = Links(asked)
          [] asked.kind = "disposition" ->
               answer = IF asked.file = <<>> THEN None ELSE asked.file
          [] asked.kind = "type" ->
               bare(asked.boundary) /\ bare(asked.other) =>
                 answer = [boundary |-> asked.boundary, other |-> asked.other]
          [] asked.kind = "control" ->
               Len(asked.private) <= 1 =>
                 answer = [noStore |-> asked.noStore, maxAge |-> asked.maxAge,
                           private |-> asked.private]
          [] OTHER -> TRUE

\* The type that is offered is the best of those accepted, each weighed by the ranges that
\* name it most closely and the best of these: whoever refuses a type by name is not sent it.
BestOffered ==
  LET fits(type) == {i \in DOMAIN asked.accept : Specificity(asked.accept[i], type) >= 0}
      closest(type) == Max({Specificity(asked.accept[i], type) : i \in fits(type)})
      weight(type) ==
        IF asked.accept = <<>> THEN 10
        ELSE IF fits(type) = {} THEN 0
        ELSE Max({Clamped(asked.accept[i].q) :
                    i \in {f \in fits(type) : Specificity(asked.accept[f], type) = closest(type)}})
  IN  asked # None /\ asked.kind = "accept" =>
        /\ answer = None <=> \A type \in ToSet(asked.available) : weight(type) = 0
        /\ answer # None => \A type \in ToSet(asked.available) : weight(type) <= weight(answer)

\* A request is sent with what the call says of a header, all of it, and with what the client
\* says of those the call has no value for; and with nothing that may not be sent.
CallOverClient ==
  LET by(key) == {i \in DOMAIN asked.sources : \E j \in DOMAIN asked.sources[i] :
                    asked.sources[i][j].key = key /\ asked.sources[i][j].values # None}
      said(key) == LET of == SelectSeq(asked.sources[Max(by(key))],
                                       LAMBDA p : p.key = key /\ p.values # None)
                   IN  FlattenSeq([i \in DOMAIN of |-> of[i].values])
  IN  asked # None /\ asked.kind = "merge" /\ answer # None =>
        /\ DOMAIN answer = {key \in {"accept", "cookie"} : by(key) # {}}
        /\ \A key \in DOMAIN answer : answer[key] = said(key) /\ "bad" \notin ToSet(answer[key])

HeadersHold ==
  TypeOK /\ FrozenStays /\ ReadBack /\ WrittenIsRead /\ BestOffered /\ CallOverClient
=============================================================================
