----------------------------- MODULE ChunkParsers -----------------------------
(***************************************************************************)
(* The parsers of a body that still arrives, cut into chunks anywhere: the *)
(* line parser of event streams (class SSEParser), and those that yield    *)
(* values: readNDJSON, line by line, and readJSONStream, object by object. *)
(*                                                                         *)
(* The line parser is beside the automaton of the WHATWG algorithm that it *)
(* implements, which reads one character at a time and so cannot depend on *)
(* how a text is cut.  A line's content counts as one character: "d" is a  *)
(* data field, "i" an id field, "e" an id field that is empty, ":" a       *)
(* comment; half a line is a chunk that ends within one.                   *)
(*                                                                         *)
(* For the others a character is a brace, a quotation mark, a line end or  *)
(* another one; escapes in strings are left out, and what the parsers cut  *)
(* out of the text is taken for a value.                                   *)
(***************************************************************************)
EXTENDS Naturals, Integers, Sequences, FiniteSets, SequencesExt

CONSTANTS MaxText,   \* bound: characters fed in all
          MaxChunk   \* bound: characters of a chunk

Fields == {"d", "i", "e", ":"}
CR == "CR"
LF == "LF"
Alphabet == Fields \cup {CR, LF}
Chunks == UNION {[1..n -> Alphabet] : n \in 1..MaxChunk}

VARIABLES parser,   \* SSEParser: buffer, data and id
          out,      \* the events that feed() has returned: the id and the data of each
          automaton, expected,   \* the reference, and the events it dispatches
          text,     \* history: characters fed so far
          cut       \* history: a chunk has ended between a CR and its LF
eventVars == <<parser, out, automaton, expected, text, cut>>

VARIABLES form,     \* which of the two others
          arriving, \* what has arrived
          reader,   \* buffer, depth, start (0: none), whether in a string, what was yielded
          dirty     \* history: what had been yielded when a chunk first ended where the object
                    \* parser had something open; Never before that
valueVars == <<form, arriving, reader, dirty>>

Never == -1
Chars == {"{", "}", "quote", "newline", "x"}
Fresh == [buf |-> <<>>, i |-> 1, depth |-> 0, start |-> 0, quoted |-> FALSE, out |-> <<>>]

Init ==
  /\ parser = [buffer |-> <<>>, data |-> 0, id |-> FALSE] /\ out = <<>>
  /\ automaton = [line |-> <<>>, cr |-> FALSE, data |-> 0, id |-> FALSE]
  /\ expected = <<>>
  /\ text = 0 /\ cut = FALSE
  /\ form \in {"ndjson", "json"} /\ arriving = <<>> /\ reader = Fresh /\ dirty = Never

----------------------------------------------------------------------------
(* The events of a stream.                                                 *)

\* A line is processed: what it does to the fields p, and the event it dispatches.
\* The id outlives the event, the data do not.  A field counts where it begins a line.
Field(p, line) ==
  CASE line = <<>>     -> [p EXCEPT !.data = 0]
    [] line[1] = "d"   -> [p EXCEPT !.data = @ + 1]
    [] line[1] = "i"   -> [p EXCEPT !.id = TRUE]
    [] line[1] = "e"   -> [p EXCEPT !.id = FALSE]
    [] OTHER           -> p

Dispatched(p, line) ==
  IF line = <<>> /\ p.data > 0 THEN <<[id |-> p.id, data |-> p.data]>> ELSE <<>>

\* The reference: a CR or an LF ends a line, unless the LF follows a CR.
Step(a, c) ==
  IF c = LF /\ a.cr THEN [a EXCEPT !.cr = FALSE]
  ELSE IF c \in {CR, LF}
    THEN [Field(a, a.line) EXCEPT !.line = <<>>, !.cr = (c = CR)]
    ELSE [a EXCEPT !.line = Append(@, c), !.cr = FALSE]

StepOut(a, c) ==
  IF c \in {CR, LF} /\ ~(c = LF /\ a.cr) THEN Dispatched(a, a.line) ELSE <<>>

\* Fault: split at /\r|\n/.
SplitTwice(s) ==
  FoldLeft(LAMBDA acc, i :
             IF s[i] \in {CR, LF}
               THEN [lines |-> Append(acc.lines, acc.rest), rest |-> <<>>]
               ELSE [acc EXCEPT !.rest = Append(@, s[i])],
           [lines |-> <<>>, rest |-> <<>>],
           [i \in DOMAIN s |-> i])

\* The text split at /\r\n|\r|\n/: the lines, and the incomplete one, which is kept.
Split(s) ==
  FoldLeft(LAMBDA acc, i :
             CASE s[i] = LF /\ i > 1 /\ s[i - 1] = CR -> acc
               [] s[i] \in {CR, LF} -> [lines |-> Append(acc.lines, acc.rest), rest |-> <<>>]
               [] OTHER -> [acc EXCEPT !.rest = Append(@, s[i])],
           [lines |-> <<>>, rest |-> <<>>],
           [i \in DOMAIN s |-> i])

\* feed(chunk).
Feed(chunk) ==
  LET split == Split(parser.buffer \o chunk)
      \* the lines processed one after the other
      done == FoldLeft(LAMBDA acc, line :
                         [p |-> Field(acc.p, line), out |-> acc.out \o Dispatched(acc.p, line)],
                       [p |-> parser, out |-> <<>>], split.lines)
      ref  == FoldLeft(LAMBDA acc, c :
                         [a |-> Step(acc.a, c), out |-> acc.out \o StepOut(acc.a, c)],
                       [a |-> automaton, out |-> <<>>], chunk)
  IN /\ text + Len(chunk) <= MaxText
     /\ text' = text + Len(chunk)
     /\ cut' = (cut \/ (automaton.cr /\ chunk[1] = LF))
     /\ parser' = [done.p EXCEPT !.buffer = split.rest]
     /\ out' = out \o done.out
     /\ automaton' = ref.a
     /\ expected' = expected \o ref.out
     /\ UNCHANGED valueVars

----------------------------------------------------------------------------
(* The values of a body.                                                   *)

\* readJSONStream, one character of the buffer.
Scan(p) ==
  LET c     == p.buf[p.i]
      depth == p.depth + (IF c = "{" THEN 1 ELSE IF c = "}" THEN -1 ELSE 0)
      on    == [p EXCEPT !.i = @ + 1]
  IN CASE p.quoted                -> [on EXCEPT !.quoted = c # "quote"]
       [] ~p.quoted /\ c = "quote" -> [on EXCEPT !.quoted = TRUE]
       [] ~p.quoted /\ c = "{"     -> [on EXCEPT !.depth = depth,
                                                 !.start = IF p.depth = 0 THEN p.i ELSE @]
       [] ~p.quoted /\ c = "}"     ->
            IF depth = 0 /\ p.start > 0
              THEN [Fresh EXCEPT !.buf = SubSeq(p.buf, p.i + 1, Len(p.buf)),
                                 !.out = Append(p.out, SubSeq(p.buf, p.start, p.i))]
              ELSE [on EXCEPT !.depth = depth]
       [] OTHER                    -> on

\* The scan of a chunk begins at the start of what was kept.
Objects(p, chunk) ==
  LET full == [p EXCEPT !.buf = @ \o chunk, !.i = 1]
  IN FoldLeft(LAMBDA q, c : Scan(q), full, full.buf)

\* Lines that are empty yield nothing; the last one waits for its end.
NextLine(p, c) ==
  IF c # "newline"
    THEN [p EXCEPT !.buf = Append(@, c)]
    ELSE [p EXCEPT !.buf = <<>>, !.out = IF p.buf = <<>> THEN @ ELSE Append(@, p.buf)]

\* Fault: the part of a line at the end of a chunk is forgotten.
LinesForgetting(p, chunk) == FoldLeft(NextLine, [p EXCEPT !.buf = <<>>], chunk)

Lines(p, chunk) == FoldLeft(NextLine, p, chunk)

Fed(p, chunk) == IF form = "json" THEN Objects(p, chunk) ELSE Lines(p, chunk)

FeedValues(chunk) ==
  /\ Len(arriving) + Len(chunk) <= MaxText
  /\ arriving' = arriving \o chunk
  /\ reader' = Fed(reader, chunk)
  /\ dirty' = IF /\ dirty = Never /\ form = "json"
                 /\ \E c \in {"{", "}", "quote"} : Contains(reader.buf, c)
              THEN Len(reader.out) ELSE dirty
  /\ UNCHANGED <<form, eventVars>>

EventsNext == \E chunk \in Chunks : Feed(chunk)
ValuesNext == \E n \in 1..MaxChunk : \E chunk \in [1..n -> Chars] : FeedValues(chunk)

Next == EventsNext \/ ValuesNext

Spec == Init /\ [][Next]_<<eventVars, valueVars>>

----------------------------------------------------------------------------
\* The data of the first n events.
Data(events, n) == FoldLeft(LAMBDA sum, e : sum + e.data, 0, SubSeq(events, 1, n))

\* The events are those of the whole text, with their ids and the data that belong together,
\* unless a chunk ends between a CR and its LF: feed() keeps no state of the CR (sse.ts 171),
\* so the LF ends an empty line more, which may dispatch an event early.  No data are lost
\* or doubled even then: an event has only come in two.
EventsWhole ==
  /\ parser.buffer = automaton.line
  /\ ~cut => out = expected
  /\ Data(out, Len(out)) + parser.data = Data(expected, Len(expected)) + automaton.data
  /\ \A n \in 1..Len(expected) : \E m \in 1..Len(out) : Data(out, m) = Data(expected, n)

\* At the end of the body what is left is yielded as well.
Rest(p) == IF form = "json"
             THEN IF p.start = 0 THEN <<>> ELSE SubSeq(p.buf, p.start, Len(p.buf))
             ELSE p.buf

\* Objects that are closed after they are opened, without strings.
WellFormed(s) ==
  /\ ~Contains(s, "quote")
  /\ \A n \in 1..Len(s) :
       LET seen(c) == Cardinality({i \in 1..n : s[i] = c}) IN seen("}") <= seen("{")

\* The text from the object on that comes after the n-th.
After(n, s) ==
  LET start == CHOOSE i \in DOMAIN s :
                 LET before == Objects(Fresh, SubSeq(s, 1, i - 1))
                 IN s[i] = "{" /\ Len(before.out) = n /\ before.start = 0
  IN SubSeq(s, start, Len(s))

\* What is yielded does not depend on how the body arrives in chunks, unless a chunk ends
\* inside an object of readJSONStream.  From then on nothing more is yielded until the body
\* ends, and the object that was cut and all that follow it are then one piece: the scan
\* starts again at the beginning of what was kept, with the depth it had reached at its
\* end (response.ts 1158-1186, 1243-1305).
ValuesWhole ==
  LET whole == Fed(Fresh, arriving)
  IN /\ dirty = Never => reader.out = whole.out /\ Rest(reader) = Rest(whole)
     /\ dirty # Never /\ WellFormed(arriving) =>
          /\ reader.out = SubSeq(whole.out, 1, dirty)
          /\ Rest(reader) = After(dirty, arriving)
===============================================================================
