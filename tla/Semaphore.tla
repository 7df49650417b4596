----------------------------- MODULE Semaphore -----------------------------
(***************************************************************************)
(* What a concurrency limiter promises, with nothing of how it counts: at  *)
(* most Permits callers hold a permit, callers that must wait stand in one *)
(* line, a freed permit goes to the head of the line in the same step, and *)
(* nobody enters past a line that is not empty.                            *)
(***************************************************************************)
EXTENDS Naturals, Sequences, FiniteSets

CONSTANTS Callers,   \* who may ask for a permit
          Permits    \* how many may hold one at the same time

VARIABLES holders,   \* the callers holding a permit
          line       \* the callers waiting for one, in order of arrival
semaphoreVars == <<holders, line>>

SemInit == holders = {} /\ line = <<>>

InLine(c) == \E i \in DOMAIN line : line[i] = c

\* A permit is free: the caller takes it.
Enter(c) ==
  /\ c \notin holders
  /\ line = <<>>
  /\ Cardinality(holders) < Permits
  /\ holders' = holders \cup {c}
  /\ UNCHANGED line

\* No permit is free: the caller joins the line.
Join(c) ==
  /\ c \notin holders
  /\ ~InLine(c)
  /\ Cardinality(holders) = Permits
  /\ line' = Append(line, c)
  /\ UNCHANGED holders

\* A caller gives up while it stands in line; the others keep their order.
Quit(i) ==
  /\ line' = SubSeq(line, 1, i - 1) \o SubSeq(line, i + 1, Len(line))
  /\ UNCHANGED holders

\* A holder leaves and nobody waits.
Leave(c) ==
  /\ c \in holders
  /\ line = <<>>
  /\ holders' = holders \ {c}
  /\ UNCHANGED line

\* A holder leaves and its permit passes to the head of the line.
Pass(c) ==
  /\ c \in holders
  /\ line # <<>>
  /\ holders' = (holders \ {c}) \cup {Head(line)}
  /\ line' = Tail(line)

\* Everyone in line is sent away.
Dismiss ==
  /\ line' = <<>>
  /\ UNCHANGED holders

SemNext ==
  \/ \E c \in Callers : Enter(c) \/ Join(c) \/ Leave(c) \/ Pass(c)
  \/ \E i \in DOMAIN line : Quit(i)
  \/ Dismiss

SemSpec == SemInit /\ [][SemNext]_semaphoreVars
=============================================================================
