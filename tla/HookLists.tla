------------------------------ MODULE HookLists ------------------------------
(***************************************************************************)
(* The lists of callbacks that are registered and removed while they run:  *)
(* the listeners of an event (HookEmitter), the hooks of a phase           *)
(* (HookRegistry), the interceptors of a phase (InterceptorManager) and    *)
(* those of the client itself (InterceptorChain).  Which of the four a     *)
(* behaviour is about is chosen at its beginning.                          *)
(*                                                                         *)
(* A callback is awaited: meanwhile it, another run of the list or anybody *)
(* else registers and removes callbacks.  An entry is registered once.     *)
(* Conditions and the values that callbacks pass on are left out.          *)
(***************************************************************************)
EXTENDS Naturals, Sequences, Functions

CONSTANTS Entries,    \* what may be registered
          Once,       \* the entries with the once option
          Early,      \* the entries of a lower priority than the others
          Runs,       \* the emits, phases or requests that run the list
          None

Kinds == {"emitter", "registry", "manager", "chain"}

VARIABLES kind,     \* which of the lists it is
          list,     \* the registered entries, as they are stored
          walk,     \* what each run iterates: a copy, or None for the stored list itself
          next,     \* the index of the entry that each run comes to next
          inside,   \* the entry whose callback each run awaits, or None
          spent,    \* invokedOnce, toEject: what each run will remove at its end
          phase,    \* "new", "running", "done", or "thrown"
          called,   \* history: the callbacks that each run has called
          present,  \* history: the entries that were registered as each run began
          added, removed, used   \* history: entries registered, removed, and run to the end
runVars  == <<walk, next, inside, spent, phase, called, present>>
hookVars == <<kind, list, runVars, added, removed, used>>

TypeOK ==
  /\ kind \in Kinds /\ list \in Seq(Entries)
  /\ walk \in [Runs -> Seq(Entries) \cup {None}] /\ next \in [Runs -> Nat \ {0}]
  /\ inside \in [Runs -> Entries \cup {None}] /\ spent \in [Runs -> SUBSET Once]
  /\ phase \in [Runs -> {"new", "running", "done", "cut"}]
  /\ called \in [Runs -> Seq(Entries)] /\ present \in [Runs -> Seq(Entries)]
  /\ removed \subseteq added /\ used \subseteq added

Init ==
  /\ kind \in Kinds /\ list = <<>>
  /\ walk = [r \in Runs |-> None] /\ next = [r \in Runs |-> 1]
  /\ inside = [r \in Runs |-> None] /\ spent = [r \in Runs |-> {}]
  /\ phase = [r \in Runs |-> "new"]
  /\ called = [r \in Runs |-> <<>>] /\ present = [r \in Runs |-> <<>>]
  /\ added = {} /\ removed = {} /\ used = {}

----------------------------------------------------------------------------
\* seq without the entries in S.
Without(seq, S) ==
  LET rest[i \in 0..Len(seq)] ==
        IF i = 0 THEN <<>>
        ELSE IF seq[i] \in S THEN rest[i - 1] ELSE Append(rest[i - 1], seq[i])
  IN rest[Len(seq)]

\* sortHooks and insertByPriority: the entries in order of priority, then of registration.
Sorted(seq) == Without(seq, Entries \ Early) \o Without(seq, Early)

Register(e) ==
  /\ e \notin added
  /\ list' = IF kind = "manager" THEN Sorted(Append(list, e)) ELSE Append(list, e)
  /\ added' = added \cup {e}
  /\ UNCHANGED <<kind, runVars, removed, used>>

\* eject() gives the manager a new array, and the runs go on with the old one.

Ejected == [r \in Runs |-> IF phase[r] = "running" /\ walk[r] = None THEN list ELSE walk[r]]

Detached == IF kind = "manager" THEN Ejected ELSE walk

\* off(), remove(), eject() of one entry, or of all: removeAll(), ejectAll(), clear().
Drop(S) ==
  /\ S \subseteq Range(list) /\ S # {}
  /\ list' = Without(list, S)
  /\ walk' = Detached
  /\ removed' = removed \cup S
  /\ UNCHANGED <<kind, next, inside, spent, phase, called, present, added, used>>

----------------------------------------------------------------------------
\* A run: the emitter and the chain iterate a copy, the registry a sorted one, the
\* manager the array itself.

Taken == CASE kind \in {"emitter", "chain"} -> list
           [] kind = "registry" -> Sorted(list)
           [] OTHER -> None

Begin(r) ==
  /\ phase[r] = "new"
  /\ phase' = [phase EXCEPT ![r] = "running"]
  /\ walk' = [walk EXCEPT ![r] = Taken]
  /\ present' = [present EXCEPT ![r] = list]
  /\ UNCHANGED <<kind, list, next, inside, spent, called, added, removed, used>>

Walked(r) == IF walk[r] = None THEN list ELSE walk[r]

Call(r) ==
  /\ phase[r] = "running" /\ inside[r] = None
  /\ next[r] <= Len(Walked(r))
  /\ LET e == Walked(r)[next[r]]
     IN inside' = [inside EXCEPT ![r] = e] /\ called' = [called EXCEPT ![r] = Append(@, e)]
  /\ next' = [next EXCEPT ![r] = @ + 1]
  /\ UNCHANGED <<kind, list, walk, spent, phase, present, added, removed, used>>

OneShot(r) == {inside[r]} \cap (IF kind = "chain" THEN {} ELSE Once)

\* The callback has returned; an emitter takes a throw for a return.  The registry ejects a
\* one-shot hook now, if it is still there, the others at the end of the run.
Return(r) ==
  /\ inside[r] # None
  /\ inside' = [inside EXCEPT ![r] = None]
  /\ IF kind = "registry"
       THEN list' = Without(list, OneShot(r)) /\ UNCHANGED spent
       ELSE spent' = [spent EXCEPT ![r] = @ \cup OneShot(r)] /\ UNCHANGED list
  /\ used' = used \cup OneShot(r)
  /\ UNCHANGED <<kind, walk, next, phase, called, present, added, removed>>

\* The end of a run, which ejects S.
\* Fault: the list is written back as it was before the run.
LeftWrittenBack(r, S) == IF S = {} THEN list ELSE Without(present[r], S)

Left(r, S) == Without(list, S)

Leave(r, end, S) ==
  /\ phase' = [phase EXCEPT ![r] = end]
  /\ inside' = [inside EXCEPT ![r] = None]
  /\ list' = Left(r, S)
  /\ walk' = IF S = {} THEN walk ELSE Detached
  /\ spent' = [spent EXCEPT ![r] = {}]
  /\ UNCHANGED <<kind, next, called, present, added, removed>>

End(r) ==
  /\ phase[r] = "running" /\ inside[r] = None /\ next[r] > Len(Walked(r))
  /\ Leave(r, "done", spent[r])
  /\ UNCHANGED used

\* The request has timed out: the manager breaks off.
Break(r) ==
  /\ kind = "manager" /\ phase[r] = "running" /\ inside[r] = None
  /\ next[r] <= Len(Walked(r))
  /\ Leave(r, "cut", spent[r])
  /\ UNCHANGED used

\* A callback throws: the run ends, and the callback is not taken to have run.
Throw(r) ==
  /\ kind # "emitter" /\ inside[r] # None
  /\ Leave(r, "cut", spent[r])
  /\ UNCHANGED used

\* A callback answers in place of what follows it: the run ends, and it has run.
Answer(r) ==
  /\ kind \in {"registry", "manager"} /\ inside[r] # None
  /\ Leave(r, "cut", spent[r] \cup OneShot(r))
  /\ used' = used \cup OneShot(r)

Next ==
  \/ \E e \in Entries : Register(e) \/ Drop({e})
  \/ Drop(Range(list))
  \/ \E r \in Runs : Begin(r) \/ Call(r) \/ Return(r) \/ End(r)
                   \/ Break(r) \/ Throw(r) \/ Answer(r)

Spec == Init /\ [][Next]_hookVars

----------------------------------------------------------------------------
\* Registering and removing stand, whatever runs meanwhile: an entry is in the list until
\* it is removed or, if it is a one-shot entry, has run; it does not come back; and a
\* one-shot entry that has run is gone once the runs that ran it have ended
\* (lifecycle.ts 334-340 and 824, interceptors.ts 423).
RegistrationStands ==
  /\ added \ (removed \cup used) \subseteq Range(list)
  /\ Range(list) \cap removed = {}
  /\ \A e \in Range(list) \cap used : \E r \in Runs : e \in spent[r]
  /\ IsInjective(list)

\* A run that goes to its end calls what was registered as it began, also what is removed
\* meanwhile: in order of priority and each once.  The manager's, which iterates the
\* array itself, calls it at least once.
NoneSkipped ==
  \A r \in Runs : phase[r] = "done" =>
    IF kind = "manager" THEN Range(present[r]) \subseteq Range(called[r])
    ELSE called[r] = IF kind = "registry" THEN Sorted(present[r]) ELSE present[r]
=============================================================================
