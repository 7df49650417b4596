------------------------------ MODULE BatchQueue ------------------------------
(***************************************************************************)
(* Requests that are sent in bursts (class BatchQueue): the queue, the     *)
(* timer or, without a delay, the microtasks that flush it, the limit that *)
(* flushes it at once, flush(), and the aborts of those who wait.          *)
(***************************************************************************)
EXTENDS Naturals, Sequences, Functions

CONSTANTS Items,      \* the requests
          MaxBatch    \* _maxBatch

VARIABLES delayed,  \* _flushMs > 0, for good
          queue,    \* _queue
          timer,    \* _timer is set
          tasks,    \* the flushes that queueMicrotask() has queued
          signal,   \* the items whose signal has aborted
          state,    \* what has become of each promise
          sent      \* history: how many times each item was given to send()
batchVars == <<delayed, queue, timer, tasks, signal, state, sent>>

TypeOK ==
  /\ delayed \in BOOLEAN /\ queue \in Seq(Items) /\ Len(queue) < MaxBatch
  /\ timer \in BOOLEAN /\ tasks \in Nat /\ signal \subseteq Items
  /\ state \in [Items -> {"new", "queued", "sent", "answered", "aborted"}]
  /\ sent \in [Items -> Nat]

Init ==
  /\ delayed \in BOOLEAN /\ queue = <<>> /\ timer = FALSE /\ tasks = 0 /\ signal = {}
  /\ state = [i \in Items |-> "new"] /\ sent = [i \in Items |-> 0]

----------------------------------------------------------------------------
\* _flushNow() of the queue q: the timer is cleared, the first of q are sent.

Burst(q) == SubSeq(q, 1, IF Len(q) < MaxBatch THEN Len(q) ELSE MaxBatch)

FlushNow(q, batch) ==
  /\ timer' = FALSE
  /\ queue' = SubSeq(q, Len(batch) + 1, Len(q))
  /\ state' = [i \in Items |-> IF i \in Range(batch) THEN "sent" ELSE state[i]]
  /\ sent' = [i \in Items |-> IF i \in Range(batch) THEN sent[i] + 1 ELSE sent[i]]

\* A signal that has aborted already: the item is taken out again.
EnqueueAborted(i) ==
  /\ state[i] = "new" /\ i \in signal
  /\ state' = [state EXCEPT ![i] = "aborted"]
  /\ UNCHANGED <<delayed, queue, timer, tasks, signal, sent>>

\* The limit is reached: the queue is flushed here and now.
EnqueueLast(i) ==
  /\ state[i] = "new" /\ i \notin signal
  /\ Len(queue) + 1 >= MaxBatch
  /\ FlushNow(Append(queue, i), Burst(Append(queue, i)))
  /\ UNCHANGED <<delayed, tasks, signal>>

EnqueueWait(i) ==
  /\ state[i] = "new" /\ i \notin signal
  /\ Len(queue) + 1 < MaxBatch
  /\ queue' = Append(queue, i)
  /\ state' = [state EXCEPT ![i] = "queued"]
  /\ IF delayed THEN timer' = TRUE /\ UNCHANGED tasks
                ELSE tasks' = tasks + 1 /\ UNCHANGED timer
  /\ UNCHANGED <<delayed, signal, sent>>

Enqueue(i) == EnqueueAborted(i) \/ EnqueueLast(i) \/ EnqueueWait(i)

\* The timer or a microtask runs; the queue may be empty by then.
Fire ==
  /\ timer \/ tasks > 0
  /\ tasks' = IF timer THEN tasks ELSE tasks - 1
  /\ FlushNow(queue, Burst(queue))
  /\ UNCHANGED <<delayed, signal>>

\* flush(): until the queue is empty, which its first round makes it.
Flush ==
  /\ queue # <<>>
  /\ FlushNow(queue, Burst(queue))
  /\ UNCHANGED <<delayed, tasks, signal>>

\* An item that waits is taken out; the timer stays.  Others are their senders' affair.
\* Fault: it is looked for by its place in the queue.
AbortedFirst(i) == IF queue = <<>> THEN queue ELSE Tail(queue)

Aborted(i) ==
  LET k == CHOOSE j \in DOMAIN queue : queue[j] = i
  IN SubSeq(queue, 1, k - 1) \o SubSeq(queue, k + 1, Len(queue))

Abort(i) ==
  /\ i \notin signal
  /\ signal' = signal \cup {i}
  /\ queue' = IF state[i] = "queued" THEN Aborted(i) ELSE queue
  /\ state' = IF state[i] = "queued" THEN [state EXCEPT ![i] = "aborted"] ELSE state
  /\ UNCHANGED <<delayed, timer, tasks, sent>>

\* send() settles, or has thrown.
Settle(i) ==
  /\ state[i] = "sent"
  /\ state' = [state EXCEPT ![i] = "answered"]
  /\ UNCHANGED <<delayed, queue, timer, tasks, signal, sent>>

Next == Fire \/ Flush \/ \E i \in Items : Enqueue(i) \/ Abort(i) \/ Settle(i)
Spec == Init /\ [][Next]_batchVars

----------------------------------------------------------------------------
\* What waits in the queue is flushed without another call: a timer is set or a microtask
\* queued, after any sequence of full batches, aborts and flushes (client.ts 5343-5356).
QueueFlushed == queue # <<>> => timer \/ tasks > 0

\* A request is sent once at most, and not at all if its caller was told of the abort.
SentOnce == \A i \in Items :
  /\ sent[i] = IF state[i] \in {"sent", "answered"} THEN 1 ELSE 0
  /\ state[i] = "queued" <=> i \in Range(queue)
=============================================================================
