--------------------------- MODULE PrinterWorker ---------------------------
(***************************************************************************)
(* One command thread per printer (printer_worker.py).  A worker is a      *)
(* bounded queue, a count of the waiting jobs kept under a lock, a flag    *)
(* for the running one, and a future per job.  The queue itself is taken   *)
(* from outside the lock, so between the get and the locked decision a job *)
(* is in nobody's hands but the thread's.                                  *)
(*                                                                         *)
(* A printer that is removed and added again gets a second worker while    *)
(* the thread of the first one may still be in a job: hence a set of them. *)
(***************************************************************************)
EXTENDS Naturals, Sequences, FiniteSets

CONSTANTS
    Workers,    \* one per membership of the serial
    Jobs,       \* the callables handed to submit
    QueueSize,  \* queue_size
    None

ASSUME WorkerAssumption ==
    /\ QueueSize \in Nat \ {0}
    /\ None \notin Jobs

VARIABLES
    queue,      \* [Workers -> Seq(Jobs)]          _queue
    queued,     \* [Workers -> Nat]                _queued
    hand,       \* [Workers -> Jobs \cup {None}]   the item _run has taken
    exec,       \* [Workers -> Jobs \cup {None}]   the job inside _run_one
    running,    \* [Workers -> BOOLEAN]            _running
    halted,     \* [Workers -> BOOLEAN]            _stop
    cancel,     \* [Workers -> BOOLEAN]            cancel_event
    drained,    \* [Workers -> SUBSET Jobs]        taken back by stop, not cancelled yet
    fut         \* [Jobs -> FutureStates]

workerVars == <<queue, queued, hand, exec, running, halted, cancel, drained, fut>>

FutureStates == {"new", "pending", "running", "done", "refused", "cancelled"}
Settled      == {"done", "refused", "cancelled"}

Busy(w) == queued[w] > 0 \/ running[w]

WorkerInit ==
    /\ queue   = [w \in Workers |-> <<>>]
    /\ queued  = [w \in Workers |-> 0]
    /\ hand    = [w \in Workers |-> None]
    /\ exec    = [w \in Workers |-> None]
    /\ running = [w \in Workers |-> FALSE]
    /\ halted  = [w \in Workers |-> FALSE]
    /\ cancel  = [w \in Workers |-> FALSE]
    /\ drained = [w \in Workers |-> {}]
    /\ fut     = [j \in Jobs |-> "new"]

-----------------------------------------------------------------------------
(* The caller's side.                                                      *)

\* A plausible slip: the limit is read off the queue, which no longer holds
\* the job the thread has just taken.
RefusesByQueue(w) == halted[w] \/ Len(queue[w]) >= QueueSize

Refuses(w) == halted[w] \/ queued[w] >= QueueSize

Submit(w, j) ==
    /\ fut[j] = "new"
    /\ IF Refuses(w)
       THEN /\ fut' = [fut EXCEPT ![j] = "refused"]
            /\ UNCHANGED <<queue, queued>>
       ELSE /\ fut' = [fut EXCEPT ![j] = "pending"]
            /\ queue' = [queue EXCEPT ![w] = Append(@, j)]
            /\ queued' = [queued EXCEPT ![w] = @ + 1]
    /\ UNCHANGED <<hand, exec, running, halted, cancel, drained>>

\* stop(): under the lock the flag and the cancel are set and the queue emptied.
Stop(w) ==
    /\ halted' = [halted EXCEPT ![w] = TRUE]
    /\ cancel' = [cancel EXCEPT ![w] = TRUE]
    /\ drained' = [drained EXCEPT ![w] = @ \cup {queue[w][i] : i \in DOMAIN queue[w]}]
    /\ queue' = [queue EXCEPT ![w] = <<>>]
    /\ queued' = [queued EXCEPT ![w] = IF @ > Len(queue[w]) THEN @ - Len(queue[w]) ELSE 0]
    /\ UNCHANGED <<hand, exec, running, fut>>

\* A plausible slip: the drained jobs are forgotten instead of cancelled.
CancelNone(w) ==
    /\ drained[w] # {}
    /\ drained' = [drained EXCEPT ![w] = {}]
    /\ UNCHANGED <<queue, queued, hand, exec, running, halted, cancel, fut>>

\* The drained futures are cancelled after the lock is let go.
CancelDrained(w) ==
    /\ drained[w] # {}
    /\ fut' = [j \in Jobs |-> IF j \in drained[w] THEN "cancelled" ELSE fut[j]]
    /\ drained' = [drained EXCEPT ![w] = {}]
    /\ UNCHANGED <<queue, queued, hand, exec, running, halted, cancel>>

-----------------------------------------------------------------------------
(* The worker thread.                                                      *)

Take(w) ==
    /\ hand[w] = None /\ exec[w] = None
    /\ queue[w] # <<>>
    /\ hand' = [hand EXCEPT ![w] = Head(queue[w])]
    /\ queue' = [queue EXCEPT ![w] = Tail(@)]
    /\ UNCHANGED <<queued, exec, running, halted, cancel, drained, fut>>

\* Under the lock the item leaves the count and is started, or cancelled when
\* stop() came in between.
Begin(w) ==
    /\ hand[w] # None
    /\ hand' = [hand EXCEPT ![w] = None]
    /\ queued' = [queued EXCEPT ![w] = IF @ > 0 THEN @ - 1 ELSE 0]
    /\ IF halted[w]
       THEN /\ fut' = [fut EXCEPT ![hand[w]] = "cancelled"]
            /\ UNCHANGED <<exec, running>>
       ELSE /\ fut' = [fut EXCEPT ![hand[w]] = "running"]
            /\ exec' = [exec EXCEPT ![w] = hand[w]]
            /\ running' = [running EXCEPT ![w] = TRUE]
    /\ UNCHANGED <<queue, halted, cancel, drained>>

\* fn returned or raised: the future carries the result, the flag still stands.
Settle(w) ==
    /\ exec[w] # None
    /\ fut[exec[w]] = "running"
    /\ fut' = [fut EXCEPT ![exec[w]] = "done"]
    /\ UNCHANGED <<queue, queued, hand, exec, running, halted, cancel, drained>>

Release(w) ==
    /\ exec[w] # None
    /\ fut[exec[w]] = "done"
    /\ exec' = [exec EXCEPT ![w] = None]
    /\ running' = [running EXCEPT ![w] = FALSE]
    /\ UNCHANGED <<queue, queued, hand, halted, cancel, drained, fut>>

ThreadStep(w) == Take(w) \/ Begin(w) \/ Settle(w) \/ Release(w)

WorkerNext ==
    \E w \in Workers :
        \/ \E j \in Jobs : Submit(w, j)
        \/ Stop(w) \/ CancelDrained(w) \/ ThreadStep(w)

WorkerSpec == WorkerInit /\ [][WorkerNext]_workerVars

-----------------------------------------------------------------------------
(* What the rest of the bridge relies on.                                  *)

WorkerTypeOK ==
    /\ queue \in [Workers -> Seq(Jobs)]
    /\ queued \in [Workers -> Nat]
    /\ hand \in [Workers -> Jobs \cup {None}]
    /\ exec \in [Workers -> Jobs \cup {None}]
    /\ running \in [Workers -> BOOLEAN]
    /\ halted \in [Workers -> BOOLEAN]
    /\ cancel \in [Workers -> BOOLEAN]
    /\ drained \in [Workers -> SUBSET Jobs]
    /\ fut \in [Jobs -> FutureStates]

\* The count is the jobs that wait, the one between the queue and the locked
\* decision included, whatever stop() and submit() did meanwhile.  It never
\* passes the limit (printer_worker.py, submit, stop and _run).
CountIsWaiting ==
    \A w \in Workers :
        /\ queued[w] = Len(queue[w]) + (IF hand[w] = None THEN 0 ELSE 1)
        /\ queued[w] <= QueueSize
        /\ running[w] = (exec[w] # None)

Waiting(w) == {queue[w][i] : i \in DOMAIN queue[w]} \cup ({hand[w]} \ {None})

============================================================================
