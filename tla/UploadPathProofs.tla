-------------------------- MODULE UploadPathProofs --------------------------
(***************************************************************************)
(* For any workers, jobs, queue size and file: the types of the path, the  *)
(* count of a worker is what waits in it, the job between the queue and the*)
(* locked decision included, a refused handshake is never the reason for a *)
(* longer wait, and what the client says of the copy is true; a start      *)
(* finds its file, and an upload is given up for a stop that was meant.    *)
(*                                                                         *)
(* The types hang on more than types: that an upload has a file needs that *)
(* a thread's job is its own (Placed), and that its client works for that  *)
(* job, which has no verdict yet (Working).  That a job is put into one    *)
(* worker - the one fleet.submit read - needs what the caller holds        *)
(* (SubOK).                                                                *)
(***************************************************************************)
EXTENDS UploadPath, SequenceTheorems, TLAPS

-----------------------------------------------------------------------------
(* The worker's count.                                                     *)

SubOK == sub # NoSub => sub.job \in Jobs /\ sub.w \in Workers

CallersOK ==
    /\ worker \in Workers \cup {None} /\ stopping \in Workers \cup {None}
    /\ SubOK

CountInv == WorkerTypeOK /\ CallersOK /\ CountIsWaiting

LEMMA CountParts ==
    ASSUME WorkerTypeOK, CountIsWaiting, NEW w \in Workers
    PROVE  /\ queue[w] \in Seq(Jobs) /\ Len(queue[w]) \in Nat /\ queued[w] \in Nat
           /\ hand[w] \in Jobs \cup {None} /\ exec[w] \in Jobs \cup {None}
           /\ hand[w] = None => queued[w] = Len(queue[w])
           /\ hand[w] # None => queued[w] = Len(queue[w]) + 1
           /\ queued[w] <= QueueSize
           /\ running[w] = (exec[w] # None)
  BY DEF WorkerTypeOK, CountIsWaiting

LEMMA SubmitCounts ==
    ASSUME WorkerTypeOK, CountIsWaiting, NEW w \in Workers, NEW j \in Jobs, Submit(w, j)
    PROVE  WorkerTypeOK' /\ CountIsWaiting'
  <1>1. fut' \in [Jobs -> FutureStates]
    BY DEF Submit, WorkerTypeOK, FutureStates
  <1>2. UNCHANGED <<hand, exec, running, halted, cancel, drained>>
    BY DEF Submit
  <1>3. CASE Refuses(w)
    <2>1. UNCHANGED <<queue, queued>>
      BY <1>3 DEF Submit
    <2> QED BY <1>1, <1>2, <2>1 DEF WorkerTypeOK, CountIsWaiting
  <1>4. CASE ~Refuses(w)
    <2>1. /\ queue' = [queue EXCEPT ![w] = Append(@, j)]
          /\ queued' = [queued EXCEPT ![w] = @ + 1]
      BY <1>4 DEF Submit
    <2>2. queue' \in [Workers -> Seq(Jobs)] /\ queued' \in [Workers -> Nat]
      BY <2>1 DEF WorkerTypeOK
    <2>3. ASSUME NEW v \in Workers
          PROVE  /\ queued'[v] = Len(queue'[v]) + (IF hand[v] = None THEN 0 ELSE 1)
                 /\ queued'[v] <= QueueSize
      <3>1. CASE v = w
        <4>1. queued'[v] = queued[v] + 1 /\ Len(queue'[v]) = Len(queue[v]) + 1
          BY <2>1, <3>1 DEF WorkerTypeOK
        <4>2. ~(queued[v] >= QueueSize)
          BY <1>4, <3>1 DEF Refuses
        <4>3. queued[v] \in Nat /\ Len(queue[v]) \in Nat /\ QueueSize \in Nat
          BY CountParts, WorkerAssumption
        <4>4. queued'[v] <= QueueSize
          BY <4>1, <4>2, <4>3
        <4>5. hand[v] = None => queued[v] = Len(queue[v])
          BY CountParts
        <4>6. hand[v] # None => queued[v] = Len(queue[v]) + 1
          BY CountParts
        <4>7. CASE hand[v] = None
          BY <4>1, <4>3, <4>4, <4>5, <4>7
        <4>8. CASE hand[v] # None
          <5>1. queued'[v] = Len(queue'[v]) + 1
            BY <4>1, <4>3, <4>6, <4>8
          <5> QED BY <4>4, <4>8, <5>1
        <4> QED BY <4>7, <4>8
      <3>2. CASE v # w
        <4>1. queued'[v] = queued[v] /\ queue'[v] = queue[v]
          BY <2>1, <3>2 DEF WorkerTypeOK
        <4> QED BY <4>1 DEF CountIsWaiting
      <3> QED BY <3>1, <3>2
    <2>4. WorkerTypeOK'
      BY <1>1, <1>2, <2>2 DEF WorkerTypeOK
    <2> QED BY <1>2, <2>3, <2>4 DEF CountIsWaiting
  <1> QED BY <1>3, <1>4

LEMMA StopCounts ==
    ASSUME WorkerTypeOK, CountIsWaiting, NEW w \in Workers, Stop(w)
    PROVE  WorkerTypeOK' /\ CountIsWaiting'
  <1>1. /\ queue' = [queue EXCEPT ![w] = <<>>]
        /\ queued' = [queued EXCEPT ![w] = IF @ > Len(queue[w]) THEN @ - Len(queue[w]) ELSE 0]
        /\ UNCHANGED <<hand, exec, running, fut>>
    BY DEF Stop
  <1>2. halted' \in [Workers -> BOOLEAN] /\ cancel' \in [Workers -> BOOLEAN]
    BY DEF Stop, WorkerTypeOK
  <1>3. drained' \in [Workers -> SUBSET Jobs]
    <2>1. {queue[w][i] : i \in DOMAIN queue[w]} \subseteq Jobs
      <3>1. queue[w] \in Seq(Jobs)
        BY DEF WorkerTypeOK
      <3> QED BY <3>1
    <2> QED BY <2>1 DEF Stop, WorkerTypeOK
  <1>4. queue' \in [Workers -> Seq(Jobs)]
    BY <1>1 DEF WorkerTypeOK
  <1>5. /\ queued' \in [Workers -> Nat]
        /\ queued'[w] = IF hand[w] = None THEN 0 ELSE 1
    <2>1. (IF queued[w] > Len(queue[w]) THEN queued[w] - Len(queue[w]) ELSE 0)
             = IF hand[w] = None THEN 0 ELSE 1
      BY CountParts
    <2> QED BY <1>1, <2>1 DEF WorkerTypeOK
  <1>6. ASSUME NEW v \in Workers
        PROVE  /\ queued'[v] = Len(queue'[v]) + (IF hand[v] = None THEN 0 ELSE 1)
               /\ queued'[v] <= QueueSize
    <2>1. CASE v = w
      <3>1. Len(queue'[v]) = 0
        BY <1>1, <2>1 DEF WorkerTypeOK
      <3> QED BY <1>5, <2>1, <3>1, WorkerAssumption
    <2>2. CASE v # w
      <3>1. queued'[v] = queued[v] /\ queue'[v] = queue[v]
        BY <1>1, <2>2 DEF WorkerTypeOK
      <3> QED BY <3>1 DEF CountIsWaiting
    <2> QED BY <2>1, <2>2
  <1>7. WorkerTypeOK'
    BY <1>1, <1>2, <1>3, <1>4, <1>5 DEF WorkerTypeOK
  <1> QED BY <1>1, <1>6, <1>7 DEF CountIsWaiting

\* Steps that only change what the count is not about.
LEMMA AsideCounts ==
    ASSUME WorkerTypeOK, CountIsWaiting, UNCHANGED <<queue, queued, hand, exec, running, halted>>,
           cancel' \in [Workers -> BOOLEAN], drained' \in [Workers -> SUBSET Jobs],
           fut' \in [Jobs -> FutureStates]
    PROVE  WorkerTypeOK' /\ CountIsWaiting'
  BY DEF WorkerTypeOK, CountIsWaiting

LEMMA CancelCounts ==
    ASSUME WorkerTypeOK, CountIsWaiting, NEW w \in Workers, CancelDrained(w)
    PROVE  WorkerTypeOK' /\ CountIsWaiting'
  <1>1. fut' \in [Jobs -> FutureStates]
    BY DEF CancelDrained, WorkerTypeOK, FutureStates
  <1>2. drained' \in [Workers -> SUBSET Jobs] /\ cancel' \in [Workers -> BOOLEAN]
    BY DEF CancelDrained, WorkerTypeOK
  <1>3. UNCHANGED <<queue, queued, hand, exec, running, halted>>
    BY DEF CancelDrained
  <1> QED BY <1>1, <1>2, <1>3, AsideCounts

LEMMA SettleCounts ==
    ASSUME WorkerTypeOK, CountIsWaiting, NEW w \in Workers, Settle(w)
    PROVE  WorkerTypeOK' /\ CountIsWaiting'
  <1>1. fut' \in [Jobs -> FutureStates]
    BY DEF Settle, WorkerTypeOK, FutureStates
  <1>2. UNCHANGED <<queue, queued, hand, exec, running, halted, cancel, drained>>
    BY DEF Settle
  <1> QED BY <1>1, <1>2, AsideCounts DEF WorkerTypeOK

LEMMA TakeCounts ==
    ASSUME WorkerTypeOK, CountIsWaiting, NEW w \in Workers, Take(w)
    PROVE  WorkerTypeOK' /\ CountIsWaiting'
  <1>1. /\ hand[w] = None /\ queue[w] # <<>>
        /\ hand' = [hand EXCEPT ![w] = Head(queue[w])]
        /\ queue' = [queue EXCEPT ![w] = Tail(@)]
        /\ UNCHANGED <<queued, exec, running, halted, cancel, drained, fut>>
    BY DEF Take
  <1>2. queue[w] \in Seq(Jobs)
    BY DEF WorkerTypeOK
  <1>3. /\ Head(queue[w]) \in Jobs /\ Tail(queue[w]) \in Seq(Jobs)
        /\ Len(Tail(queue[w])) = Len(queue[w]) - 1 /\ Head(queue[w]) # None
    BY <1>1, <1>2, WorkerAssumption
  <1>4. queue' \in [Workers -> Seq(Jobs)] /\ hand' \in [Workers -> Jobs \cup {None}]
    BY <1>1, <1>3 DEF WorkerTypeOK
  <1>5. ASSUME NEW v \in Workers
        PROVE  queued[v] = Len(queue'[v]) + (IF hand'[v] = None THEN 0 ELSE 1)
    <2>1. CASE v = w
      <3>1. hand'[v] # None /\ Len(queue'[v]) = Len(queue[v]) - 1
        BY <1>1, <1>3, <2>1 DEF WorkerTypeOK
      <3> QED BY <1>1, <2>1, <3>1, CountParts
    <2>2. CASE v # w
      <3>1. hand'[v] = hand[v] /\ queue'[v] = queue[v]
        BY <1>1, <2>2 DEF WorkerTypeOK
      <3> QED BY <3>1 DEF CountIsWaiting
    <2> QED BY <2>1, <2>2
  <1>6. WorkerTypeOK'
    BY <1>1, <1>4 DEF WorkerTypeOK
  <1> QED BY <1>1, <1>5, <1>6 DEF CountIsWaiting

LEMMA BeginCounts ==
    ASSUME WorkerTypeOK, CountIsWaiting, NEW w \in Workers, Begin(w)
    PROVE  WorkerTypeOK' /\ CountIsWaiting'
  <1>1. /\ hand[w] # None /\ hand' = [hand EXCEPT ![w] = None]
        /\ queued' = [queued EXCEPT ![w] = IF @ > 0 THEN @ - 1 ELSE 0]
        /\ UNCHANGED <<queue, halted, cancel, drained>>
    BY DEF Begin
  <1>2. hand[w] \in Jobs
    BY <1>1 DEF WorkerTypeOK
  <1>3. fut' \in [Jobs -> FutureStates]
    BY DEF Begin, WorkerTypeOK, FutureStates
  <1>4. /\ exec' \in [Workers -> Jobs \cup {None}] /\ running' \in [Workers -> BOOLEAN]
        /\ \A v \in Workers : running'[v] = (exec'[v] # None)
    <2>1. CASE UNCHANGED <<exec, running>>
      BY <2>1 DEF WorkerTypeOK, CountIsWaiting
    <2>2. CASE /\ exec' = [exec EXCEPT ![w] = hand[w]]
               /\ running' = [running EXCEPT ![w] = TRUE]
      <3>1. exec' \in [Workers -> Jobs \cup {None}] /\ running' \in [Workers -> BOOLEAN]
        BY <1>2, <2>2 DEF WorkerTypeOK
      <3>2. ASSUME NEW v \in Workers PROVE running'[v] = (exec'[v] # None)
        <4>1. CASE v = w
          BY <1>1, <2>2, <4>1 DEF WorkerTypeOK
        <4>2. CASE v # w
          BY <2>2, <4>2 DEF WorkerTypeOK, CountIsWaiting
        <4> QED BY <4>1, <4>2
      <3> QED BY <3>1, <3>2
    <2> QED BY <2>1, <2>2 DEF Begin
  <1>5. /\ queued' \in [Workers -> Nat] /\ queued'[w] = Len(queue[w])
    <2>1. (IF queued[w] > 0 THEN queued[w] - 1 ELSE 0) = Len(queue[w]) /\ Len(queue[w]) \in Nat
      BY <1>1, CountParts
    <2> QED BY <1>1, <2>1 DEF WorkerTypeOK
  <1>6. hand' \in [Workers -> Jobs \cup {None}]
    BY <1>1 DEF WorkerTypeOK
  <1>7. ASSUME NEW v \in Workers
        PROVE  /\ queued'[v] = Len(queue'[v]) + (IF hand'[v] = None THEN 0 ELSE 1)
               /\ queued'[v] <= QueueSize
    <2>1. CASE v = w
      <3>1. hand'[v] = None
        BY <1>1, <2>1 DEF WorkerTypeOK
      <3> QED BY <1>1, <1>5, <2>1, <3>1, CountParts, WorkerAssumption
    <2>2. CASE v # w
      <3>1. queued'[v] = queued[v] /\ hand'[v] = hand[v]
        BY <1>1, <2>2 DEF WorkerTypeOK
      <3> QED BY <1>1, <3>1 DEF CountIsWaiting
    <2> QED BY <2>1, <2>2
  <1>8. WorkerTypeOK'
    BY <1>1, <1>3, <1>4, <1>5, <1>6 DEF WorkerTypeOK
  <1> QED BY <1>4, <1>7, <1>8 DEF CountIsWaiting

LEMMA ReleaseCounts ==
    ASSUME WorkerTypeOK, CountIsWaiting, NEW w \in Workers, Release(w)
    PROVE  WorkerTypeOK' /\ CountIsWaiting'
  <1>1. /\ exec' = [exec EXCEPT ![w] = None] /\ running' = [running EXCEPT ![w] = FALSE]
        /\ UNCHANGED <<queue, queued, hand, halted, cancel, drained, fut>>
    BY DEF Release
  <1>2. exec' \in [Workers -> Jobs \cup {None}] /\ running' \in [Workers -> BOOLEAN]
    BY <1>1 DEF WorkerTypeOK
  <1>3. ASSUME NEW v \in Workers PROVE running'[v] = (exec'[v] # None)
    BY <1>1 DEF WorkerTypeOK, CountIsWaiting
  <1>4. WorkerTypeOK'
    BY <1>1, <1>2 DEF WorkerTypeOK
  <1> QED BY <1>1, <1>3, <1>4 DEF CountIsWaiting

LEMMA CountStep == ASSUME CountInv, [Next]_vars PROVE CountInv'
  <1>0. WorkerTypeOK /\ CountIsWaiting /\ CallersOK
    BY DEF CountInv
  <1>1. ASSUME UNCHANGED workerVars PROVE WorkerTypeOK' /\ CountIsWaiting'
    BY <1>0, <1>1 DEF workerVars, WorkerTypeOK, CountIsWaiting
  <1>2. ASSUME UNCHANGED <<worker, stopping, sub>> PROVE CallersOK'
    BY <1>0, <1>2 DEF CallersOK, SubOK
  <1>3. CASE AddPrinter
    <2>1. UNCHANGED workerVars
      BY <1>3 DEF AddPrinter
    <2>2. worker' \in Workers /\ UNCHANGED <<stopping, sub>>
      <3>1. PICK w \in Workers : worker' = w
        BY <1>3 DEF AddPrinter
      <3> QED BY <1>3, <3>1 DEF AddPrinter
    <2>3. CallersOK'
      BY <1>0, <2>2 DEF CallersOK, SubOK
    <2> QED BY <1>1, <2>1, <2>3 DEF CountInv
  <1>4. CASE RemovePrinter
    <2>1. UNCHANGED workerVars
      BY <1>4 DEF RemovePrinter
    <2>2. CallersOK'
      BY <1>0, <1>4 DEF RemovePrinter, CallersOK, SubOK
    <2> QED BY <1>1, <2>1, <2>2 DEF CountInv
  <1>5. CASE RemoveStops
    <2>1. stopping \in Workers /\ Stop(stopping)
      BY <1>0, <1>5 DEF RemoveStops, CallersOK
    <2>2. CallersOK'
      BY <1>0, <1>5 DEF RemoveStops, CallersOK, SubOK
    <2> QED BY <1>0, <2>1, <2>2, StopCounts DEF CountInv
  <1>6. ASSUME NEW j \in Jobs, SubmitReads(j) PROVE CountInv'
    <2>1. UNCHANGED workerVars
      BY <1>6 DEF SubmitReads
    <2>2. sub'.job = j /\ sub'.w = worker /\ worker \in Workers /\ UNCHANGED <<worker, stopping>>
      BY <1>0, <1>6 DEF SubmitReads, CallersOK
    <2>3. CallersOK'
      BY <1>0, <2>2 DEF CallersOK, SubOK
    <2> QED BY <1>1, <2>1, <2>3 DEF CountInv
  <1>7. CASE SubmitPuts
    <2>1. sub.w \in Workers /\ sub.job \in Jobs /\ Submit(sub.w, sub.job)
      BY <1>0, <1>7 DEF SubmitPuts, CallersOK, SubOK
    <2>2. CallersOK'
      BY <1>0, <1>7 DEF SubmitPuts, CallersOK, SubOK, NoSub
    <2> QED BY <1>0, <2>1, <2>2, SubmitCounts DEF CountInv
  <1>8. ASSUME NEW w \in Workers, ThreadRuns(w) PROVE CountInv'
    <2>1. CallersOK'
      <3>1. UNCHANGED <<worker, stopping, sub>>
        BY <1>8 DEF ThreadRuns, ThreadTurns, UploadBegins, UploadFlags, Transfers, UploadChecks,
                    UploadClears, JobEnds, pathVars
      <3> QED BY <1>2, <3>1
    <2>2. \/ Take(w) \/ Begin(w) \/ Release(w) \/ CancelDrained(w) \/ Settle(w)
          \/ UNCHANGED workerVars \/ UploadClears(w)
      BY <1>8 DEF ThreadRuns, ThreadTurns, UploadBegins, UploadFlags, Transfers, UploadChecks,
                  JobEnds
    <2>3. ASSUME UploadClears(w) PROVE WorkerTypeOK' /\ CountIsWaiting'
      <3>1. cancel' \in [Workers -> BOOLEAN]
        BY <1>0, <2>3 DEF UploadClears, WorkerTypeOK
      <3>2. UNCHANGED <<queue, queued, hand, exec, running, halted, drained, fut>>
        BY <2>3 DEF UploadClears
      <3> QED BY <1>0, <3>1, <3>2, AsideCounts DEF WorkerTypeOK
    <2>4. WorkerTypeOK' /\ CountIsWaiting'
      BY <1>0, <1>1, <2>2, <2>3, TakeCounts, BeginCounts, ReleaseCounts, CancelCounts,
         SettleCounts
    <2> QED BY <2>1, <2>4 DEF CountInv
  <1>9. CASE StopControl
    <2>1. cancel' \in [Workers -> BOOLEAN]
      BY <1>0, <1>9 DEF StopControl, WorkerTypeOK
    <2>2. UNCHANGED <<queue, queued, hand, exec, running, halted, drained, fut>>
      BY <1>9 DEF StopControl
    <2>3. UNCHANGED <<worker, stopping, sub>>
      BY <1>9 DEF StopControl
    <2>4. WorkerTypeOK' /\ CountIsWaiting'
      BY <1>0, <2>1, <2>2, AsideCounts DEF WorkerTypeOK
    <2> QED BY <1>2, <2>3, <2>4 DEF CountInv
  <1>10. CASE Printer \/ UNCHANGED vars
    BY <1>1, <1>2, <1>10 DEF Printer, vars, pathVars, CountInv
  <1> QED BY <1>3, <1>4, <1>5, <1>6, <1>7, <1>8, <1>9, <1>10 DEF Next

LEMMA CountInit == Init => CountInv
  <1> SUFFICES ASSUME Init PROVE CountInv
    OBVIOUS
  <1>1. WorkerTypeOK
    BY DEF Init, WorkerInit, WorkerTypeOK, FutureStates
  <1>2. CountIsWaiting
    <2> SUFFICES ASSUME NEW w \in Workers
                 PROVE  /\ queued[w] = Len(queue[w]) + (IF hand[w] = None THEN 0 ELSE 1)
                        /\ queued[w] <= QueueSize
                        /\ running[w] = (exec[w] # None)
      BY DEF CountIsWaiting
    <2>1. queue[w] = <<>> /\ queued[w] = 0 /\ hand[w] = None /\ exec[w] = None
      BY DEF Init, WorkerInit
    <2>2. running[w] = FALSE
      BY DEF Init, WorkerInit
    <2>3. 0 <= QueueSize /\ Len(<<>>) = 0
      BY WorkerAssumption
    <2>4. queued[w] = Len(queue[w]) + 0 /\ queued[w] <= QueueSize
      BY <2>1, <2>3
    <2>5. running[w] = (exec[w] # None)
      BY <2>1, <2>2
    <2> QED BY <2>1, <2>4, <2>5
  <1>3. CallersOK
    BY DEF Init, CallersOK, SubOK, NoSub
  <1> QED BY <1>1, <1>2, <1>3 DEF CountInv

\* The count is the jobs that wait and never passes the limit, for any number of
\* workers and jobs (printer_worker.py).
THEOREM CountHolds == Spec => []CountIsWaiting
  <1>1. Init => CountInv
    BY CountInit
  <1>2. CountInv /\ [Next]_vars => CountInv'
    BY CountStep
  <1>3. CountInv => CountIsWaiting
    BY DEF CountInv
  <1> QED BY <1>1, <1>2, <1>3, PTL DEF Spec

-----------------------------------------------------------------------------
(* The cool-off.                                                           *)

CoolOK == cool \in 0..CoolOff /\ since \in 0..CoolOff /\ CoolOffEnds

LEMMA CoolCases ==
    ASSUME [Next]_vars
    PROVE  Armed \/ Tick \/ UNCHANGED <<cool, since>>
  <1>1. ASSUME NEW c, NEW cancelled, ClientStep(c, cancelled)
        PROVE  Armed \/ UNCHANGED <<cool, since>>
    BY <1>1 DEF ClientStep, SweepLocks, SweepFails, SweepDeletes, TurnedAway, Locks, Refused,
                Connects, Opens, Sends, SeesCancel, AwaitsClosing, ReadsSize, DropsShort,
                DropsPartial, Breaks
  <1>2. ASSUME NEW w \in Workers, ThreadRuns(w)
        PROVE  Armed \/ UNCHANGED <<cool, since>>
    <2>1. Transfers(w) => Armed \/ UNCHANGED <<cool, since>>
      BY <1>1 DEF Transfers
    <2>2. UploadFlags(w) => UNCHANGED <<cool, since>>
      BY DEF UploadFlags, Starts
    <2>3. ThreadTurns(w) \/ UploadBegins(w) \/ UploadChecks(w) \/ UploadClears(w) \/ JobEnds(w)
            => UNCHANGED <<cool, since>>
      BY DEF ThreadTurns, UploadBegins, UploadChecks, UploadClears, JobEnds, ftpsVars
    <2> QED BY <1>2, <2>1, <2>2, <2>3 DEF ThreadRuns
  <1>3. Printer => Tick \/ UNCHANGED <<cool, since>>
    BY DEF Printer, FtpsEnv, HourPasses, PrinterWrites
  <1>4. ASSUME \/ AddPrinter \/ RemovePrinter \/ RemoveStops \/ SubmitPuts \/ StopControl
               \/ (\E j \in Jobs : SubmitReads(j)) \/ UNCHANGED vars
        PROVE  UNCHANGED <<cool, since>>
    BY <1>4 DEF AddPrinter, RemovePrinter, RemoveStops, SubmitPuts, StopControl, SubmitReads, vars,
           ftpsVars
  <1> QED BY <1>2, <1>3, <1>4 DEF Next

\* A refusal is what starts the wait, and nothing but a refusal (ftps.py, _guarded).
THEOREM CoolOffIsOnce == Spec => []CoolOffEnds
  <1>1. Init => CoolOK
    BY FtpsAssumption DEF Init, FtpsInit, CoolOK, CoolOffEnds
  <1>2. ASSUME CoolOK, [Next]_vars PROVE CoolOK'
    <2>1. CASE Armed
      BY <2>1, FtpsAssumption DEF Armed, CoolOK, CoolOffEnds
    <2>2. CASE Tick
      BY <1>2, <2>2, FtpsAssumption DEF Tick, CoolOK, CoolOffEnds
    <2>3. CASE UNCHANGED <<cool, since>>
      BY <1>2, <2>3 DEF CoolOK, CoolOffEnds
    <2> QED BY <1>2, <2>1, <2>2, <2>3, CoolCases
  <1>3. CoolOK => CoolOffEnds
    BY DEF CoolOK
  <1> QED BY <1>1, <1>2, <1>3, PTL DEF Spec

-----------------------------------------------------------------------------
(* Where a job is.                                                         *)

InQueue(w, j) == \E i \in DOMAIN queue[w] : queue[w][i] = j

\* The places of a job that was accepted and is neither run nor cancelled yet.
Pends(w, j) == InQueue(w, j) \/ hand[w] = j \/ j \in drained[w]

\* Inside one worker it is in one place.
Tidy(w) ==
    /\ hand[w] # None => exec[w] = None /\ ~InQueue(w, hand[w]) /\ hand[w] \notin drained[w]
    /\ \A j \in drained[w] : ~InQueue(w, j)
    /\ \A i, k \in DOMAIN queue[w] : queue[w][i] = queue[w][k] => i = k

\* A job pends in one worker and runs in one worker, and its future says which.
Placed ==
    /\ \A w \in Workers, j \in Jobs : Pends(w, j) => fut[j] = "pending"
    /\ \A v, w \in Workers, j \in Jobs : Pends(v, j) /\ Pends(w, j) => v = w
    /\ \A w \in Workers : Tidy(w)
    /\ \A w \in Workers : exec[w] # None => fut[exec[w]] \in {"running", "done"}
    /\ \A v, w \in Workers : exec[v] = exec[w] /\ exec[v] # None => v = w

\* What a step does to the workers.
LEMMA WorkerCases ==
    ASSUME CallersOK, [Next]_vars
    PROVE  \/ UNCHANGED <<queue, queued, hand, exec, running, halted, drained, fut>>
           \/ \E w \in Workers :
                \/ \E j \in Jobs : Submit(w, j)
                \/ Stop(w) \/ CancelDrained(w) \/ Take(w) \/ Begin(w) \/ Settle(w) \/ Release(w)
  <1> USE DEF workerVars
  <1>1. CASE RemoveStops
    BY <1>1 DEF RemoveStops, CallersOK
  <1>2. CASE SubmitPuts
    BY <1>2 DEF SubmitPuts, CallersOK, SubOK
  <1>3. ASSUME NEW w \in Workers, ThreadRuns(w)
        PROVE  \/ UNCHANGED <<queue, queued, hand, exec, running, halted, drained, fut>>
               \/ CancelDrained(w) \/ Take(w) \/ Begin(w) \/ Settle(w) \/ Release(w)
    BY <1>3 DEF ThreadRuns, ThreadTurns, UploadBegins, UploadFlags, Transfers, UploadChecks,
                UploadClears, JobEnds
  <1>4. ASSUME NEW j \in Jobs, SubmitReads(j)
        PROVE  UNCHANGED <<queue, queued, hand, exec, running, halted, drained, fut>>
    BY <1>4 DEF SubmitReads
  <1>5. ASSUME AddPrinter \/ RemovePrinter \/ StopControl \/ Printer \/ UNCHANGED vars
        PROVE  UNCHANGED <<queue, queued, hand, exec, running, halted, drained, fut>>
    BY <1>5 DEF AddPrinter, RemovePrinter, StopControl, Printer, vars
  <1> QED BY <1>1, <1>2, <1>3, <1>4, <1>5 DEF Next

\* The queue grows by the new job at its end.
LEMMA AppendQueue ==
    ASSUME WorkerTypeOK, NEW w \in Workers, NEW j \in Jobs,
           queue' = [queue EXCEPT ![w] = Append(@, j)]
    PROVE  /\ \A v \in Workers, x \in Jobs :
                InQueue(v, x)' <=> InQueue(v, x) \/ (v = w /\ x = j)
           /\ \A v \in Workers \ {w} : queue'[v] = queue[v]
           /\ \A i, k \in DOMAIN queue'[w] :
                queue'[w][i] = queue'[w][k] =>
                  i = k \/ InQueue(w, j) \/ (i \in DOMAIN queue[w] /\ k \in DOMAIN queue[w]
                                             /\ queue[w][i] = queue[w][k])
  <1> DEFINE q == queue[w]
             r == queue'[w]
  <1>1. q \in Seq(Jobs) /\ r = Append(q, j) /\ \A v \in Workers \ {w} : queue'[v] = queue[v]
    BY DEF WorkerTypeOK
  <1>2. /\ Len(q) \in Nat /\ DOMAIN q = 1..Len(q) /\ DOMAIN r = 1..(Len(q) + 1)
        /\ r[Len(q) + 1] = j /\ \A i \in 1..Len(q) : r[i] = q[i]
    BY <1>1
  <1> HIDE DEF q, r
  <1>3. \A x \in Jobs : (\E i \in DOMAIN r : r[i] = x) <=> (\E i \in DOMAIN q : q[i] = x) \/ x = j
    <2> TAKE x \in Jobs
    <2>1. ASSUME NEW i \in DOMAIN r, r[i] = x PROVE (\E k \in DOMAIN q : q[k] = x) \/ x = j
      BY <1>2, <2>1
    <2>2. ASSUME NEW i \in DOMAIN q, q[i] = x PROVE \E k \in DOMAIN r : r[k] = x
      BY <1>2, <2>2
    <2>3. ASSUME x = j PROVE \E k \in DOMAIN r : r[k] = x
      <3>1. Len(q) + 1 \in DOMAIN r
        BY <1>2
      <3> QED BY <1>2, <2>3, <3>1
    <2> QED BY <2>1, <2>2, <2>3
  <1>4. \A i, k \in DOMAIN r :
            r[i] = r[k] => \/ i = k \/ (\E n \in DOMAIN q : q[n] = j)
                           \/ (i \in DOMAIN q /\ k \in DOMAIN q /\ q[i] = q[k])
    BY <1>2
  <1> QED BY <1>1, <1>3, <1>4 DEF InQueue, q, r

\* The thread takes the first one.
LEMMA TailQueue ==
    ASSUME WorkerTypeOK, NEW w \in Workers, queue[w] # <<>>, Tidy(w),
           NEW j, j = Head(queue[w]), queue' = [queue EXCEPT ![w] = Tail(@)]
    PROVE  /\ j \in Jobs /\ InQueue(w, j) /\ ~InQueue(w, j)'
           /\ \A x \in Jobs : InQueue(w, x) <=> InQueue(w, x)' \/ x = j
           /\ \A v \in Workers \ {w} : queue'[v] = queue[v]
           /\ \A i, k \in DOMAIN queue'[w] : queue'[w][i] = queue'[w][k] => i = k
  <1> DEFINE q == queue[w]
             r == queue'[w]
  <1>1. /\ q \in Seq(Jobs) /\ q # <<>> /\ r = Tail(q) /\ j = Head(q)
        /\ \A v \in Workers \ {w} : queue'[v] = queue[v]
    BY DEF WorkerTypeOK
  <1>2. \A i, k \in DOMAIN q : q[i] = q[k] => i = k
    BY DEF Tidy
  <1> HIDE DEF q, r
  <1>3. /\ Len(q) \in Nat /\ Len(q) > 0 /\ DOMAIN q = 1..Len(q) /\ DOMAIN r = 1..(Len(q) - 1)
        /\ j = q[1] /\ j \in Jobs /\ \A i \in DOMAIN r : r[i] = q[i + 1]
    <2>1. Len(q) \in Nat /\ Len(q) # 0 /\ DOMAIN q = 1..Len(q)
      BY <1>1
    <2>2. j = q[1] /\ j \in Jobs
      BY <1>1
    <2>3. r \in Seq(Jobs) /\ Len(r) = Len(q) - 1 /\ \A i \in 1..Len(r) : r[i] = q[i + 1]
      BY <1>1, HeadTailProperties
    <2> QED BY <2>1, <2>2, <2>3
  <1>4. 1 \in DOMAIN q /\ \A i \in DOMAIN r : i + 1 \in DOMAIN q /\ i + 1 # 1
    BY <1>3
  <1>5. \A i \in DOMAIN r : r[i] # j
    BY <1>2, <1>3, <1>4
  <1>6. \A x \in Jobs :
            (\E i \in DOMAIN q : q[i] = x) <=> (\E i \in DOMAIN r : r[i] = x) \/ x = j
    <2> TAKE x \in Jobs
    <2>1. ASSUME NEW i \in DOMAIN q, q[i] = x PROVE (\E k \in DOMAIN r : r[k] = x) \/ x = j
      <3>1. i = 1 \/ (i - 1 \in DOMAIN r /\ r[i - 1] = q[i])
        BY <1>3
      <3> QED BY <1>3, <2>1, <3>1
    <2>2. ASSUME NEW i \in DOMAIN r, r[i] = x PROVE \E k \in DOMAIN q : q[k] = x
      BY <1>3, <1>4, <2>2
    <2> QED BY <1>3, <1>4, <2>1, <2>2
  <1>7. \A i, k \in DOMAIN r : r[i] = r[k] => i = k
    BY <1>2, <1>3, <1>4
  <1>8. /\ InQueue(w, j) /\ ~InQueue(w, j)'
        /\ \A x \in Jobs : InQueue(w, x) <=> InQueue(w, x)' \/ x = j
    BY <1>3, <1>4, <1>5, <1>6 DEF InQueue, q, r
  <1> QED BY <1>1, <1>3, <1>7, <1>8 DEF q, r

\* One job at a time changes its future and its place; what pends elsewhere, and
\* what the other threads run, is left alone.
LEMMA PlacedParts ==
    ASSUME WorkerTypeOK', Placed, NEW w \in Workers,
           \A v \in Workers, x \in Jobs : Pends(v, x)' => Pends(v, x) /\ fut'[x] = fut[x],
           Tidy(w)', \A v \in Workers \ {w} : UNCHANGED <<queue[v], hand[v], exec[v], drained[v]>>,
           exec'[w] # None =>
              /\ fut'[exec'[w]] \in {"running", "done"}
              /\ \A v \in Workers \ {w} : exec[v] # exec'[w],
           \A v \in Workers \ {w} : exec[v] # None => fut'[exec[v]] \in {"running", "done"}
    PROVE  Placed'
  <1>1. \A v \in Workers, x \in Jobs : Pends(v, x)' => fut'[x] = "pending"
    BY DEF Placed
  <1>2. \A u, v \in Workers, x \in Jobs : Pends(u, x)' /\ Pends(v, x)' => u = v
    BY DEF Placed
  <1>3. \A v \in Workers : Tidy(v)'
    <2> SUFFICES ASSUME NEW v \in Workers, v # w PROVE Tidy(v)'
      OBVIOUS
    <2>1. Tidy(v)
      BY DEF Placed
    <2> QED BY <2>1 DEF Tidy, InQueue
  <1>4. \A v \in Workers : exec'[v] # None => fut'[exec'[v]] \in {"running", "done"}
    OBVIOUS
  <1>5. \A u, v \in Workers : exec'[u] = exec'[v] /\ exec'[u] # None => u = v
    BY DEF Placed
  <1> QED BY <1>1, <1>2, <1>3, <1>4, <1>5 DEF Placed

LEMMA SubmitPlaced ==
    ASSUME WorkerTypeOK, Placed, NEW w \in Workers, NEW j \in Jobs, Submit(w, j)
    PROVE  Placed'
  <1>1. /\ fut[j] = "new" /\ UNCHANGED <<hand, exec, drained>>
        /\ \A x \in Jobs \ {j} : fut'[x] = fut[x]
    BY DEF Submit, WorkerTypeOK
  <1>2. \A v \in Workers : ~Pends(v, j) /\ exec[v] # j
    BY <1>1, WorkerAssumption DEF Placed
  <1>3. \A v \in Workers : exec[v] # None => fut'[exec[v]] \in {"running", "done"}
    BY <1>1, <1>2 DEF Placed, WorkerTypeOK
  <1>4. CASE UNCHANGED queue
    BY <1>1, <1>2, <1>3, <1>4 DEF Placed, Pends, InQueue, Tidy
  <1>5. CASE queue' = [queue EXCEPT ![w] = Append(@, j)] /\ fut' = [fut EXCEPT ![j] = "pending"]
    <2>1. /\ \A v \in Workers, x \in Jobs :
               InQueue(v, x)' <=> InQueue(v, x) \/ (v = w /\ x = j)
          /\ \A v \in Workers \ {w} : queue'[v] = queue[v]
          /\ \A i, k \in DOMAIN queue'[w] :
               queue'[w][i] = queue'[w][k] =>
                 i = k \/ InQueue(w, j) \/ (i \in DOMAIN queue[w] /\ k \in DOMAIN queue[w]
                                            /\ queue[w][i] = queue[w][k])
      BY <1>5, AppendQueue
    <2>2. \A v \in Workers, x \in Jobs : Pends(v, x)' <=> Pends(v, x) \/ (v = w /\ x = j)
      BY <1>1, <2>1 DEF Pends
    <2>3. fut'[j] = "pending"
      BY <1>5 DEF WorkerTypeOK
    <2>4. \A v \in Workers, x \in Jobs : Pends(v, x)' => fut'[x] = "pending"
      BY <1>1, <2>2, <2>3 DEF Placed
    <2>5. \A u, v \in Workers, x \in Jobs : Pends(u, x)' /\ Pends(v, x)' => u = v
      BY <1>2, <2>2 DEF Placed
    <2>6. \A v \in Workers : Tidy(v)'
      <3> SUFFICES ASSUME NEW v \in Workers PROVE Tidy(v)'
        OBVIOUS
      <3>1. Tidy(v) /\ hand[v] # j /\ j \notin drained[v] /\ ~InQueue(v, j)
        BY <1>2 DEF Placed, Pends
      <3>2. hand[v] \in Jobs \cup {None} /\ drained[v] \subseteq Jobs
        BY DEF WorkerTypeOK
      <3>3. \A x \in Jobs : x # j => (InQueue(v, x)' <=> InQueue(v, x))
        BY <2>1
      <3>4. hand[v] # None => exec[v] = None /\ ~InQueue(v, hand[v])' /\ hand[v] \notin drained[v]
        BY <1>1, <3>1, <3>2, <3>3 DEF Tidy
      <3>5. \A x \in drained[v] : ~InQueue(v, x)'
        BY <3>1, <3>2, <3>3 DEF Tidy
      <3>6. \A i, k \in DOMAIN queue'[v] : queue'[v][i] = queue'[v][k] => i = k
        BY <2>1, <3>1 DEF Tidy
      <3> QED BY <1>1, <3>4, <3>5, <3>6 DEF Tidy
    <2> QED BY <1>1, <1>3, <2>4, <2>5, <2>6 DEF Placed
  <1> QED BY <1>4, <1>5 DEF Submit

LEMMA TakePlaced ==
    ASSUME WorkerTypeOK, WorkerTypeOK', Placed, NEW w \in Workers, Take(w)
    PROVE  Placed'
  <1> DEFINE j == Head(queue[w])
  <1>1. /\ hand[w] = None /\ exec[w] = None /\ queue[w] # <<>> /\ hand' = [hand EXCEPT ![w] = j]
        /\ queue' = [queue EXCEPT ![w] = Tail(@)]
        /\ UNCHANGED <<exec, drained, fut>> /\ Tidy(w)
    BY DEF Take, Placed
  <1> HIDE DEF j
  <1>2. /\ j \in Jobs /\ InQueue(w, j) /\ \A k : k = j => ~InQueue(w, k)'
        /\ \A x \in Jobs : InQueue(w, x) <=> InQueue(w, x)' \/ x = j
        /\ \A v \in Workers \ {w} : queue'[v] = queue[v]
        /\ \A i, k \in DOMAIN queue'[w] : queue'[w][i] = queue'[w][k] => i = k
    BY <1>1, TailQueue DEF j
  <1>3. hand'[w] = j /\ \A v \in Workers \ {w} : hand'[v] = hand[v]
    BY <1>1 DEF WorkerTypeOK
  <1>4. \A v \in Workers, x \in Jobs : Pends(v, x)' => Pends(v, x) /\ fut'[x] = fut[x]
    BY <1>1, <1>2, <1>3 DEF Pends, InQueue
  <1>5. Tidy(w)'
    <2>1. drained[w] \subseteq Jobs /\ j \notin drained[w]
      BY <1>1, <1>2 DEF Tidy, WorkerTypeOK
    <2>2. \A x \in drained[w] : ~InQueue(w, x)'
      BY <1>1, <1>2, <2>1 DEF Tidy
    <2>3. ~InQueue(w, hand[w])'
      BY <1>2, <1>3
    <2> QED BY <1>1, <1>2, <1>3, <2>1, <2>2, <2>3 DEF Tidy
  <1> QED BY <1>1, <1>2, <1>3, <1>4, <1>5, PlacedParts DEF Placed

LEMMA BeginPlaced ==
    ASSUME WorkerTypeOK, WorkerTypeOK', Placed, NEW w \in Workers, Begin(w)
    PROVE  Placed'
  <1> DEFINE j == hand[w]
  <1>1. /\ j \in Jobs /\ j # None /\ hand' = [hand EXCEPT ![w] = None]
        /\ UNCHANGED <<queue, drained>>
        /\ Tidy(w) /\ Pends(w, j) /\ fut[j] = "pending"
    BY DEF Begin, WorkerTypeOK, Placed, Pends
  <1>2. /\ \A x \in Jobs \ {j} : fut'[x] = fut[x]
        /\ \A v \in Workers \ {w} : exec'[v] = exec[v]
        /\ exec'[w] = None \/ (exec'[w] = j /\ fut'[j] = "running")
    BY <1>1 DEF Begin, WorkerTypeOK, Tidy
  <1> HIDE DEF j
  <1>3. hand'[w] = None /\ \A v \in Workers \ {w} : hand'[v] = hand[v]
    BY <1>1 DEF WorkerTypeOK
  <1>4. \A v \in Workers, x \in Jobs : Pends(v, x)' => Pends(v, x) /\ fut'[x] = fut[x]
    <2> SUFFICES ASSUME NEW v \in Workers, NEW x \in Jobs, Pends(v, x)'
                 PROVE  Pends(v, x) /\ x # j
      BY <1>2
    <2>1. Pends(v, x)
      BY <1>1, <1>3, WorkerAssumption DEF Pends, InQueue
    <2>2. v = w => x # j
      BY <1>1, <1>3, WorkerAssumption DEF Pends, InQueue, Tidy, j
    <2>3. v # w => x # j
      BY <1>1, <2>1 DEF Placed
    <2> QED BY <2>1, <2>2, <2>3
  <1>5. Tidy(w)'
    BY <1>1, <1>3 DEF Tidy, InQueue
  <1>6. \A v \in Workers : exec[v] # None => exec[v] # j /\ exec[v] \in Jobs
    BY <1>1 DEF Placed, WorkerTypeOK
  <1> QED BY <1>1, <1>2, <1>3, <1>4, <1>5, <1>6, PlacedParts DEF Placed

LEMMA StopPlaced ==
    ASSUME WorkerTypeOK, WorkerTypeOK', Placed, NEW w \in Workers, Stop(w)
    PROVE  Placed'
  <1>1. /\ UNCHANGED <<hand, exec, fut>> /\ Tidy(w)
        /\ \A v \in Workers \ {w} : UNCHANGED <<queue[v], drained[v]>>
        /\ queue'[w] = <<>> /\ DOMAIN queue'[w] = {}
        /\ \A x : x \in drained'[w] <=> x \in drained[w] \/ InQueue(w, x)
    BY DEF Stop, WorkerTypeOK, Placed, InQueue
  <1>2. \A x \in Jobs : ~InQueue(w, x)' /\ ~InQueue(w, None)'
    BY <1>1 DEF InQueue
  <1>3. \A v \in Workers, x \in Jobs : Pends(v, x)' => Pends(v, x) /\ fut'[x] = fut[x]
    BY <1>1, <1>2 DEF Pends, InQueue
  <1>4. Tidy(w)'
    BY <1>1 DEF Tidy, InQueue
  <1> QED BY <1>1, <1>3, <1>4, PlacedParts DEF Placed

LEMMA CancelPlaced ==
    ASSUME WorkerTypeOK, WorkerTypeOK', Placed, NEW w \in Workers, CancelDrained(w)
    PROVE  Placed'
  <1>1. /\ UNCHANGED <<queue, hand, exec>> /\ Tidy(w)
        /\ \A v \in Workers \ {w} : drained'[v] = drained[v]
        /\ drained'[w] = {} /\ drained[w] \subseteq Jobs
        /\ \A x \in Jobs : fut'[x] = IF x \in drained[w] THEN "cancelled" ELSE fut[x]
    BY DEF CancelDrained, WorkerTypeOK, Placed
  <1>2. \A x \in drained[w] : Pends(w, x) /\ fut[x] = "pending"
    BY <1>1 DEF Pends, Placed
  <1>3. \A v \in Workers, x \in Jobs : Pends(v, x)' => Pends(v, x) /\ fut'[x] = fut[x]
    <2> SUFFICES ASSUME NEW v \in Workers, NEW x \in Jobs, Pends(v, x)'
                 PROVE  Pends(v, x) /\ x \notin drained[w]
      BY <1>1
    <2>1. Pends(v, x)
      BY <1>1 DEF Pends, InQueue
    <2>2. v = w => x \notin drained[w]
      BY <1>1, WorkerAssumption DEF Pends, InQueue, Tidy
    <2>3. v # w => x \notin drained[w]
      BY <1>2, <2>1 DEF Placed
    <2> QED BY <2>1, <2>2, <2>3
  <1>4. Tidy(w)'
    BY <1>1 DEF Tidy, InQueue
  <1>5. \A v \in Workers : exec[v] # None => fut'[exec[v]] \in {"running", "done"}
    <2> SUFFICES ASSUME NEW v \in Workers, exec[v] # None
                 PROVE  fut'[exec[v]] \in {"running", "done"}
      OBVIOUS
    <2>1. exec[v] \in Jobs /\ fut[exec[v]] \in {"running", "done"}
      BY DEF WorkerTypeOK, Placed
    <2>2. exec[v] \notin drained[w]
      BY <1>2, <2>1 DEF Placed
    <2> QED BY <1>1, <2>1, <2>2
  <1> QED BY <1>1, <1>3, <1>4, <1>5, PlacedParts DEF Placed

LEMMA SettlePlaced ==
    ASSUME WorkerTypeOK, WorkerTypeOK', Placed, NEW w \in Workers, Settle(w)
    PROVE  Placed'
  <1>1. /\ UNCHANGED <<queue, hand, exec, drained>> /\ Tidy(w)
        /\ exec[w] \in Jobs /\ fut[exec[w]] = "running"
        /\ \A x \in Jobs : fut'[x] = IF x = exec[w] THEN "done" ELSE fut[x]
    BY DEF Settle, WorkerTypeOK, Placed
  <1>2. \A v \in Workers, x \in Jobs : Pends(v, x)' => Pends(v, x) /\ fut'[x] = fut[x]
    BY <1>1 DEF Pends, InQueue, Placed
  <1>3. Tidy(w)'
    BY <1>1 DEF Tidy, InQueue
  <1>4. \A v \in Workers : exec[v] # None => exec[v] \in Jobs
    BY DEF WorkerTypeOK
  <1> QED BY <1>1, <1>2, <1>3, <1>4, PlacedParts DEF Placed

LEMMA ReleasePlaced ==
    ASSUME WorkerTypeOK, WorkerTypeOK', Placed, NEW w \in Workers, Release(w)
    PROVE  Placed'
  <1>1. /\ UNCHANGED <<queue, hand, drained, fut>> /\ Tidy(w)
        /\ exec'[w] = None /\ \A v \in Workers \ {w} : exec'[v] = exec[v]
    BY DEF Release, WorkerTypeOK, Placed
  <1>2. \A v \in Workers, x \in Jobs : Pends(v, x)' => Pends(v, x) /\ fut'[x] = fut[x]
    BY <1>1 DEF Pends, InQueue
  <1>3. Tidy(w)'
    BY <1>1 DEF Tidy, InQueue
  <1> QED BY <1>1, <1>2, <1>3, PlacedParts DEF Placed

LEMMA PlacedStep == ASSUME CountInv, Placed, [Next]_vars PROVE Placed'
  <1>1. WorkerTypeOK /\ WorkerTypeOK' /\ CallersOK
    BY CountStep DEF CountInv
  <1>2. CASE UNCHANGED <<queue, queued, hand, exec, running, halted, drained, fut>>
    BY <1>2 DEF Placed, Tidy, Pends, InQueue
  <1> QED
    BY <1>1, <1>2, WorkerCases, SubmitPlaced, StopPlaced, CancelPlaced, TakePlaced, BeginPlaced,
       SettlePlaced, ReleasePlaced

-----------------------------------------------------------------------------
(* The client.                                                             *)

FtpPcs == {"idle", "sweep", "sweeping", "want", "connect", "stor", "send", "closing", "size",
           "short", "clean"}

FtpRecords == [pc : FtpPcs, file : Copies \cup {NoOne}, sent : 0..Blocks,
               srv : {"none", "writing", "done"}, reply : Replies]

\* A step of a client goes on with its file, or ends with a result.  Done means that
\* the whole copy is there; short, that it is not; cancelled, that the event was seen.
GoesOn(c, cancelled) ==
    /\ ftp' = [ftp EXCEPT ![c] = ftp'[c]] /\ ftp'[c] \in FtpRecords
    /\ ftp'[c].pc # "idle" /\ ftp'[c].file = ftp[c].file
    /\ ftp'[c].pc = "clean" => ftp[c].pc = "clean" \/ cancelled
    /\ ftp'[c].pc = "short" => ~WholeOn(ftp[c].file)
    /\ UNCHANGED res

Finishes(c) ==
    \E how \in Results \ {"none"} :
        /\ Ends(c, how)
        /\ how = "ok" => WholeOn(ftp[c].file) /\ UNCHANGED card
        /\ how = "cancelled" => ftp[c].pc = "clean"

LEMMA ClientEffect ==
    ASSUME FtpsTypeOK, NEW c \in Callers, NEW cancelled, ClientStep(c, cancelled)
    PROVE  /\ ftp[c].pc # "idle"
           /\ GoesOn(c, cancelled) \/ Finishes(c)
  <1>0. /\ ftp \in [Callers -> FtpRecords] /\ ftp[c] \in FtpRecords /\ Blocks \in Nat
        /\ DOMAIN ftp = Callers
    BY FtpsAssumption DEF FtpsTypeOK, FtpRecords, FtpPcs
  <1>1. ASSUME NEW pc \in FtpPcs \ {"idle", "short"}, Goto(c, pc), UNCHANGED res,
               pc = "clean" => cancelled
        PROVE  GoesOn(c, cancelled)
    <2> DEFINE r == [ftp[c] EXCEPT !.pc = pc]
    <2>1. r \in FtpRecords /\ r.pc = pc /\ r.file = ftp[c].file
      BY <1>0 DEF FtpRecords
    <2> HIDE DEF r
    <2>2. ftp' = [ftp EXCEPT ![c] = r] /\ ftp'[c] = r
      BY <1>0, <1>1 DEF Goto, r
    <2> QED BY <1>1, <2>1, <2>2 DEF GoesOn
  <1>2. CASE SweepLocks(c) \/ SweepFails(c) \/ SweepDeletes(c) \/ Locks(c) \/ Connects(c)
             \/ SeesCancel(c, cancelled)
    <2>1. ftp[c].pc # "idle"
      BY <1>2 DEF SweepLocks, SweepFails, SweepDeletes, Locks, Connects, SeesCancel, At
    <2>2. UNCHANGED res
      BY <1>2 DEF SweepLocks, SweepFails, SweepDeletes, Locks, Connects, SeesCancel
    <2>3. \E pc \in {"want", "sweeping", "connect", "stor", "clean"} :
             Goto(c, pc) /\ (pc = "clean" => cancelled)
      BY <1>2 DEF SweepLocks, SweepFails, SweepDeletes, Locks, Connects, SeesCancel
    <2> QED BY <1>1, <2>1, <2>2, <2>3 DEF FtpPcs
  <1>3. CASE Opens(c)
    <2> DEFINE r == [ftp[c] EXCEPT !.pc = "send", !.srv = "writing"]
    <2>1. r \in FtpRecords /\ r.pc = "send" /\ r.file = ftp[c].file
      BY <1>0 DEF FtpRecords, FtpPcs
    <2>2. ftp' = [ftp EXCEPT ![c] = r]
      BY <1>0, <1>3 DEF Opens
    <2> HIDE DEF r
    <2>3. ftp'[c] = r
      BY <1>0, <2>2
    <2>4. ftp[c].pc # "idle" /\ UNCHANGED res
      BY <1>3 DEF Opens, At
    <2> QED BY <2>1, <2>2, <2>3, <2>4 DEF GoesOn
  <1>4. CASE Sends(c, cancelled)
    <2> DEFINE r == IF ftp[c].sent < Blocks THEN [ftp[c] EXCEPT !.sent = @ + 1]
                                            ELSE [ftp[c] EXCEPT !.pc = "closing"]
    <2>1. ftp[c].pc = "send" /\ UNCHANGED res
      BY <1>4 DEF Sends, At
    <2>2. r \in FtpRecords /\ r.pc \in {"send", "closing"} /\ r.file = ftp[c].file
      <3>1. CASE ftp[c].sent < Blocks
        <4>1. ftp[c].sent + 1 \in 0..Blocks
          BY <1>0, <3>1 DEF FtpRecords
        <4> QED BY <1>0, <2>1, <3>1, <4>1 DEF FtpRecords
      <3>2. CASE ~(ftp[c].sent < Blocks)
        BY <1>0, <3>2 DEF FtpRecords, FtpPcs
      <3> QED BY <3>1, <3>2
    <2>3. ftp' = [ftp EXCEPT ![c] = r]
      BY <1>0, <1>4 DEF Sends
    <2> HIDE DEF r
    <2>4. ftp'[c] = r
      BY <1>0, <2>3
    <2> QED BY <2>1, <2>2, <2>3, <2>4 DEF GoesOn
  <1>5. CASE AwaitsClosing(c)
    BY <1>0, <1>5 DEF AwaitsClosing, At, GoesOn, FtpRecords, FtpPcs, Replies
  <1>6. CASE ReadsSize(c)
    <2>1. CASE SizeRead(c)
      BY <1>6, <2>1 DEF ReadsSize, At, SizeRead, Finishes, Results
    <2>2. CASE ~SizeRead(c)
      BY <1>0, <1>6, <2>2 DEF ReadsSize, At, SizeRead, GoesOn, FtpRecords, FtpPcs
    <2> QED BY <2>1, <2>2
  <1>7. CASE TurnedAway(c) \/ Refused(c) \/ DropsShort(c) \/ DropsPartial(c)
    BY <1>7 DEF TurnedAway, Refused, DropsShort, DropsPartial, At, Finishes, Results
  <1>8. CASE Breaks(c)
    <2>1. ftp[c].pc # "idle"
      BY <1>8 DEF Breaks
    <2>2. \E how \in {"cancelled", "storage", "network"} :
             Ends(c, how) /\ (how = "cancelled" => ftp[c].pc = "clean")
      BY <1>8 DEF Breaks
    <2> QED BY <2>1, <2>2 DEF Finishes, Results
  <1> QED BY <1>2, <1>3, <1>4, <1>5, <1>6, <1>7, <1>8 DEF ClientStep

\* The ways the card changes.
LEMMA CardTyped ==
    ASSUME card \subseteq [file : Copies, whole : BOOLEAN], NEW f \in Copies
    PROVE  /\ Without(f) \subseteq [file : Copies, whole : BOOLEAN]
           /\ \A b \in BOOLEAN :
                {[file |-> f, whole |-> b]} \subseteq [file : Copies, whole : BOOLEAN]
  <1>1. Without(f) \subseteq card
    BY DEF Without
  <1>2. \A b \in BOOLEAN : [file |-> f, whole |-> b] \in [file : Copies, whole : BOOLEAN]
    OBVIOUS
  <1> QED BY <1>1, <1>2

LEMMA ClientTyped ==
    ASSUME FtpsTypeOK, NEW c \in Callers, NEW cancelled, ClientStep(c, cancelled),
           ftp[c].file \in Copies
    PROVE  FtpsTypeOK'
  <1>0. /\ ftp \in [Callers -> FtpRecords] /\ res \in [Copies -> Results]
        /\ card \subseteq [file : Copies, whole : BOOLEAN]
        /\ MaxFaults \in Nat /\ CoolOff \in Nat
    BY FtpsAssumption DEF FtpsTypeOK, FtpRecords, FtpPcs
  <1>1. ftp' \in [Callers -> FtpRecords] /\ res' \in [Copies -> Results]
    <2>1. CASE GoesOn(c, cancelled)
      BY <1>0, <2>1 DEF GoesOn
    <2>2. CASE Finishes(c)
      <3>1. Idle \in FtpRecords
        BY FtpsAssumption DEF Idle, FtpRecords, FtpPcs, Replies
      <3> QED BY <1>0, <2>2, <3>1 DEF Finishes, Ends
    <2> QED BY <2>1, <2>2, ClientEffect
  <1>2. host' \in Callers \cup {NoOne}
    BY DEF FtpsTypeOK, ClientStep, SweepLocks, SweepFails, SweepDeletes, TurnedAway, Locks,
           Refused, Connects, Opens, Sends, SeesCancel, AwaitsClosing, ReadsSize, DropsShort,
           DropsPartial, Breaks, Ends
  <1>3. cool' \in 0..CoolOff /\ since' \in 0..CoolOff
    <2>1. Armed \/ UNCHANGED <<cool, since>>
      BY DEF ClientStep, SweepLocks, SweepFails, SweepDeletes, TurnedAway, Locks, Refused,
             Connects, Opens, Sends, SeesCancel, AwaitsClosing, ReadsSize, DropsShort,
             DropsPartial, Breaks
    <2> QED BY <1>0, <2>1 DEF Armed, FtpsTypeOK
  <1>4. sweepWait' \in BOOLEAN
    BY DEF FtpsTypeOK, ClientStep, SweepLocks, SweepFails, SweepDeletes, TurnedAway, Locks,
           Refused, Connects, Opens, Sends, SeesCancel, AwaitsClosing, ReadsSize, DropsShort,
           DropsPartial, Breaks
  <1>5. card' \subseteq [file : Copies, whole : BOOLEAN]
    <2>1. \/ UNCHANGED card \/ card' = {} \/ card' \in SUBSET card \/ card' = Without(ftp[c].file)
          \/ card' = card \cup {[file |-> ftp[c].file, whole |-> FALSE]}
          \/ card' = Without(ftp[c].file) \cup {[file |-> ftp[c].file, whole |-> TRUE]}
      BY DEF ClientStep, SweepLocks, SweepFails, SweepDeletes, TurnedAway, Locks, Refused,
             Connects, Opens, Sends, SeesCancel, AwaitsClosing, ReadsSize, DropsShort,
             DropsPartial, Breaks
    <2> QED BY <1>0, <2>1, CardTyped
  <1>6. ftpsFaults' \in 0..MaxFaults
    <2>1. UNCHANGED ftpsFaults \/ (ftpsFaults < MaxFaults /\ ftpsFaults' = ftpsFaults + 1)
      BY DEF ClientStep, SweepLocks, SweepFails, SweepDeletes, TurnedAway, Locks, Refused,
             Connects, Opens, Sends, SeesCancel, AwaitsClosing, ReadsSize, DropsShort,
             DropsPartial, Breaks
    <2> QED BY <1>0, <2>1 DEF FtpsTypeOK
  <1> QED BY <1>1, <1>2, <1>3, <1>4, <1>5, <1>6 DEF FtpsTypeOK, FtpRecords, FtpPcs

LEMMA StartsTyped ==
    ASSUME FtpsTypeOK, NEW c \in Callers, NEW f \in Copies, Starts(c, f)
    PROVE  /\ FtpsTypeOK'
           /\ ftp' = [ftp EXCEPT ![c] = ftp'[c]]
           /\ ftp[c].pc = "idle" /\ ftp'[c].pc \in {"want", "sweep"} /\ ftp'[c].file = f
  <1> DEFINE at == IF sweepWait THEN "want" ELSE "sweep"
             r == [Idle EXCEPT !.pc = at, !.file = f]
  <1>1. r \in FtpRecords /\ r.pc \in {"want", "sweep"} /\ r.file = f
    <2>1. at \in FtpPcs /\ at \in {"want", "sweep"}
      BY DEF FtpPcs
    <2>2. Idle \in FtpRecords
      BY FtpsAssumption DEF Idle, FtpRecords, FtpPcs, Replies
    <2>3. \A s \in FtpRecords, x \in FtpPcs :
             LET t == [s EXCEPT !.pc = x, !.file = f]
             IN  t \in FtpRecords /\ t.pc = x /\ t.file = f
      BY DEF FtpRecords
    <2> HIDE DEF at
    <2> QED BY <2>1, <2>2, <2>3
  <1>2. ftp' = [ftp EXCEPT ![c] = r] /\ ftp[c].pc = "idle"
    BY DEF Starts, At
  <1> HIDE DEF r
  <1>3. ftp'[c] = r /\ ftp' \in [Callers -> FtpRecords]
    BY <1>1, <1>2 DEF FtpsTypeOK, FtpRecords, FtpPcs
  <1>4. FtpsTypeOK'
    BY <1>3 DEF Starts, FtpsTypeOK, FtpRecords, FtpPcs
  <1> QED BY <1>1, <1>2, <1>3, <1>4

\* The printer leaves the client where it is.
LEMMA WritesTyped ==
    ASSUME FtpsTypeOK, NEW c \in Callers, PrinterWrites(c), ftp[c].file \in Copies
    PROVE  /\ FtpsTypeOK'
           /\ ftp' = [ftp EXCEPT ![c] = ftp'[c]]
           /\ ftp'[c].pc = ftp[c].pc /\ ftp'[c].file = ftp[c].file
  <1>1. PICK w \in BOOLEAN, x \in Replies :
           /\ card' = IF w THEN Without(ftp[c].file) \cup {[file |-> ftp[c].file, whole |-> TRUE]}
                           ELSE card
           /\ ftp' = [ftp EXCEPT ![c].srv = "done", ![c].reply = x]
    BY DEF PrinterWrites
  <1> DEFINE r == [ftp[c] EXCEPT !.srv = "done", !.reply = x]
  <1>2. r \in FtpRecords /\ r.pc = ftp[c].pc /\ r.file = ftp[c].file
    BY DEF FtpsTypeOK, FtpRecords, FtpPcs
  <1>3. ftp' = [ftp EXCEPT ![c] = r]
    BY <1>1 DEF FtpsTypeOK
  <1> HIDE DEF r
  <1>4. ftp'[c] = r /\ ftp' \in [Callers -> FtpRecords]
    BY <1>2, <1>3 DEF FtpsTypeOK, FtpRecords, FtpPcs
  <1>5. card' \subseteq [file : Copies, whole : BOOLEAN]
    <2>1. card' = card \/ card' = Without(ftp[c].file) \cup {[file |-> ftp[c].file, whole |-> TRUE]}
      BY <1>1
    <2> QED BY <2>1, CardTyped DEF FtpsTypeOK
  <1>6. FtpsTypeOK'
    BY <1>4, <1>5 DEF PrinterWrites, FtpsTypeOK, FtpRecords, FtpPcs
  <1> QED BY <1>2, <1>3, <1>4, <1>6

-----------------------------------------------------------------------------
(* The job of a thread.                                                    *)

\* A thread uploads for the job it runs, that job has no verdict while the client is
\* at work, and had none before.
Working(w) ==
    /\ up[w].pc # "idle" => exec[w] # None /\ fut[exec[w]] = "running" /\ up[w].w # None
    /\ ftp[w].pc # "idle" => up[w].pc = "send" /\ ftp[w].file = exec[w] /\ res[exec[w]] = "none"
    /\ ftp[w].pc = "idle" => ftp[w] = Idle
    /\ exec[w] # None /\ fut[exec[w]] = "running" /\ up[w].pc \in {"idle", "flag"}
         => res[exec[w]] = "none"

Untold == \A j \in Jobs : fut[j] \in {"new", "pending"} => res[j] = "none"

WorkInv == TypeOK /\ CountInv /\ Placed /\ Untold /\ \A w \in Workers : Working(w)

\* What everybody may use of it.
LEMMA WorkFacts ==
    ASSUME WorkInv, NEW w \in Workers
    PROVE  /\ w \in Callers /\ Working(w) /\ FtpsTypeOK /\ WorkerTypeOK /\ Placed
           /\ exec[w] \in Jobs \cup {None} /\ None \notin Jobs
           /\ exec[w] # None => exec[w] \in Jobs /\ exec[w] \in Copies
           /\ ftp[w].pc # "idle" => ftp[w].file \in Copies /\ exec[w] # None
           /\ ftp[w].srv = "writing" => ftp[w].pc # "idle"
           /\ up[w].pc # "idle" => exec[w] \in Jobs /\ up[w].w \in Workers
           /\ \A v \in Workers \ {w} : exec[w] # None => exec[v] # exec[w]
  <1>1. /\ Working(w) /\ FtpsTypeOK /\ WorkerTypeOK /\ Placed /\ w \in Callers
        /\ up[w].w \in Workers \cup {None} /\ Copies = Jobs
    BY UploadAssumption DEF WorkInv, TypeOK
  <1>2. exec[w] \in Jobs \cup {None} /\ None \notin Jobs
    BY <1>1, WorkerAssumption DEF WorkerTypeOK
  <1>3. /\ ftp[w].pc # "idle" => ftp[w].file \in Copies /\ exec[w] # None
        /\ ftp[w].srv = "writing" => ftp[w].pc # "idle"
        /\ up[w].pc # "idle" => exec[w] \in Jobs /\ up[w].w \in Workers
    BY <1>1, <1>2 DEF Working, Idle
  <1>4. \A v \in Workers \ {w} : exec[w] # None => exec[v] # exec[w]
    BY <1>1 DEF Placed
  <1> QED BY <1>1, <1>2, <1>3, <1>4

LEMMA WorkingStays ==
    ASSUME WorkInv, NEW v \in Workers, UNCHANGED <<up[v], ftp[v], exec[v]>>,
           exec[v] # None => fut'[exec[v]] = fut[exec[v]] /\ res'[exec[v]] = res[exec[v]]
    PROVE  Working(v)'
  BY DEF WorkInv, Working, Idle

\* The futures of the jobs in the threads are left alone by the others.
LEMMA FutureStays ==
    ASSUME WorkInv, NEW v \in Workers, exec[v] # None
    PROVE  /\ fut[exec[v]] \in {"running", "done"}
           /\ \A w \in Workers : (\E j \in Jobs : Submit(w, j)) \/ CancelDrained(w) \/ Begin(w)
                => fut'[exec[v]] = fut[exec[v]]
           /\ \A w \in Workers \ {v} : Settle(w) => fut'[exec[v]] = fut[exec[v]]
  <1>1. exec[v] \in Jobs /\ fut[exec[v]] \in {"running", "done"} /\ WorkerTypeOK /\ Placed
    BY WorkFacts DEF Placed
  <1>2. ASSUME NEW w \in Workers, NEW j \in Jobs, Submit(w, j) PROVE fut'[exec[v]] = fut[exec[v]]
    BY <1>1, <1>2 DEF Submit, WorkerTypeOK
  <1>3. ASSUME NEW w \in Workers, CancelDrained(w) PROVE fut'[exec[v]] = fut[exec[v]]
    <2>1. exec[v] \notin drained[w]
      BY <1>1 DEF Placed, Pends
    <2> QED BY <1>1, <1>3, <2>1 DEF CancelDrained
  <1>4. ASSUME NEW w \in Workers, Begin(w) PROVE fut'[exec[v]] = fut[exec[v]]
    <2>1. exec[v] # hand[w]
      BY <1>1 DEF Placed, Pends
    <2> QED BY <1>1, <1>4, <2>1 DEF Begin, WorkerTypeOK
  <1>5. ASSUME NEW w \in Workers \ {v}, Settle(w) PROVE fut'[exec[v]] = fut[exec[v]]
    <2>1. exec[v] # exec[w]
      BY <1>1, WorkFacts
    <2> QED BY <1>1, <1>5, <2>1 DEF Settle, WorkerTypeOK
  <1> QED BY <1>1, <1>2, <1>3, <1>4, <1>5

\* Between two jobs the upload is over.
LEMMA TurnWorks ==
    ASSUME WorkInv, NEW w \in Workers, NEW v \in Workers, ThreadTurns(w)
    PROVE  Working(v)'
  <1>0. UNCHANGED <<up, ftp, res>>
    BY DEF ThreadTurns, ftpsVars, pathVars
  <1>1. CASE Take(w) \/ CancelDrained(w)
    <2>1. exec' = exec /\ (exec[v] # None => fut'[exec[v]] = fut[exec[v]])
      BY <1>1, FutureStays DEF Take, CancelDrained
    <2> QED BY <1>0, <2>1, WorkingStays
  <1>2. CASE Begin(w) /\ v # w
    <2>1. exec'[v] = exec[v]
      BY <1>2, WorkFacts DEF Begin, WorkerTypeOK
    <2> QED BY <1>0, <1>2, <2>1, FutureStays, WorkingStays
  <1>3. CASE Begin(w) /\ v = w
    <2>1. hand[w] \in Jobs /\ exec[w] = None /\ fut[hand[w]] = "pending"
      BY <1>3, WorkFacts DEF Begin, WorkerTypeOK, Placed, Tidy, Pends
    <2>2. up[w].pc = "idle" /\ ftp[w].pc = "idle" /\ ftp[w] = Idle /\ res[hand[w]] = "none"
      BY <2>1, WorkFacts DEF Working, WorkInv, Untold
    <2>3. exec'[w] = None \/ exec'[w] = hand[w]
      BY <1>3, <2>1, WorkFacts DEF Begin, WorkerTypeOK
    <2> QED BY <1>0, <1>3, <2>2, <2>3 DEF Working, Idle
  <1>4. CASE Release(w) /\ v # w
    <2>1. exec'[v] = exec[v] /\ fut' = fut
      BY <1>4, WorkFacts DEF Release, WorkerTypeOK
    <2> QED BY <1>0, <2>1, WorkingStays
  <1>5. CASE Release(w) /\ v = w
    <2>1. exec'[w] = None /\ up[w].pc = "idle" /\ ftp[w].pc = "idle" /\ ftp[w] = Idle
      BY <1>5, WorkFacts DEF Release, WorkerTypeOK, Working
    <2> QED BY <1>0, <1>5, <2>1 DEF Working, Idle
  <1> QED BY <1>1, <1>2, <1>3, <1>4, <1>5 DEF ThreadTurns

\* The steps of an upload.
LEMMA UploadWorks ==
    ASSUME WorkInv, NEW w \in Workers, NEW v \in Workers,
           \/ UploadBegins(w) \/ UploadFlags(w) \/ UploadChecks(w) \/ UploadClears(w)
           \/ JobEnds(w)
    PROVE  Working(v)'
  <1>0. up \in [Workers -> [pc : {"idle", "flag", "send", "clear", "done"},
                            w : Workers \cup {None}]]
    BY DEF WorkInv, TypeOK
  <1>1. UNCHANGED <<exec, res>>
    BY DEF UploadBegins, UploadFlags, UploadChecks, UploadClears, JobEnds, Settle, Starts, ftpsVars,
           workerVars
  <1>2. CASE v # w
    <2>1. up'[v] = up[v]
      BY <1>0, <1>2 DEF UploadBegins, UploadFlags, UploadChecks, UploadClears, JobEnds
    <2>2. ftp'[v] = ftp[v]
      BY <1>2, StartsTyped, WorkFacts
      DEF UploadBegins, UploadFlags, UploadChecks, UploadClears, JobEnds, ftpsVars, Starts,
          FtpsTypeOK
    <2>3. exec[v] # None => fut'[exec[v]] = fut[exec[v]]
      BY <1>2, FutureStays
      DEF UploadBegins, UploadFlags, UploadChecks, UploadClears, JobEnds, workerVars
    <2> QED BY <1>1, <2>1, <2>2, <2>3, WorkingStays
  <1>3. CASE v = w /\ UploadBegins(w)
    <2>1. exec[w] # None /\ fut[exec[w]] = "running" /\ up[w].pc = "idle" /\ UNCHANGED ftp
      BY <1>3 DEF UploadBegins, ftpsVars
    <2>2. ftp[w] = Idle /\ res[exec[w]] = "none"
      BY <2>1, WorkFacts DEF Working
    <2>3. CASE worker = None
      <3>1. up' = up /\ fut'[exec[w]] = "done"
        BY <1>3, <2>3, WorkFacts DEF UploadBegins, Settle, WorkerTypeOK
      <3> QED BY <1>1, <1>3, <2>1, <2>2, <3>1 DEF Working, Idle
    <2>4. CASE worker # None
      <3>1. up'[w] = [pc |-> "flag", w |-> worker] /\ fut' = fut
        BY <1>0, <1>3, <2>4 DEF UploadBegins, workerVars
      <3> QED BY <1>1, <1>3, <2>1, <2>2, <2>4, <3>1 DEF Working, Idle
    <2> QED BY <2>3, <2>4
  <1>4. CASE v = w /\ UploadFlags(w)
    <2>1. /\ up[w].pc = "flag" /\ fut' = fut /\ exec[w] \in Copies
          /\ up'[w].pc = "send" /\ up'[w].w = up[w].w
      BY <1>0, <1>4, WorkFacts DEF UploadFlags, workerVars
    <2>2. ftp'[w].pc \in {"want", "sweep"} /\ ftp'[w].file = exec[w]
      BY <1>4, <2>1, WorkFacts, StartsTyped DEF UploadFlags
    <2> QED BY <1>1, <1>4, <2>1, <2>2, WorkFacts DEF Working
  <1>5. CASE v = w /\ (UploadChecks(w) \/ UploadClears(w))
    <2>1. /\ UNCHANGED <<ftp, fut>> /\ up'[w].pc \in {"done", "clear"} /\ up'[w].w = up[w].w
          /\ up[w].pc \in {"clear", "send"} /\ (up[w].pc = "send" => res[exec[w]] # "none")
      BY <1>0, <1>5 DEF UploadChecks, UploadClears, workerVars, ftpsVars
    <2>2. ftp[w].pc = "idle" /\ ftp[w] = Idle
      BY <2>1, WorkFacts DEF Working
    <2> QED BY <1>1, <1>5, <2>1, <2>2, WorkFacts DEF Working, Idle
  <1>6. CASE v = w /\ JobEnds(w)
    <2>1. up'[w] = NoUp /\ up[w].pc = "done" /\ UNCHANGED ftp
      BY <1>0, <1>6 DEF JobEnds, ftpsVars
    <2>2. fut'[exec[w]] = "done"
      BY <1>6, <2>1, WorkFacts DEF JobEnds, Settle, WorkerTypeOK
    <2>3. ftp[w].pc = "idle" /\ ftp[w] = Idle
      BY <2>1, WorkFacts DEF Working
    <2> QED BY <1>1, <1>6, <2>1, <2>2, <2>3 DEF Working, NoUp, Idle
  <1> QED BY <1>2, <1>3, <1>4, <1>5, <1>6

LEMMA TransferWorks ==
    ASSUME WorkInv, NEW w \in Workers, NEW v \in Workers, Transfers(w)
    PROVE  /\ Working(v)'
           /\ ftp[w].file = exec[w] /\ exec[w] \in Copies /\ res[exec[w]] = "none"
           /\ up[w].pc = "send" /\ FtpsTypeOK'
           /\ GoesOn(w, cancel[up[w].w]) \/ Finishes(w)
           /\ \A j \in Jobs \ {exec[w]} : res'[j] = res[j]
  <1> DEFINE cancelled == cancel[up[w].w]
  <1>1. ClientStep(w, cancelled) /\ UNCHANGED <<up, exec, fut>>
    BY DEF Transfers, workerVars, pathVars
  <1> HIDE DEF cancelled
  <1>2. ftp[w].pc # "idle" /\ (GoesOn(w, cancelled) \/ Finishes(w))
    BY <1>1, WorkFacts, ClientEffect
  <1>3. /\ ftp[w].file = exec[w] /\ exec[w] \in Copies /\ res[exec[w]] = "none"
        /\ up[w].pc = "send" /\ exec[w] # None /\ fut[exec[w]] = "running" /\ up[w].w # None
    BY <1>2, WorkFacts DEF Working
  <1>4. FtpsTypeOK'
    BY <1>1, <1>3, WorkFacts, ClientTyped
  <1>5. /\ \A u \in Workers \ {w} : ftp'[u] = ftp[u]
        /\ \A j \in Jobs \ {exec[w]} : res'[j] = res[j]
    BY <1>2, <1>3, WorkFacts, UploadAssumption DEF GoesOn, Finishes, Ends, FtpsTypeOK
  <1>6. CASE v # w
    <2>1. exec[v] # None => exec[v] \in Jobs \ {exec[w]}
      BY <1>6, WorkFacts
    <2> QED BY <1>1, <1>2, <1>3, <1>4, <1>5, <1>6, <2>1, WorkingStays DEF cancelled
  <1>7. CASE v = w /\ GoesOn(w, cancelled)
    BY <1>1, <1>2, <1>3, <1>4, <1>5, <1>7, WorkFacts DEF GoesOn, Working, cancelled
  <1>8. CASE v = w /\ Finishes(w)
    <2>1. ftp'[w] = Idle
      BY <1>8, WorkFacts DEF Finishes, Ends, FtpsTypeOK
    <2>2. Working(w)'
      BY <1>1, <1>3, <2>1 DEF Working, Idle
    <2> QED BY <1>2, <1>3, <1>4, <1>5, <1>8, <2>2 DEF cancelled
  <1> QED BY <1>2, <1>6, <1>7, <1>8

LEMMA PrinterTyped ==
    ASSUME WorkInv, Printer
    PROVE  FtpsTypeOK' /\ UNCHANGED <<up, exec, fut, res>>
  <1>0. FtpsTypeOK
    BY DEF WorkInv, TypeOK
  <1>1. UNCHANGED <<up, exec, fut, res>>
    BY DEF Printer, workerVars, pathVars, FtpsEnv, HourPasses, Tick, PrinterWrites
  <1>2. CASE HourPasses
    <2>1. UNCHANGED <<ftp, host, cool, since, card, res, ftpsFaults>> /\ sweepWait' \in BOOLEAN
      BY <1>2 DEF HourPasses
    <2> QED BY <1>0, <1>1, <2>1 DEF FtpsTypeOK
  <1>3. CASE Tick
    <2>1. cool \in 0..CoolOff /\ since \in 0..CoolOff /\ CoolOff \in Nat
      BY <1>0, FtpsAssumption DEF FtpsTypeOK
    <2>2. cool' \in 0..CoolOff
      BY <1>3, <2>1 DEF Tick
    <2>3. since' \in 0..CoolOff
      BY <1>3, <2>1 DEF Tick
    <2>4. UNCHANGED <<ftp, host, sweepWait, card, res, ftpsFaults>>
      BY <1>3 DEF Tick
    <2> QED BY <1>0, <1>1, <2>2, <2>3, <2>4 DEF FtpsTypeOK
  <1>4. ASSUME NEW c \in Callers, PrinterWrites(c) PROVE FtpsTypeOK'
    <2>1. c \in Workers /\ ftp[c].srv = "writing"
      BY <1>4, UploadAssumption DEF PrinterWrites
    <2>2. ftp[c].file \in Copies
      BY <2>1, WorkFacts
    <2> QED BY <1>0, <1>4, <2>2, WritesTyped
  <1> QED BY <1>1, <1>2, <1>3, <1>4 DEF Printer, FtpsEnv

LEMMA PrinterWorks ==
    ASSUME WorkInv, NEW v \in Workers, Printer
    PROVE  /\ Working(v)' /\ ftp'[v].pc = ftp[v].pc /\ ftp'[v].file = ftp[v].file
  <1>1. UNCHANGED <<up, exec, fut, res>>
    BY PrinterTyped
  <1>2. CASE HourPasses \/ Tick
    <2>1. UNCHANGED ftp
      BY <1>2 DEF HourPasses, Tick
    <2> QED BY <1>1, <2>1, WorkingStays
  <1>3. ASSUME NEW c \in Callers, PrinterWrites(c)
        PROVE  Working(v)' /\ ftp'[v].pc = ftp[v].pc /\ ftp'[v].file = ftp[v].file
    <2>1. c \in Workers /\ ftp[c].srv = "writing"
      BY <1>3, UploadAssumption DEF PrinterWrites
    <2>2. ftp[c].file \in Copies /\ ftp[c].pc # "idle" /\ Working(c) /\ FtpsTypeOK
      BY <2>1, WorkFacts
    <2>3. /\ ftp' = [ftp EXCEPT ![c] = ftp'[c]]
          /\ ftp'[c].pc = ftp[c].pc /\ ftp'[c].file = ftp[c].file
      BY <1>3, <2>2, WritesTyped
    <2>4. CASE v = c
      BY <1>1, <2>2, <2>3, <2>4 DEF Working
    <2>5. CASE v # c
      <3>1. ftp'[v] = ftp[v]
        BY <2>2, <2>3, <2>5, WorkFacts DEF FtpsTypeOK
      <3> QED BY <1>1, <2>3, <3>1, WorkingStays
    <2> QED BY <2>4, <2>5
  <1> QED BY <1>1, <1>2, <1>3 DEF Printer, FtpsEnv

\* The steps that belong to no thread and not to the printer.
Outside ==
    \/ AddPrinter \/ RemovePrinter \/ RemoveStops \/ SubmitPuts \/ StopControl
    \/ \E j \in Jobs : SubmitReads(j)
    \/ UNCHANGED vars

LEMMA OutsideWorks ==
    ASSUME WorkInv, NEW v \in Workers, Outside
    PROVE  /\ Working(v)' /\ UNCHANGED <<exec, up, ftpsVars>>
           /\ exec[v] # None => fut'[exec[v]] = fut[exec[v]]
  <1>1. UNCHANGED <<exec, up, ftpsVars>>
    BY DEF Outside, AddPrinter, RemovePrinter, RemoveStops, SubmitPuts, StopControl, SubmitReads,
           vars, workerVars, pathVars, Stop, Submit
  <1>2. CASE SubmitPuts
    <2>1. \E w \in Workers, j \in Jobs : Submit(w, j)
      BY <1>2 DEF WorkInv, CountInv, CallersOK, SubOK, SubmitPuts
    <2> QED BY <1>1, <2>1, FutureStays, WorkingStays DEF ftpsVars
  <1>3. CASE ~SubmitPuts
    <2>1. UNCHANGED fut
      BY <1>3 DEF Outside, AddPrinter, RemovePrinter, RemoveStops, StopControl, SubmitReads,
                  vars, workerVars, Stop
    <2> QED BY <1>1, <2>1, WorkingStays DEF ftpsVars
  <1> QED BY <1>2, <1>3

\* Every step is one of these.
LEMMA StepKinds ==
    ASSUME [Next]_vars
    PROVE  \/ Outside \/ Printer
           \/ \E w \in Workers :
                \/ ThreadTurns(w) \/ Transfers(w)
                \/ UploadBegins(w) \/ UploadFlags(w) \/ UploadChecks(w) \/ UploadClears(w)
                \/ JobEnds(w)
  BY DEF Next, Outside, ThreadRuns

LEMMA WorkingStep ==
    ASSUME WorkInv, [Next]_vars
    PROVE  \A v \in Workers : Working(v)'
  BY StepKinds, TurnWorks, UploadWorks, TransferWorks, PrinterWorks, OutsideWorks

LEMMA UntoldStep ==
    ASSUME WorkInv, [Next]_vars
    PROVE  Untold'
  <1>1. ASSUME NEW j \in Jobs, fut'[j] \in {"new", "pending"}
        PROVE  fut[j] \in {"new", "pending"}
    <2>1. CallersOK /\ WorkerTypeOK
      BY DEF WorkInv, CountInv
    <2>2. ASSUME NEW w \in Workers, NEW i \in Jobs, Submit(w, i)
          PROVE  fut[j] \in {"new", "pending"}
      BY <1>1, <2>1, <2>2 DEF Submit, WorkerTypeOK
    <2>3. ASSUME NEW w \in Workers, Begin(w) \/ Settle(w) PROVE fut[j] \in {"new", "pending"}
      BY <1>1, <2>1, <2>3 DEF Begin, Settle, WorkerTypeOK
    <2>4. ASSUME NEW w \in Workers, Stop(w) \/ CancelDrained(w) \/ Take(w) \/ Release(w)
          PROVE  fut[j] \in {"new", "pending"}
      BY <1>1, <2>1, <2>4 DEF Stop, CancelDrained, Take, Release
    <2> QED BY <1>1, <2>1, <2>2, <2>3, <2>4, WorkerCases
  <1>2. ASSUME NEW j \in Jobs, fut[j] \in {"new", "pending"} PROVE res'[j] = res[j]
    <2>1. ASSUME NEW w \in Workers, Transfers(w) PROVE res'[j] = res[j]
      <3>1. up[w].pc = "send" /\ \A i \in Jobs \ {exec[w]} : res'[i] = res[i]
        BY <2>1, TransferWorks
      <3>2. fut[exec[w]] = "running"
        BY <3>1, WorkFacts DEF Working
      <3> QED BY <1>2, <3>1, <3>2
    <2>2. ASSUME NEW w \in Workers,
                 \/ UploadBegins(w) \/ UploadFlags(w) \/ UploadChecks(w) \/ UploadClears(w)
                 \/ JobEnds(w) \/ ThreadTurns(w)
          PROVE  UNCHANGED res
      BY <2>2 DEF UploadBegins, UploadFlags, UploadChecks, UploadClears, JobEnds, ThreadTurns,
                  Starts, ftpsVars
    <2>3. ASSUME Outside PROVE UNCHANGED res
      BY <2>3 DEF Outside, AddPrinter, RemovePrinter, RemoveStops, SubmitPuts, StopControl,
                  SubmitReads, vars, ftpsVars
    <2>4. ASSUME Printer PROVE UNCHANGED res
      BY <2>4 DEF Printer, FtpsEnv, HourPasses, Tick, PrinterWrites
    <2> QED BY <2>1, <2>2, <2>3, <2>4, StepKinds
  <1> QED BY <1>1, <1>2 DEF WorkInv, Untold

\* The variables of the path itself.
UpRecords == [pc : {"idle", "flag", "send", "clear", "done"}, w : Workers \cup {None}]

PathTypeOK ==
    /\ worker \in Workers \cup {None} /\ stopping \in Workers \cup {None}
    /\ spent \subseteq Workers
    /\ sub \in [job : Jobs \cup {None}, w : Workers \cup {None}]
    /\ uploads \in BOOLEAN /\ up \in [Workers -> UpRecords]
    /\ due \subseteq Jobs /\ started \subseteq [job : Jobs, whole : BOOLEAN]
    /\ mixed \in BOOLEAN /\ stops \in 0..MaxStops

LEMMA TypeParts == TypeOK <=> WorkerTypeOK /\ FtpsTypeOK /\ PathTypeOK
  BY DEF TypeOK, PathTypeOK, UpRecords

LEMMA PathTypedOutside ==
    ASSUME WorkInv, Outside
    PROVE  PathTypeOK'
  <1>0. PathTypeOK /\ WorkerTypeOK
    BY TypeParts DEF WorkInv
  <1>1. CASE AddPrinter
    BY <1>0, <1>1 DEF AddPrinter, PathTypeOK
  <1>2. CASE RemovePrinter
    BY <1>0, <1>2 DEF RemovePrinter, PathTypeOK
  <1>3. CASE RemoveStops
    <2>1. stopping \in Workers
      BY <1>0, <1>3 DEF RemoveStops, PathTypeOK
    <2>2. Of(stopping) \subseteq Jobs
      <3>1. queue[stopping] \in Seq(Jobs) /\ hand[stopping] \in Jobs \cup {None}
            /\ exec[stopping] \in Jobs \cup {None}
        BY <1>0, <2>1 DEF WorkerTypeOK
      <3>2. {queue[stopping][i] : i \in DOMAIN queue[stopping]} \subseteq Jobs
        BY <3>1
      <3> QED BY <3>1, <3>2 DEF Of, Waiting
    <2> QED BY <1>0, <1>3, <2>2 DEF RemoveStops, PathTypeOK
  <1>4. CASE SubmitPuts
    BY <1>0, <1>4 DEF SubmitPuts, PathTypeOK, NoSub
  <1>5. CASE StopControl
    <2>1. {exec[w] : w \in {v \in Workers : up[v].pc \in {"flag", "send"}}} \subseteq Jobs
      BY WorkFacts
    <2>2. stops' \in 0..MaxStops
      BY <1>0, <1>5, UploadAssumption DEF StopControl, PathTypeOK
    <2> QED BY <1>0, <1>5, <2>1, <2>2 DEF StopControl, PathTypeOK
  <1>6. ASSUME NEW j \in Jobs, SubmitReads(j) PROVE PathTypeOK'
    BY <1>0, <1>6 DEF SubmitReads, PathTypeOK
  <1>7. CASE UNCHANGED vars
    BY <1>0, <1>7 DEF vars, pathVars, PathTypeOK
  <1> QED BY <1>1, <1>2, <1>3, <1>4, <1>5, <1>6, <1>7 DEF Outside

LEMMA PathTypedUpload ==
    ASSUME WorkInv, NEW w \in Workers,
           \/ UploadBegins(w) \/ UploadFlags(w) \/ UploadChecks(w) \/ UploadClears(w)
           \/ JobEnds(w)
    PROVE  PathTypeOK'
  <1>0. PathTypeOK
    BY TypeParts DEF WorkInv
  <1>1. UNCHANGED <<worker, stopping, spent, sub, due, mixed, stops>>
    BY DEF UploadBegins, UploadFlags, UploadChecks, UploadClears, JobEnds
  <1>2. uploads' \in BOOLEAN
    BY <1>0 DEF PathTypeOK, UploadBegins, UploadFlags, UploadChecks, UploadClears, JobEnds
  <1>3. up' \in [Workers -> UpRecords]
    <2>1. \A x \in {"send", "done", "clear"} : [up[w] EXCEPT !.pc = x] \in UpRecords
      BY <1>0 DEF PathTypeOK, UpRecords
    <2>2. CASE UploadBegins(w)
      BY <1>0, <2>2 DEF UploadBegins, PathTypeOK, UpRecords
    <2>3. CASE JobEnds(w)
      BY <1>0, <2>3 DEF JobEnds, PathTypeOK, UpRecords, NoUp
    <2>4. CASE UploadFlags(w) \/ UploadChecks(w) \/ UploadClears(w)
      <3>1. \E x \in {"send", "done", "clear"} : up' = [up EXCEPT ![w].pc = x]
        BY <2>4 DEF UploadFlags, UploadChecks, UploadClears
      <3>2. \E x \in {"send", "done", "clear"} : up' = [up EXCEPT ![w] = [up[w] EXCEPT !.pc = x]]
        BY <1>0, <3>1 DEF PathTypeOK
      <3> QED BY <1>0, <2>1, <3>2 DEF PathTypeOK
    <2> QED BY <2>2, <2>3, <2>4
  <1>4. started' \subseteq [job : Jobs, whole : BOOLEAN]
    <2>1. CASE JobEnds(w)
      <3>1. exec[w] \in Jobs /\ WholeOn(exec[w]) \in BOOLEAN
        BY <2>1, WorkFacts DEF JobEnds, WholeOn
      <3> QED BY <1>0, <2>1, <3>1 DEF JobEnds, PathTypeOK
    <2>2. CASE ~JobEnds(w)
      BY <1>0, <2>2 DEF UploadBegins, UploadFlags, UploadChecks, UploadClears, PathTypeOK
    <2> QED BY <2>1, <2>2
  <1> QED BY <1>0, <1>1, <1>2, <1>3, <1>4 DEF PathTypeOK

LEMMA TypeStep == ASSUME WorkInv, [Next]_vars PROVE TypeOK'
  <1>0. TypeOK /\ CountInv /\ PathTypeOK /\ FtpsTypeOK
    BY TypeParts DEF WorkInv
  <1>1. WorkerTypeOK'
    BY <1>0, CountStep DEF CountInv
  <1>2. ASSUME UNCHANGED pathVars PROVE PathTypeOK'
    BY <1>0, <1>2 DEF pathVars, PathTypeOK
  <1>3. ASSUME UNCHANGED ftpsVars PROVE FtpsTypeOK'
    BY <1>0, <1>3 DEF ftpsVars, FtpsTypeOK
  <1>4. PathTypeOK'
    BY <1>2, StepKinds, PathTypedOutside, PathTypedUpload DEF Printer, ThreadTurns, Transfers
  <1>5. ASSUME NEW w \in Workers, UploadFlags(w) PROVE FtpsTypeOK'
    <2>1. exec[w] \in Copies /\ w \in Callers /\ Starts(w, exec[w])
      BY <1>5, WorkFacts DEF UploadFlags
    <2> QED BY <1>0, <2>1, StartsTyped
  <1>6. ASSUME NEW w \in Workers,
               \/ UploadBegins(w) \/ UploadChecks(w) \/ UploadClears(w) \/ JobEnds(w)
               \/ ThreadTurns(w)
        PROVE  FtpsTypeOK'
    BY <1>3, <1>6 DEF UploadBegins, UploadChecks, UploadClears, JobEnds, ThreadTurns
  <1>7. ASSUME Outside PROVE FtpsTypeOK'
    BY <1>3, <1>7 DEF Outside, AddPrinter, RemovePrinter, RemoveStops, SubmitPuts, StopControl,
                  SubmitReads, vars
  <1>8. FtpsTypeOK'
    BY <1>5, <1>6, <1>7, StepKinds, TransferWorks, PrinterTyped
  <1> QED BY <1>1, <1>4, <1>8 DEF TypeOK, PathTypeOK, UpRecords

LEMMA WorkInit == Init => WorkInv
  <1> SUFFICES ASSUME Init PROVE WorkInv
    OBVIOUS
  <1>1. CountInv
    BY CountInit
  <1>2. FtpsTypeOK
    <2>1. Idle \in FtpRecords
      BY FtpsAssumption DEF Idle, FtpRecords, FtpPcs, Replies
    <2>2. /\ ftp = [c \in Callers |-> Idle] /\ res = [f \in Copies |-> "none"]
          /\ host = NoOne /\ cool = 0 /\ since = CoolOff /\ sweepWait = FALSE
          /\ card = {} /\ ftpsFaults = 0
      BY DEF Init, FtpsInit
    <2>3. ftp \in [Callers -> FtpRecords] /\ res \in [Copies -> Results]
      BY <2>1, <2>2 DEF Results
    <2>4. cool \in 0..CoolOff /\ since \in 0..CoolOff /\ ftpsFaults \in 0..MaxFaults
      BY <2>2, FtpsAssumption
    <2> QED BY <2>2, <2>3, <2>4 DEF FtpsTypeOK, FtpRecords, FtpPcs
  <1>3. PathTypeOK
    <2>1. worker \in Workers /\ spent = {worker}
      BY DEF Init, IsNext
    <2>2. sub = NoSub /\ up = [w \in Workers |-> NoUp]
      BY DEF Init
    <2>3. NoSub \in [job : Jobs \cup {None}, w : Workers \cup {None}] /\ NoUp \in UpRecords
      BY DEF NoSub, NoUp, UpRecords
    <2>4. /\ stopping = None /\ uploads = FALSE /\ due = {} /\ started = {}
          /\ mixed = FALSE /\ stops = 0
      BY DEF Init
    <2>5. stops \in 0..MaxStops
      BY <2>4, UploadAssumption
    <2> QED BY <2>1, <2>2, <2>3, <2>4, <2>5 DEF PathTypeOK
  <1>4. Placed
    <2>1. /\ \A w \in Workers : /\ queue[w] = <<>> /\ hand[w] = None /\ exec[w] = None
                               /\ drained[w] = {}
      BY DEF Init, WorkerInit
    <2>2. \A w \in Workers, j \in Jobs : ~Pends(w, j)
      BY <2>1, WorkerAssumption DEF Pends, InQueue
    <2>3. \A w \in Workers : Tidy(w)
      BY <2>1 DEF Tidy
    <2> QED BY <2>1, <2>2, <2>3 DEF Placed
  <1>5. Untold
    BY UploadAssumption DEF Init, FtpsInit, Untold
  <1>6. \A w \in Workers : Working(w)
    <2> SUFFICES ASSUME NEW w \in Workers PROVE Working(w)
      OBVIOUS
    <2>1. exec[w] = None /\ ftp[w] = Idle /\ up[w].pc = "idle"
      BY UploadAssumption DEF Init, WorkerInit, FtpsInit, NoUp
    <2> QED BY <2>1 DEF Working, Idle
  <1> QED BY <1>1, <1>2, <1>3, <1>4, <1>5, <1>6, TypeParts DEF WorkInv, CountInv

LEMMA WorkStep == ASSUME WorkInv, [Next]_vars PROVE WorkInv'
  <1>1. CountInv /\ Placed
    BY DEF WorkInv
  <1> QED BY <1>1, CountStep, PlacedStep, UntoldStep, WorkingStep, TypeStep DEF WorkInv

LEMMA WorkAlways == Spec => []WorkInv
  BY WorkInit, WorkStep, PTL DEF Spec

\* Type correctness of the whole path, for any workers, jobs and file: the worker's
\* variables, the client's and the fleet's.
THEOREM TypeCorrect == Spec => []TypeOK
  <1>1. WorkInv => TypeOK
    BY DEF WorkInv
  <1> QED BY <1>1, WorkAlways, PTL

-----------------------------------------------------------------------------
(* What the client says of the copy.                                       *)

Verdict(c) ==
    ftp'[c].pc # ftp[c].pc =>
       LET f == ftp[c].file IN
       /\ ftp[c].pc = "size" /\ res'[f] = "ok" => WholeOn(f)
       /\ ftp'[c].pc = "short" => ~WholeOn(f)

LEMMA VerdictStep == ASSUME WorkInv, [Next]_vars, NEW c \in Workers PROVE Verdict(c)
  <1>1. ASSUME NEW w \in Workers, Transfers(w) PROVE Verdict(c)
    <2>1. /\ ftp[w].file = exec[w] /\ exec[w] \in Copies /\ res[exec[w]] = "none"
          /\ GoesOn(w, cancel[up[w].w]) \/ Finishes(w)
          /\ w \in Callers /\ FtpsTypeOK
      BY <1>1, TransferWorks, WorkFacts
    <2>2. CASE c # w
      <3>1. ftp'[c] = ftp[c]
        BY <2>1, <2>2, WorkFacts DEF GoesOn, Finishes, Ends, FtpsTypeOK
      <3> QED BY <3>1 DEF Verdict
    <2>3. CASE c = w /\ GoesOn(w, cancel[up[w].w])
      BY <2>1, <2>3 DEF GoesOn, Verdict
    <2>4. CASE c = w /\ Finishes(w)
      <3>1. PICK how \in Results \ {"none"} :
               Ends(w, how) /\ (how = "ok" => WholeOn(ftp[w].file))
        BY <2>4 DEF Finishes
      <3>2. res'[exec[w]] = how /\ ftp'[w].pc = "idle"
        BY <2>1, <3>1 DEF Ends, FtpsTypeOK, Idle
      <3> QED BY <2>1, <2>4, <3>1, <3>2 DEF Verdict
    <2> QED BY <2>1, <2>2, <2>3, <2>4
  <1>2. ASSUME NEW w \in Workers, UploadFlags(w) PROVE Verdict(c)
    <2>1. exec[w] \in Copies /\ w \in Callers /\ FtpsTypeOK
      BY <1>2, WorkFacts DEF UploadFlags
    <2>2. /\ ftp' = [ftp EXCEPT ![w] = ftp'[w]]
          /\ ftp[w].pc = "idle" /\ ftp'[w].pc \in {"want", "sweep"}
      BY <1>2, <2>1, StartsTyped DEF UploadFlags
    <2>3. c # w => ftp'[c] = ftp[c]
      BY <2>1, <2>2, WorkFacts DEF FtpsTypeOK
    <2> QED BY <2>2, <2>3 DEF Verdict
  <1>3. ASSUME UNCHANGED ftp PROVE Verdict(c)
    BY <1>3 DEF Verdict
  <1>4. ASSUME NEW w \in Workers,
               \/ UploadBegins(w) \/ UploadChecks(w) \/ UploadClears(w) \/ JobEnds(w)
               \/ ThreadTurns(w)
        PROVE  UNCHANGED ftp
    BY <1>4 DEF UploadBegins, UploadChecks, UploadClears, JobEnds, ThreadTurns, ftpsVars
  <1>5. CASE Outside
    BY <1>3, <1>5, OutsideWorks DEF ftpsVars
  <1>6. CASE Printer
    BY <1>6, PrinterWorks DEF Verdict
  <1> QED BY <1>1, <1>2, <1>3, <1>4, <1>5, <1>6, StepKinds

\* An upload is reported done only with the whole copy on the card, and short only
\* when it was not whole, for any number of callers on the host and a file of any
\* length, whatever closing reply came early, late or never (ftps.py upload and
\* _await_closing).
THEOREM VerdictsAreTrue == Spec => VerdictIsTrue
  <1>1. ASSUME WorkInv, [Next]_vars
        PROVE  [\A c \in Callers : ftp'[c].pc # ftp[c].pc =>
                  LET f == ftp[c].file IN
                  /\ ftp[c].pc = "size" /\ res'[f] = "ok" => WholeOn(f)
                  /\ ftp'[c].pc = "short" => ~WholeOn(f)]_ftpsVars
    BY <1>1, VerdictStep, UploadAssumption DEF Verdict
  <1> QED BY <1>1, WorkAlways, PTL DEF Spec, VerdictIsTrue

-----------------------------------------------------------------------------
(* Starts and cancellations: for any workers and jobs, as long as the      *)
(* serial was not added again while a thread of its earlier membership was *)
(* at work, a start names a file that lies whole on the card, and an       *)
(* upload is given up only for a stop that was meant for it.               *)
(*                                                                         *)
(* Both hang on one thread being at work at a time (Alone): then the worker*)
(* that fleet.upload reads is its own, the event a stop sets is the one of *)
(* the upload in the flag, and nobody else touches the card between the    *)
(* verdict and the start.                                                  *)

Members ==
    /\ worker # None => worker \in spent /\ ~halted[worker]
    /\ stopping # None => stopping \in spent /\ stopping # worker
    /\ sub # NoSub => sub.w \in spent
    /\ \A w \in Workers \ spent :
         /\ queue[w] = <<>> /\ hand[w] = None /\ exec[w] = None /\ drained[w] = {}
         /\ ~cancel[w] /\ ~halted[w]

\* The thread still takes jobs, or has one.
Alive(w) == ~halted[w] \/ exec[w] # None

Alone == \A v, w \in spent : Alive(v) /\ Alive(w) => v = w

\* An event that stands is meant for the upload it can end.
Meant(w) ==
    /\ halted[w] /\ exec[w] # None => exec[w] \in due
    /\ cancel[w] /\ ~halted[w] =>
         up[w].pc \in {"send", "clear"} /\ (up[w].pc = "send" => exec[w] \in due)
    /\ ftp[w].pc = "clean" => exec[w] \in due
    /\ up[w].pc # "idle" => up[w].w = w

\* The copy stays whole until the start.
Kept(w) == up[w].pc # "idle" /\ res[exec[w]] = "ok" => WholeOn(exec[w])

Flagged == uploads => \E w \in Workers : up[w].pc = "send"

Found    == \A s \in started : s.whole
GivenUp  == \A j \in Jobs : res[j] = "cancelled" => j \in due

Straight ==
    /\ Alone /\ Flagged /\ Found /\ GivenUp
    /\ \A w \in Workers : Meant(w) /\ Kept(w)

MeantInv == WorkInv /\ Members /\ (mixed \/ Straight)

-----------------------------------------------------------------------------
(* Membership.                                                             *)

\* Only a member has a job.
LEMMA MembersWork ==
    ASSUME WorkInv, Members, NEW w \in Workers
    PROVE  /\ exec[w] # None => w \in spent
           /\ hand[w] # None => w \in spent /\ exec[w] = None
           /\ queue[w] # <<>> => w \in spent
           /\ drained[w] # {} => w \in spent
           /\ up[w].pc # "idle" => exec[w] # None /\ exec[w] \in Jobs /\ fut[exec[w]] = "running"
           /\ ftp[w].pc # "idle" => up[w].pc = "send"
  BY WorkFacts DEF Members, Working, Placed, Tidy

LEMMA MembersStay ==
    ASSUME WorkInv, Members, UNCHANGED <<worker, stopping, spent, sub, halted>>,
           NEW w \in Workers, w \in spent,
           \A v \in Workers \ {w} : UNCHANGED <<queue[v], hand[v], exec[v], drained[v], cancel[v]>>
    PROVE  Members'
  BY DEF Members

LEMMA MembersOutside ==
    ASSUME WorkInv, Members, Outside
    PROVE  Members'
  <1>0. WorkerTypeOK /\ PathTypeOK /\ CallersOK
    BY TypeParts DEF WorkInv, CountInv
  <1>1. CASE AddPrinter
    <2>1. PICK w \in Workers \ spent : worker' = w /\ spent' = spent \cup {w}
      BY <1>0, <1>1 DEF AddPrinter, IsNext
    <2>2. UNCHANGED <<queue, hand, exec, drained, cancel, halted, stopping, sub>>
      BY <1>1 DEF AddPrinter, workerVars
    <2> QED BY <2>1, <2>2 DEF Members
  <1>2. CASE RemovePrinter
    BY <1>2 DEF RemovePrinter, workerVars, Members
  <1>3. CASE RemoveStops
    <2>1. stopping \in Workers /\ stopping \in spent /\ stopping # worker
      BY <1>0, <1>3 DEF RemoveStops, Members, PathTypeOK
    <2>2. /\ \A v \in Workers \ {stopping} :
               UNCHANGED <<queue[v], hand[v], exec[v], drained[v], cancel[v], halted[v]>>
          /\ UNCHANGED <<worker, spent, sub>> /\ stopping' = None
      BY <1>0, <1>3, <2>1 DEF RemoveStops, Stop, WorkerTypeOK
    <2>3. worker # None => worker \in Workers \ {stopping}
      BY <1>0, <2>1 DEF PathTypeOK
    <2> QED BY <2>1, <2>2, <2>3 DEF Members
  <1>4. CASE SubmitPuts
    <2>1. sub.w \in Workers /\ sub.w \in spent
      BY <1>0, <1>4, UploadAssumption DEF SubmitPuts, CallersOK, SubOK, Members, NoSub
    <2>2. /\ \A v \in Workers \ {sub.w} : queue'[v] = queue[v]
          /\ UNCHANGED <<hand, exec, drained, cancel, halted, worker, stopping, spent>>
          /\ sub' = NoSub
      BY <1>0, <1>4, <2>1 DEF SubmitPuts, Submit, WorkerTypeOK, NoSub
    <2> QED BY <2>1, <2>2 DEF Members
  <1>5. CASE StopControl
    <2>1. worker \in Workers /\ worker \in spent
      BY <1>0, <1>5 DEF StopControl, Members, PathTypeOK
    <2>2. /\ \A v \in Workers \ {worker} : cancel'[v] = cancel[v]
          /\ UNCHANGED <<queue, hand, exec, drained, halted, worker, stopping, spent, sub>>
      BY <1>0, <1>5 DEF StopControl, WorkerTypeOK
    <2> QED BY <2>1, <2>2, MembersStay
  <1>6. ASSUME NEW j \in Jobs, SubmitReads(j) PROVE Members'
    BY <1>6 DEF SubmitReads, workerVars, Members
  <1>7. CASE UNCHANGED vars
    BY <1>7 DEF vars, workerVars, pathVars, Members
  <1> QED BY <1>1, <1>2, <1>3, <1>4, <1>5, <1>6, <1>7 DEF Outside

LEMMA MembersThread ==
    ASSUME WorkInv, Members, NEW w \in Workers, ThreadTurns(w)
    PROVE  Members' /\ w \in spent /\ UNCHANGED <<halted, cancel>>
           /\ \A v \in Workers \ {w} : exec'[v] = exec[v]
  <1>1. UNCHANGED <<worker, stopping, spent, sub, halted, cancel>>
    BY DEF ThreadTurns, pathVars, Take, Begin, Release, CancelDrained
  <1>2. w \in spent
    BY MembersWork DEF ThreadTurns, Take, Begin, Release, CancelDrained
  <1>3. \A v \in Workers \ {w} : UNCHANGED <<queue[v], hand[v], exec[v], drained[v]>>
    <2>1. WorkerTypeOK
      BY WorkFacts
    <2>2. CASE Take(w)
      BY <2>1, <2>2 DEF Take, WorkerTypeOK
    <2>3. CASE Begin(w)
      BY <2>1, <2>3 DEF Begin, WorkerTypeOK
    <2>4. CASE Release(w) \/ CancelDrained(w)
      BY <2>1, <2>4 DEF Release, CancelDrained, WorkerTypeOK
    <2> QED BY <2>2, <2>3, <2>4 DEF ThreadTurns
  <1> QED BY <1>1, <1>2, <1>3, MembersStay

LEMMA MembersStep ==
    ASSUME WorkInv, Members, [Next]_vars
    PROVE  Members'
  <1>1. ASSUME NEW w \in Workers, Transfers(w) PROVE Members'
    BY <1>1 DEF Transfers, workerVars, pathVars, Members
  <1>2. CASE Printer
    BY <1>2 DEF Printer, workerVars, pathVars, Members
  <1>3. ASSUME NEW w \in Workers, UploadClears(w) PROVE Members'
    <2>1. up[w].w \in Workers /\ WorkerTypeOK
      BY <1>3, WorkFacts DEF UploadClears
    <2>2. /\ UNCHANGED <<queue, hand, exec, drained, halted, worker, stopping, spent, sub>>
          /\ \A v \in Workers : cancel'[v] = cancel[v] \/ ~cancel'[v]
      BY <1>3, <2>1 DEF UploadClears, WorkerTypeOK
    <2> QED BY <2>2 DEF Members
  <1>4. ASSUME NEW w \in Workers,
               UploadBegins(w) \/ UploadFlags(w) \/ UploadChecks(w) \/ JobEnds(w)
        PROVE  Members'
    BY <1>4 DEF UploadBegins, UploadFlags, UploadChecks, JobEnds, Settle, workerVars, Members
  <1> QED BY <1>1, <1>2, <1>3, <1>4, StepKinds, MembersOutside, MembersThread

-----------------------------------------------------------------------------
(* One thread at work.                                                     *)

LEMMA AloneInJob ==
    ASSUME WorkInv, Members, Alone, NEW v \in Workers, NEW w \in Workers,
           exec[w] # None, exec[v] # None \/ (v = worker /\ worker # None)
    PROVE  v = w
  BY MembersWork, UploadAssumption DEF Members, Alone, Alive

LEMMA MeantStays ==
    ASSUME NEW v \in Workers, Meant(v), UNCHANGED <<up[v], exec[v], halted[v], cancel[v]>>,
           ftp'[v].pc = "clean" => ftp[v].pc = "clean", due \subseteq due'
    PROVE  Meant(v)'
  BY DEF Meant

LEMMA KeptStays ==
    ASSUME NEW v \in Workers, Kept(v), UNCHANGED <<up[v], exec[v], card>>,
           up[v].pc # "idle" => res'[exec[v]] = res[exec[v]]
    PROVE  Kept(v)'
  BY DEF Kept, WholeOn

\* Nobody comes to life but by the membership.
LEMMA AloneStays ==
    ASSUME Alone, UNCHANGED spent, \A v \in spent : Alive(v)' => Alive(v)
    PROVE  Alone'
  BY DEF Alone

\* The steps of membership, submit and the stop control.
LEMMA StraightOutside ==
    ASSUME WorkInv, Members, Straight, Outside, ~mixed'
    PROVE  Straight'
  <1>0. /\ UNCHANGED <<exec, up, ftp, res, card>> /\ WorkerTypeOK /\ PathTypeOK
        /\ \A v \in Workers : Meant(v) /\ Kept(v)
    <2>1. UNCHANGED <<exec, up, ftpsVars>>
      BY DEF Outside, AddPrinter, RemovePrinter, RemoveStops, SubmitPuts, StopControl, SubmitReads,
             vars, workerVars, pathVars, Stop, Submit
    <2> QED BY <2>1, TypeParts DEF WorkInv, Straight, ftpsVars
  <1>1. Alone'
    <2>1. CASE AddPrinter
      <3>1. PICK w \in Workers : spent' = spent \cup {w}
        BY <2>1 DEF AddPrinter, IsNext
      <3>2. (\A v \in spent : halted[v] /\ exec[v] = None) /\ UNCHANGED <<halted, exec>>
        BY <1>0, <2>1 DEF AddPrinter, workerVars, WorkerTypeOK, PathTypeOK
      <3> QED BY <3>1, <3>2 DEF Alone, Alive
    <2>2. CASE ~AddPrinter
      <3>1. UNCHANGED spent
        BY <2>2 DEF Outside, RemovePrinter, RemoveStops, SubmitPuts, StopControl, SubmitReads,
                    vars, pathVars
      <3>2. \A v \in Workers : halted[v] => halted'[v]
        BY <1>0, <2>2 DEF Outside, RemovePrinter, RemoveStops, SubmitPuts, StopControl, SubmitReads,
                          vars, workerVars, Stop, Submit, WorkerTypeOK
      <3>3. \A v \in spent : Alive(v)' => Alive(v)
        BY <1>0, <3>2 DEF Alive, PathTypeOK
      <3> QED BY <3>1, <3>3, AloneStays DEF Straight
    <2> QED BY <2>1, <2>2
  <1>2. UNCHANGED <<uploads, started>> /\ due \subseteq due'
    BY DEF Outside, AddPrinter, RemovePrinter, RemoveStops, SubmitPuts, StopControl, SubmitReads,
           vars, pathVars
  <1>3. Flagged' /\ Found' /\ GivenUp'
    BY <1>0, <1>2 DEF Straight, Flagged, Found, GivenUp
  <1>4. \A v \in Workers : Kept(v)'
    BY <1>0, KeptStays
  <1>5. \A v \in Workers : Meant(v)'
    <2> SUFFICES ASSUME NEW v \in Workers PROVE Meant(v)'
      OBVIOUS
    <2>1. CASE RemoveStops
      <3>1. stopping \in Workers
        BY <1>0, <2>1 DEF RemoveStops, PathTypeOK
      <3>2. CASE v # stopping
        <4>1. UNCHANGED <<halted[v], cancel[v]>>
          BY <1>0, <2>1, <3>1, <3>2 DEF RemoveStops, Stop, WorkerTypeOK
        <4> QED BY <1>0, <1>2, <4>1, MeantStays
      <3>3. CASE v = stopping
        <4>1. halted'[v] = TRUE
          BY <1>0, <2>1, <3>1, <3>3 DEF RemoveStops, Stop, WorkerTypeOK
        <4>2. exec[v] # None => exec[v] \in due'
          BY <2>1, <3>3 DEF RemoveStops, Of
        <4> QED BY <1>0, <1>2, <4>1, <4>2 DEF Meant
      <3> QED BY <3>2, <3>3
    <2>2. CASE StopControl
      <3>1. /\ worker \in Workers /\ worker # None /\ UNCHANGED halted
            /\ cancel' = [cancel EXCEPT ![worker] = TRUE]
        BY <1>0, <2>2 DEF StopControl, PathTypeOK
      <3>2. PICK u \in Workers : up[u].pc = "send"
        BY <2>2 DEF StopControl, Straight, Flagged
      <3>3. exec[u] # None /\ u = worker
        BY <3>1, <3>2, MembersWork, AloneInJob DEF Straight
      <3>4. CASE v # worker
        <4>1. cancel'[v] = cancel[v]
          BY <1>0, <3>1, <3>4 DEF WorkerTypeOK
        <4> QED BY <1>0, <1>2, <3>1, <4>1, MeantStays
      <3>5. CASE v = worker
        <4>1. exec[v] \in due' /\ up[v].pc = "send"
          BY <2>2, <3>2, <3>3, <3>5 DEF StopControl
        <4> QED BY <1>0, <3>1, <4>1 DEF Meant
      <3> QED BY <3>4, <3>5
    <2>3. CASE ~RemoveStops /\ ~StopControl
      <3>1. UNCHANGED <<halted, cancel>>
        BY <2>3 DEF Outside, AddPrinter, RemovePrinter, SubmitPuts, SubmitReads, vars, workerVars,
                    Submit
      <3> QED BY <1>0, <1>2, <3>1, MeantStays
    <2> QED BY <2>1, <2>2, <2>3
  <1> QED BY <1>1, <1>3, <1>4, <1>5 DEF Straight

\* The thread between two jobs has no upload.
LEMMA StraightTurns ==
    ASSUME WorkInv, Members, Straight, NEW w \in Workers, ThreadTurns(w)
    PROVE  Straight'
  <1>0. /\ UNCHANGED <<up, ftp, res, card, uploads, started, due, spent, halted, cancel>>
        /\ \A v \in Workers : Meant(v) /\ Kept(v)
        /\ \A v \in Workers \ {w} : exec'[v] = exec[v]
        /\ spent \subseteq Workers
    BY MembersThread, TypeParts DEF ThreadTurns, ftpsVars, pathVars, Straight, WorkInv, PathTypeOK
  <1>1. Alone'
    <2>1. ~halted[w] \/ exec'[w] = exec[w] \/ exec'[w] = None
      BY WorkFacts DEF ThreadTurns, Take, Begin, Release, CancelDrained, WorkerTypeOK
    <2>2. \A v \in spent : Alive(v)' => Alive(v)
      BY <1>0, <2>1 DEF Alive
    <2> QED BY <1>0, <2>2, AloneStays DEF Straight
  <1>2. Flagged' /\ Found' /\ GivenUp'
    BY <1>0 DEF Straight, Flagged, Found, GivenUp
  <1>3. ASSUME NEW v \in Workers PROVE Meant(v)' /\ Kept(v)'
    <2>1. CASE exec'[v] = exec[v]
      BY <1>0, <2>1, MeantStays, KeptStays
    <2>2. CASE exec'[v] # exec[v]
      <3>1. v = w
        BY <1>0, <2>2
      <3>2. up[w].pc = "idle" /\ ftp[w].pc = "idle"
        BY <2>2, <3>1, MembersWork DEF ThreadTurns, Take, Begin, Release, CancelDrained
      <3>3. exec'[w] = None \/ ~halted[w]
        BY <2>2, <3>1, WorkFacts
        DEF ThreadTurns, Take, Begin, Release, CancelDrained, WorkerTypeOK
      <3> QED BY <1>0, <3>1, <3>2, <3>3 DEF Meant, Kept
    <2> QED BY <2>1, <2>2
  <1> QED BY <1>1, <1>2, <1>3 DEF Straight

\* What the steps of an upload have in common.
LEMMA UploadFrame ==
    ASSUME WorkInv, Members, Straight, NEW w \in Workers,
           \/ UploadBegins(w) \/ UploadFlags(w) \/ UploadChecks(w) \/ UploadClears(w)
           \/ JobEnds(w)
    PROVE  /\ UNCHANGED <<exec, halted, res, card, due, spent>> /\ Alone' /\ GivenUp'
           /\ \A v \in Workers \ {w} : up'[v] = up[v] /\ ftp'[v].pc = ftp[v].pc
           /\ ftp'[w].pc = "clean" => ftp[w].pc = "clean"
           /\ up \in [Workers -> UpRecords]
  <1>1. UNCHANGED <<exec, halted, res, card, due, spent>>
    BY DEF UploadBegins, UploadFlags, UploadChecks, UploadClears, JobEnds, Settle, Starts,
           workerVars, ftpsVars
  <1>2. up \in [Workers -> UpRecords] /\ spent \subseteq Workers
    BY TypeParts DEF WorkInv, PathTypeOK
  <1>3. \A v \in Workers \ {w} : up'[v] = up[v]
    BY <1>2 DEF UploadBegins, UploadFlags, UploadChecks, UploadClears, JobEnds
  <1>4. /\ \A v \in Workers \ {w} : ftp'[v].pc = ftp[v].pc
        /\ ftp'[w].pc = "clean" => ftp[w].pc = "clean"
    <2>1. CASE UploadFlags(w)
      <3>1. Starts(w, exec[w]) /\ exec[w] \in Copies /\ w \in Callers /\ FtpsTypeOK
        BY <2>1, WorkFacts DEF UploadFlags
      <3>2. ftp' = [ftp EXCEPT ![w] = ftp'[w]] /\ ftp'[w].pc \in {"want", "sweep"}
        BY <3>1, StartsTyped
      <3> QED BY <3>1, <3>2, WorkFacts DEF FtpsTypeOK
    <2>2. CASE ~UploadFlags(w)
      BY <2>2 DEF UploadBegins, UploadChecks, UploadClears, JobEnds, ftpsVars
    <2> QED BY <2>1, <2>2
  <1>5. Alone' /\ GivenUp'
    <2>1. \A v \in spent : Alive(v)' => Alive(v)
      BY <1>1 DEF Alive
    <2> QED BY <1>1, <2>1, AloneStays DEF Straight, GivenUp
  <1> QED BY <1>1, <1>2, <1>3, <1>4, <1>5

LEMMA StraightUpload ==
    ASSUME WorkInv, Members, Straight, NEW w \in Workers,
           \/ UploadBegins(w) \/ UploadFlags(w) \/ UploadChecks(w) \/ UploadClears(w)
           \/ JobEnds(w)
    PROVE  Straight'
  <1>0. /\ UNCHANGED <<exec, halted, res, card, due, spent>> /\ Alone' /\ GivenUp'
        /\ \A v \in Workers \ {w} : up'[v] = up[v] /\ ftp'[v].pc = ftp[v].pc
        /\ ftp'[w].pc = "clean" => ftp[w].pc = "clean"
        /\ up \in [Workers -> UpRecords] /\ WorkerTypeOK
        /\ \A v \in Workers : Meant(v) /\ Kept(v)
    BY UploadFrame, WorkFacts DEF Straight
  <1>1. up[w].pc # "idle" => up[w].w = w
    BY <1>0 DEF Meant
  <1>2. \A v \in Workers \ {w} : cancel'[v] = cancel[v]
    BY <1>0, <1>1 DEF UploadBegins, UploadFlags, UploadChecks, UploadClears, JobEnds, Settle,
                      workerVars, WorkerTypeOK
  <1>3. \A v \in Workers \ {w} : Meant(v)' /\ Kept(v)'
    BY <1>0, <1>2, MeantStays, KeptStays
  <1>4. Flagged'
    <2>1. CASE UploadFlags(w)
      <3>1. up'[w].pc = "send"
        BY <1>0, <2>1 DEF UploadFlags, UpRecords
      <3> QED BY <3>1 DEF Flagged
    <2>2. CASE UploadChecks(w)
      BY <2>2 DEF UploadChecks, Flagged
    <2>3. CASE UploadBegins(w) \/ UploadClears(w) \/ JobEnds(w)
      <3>1. uploads' = uploads /\ up[w].pc # "send"
        BY <2>3 DEF UploadBegins, UploadClears, JobEnds
      <3> QED BY <1>0, <3>1 DEF Straight, Flagged
    <2> QED BY <2>1, <2>2, <2>3
  <1>5. Found'
    <2>1. CASE JobEnds(w)
      <3>1. res[exec[w]] = "ok" => WholeOn(exec[w])
        BY <1>0, <2>1 DEF JobEnds, Kept
      <3> QED BY <2>1, <3>1 DEF JobEnds, Straight, Found
    <2>2. CASE ~JobEnds(w)
      BY <2>2 DEF UploadBegins, UploadFlags, UploadChecks, UploadClears, Straight, Found
    <2> QED BY <2>1, <2>2
  <1>6. Meant(w)' /\ Kept(w)'
    <2>1. CASE UploadBegins(w) /\ worker = None
      <3>1. up' = up /\ cancel' = cancel
        BY <2>1 DEF UploadBegins, Settle
      <3> QED BY <1>0, <3>1, MeantStays, KeptStays
    <2>2. CASE UploadBegins(w) /\ worker # None
      <3>1. exec[w] # None /\ up[w].pc = "idle" /\ fut[exec[w]] = "running" /\ cancel' = cancel
        BY <2>2 DEF UploadBegins, workerVars
      <3>2. worker \in Workers /\ worker = w
        BY <2>2, <3>1, AloneInJob, TypeParts DEF Straight, WorkInv, PathTypeOK
      <3>3. up'[w].pc = "flag" /\ up'[w].w = w
        BY <1>0, <2>2, <3>2 DEF UploadBegins
      <3>4. res[exec[w]] = "none"
        BY <3>1, WorkFacts DEF Working
      <3> QED BY <1>0, <3>1, <3>3, <3>4 DEF Meant, Kept
    <2>3. CASE UploadFlags(w) \/ UploadChecks(w) \/ UploadClears(w)
      <3>1. up[w].pc \in {"flag", "send", "clear"}
        BY <2>3 DEF UploadFlags, UploadChecks, UploadClears
      <3>2. up'[w].w = w
        BY <1>0, <1>1, <2>3, <3>1 DEF UploadFlags, UploadChecks, UploadClears, UpRecords
      <3>3. Kept(w)'
        BY <1>0, <3>1 DEF Kept, WholeOn
      <3>4. cancel'[w] /\ ~halted[w] =>
              up'[w].pc \in {"send", "clear"} /\ (up'[w].pc = "send" => exec[w] \in due)
        <4>1. CASE UploadFlags(w)
          BY <1>0, <4>1 DEF UploadFlags, workerVars, Meant
        <4>2. CASE UploadChecks(w)
          <5>1. up'[w].pc = IF halted[w] THEN "done" ELSE "clear"
            BY <1>0, <1>1, <3>1, <4>2 DEF UploadChecks, UpRecords
          <5> QED BY <5>1
        <4>3. CASE UploadClears(w)
          <5>1. cancel'[w] = FALSE
            BY <1>0, <1>1, <3>1, <4>3 DEF UploadClears, WorkerTypeOK
          <5> QED BY <5>1
        <4> QED BY <2>3, <4>1, <4>2, <4>3
      <3> QED BY <1>0, <3>2, <3>3, <3>4 DEF Meant
    <2>4. CASE JobEnds(w)
      <3>1. up[w].pc = "done" /\ cancel' = cancel /\ up'[w].pc = "idle"
        BY <1>0, <2>4 DEF JobEnds, Settle, NoUp
      <3> QED BY <1>0, <3>1 DEF Meant, Kept
    <2> QED BY <2>1, <2>2, <2>3, <2>4
  <1> QED BY <1>0, <1>3, <1>4, <1>5, <1>6 DEF Straight

\* Nobody else is in a job while a thread's client is at work.
LEMMA StraightTransfer ==
    ASSUME WorkInv, Members, Straight, NEW w \in Workers, Transfers(w)
    PROVE  Straight'
  <1>0. /\ UNCHANGED <<exec, halted, cancel, up, uploads, started, due, spent>>
        /\ ftp[w].file = exec[w] /\ res[exec[w]] = "none" /\ up[w].pc = "send"
        /\ exec[w] # None /\ exec[w] \in Jobs /\ up[w].w = w /\ FtpsTypeOK
        /\ GoesOn(w, cancel[w]) \/ Finishes(w)
        /\ \A j \in Jobs \ {exec[w]} : res'[j] = res[j]
        /\ \A v \in Workers : Meant(v) /\ Kept(v)
    <2>1. up[w].pc = "send"
      BY TransferWorks
    <2>2. up[w].w = w /\ exec[w] # None /\ exec[w] \in Jobs
      BY <2>1, MembersWork DEF Straight, Meant
    <2>3. UNCHANGED <<exec, halted, cancel, up, uploads, started, due, spent>>
      BY DEF Transfers, workerVars, pathVars
    <2>4. GoesOn(w, cancel[w]) \/ Finishes(w)
      BY <2>2, TransferWorks
    <2> QED BY <2>1, <2>2, <2>3, <2>4, TransferWorks, WorkFacts DEF Straight
  <1>1. ftp[w].pc = "clean" \/ cancel[w] => exec[w] \in due
    BY <1>0 DEF Meant
  <1>2. \A v \in Workers \ {w} : exec[v] = None /\ up[v].pc = "idle"
    BY <1>0, MembersWork, AloneInJob DEF Straight
  <1>3. Alone' /\ Flagged' /\ Found'
    BY <1>0 DEF Straight, Alone, Alive, Flagged, Found
  <1>4. \A v \in Workers \ {w} : Meant(v)' /\ Kept(v)'
    <2> SUFFICES ASSUME NEW v \in Workers \ {w} PROVE Meant(v)' /\ Kept(v)'
      OBVIOUS
    <2>1. ftp'[v] = ftp[v]
      BY <1>0, WorkFacts DEF GoesOn, Finishes, Ends, FtpsTypeOK
    <2> QED BY <1>0, <1>2, <2>1, MeantStays DEF Kept
  <1>5. CASE GoesOn(w, cancel[w])
    <2>1. UNCHANGED res /\ (ftp'[w].pc = "clean" => exec[w] \in due)
      BY <1>1, <1>5 DEF GoesOn
    <2>2. Meant(w)' /\ Kept(w)'
      BY <1>0, <2>1 DEF Meant, Kept
    <2>3. GivenUp'
      BY <1>0, <2>1 DEF Straight, GivenUp
    <2> QED BY <1>3, <1>4, <2>2, <2>3 DEF Straight
  <1>6. CASE Finishes(w)
    <2>1. PICK how \in Results \ {"none"} :
             /\ Ends(w, how)
             /\ how = "ok" => WholeOn(exec[w]) /\ UNCHANGED card
             /\ how = "cancelled" => exec[w] \in due
      BY <1>0, <1>1, <1>6 DEF Finishes
    <2>2. res'[exec[w]] = how /\ ftp'[w].pc = "idle"
      BY <1>0, <2>1, WorkFacts DEF Ends, FtpsTypeOK, Idle
    <2>3. Meant(w)' /\ Kept(w)'
      BY <1>0, <2>1, <2>2 DEF Meant, Kept, WholeOn
    <2>4. GivenUp'
      BY <1>0, <2>1, <2>2 DEF Straight, GivenUp
    <2> QED BY <1>3, <1>4, <2>3, <2>4 DEF Straight
  <1> QED BY <1>0, <1>5, <1>6

\* What the printer still writes is of no upload that has its verdict.
LEMMA StraightPrinter ==
    ASSUME WorkInv, Members, Straight, Printer
    PROVE  Straight'
  <1>0. /\ UNCHANGED <<exec, halted, cancel, up, uploads, started, due, spent, res>>
        /\ \A v \in Workers : Meant(v) /\ Kept(v)
    BY PrinterTyped DEF Printer, workerVars, pathVars, Straight
  <1>1. Alone' /\ Flagged' /\ Found' /\ GivenUp'
    BY <1>0 DEF Straight, Alone, Alive, Flagged, Found, GivenUp
  <1>2. ASSUME NEW v \in Workers PROVE Meant(v)'
    BY <1>0, PrinterWorks, MeantStays
  <1>3. ASSUME NEW v \in Workers PROVE Kept(v)'
    <2>1. CASE UNCHANGED card
      BY <1>0, <2>1, KeptStays
    <2>2. ASSUME NEW c \in Callers, PrinterWrites(c) PROVE Kept(v)'
      <3>1. c \in Workers /\ ftp[c].pc # "idle"
        BY <2>2, WorkFacts, UploadAssumption DEF PrinterWrites
      <3>2. up[c].pc # "idle" /\ exec[c] # None /\ res[exec[c]] = "none"
        BY <3>1, WorkFacts DEF Working
      <3>3. up[v].pc # "idle" => v = c
        BY <3>1, <3>2, MembersWork, AloneInJob DEF Straight
      <3> QED BY <1>0, <3>2, <3>3 DEF Kept
    <2> QED BY <2>1, <2>2 DEF Printer, FtpsEnv, HourPasses, Tick
  <1> QED BY <1>1, <1>2, <1>3 DEF Straight

LEMMA MeantStep == ASSUME MeantInv, [Next]_vars PROVE MeantInv'
  <1>0. WorkInv /\ Members /\ (mixed \/ Straight) /\ mixed \in BOOLEAN
    BY TypeParts DEF MeantInv, WorkInv, PathTypeOK
  <1>1. WorkInv' /\ Members'
    BY <1>0, WorkStep, MembersStep
  <1>2. mixed => mixed'
    BY DEF Next, AddPrinter, RemovePrinter, RemoveStops, SubmitReads, SubmitPuts, ThreadRuns,
           ThreadTurns, UploadBegins, UploadFlags, Transfers, UploadChecks, UploadClears, JobEnds,
           StopControl, Printer, vars, pathVars
  <1>3. ASSUME ~mixed' PROVE Straight'
    BY <1>0, <1>2, <1>3, StepKinds, StraightOutside, StraightTurns, StraightUpload,
       StraightTransfer, StraightPrinter
  <1> QED BY <1>1, <1>3 DEF MeantInv

LEMMA MeantInit == Init => MeantInv
  <1> SUFFICES ASSUME Init PROVE MeantInv
    OBVIOUS
  <1>1. WorkInv
    BY WorkInit
  <1>2. /\ worker \in Workers /\ spent = {worker} /\ stopping = None /\ sub = NoSub
        /\ uploads = FALSE /\ started = {}
    BY DEF Init, IsNext
  <1>3. \A w \in Workers :
          /\ queue[w] = <<>> /\ hand[w] = None /\ exec[w] = None /\ drained[w] = {}
          /\ cancel[w] = FALSE /\ halted[w] = FALSE
          /\ up[w].pc = "idle" /\ ftp[w].pc = "idle"
    BY UploadAssumption DEF Init, WorkerInit, FtpsInit, NoUp, Idle
  <1>4. \A j \in Jobs : res[j] = "none"
    BY UploadAssumption DEF Init, FtpsInit
  <1>5. Members
    BY <1>2, <1>3 DEF Members
  <1>6. Alone /\ Flagged /\ Found /\ GivenUp
    BY <1>2, <1>4 DEF Alone, Flagged, Found, GivenUp
  <1>7. \A w \in Workers : Meant(w) /\ Kept(w)
    BY <1>3 DEF Meant, Kept
  <1> QED BY <1>1, <1>5, <1>6, <1>7 DEF MeantInv, Straight

LEMMA MeantAlways == Spec => []MeantInv
  BY MeantInit, MeantStep, PTL DEF Spec

-----------------------------------------------------------------------------
(* What the fleet and the printer rely on.                                 *)

\* A start names a file that lies whole on the card, for any number of workers and
\* jobs, whatever failed, was cancelled or was swept before it - as long as no thread
\* of an earlier membership of the serial was still in a job (app.py
\* _start_cloud_send, ftps.py upload).
THEOREM StartsFindTheirFile == Spec => []StartFindsItsFile
  <1>1. MeantInv => StartFindsItsFile
    BY DEF MeantInv, Straight, Found, StartFindsItsFile
  <1> QED BY <1>1, MeantAlways, PTL

\* An upload is given up only for a stop that was meant for it, for any number of
\* workers and jobs: neither the event of the upload before it nor that of a stop
\* control in between ends it (fleet.py upload and _cancel_inflight_upload).
THEOREM CancelsAreMeant == Spec => []CancelIsMeant
  <1>1. MeantInv => CancelIsMeant
    BY DEF MeantInv, Straight, GivenUp, CancelIsMeant
  <1> QED BY <1>1, MeantAlways, PTL

=============================================================================
