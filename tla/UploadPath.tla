----------------------------- MODULE UploadPath -----------------------------
(***************************************************************************)
(* The way of a job to the card of one printer: fleet.submit hands it to   *)
(* the worker of the moment, the worker's thread runs it, fleet.upload     *)
(* passes it the worker's cancel event and the FTPS client moves the file. *)
(* Meanwhile the printer may be removed and added again - with a worker of *)
(* its own, while the thread of the first one still runs - and a stop      *)
(* control may cancel the transfer.                                        *)
(***************************************************************************)
EXTENDS PrinterWorker, FtpsUpload

CONSTANTS MaxStops   \* bound: stop controls

\* One operation per worker thread, one file per job.
\* Workers and jobs are numbered in the order of their making.
ASSUME UploadAssumption ==
    /\ Callers = Workers /\ Copies = Jobs
    /\ Workers \subseteq Nat /\ Jobs \subseteq Nat
    /\ MaxStops \in Nat

VARIABLES
    worker,     \* the entry of _workers, None while the serial is no member
    spent,      \* workers that were made so far
    stopping,   \* the worker remove_printer has popped and not stopped yet
    sub,        \* fleet.submit between the membership read and worker.submit
    uploads,    \* _uploads_in_flight holds the serial
    up,         \* [Workers -> the thread's fleet.upload: pc, and the worker it read]
    due,        \* history: jobs in a worker that was stopped, or uploading at a stop control
    started,    \* history: [job, whole] of each start that was published
    mixed,      \* history: the serial was added again before its earlier worker came to rest
    stops

pathVars == <<worker, spent, stopping, sub, uploads, up, due, started, mixed, stops>>
vars     == <<workerVars, ftpsVars, pathVars>>

NoSub == [job |-> None, w |-> None]
NoUp  == [pc |-> "idle", w |-> None]

IsNext(x, S) == x \in S /\ \A y \in S : x <= y

Init ==
    /\ WorkerInit /\ FtpsInit
    /\ \E w \in Workers : IsNext(w, Workers) /\ worker = w /\ spent = {w}
    /\ stopping = None /\ sub = NoSub
    /\ uploads = FALSE
    /\ up = [w \in Workers |-> NoUp]
    /\ due = {} /\ started = {} /\ mixed = FALSE /\ stops = 0

\* The finally block of fleet.upload looks at _stop and clears cancel inside
\* one section of the fleet lock; stop() takes no fleet lock.
LockFree == \A w \in Workers : up[w].pc # "clear"

\* The jobs a stop of w is meant for.
Of(w) == Waiting(w) \cup ({exec[w]} \ {None})

-----------------------------------------------------------------------------
(* Membership.                                                             *)

AddPrinter ==
    /\ LockFree /\ worker = None
    /\ \E w \in Workers : IsNext(w, Workers \ spent) /\ worker' = w /\ spent' = spent \cup {w}
    /\ mixed' = (mixed \/ \E w \in spent : ~halted[w] \/ exec[w] # None)
    /\ UNCHANGED <<workerVars, ftpsVars, stopping, sub, uploads, up, due, started, stops>>

RemovePrinter ==
    /\ LockFree /\ worker # None /\ stopping = None
    /\ stopping' = worker /\ worker' = None
    /\ UNCHANGED <<workerVars, ftpsVars, spent, sub, uploads, up, due, started, mixed, stops>>

\* Outside the lock.
RemoveStops ==
    /\ stopping # None
    /\ Stop(stopping)
    /\ due' = due \cup Of(stopping)
    /\ stopping' = None
    /\ UNCHANGED <<ftpsVars, worker, spent, sub, uploads, up, started, mixed, stops>>

-----------------------------------------------------------------------------
(* submit.                                                                 *)

SubmitReads(j) ==
    /\ LockFree /\ worker # None /\ sub = NoSub
    /\ IsNext(j, {i \in Jobs : fut[i] = "new"})
    /\ sub' = [job |-> j, w |-> worker]
    /\ UNCHANGED <<workerVars, ftpsVars, worker, spent, stopping, uploads, up, due, started,
                   mixed, stops>>

SubmitPuts ==
    /\ sub # NoSub
    /\ Submit(sub.w, sub.job)
    /\ sub' = NoSub
    /\ UNCHANGED <<ftpsVars, worker, spent, stopping, uploads, up, due, started, mixed, stops>>

\* The thread between two jobs.
ThreadTurns(w) ==
    /\ Take(w) \/ Begin(w) \/ Release(w) \/ CancelDrained(w)
    /\ UNCHANGED <<ftpsVars, pathVars>>

-----------------------------------------------------------------------------
(* fleet.upload, in a job.                                                 *)

\* The printer and the worker of that moment are read; without a printer the
\* job gets None and is over.
UploadBegins(w) ==
    /\ LockFree
    /\ exec[w] # None /\ fut[exec[w]] = "running" /\ up[w].pc = "idle"
    /\ IF worker = None
       THEN Settle(w) /\ UNCHANGED up
       ELSE /\ up' = [up EXCEPT ![w] = [pc |-> "flag", w |-> worker]]
            /\ UNCHANGED workerVars
    /\ UNCHANGED <<ftpsVars, worker, spent, stopping, sub, uploads, due, started, mixed, stops>>

\* A second section of the lock, by when the printer may be gone.
UploadFlags(w) ==
    /\ LockFree /\ up[w].pc = "flag"
    /\ uploads' = TRUE
    /\ up' = [up EXCEPT ![w].pc = "send"]
    /\ Starts(w, exec[w])
    /\ UNCHANGED <<workerVars, worker, spent, stopping, sub, due, started, mixed, stops>>

Transfers(w) ==
    /\ up[w].pc = "send"
    /\ ClientStep(w, cancel[up[w].w])
    /\ UNCHANGED <<workerVars, pathVars>>

UploadChecks(w) ==
    /\ LockFree /\ up[w].pc = "send" /\ res[exec[w]] # "none"
    /\ uploads' = FALSE
    /\ up' = [up EXCEPT ![w].pc = IF halted[up[w].w] THEN "done" ELSE "clear"]
    /\ UNCHANGED <<workerVars, ftpsVars, worker, spent, stopping, sub, due, started, mixed, stops>>

\* A plausible slip: the event stays set for the next upload of the worker.
UploadKeepsCancel(w) ==
    /\ up[w].pc = "clear"
    /\ up' = [up EXCEPT ![w].pc = "done"]
    /\ UNCHANGED <<workerVars, ftpsVars, worker, spent, stopping, sub, uploads, due, started,
                   mixed, stops>>

UploadClears(w) ==
    /\ up[w].pc = "clear"
    /\ cancel' = [cancel EXCEPT ![up[w].w] = FALSE]
    /\ up' = [up EXCEPT ![w].pc = "done"]
    /\ UNCHANGED <<queue, queued, hand, exec, running, halted, drained, fut, ftpsVars,
                   worker, spent, stopping, sub, uploads, due, started, mixed, stops>>

\* With the file on the card the job publishes the start; then it is over.
JobEnds(w) ==
    /\ up[w].pc = "done"
    /\ started' = IF res[exec[w]] = "ok"
                  THEN started \cup {[job |-> exec[w], whole |-> WholeOn(exec[w])]}
                  ELSE started
    /\ Settle(w)
    /\ up' = [up EXCEPT ![w] = NoUp]
    /\ UNCHANGED <<ftpsVars, worker, spent, stopping, sub, uploads, due, mixed, stops>>

\* _cancel_inflight_upload.
StopControl ==
    /\ LockFree /\ uploads /\ worker # None /\ stops < MaxStops
    /\ cancel' = [cancel EXCEPT ![worker] = TRUE]
    /\ due' = due \cup {exec[w] : w \in {v \in Workers : up[v].pc \in {"flag", "send"}}}
    /\ stops' = stops + 1
    /\ UNCHANGED <<queue, queued, hand, exec, running, halted, drained, fut, ftpsVars,
                   worker, spent, stopping, sub, uploads, up, started, mixed>>

ThreadRuns(w) ==
    \/ ThreadTurns(w) \/ UploadBegins(w) \/ UploadFlags(w) \/ Transfers(w)
    \/ UploadChecks(w) \/ UploadClears(w) \/ JobEnds(w)

Printer == FtpsEnv /\ UNCHANGED <<workerVars, pathVars>>

Next ==
    \/ AddPrinter \/ RemovePrinter \/ RemoveStops
    \/ \E j \in Jobs : SubmitReads(j)
    \/ SubmitPuts
    \/ \E w \in Workers : ThreadRuns(w)
    \/ StopControl
    \/ Printer

Spec == Init /\ [][Next]_vars

\* Threads run on, the printer finishes what it writes and time passes.
FairSpec ==
    /\ Spec
    /\ \A w \in Workers : WF_vars(ThreadRuns(w))
    /\ WF_vars(RemoveStops) /\ WF_vars(SubmitPuts) /\ WF_vars(Printer)

-----------------------------------------------------------------------------
TypeOK ==
    /\ WorkerTypeOK /\ FtpsTypeOK
    /\ worker \in Workers \cup {None} /\ stopping \in Workers \cup {None}
    /\ spent \subseteq Workers
    /\ sub \in [job : Jobs \cup {None}, w : Workers \cup {None}]
    /\ uploads \in BOOLEAN
    /\ up \in [Workers -> [pc : {"idle", "flag", "send", "clear", "done"},
                           w : Workers \cup {None}]]
    /\ due \subseteq Jobs /\ started \subseteq [job : Jobs, whole : BOOLEAN]
    /\ mixed \in BOOLEAN /\ stops \in 0..MaxStops

\* A start names a file that lies whole on the card, whatever failed, was
\* cancelled or was swept before it - as long as no thread of an earlier
\* membership of the serial was still in a job (app.py _start_cloud_send,
\* printer.upload_file, ftps.upload).
StartFindsItsFile == mixed \/ \A s \in started : s.whole

\* An upload is given up only for a stop that was meant for it: the event one
\* stop has set never ends the next upload of the worker (fleet.py upload and
\* _cancel_inflight_upload).
CancelIsMeant == mixed \/ \A j \in Jobs : res[j] = "cancelled" => j \in due

\* Every job a worker accepted is answered - run, or cancelled by the removal
\* - whatever the transfer does (printer_worker.py, ftps.py _guarded).
AcceptedIsAnswered == \A j \in Jobs : fut[j] = "pending" ~> fut[j] \in Settled
=============================================================================
