-------------------------- MODULE CloudWatchProofs --------------------------
(***************************************************************************)
(* What the watchdog of cloud sends says and does.  For sends that the     *)
(* cloud queues once: a send that is called confirmed ran, and - while no  *)
(* printer asks for a fresh copy - no printer that is silent since its     *)
(* start is reset too soon.  For any sends: what a stop still lets start.  *)
(*                                                                         *)
(* The first two go by what is on disk (OnceInv): RanInv ties it to the    *)
(* last start the printer was given, PhaseInv to the time of that start.   *)
(* The third (HaltInv) goes by the row a pass captured.                    *)
(***************************************************************************)
EXTENDS CloudSendProofs

-----------------------------------------------------------------------------
(* Confirmations: the printer ran what it is said to have run.             *)

\* A send that is served or asked for and has its marker is the last one its printer
\* was given; a restart goes out for a send that is not confirmed.
RanOK(k) ==
    LET p == PrinterOf[k] IN
    /\ marker[k] # None /\ marker[k].confirmed => trail[k].ran
    /\ (row[p].send = k \/ Serving(k)) /\ marker[k] # None => dev[p].last = k
    /\ Serving(k) /\ job[p].pc = "mark" => dev[p].last = k
    /\ Serving(k) /\ job[p].pc = "confirm" => trail[k].ran
    /\ Serving(k) /\ job[p].pc \in {"recopy", "republish"}
         => marker[k] = None \/ ~marker[k].confirmed

\* A printer at work has run the last start it was given.
WorkOK(p) ==
    dev[p].last # None => /\ PrinterOf[dev[p].last] = p
                          /\ dev[p].view = "active" => trail[dev[p].last].ran

RanInv == (\A k \in Sends : RanOK(k)) /\ \A p \in Printers : WorkOK(p)

\* A step of p's pass that starts nothing.
LEMMA PassRan ==
    ASSUME IInv, OnceInv, RanInv, NEW p \in Printers, job[p].pc # "idle",
           UNCHANGED cloudVars, NEW pc, pc # "mark",
           Moved(p, pc) \/ (pc = "idle" /\ Ends(p)),
           \A q \in Printers : dev'[q].last = dev[q].last /\ dev'[q].view = dev[q].view,
           \A k \in Sends : trail'[k].ran = trail[k].ran,
           \A k \in Sends \ {job[p].send} : marker'[k] = marker[k] \/ marker'[k] = None,
           \A k \in Sends : k = job[p].send =>
              /\ marker'[k] # None => marker[k] # None \/ dev[p].last = k
              /\ marker'[k] # None /\ marker'[k].confirmed =>
                    trail[k].ran \/ (marker[k] # None /\ marker[k].confirmed)
              /\ pc = "confirm" => trail[k].ran
              /\ pc \in {"recopy", "republish"} => marker'[k] = None \/ ~marker'[k].confirmed
    PROVE  RanInv'
  <1>1. /\ \A q \in Printers \ {p} : job'[q] = job[q]
        /\ job'[p].pc = pc /\ job'[p].send \in {job[p].send, None}
        /\ row' = row
    BY DEF Moved, Ends, cloudVars
  <1>2. ASSUME NEW q \in Printers PROVE WorkOK(q)'
    <2>1. dev[q].last \in Sends \cup {None}
      BY DEF IInv, TypeOK, DevTypeOK, DevRecords
    <2>2. WorkOK(q) /\ dev'[q].last = dev[q].last /\ dev'[q].view = dev[q].view
      BY DEF RanInv
    <2> QED BY <2>1, <2>2 DEF WorkOK
  <1>3. ASSUME NEW k \in Sends PROVE RanOK(k)'
    <2>1. /\ PrinterOf[k] \in Printers /\ k # None /\ RanOK(k)
          /\ trail'[k].ran = trail[k].ran
          /\ dev'[PrinterOf[k]].last = dev[PrinterOf[k]].last
      BY ConstFacts DEF RanInv
    <2>2. CASE PrinterOf[k] # p
      <3>1. k # job[p].send
        BY <2>2, ConstFacts DEF IInv, OwnSends
      <3>2. marker'[k] = marker[k] \/ marker'[k] = None
        BY <3>1
      <3> QED BY <1>1, <2>1, <2>2, <3>2 DEF RanOK, Serving
    <2>3. CASE PrinterOf[k] = p /\ k # job[p].send
      <3>1. ~Serving(k) /\ ~Serving(k)'
        BY <1>1, <2>1, <2>3 DEF Serving
      <3>2. marker'[k] = marker[k] \/ marker'[k] = None
        BY <2>3
      <3> QED BY <1>1, <2>1, <2>3, <3>1, <3>2 DEF RanOK
    <2>4. CASE PrinterOf[k] = p /\ k = job[p].send
      <3>1. Serving(k)
        BY <2>4 DEF Serving
      <3>2. marker'[k] # None => dev'[p].last = k
        BY <2>1, <2>4, <3>1 DEF RanOK
      <3> QED BY <1>1, <2>1, <2>4, <3>1, <3>2 DEF RanOK
    <2> QED BY <2>2, <2>3, <2>4
  <1> QED BY <1>2, <1>3 DEF RanInv

\* What the worker does to a printer it starts nothing on.
LEMMA WorkerDev ==
    ASSUME IInv, NEW p \in Printers, Worker(p), ~Start(p), ~Republish(p)
    PROVE  \A q \in Printers : dev'[q].last = dev[q].last /\ dev'[q].view = dev[q].view
  <1>1. CASE AdvanceReset(p)
    <2>1. \/ UNCHANGED dev
          \/ dev' = [dev EXCEPT ![p] = [dev[p] EXCEPT !.up = FALSE, !.link = "stale"]]
      BY <1>1 DEF AdvanceReset
    <2>2. dev \in [Printers -> DevRecords]
      BY DEF IInv, TypeOK, DevTypeOK
    <2>3. \A d \in DevRecords : LET u == [d EXCEPT !.up = FALSE, !.link = "stale"]
                                IN  u.last = d.last /\ u.view = d.view
      BY DEF DevRecords
    <2> QED BY <2>1, <2>2, <2>3
  <1>2. CASE UNCHANGED dev
    BY <1>2
  <1>3. CASE FreshStep(p)
    <2>1. UNCHANGED dev
      BY <1>3 DEF FreshStep, FreshWait, FreshRejected, FreshReady, Download,
         DownloadFails, BadPlate, UploadSkipped, Upload, UploadFails, UploadCancelled,
         AuthorizeRefused, AuthorizeOutage, Authorize, StartNotSent, MarkStarted,
         RecordAssignment, RememberAttempt, devVars
    <2> QED BY <1>2, <2>1
  <1>4. CASE WatchdogStep(p) /\ ~AdvanceReset(p)
    <2>1. UNCHANGED dev
      BY <1>4 DEF WatchdogStep, PassNothing, PassCancel, PassKnown, AdvanceDispatched,
         AdvanceConfirm, MarkConfirmed, AdvanceEnterB, AdvanceWait, AdvanceRepublish,
         AdvanceFail, Recopy, RepublishHeld, RepublishNotSent, ResaveAttempt, ResaveFails,
         devVars
    <2> QED BY <1>2, <2>1
  <1>5. CASE SettleStep(p)
    <2>1. UNCHANGED dev
      BY <1>5 DEF SettleStep, FailNotAcked, FailAcked, DropFailed, LatchFailure, Sweep, devVars
    <2> QED BY <1>2, <2>1
  <1> QED BY <1>1, <1>3, <1>4, <1>5 DEF Worker

\* ... and to what its sends have done.
LEMMA WorkerTrail ==
    ASSUME IInv, NEW p \in Printers, Worker(p), ~Start(p), ~Republish(p)
    PROVE  \A k \in Sends : /\ trail'[k].ran = trail[k].ran
                         /\ trail'[k].since = trail[k].since
                         /\ trail'[k].halted = trail[k].halted
                         /\ \/ trail'[k].lost = trail[k].lost
                            \/ ResaveFails(p) /\ k = job[p].send
  <1>0. trail \in [Sends -> TrailRecords]
    BY DEF IInv, TypeOK, HistoryTypeOK
  <1>1. CASE UNCHANGED trail
    BY <1>1
  <1>2. CASE FailAcked(p)
    <2>1. \A b : \A t \in TrailRecords :
            LET u == [t EXCEPT !.reported = b]
            IN  /\ u.ran = t.ran /\ u.since = t.since
                /\ u.lost = t.lost /\ u.halted = t.halted
      BY DEF TrailRecords
    <2>2. PICK b : trail' = [trail EXCEPT ![job[p].send] =
                               [trail[job[p].send] EXCEPT !.reported = b]]
      BY <1>2 DEF FailAcked
    <2> QED BY <1>0, <2>1, <2>2
  <1>3. CASE PassCancel(p) \/ DropFailed(p) \/ Sweep(p)
    <2>1. \A t \in TrailRecords : LET u == [t EXCEPT !.pubs = 0]
                                  IN  /\ u.ran = t.ran /\ u.since = t.since
                                      /\ u.lost = t.lost /\ u.halted = t.halted
      BY DEF TrailRecords
    <2>2. \A k \in Sends : trail'[k] = trail[k] \/ trail'[k] = [trail[k] EXCEPT !.pubs = 0]
      BY <1>0, <1>3 DEF PassCancel, DropFailed, Sweep
    <2> QED BY <1>0, <2>1, <2>2
  <1>4. CASE FreshStep(p)
    <2>1. UNCHANGED trail
      BY <1>4 DEF FreshStep, FreshWait, FreshRejected, FreshReady, Download,
         DownloadFails, BadPlate, UploadSkipped, Upload, UploadFails, UploadCancelled,
         AuthorizeRefused, AuthorizeOutage, Authorize, StartNotSent, MarkStarted,
         RecordAssignment, RememberAttempt
    <2> QED BY <1>1, <2>1
  <1>5. CASE WatchdogStep(p) /\ ~PassCancel(p) /\ ~ResaveFails(p)
    <2>1. UNCHANGED trail
      BY <1>5 DEF WatchdogStep, PassNothing, PassKnown, AdvanceDispatched, AdvanceReset,
         AdvanceConfirm, MarkConfirmed, AdvanceEnterB, AdvanceWait, AdvanceRepublish,
         AdvanceFail, Recopy, RepublishHeld, RepublishNotSent, ResaveAttempt
    <2> QED BY <1>1, <2>1
  <1>6. CASE FailNotAcked(p) \/ LatchFailure(p)
    BY <1>1, <1>6 DEF FailNotAcked, LatchFailure
  <1>7. CASE ResaveFails(p)
    <2>1. \A n : \A t \in TrailRecords : LET u == [t EXCEPT !.lost = n]
                                        IN  /\ u.ran = t.ran /\ u.since = t.since
                                            /\ u.halted = t.halted
      BY DEF TrailRecords
    <2>2. PICK n : trail' = [trail EXCEPT ![job[p].send] =
                               [trail[job[p].send] EXCEPT !.lost = n]]
      BY <1>7 DEF ResaveFails
    <2>3. ASSUME NEW k \in Sends
          PROVE  /\ trail'[k].ran = trail[k].ran /\ trail'[k].since = trail[k].since
                 /\ trail'[k].halted = trail[k].halted
                 /\ k # job[p].send => trail'[k].lost = trail[k].lost
      <3>1. CASE k = job[p].send
        <4>1. trail'[k] = [trail[k] EXCEPT !.lost = n] /\ trail[k] \in TrailRecords
          BY <1>0, <2>2, <3>1
        <4> QED BY <2>1, <3>1, <4>1
      <3>2. CASE k # job[p].send
        BY <1>0, <2>2, <3>2
      <3> QED BY <3>1, <3>2
    <2> QED BY <1>7, <2>3
  <1> QED BY <1>2, <1>3, <1>4, <1>5, <1>6, <1>7 DEF Worker, SettleStep

\* A verdict that confirms saw the printer at work.
LEMMA ConfirmSeen ==
    ASSUME NEW p \in Printers, AdvanceConfirm(p)
    PROVE  dev[p].view = "active"
  <1> DEFINE k == job[p].send
             rec == LoadAttempt(p, k)
             snap == Snapshot(p)
  <1>1. Verdict(p, k) = "confirm"
    BY DEF AdvanceConfirm, Advancing
  <1>2. Verdict(p, k) \in {"republish", "wait", Decide(rec, snap)}
    BY DEF Verdict
  <1>3. SnapshotIsActive(snap) \/ Decide(rec, snap) # "confirm"
    <2>1. \A r, s : /\ DecidePending(r) # "confirm" /\ DecideB(r) # "confirm"
                    /\ DecideA(r, s) # "confirm"
      BY DEF DecidePending, DecideB, DecideA
    <2> QED BY <2>1 DEF Decide
  <1> QED BY <1>1, <1>2, <1>3 DEF SnapshotIsActive, Snapshot

\* A pass that goes on to confirm its send saw the printer at work.
Confirms(p) == job[p].pc \in {"remember", "advance"} /\ dev[p].view = "active"

\* Where a pass goes: on, or it ends.
LEMMA WorkerMoves ==
    ASSUME IInv, NEW p \in Printers, Worker(p)
    PROVE  /\ job[p].pc # "idle" /\ UNCHANGED cloudVars
           /\ \E pc \in Steps : /\ Moved(p, pc) \/ (pc = "idle" /\ Ends(p))
                                /\ pc = "mark" => Start(p)
                                /\ pc = "recopy" => AdvanceRepublish(p)
                                /\ pc = "republish" => Recopy(p)
                                /\ pc = "confirm" => Confirms(p)
  <1>0. JobTypeOK
    BY DEF IInv, TypeOK
  <1>1. ASSUME NEW pc \in {"sweep", "fail", "download", "upload", "auth", "start", "assign",
                           "remember", "advance", "resave", "drop", "latch"},
               Keeps(p, pc) \/ Moved(p, pc)
        PROVE  \E s \in Steps : /\ Moved(p, s) \/ (s = "idle" /\ Ends(p))
                                /\ s = "mark" => Start(p)
                                /\ s = "recopy" => AdvanceRepublish(p)
                                /\ s = "republish" => Recopy(p)
                                /\ s = "confirm" => Confirms(p)
    BY <1>1 DEF Keeps, Steps, LongSteps
  <1>2. ASSUME Ends(p)
        PROVE  \E s \in Steps : /\ Moved(p, s) \/ (s = "idle" /\ Ends(p))
                                /\ s = "mark" => Start(p)
                                /\ s = "recopy" => AdvanceRepublish(p)
                                /\ s = "republish" => Recopy(p)
                                /\ s = "confirm" => Confirms(p)
    <2>1. "idle" \in Steps
      BY DEF Steps, LongSteps
    <2> QED BY <1>2, <2>1
  <1>3. ASSUME FreshStep(p)
        PROVE  \/ Keeps(p, "mark") /\ Start(p)
               \/ Ends(p)
               \/ Keeps(p, "confirm") /\ Confirms(p)
               \/ \E pc \in {"sweep", "fail", "download", "upload", "auth", "start", "assign",
                             "remember"} : Keeps(p, pc)
    <2>1. CASE \/ FreshWait(p) \/ FreshRejected(p) \/ Download(p) \/ DownloadFails(p)
               \/ BadPlate(p) \/ AuthorizeRefused(p) \/ AuthorizeOutage(p)
      BY <1>0, <2>1, Keeping DEF FreshWait, FreshRejected, Download, DownloadFails, BadPlate,
         AuthorizeRefused, AuthorizeOutage
    <2>2. CASE FreshReady(p) \/ Authorize(p)
      BY <1>0, <2>2, Keeping DEF FreshReady, Authorize, SlotHeld
    <2>3. CASE UploadFails(p) \/ StartNotSent(p)
      BY <1>0, <2>3, Keeping DEF UploadFails, StartNotSent, CountSetupFailure
    <2>4. CASE UploadSkipped(p) \/ Upload(p) \/ UploadCancelled(p)
      BY <1>0, <2>4, Keeping DEF UploadSkipped, Upload, UploadCancelled
    <2>5. CASE Start(p) \/ MarkStarted(p) \/ RecordAssignment(p)
      BY <1>0, <2>5, Keeping DEF Start, MarkStarted, RecordAssignment
    <2>6. CASE RememberAttempt(p)
      <3>1. /\ job[p].pc = "remember"
            /\ Goto(p, IF dev[p].view = "active" THEN "confirm" ELSE "sweep")
        BY <2>6 DEF RememberAttempt
      <3> QED BY <1>0, <3>1, Keeping DEF Confirms
    <2> QED BY <1>3, <2>1, <2>2, <2>3, <2>4, <2>5, <2>6 DEF FreshStep
  <1>4. ASSUME WatchdogStep(p)
        PROVE  \/ Keeps(p, "recopy") /\ AdvanceRepublish(p)
               \/ Keeps(p, "republish") /\ Recopy(p)
               \/ Keeps(p, "confirm") /\ Confirms(p)
               \/ Ends(p)
               \/ \E pc \in {"sweep", "fail", "advance", "resave"} : Keeps(p, pc)
    <2>1. CASE \/ PassNothing(p) \/ PassCancel(p) \/ PassKnown(p) \/ AdvanceDispatched(p)
               \/ MarkConfirmed(p) \/ AdvanceEnterB(p) \/ AdvanceWait(p) \/ AdvanceFail(p)
               \/ AdvanceReset(p)
      BY <1>0, <2>1, Keeping DEF PassNothing, PassCancel, PassKnown, AdvanceDispatched,
         MarkConfirmed, AdvanceEnterB, AdvanceWait, AdvanceFail, AdvanceReset
    <2>2. CASE \/ Recopy(p) \/ RepublishNotSent(p) \/ Republish(p) \/ ResaveAttempt(p)
      BY <1>0, <2>2, Keeping DEF Recopy, RepublishNotSent, Republish, ResaveAttempt
    <2>3. CASE RepublishHeld(p)
      BY <1>0, <2>3, Keeping DEF RepublishHeld, SlotHeld
    <2>4. CASE AdvanceRepublish(p)
      <3>1. \/ Goto(p, "sweep")
            \/ \E verdict \in {"republish", "retry"} :
                 job' = [job EXCEPT ![p] = RecopyOf(job[p], verdict = "retry", TrayPresent(p),
                                dev[p].parse /\ Readable(p), LoadAttempt(p, job[p].send))]
        BY <2>4 DEF AdvanceRepublish, RecopyOf
      <3> QED BY <1>0, <2>4, <3>1, Keeping
    <2>5. CASE AdvanceConfirm(p)
      <3>1. job[p].pc = "advance" /\ Goto(p, "confirm")
        BY <2>5 DEF AdvanceConfirm, Advancing
      <3> QED BY <1>0, <2>5, <3>1, Keeping, ConfirmSeen DEF Confirms
    <2>6. CASE ResaveFails(p)
      BY <1>0, <2>6, Keeping DEF ResaveFails
    <2> QED BY <1>4, <2>1, <2>2, <2>3, <2>4, <2>5, <2>6 DEF WatchdogStep
  <1>5. ASSUME SettleStep(p)
        PROVE  Ends(p) \/ \E pc \in {"sweep", "drop", "latch"} : Keeps(p, pc)
    BY <1>0, <1>5, Keeping DEF SettleStep, FailNotAcked, FailAcked, DropFailed, LatchFailure,
       Sweep
  <1>6. \E s \in Steps : /\ Moved(p, s) \/ (s = "idle" /\ Ends(p))
                         /\ s = "mark" => Start(p)
                         /\ s = "recopy" => AdvanceRepublish(p)
                         /\ s = "republish" => Recopy(p)
                         /\ s = "confirm" => Confirms(p)
    <2>1. {"mark", "recopy", "republish", "confirm"} \subseteq Steps
      BY DEF Steps, LongSteps
    <2>2. CASE Keeps(p, "mark") /\ Start(p)
      BY <2>1, <2>2 DEF Keeps
    <2>3. CASE Keeps(p, "recopy") /\ AdvanceRepublish(p)
      BY <2>1, <2>3 DEF Keeps
    <2>4. CASE Keeps(p, "republish") /\ Recopy(p)
      BY <2>1, <2>4 DEF Keeps
    <2>5. CASE Keeps(p, "confirm") /\ Confirms(p)
      BY <2>1, <2>5 DEF Keeps
    <2> QED BY <1>1, <1>2, <1>3, <1>4, <1>5, <2>2, <2>3, <2>4, <2>5 DEF Worker
  <1>7. job[p].pc # "idle" /\ UNCHANGED cloudVars
    <2>1. CASE FreshStep(p)
      BY <2>1 DEF FreshStep, FreshWait, FreshRejected, FreshReady, Download,
         DownloadFails, BadPlate, UploadSkipped, Upload, UploadFails, UploadCancelled,
         AuthorizeRefused, AuthorizeOutage, Authorize, Start, StartNotSent, MarkStarted,
         RecordAssignment, RememberAttempt
    <2>2. CASE WatchdogStep(p)
      BY <2>2 DEF WatchdogStep, PassNothing, PassCancel, PassKnown, AdvanceDispatched, Advancing,
         AdvanceConfirm, MarkConfirmed, AdvanceEnterB, AdvanceWait, AdvanceReset,
         AdvanceRepublish, AdvanceFail, Recopy, RepublishHeld, RepublishNotSent, Republish,
         ResaveAttempt, ResaveFails
    <2>3. CASE SettleStep(p)
      BY <2>3 DEF SettleStep, FailNotAcked, FailAcked, DropFailed, LatchFailure, Sweep
    <2> QED BY <2>1, <2>2, <2>3 DEF Worker
  <1> QED BY <1>6, <1>7

\* What the worker does to the markers when it starts nothing.
LEMMA WorkerMarker ==
    ASSUME IInv, NEW p \in Printers, Worker(p), ~Start(p), ~Republish(p)
    PROVE  \/ \A k \in Sends : marker'[k] \in {marker[k], None}
           \/ /\ MarkStarted(p)
              /\ marker' = [marker EXCEPT ![job[p].send] = [confirmed |-> FALSE, age |-> 0]]
           \/ /\ MarkConfirmed(p)
              /\ marker' = [marker EXCEPT ![job[p].send] = [confirmed |-> TRUE, age |-> 0]]
  <1>1. CASE UNCHANGED marker
    BY <1>1
  <1>2. CASE MarkStarted(p)
    BY <1>2 DEF MarkStarted
  <1>3. CASE RememberAttempt(p)
    BY <1>1, <1>3 DEF RememberAttempt
  <1>4. CASE MarkConfirmed(p)
    BY <1>4 DEF MarkConfirmed
  <1>5. CASE PassCancel(p) \/ DropFailed(p) \/ Sweep(p)
    <2>1. marker \in [Sends -> [confirmed : BOOLEAN, age : Ages] \cup {None}]
      BY DEF IInv, TypeOK, SpoolTypeOK
    <2> QED BY <1>5, <2>1 DEF PassCancel, DropFailed, ClearPending, Sweep
  <1>6. CASE FreshStep(p) /\ ~MarkStarted(p) /\ ~RememberAttempt(p)
    <2>1. UNCHANGED marker
      BY <1>6 DEF FreshStep, FreshWait, FreshRejected, FreshReady, Download,
         DownloadFails, BadPlate, UploadSkipped, Upload, UploadFails, UploadCancelled,
         AuthorizeRefused, AuthorizeOutage, Authorize, StartNotSent, RecordAssignment,
         spoolVars
    <2> QED BY <1>1, <2>1
  <1>7. CASE WatchdogStep(p) /\ ~PassCancel(p) /\ ~MarkConfirmed(p)
    <2>1. UNCHANGED marker
      BY <1>7 DEF WatchdogStep, PassNothing, PassKnown, AdvanceDispatched, AdvanceReset,
         AdvanceConfirm, AdvanceEnterB, AdvanceWait, AdvanceRepublish, AdvanceFail, Recopy,
         RepublishHeld, RepublishNotSent, ResaveAttempt, ResaveFails, spoolVars
    <2> QED BY <1>1, <2>1
  <1>8. CASE FailNotAcked(p) \/ FailAcked(p) \/ LatchFailure(p)
    BY <1>1, <1>8 DEF FailNotAcked, FailAcked, LatchFailure, spoolVars
  <1> QED BY <1>2, <1>3, <1>4, <1>5, <1>6, <1>7, <1>8 DEF Worker, SettleStep

\* A step of the worker that starts nothing.
LEMMA QuietRan ==
    ASSUME IInv, OnceInv, RanInv, NEW p \in Printers, Worker(p), ~Start(p), ~Republish(p)
    PROVE  RanInv'
  <1>0. /\ marker \in [Sends -> [confirmed : BOOLEAN, age : Ages] \cup {None}]
        /\ job[p].send \in Sends \cup {None}
    BY DEF IInv, TypeOK, SpoolTypeOK, JobTypeOK, JobRecords
  <1>1. /\ \A q \in Printers : dev'[q].last = dev[q].last /\ dev'[q].view = dev[q].view
        /\ \A k \in Sends : trail'[k].ran = trail[k].ran
        /\ job[p].pc # "idle" /\ UNCHANGED cloudVars
    BY WorkerDev, WorkerTrail, WorkerMoves
  <1>2. PICK pc \in Steps : /\ Moved(p, pc) \/ (pc = "idle" /\ Ends(p))
                            /\ pc # "mark"
                            /\ pc = "recopy" => AdvanceRepublish(p)
                            /\ pc = "republish" => Recopy(p)
                            /\ pc = "confirm" => Confirms(p)
    BY WorkerMoves
  <1>3. \A k \in Sends : k = job[p].send => RanOK(k) /\ GoesByMarker(k) /\ Serving(k)
    BY ConstFacts DEF RanInv, OnceInv, IInv, OwnSends, Serving
  <1>8. ASSUME NEW k \in Sends, k = job[p].send, pc = "confirm" PROVE trail[k].ran
    <2>1. job[p].pc \in {"remember", "advance"} /\ dev[p].view = "active"
      BY <1>2, <1>8 DEF Confirms
    <2>2. PrinterOf[k] = p /\ k # None
      BY <1>8, ConstFacts DEF IInv, OwnSends
    <2>3. marker[k] # None
      BY <1>3, <1>8, <2>1, <2>2 DEF GoesByMarker, AfterStart
    <2>4. dev[p].last = k
      BY <1>3, <1>8, <2>2, <2>3 DEF RanOK
    <2>5. WorkOK(p)
      BY DEF RanInv
    <2> QED BY <2>1, <2>2, <2>4, <2>5 DEF WorkOK
  <1>4. CASE \A k \in Sends : marker'[k] \in {marker[k], None}
    <2>1. \A k \in Sends : k = job[p].send /\ pc \in {"recopy", "republish"} =>
             marker'[k] = None \/ ~marker'[k].confirmed
      <3>1. CASE pc = "recopy"
        BY <1>2, <1>4, <3>1 DEF AdvanceRepublish, Advancing, AlreadyConfirmed
      <3>2. CASE pc = "republish"
        <4>1. job[p].pc = "recopy"
          BY <1>2, <3>2 DEF Recopy
        <4>2. \A k \in Sends : k = job[p].send => PrinterOf[k] = p
          BY ConstFacts DEF IInv, OwnSends
        <4> QED BY <1>3, <1>4, <4>1, <4>2 DEF RanOK
      <3> QED BY <3>1, <3>2
    <2>2. \A k \in Sends : k = job[p].send =>
             /\ marker'[k] # None => marker[k] # None
             /\ marker'[k] # None /\ marker'[k].confirmed => trail[k].ran
      BY <1>3, <1>4 DEF RanOK
    <2> QED BY <1>1, <1>2, <1>4, <1>8, <2>1, <2>2, PassRan
  <1>5. ASSUME NEW c \in BOOLEAN,
               marker' = [marker EXCEPT ![job[p].send] = [confirmed |-> c, age |-> 0]],
               \A k \in Sends : k = job[p].send =>
                  dev[p].last = k /\ (c => trail[k].ran),
               pc \notin {"recopy", "republish"}
        PROVE  RanInv'
    <2>1. \A k \in Sends \ {job[p].send} : marker'[k] = marker[k]
      BY <1>0, <1>5
    <2>2. \A k \in Sends : k = job[p].send => marker'[k].confirmed = c
      BY <1>0, <1>5
    <2> QED BY <1>1, <1>2, <1>5, <1>8, <2>1, <2>2, PassRan
  <1>6. CASE /\ MarkStarted(p)
             /\ marker' = [marker EXCEPT ![job[p].send] = [confirmed |-> FALSE, age |-> 0]]
    <2>1. job[p].pc = "mark"
      BY <1>6 DEF MarkStarted
    <2>2. pc \notin {"recopy", "republish"}
      BY <1>2, <2>1 DEF AdvanceRepublish, Advancing, Recopy
    <2>3. \A k \in Sends : k = job[p].send => dev[p].last = k
      <3>1. \A k \in Sends : k = job[p].send => PrinterOf[k] = p
        BY ConstFacts DEF IInv, OwnSends
      <3> QED BY <1>3, <2>1, <3>1 DEF RanOK
    <2> QED BY <1>5, <1>6, <2>2, <2>3
  <1>7. CASE /\ MarkConfirmed(p)
             /\ marker' = [marker EXCEPT ![job[p].send] = [confirmed |-> TRUE, age |-> 0]]
    <2>1. job[p].pc = "confirm"
      BY <1>7 DEF MarkConfirmed
    <2>2. pc \notin {"recopy", "republish"}
      BY <1>2, <2>1 DEF AdvanceRepublish, Advancing, Recopy
    <2>3. \A k \in Sends : k = job[p].send => dev[p].last = k /\ trail[k].ran
      <3> SUFFICES ASSUME NEW k \in Sends, k = job[p].send
                   PROVE  dev[p].last = k /\ trail[k].ran
        OBVIOUS
      <3>1. PrinterOf[k] = p /\ k # None
        BY ConstFacts DEF IInv, OwnSends
      <3>2. marker[k] # None
        BY <1>3, <2>1, <3>1 DEF GoesByMarker, AfterStart
      <3> QED BY <1>3, <2>1, <3>1, <3>2 DEF RanOK
    <2> QED BY <1>5, <1>7, <2>2, <2>3
  <1> QED BY <1>4, <1>6, <1>7, WorkerMarker

\* A start: the printer was not at work, and no other send of it has a marker while
\* it is asked for.
LEMMA StartRan ==
    ASSUME IInv, OnceInv, RanInv, NEW p \in Printers, Start(p) \/ Republish(p)
    PROVE  RanInv'
  <1>1. /\ JobTypeOK /\ HistoryTypeOK /\ dev \in [Printers -> DevRecords]
        /\ job[p].send \in Sends /\ PrinterOf[job[p].send] = p
        /\ job[p].pc \in {"start", "republish"}
    BY ConstFacts DEF IInv, TypeOK, OwnSends, JobTypeOK, JobRecords, Start, Republish,
       DevTypeOK
  <1>2. PICK k \in Sends : k = job[p].send /\ PrinterOf[k] = p
    BY <1>1
  <1>3. Unseen(k) /\ GoesByMarker(k) /\ RanOK(k) /\ Serving(k) /\ k # None
    BY <1>2, ConstFacts DEF OnceInv, RanInv, Serving
  <1>4. PICK pc \in {"mark", "resave"} : Moved(p, pc)
    BY <1>1, GotoJob DEF Start, Republish, Steps
  <1>5. UNCHANGED <<row, marker>>
    BY DEF Start, Republish, cloudVars, spoolVars
  <1>6. /\ dev'[p].last = k /\ dev'[p].view # "active"
        /\ \A q \in Printers \ {p} : dev'[q] = dev[q]
    <2>1. /\ dev[p].view # "active"
          /\ dev' = [dev EXCEPT ![p] = [dev[p] EXCEPT !.sub = dev[p].sub + 1, !.last = k]]
      BY <1>2 DEF Start, Republish, CanPublish, Publish
    <2>2. \A n : \A d \in DevRecords : LET u == [d EXCEPT !.sub = n, !.last = k]
                                       IN  u.last = k /\ u.view = d.view
      BY DEF DevRecords
    <2> QED BY <1>1, <2>1, <2>2
  <1>7. /\ \A j \in Sends \ {k} : trail'[j] = trail[j]
    BY <1>1, <1>2 DEF Start, Republish, HistoryTypeOK
  <1>8. marker[k] = None \/ ~marker[k].confirmed
    BY <1>1, <1>2, <1>3 DEF GoesByMarker, BeforeStart, RanOK
  <1>9. ASSUME NEW q \in Printers PROVE WorkOK(q)'
    <2>1. CASE q = p
      BY <1>2, <1>6, <2>1 DEF WorkOK
    <2>2. CASE q # p
      <3>1. WorkOK(q) /\ dev'[q] = dev[q] /\ dev[q].last \in Sends \cup {None}
        BY <1>1, <1>6, <2>2 DEF RanInv, DevRecords
      <3>2. dev[q].last # k
        BY <1>2, <1>3, <2>2, <3>1 DEF WorkOK
      <3> QED BY <1>7, <3>1, <3>2 DEF WorkOK
    <2> QED BY <2>1, <2>2
  <1>10. RanOK(k)'
    BY <1>2, <1>4, <1>5, <1>6, <1>8 DEF RanOK, Moved
  <1>11. ASSUME NEW j \in Sends, j # k PROVE RanOK(j)'
    <2>1. RanOK(j) /\ Unseen(j) /\ trail'[j] = trail[j] /\ PrinterOf[j] \in Printers
      BY <1>7, <1>11, ConstFacts DEF RanInv, OnceInv
    <2>2. CASE PrinterOf[j] = p
      <3>1. ~Serving(j) /\ ~Serving(j)'
        BY <1>2, <1>4, <1>11, <2>2 DEF Serving, Moved
      <3>2. row[p].send = j => marker[j] = None
        BY <1>1, <2>1, <2>2, <3>1 DEF Unseen, Known, SendKnown
      <3> QED BY <1>5, <2>1, <2>2, <3>1, <3>2 DEF RanOK
    <2>3. CASE PrinterOf[j] # p
      <3>1. /\ dev'[PrinterOf[j]] = dev[PrinterOf[j]]
            /\ job'[PrinterOf[j]] = job[PrinterOf[j]]
        BY <1>4, <1>6, <2>1, <2>3 DEF Moved
      <3> QED BY <1>5, <2>1, <3>1 DEF RanOK, Serving
    <2> QED BY <2>2, <2>3
  <1> QED
    <2>1. \A j \in Sends : RanOK(j)'
      BY <1>10, <1>11
    <2> QED BY <1>9, <2>1 DEF RanInv

\* A step outside the passes.
LEMMA AsideRan ==
    ASSUME IInv, RanInv,
           \A p \in Printers : \/ job'[p].pc = job[p].pc /\ job'[p].send = job[p].send
                               \/ /\ job'[p].pc \in {"idle", "pass"}
                                  /\ job'[p].send \in {row[p].send, None},
           \A k \in Sends : /\ row'[PrinterOf[k]].send = k
                                 => row[PrinterOf[k]].send = k \/ marker[k] = None
                            /\ marker'[k] # None => /\ marker[k] # None
                                                    /\ marker'[k].confirmed = marker[k].confirmed
                            /\ trail[k].ran => trail'[k].ran,
           \A p \in Printers :
              /\ dev'[p].last = dev[p].last
              /\ dev'[p].view = "active" /\ dev[p].last # None
                   => dev[p].view = "active" \/ trail'[dev[p].last].ran
    PROVE  RanInv'
  <1>1. ASSUME NEW k \in Sends PROVE RanOK(k)'
    <2>1. RanOK(k) /\ PrinterOf[k] \in Printers /\ k # None
      BY ConstFacts DEF RanInv
    <2> QED BY <2>1 DEF RanOK, Serving
  <1>2. ASSUME NEW p \in Printers PROVE WorkOK(p)'
    <2>1. WorkOK(p) /\ dev[p].last \in Sends \cup {None}
      BY DEF RanInv, IInv, TypeOK, DevTypeOK, DevRecords
    <2> QED BY <2>1 DEF WorkOK
  <1> QED BY <1>1, <1>2 DEF RanInv

\* A report, and what the session goes through, leaves the last start as it was; a
\* report of work says that it ran.
LEMMA PrinterRan ==
    ASSUME IInv, NEW p \in Printers, PrinterStep(p)
    PROVE  /\ \A q \in Printers :
                 /\ dev'[q].last = dev[q].last
                 /\ dev'[q].view = "active" /\ dev[q].last # None
                      => dev[q].view = "active" \/ trail'[dev[q].last].ran
           /\ \A k \in Sends : trail[k].ran => trail'[k].ran
  <1>0. dev \in [Printers -> DevRecords] /\ trail \in [Sends -> TrailRecords]
    BY DEF IInv, TypeOK, DevTypeOK, HistoryTypeOK
  <1>1. ASSUME UNCHANGED trail, \A q \in Printers : /\ dev'[q].last = dev[q].last
                                                    /\ dev'[q].view = dev[q].view
        PROVE  /\ \A q \in Printers :
                     /\ dev'[q].last = dev[q].last
                     /\ dev'[q].view = "active" /\ dev[q].last # None
                          => dev[q].view = "active" \/ trail'[dev[q].last].ran
               /\ \A k \in Sends : trail[k].ran => trail'[k].ran
    BY <1>1
  <1>2. ASSUME NEW view \in {"ready", "active"}, ReportView(p, view)
        PROVE  /\ \A q \in Printers :
                     /\ dev'[q].last = dev[q].last
                     /\ dev'[q].view = "active" /\ dev[q].last # None
                          => dev[q].view = "active" \/ trail'[dev[q].last].ran
               /\ \A k \in Sends : trail[k].ran => trail'[k].ran
    <2>1. dev' = [dev EXCEPT ![p] = [dev[p] EXCEPT !.quiet = 0, !.link = "live", !.view = view]]
      BY <1>2 DEF ReportView, Heard
    <2>2. \A d \in DevRecords : LET u == [d EXCEPT !.quiet = 0, !.link = "live", !.view = view]
                                IN  u.last = d.last /\ u.view = view
      BY DEF DevRecords
    <2>3. /\ dev'[p].last = dev[p].last /\ dev'[p].view = view
          /\ \A q \in Printers \ {p} : dev'[q] = dev[q]
      BY <1>0, <2>1, <2>2
    <2>4. CASE view = "active" /\ dev[p].last # None
      <3>1. PICK k \in Sends : k = dev[p].last
        BY <1>0, <2>4 DEF DevRecords
      <3>2. trail' = [trail EXCEPT ![k] = [trail[k] EXCEPT !.ran = TRUE]]
        BY <1>2, <2>4, <3>1 DEF ReportView
      <3>3. trail'[k].ran /\ \A j \in Sends \ {k} : trail'[j] = trail[j]
        <4>1. \A t \in TrailRecords : [t EXCEPT !.ran = TRUE].ran
          BY DEF TrailRecords
        <4> QED BY <1>0, <3>2, <4>1
      <3> QED BY <2>3, <3>1, <3>3
    <2>5. CASE ~(view = "active" /\ dev[p].last # None)
      <3>1. UNCHANGED trail
        BY <1>2, <2>5 DEF ReportView
      <3> QED BY <2>3, <2>5, <3>1
    <2> QED BY <2>4, <2>5
  <1>3. CASE ReportEcho(p)
    <2>1. dev' = [dev EXCEPT ![p] = [dev[p] EXCEPT !.quiet = 0, !.link = "live",
                                                   !.echo = dev[p].sub]]
      BY <1>3 DEF ReportEcho, Heard
    <2>2. \A v : \A d \in DevRecords :
            LET u == [d EXCEPT !.quiet = 0, !.link = "live", !.echo = v]
            IN  u.last = d.last /\ u.view = d.view
      BY DEF DevRecords
    <2> QED BY <1>0, <1>1, <1>3, <2>1, <2>2 DEF ReportEcho
  <1>4. CASE ReportName(p)
    <2>1. dev' = [dev EXCEPT ![p] = [dev[p] EXCEPT !.quiet = 0, !.link = "live",
                                                   !.name = dev[p].last]]
      BY <1>4 DEF ReportName, Heard
    <2>2. \A v : \A d \in DevRecords :
            LET u == [d EXCEPT !.quiet = 0, !.link = "live", !.name = v]
            IN  u.last = d.last /\ u.view = d.view
      BY DEF DevRecords
    <2> QED BY <1>0, <1>1, <1>4, <2>1, <2>2 DEF ReportName
  <1>5. ASSUME NEW flag \in {"tray", "parse", "rejects"}, ReportFlag(p, flag)
        PROVE  /\ UNCHANGED trail
               /\ \A q \in Printers : dev'[q].last = dev[q].last /\ dev'[q].view = dev[q].view
    <2>1. PICK b, f : dev' = [dev EXCEPT ![p] = [dev[p] EXCEPT !.quiet = 0, !.link = "live",
                                                               !.bare = b, ![flag] = f]]
      BY <1>5 DEF ReportFlag
    <2>2. \A d \in DevRecords :
            LET u == [d EXCEPT !.quiet = 0, !.link = "live", !.bare = b, ![flag] = f]
            IN  u.last = d.last /\ u.view = d.view
      BY DEF DevRecords
    <2> QED BY <1>0, <1>5, <2>1, <2>2 DEF ReportFlag
  <1>6. CASE LinkDown(p) \/ LinkUp(p)
    <2>1. UNCHANGED trail
      BY <1>6 DEF LinkDown, LinkUp
    <2>2. \/ dev' = [dev EXCEPT ![p] = [dev[p] EXCEPT !.up = FALSE, !.link = "stale"]]
          \/ dev' = [dev EXCEPT ![p] = [dev[p] EXCEPT !.link = "stale"]]
          \/ dev' = [dev EXCEPT ![p] = [dev[p] EXCEPT !.link = "offline", !.bare = FALSE]]
          \/ dev' = [dev EXCEPT ![p] = [dev[p] EXCEPT !.up = TRUE, !.link = "stale",
                                                      !.quiet = 0]]
      BY <1>0, <1>6 DEF LinkDown, LinkUp
    <2>3. \A d \in DevRecords :
            /\ LET u == [d EXCEPT !.up = FALSE, !.link = "stale"]
               IN  u.last = d.last /\ u.view = d.view
            /\ LET u == [d EXCEPT !.link = "stale"] IN u.last = d.last /\ u.view = d.view
            /\ LET u == [d EXCEPT !.link = "offline", !.bare = FALSE]
               IN  u.last = d.last /\ u.view = d.view
            /\ LET u == [d EXCEPT !.up = TRUE, !.link = "stale", !.quiet = 0]
               IN  u.last = d.last /\ u.view = d.view
      BY DEF DevRecords
    <2>4. PICK d : /\ dev' = [dev EXCEPT ![p] = d]
                   /\ d.last = dev[p].last /\ d.view = dev[p].view
      BY <1>0, <2>2, <2>3
    <2>5. \A q \in Printers : dev'[q].last = dev[q].last /\ dev'[q].view = dev[q].view
      BY <1>0, <2>4
    <2> QED BY <1>1, <2>1, <2>5
  <1>7. CASE AssignmentSeen(p) \/ AssignmentEnds(p)
    BY <1>1, <1>7 DEF AssignmentSeen, AssignmentEnds, devVars
  <1> QED BY <1>1, <1>2, <1>3, <1>4, <1>5, <1>6, <1>7 DEF PrinterStep

LEMMA OutsideRan ==
    ASSUME IInv, OnceInv, RanInv, MaxVer = 1,
           \/ ReportPass \/ ReportOutage \/ UNCHANGED vars
           \/ \E p \in Printers : PrinterStep(p) \/ CloudStep(p)
    PROVE  RanInv'
  <1>0. CloudTypeOK /\ JobTypeOK /\ HistoryTypeOK
    BY DEF IInv, TypeOK
  <1>1. CASE ReportOutage \/ UNCHANGED vars
    <2>1. UNCHANGED <<row, job, marker, dev, trail>>
      BY <1>1 DEF ReportOutage, vars, cloudVars, spoolVars, devVars
    <2> QED BY <2>1, AsideRan
  <1>2. CASE ReportPass
    <2>1. UNCHANGED <<row, marker, dev>>
      BY <1>2 DEF ReportPass, cloudVars, devVars
    <2>2. \A k \in Sends : trail'[k].ran = trail[k].ran
      <3>1. \A k \in Sends : \/ trail'[k] = trail[k]
                             \/ trail'[k] = [trail[k] EXCEPT !.halted = "just"]
        BY <1>2 DEF ReportPass
      <3>2. \A k \in Sends : [trail[k] EXCEPT !.halted = "just"].ran = trail[k].ran
        BY <1>0 DEF HistoryTypeOK, TrailRecords
      <3> QED BY <3>1, <3>2
    <2>3. ASSUME NEW p \in Printers
          PROVE  \/ job'[p].pc = job[p].pc /\ job'[p].send = job[p].send
                 \/ job'[p].pc \in {"idle", "pass"} /\ job'[p].send \in {row[p].send, None}
      <3>1. \/ job[p].pc = "idle" /\ job'[p] = Submitted(p)
            \/ job'[p] = job[p] \/ job'[p] = [job[p] EXCEPT !.cancel = TRUE]
        BY <1>2 DEF ReportPass
      <3>2. /\ [job[p] EXCEPT !.cancel = TRUE].pc = job[p].pc
            /\ [job[p] EXCEPT !.cancel = TRUE].send = job[p].send
        BY <1>0 DEF JobTypeOK, JobRecords
      <3> QED BY <1>0, <3>1, <3>2, SubmittedType
    <2> QED BY <2>1, <2>2, <2>3, AsideRan
  <1>3. ASSUME NEW p \in Printers, PrinterStep(p) PROVE RanInv'
    <2>1. UNCHANGED <<row, job, marker>>
      BY <1>3 DEF PrinterStep, ReportView, ReportEcho, ReportName, ReportFlag, LinkDown, LinkUp,
         AssignmentSeen, AssignmentEnds, Heard, cloudVars, spoolVars
    <2> QED BY <1>3, <2>1, PrinterRan, AsideRan
  <1>4. ASSUME NEW p \in Printers, CloudStep(p) PROVE RanInv'
    <2>1. UNCHANGED <<job, marker, dev>>
      BY <1>4 DEF CloudStep, CloudQueue, CloudDrop, CloudControl, spoolVars, devVars
    <2>2. \A k \in Sends : row'[PrinterOf[k]].send = k
                             => row[PrinterOf[k]].send = k \/ marker[k] = None
      <3> SUFFICES ASSUME NEW k \in Sends, row'[PrinterOf[k]].send = k
                   PROVE  row[PrinterOf[k]].send = k \/ marker[k] = None
        OBVIOUS
      <3>1. PrinterOf[k] \in Printers /\ k # None /\ Unseen(k)
        BY ConstFacts DEF OnceInv
      <3>2. ASSUME NEW j \in Sends, CloudQueue(p, j)
            PROVE  row[PrinterOf[k]].send = k \/ marker[k] = None
        <4>1. ver[j] = 0 /\ row' = [row EXCEPT ![p] = [send |-> j, ctl |-> "none"]]
          BY <1>0, <3>2 DEF CloudQueue, CloudTypeOK
        <4>2. row'[PrinterOf[k]].send = row[PrinterOf[k]].send \/ k = j
          BY <1>0, <3>1, <4>1 DEF CloudTypeOK
        <4> QED BY <3>1, <4>1, <4>2 DEF Unseen, Known, SendKnown
      <3>3. CASE CloudDrop(p)
        BY <1>0, <3>1, <3>3 DEF CloudDrop, NoRow, CloudTypeOK
      <3>4. CASE \E ctl : CloudControl(p, ctl)
        BY <1>0, <3>1, <3>4 DEF CloudControl, CloudTypeOK
      <3> QED BY <1>4, <3>2, <3>3, <3>4 DEF CloudStep
    <2>3. \A k \in Sends : trail'[k].ran = trail[k].ran
      <3>1. CASE UNCHANGED trail
        BY <3>1
      <3>2. CASE CloudDrop(p)
        <4>1. trail' = [trail EXCEPT ![row[p].send] =
                          [trail[row[p].send] EXCEPT !.reported = FALSE, !.halted = "no"]]
          BY <3>2 DEF CloudDrop
        <4>2. \A t \in TrailRecords : [t EXCEPT !.reported = FALSE, !.halted = "no"].ran = t.ran
          BY DEF TrailRecords
        <4> QED BY <1>0, <4>1, <4>2 DEF HistoryTypeOK
      <3> QED BY <1>4, <3>1, <3>2 DEF CloudStep, CloudQueue, CloudControl
    <2> QED BY <2>1, <2>2, <2>3, AsideRan
  <1> QED BY <1>1, <1>2, <1>3, <1>4

\* A restart keeps the markers and forgets what the printer was at.
LEMMA CrashRan ==
    ASSUME IInv, RanInv, Crash
    PROVE  RanInv'
  <1>1. UNCHANGED <<row, marker>>
    BY DEF Crash, cloudVars, spoolVars
  <1>2. \A p \in Printers : job'[p].pc = "idle" /\ job'[p].send = None
    BY DEF Crash, NoJob
  <1>3. ASSUME NEW p \in Printers
        PROVE  dev'[p].last = dev[p].last /\ dev'[p].view # "active"
    <2>1. dev'[p] = [dev[p] EXCEPT !.up = FALSE, !.link = "offline", !.view = "ready",
                                   !.bare = FALSE]
      BY DEF Crash
    <2>2. dev[p] \in DevRecords
      BY DEF IInv, TypeOK, DevTypeOK
    <2> QED BY <2>1, <2>2 DEF DevRecords
  <1>4. ASSUME NEW k \in Sends PROVE trail'[k].ran = trail[k].ran
    <2> DEFINE j == job[PrinterOf[k]]
               lost == IF j.pc = "resave" THEN trail[k].lost + 1 ELSE trail[k].lost
               torn == trail[k].torn \/ j.pc = "mark"
    <2>1. trail[k] \in TrailRecords
      BY DEF IInv, TypeOK, HistoryTypeOK
    <2>2. trail'[k] = trail[k] \/ trail'[k] = [trail[k] EXCEPT !.lost = lost, !.torn = torn]
      BY DEF Crash
    <2> HIDE DEF j, lost, torn
    <2> QED BY <2>1, <2>2 DEF TrailRecords
  <1> QED BY <1>1, <1>2, <1>3, <1>4, AsideRan

LEMMA TickRan ==
    ASSUME IInv, RanInv, Tick
    PROVE  RanInv'
  <1>1. row' = row
    BY DEF Tick, cloudVars
  <1>2. ASSUME NEW p \in Printers
        PROVE  job'[p].pc = job[p].pc /\ job'[p].send = job[p].send
    <2> DEFINE age == Older(job[p].age, AgeCap)
               rec == OlderAtt(job[p].rec)
    <2>1. job'[p] = job[p] \/ job'[p] = [job[p] EXCEPT !.age = age, !.rec = rec]
      BY DEF Tick
    <2>2. job[p] \in JobRecords
      BY DEF IInv, TypeOK, JobTypeOK
    <2> HIDE DEF age, rec
    <2> QED BY <2>1, <2>2 DEF JobRecords
  <1>3. ASSUME NEW k \in Sends, marker'[k] # None
        PROVE  marker[k] # None /\ marker'[k].confirmed = marker[k].confirmed
    <2> DEFINE age == Older(marker[k].age, AgeCap)
    <2>1. marker[k] # None /\ marker'[k] = [marker[k] EXCEPT !.age = age]
      BY <1>3 DEF Tick
    <2>2. marker[k] \in [confirmed : BOOLEAN, age : Ages]
      BY <2>1 DEF IInv, TypeOK, SpoolTypeOK
    <2> HIDE DEF age
    <2> QED BY <2>1, <2>2
  <1>4. ASSUME NEW p \in Printers
        PROVE  dev'[p].last = dev[p].last /\ dev'[p].view = dev[p].view
    <2> DEFINE quiet == Older(dev[p].quiet, AgeCap)
               bare == ~TrayPresent(p)
    <2>1. dev'[p] = [dev[p] EXCEPT !.quiet = quiet, !.bare = bare]
      BY DEF Tick
    <2>2. dev[p] \in DevRecords
      BY DEF IInv, TypeOK, DevTypeOK
    <2> HIDE DEF quiet, bare
    <2> QED BY <2>1, <2>2 DEF DevRecords
  <1>5. ASSUME NEW k \in Sends PROVE trail'[k].ran = trail[k].ran
    <2> DEFINE since == Older(trail[k].since, AgeCap)
               halted == IF trail[k].halted = "just" THEN "past" ELSE trail[k].halted
    <2>1. trail'[k] = [trail[k] EXCEPT !.since = since, !.halted = halted]
      BY DEF Tick
    <2>2. trail[k] \in TrailRecords
      BY DEF IInv, TypeOK, HistoryTypeOK
    <2> HIDE DEF since, halted
    <2> QED BY <2>1, <2>2 DEF TrailRecords
  <1> QED BY <1>1, <1>2, <1>3, <1>4, <1>5, AsideRan

LEMMA InitRan == Init => RanInv
  <1> SUFFICES ASSUME Init PROVE RanInv
    OBVIOUS
  <1>1. ASSUME NEW k \in Sends PROVE RanOK(k)
    <2>1. /\ PrinterOf[k] \in Printers /\ k # None /\ marker[k] = None
          /\ job[PrinterOf[k]].pc = "idle"
      BY ConstFacts DEF Init, NoJob
    <2> QED BY <2>1 DEF RanOK
  <1>2. ASSUME NEW p \in Printers PROVE WorkOK(p)
    BY DEF Init, NewDev, WorkOK
  <1> QED BY <1>1, <1>2 DEF RanInv

LEMMA NextRan ==
    ASSUME MaxVer = 1 PROVE IInv /\ OnceInv /\ RanInv /\ [Next]_vars => RanInv'
  <1> SUFFICES ASSUME IInv, OnceInv, RanInv, [Next]_vars PROVE RanInv'
    OBVIOUS
  <1>1. CASE ReportPass \/ ReportOutage \/ UNCHANGED vars
    BY <1>1, OutsideRan
  <1>2. CASE Crash \/ Tick
    BY <1>2, CrashRan, TickRan
  <1>3. ASSUME NEW p \in Printers, Worker(p) \/ PrinterStep(p) \/ CloudStep(p)
        PROVE  RanInv'
    BY <1>3, QuietRan, StartRan, OutsideRan
  <1> QED BY <1>1, <1>2, <1>3 DEF Next

\* A send that the cloud queues once is confirmed only when the printer ran its last
\* start, whatever other sends that printer has and across restarts.
THEOREM ConfirmationsAreReal == ASSUME MaxVer = 1 PROVE Spec => []ConfirmedSendRan
  <1>1. RanInv => ConfirmedSendRan
    BY DEF RanInv, RanOK, ConfirmedSendRan
  <1>2. IInv /\ OnceInv /\ RanInv /\ [Next]_vars => RanInv'
    BY NextRan
  <1>3. IInv /\ OnceInv /\ [Next]_vars => OnceInv'
    BY NextOnce
  <1> QED BY <1>1, <1>2, <1>3, InitOnce, InitRan, InitInv, NextInv, PTL DEF Spec

-----------------------------------------------------------------------------
(* Resets: the clock of a phase is no older than the start it is about.    *)

Here(k) == row[PrinterOf[k]].send = k \/ Serving(k)

\* A record is no older than the last start, and a reset it waits for came after a
\* report that came after that start, or late enough.
Dated(k, rec) ==
    LET p == PrinterOf[k] IN
    /\ rec.age # None => rec.age <= trail[k].since
    /\ rec.pending => /\ trail[k].since > 0
                      /\ dev[p].up => \/ dev[p].quiet < trail[k].since
                                      \/ trail[k].since >= HoldMax

\* The record, or what stands for it until it is written, is dated.
DiskDated(k) ==
    IF att[k].kind = "full" THEN Dated(k, att[k])
    ELSE /\ marker[k].age <= trail[k].since
         /\ AssignmentMatches(PrinterOf[k], k) => Dated(k, asg[PrinterOf[k]].att)

\* There is a record only with a marker; it is dated, and so is the copy a pass holds,
\* but for a start that is about to be charged and for one that was never charged.
Timed(k) ==
    LET p == PrinterOf[k] IN
    /\ ver[k] = 0 \/ (Here(k) /\ marker[k] = None) => att[k].kind # "full"
    /\ Serving(k) /\ job[p].pc \in {"mark", "latch"} => marker[k] = None
    /\ att[k].kind = "full" => att[k].age # None
    /\ Here(k) /\ trail[k].lost = 0 /\ marker[k] # None /\ ~Resaving(k) => DiskDated(k)
    /\ Serving(k) /\ job[p].pc \in {"recopy", "republish"} /\ trail[k].lost = 0
         => Dated(k, job[p].rec)

\* A pass that makes no fresh copy lets no time by, and reads the assignment of its send.
PassTimed(p) ==
    /\ asg[p] # None => RouterOn
    /\ ~dev[p].parse
    /\ job[p].pc \in Transfers => job[p].age = 0 /\ ~job[p].parse
    /\ job[p].pc \in {"recopy", "republish"} => job[p].rec.age # None
    /\ job[p].pc \in {"remember", "advance"} \cup Transfers
         => asg[p] = None \/ asg[p].send = job[p].send

PhaseInv == (\A k \in Sends : Timed(k)) /\ \A p \in Printers : PassTimed(p)

\* The sends a step of p's pass is not about keep what is on disk, or lose the marker.
OthersKept(p) ==
    \A j \in Sends \ {job[p].send} :
       /\ trail'[j].since = trail[j].since /\ trail'[j].lost = trail[j].lost
       /\ \/ marker'[j] = marker[j] /\ att'[j] = att[j]
          \/ PrinterOf[j] = p /\ marker'[j] = None /\ att'[j] \in {att[j], NoAtt}

\* What a step of p's pass has to show.
LEMMA PassPhase ==
    ASSUME IInv, OnceInv, PhaseInv, NEW p \in Printers, job[p].pc # "idle",
           UNCHANGED cloudVars, NEW pc, Moved(p, pc) \/ Ends(p),
           OthersKept(p),
           \A q \in Printers \ {p} : dev'[q] = dev[q] /\ asg'[q] = asg[q],
           \A k \in Sends : k = job[p].send => Timed(k)',
           PassTimed(p)'
    PROVE  PhaseInv'
  <1>1. /\ \A q \in Printers \ {p} : job'[q] = job[q]
        /\ job'[p].send \in {job[p].send, None}
        /\ row' = row /\ ver' = ver
    BY DEF Moved, Ends, cloudVars
  <1>2. ASSUME NEW q \in Printers PROVE PassTimed(q)'
    <2>1. PassTimed(q)
      BY DEF PhaseInv
    <2> QED BY <1>1, <2>1 DEF PassTimed
  <1>3. ASSUME NEW j \in Sends PROVE Timed(j)'
    <2>1. PrinterOf[j] \in Printers /\ j # None /\ Timed(j) /\ Unseen(j)
      BY ConstFacts DEF PhaseInv, OnceInv
    <2>2. CASE j = job[p].send
      BY <2>2
    <2>3. CASE j # job[p].send /\ PrinterOf[j] # p
      <3> DEFINE q == PrinterOf[j]
      <3>1. /\ job'[q] = job[q] /\ dev'[q] = dev[q] /\ asg'[q] = asg[q]
            /\ marker'[j] = marker[j] /\ att'[j] = att[j]
            /\ trail'[j].since = trail[j].since /\ trail'[j].lost = trail[j].lost
        BY <1>1, <2>1, <2>3 DEF OthersKept
      <3>2. \A rec : Dated(j, rec)' <=> Dated(j, rec)
        BY <3>1 DEF Dated
      <3>3. DiskDated(j)' <=> DiskDated(j)
        BY <3>1, <3>2 DEF DiskDated, AssignmentMatches, Dated
      <3>4. (Here(j)' <=> Here(j)) /\ (Serving(j)' <=> Serving(j))
        BY <1>1, <3>1 DEF Here, Serving
      <3>5. Resaving(j)' <=> Resaving(j)
        BY <3>1 DEF Resaving
      <3>6. Dated(j, job[q].rec)' <=> Dated(j, job[q].rec)
        BY <3>1 DEF Dated
      <3> QED BY <1>1, <2>1, <3>1, <3>3, <3>4, <3>5, <3>6 DEF Timed
    <2>4. CASE j # job[p].send /\ PrinterOf[j] = p
      <3>1. ~Serving(j) /\ ~Serving(j)'
        BY <1>1, <2>1, <2>4 DEF Serving
      <3>2. row[p].send = j => marker[j] = None
        BY <2>1, <2>4, <3>1 DEF Unseen, Known, SendKnown
      <3>3. marker'[j] \in {marker[j], None} /\ att'[j] \in {att[j], NoAtt}
        BY <2>4 DEF OthersKept
      <3>4. NoAtt.kind # "full"
        BY FixedRecordTypes
      <3>5. Here(j)' <=> row[p].send = j
        BY <1>1, <2>4, <3>1 DEF Here
      <3>6. att'[j].kind = "full" => att'[j] = att[j]
        BY <3>3, <3>4
      <3> QED BY <1>1, <2>1, <2>4, <3>1, <3>2, <3>3, <3>5, <3>6 DEF Timed, Here
    <2> QED BY <2>2, <2>3, <2>4
  <1> QED BY <1>2, <1>3 DEF PhaseInv

\* A step that leaves the records, the start and the printer as they are.
LEMMA OwnQuiet ==
    ASSUME IInv, OnceInv, PhaseInv, NEW p \in Printers, NEW k \in Sends, k = job[p].send,
           UNCHANGED <<cloudVars, dev>>, asg'[p] = asg[p], marker'[k] = marker[k],
           trail'[k].since = trail[k].since, trail'[k].lost = trail[k].lost,
           att'[k].kind = "full" <=> att[k].kind = "full",
           att'[k].age = att[k].age, att'[k].pending = att[k].pending,
           job[p].pc # "resave", job'[p].pc \notin {"mark", "latch", "resave"},
           job'[p].pc \in {"recopy", "republish"}
             => job[p].pc \in {"recopy", "republish"} /\ job'[p].rec = job[p].rec
    PROVE  Timed(k)'
  <1>1. PrinterOf[k] = p /\ k # None /\ Timed(k) /\ Serving(k)
    BY ConstFacts DEF IInv, OwnSends, PhaseInv, Serving
  <1>2. row' = row /\ ver' = ver /\ dev' = dev
    BY DEF cloudVars
  <1>3. Here(k)' => Here(k)
    BY <1>1 DEF Here
  <1>4. Dated(k, att[k]) => Dated(k, att[k])'
    BY <1>2 DEF Dated
  <1>5. DiskDated(k) => DiskDated(k)'
    BY <1>1, <1>2 DEF DiskDated, Dated, AssignmentMatches
  <1>6. ~Resaving(k) /\ ~Resaving(k)'
    BY <1>1 DEF Resaving
  <1>7. ASSUME job'[p].pc \in {"recopy", "republish"}, trail'[k].lost = 0
        PROVE  Dated(k, job[p].rec)'
    <2>1. Dated(k, job[p].rec)
      BY <1>1, <1>7 DEF Timed
    <2> QED BY <1>1, <1>2, <1>7, <2>1 DEF Dated
  <1> QED BY <1>1, <1>2, <1>3, <1>5, <1>6, <1>7 DEF Timed

\* What a pass reads of a send in flight is dated.
LEMMA LoadDated ==
    ASSUME IInv, OnceInv, PhaseInv, NEW p \in Printers, NEW k \in Sends, k = job[p].send,
           job[p].pc \in {"remember", "advance"}, trail[k].lost = 0
    PROVE  Dated(k, LoadAttempt(p, k))
  <1> DEFINE rec == LoadAttempt(p, k)
             saved == IF att[k].kind = "full" THEN att[k]
                      ELSE IF asg[p] # None THEN asg[p].att ELSE NoAtt
             up == IF att[k].kind = "part" THEN TRUE
                   ELSE IF saved.kind = "full" THEN saved.uploaded ELSE marker[k] # None
  <1>1. PrinterOf[k] = p /\ k # None /\ Timed(k) /\ PassTimed(p) /\ Serving(k) /\ GoesByMarker(k)
    BY ConstFacts DEF IInv, OwnSends, PhaseInv, OnceInv, Serving
  <1>2. marker[k] # None /\ DiskDated(k)
    BY <1>1 DEF Timed, Here, GoesByMarker, AfterStart, Resaving
  <1>3. asg[p] = None \/ AssignmentMatches(p, k)
    BY <1>1 DEF PassTimed, AssignmentMatches
  <1>4. NoAtt.age = None /\ NoAtt.pending = FALSE
    BY DEF NoAtt
  <1>5. Dated(k, saved) /\ (saved.age = None => marker[k].age <= trail[k].since)
    <2>1. CASE att[k].kind = "full"
      BY <1>1, <1>2, <2>1 DEF DiskDated, Timed
    <2>2. CASE att[k].kind # "full" /\ asg[p] # None
      BY <1>1, <1>2, <1>3, <2>2 DEF DiskDated
    <2>3. CASE att[k].kind # "full" /\ asg[p] = None
      BY <1>2, <1>4, <2>3 DEF DiskDated, Dated
    <2> QED BY <2>1, <2>2, <2>3
  <1>6. saved \in AttRecords
    BY FixedRecordTypes DEF IInv, TypeOK, SpoolTypeOK
  <1>7. rec = ReadOf(saved, IF saved.age # None THEN saved.age ELSE marker[k].age, up)
    BY <1>2 DEF LoadAttempt, ReadOf
  <1> HIDE DEF rec, saved, up
  <1>8. /\ rec.age = IF saved.age # None THEN saved.age ELSE marker[k].age
        /\ rec.pending = saved.pending
    BY <1>6, <1>7 DEF ReadOf, AttRecords
  <1>9. Dated(k, rec)
    BY <1>5, <1>8 DEF Dated
  <1> QED BY <1>9 DEF rec

\* A step that writes the record of a send in flight.
LEMMA OwnSaved ==
    ASSUME IInv, OnceInv, PhaseInv, NEW p \in Printers, NEW k \in Sends, k = job[p].send,
           UNCHANGED cloudVars, marker'[k] # None, NEW rec, att'[k] = rec,
           rec.kind = "full", rec.age # None,
           trail'[k].lost = 0 => Dated(k, rec)',
           job'[p].pc \in {"sweep", "fail", "confirm"}
    PROVE  Timed(k)'
  <1>1. PrinterOf[k] = p /\ k # None /\ Unseen(k) /\ Serving(k)
    BY ConstFacts DEF IInv, OwnSends, OnceInv, Serving
  <1>2. ver'[k] # 0
    BY <1>1 DEF Unseen, cloudVars
  <1>3. trail'[k].lost = 0 => DiskDated(k)'
    <2>1. ASSUME trail'[k].lost = 0 PROVE Dated(k, att[k])'
      BY <2>1 DEF Dated
    <2> QED BY <2>1 DEF DiskDated
  <1> QED BY <1>1, <1>2, <1>3 DEF Timed

\* What the worker of p leaves alone.
LEMMA WorkerOthers ==
    ASSUME IInv, NEW p \in Printers, Worker(p)
    PROVE  /\ OthersKept(p)
           /\ \A q \in Printers \ {p} : dev'[q] = dev[q] /\ asg'[q] = asg[q]
           /\ asg'[p] = None \/ asg[p] # None \/ RouterOn
           /\ dev'[p].parse = dev[p].parse
  <1> DEFINE k == job[p].send
  <1>0. /\ SpoolTypeOK /\ HistoryTypeOK /\ dev \in [Printers -> DevRecords]
    BY DEF IInv, TypeOK, DevTypeOK
  <1>1. \A j \in Sends \ {k} : trail'[j].since = trail[j].since /\ trail'[j].lost = trail[j].lost
    <2>1. CASE Start(p) \/ Republish(p)
      BY <1>0, <2>1 DEF Start, Republish, HistoryTypeOK
    <2>2. CASE ~Start(p) /\ ~Republish(p)
      BY <2>2, WorkerTrail
    <2> QED BY <2>1, <2>2
  <1>2. \A j \in Sends \ {k} :
           \/ marker'[j] = marker[j] /\ att'[j] = att[j]
           \/ PrinterOf[j] = p /\ marker'[j] = None /\ att'[j] \in {att[j], NoAtt}
    <2>1. CASE Sweep(p)
      BY <2>1 DEF Sweep, SendsOf
    <2>2. CASE UNCHANGED <<marker, att>>
      BY <2>2
    <2>3. CASE FreshStep(p)
      <3>1. CASE Upload(p) \/ MarkStarted(p) \/ RememberAttempt(p)
        BY <1>0, <3>1 DEF Upload, MarkStarted, RememberAttempt, SpoolTypeOK
      <3>2. CASE ~Upload(p) /\ ~MarkStarted(p) /\ ~RememberAttempt(p)
        <4>1. UNCHANGED <<marker, att>>
          BY <2>3, <3>2 DEF FreshStep, FreshWait, FreshRejected, FreshReady, Download,
             DownloadFails, BadPlate, UploadSkipped, UploadFails, UploadCancelled,
             AuthorizeRefused, AuthorizeOutage, Authorize, Start, StartNotSent,
             RecordAssignment, spoolVars
        <4> QED BY <2>2, <4>1
      <3> QED BY <3>1, <3>2
    <2>4. CASE WatchdogStep(p)
      <3>1. CASE PassCancel(p) \/ MarkConfirmed(p)
        BY <1>0, <3>1 DEF PassCancel, MarkConfirmed, ClearPending, SpoolTypeOK
      <3>2. CASE \/ AdvanceEnterB(p) \/ AdvanceReset(p) \/ RepublishHeld(p)
                 \/ RepublishNotSent(p) \/ ResaveAttempt(p)
        <4>1. marker' = marker /\ (att' = att \/ \E rec : SaveAttempt(p, k, rec))
          BY <3>2, Zenon DEF AdvanceEnterB, AdvanceReset, RepublishHeld, RepublishNotSent,
             ResaveAttempt
        <4> HIDE DEF k
        <4> QED BY <1>0, <4>1 DEF SaveAttempt, SpoolTypeOK
      <3>3. CASE \/ PassNothing(p) \/ PassKnown(p) \/ AdvanceDispatched(p) \/ AdvanceWait(p)
                 \/ AdvanceConfirm(p) \/ AdvanceRepublish(p) \/ AdvanceFail(p) \/ Recopy(p)
                 \/ Republish(p) \/ ResaveFails(p)
        <4>1. UNCHANGED <<marker, att>>
          BY <3>3 DEF PassNothing, PassKnown, AdvanceDispatched, AdvanceWait, AdvanceConfirm,
             AdvanceRepublish, AdvanceFail, Recopy, Republish, ResaveFails, spoolVars
        <4> QED BY <2>2, <4>1
      <3> QED BY <2>4, <3>1, <3>2, <3>3 DEF WatchdogStep
    <2>5. CASE DropFailed(p) \/ LatchFailure(p)
      BY <1>0, <2>5 DEF DropFailed, LatchFailure, ClearPending, SpoolTypeOK
    <2>6. CASE FailNotAcked(p) \/ FailAcked(p)
      BY <2>2, <2>6 DEF FailNotAcked, FailAcked, spoolVars
    <2> QED BY <2>1, <2>3, <2>4, <2>5, <2>6 DEF Worker, SettleStep
  <1>3. OthersKept(p)
    BY <1>1, <1>2 DEF OthersKept
  <1>4. /\ \A q \in Printers \ {p} : dev'[q] = dev[q]
        /\ dev'[p].parse = dev[p].parse
    <2>1. CASE UNCHANGED dev
      BY <2>1
    <2>2. CASE \/ Start(p) \/ Republish(p)
      <3>1. dev' = [dev EXCEPT ![p] = [dev[p] EXCEPT !.sub = dev[p].sub + 1, !.last = k]]
        BY <2>2 DEF Start, Republish, Publish
      <3>2. \A n, j : \A d \in DevRecords : [d EXCEPT !.sub = n, !.last = j].parse = d.parse
        BY DEF DevRecords
      <3> HIDE DEF k
      <3> QED BY <1>0, <3>1, <3>2
    <2>3. CASE AdvanceReset(p)
      <3>1. \/ UNCHANGED dev
            \/ dev' = [dev EXCEPT ![p] = [dev[p] EXCEPT !.up = FALSE, !.link = "stale"]]
        BY <2>3 DEF AdvanceReset
      <3>2. \A d \in DevRecords : [d EXCEPT !.up = FALSE, !.link = "stale"].parse = d.parse
        BY DEF DevRecords
      <3> QED BY <1>0, <3>1, <3>2
    <2>4. CASE FreshStep(p) /\ ~Start(p)
      <3>1. UNCHANGED dev
        BY <2>4 DEF FreshStep, FreshWait, FreshRejected, FreshReady, Download,
           DownloadFails, BadPlate, UploadSkipped, Upload, UploadFails, UploadCancelled,
           AuthorizeRefused, AuthorizeOutage, Authorize, StartNotSent, MarkStarted,
           RecordAssignment, RememberAttempt, devVars
      <3> QED BY <2>1, <3>1
    <2>5. CASE WatchdogStep(p) /\ ~AdvanceReset(p) /\ ~Republish(p)
      <3>1. UNCHANGED dev
        BY <2>5 DEF WatchdogStep, PassNothing, PassCancel, PassKnown, AdvanceDispatched,
           AdvanceConfirm, MarkConfirmed, AdvanceEnterB, AdvanceWait, AdvanceRepublish,
           AdvanceFail, Recopy, RepublishHeld, RepublishNotSent, ResaveAttempt, ResaveFails,
           devVars
      <3> QED BY <2>1, <3>1
    <2>6. CASE SettleStep(p)
      <3>1. UNCHANGED dev
        BY <2>6 DEF SettleStep, FailNotAcked, FailAcked, DropFailed, LatchFailure, Sweep, devVars
      <3> QED BY <2>1, <3>1
    <2> QED BY <2>2, <2>3, <2>4, <2>5, <2>6 DEF Worker
  <1>5. /\ \A q \in Printers \ {p} : asg'[q] = asg[q]
        /\ asg'[p] = None \/ asg[p] # None \/ RouterOn
    <2>1. CASE UNCHANGED asg
      BY <2>1
    <2>2. ASSUME NEW a, asg' = [asg EXCEPT ![p] = a] \/ asg' = asg,
                 a = None \/ asg[p] # None \/ RouterOn
          PROVE  /\ \A q \in Printers \ {p} : asg'[q] = asg[q]
                 /\ asg'[p] = None \/ asg[p] # None \/ RouterOn
      BY <1>0, <2>2 DEF SpoolTypeOK
    <2>3. CASE PassCancel(p) \/ DropFailed(p)
      BY <2>2, <2>3 DEF PassCancel, DropFailed, ClearPending
    <2>4. CASE PassKnown(p) \/ RecordAssignment(p)
      BY <2>2, <2>4 DEF PassKnown, RecordAssignment
    <2>5. CASE RememberAttempt(p) \/ AdvanceConfirm(p)
      <3>1. asg' = asg \/ (asg[p] # None /\ \E a : asg' = [asg EXCEPT ![p] = a])
        BY <2>5, Zenon DEF RememberAttempt, AdvanceConfirm
      <3> QED BY <2>2, <3>1
    <2>6. CASE \/ AdvanceEnterB(p) \/ AdvanceReset(p) \/ RepublishHeld(p)
               \/ RepublishNotSent(p) \/ ResaveAttempt(p)
      <3>1. asg' = asg \/ \E rec : SaveAttempt(p, k, rec)
        BY <2>6, Zenon DEF AdvanceEnterB, AdvanceReset, RepublishHeld, RepublishNotSent,
           ResaveAttempt
      <3>2. asg' = asg \/ (asg[p] # None /\ \E a : asg' = [asg EXCEPT ![p] = a])
        BY <3>1, Zenon DEF SaveAttempt
      <3> QED BY <2>2, <3>2
    <2>7. CASE FreshStep(p) /\ ~RecordAssignment(p) /\ ~RememberAttempt(p)
      <3>1. UNCHANGED asg
        BY <2>7 DEF FreshStep, FreshWait, FreshRejected, FreshReady, Download,
           DownloadFails, BadPlate, UploadSkipped, Upload, UploadFails, UploadCancelled,
           AuthorizeRefused, AuthorizeOutage, Authorize, Start, StartNotSent, MarkStarted,
           spoolVars
      <3> QED BY <2>1, <3>1
    <2>8. CASE \/ PassNothing(p) \/ AdvanceDispatched(p) \/ AdvanceWait(p)
               \/ MarkConfirmed(p) \/ AdvanceRepublish(p) \/ AdvanceFail(p) \/ Recopy(p)
               \/ Republish(p) \/ ResaveFails(p)
      BY <2>1, <2>8 DEF PassNothing, AdvanceDispatched, AdvanceWait, MarkConfirmed,
           AdvanceRepublish, AdvanceFail, Recopy, Republish, ResaveFails, spoolVars
    <2>9. CASE FailNotAcked(p) \/ FailAcked(p) \/ LatchFailure(p) \/ Sweep(p)
      BY <2>1, <2>9 DEF FailNotAcked, FailAcked, LatchFailure, Sweep, spoolVars
    <2> QED BY <2>3, <2>4, <2>5, <2>6, <2>7, <2>8, <2>9 DEF Worker, WatchdogStep, SettleStep
  <1> QED BY <1>3, <1>4, <1>5

\* A step that writes nothing about its send but where the pass is.
LEMMA QuietTimed ==
    ASSUME IInv, OnceInv, PhaseInv, NEW p \in Printers,
           Worker(p), ~Start(p), ~Republish(p), UNCHANGED <<dev, asg>>,
           \A k \in Sends : k = job[p].send =>
              /\ marker'[k] = marker[k]
              /\ att'[k].kind = "full" <=> att[k].kind = "full"
              /\ att'[k].age = att[k].age /\ att'[k].pending = att[k].pending,
           job[p].pc # "resave",
           job'[p].pc \in {"idle", "sweep", "fail", "download", "upload", "auth", "start",
                           "drop"}
    PROVE  PassTimed(p)' /\ \A k \in Sends : k = job[p].send => Timed(k)'
  <1>1. UNCHANGED cloudVars
    BY WorkerMoves
  <1>2. PassTimed(p)'
    BY DEF PhaseInv, PassTimed, Transfers
  <1>3. ASSUME NEW k \in Sends, k = job[p].send PROVE Timed(k)'
    <2>1. trail'[k].since = trail[k].since /\ trail'[k].lost = trail[k].lost
      BY WorkerTrail DEF ResaveFails
    <2> QED BY <1>1, <1>3, <2>1, OwnQuiet
  <1> QED BY <1>2, <1>3

LEMMA FreshTimed ==
    ASSUME IInv, OnceInv, PhaseInv, NEW p \in Printers,
           FreshStep(p), ~Start(p), ~MarkStarted(p), ~RecordAssignment(p), ~RememberAttempt(p)
    PROVE  PassTimed(p)' /\ \A k \in Sends : k = job[p].send => Timed(k)'
  <1>0. JobTypeOK /\ att \in [Sends -> AttRecords]
    BY DEF IInv, TypeOK, SpoolTypeOK
  <1>1. UNCHANGED <<dev, asg, marker>>
    BY DEF FreshStep, FreshWait, FreshRejected, FreshReady, Download, DownloadFails, BadPlate,
       UploadSkipped, Upload, UploadFails, UploadCancelled, AuthorizeRefused,
       AuthorizeOutage, Authorize, StartNotSent, spoolVars, devVars
  <1>2. /\ job[p].pc # "resave"
        /\ job'[p].pc \in {"idle", "sweep", "fail", "download", "upload", "auth", "start"}
    <2>1. CASE \/ FreshWait(p) \/ FreshRejected(p) \/ Download(p) \/ DownloadFails(p)
               \/ BadPlate(p) \/ AuthorizeRefused(p) \/ AuthorizeOutage(p)
      BY <1>0, <2>1, Keeping DEF FreshWait, FreshRejected, Download, DownloadFails, BadPlate,
         AuthorizeRefused, AuthorizeOutage, Keeps, Moved
    <2>2. CASE FreshReady(p) \/ Authorize(p)
      BY <1>0, <2>2, Keeping DEF FreshReady, Authorize, SlotHeld, Keeps, Moved
    <2>3. CASE UploadFails(p) \/ StartNotSent(p)
      BY <1>0, <2>3, Keeping DEF UploadFails, StartNotSent, CountSetupFailure, Keeps, Moved
    <2>4. CASE UploadSkipped(p) \/ Upload(p) \/ UploadCancelled(p)
      BY <1>0, <2>4, Keeping DEF UploadSkipped, Upload, UploadCancelled, Keeps, Moved, Ends
    <2> QED BY <2>1, <2>2, <2>3, <2>4 DEF FreshStep
  <1>3. \A k \in Sends : /\ att'[k].kind = "full" <=> att[k].kind = "full"
                         /\ att'[k].age = att[k].age /\ att'[k].pending = att[k].pending
    <2>1. CASE Upload(p)
      <3> DEFINE a == att[job[p].send]
      <3>1. att' = [att EXCEPT ![job[p].send] =
                      [a EXCEPT !.uploaded = TRUE,
                                !.kind = IF a.kind = "none" THEN "part" ELSE a.kind]]
        BY <2>1 DEF Upload
      <3>2. \A r \in AttRecords :
              LET u == [r EXCEPT !.uploaded = TRUE,
                                 !.kind = IF r.kind = "none" THEN "part" ELSE r.kind]
              IN  /\ u.kind = "full" <=> r.kind = "full"
                  /\ u.age = r.age /\ u.pending = r.pending
        BY DEF AttRecords
      <3> QED BY <1>0, <3>1, <3>2
    <2>2. CASE ~Upload(p)
      <3>1. UNCHANGED att
        BY <2>2 DEF FreshStep, FreshWait, FreshRejected, FreshReady, Download, DownloadFails,
           BadPlate, UploadSkipped, UploadFails, UploadCancelled, AuthorizeRefused,
           AuthorizeOutage, Authorize, StartNotSent, spoolVars
      <3> QED BY <3>1
    <2> QED BY <2>1, <2>2
  <1>4. Worker(p) /\ ~Republish(p)
    <2>1. job[p].pc # "republish"
      BY DEF FreshStep, FreshWait, FreshRejected, FreshReady, Download, DownloadFails,
         BadPlate, UploadSkipped, Upload, UploadFails, UploadCancelled, AuthorizeRefused,
         AuthorizeOutage, Authorize, StartNotSent
    <2> QED BY <2>1 DEF Worker, Republish
  <1> QED BY <1>1, <1>2, <1>3, <1>4, QuietTimed

\* The watchdog waits, repeats itself, gives up, or the pass ends.
LEMMA WaitTimed ==
    ASSUME IInv, OnceInv, PhaseInv, NEW p \in Printers,
           \/ PassNothing(p) \/ AdvanceDispatched(p) \/ AdvanceWait(p) \/ AdvanceFail(p)
           \/ FailNotAcked(p) \/ FailAcked(p) \/ Sweep(p)
    PROVE  PassTimed(p)' /\ \A k \in Sends : k = job[p].send => Timed(k)'
  <1>0. JobTypeOK
    BY DEF IInv, TypeOK
  <1>1. UNCHANGED <<dev, asg>>
    BY DEF PassNothing, AdvanceDispatched, AdvanceWait, AdvanceFail, FailNotAcked, FailAcked,
       Sweep, spoolVars, devVars
  <1>2. job[p].pc \in {"pass", "advance", "fail", "sweep"}
    BY DEF PassNothing, AdvanceDispatched, AdvanceWait, AdvanceFail, Advancing, FailNotAcked,
       FailAcked, Sweep
  <1>3. job'[p].pc \in {"idle", "sweep", "fail", "drop"}
    BY <1>0, Keeping DEF PassNothing, AdvanceDispatched, AdvanceWait, AdvanceFail, FailNotAcked,
       FailAcked, Sweep, Keeps, Moved, Ends
  <1>4. \A k \in Sends : k = job[p].send => marker'[k] = marker[k] /\ att'[k] = att[k]
    BY DEF PassNothing, AdvanceDispatched, AdvanceWait, AdvanceFail, FailNotAcked, FailAcked,
       Sweep, spoolVars
  <1>5. Worker(p) /\ ~Start(p) /\ ~Republish(p)
    BY <1>2 DEF Worker, WatchdogStep, SettleStep, Start, Republish
  <1> QED BY <1>1, <1>2, <1>3, <1>4, <1>5, QuietTimed

\* The assignment of a send in flight is made.
LEMMA AssignTimed ==
    ASSUME IInv, OnceInv, PhaseInv, NEW p \in Printers, PassKnown(p) \/ RecordAssignment(p)
    PROVE  PassTimed(p)' /\ \A k \in Sends : k = job[p].send => Timed(k)'
  <1>0. JobTypeOK /\ SpoolTypeOK /\ PassTimed(p)
    BY DEF IInv, TypeOK, PhaseInv
  <1>1. UNCHANGED <<dev, marker, att, trail, row, ver>>
    BY DEF PassKnown, RecordAssignment, cloudVars, devVars
  <1>2. /\ job[p].pc \in {"pass", "assign"} /\ job'[p].pc \in {"advance", "remember"}
        /\ job'[p].send = job[p].send
    BY <1>0, Keeping DEF PassKnown, RecordAssignment, Keeps, Moved
  <1>3. PICK k \in Sends : k = job[p].send /\ PrinterOf[k] = p
    BY <1>0, ConstFacts DEF PassKnown, RecordAssignment, IInv, OwnSends, JobTypeOK, JobRecords
  <1>4. Timed(k) /\ OnDisk(k) /\ GoesByMarker(k) /\ Serving(k) /\ k # None
    BY <1>3, ConstFacts DEF PhaseInv, OnceInv, Serving
  <1>5. marker[k] # None
    <2>1. CASE PassKnown(p)
      BY <1>3, <1>4, <2>1 DEF PassKnown, OnDisk, Known
    <2>2. CASE RecordAssignment(p)
      BY <1>3, <1>4, <2>2 DEF RecordAssignment, GoesByMarker, AfterStart
    <2> QED BY <2>1, <2>2
  <1>6. \/ asg'[p] = asg[p] /\ (asg[p] = None \/ asg[p].send = k)
        \/ RouterOn /\ \E sid : asg'[p] = NewAssignment(k, sid)
    BY <1>0, <1>3 DEF PassKnown, RecordAssignment, AssignmentMatches, PassTimed, SpoolTypeOK
  <1>7. \A sid : LET a == NewAssignment(k, sid)
                 IN  a.send = k /\ a.att.age = None /\ a.att.pending = FALSE
    BY DEF NewAssignment, NoAtt
  <1>8. PassTimed(p)'
    BY <1>0, <1>1, <1>2, <1>3, <1>6, <1>7 DEF PassTimed, Transfers
  <1>9. Timed(k)'
    <2>1. Serving(k)' /\ Here(k)' /\ Here(k) /\ ~Resaving(k) /\ ~Resaving(k)'
      BY <1>2, <1>3, <1>4 DEF Serving, Here, Resaving
    <2>2. ASSUME trail[k].lost = 0 PROVE DiskDated(k)'
      <3>1. DiskDated(k)
        BY <1>4, <1>5, <2>1, <2>2 DEF Timed
      <3>2. CASE asg'[p] = asg[p]
        BY <1>1, <1>3, <3>1, <3>2 DEF DiskDated, Dated, AssignmentMatches
      <3>3. CASE \E sid : asg'[p] = NewAssignment(k, sid)
        <4>1. asg'[p].att.age = None /\ asg'[p].att.pending = FALSE
          BY <1>7, <3>3
        <4> QED BY <1>1, <1>3, <3>1, <4>1 DEF DiskDated, Dated
      <3> QED BY <1>6, <3>2, <3>3
    <2> QED BY <1>1, <1>2, <1>3, <1>4, <1>5, <2>1, <2>2 DEF Timed
  <1> QED BY <1>3, <1>8, <1>9

\* The marker of a start, and the one of a confirmation.
LEMMA MarkTimed ==
    ASSUME IInv, OnceInv, PhaseInv, NEW p \in Printers, MarkStarted(p) \/ MarkConfirmed(p)
    PROVE  PassTimed(p)' /\ \A k \in Sends : k = job[p].send => Timed(k)'
  <1>0. JobTypeOK /\ SpoolTypeOK /\ HistoryTypeOK /\ PassTimed(p)
    BY DEF IInv, TypeOK, PhaseInv
  <1>1. UNCHANGED <<dev, att, asg, trail, row, ver>>
    BY DEF MarkStarted, MarkConfirmed, cloudVars, devVars
  <1>2. /\ job[p].pc \in {"mark", "confirm"} /\ job'[p].pc \in {"assign", "sweep"}
        /\ job'[p].send = job[p].send
    BY <1>0, Keeping DEF MarkStarted, MarkConfirmed, Keeps, Moved
  <1>3. PICK k \in Sends : k = job[p].send /\ PrinterOf[k] = p
    BY <1>0, <1>2, ConstFacts DEF IInv, OwnSends, JobTypeOK, JobRecords
  <1>4. /\ Timed(k) /\ OnDisk(k) /\ GoesByMarker(k) /\ Serving(k) /\ k # None
        /\ Here(k) /\ ~Resaving(k)
    BY <1>2, <1>3, ConstFacts DEF PhaseInv, OnceInv, Serving, Here, Resaving
  <1>5. PICK c \in BOOLEAN : marker' = [marker EXCEPT ![k] = [confirmed |-> c, age |-> 0]]
    BY <1>3 DEF MarkStarted, MarkConfirmed
  <1>6. marker'[k] # None /\ marker'[k].age = 0
    <2>1. [confirmed |-> c, age |-> 0] # None
      BY MarkerPresent
    <2> QED BY <1>0, <1>5, <2>1 DEF SpoolTypeOK
  <1>7. trail[k].since \in Nat
    BY <1>0, ConstFacts DEF HistoryTypeOK, TrailRecords, Ages
  <1>8. PassTimed(p)'
    BY <1>0, <1>1, <1>2 DEF PassTimed, Transfers
  <1>9. ASSUME trail[k].lost = 0 PROVE DiskDated(k)'
    <2>1. CASE MarkStarted(p)
      <3>1. marker[k] = None
        BY <1>3, <1>4, <2>1 DEF Timed, MarkStarted
      <3>2. att[k].kind # "full" /\ ~AssignmentMatches(p, k)
        BY <1>3, <1>4, <3>1 DEF Timed, OnDisk, Known, SendKnown
      <3> QED BY <1>1, <1>3, <1>6, <1>7, <3>2 DEF DiskDated, AssignmentMatches
    <2>2. CASE MarkConfirmed(p)
      <3>1. DiskDated(k)
        BY <1>3, <1>4, <1>9, <2>2 DEF Timed, MarkConfirmed, GoesByMarker, AfterStart
      <3> QED BY <1>1, <1>3, <1>6, <1>7, <3>1 DEF DiskDated, Dated, AssignmentMatches
    <2> QED BY <2>1, <2>2
  <1>10. ver[k] # 0
    BY <1>4 DEF OnceInv, Unseen
  <1>11. Timed(k)'
    BY <1>1, <1>2, <1>3, <1>4, <1>6, <1>9, <1>10 DEF Timed
  <1> QED BY <1>3, <1>8, <1>11

\* The assignment of a confirmed send.
LEMMA ConfirmTimed ==
    ASSUME IInv, OnceInv, PhaseInv, NEW p \in Printers, AdvanceConfirm(p)
    PROVE  PassTimed(p)' /\ \A k \in Sends : k = job[p].send => Timed(k)'
  <1>0. JobTypeOK /\ SpoolTypeOK /\ HistoryTypeOK /\ PassTimed(p)
    BY DEF IInv, TypeOK, PhaseInv
  <1>1. UNCHANGED <<dev, marker, att, trail, row, ver>>
    BY DEF AdvanceConfirm, cloudVars, devVars
  <1>2. /\ job[p].pc = "advance" /\ job'[p].pc = "confirm"
        /\ job'[p].send = job[p].send
    BY <1>0, Keeping DEF AdvanceConfirm, Advancing, Keeps, Moved
  <1>3. PICK k \in Sends : k = job[p].send /\ PrinterOf[k] = p
    BY <1>0, <1>2, ConstFacts DEF IInv, OwnSends, JobTypeOK, JobRecords
  <1>4. /\ Timed(k) /\ Serving(k) /\ k # None /\ Here(k) /\ ~Resaving(k)
        /\ Serving(k)' /\ Here(k)' /\ ~Resaving(k)'
    BY <1>2, <1>3, ConstFacts DEF PhaseInv, Serving, Here, Resaving
  <1>5. asg'[p] = asg[p] \/ (/\ asg[p] # None /\ asg'[p].send = asg[p].send
                             /\ asg'[p].att = asg[p].att)
    <2>1. \A a \in [send : Sends, active : BOOLEAN, att : AttRecords] :
            LET u == [a EXCEPT !.active = TRUE] IN u.send = a.send /\ u.att = a.att
      OBVIOUS
    <2> QED BY <1>0, <2>1 DEF AdvanceConfirm, SpoolTypeOK
  <1>6. PassTimed(p)'
    BY <1>0, <1>1, <1>2, <1>5 DEF PassTimed, Transfers
  <1>7. ASSUME DiskDated(k) PROVE DiskDated(k)'
    <2>1. AssignmentMatches(p, k)' => AssignmentMatches(p, k) /\ asg'[p].att = asg[p].att
      BY <1>5 DEF AssignmentMatches
    <2> QED BY <1>1, <1>3, <1>7, <2>1 DEF DiskDated, Dated
  <1>8. Timed(k)'
    BY <1>1, <1>2, <1>3, <1>4, <1>7 DEF Timed
  <1> QED BY <1>3, <1>6, <1>8

\* The clock of a start is a number.
LEMMA SinceType == IInv => \A k \in Sends : trail[k].since \in Nat
  BY ConstFacts DEF IInv, TypeOK, HistoryTypeOK, TrailRecords, Ages

LEMMA RememberTimed ==
    ASSUME IInv, OnceInv, PhaseInv, NEW p \in Printers, RememberAttempt(p)
    PROVE  PassTimed(p)' /\ \A k \in Sends : k = job[p].send => Timed(k)'
  <1>0. JobTypeOK /\ SpoolTypeOK /\ PassTimed(p) /\ job[p].pc = "remember"
    BY DEF IInv, TypeOK, PhaseInv, RememberAttempt
  <1>1. UNCHANGED <<dev, trail, cloudVars, marker>> /\ job'[p].pc \in {"sweep", "confirm"}
    BY <1>0, Keeping DEF RememberAttempt, devVars, Keeps, Moved
  <1>2. PassTimed(p)'
    <2>1. asg'[p] # None => asg[p] # None
      BY <1>0 DEF RememberAttempt
    <2> QED BY <1>0, <1>1, <2>1 DEF PassTimed, Transfers
  <1>3. ASSUME NEW k \in Sends, k = job[p].send PROVE Timed(k)'
    <2> DEFINE load == LoadAttempt(p, k)
               rec == [load EXCEPT !.phase = "A", !.age = 0, !.sid = dev[p].sub,
                                   !.uploaded = TRUE, !.name = dev[p].name]
    <2>1. load \in AttRecords /\ load.kind = "full"
      BY <1>0, LoadAttemptType
    <2>2. att' = [att EXCEPT ![k] = rec]
      BY <1>3 DEF RememberAttempt
    <2>3. marker'[k] # None
      <3>1. GoesByMarker(k) /\ Serving(k) /\ PrinterOf[k] = p
        BY <1>3, ConstFacts DEF OnceInv, IInv, OwnSends, Serving
      <3>2. marker[k] # None
        BY <1>0, <3>1 DEF GoesByMarker, AfterStart
      <3> QED BY <1>1, <3>2
    <2>4. trail[k].lost = 0 => Dated(k, load)
      BY <1>0, <1>3, LoadDated
    <2> HIDE DEF load
    <2>5. rec.kind = "full" /\ rec.age = 0 /\ rec.pending = load.pending
      BY <2>1 DEF AttRecords
    <2>6. att'[k] = rec
      BY <1>0, <2>2 DEF SpoolTypeOK
    <2> HIDE DEF rec
    <2>7. PICK l, r : l = load /\ r = rec
      OBVIOUS
    <2>8. trail'[k].lost = 0 => Dated(k, r)'
      <3> SUFFICES ASSUME trail'[k].lost = 0 PROVE Dated(k, r)'
        OBVIOUS
      <3>1. Dated(k, l)
        BY <1>1, <2>4, <2>7
      <3> QED BY <1>1, <2>5, <2>7, <3>1, SinceType DEF Dated
    <2> QED BY <1>1, <1>3, <2>3, <2>5, <2>6, <2>7, <2>8, OwnSaved, ConstFacts
  <1> QED BY <1>2, <1>3

\* The step saves rec, and goes on to sweep or to fail.
LEMMA SaveTimed ==
    ASSUME IInv, OnceInv, PhaseInv, NEW p \in Printers, UNCHANGED <<cloudVars, marker>>,
           job[p].pc \in AfterStart, NEW rec, SaveAttempt(p, job[p].send, rec),
           rec.kind = "full", rec.age # None,
           \A k \in Sends : k = job[p].send /\ trail'[k].lost = 0 => Dated(k, rec)',
           dev'[p].parse = dev[p].parse, job'[p].pc \in {"sweep", "fail"}
    PROVE  PassTimed(p)' /\ \A k \in Sends : k = job[p].send => Timed(k)'
  <1>0. SpoolTypeOK /\ PassTimed(p)
    BY DEF IInv, TypeOK, PhaseInv
  <1>1. PassTimed(p)'
    <2>1. asg'[p] # None => asg[p] # None
      BY <1>0 DEF SaveAttempt
    <2> QED BY <1>0, <2>1 DEF PassTimed, Transfers
  <1>2. ASSUME NEW k \in Sends, k = job[p].send PROVE Timed(k)'
    <2>1. marker'[k] # None
      BY <1>2, ConstFacts DEF OnceInv, GoesByMarker, IInv, OwnSends, Serving
    <2>2. att'[k] = rec
      BY <1>0, <1>2 DEF SaveAttempt, SpoolTypeOK
    <2> QED BY <1>2, <2>1, <2>2, OwnSaved
  <1> QED BY <1>1, <1>2

LEMMA EnterBTimed ==
    ASSUME IInv, OnceInv, PhaseInv, NEW p \in Printers, AdvanceEnterB(p)
    PROVE  PassTimed(p)' /\ \A k \in Sends : k = job[p].send => Timed(k)'
  <1> DEFINE load == LoadAttempt(p, job[p].send)
             rec == [load EXCEPT !.phase = "B", !.age = 0]
  <1>0. JobTypeOK /\ SpoolTypeOK /\ job[p].pc = "advance" /\ job[p].send \in Sends
    BY DEF IInv, TypeOK, AdvanceEnterB, Advancing, OwnSends, JobTypeOK, JobRecords
  <1>1. /\ SaveAttempt(p, job[p].send, rec) /\ UNCHANGED <<dev, trail, cloudVars, marker>>
        /\ job'[p].pc = "sweep"
    BY <1>0, Keeping DEF AdvanceEnterB, devVars, Keeps, Moved
  <1>2. load \in AttRecords /\ load.kind = "full"
    BY <1>0, LoadAttemptType
  <1>3. \A k \in Sends : k = job[p].send /\ trail[k].lost = 0 => Dated(k, load)
    BY <1>0, LoadDated
  <1> HIDE DEF load
  <1>4. rec.kind = "full" /\ rec.age = 0 /\ rec.pending = load.pending
    BY <1>2 DEF AttRecords
  <1> HIDE DEF rec
  <1>5. PICK l, r : l = load /\ r = rec
    OBVIOUS
  <1>6. \A k \in Sends : k = job[p].send /\ trail'[k].lost = 0 => Dated(k, r)'
    <2> SUFFICES ASSUME NEW k \in Sends, k = job[p].send, trail'[k].lost = 0
                 PROVE  Dated(k, r)'
      OBVIOUS
    <2>1. Dated(k, l)
      BY <1>1, <1>3, <1>5
    <2> QED BY <1>1, <1>4, <1>5, <2>1, SinceType DEF Dated
  <1>7. job[p].pc \in AfterStart /\ dev'[p].parse = dev[p].parse
    BY <1>0, <1>1 DEF AfterStart
  <1> QED BY <1>1, <1>4, <1>5, <1>6, <1>7, SaveTimed, ConstFacts

\* A reset is asked for when the phase has run out, so some time after the start.
LEMMA ResetRead ==
    ASSUME IInv, NEW p \in Printers, AdvanceReset(p)
    PROVE  LET rec == LoadAttempt(p, job[p].send) IN
           /\ rec.pending \/ rec.age >= PhaseA
           /\ ~rec.pending => rec.age >= HoldMax \/ ~SilentSince(p, rec.age)
  <1> DEFINE rec == LoadAttempt(p, job[p].send)
             snap == Snapshot(p)
  <1>1. SpoolTypeOK /\ job[p].send \in Sends
    BY DEF IInv, TypeOK, AdvanceReset, Advancing, OwnSends, JobTypeOK, JobRecords
  <1>2. rec.age \in Ages /\ Verdict(p, job[p].send) = "reset_retry"
    BY <1>1, LoadAttemptType DEF AdvanceReset, Advancing
  <1>3. Decide(rec, snap) = "reset_retry"
    BY <1>2 DEF Verdict
  <1>4. ~rec.pending => rec.age >= HoldMax \/ ~SilentSince(p, rec.age)
    BY <1>2, <1>3, CloudSendAssumption, ConstFacts DEF Verdict, Ages
  <1> HIDE DEF snap, rec
  <1>5. rec.pending \/ rec.age >= PhaseA
    BY <1>2, <1>3, PipelineAssumption, ConstFacts DEF Decide, DecideB, DecideA, Ages
  <1> QED BY <1>4, <1>5 DEF rec

LEMMA ResetTimed ==
    ASSUME IInv, OnceInv, PhaseInv, NEW p \in Printers, AdvanceReset(p)
    PROVE  PassTimed(p)' /\ \A k \in Sends : k = job[p].send => Timed(k)'
  <1> DEFINE load == LoadAttempt(p, job[p].send)
             spent == [load EXCEPT !.attempts = IF load.pending THEN load.attempts + 1
                                                ELSE load.attempts]
             again == [spent EXCEPT !.pending = TRUE, !.phase = "A", !.age = 0]
  <1>0. /\ JobTypeOK /\ SpoolTypeOK /\ dev \in [Printers -> DevRecords]
        /\ job[p].pc = "advance" /\ job[p].send \in Sends
    BY DEF IInv, TypeOK, DevTypeOK, AdvanceReset, Advancing, OwnSends, JobTypeOK, JobRecords
  <1>1. /\ UNCHANGED <<trail, cloudVars, marker>>
        /\ \/ SaveAttempt(p, job[p].send, spent) /\ GoFail(p, "other") /\ UNCHANGED dev
           \/ /\ SaveAttempt(p, job[p].send, again) /\ Goto(p, "sweep")
              /\ dev' = [dev EXCEPT ![p] = [dev[p] EXCEPT !.up = FALSE, !.link = "stale"]]
    BY DEF AdvanceReset
  <1>2. load \in AttRecords /\ load.kind = "full" /\ load.age \in Ages
    BY <1>0, LoadAttemptType
  <1>3. \A k \in Sends : k = job[p].send /\ trail[k].lost = 0 => Dated(k, load)
    BY <1>0, LoadDated
  <1>4. load.pending \/ load.age >= PhaseA
    BY ResetRead
  <1> HIDE DEF load
  <1>5. spent.kind = "full" /\ spent.age = load.age /\ spent.pending = load.pending
    BY <1>2 DEF AttRecords
  <1>6. again.kind = "full" /\ again.age = 0 /\ again.pending
    BY <1>2 DEF AttRecords
  <1>7. dev'[p].parse = dev[p].parse /\ (dev'[p] = dev[p] \/ ~dev'[p].up)
    <2>1. \A d \in DevRecords : LET u == [d EXCEPT !.up = FALSE, !.link = "stale"]
                                IN  u.parse = d.parse /\ ~u.up
      BY DEF DevRecords
    <2> QED BY <1>0, <1>1, <2>1
  <1>8. job[p].pc \in AfterStart /\ job'[p].pc \in {"sweep", "fail"}
    BY <1>0, <1>1, Keeping DEF AfterStart, Keeps, Moved
  <1> HIDE DEF spent, again
  <1>9. PICK l, s, a : l = load /\ s = spent /\ a = again
    OBVIOUS
  <1>10. \A k \in Sends : k = job[p].send /\ trail'[k].lost = 0 =>
            Dated(k, l) /\ PrinterOf[k] = p /\ trail[k].since \in Nat
    BY <1>1, <1>3, <1>9, ConstFacts DEF IInv, OwnSends, TypeOK, HistoryTypeOK, TrailRecords, Ages
  <1>11. CASE SaveAttempt(p, job[p].send, spent) /\ UNCHANGED dev
    <2>1. \A k \in Sends : k = job[p].send /\ trail'[k].lost = 0 => Dated(k, s)'
      BY <1>1, <1>5, <1>7, <1>9, <1>10, SinceType DEF Dated
    <2> QED BY <1>1, <1>2, <1>5, <1>7, <1>8, <1>9, <1>11, <2>1, SaveTimed, ConstFacts DEF Ages
  <1>12. CASE SaveAttempt(p, job[p].send, again) /\ ~dev'[p].up
    <2>1. \A k \in Sends : k = job[p].send /\ trail'[k].lost = 0 => Dated(k, a)'
      <3> SUFFICES ASSUME NEW k \in Sends, k = job[p].send, trail'[k].lost = 0
                   PROVE  Dated(k, a)'
        OBVIOUS
      <3>1. trail[k].since > 0
        <4>1. CASE l.pending
          BY <1>10, <4>1 DEF Dated
        <4>2. CASE ~l.pending
          <5>1. l.age \in Nat /\ l.age >= PhaseA /\ l.age <= trail[k].since /\ PhaseA > 0
                /\ PhaseA \in Nat /\ trail[k].since \in Nat
            BY <1>2, <1>4, <1>9, <1>10, <4>2, PipelineAssumption, ConstFacts DEF Dated, Ages
          <5> QED BY <5>1
        <4> QED BY <4>1, <4>2
      <3> QED BY <1>1, <1>6, <1>9, <1>10, <1>12, <3>1, SinceType DEF Dated
    <2> QED BY <1>1, <1>6, <1>7, <1>8, <1>9, <1>12, <2>1, SaveTimed, ConstFacts
  <1>13. ~[dev[p] EXCEPT !.up = FALSE, !.link = "stale"].up
    BY <1>0 DEF DevRecords
  <1> QED BY <1>0, <1>1, <1>11, <1>12, <1>13

LEMMA ResaveTimed ==
    ASSUME IInv, OnceInv, PhaseInv, NEW p \in Printers,
           \/ ResaveAttempt(p) \/ RepublishHeld(p)
           \/ (RepublishNotSent(p) /\ job[p].rec.held # None)
    PROVE  PassTimed(p)' /\ \A k \in Sends : k = job[p].send => Timed(k)'
  <1> DEFINE k == job[p].send
  <1>0. /\ JobTypeOK /\ SpoolTypeOK /\ job[p].rec \in AttRecords
        /\ job[p].pc \in {"republish", "resave"}
    BY DEF IInv, TypeOK, CopyCharged, PhaseInv, PassTimed, Transfers, JobTypeOK, JobRecords,
       ResaveAttempt, RepublishHeld, RepublishNotSent
  <1>1. UNCHANGED <<dev, trail, cloudVars, marker>>
    BY DEF ResaveAttempt, RepublishHeld, RepublishNotSent, devVars
  <1>2. job'[p].pc \in {"sweep", "fail"}
    BY <1>0, Keeping DEF ResaveAttempt, RepublishHeld, RepublishNotSent, SlotHeld, Keeps, Moved
  <1>3. /\ job[p].rec.kind = "full" /\ PassTimed(p)
        /\ job[p].pc \in AfterStart
    BY <1>0 DEF IInv, CopyCharged, PhaseInv, AfterStart
  <1>4. CASE ResaveAttempt(p)
    <2>1. /\ SaveAttempt(p, k, Resaved(p))
          /\ job[p].pc = "resave"
      BY <1>4 DEF ResaveAttempt
    <2>2. job[p].age = 0
      BY <1>3, <2>1 DEF PassTimed, Transfers
    <2>3. Resaved(p).kind = "full" /\ Resaved(p).age = 0 /\ Resaved(p).pending = FALSE
      BY <1>0, <1>3, <2>2 DEF Resaved, AttRecords
    <2>4. PICK r : r = Resaved(p)
      OBVIOUS
    <2>5. \A j \in Sends : j = job[p].send /\ trail'[j].lost = 0 => Dated(j, r)'
      <3>1. \A j \in Sends : trail'[j].since \in Nat
        BY <1>1, ConstFacts DEF IInv, TypeOK, HistoryTypeOK, TrailRecords, Ages
      <3> QED BY <2>3, <2>4, <3>1 DEF Dated
    <2> QED BY <1>1, <1>2, <1>3, <2>1, <2>3, <2>4, <2>5, SaveTimed, ConstFacts
  <1>5. CASE RepublishHeld(p) \/ (RepublishNotSent(p) /\ job[p].rec.held # None)
    <2>1. PICK h : SaveAttempt(p, k, [job[p].rec EXCEPT !.held = h])
      BY <1>5, Zenon DEF RepublishHeld, RepublishNotSent
    <2>2. job[p].pc = "republish"
      BY <1>5 DEF RepublishHeld, RepublishNotSent
    <2>3. PICK l, r : l = job[p].rec /\ r = [job[p].rec EXCEPT !.held = h]
      OBVIOUS
    <2>4. r.kind = "full" /\ r.age = l.age /\ r.pending = l.pending /\ r.age # None
      BY <1>0, <1>3, <2>2, <2>3 DEF AttRecords, PassTimed
    <2>5. \A j \in Sends : j = job[p].send /\ trail'[j].lost = 0 => Dated(j, r)'
      <3> SUFFICES ASSUME NEW j \in Sends, j = job[p].send, trail'[j].lost = 0
                   PROVE  Dated(j, r)'
        OBVIOUS
      <3>1. PrinterOf[j] = p /\ Serving(j) /\ Timed(j)
        BY ConstFacts DEF IInv, OwnSends, PhaseInv, Serving
      <3>2. Dated(j, l)
        BY <1>1, <2>2, <2>3, <3>1 DEF Timed
      <3> QED BY <1>1, <2>4, <3>2, SinceType DEF Dated
    <2>6. SaveAttempt(p, job[p].send, r)
      BY <2>1, <2>3
    <2> HIDE DEF k
    <2> QED BY <1>1, <1>2, <1>3, <2>4, <2>5, <2>6, SaveTimed
  <1> QED BY <1>4, <1>5

\* A publish that could not be charged is counted as lost.
LEMMA LostTimed ==
    ASSUME IInv, OnceInv, PhaseInv, NEW p \in Printers, ResaveFails(p)
    PROVE  PassTimed(p)' /\ \A k \in Sends : k = job[p].send => Timed(k)'
  <1>0. /\ JobTypeOK /\ PassTimed(p) /\ job[p].pc = "resave"
        /\ trail \in [Sends -> TrailRecords]
    BY DEF IInv, TypeOK, HistoryTypeOK, PhaseInv, ResaveFails
  <1>1. UNCHANGED <<row, ver, marker, att, asg, dev>>
    BY DEF ResaveFails, cloudVars, spoolVars, devVars
  <1>2. job'[p].pc = "idle" /\ job'[p].send = None
    BY <1>0, Keeping DEF ResaveFails, Ends
  <1>3. PassTimed(p)'
    BY <1>0, <1>1, <1>2 DEF PassTimed, Transfers
  <1>4. ASSUME NEW k \in Sends, k = job[p].send PROVE Timed(k)'
    <2>1. PrinterOf[k] = p /\ k # None /\ Timed(k) /\ GoesByMarker(k) /\ Serving(k)
      BY <1>4, ConstFacts DEF IInv, OwnSends, PhaseInv, OnceInv, Serving
    <2>2. marker[k] # None /\ Here(k) /\ ~Serving(k)'
      BY <1>0, <1>2, <2>1 DEF GoesByMarker, AfterStart, Here, Serving
    <2>3. trail'[k].lost # 0
      <3>1. PICK t \in TrailRecords : t = trail[k]
        BY <1>0
      <3>2. [t EXCEPT !.lost = t.lost + 1].lost = t.lost + 1 /\ t.lost + 1 # 0
        BY DEF TrailRecords
      <3>3. trail'[k] = [t EXCEPT !.lost = t.lost + 1]
        BY <1>0, <1>4, <3>1 DEF ResaveFails
      <3> QED BY <3>2, <3>3
    <2> QED BY <1>1, <1>2, <2>1, <2>2, <2>3 DEF Timed
  <1> QED BY <1>3, <1>4

LEMMA UnsentTimed ==
    ASSUME IInv, OnceInv, PhaseInv, NEW p \in Printers,
           RepublishNotSent(p), job[p].rec.held = None
    PROVE  PassTimed(p)' /\ \A k \in Sends : k = job[p].send => Timed(k)'
  <1>0. JobTypeOK /\ job[p].pc = "republish"
    BY DEF IInv, TypeOK, RepublishNotSent
  <1>1. UNCHANGED <<dev, asg, marker, att>> /\ ~Republish(p) /\ ~Start(p) /\ Worker(p)
    <2>1. job' # [job EXCEPT ![p].pc = "resave"]
      BY <1>0 DEF RepublishNotSent, GoFail, Goto, JobTypeOK, JobRecords
    <2> QED BY <1>0, <2>1 DEF RepublishNotSent, Republish, Start, Worker, WatchdogStep, Goto,
               devVars
  <1>2. job'[p].pc \in {"sweep", "fail"}
    BY <1>0, Keeping DEF RepublishNotSent, Keeps, Moved
  <1> QED BY <1>0, <1>1, <1>2, QuietTimed

\* A pass takes the record it read, and copies the file where it has to.
LEMMA TakenTimed ==
    ASSUME IInv, OnceInv, PhaseInv, NEW p \in Printers, AdvanceRepublish(p)
    PROVE  PassTimed(p)' /\ \A k \in Sends : k = job[p].send => Timed(k)'
  <1> DEFINE load == LoadAttempt(p, job[p].send)
  <1>0. /\ JobTypeOK /\ SpoolTypeOK /\ job[p].pc = "advance" /\ job[p].send \in Sends
        /\ PassTimed(p)
    BY DEF IInv, TypeOK, AdvanceRepublish, Advancing, OwnSends, JobTypeOK, JobRecords, PhaseInv
  <1>1. UNCHANGED <<dev, asg, marker, att, trail, cloudVars>>
    BY DEF AdvanceRepublish, spoolVars, devVars
  <1>2. ~Start(p) /\ ~Republish(p) /\ Worker(p)
    BY <1>0 DEF Start, Republish, Worker, WatchdogStep
  <1>3. CASE Goto(p, "sweep")
    <2>1. job'[p].pc = "sweep"
      BY <1>0, <1>3, Keeping DEF Keeps, Moved
    <2> QED BY <1>0, <1>1, <1>2, <2>1, QuietTimed
  <1>4. CASE ~Goto(p, "sweep")
    <2>1. PICK verdict :
            job' = [job EXCEPT ![p].pc = "recopy", ![p].age = 0,
                               ![p].retry = (verdict = "retry"),
                               ![p].tray = TrayPresent(p),
                               ![p].parse = dev[p].parse /\ Readable(p),
                               ![p].rec = load]
      BY <1>4 DEF AdvanceRepublish
    <2>2. /\ job'[p].pc = "recopy" /\ job'[p].age = 0 /\ job'[p].send = job[p].send
          /\ job'[p].rec = load /\ job'[p].parse = (dev[p].parse /\ Readable(p))
      <3> HIDE DEF load
      <3> QED BY <1>0, <2>1 DEF JobTypeOK, JobRecords
    <2>3. load.age \in Ages
      BY <1>0, LoadAttemptType
    <2>4. \A k \in Sends : k = job[p].send /\ trail[k].lost = 0 => Dated(k, load)
      BY <1>0, LoadDated
    <2> HIDE DEF load
    <2>5. PassTimed(p)'
      <3>1. job'[p].rec.age # None /\ ~job'[p].parse
        <4>1. load.age # None
          BY <2>3, ConstFacts DEF Ages
        <4> QED BY <1>0, <2>2, <4>1 DEF PassTimed
      <3>2. asg' = asg /\ dev' = dev
        BY <1>1
      <3> QED BY <1>0, <2>2, <3>1, <3>2, Zenon DEF PassTimed, Transfers
    <2>6. PICK l : l = load
      OBVIOUS
    <2>7. ASSUME NEW k \in Sends, k = job[p].send PROVE Timed(k)'
      <3>1. PrinterOf[k] = p /\ Serving(k) /\ Timed(k) /\ k # None
        BY <2>7, ConstFacts DEF IInv, OwnSends, PhaseInv, Serving
      <3>2. trail'[k].lost = 0 => Dated(k, l)'
        <4> SUFFICES ASSUME trail'[k].lost = 0 PROVE Dated(k, l)'
          OBVIOUS
        <4>1. Dated(k, l)
          BY <1>1, <2>4, <2>6, <2>7
        <4> QED BY <1>1, <4>1 DEF Dated
      <3>3. Serving(k)' /\ Here(k) /\ ~Resaving(k)
        BY <1>0, <2>2, <2>7, <3>1 DEF Serving, Here, Resaving
      <3>4. DiskDated(k) => DiskDated(k)'
        BY <1>1 DEF DiskDated, Dated, AssignmentMatches, cloudVars
      <3>5. job'[p].rec = l
        BY <2>2, <2>6
      <3>6. ver' = ver /\ (Here(k)' => Here(k))
        BY <1>1, <3>3 DEF cloudVars
      <3>7. trail'[k].lost = 0 => Dated(k, job[p].rec)'
        BY <3>2, <3>5 DEF Dated
      <3> QED BY <1>1, <2>2, <3>1, <3>3, <3>4, <3>6, <3>7 DEF Timed
    <2> QED BY <2>5, <2>7
  <1> QED BY <1>3, <1>4

LEMMA CopiedTimed ==
    ASSUME IInv, OnceInv, PhaseInv, NEW p \in Printers, Recopy(p)
    PROVE  PassTimed(p)' /\ \A k \in Sends : k = job[p].send => Timed(k)'
  <1>0. JobTypeOK /\ job[p].pc = "recopy" /\ PassTimed(p)
    BY DEF IInv, TypeOK, Recopy, PhaseInv
  <1>1. UNCHANGED <<dev, asg, marker, att, trail, cloudVars>>
    BY DEF Recopy, spoolVars
  <1>2. /\ job'[p].pc = "republish" /\ job'[p].send = job[p].send /\ job'[p].age = job[p].age
        /\ job'[p].rec = job[p].rec /\ job'[p].parse = job[p].parse
    BY <1>0 DEF Recopy, JobTypeOK, JobRecords
  <1>3. PassTimed(p)'
    BY <1>0, <1>1, <1>2 DEF PassTimed, Transfers
  <1>4. ASSUME NEW k \in Sends, k = job[p].send PROVE Timed(k)'
    BY <1>0, <1>1, <1>2, <1>4, OwnQuiet
  <1> QED BY <1>3, <1>4

\* The pass takes the send off the disk, or latches it.
LEMMA DropTimed ==
    ASSUME IInv, OnceInv, PhaseInv, NEW p \in Printers,
           PassCancel(p) \/ DropFailed(p) \/ LatchFailure(p)
    PROVE  PassTimed(p)' /\ \A k \in Sends : k = job[p].send => Timed(k)'
  <1>0. /\ JobTypeOK /\ SpoolTypeOK /\ PassTimed(p) /\ job[p].send \in Sends
        /\ job[p].pc \in {"pass", "drop", "latch"}
    BY DEF IInv, TypeOK, OwnSends, JobTypeOK, JobRecords, PhaseInv, PassCancel, DropFailed,
       LatchFailure
  <1>1. /\ UNCHANGED <<dev, cloudVars>> /\ job'[p].pc \in {"sweep", "latch"}
        /\ job'[p].send = job[p].send
    BY <1>0, Keeping DEF PassCancel, DropFailed, LatchFailure, devVars, Keeps, Moved
  <1>2. PassTimed(p)'
    <2>1. asg'[p] \in {asg[p], None}
      BY <1>0 DEF PassCancel, DropFailed, LatchFailure, ClearPending, SpoolTypeOK
    <2> QED BY <1>0, <1>1, <2>1 DEF PassTimed, Transfers
  <1>3. ASSUME NEW k \in Sends, k = job[p].send PROVE Timed(k)'
    <2>1. PrinterOf[k] = p /\ Serving(k) /\ Timed(k) /\ k # None
      BY <1>3, ConstFacts DEF IInv, OwnSends, PhaseInv, Serving
    <2>2. marker'[k] = None
      <3>1. CASE PassCancel(p) \/ DropFailed(p)
        BY <1>0, <1>3, <3>1 DEF PassCancel, DropFailed, ClearPending, SpoolTypeOK
      <3>2. CASE LatchFailure(p)
        BY <2>1, <3>2 DEF LatchFailure, Timed
      <3> QED BY <3>1, <3>2
    <2>3. att'[k].kind # "full"
      <3>1. NoAtt.kind # "full" /\ Latched.kind # "full"
        BY DEF NoAtt, Latched
      <3>2. att'[k] \in {NoAtt, Latched}
        BY <1>0, <1>3 DEF PassCancel, DropFailed, LatchFailure, SpoolTypeOK
      <3> QED BY <3>1, <3>2
    <2> QED BY <1>1, <2>1, <2>2, <2>3 DEF Timed
  <1> QED BY <1>2, <1>3

\* A start sets the clock of the send to zero before anything is written about it.
LEMMA StartTimed ==
    ASSUME IInv, OnceInv, PhaseInv, NEW p \in Printers, Start(p) \/ Republish(p)
    PROVE  PassTimed(p)' /\ \A k \in Sends : k = job[p].send => Timed(k)'
  <1>0. /\ JobTypeOK /\ PassTimed(p) /\ job[p].send \in Sends
        /\ job[p].pc \in {"start", "republish"}
    BY DEF IInv, TypeOK, OwnSends, JobTypeOK, JobRecords, PhaseInv, Start, Republish
  <1>1. UNCHANGED <<asg, marker, att, cloudVars>>
    BY DEF Start, Republish, spoolVars
  <1>2. dev'[p].parse = dev[p].parse
    BY WorkerOthers DEF Worker, FreshStep, WatchdogStep
  <1>3. /\ \/ job[p].pc = "start" /\ job'[p].pc = "mark"
           \/ job[p].pc = "republish" /\ job'[p].pc = "resave"
        /\ job'[p].send = job[p].send /\ job'[p].age = job[p].age
        /\ job'[p].parse = job[p].parse
    BY <1>0 DEF Start, Republish, Goto, JobTypeOK, JobRecords
  <1>4. PassTimed(p)'
    BY <1>0, <1>1, <1>2, <1>3 DEF PassTimed, Transfers
  <1>5. ASSUME NEW k \in Sends, k = job[p].send PROVE Timed(k)'
    <2>1. /\ PrinterOf[k] = p /\ Serving(k) /\ Timed(k) /\ GoesByMarker(k) /\ Unseen(k)
          /\ Here(k) /\ k # None
      BY <1>5, ConstFacts DEF IInv, OwnSends, PhaseInv, OnceInv, Serving, Here
    <2>2. ver'[k] # 0
      BY <1>1, <2>1 DEF Unseen, cloudVars
    <2>3. job'[p].pc = "mark" => marker'[k] = None
      BY <1>1, <1>3, <2>1 DEF GoesByMarker, BeforeStart
    <2>4. job'[p].pc = "resave" => marker'[k] # None /\ Resaving(k)'
      BY <1>1, <1>3, <1>5, <2>1 DEF GoesByMarker, AfterStart, Resaving
    <2>5. marker'[k] = None => att'[k].kind # "full"
      BY <1>1, <2>1 DEF Timed
    <2> QED BY <1>1, <1>3, <2>1, <2>2, <2>3, <2>4, <2>5 DEF Timed
  <1> QED BY <1>4, <1>5

LEMMA WorkerPhase ==
    ASSUME IInv, OnceInv, PhaseInv, NEW p \in Printers, Worker(p)
    PROVE  PhaseInv'
  <1>1. PassTimed(p)' /\ \A k \in Sends : k = job[p].send => Timed(k)'
    <2>1. CASE FreshStep(p)
      BY <2>1, StartTimed, MarkTimed, AssignTimed, RememberTimed, FreshTimed
    <2>2. CASE WatchdogStep(p)
      BY <2>2, WaitTimed, DropTimed, AssignTimed, MarkTimed, ConfirmTimed, EnterBTimed,
         ResetTimed, TakenTimed, CopiedTimed, ResaveTimed, LostTimed, UnsentTimed, StartTimed
         DEF WatchdogStep
    <2>3. CASE SettleStep(p)
      BY <2>3, WaitTimed, DropTimed DEF SettleStep
    <2> QED BY <2>1, <2>2, <2>3 DEF Worker
  <1>2. /\ OthersKept(p)
        /\ \A q \in Printers \ {p} : dev'[q] = dev[q] /\ asg'[q] = asg[q]
    BY WorkerOthers
  <1>3. PICK pc \in Steps : Moved(p, pc) \/ Ends(p)
    BY WorkerMoves
  <1>4. job[p].pc # "idle" /\ UNCHANGED cloudVars
    BY WorkerMoves
  <1> QED BY <1>1, <1>2, <1>3, <1>4, PassPhase

\* What a step outside the passes does: a pass goes on as it was, or it begins, or it is
\* lost; a connection is the one there was, or it has just been heard.
PassStands(p) ==
    \/ /\ job'[p].pc = job[p].pc /\ job'[p].send = job[p].send /\ job'[p].rec = job[p].rec
       /\ job'[p].age = job[p].age /\ job'[p].parse = job[p].parse
    \/ job'[p].pc \in {"idle", "pass"} /\ job'[p].send \in {row[p].send, None}

DevStands(p) ==
    /\ dev'[p].parse = dev[p].parse
    /\ dev'[p].up => (dev[p].up /\ dev'[p].quiet = dev[p].quiet) \/ dev'[p].quiet = 0

AsgStands(p) ==
    asg'[p] = None \/ (asg[p] # None /\ asg'[p].send = asg[p].send /\ asg'[p].att = asg[p].att)

SendStands(k) ==
    LET p == PrinterOf[k] IN
    /\ row'[p].send = k => row[p].send = k \/ ver[k] = 0
    /\ ver'[k] = 0 => ver[k] = 0
    /\ marker'[k] = marker[k]
    /\ att'[k] = att[k] \/ (att'[k].kind # "full" /\ att[k].kind # "full")
    /\ trail'[k].since = trail[k].since
    /\ trail'[k].lost = 0 => trail[k].lost = 0 /\ (Resaving(k) => Resaving(k)')

LEMMA StillPhase ==
    ASSUME IInv, OnceInv, PhaseInv,
           \A p \in Printers : PassStands(p) /\ DevStands(p) /\ AsgStands(p),
           \A k \in Sends : SendStands(k)
    PROVE  PhaseInv'
  <1>1. ASSUME NEW p \in Printers PROVE PassTimed(p)'
    <2>1. /\ PassTimed(p) /\ PassStands(p) /\ dev'[p].parse = dev[p].parse
          /\ AsgStands(p)
      BY DEF PhaseInv, DevStands
    <2>2. CASE /\ job'[p].pc = job[p].pc /\ job'[p].send = job[p].send
               /\ job'[p].rec = job[p].rec /\ job'[p].age = job[p].age
               /\ job'[p].parse = job[p].parse
      BY <2>1, <2>2 DEF PassTimed, AsgStands
    <2>3. CASE job'[p].pc \in {"idle", "pass"}
      BY <2>1, <2>3 DEF PassTimed, Transfers, AsgStands
    <2> QED BY <2>1, <2>2, <2>3 DEF PassStands
  <1>2. ASSUME NEW k \in Sends PROVE Timed(k)'
    <2> DEFINE p == PrinterOf[k]
    <2>1. /\ p \in Printers /\ k # None /\ Timed(k) /\ Unseen(k) /\ SendStands(k)
      BY ConstFacts DEF PhaseInv, OnceInv
    <2>2. /\ PassStands(p) /\ DevStands(p) /\ AsgStands(p)
      BY <2>1
    <2>4. ver[k] = 0 => marker[k] = None
      BY <2>1 DEF Unseen, Known, SendKnown
    <2>5. Here(k)' => Here(k) \/ ver[k] = 0
      BY <2>1, <2>2 DEF Here, Serving, PassStands, SendStands
    <2>6. Serving(k)' /\ job'[p].pc \notin {"idle", "pass"} =>
            Serving(k) /\ job'[p].pc = job[p].pc /\ job'[p].rec = job[p].rec
      BY <2>1, <2>2 DEF Serving, PassStands
    <2>7. Resaving(k)' => Resaving(k)
      BY <2>6 DEF Resaving, Serving
    <2>8. DiskDated(k) => DiskDated(k)'
      <3>1. /\ att'[k].kind = "full" <=> att[k].kind = "full"
            /\ att'[k].kind = "full" => att'[k] = att[k]
            /\ marker'[k] = marker[k] /\ trail'[k].since = trail[k].since
        BY <2>1 DEF SendStands
      <3>2. AssignmentMatches(p, k)' => AssignmentMatches(p, k) /\ asg'[p].att = asg[p].att
        BY <2>2 DEF AssignmentMatches, AsgStands
      <3>3. DevStands(p)
        BY <2>2
      <3>4. att'[k] = att[k] /\ Dated(k, att[k]) => Dated(k, att[k])'
        BY <3>1, <3>3 DEF Dated, DevStands
      <3>5. asg'[p].att = asg[p].att /\ Dated(k, asg[p].att) => Dated(k, asg[p].att)'
        BY <3>1, <3>3 DEF Dated, DevStands
      <3> QED BY <3>1, <3>2, <3>4, <3>5 DEF DiskDated
    <2>9. /\ trail'[k].lost = 0 => trail[k].lost = 0 /\ (Resaving(k) => Resaving(k)')
          /\ marker'[k] = marker[k] /\ (ver'[k] = 0 => ver[k] = 0)
          /\ att'[k] = att[k] \/ (att'[k].kind # "full" /\ att[k].kind # "full")
      BY <2>1 DEF SendStands
    <2>10. Serving(k)' /\ job'[p].pc \in {"recopy", "republish"} /\ trail'[k].lost = 0
             => Dated(k, job[p].rec)'
      <3> SUFFICES ASSUME Serving(k)', job'[p].pc \in {"recopy", "republish"},
                          trail'[k].lost = 0
                   PROVE  Dated(k, job[p].rec)'
        OBVIOUS
      <3>1. Dated(k, job[p].rec) /\ job'[p].rec = job[p].rec
        BY <2>1, <2>6, <2>9 DEF Timed
      <3> QED BY <2>1, <2>2, <3>1 DEF Dated, DevStands, SendStands
    <2> QED BY <2>1, <2>4, <2>5, <2>6, <2>7, <2>8, <2>9, <2>10 DEF Timed
  <1> QED BY <1>1, <1>2 DEF PhaseInv

\* Neither the cloud nor the printer writes what a pass goes by.
LEMMA CloudPhase ==
    ASSUME MaxVer = 1, IInv, OnceInv, PhaseInv, NEW p \in Printers, CloudStep(p)
    PROVE  PhaseInv'
  <1>0. CloudTypeOK /\ trail \in [Sends -> TrailRecords]
    BY DEF IInv, TypeOK, HistoryTypeOK
  <1>1. UNCHANGED <<marker, att, asg, job, dev>>
    BY DEF CloudStep, CloudQueue, CloudDrop, CloudControl, spoolVars, devVars
  <1>2. \A q \in Printers : PassStands(q) /\ DevStands(q) /\ AsgStands(q)
    BY <1>1 DEF PassStands, DevStands, AsgStands
  <1>3. ASSUME NEW k \in Sends
        PROVE  trail'[k].since = trail[k].since /\ trail'[k].lost = trail[k].lost
    <2>1. \A t \in TrailRecords : LET u == [t EXCEPT !.reported = FALSE, !.halted = "no"]
                                  IN  u.since = t.since /\ u.lost = t.lost
      BY DEF TrailRecords
    <2>2. trail'[k] \in {trail[k], [trail[k] EXCEPT !.reported = FALSE, !.halted = "no"]}
      BY <1>0 DEF CloudStep, CloudQueue, CloudDrop, CloudControl
    <2> QED BY <1>0, <2>1, <2>2
  <1>4. ASSUME NEW k \in Sends
        PROVE  /\ row'[PrinterOf[k]].send = k => row[PrinterOf[k]].send = k \/ ver[k] = 0
               /\ ver'[k] = 0 => ver[k] = 0
    <2>1. PrinterOf[k] \in Printers /\ k # None /\ ver[k] \in 0 .. 1
      BY <1>0, ConstFacts DEF CloudTypeOK
    <2>2. CASE CloudDrop(p) \/ \E ctl : CloudControl(p, ctl)
      BY <1>0, <2>1, <2>2 DEF CloudDrop, CloudControl, CloudTypeOK, NoRow
    <2>3. CASE \E j \in Sends : CloudQueue(p, j)
      BY <1>0, <2>1, <2>3 DEF CloudQueue, CloudTypeOK
    <2> QED BY <2>2, <2>3 DEF CloudStep
  <1>5. \A k \in Sends : SendStands(k)
    BY <1>1, <1>3, <1>4 DEF SendStands, Resaving
  <1> QED BY <1>2, <1>5, StillPhase

LEMMA PrinterPhase ==
    ASSUME IInv, OnceInv, PhaseInv, "parse" \notin Env, NEW p \in Printers, PrinterStep(p)
    PROVE  PhaseInv'
  <1>0. /\ trail \in [Sends -> TrailRecords] /\ dev \in [Printers -> DevRecords]
        /\ asg \in [Printers -> [send : Sends, active : BOOLEAN, att : AttRecords] \cup {None}]
    BY DEF IInv, TypeOK, HistoryTypeOK, DevTypeOK, SpoolTypeOK
  <1>1. UNCHANGED <<row, ver, marker, att, job>>
    BY DEF PrinterStep, ReportView, ReportEcho, ReportName, ReportFlag, LinkDown, LinkUp,
       AssignmentSeen, AssignmentEnds, Heard, cloudVars, spoolVars
  <1>2. \A q \in Printers : AsgStands(q)
    <2>1. CASE ~AssignmentSeen(p)
      <3>1. asg' = asg \/ asg' = [asg EXCEPT ![p] = None]
        BY <2>1 DEF PrinterStep, ReportView, ReportEcho, ReportName, ReportFlag, LinkDown,
           LinkUp, AssignmentEnds, Heard, spoolVars
      <3> QED BY <1>0, <3>1 DEF AsgStands
    <2>2. CASE AssignmentSeen(p)
      <3>1. asg[p] # None /\ asg' = [asg EXCEPT ![p] = [asg[p] EXCEPT !.active = TRUE]]
        BY <2>2 DEF AssignmentSeen
      <3>2. \A a \in [send : Sends, active : BOOLEAN, att : AttRecords] :
              LET u == [a EXCEPT !.active = TRUE] IN u.send = a.send /\ u.att = a.att
        OBVIOUS
      <3> QED BY <1>0, <3>1, <3>2 DEF AsgStands
    <2> QED BY <2>1, <2>2
  <1>3. ASSUME NEW k \in Sends
        PROVE  trail'[k].since = trail[k].since /\ trail'[k].lost = trail[k].lost
    <2>1. \A t \in TrailRecords : LET u == [t EXCEPT !.ran = TRUE]
                                  IN  u.since = t.since /\ u.lost = t.lost
      BY DEF TrailRecords
    <2>2. trail'[k] \in {trail[k], [trail[k] EXCEPT !.ran = TRUE]}
      BY <1>0 DEF PrinterStep, ReportView, ReportEcho, ReportName, ReportFlag, LinkDown, LinkUp,
         AssignmentSeen, AssignmentEnds
    <2> QED BY <1>0, <2>1, <2>2
  <1>4. \A q \in Printers : DevStands(q)
    <2>1. CASE UNCHANGED dev
      BY <2>1 DEF DevStands
    <2>2. ASSUME NEW field \in {"view", "echo", "name", "tray", "rejects"}, NEW value,
                 \/ dev' = [dev EXCEPT ![p] = [dev[p] EXCEPT !.quiet = 0, !.link = "live",
                                                            ![field] = value]]
                 \/ \E bare : dev' = [dev EXCEPT ![p] =
                      [dev[p] EXCEPT !.quiet = 0, !.link = "live", !.bare = bare,
                                     ![field] = value]]
          PROVE  \A q \in Printers : DevStands(q)
      <3>1. \A d \in DevRecords : LET u == [d EXCEPT !.quiet = 0, !.link = "live",
                                                   ![field] = value]
                                  IN  u.parse = d.parse /\ u.quiet = 0
        BY <2>2 DEF DevRecords
      <3>2. \A bare : \A d \in DevRecords :
              LET u == [d EXCEPT !.quiet = 0, !.link = "live", !.bare = bare, ![field] = value]
              IN  u.parse = d.parse /\ u.quiet = 0
        BY <2>2 DEF DevRecords
      <3>3. /\ dev'[p].parse = dev[p].parse /\ dev'[p].quiet = 0
            /\ \A q \in Printers \ {p} : dev'[q] = dev[q]
        <4>1. PICK u : /\ dev' = [dev EXCEPT ![p] = u]
                       /\ u.parse = dev[p].parse /\ u.quiet = 0
          <5>1. CASE dev' = [dev EXCEPT ![p] = [dev[p] EXCEPT !.quiet = 0, !.link = "live",
                                                            ![field] = value]]
            BY <1>0, <3>1, <5>1
          <5>2. ASSUME NEW bare,
                       dev' = [dev EXCEPT ![p] = [dev[p] EXCEPT !.quiet = 0, !.link = "live",
                                                       !.bare = bare, ![field] = value]]
                PROVE  \E u : /\ dev' = [dev EXCEPT ![p] = u]
                              /\ u.parse = dev[p].parse /\ u.quiet = 0
            BY <1>0, <3>2, <5>2
          <5> QED BY <2>2, <5>1, <5>2
        <4> QED BY <1>0, <4>1
      <3> QED BY <3>3 DEF DevStands
    <2>3. CASE \E view \in {"ready", "active"} : ReportView(p, view)
      BY <2>2, <2>3 DEF ReportView, Heard
    <2>4. CASE ReportEcho(p) \/ ReportName(p)
      BY <2>2, <2>4 DEF ReportEcho, ReportName, Heard
    <2>5. CASE \E flag \in {"tray", "parse", "rejects"} : ReportFlag(p, flag)
      <3>1. PICK flag \in {"tray", "rejects"} : ReportFlag(p, flag)
        BY <2>5 DEF ReportFlag
      <3>2. \E bare, value : dev' = [dev EXCEPT ![p] =
              [dev[p] EXCEPT !.quiet = 0, !.link = "live", !.bare = bare, ![flag] = value]]
        BY <3>1, Zenon DEF ReportFlag
      <3> QED BY <2>2, <3>2
    <2>6. CASE LinkDown(p)
      <3>1. /\ dev'[p].parse = dev[p].parse
            /\ dev'[p].up => dev[p].up /\ dev'[p].quiet = dev[p].quiet
            /\ \A q \in Printers \ {p} : dev'[q] = dev[q]
        BY <1>0, <2>6 DEF LinkDown, DevRecords
      <3> QED BY <3>1 DEF DevStands
    <2>7. CASE LinkUp(p)
      <3>1. /\ dev'[p].parse = dev[p].parse /\ dev'[p].quiet = 0
            /\ \A q \in Printers \ {p} : dev'[q] = dev[q]
        BY <1>0, <2>7 DEF LinkUp, DevRecords
      <3> QED BY <3>1 DEF DevStands
    <2>8. CASE AssignmentSeen(p) \/ AssignmentEnds(p)
      BY <2>1, <2>8 DEF AssignmentSeen, AssignmentEnds, devVars
    <2> QED BY <2>3, <2>4, <2>5, <2>6, <2>7, <2>8 DEF PrinterStep
  <1>5. \A q \in Printers : PassStands(q)
    BY <1>1 DEF PassStands
  <1>6. \A k \in Sends : SendStands(k)
    BY <1>1, <1>3 DEF SendStands, Resaving
  <1> QED BY <1>2, <1>4, <1>5, <1>6, StillPhase

\* The report loop begins passes and lets latches go, and a failed report only the latter.
LEMMA ReportPhase ==
    ASSUME IInv, OnceInv, PhaseInv, ReportPass \/ ReportOutage
    PROVE  PhaseInv'
  <1>0. JobTypeOK /\ trail \in [Sends -> TrailRecords]
    BY DEF IInv, TypeOK, HistoryTypeOK
  <1>1. UNCHANGED <<row, ver, marker, dev>>
    BY DEF ReportPass, ReportOutage, cloudVars, devVars
  <1>2. ASSUME NEW p \in Printers
        PROVE  PassStands(p) /\ DevStands(p) /\ AsgStands(p)
    <2>1. AsgStands(p)
      BY DEF ReportPass, ReportOutage, AsgStands
    <2>2. PassStands(p)
      <3>1. \/ job'[p] = Submitted(p)
            \/ job'[p] = job[p] \/ job'[p] = [job[p] EXCEPT !.cancel = TRUE]
        BY DEF ReportPass, ReportOutage
      <3>2. LET u == [job[p] EXCEPT !.cancel = TRUE]
            IN  /\ u.pc = job[p].pc /\ u.send = job[p].send /\ u.rec = job[p].rec
                /\ u.age = job[p].age /\ u.parse = job[p].parse
        BY <1>0 DEF JobTypeOK, JobRecords
      <3>3. LET u == Submitted(p) IN u.pc = "pass" /\ u.send = row[p].send
        BY DEF Submitted, NoJob
      <3> QED BY <3>1, <3>2, <3>3 DEF PassStands
    <2> QED BY <1>1, <2>1, <2>2 DEF DevStands
  <1>3. ASSUME NEW k \in Sends PROVE SendStands(k)
    <2>1. att'[k] = att[k] \/ (att'[k].kind # "full" /\ att[k].kind # "full")
      BY DEF ReportPass, ReportOutage, ReleaseSettled, FailureLatched, NoAtt
    <2>2. trail'[k].since = trail[k].since /\ trail'[k].lost = trail[k].lost
      <3>1. \A t \in TrailRecords : LET u == [t EXCEPT !.halted = "just"]
                                    IN  u.since = t.since /\ u.lost = t.lost
        BY DEF TrailRecords
      <3>2. trail'[k] \in {trail[k], [trail[k] EXCEPT !.halted = "just"]}
        BY DEF ReportPass, ReportOutage
      <3> QED BY <1>0, <3>1, <3>2
    <2>3. Resaving(k) => Resaving(k)'
      <3> SUFFICES ASSUME Resaving(k) PROVE Resaving(k)'
        OBVIOUS
      <3> DEFINE p == PrinterOf[k]
      <3>1. p \in Printers /\ job[p].pc = "resave" /\ job[p].send = k
        BY ConstFacts DEF Resaving
      <3>2. job'[p] = job[p]
        BY <3>1 DEF ReportPass, ReportOutage
      <3> QED BY <3>1, <3>2 DEF Resaving
    <2> QED BY <1>1, <2>1, <2>2, <2>3 DEF SendStands
  <1> QED BY <1>2, <1>3, StillPhase

\* A crash loses the passes and the connections, and counts the record it lost.
LEMMA CrashPhase ==
    ASSUME IInv, OnceInv, PhaseInv, Crash
    PROVE  PhaseInv'
  <1>0. trail \in [Sends -> TrailRecords] /\ dev \in [Printers -> DevRecords]
    BY DEF IInv, TypeOK, HistoryTypeOK, DevTypeOK
  <1>1. UNCHANGED <<row, ver, marker, att, asg>>
    BY DEF Crash, cloudVars, spoolVars
  <1>2. ASSUME NEW p \in Printers
        PROVE  PassStands(p) /\ DevStands(p) /\ AsgStands(p)
    <2>1. PassStands(p)
      BY DEF Crash, NoJob, PassStands
    <2>2. DevStands(p)
      <3>1. dev'[p] = [dev[p] EXCEPT !.up = FALSE, !.link = "offline", !.view = "ready",
                                     !.bare = FALSE]
        BY DEF Crash
      <3>2. dev'[p].parse = dev[p].parse /\ ~dev'[p].up
        BY <1>0, <3>1 DEF DevRecords
      <3> QED BY <3>2 DEF DevStands
    <2> QED BY <1>1, <2>1, <2>2 DEF AsgStands
  <1>3. ASSUME NEW k \in Sends PROVE SendStands(k)
    <2> DEFINE j == job[PrinterOf[k]]
               lost == IF j.pc = "resave" THEN trail[k].lost + 1 ELSE trail[k].lost
               torn == trail[k].torn \/ j.pc = "mark"
    <2>1. trail'[k] = IF j.send # k THEN trail[k]
                      ELSE [trail[k] EXCEPT !.lost = lost, !.torn = torn]
      BY DEF Crash
    <2>2. Resaving(k) <=> j.send = k /\ j.pc = "resave"
      BY DEF Resaving
    <2>3. trail[k].lost \in Nat
      BY <1>0 DEF TrailRecords
    <2>4. lost = 0 => trail[k].lost = 0 /\ j.pc # "resave"
      BY <2>3
    <2> HIDE DEF j, lost, torn
    <2>5. /\ trail'[k].since = trail[k].since
          /\ trail'[k].lost = (IF j.send # k THEN trail[k].lost ELSE lost)
      BY <1>0, <2>1 DEF TrailRecords
    <2> QED BY <1>1, <2>2, <2>4, <2>5 DEF SendStands
  <1> QED BY <1>2, <1>3, StillPhase

LEMMA SamePhase == ASSUME IInv, OnceInv, PhaseInv, UNCHANGED vars PROVE PhaseInv'
  <1>1. UNCHANGED <<row, ver, marker, att, asg, job, dev, trail>>
    BY DEF vars, cloudVars, spoolVars, devVars
  <1>2. \A p \in Printers : PassStands(p) /\ DevStands(p) /\ AsgStands(p)
    BY <1>1 DEF PassStands, DevStands, AsgStands
  <1>3. \A k \in Sends : SendStands(k)
    BY <1>1 DEF SendStands, Resaving
  <1> QED BY <1>2, <1>3, StillPhase

\* Time passes for the start, its records and the connection alike, and never within a
\* pass that holds a copy of the record.
LEMMA TickDated ==
    ASSUME IInv, Tick, NEW k \in Sends, NEW rec \in AttRecords, Dated(k, rec),
           NEW new, new = OlderAtt(rec)
    PROVE  Dated(k, new)'
  <1> DEFINE p == PrinterOf[k]
             since == Older(trail[k].since, AgeCap)
             quiet == Older(dev[p].quiet, AgeCap)
             halted == IF trail[k].halted = "just" THEN "past" ELSE trail[k].halted
             bare == ~TrayPresent(p)
             age == Older(rec.age, AgeCap)
             held == Older(rec.held, HoldCap)
  <1>1. p \in Printers /\ trail[k] \in TrailRecords /\ dev[p] \in DevRecords
    BY ConstFacts DEF IInv, TypeOK, HistoryTypeOK, DevTypeOK
  <1>2. /\ trail'[k] = [trail[k] EXCEPT !.since = since, !.halted = halted]
        /\ dev'[p] = [dev[p] EXCEPT !.quiet = quiet, !.bare = bare]
        /\ new = [rec EXCEPT !.age = age, !.held = held]
    BY <1>1 DEF Tick, OlderAtt
  <1>3. /\ trail[k].since \in Nat /\ dev[p].quiet \in Nat /\ AgeCap \in Nat
        /\ trail[k].since <= AgeCap /\ dev[p].quiet <= AgeCap
        /\ rec.age = None \/ (rec.age \in Nat /\ rec.age <= AgeCap)
        /\ trail[k].since # None /\ dev[p].quiet # None
    BY <1>1, ConstFacts DEF TrailRecords, DevRecords, AttRecords, Ages
  <1>4. HoldMax \in Nat /\ HoldMax <= AgeCap
    BY CloudSendAssumption, PipelineAssumption DEF AgeCap, Larger
  <1>5. /\ since \in Nat /\ quiet \in Nat /\ since >= trail[k].since
        /\ dev[p].quiet < trail[k].since => quiet < since \/ since >= HoldMax
        /\ age # None => rec.age # None /\ (rec.age <= trail[k].since => age <= since)
    BY <1>3, <1>4 DEF Older
  <1> HIDE DEF since, quiet, halted, bare, age, held
  <1>6. /\ trail'[k].since = since /\ dev'[p].quiet = quiet /\ dev'[p].up = dev[p].up
        /\ new.age = age /\ new.pending = rec.pending
    BY <1>1, <1>2 DEF TrailRecords, DevRecords, AttRecords
  <1> QED BY <1>3, <1>4, <1>5, <1>6 DEF Dated

LEMMA TickPhase ==
    ASSUME IInv, OnceInv, PhaseInv, Tick
    PROVE  PhaseInv'
  <1>0. /\ trail \in [Sends -> TrailRecords] /\ dev \in [Printers -> DevRecords]
        /\ SpoolTypeOK
    BY DEF IInv, TypeOK, HistoryTypeOK, DevTypeOK
  <1>1. \A p \in Printers : job'[p] = job[p] /\ job[p].pc \in LongSteps \ {"recopy"}
    BY DEF Tick, Waiting, PhaseInv, PassTimed, Transfers
  <1>2. UNCHANGED <<row, ver>>
    BY DEF Tick, cloudVars
  <1>3. ASSUME NEW p \in Printers
        PROVE  /\ asg'[p] # None => /\ asg[p] # None /\ asg'[p].send = asg[p].send
                                    /\ asg'[p].att = OlderAtt(asg[p].att)
                                    /\ asg[p].att \in AttRecords
               /\ dev'[p].parse = dev[p].parse
    <2>1. asg'[p] # None =>
             asg[p] # None /\ asg'[p] = [asg[p] EXCEPT !.att = OlderAtt(asg[p].att)]
      BY DEF Tick
    <2>2. asg[p] # None => asg[p] \in [send : Sends, active : BOOLEAN, att : AttRecords]
      BY <1>0 DEF SpoolTypeOK
    <2>3. PICK quiet, bare : dev'[p] = [dev[p] EXCEPT !.quiet = quiet, !.bare = bare]
      BY DEF Tick
    <2>4. dev'[p].parse = dev[p].parse
      BY <1>0, <2>3 DEF DevRecords
    <2> QED BY <2>1, <2>2, <2>4
  <1>4. ASSUME NEW p \in Printers PROVE PassTimed(p)'
    <2>1. PassTimed(p)
      BY DEF PhaseInv
    <2> QED BY <1>1, <1>3, <2>1 DEF PassTimed, Transfers, LongSteps
  <1>5. ASSUME NEW k \in Sends PROVE Timed(k)'
    <2> DEFINE p == PrinterOf[k]
    <2>1. p \in Printers /\ k # None /\ Timed(k) /\ att[k] \in AttRecords
      BY <1>0, ConstFacts DEF PhaseInv, SpoolTypeOK
    <2>2. att'[k] = OlderAtt(att[k]) /\ att'[k].kind = att[k].kind
      BY <2>1, OlderAttType DEF Tick
    <2>3. marker'[k] # None <=> marker[k] # None
      <3>1. ASSUME marker[k] # None PROVE marker'[k] # None
        <4>1. marker'[k] = [marker[k] EXCEPT !.age = Older(marker[k].age, AgeCap)]
          BY <3>1 DEF Tick
        <4>2. marker[k] \in [confirmed : BOOLEAN, age : Ages]
          BY <1>0, <3>1 DEF SpoolTypeOK
        <4>3. Older(marker[k].age, AgeCap) \in Ages
          BY <4>2, OlderType, ConstFacts DEF Ages
        <4>4. marker'[k] \in [confirmed : BOOLEAN, age : Ages]
          BY <4>1, <4>2, <4>3
        <4> QED BY <4>4, AbsentAssumption
      <3> QED BY <3>1 DEF Tick
    <2>4. ASSUME marker[k] # None, marker[k].age <= trail[k].since
          PROVE  marker'[k].age <= trail'[k].since
      <3> DEFINE age == Older(marker[k].age, AgeCap)
                 since == Older(trail[k].since, AgeCap)
                 halted == IF trail[k].halted = "just" THEN "past" ELSE trail[k].halted
      <3>1. /\ marker'[k] = [marker[k] EXCEPT !.age = age]
            /\ trail'[k] = [trail[k] EXCEPT !.since = since, !.halted = halted]
        BY <2>4 DEF Tick
      <3>2. /\ marker[k] \in [confirmed : BOOLEAN, age : Ages] /\ trail[k] \in TrailRecords
            /\ marker[k].age \in Nat /\ trail[k].since \in Nat
            /\ marker[k].age <= AgeCap /\ trail[k].since <= AgeCap
        BY <1>0, <2>4, ConstFacts DEF SpoolTypeOK, TrailRecords, Ages
      <3>3. age <= since
        BY <2>4, <3>2, ConstFacts DEF Older
      <3> HIDE DEF age, since, halted
      <3>4. marker'[k].age = age /\ trail'[k].since = since
        BY <3>1, <3>2 DEF TrailRecords
      <3> QED BY <3>3, <3>4
    <2>5. trail'[k].lost = trail[k].lost
      <3>1. PICK since, halted : trail'[k] = [trail[k] EXCEPT !.since = since, !.halted = halted]
        BY DEF Tick
      <3> QED BY <1>0, <3>1 DEF TrailRecords
    <2>6. ASSUME DiskDated(k), marker[k] # None PROVE DiskDated(k)'
      <3>1. CASE att[k].kind = "full"
        <4>1. PICK r : r = att'[k]
          OBVIOUS
        <4>2. Dated(k, r)'
          BY <2>1, <2>2, <2>6, <3>1, <4>1, TickDated DEF DiskDated
        <4> QED BY <2>2, <3>1, <4>1, <4>2 DEF DiskDated, Dated
      <3>2. CASE att[k].kind # "full"
        <4>1. marker'[k].age <= trail'[k].since
          BY <2>4, <2>6, <3>2 DEF DiskDated
        <4>2. ASSUME AssignmentMatches(p, k)' PROVE Dated(k, asg[p].att)'
          <5>1. AssignmentMatches(p, k) /\ asg'[p].att = OlderAtt(asg[p].att)
                /\ asg[p].att \in AttRecords
            BY <1>3, <2>1, <4>2 DEF AssignmentMatches
          <5>2. PICK r : r = asg'[p].att
            OBVIOUS
          <5>3. Dated(k, r)'
            BY <2>6, <3>2, <5>1, <5>2, TickDated DEF DiskDated
          <5> QED BY <5>2, <5>3 DEF Dated
        <4> QED BY <2>2, <3>2, <4>1, <4>2 DEF DiskDated
      <3> QED BY <3>1, <3>2
    <2>7. att[k].age # None => att'[k].age # None
      <3>1. PICK held : att'[k] = [att[k] EXCEPT !.age = Older(att[k].age, AgeCap), !.held = held]
        BY <2>2 DEF OlderAtt
      <3>2. att[k].age # None => Older(att[k].age, AgeCap) \in Nat
        BY <2>1, OlderType, ConstFacts DEF AttRecords, Ages
      <3>3. att'[k].age = Older(att[k].age, AgeCap)
        BY <2>1, <3>1 DEF AttRecords
      <3> QED BY <3>2, <3>3, ConstFacts
    <2>8. /\ job'[p] = job[p] /\ job[p].pc \notin {"mark", "latch", "recopy", "republish", "resave"}
      BY <1>1, <2>1 DEF LongSteps
    <2>9. (Here(k)' <=> Here(k)) /\ (Serving(k)' <=> Serving(k)) /\ ~Resaving(k)
      BY <1>2, <2>8 DEF Here, Serving, Resaving
    <2> QED BY <1>2, <2>1, <2>2, <2>3, <2>5, <2>6, <2>7, <2>8, <2>9 DEF Timed
  <1> QED BY <1>4, <1>5 DEF PhaseInv

LEMMA InitPhase == Init => PhaseInv
  <1> SUFFICES ASSUME Init PROVE PhaseInv
    OBVIOUS
  <1>1. ASSUME NEW p \in Printers PROVE PassTimed(p)
    BY DEF Init, NoJob, NewDev, PassTimed, Transfers
  <1>2. ASSUME NEW k \in Sends PROVE Timed(k)
    <2>1. /\ PrinterOf[k] \in Printers /\ k # None /\ marker[k] = None /\ att[k].kind = "none"
          /\ job[PrinterOf[k]].pc = "idle"
      BY ConstFacts DEF Init, NoJob, NoAtt
    <2> QED BY <2>1 DEF Timed
  <1> QED BY <1>1, <1>2 DEF PhaseInv

LEMMA NextPhase ==
    ASSUME MaxVer = 1, "parse" \notin Env
    PROVE  IInv /\ OnceInv /\ PhaseInv /\ [Next]_vars => PhaseInv'
  <1> SUFFICES ASSUME IInv, OnceInv, PhaseInv, [Next]_vars PROVE PhaseInv'
    OBVIOUS
  <1>1. CASE ReportPass \/ ReportOutage \/ UNCHANGED vars
    BY <1>1, ReportPhase, SamePhase
  <1>2. CASE Crash \/ Tick
    BY <1>2, CrashPhase, TickPhase
  <1>3. ASSUME NEW p \in Printers, Worker(p) \/ PrinterStep(p) \/ CloudStep(p)
        PROVE  PhaseInv'
    BY <1>3, WorkerPhase, PrinterPhase, CloudPhase
  <1> QED BY <1>1, <1>2, <1>3 DEF Next

\* Only the watchdog closes a connection and ends its pass in the same step.
LEMMA ResetBy ==
    ASSUME IInv, [Next]_vars, NEW p \in Printers, HardReset(p)
    PROVE  AdvanceReset(p)
  <1>1. job[p].pc = "advance" /\ job'[p].pc = "sweep" /\ dev[p].up /\ ~dev'[p].up
    BY DEF HardReset
  <1>2. ~ReportPass /\ ~ReportOutage /\ ~UNCHANGED vars
    BY <1>1 DEF ReportPass, ReportOutage, vars, devVars
  <1>3. ~Crash
    <2>1. NoJob.pc = "idle"
      BY DEF NoJob
    <2>2. Crash => job' = [q \in Printers |-> NoJob]
      BY Zenon DEF Crash
    <2> QED BY <1>1, <2>1, <2>2
  <1>4. ~Tick
    BY <1>1 DEF Tick, Waiting, LongSteps
  <1>5. ASSUME NEW q \in Printers PROVE ~CloudStep(q) /\ ~PrinterStep(q)
    BY <1>1 DEF CloudStep, CloudQueue, CloudDrop, CloudControl, PrinterStep, ReportView,
       ReportEcho, ReportName, ReportFlag, LinkDown, LinkUp, AssignmentSeen, AssignmentEnds, Heard,
       devVars
  <1>6. PICK q \in Printers : Worker(q)
    BY <1>2, <1>3, <1>4, <1>5 DEF Next
  <1>7. q = p
    BY <1>1, <1>6, WorkerOthers
  <1>8. FreshStep(p) => job[p].pc # "advance"
    BY DEF FreshStep, FreshWait, FreshRejected, FreshReady, Download,
       DownloadFails, BadPlate, UploadSkipped, Upload, UploadFails, UploadCancelled,
       AuthorizeRefused, AuthorizeOutage, Authorize, Start, StartNotSent, MarkStarted,
       RecordAssignment, RememberAttempt
  <1>9. SettleStep(p) => job[p].pc # "advance"
    BY DEF SettleStep, FailNotAcked, FailAcked, DropFailed, LatchFailure, Sweep
  <1>10. WatchdogStep(p) /\ ~AdvanceReset(p) /\ ~Republish(p) => UNCHANGED dev
    BY DEF WatchdogStep, PassNothing, PassCancel, PassKnown, AdvanceDispatched,
       AdvanceConfirm, MarkConfirmed, AdvanceEnterB, AdvanceWait, AdvanceRepublish,
       AdvanceFail, Recopy, RepublishHeld, RepublishNotSent, ResaveAttempt, ResaveFails,
       devVars
  <1>11. ~Republish(p)
    BY <1>1 DEF Republish
  <1> QED BY <1>1, <1>6, <1>7, <1>8, <1>9, <1>10, <1>11 DEF Worker

\* A send that the cloud queues once, on a printer that raises no parse failure - a pass
\* makes no fresh copy, so a phase is anchored at the start it is about -, is never reset
\* while its printer has been silent since that start, within the hold.
THEOREM ResetsAreDue == ASSUME MaxVer = 1, "parse" \notin Env PROVE Spec => NoResetWhileSilent
  <1> DEFINE Due == \A k \in Sends :
                      LET p == PrinterOf[k] IN
                      HardReset(p) /\ job[p].send = k /\ trail[k].lost = 0
                        => ~(dev[p].quiet >= trail[k].since /\ trail[k].since < HoldMax)
  <1>1. IInv /\ OnceInv /\ PhaseInv /\ [Next]_vars => [Due]_vars
    <2> SUFFICES ASSUME IInv, OnceInv, PhaseInv, [Next]_vars,
                        NEW k \in Sends, HardReset(PrinterOf[k]),
                        job[PrinterOf[k]].send = k, trail[k].lost = 0,
                        dev[PrinterOf[k]].quiet >= trail[k].since, trail[k].since < HoldMax
                 PROVE  FALSE
      OBVIOUS
    <2> DEFINE p == PrinterOf[k]
               load == LoadAttempt(p, k)
    <2>1. /\ p \in Printers /\ AdvanceReset(p) /\ job[p].pc = "advance" /\ dev[p].up
          /\ SpoolTypeOK /\ trail[k] \in TrailRecords /\ dev[p] \in DevRecords
      BY ResetBy, ConstFacts DEF HardReset, IInv, TypeOK, DevTypeOK, HistoryTypeOK
    <2>2. Dated(k, load)
      BY <2>1, LoadDated
    <2>3. ~load.pending => load.age >= HoldMax \/ ~SilentSince(p, load.age)
      BY <2>1, ResetRead
    <2>4. load.age \in Ages
      BY <2>1, LoadAttemptType
    <2> HIDE DEF load
    <2>5. /\ trail[k].since \in Nat /\ dev[p].quiet \in Nat /\ load.age \in Nat
          /\ load.age # None /\ HoldMax \in Nat
      BY <2>1, <2>4, CloudSendAssumption, ConstFacts DEF TrailRecords, DevRecords, Ages
    <2>6. dev[p].quiet >= trail[k].since /\ trail[k].since < HoldMax
      OBVIOUS
    <2>7. load.age <= trail[k].since
      BY <2>2, <2>5 DEF Dated
    <2>8. CASE load.pending
      <3>1. dev[p].quiet < trail[k].since \/ trail[k].since >= HoldMax
        BY <2>1, <2>2, <2>8 DEF Dated
      <3> QED BY <2>5, <2>6, <3>1
    <2>9. CASE ~load.pending
      <3>1. load.age >= HoldMax \/ dev[p].quiet < load.age
        BY <2>1, <2>3, <2>5, <2>9 DEF SilentSince
      <3> QED BY <2>5, <2>6, <2>7, <3>1
    <2> QED BY <2>8, <2>9
  <1>2. IInv /\ OnceInv /\ PhaseInv /\ [Next]_vars => PhaseInv'
    BY NextPhase
  <1>3. IInv /\ OnceInv /\ [Next]_vars => OnceInv'
    BY NextOnce
  <1> QED BY <1>1, <1>2, <1>3, InitOnce, InitPhase, InitInv, NextInv, PTL
          DEF Spec, NoResetWhileSilent

-----------------------------------------------------------------------------
(* Stops: what is still started after one.                                 *)

\* The operator's stop was published for the row that is still there; a pass that
\* has asked once more starts before time goes on.
HaltedOK(k) ==
    LET p == PrinterOf[k] IN
    /\ trail[k].halted # "no" => row[p].send = k /\ row[p].ctl = "stop"
    /\ Serving(k) /\ job[p].pc = "start" => trail[k].halted # "past"

\* A pass that takes a send up again captured a row without a stop.
Unstopped(p) == job[p].pc \in {"advance", "recopy", "republish"} => job[p].ctl # "stop"

HaltInv == (\A k \in Sends : HaltedOK(k)) /\ (\A p \in Printers : Unstopped(p))

LEMMA WorkerHalted ==
    ASSUME IInv, NEW p \in Printers, Worker(p)
    PROVE  \A k \in Sends : trail'[k].halted = trail[k].halted
  <1>0. trail \in [Sends -> TrailRecords]
    BY DEF IInv, TypeOK, HistoryTypeOK
  <1>1. CASE Start(p)
    <2>1. trail' = [trail EXCEPT ![job[p].send] =
                      [trail[job[p].send] EXCEPT !.pubs = 1, !.lost = 0, !.torn = FALSE,
                                                 !.ran = FALSE, !.since = 0]]
      BY <1>1 DEF Start
    <2>2. \A t \in TrailRecords : [t EXCEPT !.pubs = 1, !.lost = 0, !.torn = FALSE,
                                            !.ran = FALSE, !.since = 0].halted = t.halted
      BY DEF TrailRecords
    <2> QED BY <1>0, <2>1, <2>2
  <1>2. CASE Republish(p)
    <2>1. PICK n : trail' = [trail EXCEPT ![job[p].send] =
                      [trail[job[p].send] EXCEPT !.pubs = n, !.ran = FALSE, !.since = 0]]
      BY <1>2 DEF Republish
    <2>2. \A t \in TrailRecords : [t EXCEPT !.pubs = n, !.ran = FALSE,
                                            !.since = 0].halted = t.halted
      BY DEF TrailRecords
    <2> QED BY <1>0, <2>1, <2>2
  <1> QED BY <1>1, <1>2, WorkerTrail

\* A pass that moves on keeps the row it captured.
LEMMA GotoKeeps ==
    ASSUME JobTypeOK, NEW p \in Printers, NEW pc, Goto(p, pc)
    PROVE  job'[p].ctl = job[p].ctl /\ job'[p].send = job[p].send
  BY DEF JobTypeOK, JobRecords, Goto

\* Where a pass goes on towards a start.
Onwards(p) ==
    /\ \A q \in Printers \ {p} : job'[q] = job[q]
    /\ \/ job'[p].pc \notin {"start", "advance", "recopy", "republish"}
       \/ job'[p].pc = "start" /\ job'[p].send = job[p].send /\ row[p].ctl = "none"
       \/ job'[p].pc # "start" /\ job'[p].ctl = job[p].ctl /\ job[p].ctl # "stop"

LEMMA FreshHalt ==
    ASSUME IInv, HaltInv, NEW p \in Printers, FreshStep(p)
    PROVE  Onwards(p)
  <1>1. JobTypeOK
    BY DEF IInv, TypeOK
  <1>2. CASE Authorize(p)
    <2>1. row[p].ctl = "none" /\ \/ Goto(p, "start") \/ Goto(p, "sweep")
                                 \/ GoFail(p, "slot")
      BY <1>2 DEF Authorize, AuthorizedSend, SlotHeld
    <2> QED BY <1>1, <2>1, GoneTo, GotoKeeps DEF Onwards
  <1>3. CASE \/ FreshWait(p) \/ FreshRejected(p) \/ Download(p) \/ DownloadFails(p)
             \/ BadPlate(p) \/ AuthorizeRefused(p) \/ AuthorizeOutage(p) \/ Start(p)
             \/ MarkStarted(p) \/ RecordAssignment(p) \/ RememberAttempt(p)
    BY <1>1, <1>3, GoneTo
       DEF FreshWait, FreshRejected, Download, DownloadFails, BadPlate, AuthorizeRefused,
           AuthorizeOutage, Start, MarkStarted, RecordAssignment, RememberAttempt, Onwards
  <1>4. CASE FreshReady(p) \/ UploadFails(p) \/ StartNotSent(p) \/ UploadCancelled(p)
    BY <1>1, <1>4, GoneTo
       DEF FreshReady, SlotHeld, CountSetupFailure, UploadFails, StartNotSent, UploadCancelled,
           Onwards
  <1>5. CASE UploadSkipped(p) \/ Upload(p)
    <2>1. job' = [job EXCEPT ![p].pc = "auth", ![p].cancel = FALSE]
      BY <1>5 DEF UploadSkipped, Upload
    <2>2. job'[p].pc = "auth" /\ \A q \in Printers \ {p} : job'[q] = job[q]
      BY <1>1, <2>1 DEF JobTypeOK, JobRecords
    <2> QED BY <2>2 DEF Onwards
  <1> QED BY <1>2, <1>3, <1>4, <1>5 DEF FreshStep

LEMMA WatchdogHalt ==
    ASSUME IInv, HaltInv, NEW p \in Printers, WatchdogStep(p) \/ SettleStep(p)
    PROVE  Onwards(p)
  <1>1. JobTypeOK /\ Unstopped(p)
    BY DEF IInv, TypeOK, HaltInv
  <1>2. CASE PassKnown(p)
    <2>1. Goto(p, "advance") /\ job[p].ctl # "stop"
      BY <1>2 DEF PassKnown
    <2> QED BY <1>1, <2>1, GoneTo, GotoKeeps DEF Onwards
  <1>3. CASE \/ PassNothing(p) \/ PassCancel(p) \/ AdvanceDispatched(p)
             \/ AdvanceConfirm(p) \/ AdvanceEnterB(p) \/ AdvanceWait(p) \/ AdvanceFail(p)
             \/ AdvanceReset(p) \/ MarkConfirmed(p) \/ ResaveAttempt(p) \/ ResaveFails(p)
    BY <1>1, <1>3, GoneTo
       DEF PassNothing, PassCancel, AdvanceDispatched, AdvanceConfirm, MarkConfirmed,
           AdvanceEnterB, AdvanceWait, AdvanceFail, AdvanceReset, ResaveAttempt, ResaveFails,
           Onwards
  <1>4. CASE \/ FailNotAcked(p) \/ FailAcked(p) \/ DropFailed(p) \/ LatchFailure(p) \/ Sweep(p)
             \/ RepublishHeld(p) \/ RepublishNotSent(p) \/ Republish(p)
    BY <1>1, <1>4, GoneTo
       DEF FailNotAcked, FailAcked, DropFailed, LatchFailure, Sweep, RepublishHeld,
           RepublishNotSent, Republish, SlotHeld, Onwards
  <1>5. CASE AdvanceRepublish(p)
    <2>1. CASE Goto(p, "sweep")
      BY <1>1, <2>1, GoneTo DEF Onwards
    <2>2. CASE ~Goto(p, "sweep")
      <3>1. PICK verdict \in {"republish", "retry"} :
              job' = [job EXCEPT ![p].pc = "recopy", ![p].age = 0,
                                 ![p].retry = (verdict = "retry"),
                                 ![p].tray = TrayPresent(p),
                                 ![p].parse = dev[p].parse /\ Readable(p),
                                 ![p].rec = LoadAttempt(p, job[p].send)]
        BY <1>5, <2>2 DEF AdvanceRepublish
      <3> DEFINE tray  == TrayPresent(p)
                 parse == dev[p].parse /\ Readable(p)
                 rec   == LoadAttempt(p, job[p].send)
                 retry == verdict = "retry"
      <3>2. job' = [job EXCEPT ![p].pc = "recopy", ![p].age = 0, ![p].retry = retry,
                               ![p].tray = tray, ![p].parse = parse, ![p].rec = rec]
        BY <3>1
      <3> HIDE DEF tray, parse, rec, retry
      <3>3. /\ job'[p].pc = "recopy" /\ job'[p].ctl = job[p].ctl
            /\ \A q \in Printers \ {p} : job'[q] = job[q]
        BY <1>1, <3>2 DEF JobTypeOK, JobRecords
      <3>4. job[p].ctl # "stop"
        BY <1>1, <1>5 DEF AdvanceRepublish, Advancing, Unstopped
      <3> QED BY <3>3, <3>4 DEF Onwards
    <2> QED BY <2>1, <2>2
  <1>6. CASE Recopy(p)
    <2>1. job[p].pc = "recopy"
          /\ job' = [job EXCEPT ![p].pc = "republish", ![p].cancel = FALSE]
      BY <1>6 DEF Recopy
    <2>2. /\ job'[p].pc = "republish" /\ job'[p].ctl = job[p].ctl
          /\ \A q \in Printers \ {p} : job'[q] = job[q]
      BY <1>1, <2>1 DEF JobTypeOK, JobRecords
    <2> QED BY <1>1, <2>1, <2>2 DEF Onwards, Unstopped
  <1> QED BY <1>2, <1>3, <1>4, <1>5, <1>6 DEF WatchdogStep, SettleStep

LEMMA WorkerHalt ==
    ASSUME IInv, HaltInv, NEW p \in Printers, Worker(p)
    PROVE  HaltInv'
  <1>1. Onwards(p) /\ row' = row
    BY FreshHalt, WatchdogHalt, WorkerMoves DEF Worker, cloudVars
  <1>2. ASSUME NEW k \in Sends PROVE HaltedOK(k)'
    <2>1. HaltedOK(k) /\ trail'[k].halted = trail[k].halted /\ PrinterOf[k] \in Printers
      BY WorkerHalted, ConstFacts DEF HaltInv
    <2> QED BY <1>1, <2>1 DEF HaltedOK, Serving, Onwards
  <1>3. ASSUME NEW q \in Printers PROVE Unstopped(q)'
    BY <1>1 DEF HaltInv, Unstopped, Onwards
  <1> QED BY <1>2, <1>3 DEF HaltInv

\* A step that moves no pass towards a start.
LEMMA AsideHalt ==
    ASSUME HaltInv,
           \A q \in Printers : \/ job'[q].pc \in {"idle", "pass"}
                               \/ /\ job'[q].pc = job[q].pc /\ job'[q].ctl = job[q].ctl
                                  /\ job'[q].send = job[q].send,
           \A k \in Sends : LET p == PrinterOf[k] IN
             /\ trail'[k].halted # "no" => row'[p].send = k /\ row'[p].ctl = "stop"
             /\ trail'[k].halted = "past" => trail[k].halted = "past" \/ job[p].pc # "start"
    PROVE  HaltInv'
  <1>1. ASSUME NEW k \in Sends PROVE HaltedOK(k)'
    <2>1. HaltedOK(k) /\ PrinterOf[k] \in Printers
      BY ConstFacts DEF HaltInv
    <2> QED BY <2>1 DEF HaltedOK, Serving
  <1>2. ASSUME NEW q \in Printers PROVE Unstopped(q)'
    BY DEF HaltInv, Unstopped
  <1> QED BY <1>1, <1>2 DEF HaltInv

LEMMA ReportHalt ==
    ASSUME IInv, HaltInv, ReportPass
    PROVE  HaltInv'
  <1>0. CloudTypeOK /\ JobTypeOK /\ HistoryTypeOK
    BY DEF IInv, TypeOK
  <1>1. ASSUME NEW q \in Printers
        PROVE  \/ job'[q].pc \in {"idle", "pass"}
               \/ /\ job'[q].pc = job[q].pc /\ job'[q].ctl = job[q].ctl
                  /\ job'[q].send = job[q].send
    <2>1. \/ job'[q] = Submitted(q)
          \/ job'[q] = job[q] \/ job'[q] = [job[q] EXCEPT !.cancel = TRUE]
      BY DEF ReportPass
    <2>2. LET new == [job[q] EXCEPT !.cancel = TRUE]
          IN  new.pc = job[q].pc /\ new.ctl = job[q].ctl /\ new.send = job[q].send
      BY <1>0 DEF JobTypeOK, JobRecords
    <2> QED BY <1>0, <2>1, <2>2, SubmittedType
  <1>2. ASSUME NEW k \in Sends
        PROVE  LET p == PrinterOf[k] IN
               /\ trail'[k].halted # "no" => row'[p].send = k /\ row'[p].ctl = "stop"
               /\ trail'[k].halted = "past" => trail[k].halted = "past" \/ job[p].pc # "start"
    <2>1. row' = row /\ HaltedOK(k)
      BY DEF ReportPass, cloudVars, HaltInv
    <2>2. \/ trail'[k] = trail[k]
          \/ /\ trail'[k] = [trail[k] EXCEPT !.halted = "just"]
             /\ row[PrinterOf[k]].send = k /\ row[PrinterOf[k]].ctl = "stop"
      BY DEF ReportPass
    <2>3. [trail[k] EXCEPT !.halted = "just"].halted = "just"
      BY <1>0 DEF HistoryTypeOK, TrailRecords
    <2> QED BY <2>1, <2>2, <2>3 DEF HaltedOK
  <1> QED BY <1>1, <1>2, AsideHalt

LEMMA CloudHalt ==
    ASSUME IInv, HaltInv, NEW p \in Printers, CloudStep(p)
    PROVE  HaltInv'
  <1>0. CloudTypeOK /\ HistoryTypeOK
    BY DEF IInv, TypeOK
  <1>1. UNCHANGED job
    BY DEF CloudStep, CloudQueue, CloudDrop, CloudControl
  <1>2. ASSUME NEW k \in Sends
        PROVE  /\ trail'[k].halted # "no" => /\ row'[PrinterOf[k]].send = k
                                             /\ row'[PrinterOf[k]].ctl = "stop"
               /\ trail'[k].halted = "past" => trail[k].halted = "past"
    <2>0. HaltedOK(k) /\ PrinterOf[k] \in Printers /\ k # None
      BY ConstFacts DEF HaltInv
    <2>1. CASE \E j \in Sends : CloudQueue(p, j)
      BY <1>0, <2>0, <2>1 DEF CloudQueue, CloudTypeOK, HaltedOK
    <2>2. CASE CloudDrop(p)
      <3> DEFINE j == row[p].send
      <3>1. /\ trail' = [trail EXCEPT ![j] =
                            [trail[j] EXCEPT !.reported = FALSE, !.halted = "no"]]
            /\ row' = [row EXCEPT ![p] = NoRow]
        BY <2>2 DEF CloudDrop
      <3>2. CASE j = k
        <4>1. \A t \in TrailRecords : [t EXCEPT !.reported = FALSE, !.halted = "no"].halted = "no"
          BY DEF TrailRecords
        <4> QED BY <1>0, <3>1, <3>2, <4>1 DEF HistoryTypeOK
      <3>3. CASE j # k
        <4>1. trail'[k] = trail[k]
          BY <1>0, <3>1, <3>3 DEF HistoryTypeOK
        <4> QED BY <1>0, <2>0, <3>1, <3>3, <4>1 DEF HaltedOK, CloudTypeOK
      <3> QED BY <3>2, <3>3
    <2>3. CASE \E ctl : CloudControl(p, ctl)
      BY <1>0, <2>0, <2>3 DEF CloudControl, CloudTypeOK, HaltedOK
    <2> QED BY <2>1, <2>2, <2>3 DEF CloudStep
  <1> QED BY <1>1, <1>2, AsideHalt

\* The printers, a restart and a failed request publish no stop and start no pass.
LEMMA OtherHalt ==
    ASSUME IInv, HaltInv,
           Crash \/ ReportOutage \/ UNCHANGED vars \/ \E p \in Printers : PrinterStep(p)
    PROVE  HaltInv'
  <1>0. HistoryTypeOK
    BY DEF IInv, TypeOK
  <1>1. row' = row
    <2>1. CASE Crash \/ ReportOutage \/ UNCHANGED vars
      BY <2>1, Zenon DEF Crash, ReportOutage, vars, cloudVars
    <2>2. CASE \E p \in Printers : PrinterStep(p)
      BY <2>2 DEF cloudVars, PrinterStep, ReportView, ReportEcho, ReportName, ReportFlag,
         LinkDown, LinkUp, AssignmentSeen, AssignmentEnds, Heard
    <2> QED BY <2>1, <2>2
  <1>2. ASSUME NEW q \in Printers PROVE job'[q] = job[q] \/ job'[q].pc = "idle"
    <2>1. CASE Crash
      BY <2>1 DEF Crash, NoJob
    <2>2. CASE ~Crash
      BY <2>2 DEF ReportOutage, vars, PrinterStep, ReportView, ReportEcho, ReportName,
         ReportFlag, LinkDown, LinkUp, AssignmentSeen, AssignmentEnds, Heard
    <2> QED BY <2>1, <2>2
  <1>3. ASSUME NEW k \in Sends PROVE trail'[k].halted = trail[k].halted
    <2>1. CASE Crash
      <3> DEFINE j == job[PrinterOf[k]]
                 lost == IF j.pc = "resave" THEN trail[k].lost + 1 ELSE trail[k].lost
                 torn == trail[k].torn \/ j.pc = "mark"
      <3>1. trail[k] \in TrailRecords
        BY <1>0 DEF HistoryTypeOK
      <3>2. trail'[k] = trail[k] \/ trail'[k] = [trail[k] EXCEPT !.lost = lost, !.torn = torn]
        BY <2>1 DEF Crash
      <3> HIDE DEF j, lost, torn
      <3> QED BY <3>1, <3>2 DEF TrailRecords
    <2>2. CASE \E p \in Printers : PrinterStep(p)
      <3>1. PICK p \in Printers : PrinterStep(p)
        BY <2>2
      <3>2. \/ UNCHANGED trail
            \/ trail' = [trail EXCEPT ![dev[p].last] = [trail[dev[p].last] EXCEPT !.ran = TRUE]]
        BY <3>1 DEF PrinterStep, ReportView, ReportEcho, ReportName, ReportFlag, LinkDown, LinkUp,
           AssignmentSeen, AssignmentEnds
      <3>3. \A t \in TrailRecords : [t EXCEPT !.ran = TRUE].halted = t.halted
        BY DEF TrailRecords
      <3> QED BY <1>0, <3>2, <3>3 DEF HistoryTypeOK
    <2>3. CASE ReportOutage \/ UNCHANGED vars
      BY <2>3 DEF ReportOutage, vars
    <2> QED BY <2>1, <2>2, <2>3
  <1>4. ASSUME NEW k \in Sends PROVE HaltedOK(k)
    BY <1>4 DEF HaltInv
  <1> QED BY <1>1, <1>2, <1>3, <1>4, AsideHalt DEF HaltedOK

\* A tick finds no pass about to start.
LEMMA TickHalt ==
    ASSUME IInv, HaltInv, Tick
    PROVE  HaltInv'
  <1>1. ASSUME NEW q \in Printers
        PROVE  /\ job'[q].pc = job[q].pc /\ job'[q].ctl = job[q].ctl
               /\ job'[q].send = job[q].send
               /\ job[q].pc # "start"
    <2> DEFINE age == Older(job[q].age, AgeCap)
               rec == OlderAtt(job[q].rec)
    <2>1. job'[q] = job[q] \/ job'[q] = [job[q] EXCEPT !.age = age, !.rec = rec]
      BY DEF Tick
    <2>2. job[q] \in JobRecords
      BY DEF IInv, TypeOK, JobTypeOK
    <2>3. job[q].pc # "start"
      BY DEF Tick, Waiting, LongSteps
    <2> HIDE DEF age, rec
    <2> QED BY <2>1, <2>2, <2>3 DEF JobRecords
  <1>2. ASSUME NEW k \in Sends
        PROVE  /\ trail'[k].halted # "no" => /\ row'[PrinterOf[k]].send = k
                                             /\ row'[PrinterOf[k]].ctl = "stop"
               /\ job[PrinterOf[k]].pc # "start"
    <2> DEFINE since == Older(trail[k].since, AgeCap)
               halted == IF trail[k].halted = "just" THEN "past" ELSE trail[k].halted
    <2>1. trail'[k] = [trail[k] EXCEPT !.since = since, !.halted = halted]
      BY DEF Tick
    <2>2. trail[k] \in TrailRecords
      BY DEF IInv, TypeOK, HistoryTypeOK
    <2>3. halted # "no" => trail[k].halted # "no"
      OBVIOUS
    <2> HIDE DEF since, halted
    <2>4. trail'[k].halted = halted
      BY <2>1, <2>2 DEF TrailRecords
    <2>5. row' = row /\ HaltedOK(k) /\ PrinterOf[k] \in Printers
      BY ConstFacts DEF Tick, cloudVars, HaltInv
    <2> QED BY <1>1, <2>3, <2>4, <2>5 DEF HaltedOK
  <1> QED BY <1>1, <1>2, AsideHalt

LEMMA InitHalt == Init => HaltInv
  BY ConstFacts DEF Init, NoTrail, NoJob, HaltInv, HaltedOK, Unstopped

LEMMA NextHalt == IInv /\ HaltInv /\ [Next]_vars => HaltInv'
  BY WorkerHalt, ReportHalt, CloudHalt, OtherHalt, TickHalt DEF Next

\* Some time after a stop was published, a start of the stopped send goes out only from
\* a watchdog's pass that captured its row before, for any printers, sends, restarts and
\* faults (app.py _authorized_send, the cancel branch of _handle_cloud_sends).
THEOREM StopsHold == Spec => NoStartAfterStop
  <1>1. IInv /\ HaltInv /\ [Next]_vars =>
          [\A k \in Sends : Published(k) /\ trail[k].halted = "past" =>
             LET j == job[PrinterOf[k]] IN j.pc = "republish" /\ j.ctl # "stop"]_vars
    <2> SUFFICES ASSUME IInv, HaltInv, [Next]_vars, NEW k \in Sends,
                        Published(k), trail[k].halted = "past"
                 PROVE  LET j == job[PrinterOf[k]] IN j.pc = "republish" /\ j.ctl # "stop"
      OBVIOUS
    <2>1. /\ Serving(k) /\ PrinterOf[k] \in Printers
          /\ job[PrinterOf[k]].pc \in {"start", "republish"}
      BY PublishedBy, ConstFacts DEF Start, Republish
    <2> QED BY <2>1 DEF HaltInv, HaltedOK, Unstopped
  <1> QED BY <1>1, InitHalt, NextHalt, InitInv, NextInv, PTL DEF Spec, NoStartAfterStop
=============================================================================
