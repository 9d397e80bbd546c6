------------------------------ MODULE CloudSend ------------------------------
(***************************************************************************)
(* One cloud send per printer, from the desired-state row to a confirmed   *)
(* start: bridge/app.py (_apply_desired, _handle_cloud_sends,              *)
(* _advance_cloud_send and their helpers) over bridge/send_pipeline.py.    *)
(*                                                                         *)
(* Actors: the report loop (ReportPass), one worker per printer (the       *)
(* actions that read job[p].pc), the printer and its MQTT session, the     *)
(* cloud, and a clock.  A crash loses memory and keeps the spool files and *)
(* the router's assignments.                                               *)
(*                                                                         *)
(* The cloud shows one row per printer, as 3DPF does, so printer_is_held   *)
(* never bites and is left out.  A send is one (batch, printer, plate).    *)
(***************************************************************************)
EXTENDS SendPipeline, FiniteSets

CONSTANTS
    Printers, Sends,
    PrinterOf,      \* the printer each send is for
    RouterOn,       \* the print-host router is configured
    Env,            \* the events this instance's surroundings may produce
    HoldMax,        \* _RESET_HOLD_MAX_SECONDS
    SlotHoldMax,    \* _SLOT_HOLD_SECONDS
    SetupLimit,     \* SEND_SETUP_FAILURE_LIMIT
    SetupMin,       \* SEND_SETUP_FAILURE_MIN_SECONDS
    MaxVer,         \* bound: how often the cloud queues one send
    MaxFaults       \* bound: restarts, failed requests and failed writes

ASSUME CloudSendAssumption ==
    /\ PrinterOf \in [Sends -> Printers]
    /\ None \notin Printers \cup Sends
    /\ RouterOn \in BOOLEAN
    /\ Env \subseteq {"outage", "crash", "stop", "busy", "tray", "link",
                      "parse", "download", "upload", "start", "ack", "rejects",
                      "echo", "name", "plate", "mapping", "write"}
    /\ {HoldMax, SlotHoldMax, SetupMin} \subseteq Nat
    /\ {SetupLimit, MaxVer} \subseteq Nat \ {0}
    /\ MaxFaults \in Nat

VARIABLES
    row,      \* cloud: the desired-state row of each printer
    ver,      \* cloud: how often each send was queued, the version of its file
    marker,   \* spool: the .started marker
    att,      \* spool: the .started.attempt record
    file,     \* spool: the version of the downloaded .3mf, 0 when there is none
    asg,      \* router: the printer's assignment, with a copy of the attempt
    applied,  \* spool: the row's stop control was published
    started,  \* memory: started_sends
    fails,    \* memory: _SendSetupFailures
    hold,     \* memory: _SlotHolds
    job,      \* the worker's job, captured when it was submitted
    dev,      \* the printer and its session; bare: a tray has read absent since a tick
    card,     \* the version of each send's file on its printer's card, 0: no whole copy
    faults,   \* restarts, failed requests and failed writes so far
    trail     \* history: what happened to each send, read by properties only

cloudVars == <<row, ver>>
spoolVars == <<marker, att, file, asg, applied>>
memVars   == <<started, fails, hold>>
devVars   == <<dev, card>>
vars == <<cloudVars, spoolVars, memVars, job, devVars, faults, trail>>

-----------------------------------------------------------------------------
(* Records.                                                                *)

Larger(a, b) == IF a > b THEN a ELSE b
AgeCap  == Larger(Larger(PhaseA, PhaseB), Larger(HoldMax, SetupMin))
HoldCap == SlotHoldMax + 1
Ages    == 0 .. AgeCap

NoAtt == [kind |-> "none", phase |-> "A", attempts |-> 1, pending |-> FALSE,
          age |-> None, sid |-> None, name |-> None, held |-> None,
          uploaded |-> FALSE]

Latched == [NoAtt EXCEPT !.kind = "failed", !.uploaded = TRUE]

NewAssignment(k, sid) ==
    [send |-> k, active |-> FALSE, att |-> [NoAtt EXCEPT !.sid = sid]]

NoRow == [send |-> None, ctl |-> "none"]

NoJob == [pc |-> "idle", send |-> None, ctl |-> "none", url |-> 0, age |-> 0,
          tray |-> TRUE, parse |-> FALSE, cancel |-> FALSE, retry |-> FALSE,
          why |-> "none", rec |-> NoAtt]

NoTrail == [pubs |-> 0, lost |-> 0, torn |-> FALSE, reported |-> FALSE,
            ran |-> FALSE, since |-> 0, halted |-> "no"]

SendsOf(p) == {k \in Sends : PrinterOf[k] = p}

\* The steps that take time.
LongSteps == {"idle", "pass", "download", "upload", "auth", "recopy"}

-----------------------------------------------------------------------------
(* What the worker reads.                                                  *)

\* A stale report keeps the last merged payload but is no proof of readiness;
\* an offline one says nothing at all.
Readable(p) == dev[p].link # "offline"

Snapshot(p) ==
    [view |-> IF dev[p].view = "active" /\ Readable(p) THEN "active"
              ELSE IF dev[p].link = "live" THEN "ready" ELSE "offline",
     rejects |-> dev[p].rejects /\ Readable(p),
     echo |-> IF Readable(p) THEN dev[p].echo ELSE None,
     name |-> IF Readable(p) THEN dev[p].name ELSE None]

\* first_absent_slot: unknown presence is not absence.
TrayPresent(p) == dev[p].tray \/ ~Readable(p)

FailureLatched(k) == att[k].kind = "failed"

\* A plausible slip: a file in the spool counts as uploaded.
UploadedByFile(k) == file[k] # 0

UploadedAlready(k) == att[k].uploaded

AssignmentMatches(p, k) == asg[p] # None /\ asg[p].send = k

\* A plausible slip: only this process's memory says a send was started.
SendKnownInMemory(p, k) == k \in started

SendKnown(p, k) ==
    k \in started \/ marker[k] # None \/ AssignmentMatches(p, k)

AlreadyConfirmed(p, k) ==
    \/ marker[k] # None /\ marker[k].confirmed
    \/ asg[p] # None /\ asg[p].active

\* The persisted attempt, else the assignment's copy, else phase A attempt 1
\* anchored at the marker's time.
LoadAttempt(p, k) ==
    LET saved == IF att[k].kind = "full" THEN att[k]
                 ELSE IF asg[p] # None THEN asg[p].att ELSE NoAtt
        since == IF marker[k] # None THEN marker[k].age ELSE 0
    IN  [saved EXCEPT
           !.kind = "full",
           !.age = IF saved.age # None THEN saved.age ELSE since,
           !.uploaded = IF att[k].kind = "part" THEN TRUE
                        ELSE IF saved.kind = "full" THEN saved.uploaded
                        ELSE marker[k] # None]

\* A plausible slip: strictly longer than the age of the start.
SilentLonger(p, age) == dev[p].up /\ dev[p].quiet > age

\* _silent_since: connected, and no report for this long.
SilentSince(p, age) == dev[p].up /\ dev[p].quiet >= age

\* decide(), then the two exceptions _advance_cloud_send makes to it: a
\* republish waiting on a tray is not reset, and neither is a printer that has
\* been silent since its start went out.
Verdict(p, k) ==
    LET rec  == LoadAttempt(p, k)
        base == Decide(rec, Snapshot(p))
    IN  CASE base = "reset_retry" /\ rec.pending /\ hold[k] # None -> "republish"
          [] base = "reset_retry" /\ ~rec.pending /\ rec.age < HoldMax
               /\ SilentSince(p, rec.age) -> "wait"
          [] OTHER -> base

\* The worker is idle, its job is queued behind another one, or it is in a
\* transfer or a request; every other step is over before the clock moves.
Waiting(p) ==
    LET k == job[p].send IN
    /\ job[p].pc \in LongSteps
    /\ job[p].pc = "download" => file[k] = 0
    /\ job[p].pc = "upload" => ~UploadedAlready(k)
    /\ job[p].pc = "recopy" => job[p].parse /\ file[k] # 0

-----------------------------------------------------------------------------
(* What a step writes.                                                     *)

Goto(p, pc) == job' = [job EXCEPT ![p].pc = pc]

GoFail(p, why) == job' = [job EXCEPT ![p].pc = "fail", ![p].why = why]

SaveAttempt(p, k, rec) ==
    /\ att' = [att EXCEPT ![k] = rec]
    /\ asg' = IF asg[p] = None THEN asg ELSE [asg EXCEPT ![p].att = rec]

\* The start went out: the printer holds a fresh submission id.
Publish(p, k) ==
    dev' = [dev EXCEPT ![p].sub = @ + 1, ![p].last = k]

\* start_print refuses while the printer is active and needs a session.
CanPublish(p) == dev[p].up /\ dev[p].view # "active"

\* _SlotHolds: a hold already running keeps its start, and one read back from the
\* record is resumed unless one is running.
BeginHold(held) == IF held = None THEN 0 ELSE held

AdoptHold(held, since) == IF held = None THEN since ELSE held

\* A plausible slip: every pass begins the hold anew.
SlotHeldAnew(p, k) == hold' = [hold EXCEPT ![k] = 0] /\ Goto(p, "sweep")

\* _slot_hold with an absent tray: the hold begins or goes on, and once it is
\* too long the send is reported failed.
SlotHeld(p, k) ==
    /\ hold' = [hold EXCEPT ![k] = BeginHold(@)]
    /\ IF hold[k] # None /\ hold[k] > SlotHoldMax
       THEN GoFail(p, "slot") ELSE Goto(p, "sweep")

\* A plausible slip: the window is measured from the latest failure.
CountSetupFailureLatest(p, k) ==
    /\ fails' = [fails EXCEPT ![k] = [n |-> SetupLimit, age |-> 0]]
    /\ IF SetupMin = 0 THEN GoFail(p, "setup") ELSE Goto(p, "sweep")

\* _count_setup_failure: enough failures in a row, over enough time.
CountSetupFailure(p, k) ==
    LET n == fails[k].n + 1
    IN  /\ fails' = [fails EXCEPT ![k].n = IF n > SetupLimit THEN SetupLimit ELSE n]
        /\ IF n >= SetupLimit /\ fails[k].age >= SetupMin
           THEN GoFail(p, "setup") ELSE Goto(p, "sweep")

NoFails == [n |-> 0, age |-> 0]

-----------------------------------------------------------------------------
(* The cloud.                                                              *)

\* The operator queues a send; queueing it again brings a new file.
CloudQueue(p, k) ==
    /\ row[p].send = None
    /\ PrinterOf[k] = p
    /\ ver[k] < MaxVer
    /\ row' = [row EXCEPT ![p] = [send |-> k, ctl |-> "none"]]
    /\ ver' = [ver EXCEPT ![k] = @ + 1]
    /\ UNCHANGED <<spoolVars, memVars, job, devVars, faults, trail>>

\* The send leaves the desired state: settled, or removed by the operator.
CloudDrop(p) ==
    /\ row[p].send # None
    /\ row' = [row EXCEPT ![p] = NoRow]
    /\ applied' = [applied EXCEPT ![p] = FALSE]
    /\ trail' = [trail EXCEPT ![row[p].send].reported = FALSE,
                              ![row[p].send].halted = "no"]
    /\ UNCHANGED <<ver, marker, att, file, asg, memVars, job, devVars, faults>>

\* The operator stops the print, or the row's desired_status moves.
CloudControl(p, ctl) ==
    /\ row[p].send # None
    /\ row[p].ctl # "stop"
    /\ ctl # row[p].ctl
    /\ ctl \in {"none", "stop", "busy"} \cap (Env \cup {"none"})
    /\ row' = [row EXCEPT ![p].ctl = ctl]
    /\ UNCHANGED <<ver, spoolVars, memVars, job, devVars, faults, trail>>

-----------------------------------------------------------------------------
(* The report loop: _apply_desired on one response.                        *)

\* A plausible slip: a latch is released on the next pass, whatever it names.
ReleaseSettledAll(live) == [k \in Sends |-> IF FailureLatched(k) THEN NoAtt ELSE att[k]]

ReleaseSettled(live) ==
    [k \in Sends |-> IF FailureLatched(k) /\ k \notin live THEN NoAtt ELSE att[k]]

Submitted(p) == [NoJob EXCEPT
    !.pc = "pass", !.send = row[p].send, !.ctl = row[p].ctl,
    !.url = IF row[p].send = None THEN 0 ELSE ver[row[p].send]]

\* Stop controls are published inline, once each, and cancel a transfer that is
\* running.  Then each printer whose worker is free gets the row as it is now.
ReportPass ==
    LET stopped == {p \in Printers : row[p].ctl = "stop" /\ ~applied[p] /\ dev[p].up}
        live    == {row[p].send : p \in Printers} \ {None}
    IN  /\ applied' = [p \in Printers |-> applied[p] \/ p \in stopped]
        /\ asg' = [p \in Printers |-> IF p \in stopped THEN None ELSE asg[p]]
        /\ job' = [p \in Printers |->
                     IF job[p].pc = "idle" THEN Submitted(p)
                     ELSE IF p \in stopped /\ job[p].pc \in {"upload", "recopy"}
                     THEN [job[p] EXCEPT !.cancel = TRUE] ELSE job[p]]
        /\ att' = ReleaseSettled(live)
        /\ trail' = [k \in Sends |->
                       IF PrinterOf[k] \in stopped /\ row[PrinterOf[k]].send = k
                       THEN [trail[k] EXCEPT !.halted = "just"] ELSE trail[k]]
        /\ UNCHANGED <<cloudVars, marker, file, memVars, devVars, faults>>

\* The POST failed: report_state returned {}, so the desired state reads as [].
ReportOutage ==
    /\ "outage" \in Env
    /\ faults < MaxFaults
    /\ faults' = faults + 1
    /\ att' = ReleaseSettled({})
    /\ UNCHANGED <<cloudVars, marker, file, asg, applied, memVars, job, devVars,
                   trail>>

-----------------------------------------------------------------------------
(* One worker pass over the captured row: where it starts.                 *)

PassNothing(p) ==
    LET k == job[p].send IN
    /\ job[p].pc = "pass"
    /\ k # None => FailureLatched(k)
    /\ Goto(p, "sweep")
    /\ UNCHANGED <<cloudVars, spoolVars, memVars, devVars, faults, trail>>

\* _clear_pending_cloud_send
ClearPending(p, k) ==
    /\ started' = started \ {k}
    /\ marker' = [marker EXCEPT ![k] = None]
    /\ file' = [file EXCEPT ![k] = 0]
    /\ asg' = IF AssignmentMatches(p, k) THEN [asg EXCEPT ![p] = None] ELSE asg

\* A stop while the send is being confirmed drops it; no failure is reported.
PassCancel(p) ==
    LET k == job[p].send IN
    /\ job[p].pc = "pass"
    /\ k # None /\ ~FailureLatched(k)
    /\ SendKnown(p, k)
    /\ job[p].ctl = "stop"
    /\ ClearPending(p, k)
    /\ att' = [att EXCEPT ![k] = NoAtt]
    /\ trail' = [trail EXCEPT ![k].pubs = 0]
    /\ Goto(p, "sweep")
    /\ UNCHANGED <<cloudVars, applied, fails, hold, devVars, faults>>

\* In flight: make sure the assignment is this send's, and resume a slot hold
\* found on the record.
PassKnown(p) ==
    LET k   == job[p].send
        rec == LoadAttempt(p, k)
    IN
    /\ job[p].pc = "pass"
    /\ k # None /\ ~FailureLatched(k)
    /\ SendKnown(p, k)
    /\ job[p].ctl # "stop"
    /\ started' = started \cup {k}
    /\ asg' = IF RouterOn /\ ~AssignmentMatches(p, k)
              THEN [asg EXCEPT ![p] = NewAssignment(k, None)] ELSE asg
    /\ hold' = IF AlreadyConfirmed(p, k) THEN hold
               ELSE [hold EXCEPT ![k] = AdoptHold(@, rec.held)]
    /\ Goto(p, "advance")
    /\ UNCHANGED <<cloudVars, marker, att, file, applied, fails, devVars, faults,
                   trail>>

\* Not started yet, and this pass may not: the row forbids it, the printer is
\* not ready, or the AMS mapping does not resolve.
FreshWait(p) ==
    LET k == job[p].send IN
    /\ job[p].pc = "pass"
    /\ k # None /\ ~FailureLatched(k)
    /\ ~SendKnown(p, k)
    /\ \/ job[p].ctl # "none"
       \/ ~ReadyForUpload(Snapshot(p)) /\ ~Snapshot(p).rejects
       \/ "mapping" \in Env
    /\ Goto(p, "sweep")
    /\ UNCHANGED <<cloudVars, spoolVars, memVars, devVars, faults, trail>>

FreshRejected(p) ==
    LET k == job[p].send IN
    /\ job[p].pc = "pass"
    /\ k # None /\ ~FailureLatched(k)
    /\ ~SendKnown(p, k)
    /\ job[p].ctl = "none"
    /\ Snapshot(p).rejects
    /\ GoFail(p, "other")
    /\ UNCHANGED <<cloudVars, spoolVars, memVars, devVars, faults, trail>>

FreshReady(p) ==
    LET k == job[p].send IN
    /\ job[p].pc = "pass"
    /\ k # None /\ ~FailureLatched(k)
    /\ ~SendKnown(p, k)
    /\ job[p].ctl = "none"
    /\ ReadyForUpload(Snapshot(p))
    /\ IF TrayPresent(p)
       THEN hold' = [hold EXCEPT ![k] = None] /\ Goto(p, "download")
       ELSE SlotHeld(p, k)
    /\ UNCHANGED <<cloudVars, spoolVars, started, fails, devVars, faults, trail>>

-----------------------------------------------------------------------------
(* A fresh send: download, upload, authorize again, start.                 *)

Download(p) ==
    LET k == job[p].send IN
    /\ job[p].pc = "download"
    /\ file' = IF file[k] = 0 THEN [file EXCEPT ![k] = job[p].url] ELSE file
    /\ Goto(p, "upload")
    /\ UNCHANGED <<cloudVars, marker, att, asg, applied, memVars, devVars, faults,
                   trail>>

DownloadFails(p) ==
    /\ job[p].pc = "download"
    /\ file[job[p].send] = 0
    /\ "download" \in Env
    /\ Goto(p, "sweep")
    /\ UNCHANGED <<cloudVars, spoolVars, memVars, devVars, faults, trail>>

\* plate_to_print refuses the file: it is unreadable, or the plate is missing.
BadPlate(p) ==
    LET k == job[p].send IN
    /\ job[p].pc = "upload"
    /\ "plate" \in Env
    /\ file' = [file EXCEPT ![k] = 0]
    /\ GoFail(p, "other")
    /\ UNCHANGED <<cloudVars, marker, att, asg, applied, memVars, devVars, faults,
                   trail>>

UploadSkipped(p) ==
    /\ job[p].pc = "upload"
    /\ UploadedAlready(job[p].send)
    /\ job' = [job EXCEPT ![p].pc = "auth", ![p].cancel = FALSE]
    /\ UNCHANGED <<cloudVars, spoolVars, memVars, devVars, faults, trail>>

\* upload_file first clears job files off the card: all of them, or what a
\* failing cleanup got to.
Cleared(p) == IF "upload" \in Env THEN SUBSET SendsOf(p) ELSE {SendsOf(p)}

CardAfter(gone) == [j \in Sends |-> IF j \in gone THEN 0 ELSE card[j]]

UploadBroken(p) == \E gone \in Cleared(p) : card' = CardAfter(gone)

UploadDone(p, k) ==
    \E gone \in Cleared(p) : card' = [CardAfter(gone) EXCEPT ![k] = file[k]]

Upload(p) ==
    LET k == job[p].send IN
    /\ job[p].pc = "upload"
    /\ ~UploadedAlready(k)
    /\ UploadDone(p, k)
    /\ att' = [att EXCEPT ![k].uploaded = TRUE,
                          ![k].kind = IF @ = "none" THEN "part" ELSE @]
    /\ job' = [job EXCEPT ![p].pc = "auth", ![p].cancel = FALSE]
    /\ UNCHANGED <<cloudVars, marker, file, asg, applied, memVars, dev, faults,
                   trail>>

UploadFails(p) ==
    LET k == job[p].send IN
    /\ job[p].pc = "upload"
    /\ ~UploadedAlready(k)
    /\ "upload" \in Env
    /\ UploadBroken(p)
    /\ CountSetupFailure(p, k)
    /\ UNCHANGED <<cloudVars, spoolVars, started, hold, dev, faults, trail>>

\* UploadCancelled leaves _handle_cloud_sends at once: nothing is swept.
UploadCancelled(p) ==
    /\ job[p].cancel
    /\ \/ job[p].pc = "upload" /\ ~UploadedAlready(job[p].send)
       \/ job[p].pc = "recopy" /\ job[p].parse /\ file[job[p].send] # 0
    /\ UploadBroken(p)
    /\ job' = [job EXCEPT ![p] = NoJob]
    /\ UNCHANGED <<cloudVars, spoolVars, memVars, dev, faults, trail>>

\* A plausible slip: the row's desired status is not asked for again.
AuthorizedStopped(p, k) == row[p].send = k /\ ver[k] = job[p].url

\* _authorized_send on a fresh heartbeat: the same send, and the same item of
\* the cloud's queue, so not one that was queued again meanwhile.
AuthorizedSend(p, k) ==
    row[p].send = k /\ row[p].ctl = "none" /\ ver[k] = job[p].url

AuthorizeRefused(p) ==
    /\ job[p].pc = "auth"
    /\ ~AuthorizedSend(p, job[p].send)
    /\ Goto(p, "sweep")
    /\ UNCHANGED <<cloudVars, spoolVars, memVars, devVars, faults, trail>>

AuthorizeOutage(p) ==
    /\ job[p].pc = "auth"
    /\ "outage" \in Env
    /\ faults < MaxFaults
    /\ faults' = faults + 1
    /\ Goto(p, "sweep")
    /\ UNCHANGED <<cloudVars, spoolVars, memVars, devVars, trail>>

\* A plausible slip: the tray is only read before the upload.
AuthorizeUnread(p) ==
    LET k == job[p].send IN
    /\ job[p].pc = "auth"
    /\ AuthorizedSend(p, k)
    /\ Goto(p, "start")
    /\ UNCHANGED <<cloudVars, spoolVars, memVars, devVars, faults, trail>>

\* A tray can empty during the upload, so it is read again.
Authorize(p) ==
    LET k == job[p].send IN
    /\ job[p].pc = "auth"
    /\ AuthorizedSend(p, k)
    /\ IF TrayPresent(p)
       THEN hold' = [hold EXCEPT ![k] = None] /\ Goto(p, "start")
       ELSE SlotHeld(p, k)
    /\ UNCHANGED <<cloudVars, spoolVars, started, fails, devVars, faults, trail>>

Start(p) ==
    LET k == job[p].send IN
    /\ job[p].pc = "start"
    /\ CanPublish(p)
    /\ Publish(p, k)
    /\ trail' = [trail EXCEPT ![k].pubs = 1, ![k].lost = 0, ![k].torn = FALSE,
                              ![k].ran = FALSE, ![k].since = 0]
    /\ Goto(p, "mark")
    /\ UNCHANGED <<cloudVars, spoolVars, memVars, card, faults>>

StartNotSent(p) ==
    LET k == job[p].send IN
    /\ job[p].pc = "start"
    /\ ~CanPublish(p) \/ "start" \in Env
    /\ CountSetupFailure(p, k)
    /\ UNCHANGED <<cloudVars, spoolVars, started, hold, devVars, faults, trail>>

\* The durable marker, the assignment and the attempt follow the publish, each
\* with a crash window of its own.
MarkStarted(p) ==
    LET k == job[p].send IN
    /\ job[p].pc = "mark"
    /\ fails' = [fails EXCEPT ![k] = NoFails]
    /\ started' = started \cup {k}
    /\ marker' = [marker EXCEPT ![k] = [confirmed |-> FALSE, age |-> 0]]
    /\ Goto(p, "assign")
    /\ UNCHANGED <<cloudVars, att, file, asg, applied, hold, devVars, faults, trail>>

RecordAssignment(p) ==
    LET k == job[p].send IN
    /\ job[p].pc = "assign"
    /\ asg' = IF RouterOn
              THEN [asg EXCEPT ![p] = NewAssignment(k, dev[p].sub)] ELSE asg
    /\ Goto(p, "remember")
    /\ UNCHANGED <<cloudVars, marker, att, file, applied, memVars, devVars, faults,
                   trail>>

\* _remember_attempt; a printer already active is confirmed at once.
RememberAttempt(p) ==
    LET k   == job[p].send
        rec == [LoadAttempt(p, k) EXCEPT
                  !.phase = "A", !.age = 0, !.sid = dev[p].sub,
                  !.uploaded = TRUE, !.name = dev[p].name]
        now == dev[p].view = "active"
    IN
    /\ job[p].pc = "remember"
    /\ att' = [att EXCEPT ![k] = rec]
    /\ asg' = IF asg[p] = None THEN asg
              ELSE [asg EXCEPT ![p].att = rec, ![p].active = @ \/ now]
    /\ Goto(p, IF now THEN "confirm" ELSE "sweep")
    /\ UNCHANGED <<cloudVars, marker, file, applied, memVars, devVars, faults, trail>>

-----------------------------------------------------------------------------
(* The watchdog: one verdict per pass on a send in flight.                 *)

\* Confirmed on an earlier pass: report_dispatched again until it lands.
AdvanceDispatched(p) ==
    LET k == job[p].send IN
    /\ job[p].pc = "advance"
    /\ AlreadyConfirmed(p, k)
    /\ Goto(p, "sweep")
    /\ UNCHANGED <<cloudVars, spoolVars, memVars, devVars, faults, trail>>

Advancing(p, verdict) ==
    /\ job[p].pc = "advance"
    /\ ~AlreadyConfirmed(p, job[p].send)
    /\ Verdict(p, job[p].send) = verdict

\* _report_confirmed_dispatch writes the assignment and then the marker: a crash in
\* between leaves a send that is known to run by its assignment alone.
AdvanceConfirm(p) ==
    LET k == job[p].send IN
    /\ Advancing(p, "confirm")
    /\ hold' = [hold EXCEPT ![k] = None]
    /\ asg' = IF asg[p] = None THEN asg ELSE [asg EXCEPT ![p].active = TRUE]
    /\ Goto(p, "confirm")
    /\ UNCHANGED <<cloudVars, marker, att, file, applied, started, fails, devVars, faults,
                   trail>>

MarkConfirmed(p) ==
    LET k == job[p].send IN
    /\ job[p].pc = "confirm"
    /\ marker' = [marker EXCEPT ![k] = [confirmed |-> TRUE, age |-> 0]]
    /\ file' = [file EXCEPT ![k] = 0]
    /\ Goto(p, "sweep")
    /\ UNCHANGED <<cloudVars, att, asg, applied, memVars, devVars, faults, trail>>

AdvanceEnterB(p) ==
    LET k == job[p].send IN
    /\ Advancing(p, "enter_b")
    /\ SaveAttempt(p, k, [LoadAttempt(p, k) EXCEPT !.phase = "B", !.age = 0])
    /\ Goto(p, "sweep")
    /\ UNCHANGED <<cloudVars, marker, file, applied, memVars, devVars, faults, trail>>

AdvanceWait(p) ==
    /\ Advancing(p, "wait")
    /\ Goto(p, "sweep")
    /\ UNCHANGED <<cloudVars, spoolVars, memVars, devVars, faults, trail>>

\* Phase A ran out.  A reset that no connection followed spends an attempt, and
\* the last one fails the send instead.
AdvanceReset(p) ==
    LET k     == job[p].send
        rec   == LoadAttempt(p, k)
        spent == [rec EXCEPT !.attempts = IF rec.pending THEN @ + 1 ELSE @]
    IN
    /\ Advancing(p, "reset_retry")
    /\ IF rec.pending /\ spent.attempts >= MaxAttempts
       THEN /\ SaveAttempt(p, k, spent)
            /\ GoFail(p, "other")
            /\ UNCHANGED dev
       ELSE /\ SaveAttempt(p, k, [spent EXCEPT !.pending = TRUE, !.phase = "A",
                                               !.age = 0])
            /\ dev' = [dev EXCEPT ![p].up = FALSE, ![p].link = "stale"]
            /\ Goto(p, "sweep")
    /\ UNCHANGED <<cloudVars, marker, file, applied, memVars, card, faults, trail>>

\* The publish after a reset waits for a connected session; the one after phase
\* B goes out on the session that is up.  Both keep the record and the tray
\* reading of this pass.
AdvanceRepublish(p) ==
    \E verdict \in {"republish", "retry"} :
        LET k == job[p].send IN
        /\ Advancing(p, verdict)
        /\ IF verdict = "republish" /\ ~dev[p].up
           THEN Goto(p, "sweep")
           ELSE job' = [job EXCEPT ![p].pc = "recopy", ![p].age = 0,
                                   ![p].retry = (verdict = "retry"),
                                   ![p].tray = TrayPresent(p),
                                   ![p].parse = dev[p].parse /\ Readable(p),
                                   ![p].rec = LoadAttempt(p, k)]
        /\ UNCHANGED <<cloudVars, spoolVars, memVars, devVars, faults, trail>>

AdvanceFail(p) ==
    /\ Advancing(p, "fail")
    /\ GoFail(p, "other")
    /\ UNCHANGED <<cloudVars, spoolVars, memVars, devVars, faults, trail>>

\* _fresh_copy_after_parse_failure: after 0500_4003 the file is uploaded again;
\* a failed upload goes on with whatever it left on the card.
Recopy(p) ==
    LET k == job[p].send
        copying == job[p].parse /\ file[k] # 0
    IN
    /\ job[p].pc = "recopy"
    /\ \/ copying /\ UploadDone(p, k)
       \/ copying /\ "upload" \in Env /\ UploadBroken(p)
       \/ ~copying /\ UNCHANGED card
    /\ job' = [job EXCEPT ![p].pc = "republish", ![p].cancel = FALSE]
    /\ UNCHANGED <<cloudVars, spoolVars, memVars, dev, faults, trail>>

\* A mapped tray reads absent: hold the republish, and keep the hold on the
\* record so that a restart resumes it.
RepublishHeld(p) ==
    LET k == job[p].send IN
    /\ job[p].pc = "republish"
    /\ ~job[p].tray
    /\ SlotHeld(p, k)
    /\ SaveAttempt(p, k, [job[p].rec EXCEPT !.held = hold'[k]])
    /\ UNCHANGED <<cloudVars, marker, file, applied, started, fails, devVars, faults,
                   trail>>

\* Not sent: a republish stays pending, a phase B retry fails the send.
RepublishNotSent(p) ==
    LET k == job[p].send IN
    /\ job[p].pc = "republish"
    /\ job[p].tray \/ "mapping" \in Env
    /\ ~CanPublish(p) \/ {"start", "mapping"} \cap Env # {}
    /\ hold' = [hold EXCEPT ![k] = None]
    /\ IF job[p].rec.held = None THEN UNCHANGED <<att, asg>>
       ELSE SaveAttempt(p, k, [job[p].rec EXCEPT !.held = None])
    /\ IF job[p].retry THEN GoFail(p, "other") ELSE Goto(p, "sweep")
    /\ UNCHANGED <<cloudVars, marker, file, applied, started, fails, devVars, faults,
                   trail>>

Republish(p) ==
    LET k == job[p].send IN
    /\ job[p].pc = "republish"
    /\ job[p].tray
    /\ CanPublish(p)
    /\ Publish(p, k)
    /\ hold' = [hold EXCEPT ![k] = None]
    /\ trail' = [trail EXCEPT ![k].pubs = @ + 1, ![k].ran = FALSE, ![k].since = 0]
    /\ Goto(p, "resave")
    /\ UNCHANGED <<cloudVars, spoolVars, started, fails, card, faults>>

\* A plausible slip: the publish is not charged to the attempt budget.
ResaveUncharged(p) ==
    [job[p].rec EXCEPT !.pending = FALSE, !.phase = "A", !.age = job[p].age,
                       !.sid = dev[p].sub, !.uploaded = TRUE, !.held = None]

\* The republished attempt.  Its phase starts when the pass did.
Resaved(p) ==
    [job[p].rec EXCEPT !.pending = FALSE, !.attempts = @ + 1, !.phase = "A",
                       !.age = job[p].age, !.sid = dev[p].sub,
                       !.uploaded = TRUE, !.held = None]

ResaveAttempt(p) ==
    /\ job[p].pc = "resave"
    /\ SaveAttempt(p, job[p].send, Resaved(p))
    /\ Goto(p, "sweep")
    /\ UNCHANGED <<cloudVars, marker, file, applied, memVars, devVars, faults, trail>>

\* save_attempt raises OSError and ends the pass: the publish is not charged.
ResaveFails(p) ==
    /\ job[p].pc = "resave"
    /\ "write" \in Env
    /\ faults < MaxFaults
    /\ faults' = faults + 1
    /\ trail' = [trail EXCEPT ![job[p].send].lost = @ + 1]
    /\ job' = [job EXCEPT ![p] = NoJob]
    /\ UNCHANGED <<cloudVars, spoolVars, memVars, devVars>>

-----------------------------------------------------------------------------
(* Reporting a failure, and the end of the pass.                           *)

\* An empty answer leaves the send as it is; the next pass reports again.
FailNotAcked(p) ==
    /\ job[p].pc = "fail"
    /\ "ack" \in Env
    /\ Goto(p, "sweep")
    /\ UNCHANGED <<cloudVars, spoolVars, memVars, devVars, faults, trail>>

FailAcked(p) ==
    LET k == job[p].send IN
    /\ job[p].pc = "fail"
    /\ Goto(p, "drop")
    /\ trail' = [trail EXCEPT ![k].reported = (row[p].send = k)]
    /\ UNCHANGED <<cloudVars, spoolVars, memVars, devVars, faults>>

DropFailed(p) ==
    LET k == job[p].send IN
    /\ job[p].pc = "drop"
    /\ ClearPending(p, k)
    /\ att' = [att EXCEPT ![k] = NoAtt]
    /\ trail' = [trail EXCEPT ![k].pubs = 0]
    /\ Goto(p, "latch")
    /\ UNCHANGED <<cloudVars, applied, fails, hold, devVars, faults>>

LatchFailure(p) ==
    LET k == job[p].send IN
    /\ job[p].pc = "latch"
    /\ att' = [att EXCEPT ![k] = Latched]
    /\ hold' = IF job[p].why = "slot" THEN [hold EXCEPT ![k] = None] ELSE hold
    /\ fails' = IF job[p].why = "setup" THEN [fails EXCEPT ![k] = NoFails] ELSE fails
    /\ Goto(p, "sweep")
    /\ UNCHANGED <<cloudVars, marker, file, asg, applied, started, devVars, faults,
                   trail>>

\* The records of this printer's other sends go: the started ones whole, and
\* of the ones this process does not know the marker and the download only.
Sweep(p) ==
    LET gone   == SendsOf(p) \ {job[p].send}
        settle == gone \cap started
    IN
    /\ job[p].pc = "sweep"
    /\ started' = started \ gone
    /\ marker' = [k \in Sends |-> IF k \in gone THEN None ELSE marker[k]]
    /\ file' = [k \in Sends |-> IF k \in gone THEN 0 ELSE file[k]]
    /\ att' = [k \in Sends |-> IF k \in settle THEN NoAtt ELSE att[k]]
    /\ fails' = [k \in Sends |-> IF k \in gone THEN NoFails ELSE fails[k]]
    /\ hold' = [k \in Sends |-> IF k \in gone THEN None ELSE hold[k]]
    /\ trail' = [k \in Sends |-> IF k \in gone THEN [trail[k] EXCEPT !.pubs = 0]
                                 ELSE trail[k]]
    /\ job' = [job EXCEPT ![p] = NoJob]
    /\ UNCHANGED <<cloudVars, asg, applied, devVars, faults>>

-----------------------------------------------------------------------------
(* The printer and its session.  Every report ends the silence.            *)

Heard(p, field, value) ==
    /\ dev[p].up
    /\ dev' = [dev EXCEPT ![p] = [@ EXCEPT !.quiet = 0, !.link = "live",
                                          ![field] = value]]
    /\ UNCHANGED <<cloudVars, spoolVars, memVars, job, card, faults>>

ReportView(p, view) ==
    /\ Heard(p, "view", view)
    /\ trail' = IF view = "active" /\ dev[p].last # None
                THEN [trail EXCEPT ![dev[p].last].ran = TRUE] ELSE trail

\* The printer reports the id, or the file name, of the last start.
ReportEcho(p) ==
    /\ "echo" \in Env
    /\ dev[p].echo # dev[p].sub /\ dev[p].last # None
    /\ Heard(p, "echo", dev[p].sub)
    /\ UNCHANGED trail

ReportName(p) ==
    /\ "name" \in Env
    /\ dev[p].name # dev[p].last
    /\ Heard(p, "name", dev[p].last)
    /\ UNCHANGED trail

\* A flag of the printer turns: a tray is emptied or filled, 0500_4003 is
\* raised or cleared, commands_rejected is raised or cleared.
ReportFlag(p, flag) ==
    /\ flag \in {"tray", "parse", "rejects"} \cap Env
    /\ dev[p].up
    /\ dev' = [dev EXCEPT ![p] = [dev[p] EXCEPT !.quiet = 0, !.link = "live",
                                               !.bare = @ /\ flag # "tray",
                                               ![flag] = ~@]]
    /\ UNCHANGED <<cloudVars, spoolVars, memVars, job, card, faults, trail>>

\* The socket drops, stays down past the unreachable window, or is up and quiet
\* past the stale window; a dropped session is redialled.
LinkDown(p) ==
    /\ "link" \in Env
    /\ \/ dev[p].up /\ dev' = [dev EXCEPT ![p].up = FALSE, ![p].link = "stale"]
       \/ dev[p].up /\ dev[p].link = "live" /\ dev[p].quiet > 0
          /\ dev' = [dev EXCEPT ![p].link = "stale"]
       \/ ~dev[p].up /\ dev[p].link = "stale"
          /\ dev' = [dev EXCEPT ![p].link = "offline", ![p].bare = FALSE]
    /\ UNCHANGED <<cloudVars, spoolVars, memVars, job, card, faults, trail>>

LinkUp(p) ==
    /\ ~dev[p].up
    /\ dev' = [dev EXCEPT ![p].up = TRUE, ![p].link = "stale", ![p].quiet = 0]
    /\ UNCHANGED <<cloudVars, spoolVars, memVars, job, card, faults, trail>>

\* The dispatcher saw the printer active.  It marks an assignment without a submission
\* id, whoever's print it is.
AssignmentSeen(p) ==
    /\ asg[p] # None /\ ~asg[p].active /\ asg[p].att.sid = None
    /\ Snapshot(p).view = "active"
    /\ asg' = [asg EXCEPT ![p].active = TRUE]
    /\ UNCHANGED <<cloudVars, marker, att, file, applied, memVars, job, devVars,
                   faults, trail>>

\* The dispatcher drops the assignment: its outcome was acked, or its print cancelled or
\* stopped.  It goes by events and statuses of its own, so it may come at any time and
\* before the worker has confirmed anything.
AssignmentEnds(p) ==
    /\ asg[p] # None
    /\ asg' = [asg EXCEPT ![p] = None]
    /\ UNCHANGED <<cloudVars, marker, att, file, applied, memVars, job, devVars,
                   faults, trail>>

-----------------------------------------------------------------------------
(* Restart and time.                                                       *)

NewDev == [view |-> "ready", rejects |-> FALSE, echo |-> None, name |-> None,
           tray |-> TRUE, bare |-> FALSE, parse |-> FALSE, up |-> TRUE, link |-> "live",
           quiet |-> 0, sub |-> 0, last |-> None]

Crash ==
    /\ "crash" \in Env
    /\ faults < MaxFaults
    /\ faults' = faults + 1
    /\ started' = {}
    /\ fails' = [k \in Sends |-> NoFails]
    /\ hold' = [k \in Sends |-> None]
    /\ job' = [p \in Printers |-> NoJob]
    /\ dev' = [p \in Printers |-> [dev[p] EXCEPT !.up = FALSE, !.link = "offline",
                                          !.view = "ready", !.bare = FALSE]]
    /\ trail' = [k \in Sends |->
         LET j == job[PrinterOf[k]] IN
         IF j.send # k THEN trail[k]
         ELSE [trail[k] EXCEPT !.lost = IF j.pc = "resave" THEN @ + 1 ELSE @,
                               !.torn = @ \/ j.pc = "mark"]]
    /\ UNCHANGED <<cloudVars, spoolVars, card>>

Older(age, cap) == IF age = None THEN None ELSE IF age < cap THEN age + 1 ELSE age

OlderAtt(rec) == [rec EXCEPT !.age = Older(@, AgeCap), !.held = Older(@, HoldCap)]

Tick ==
    /\ \A p \in Printers : Waiting(p)
    /\ marker' = [k \in Sends |-> IF marker[k] = None THEN None
                                  ELSE [marker[k] EXCEPT !.age = Older(@, AgeCap)]]
    /\ att' = [k \in Sends |-> OlderAtt(att[k])]
    /\ asg' = [p \in Printers |-> IF asg[p] = None THEN None
                                  ELSE [asg[p] EXCEPT !.att = OlderAtt(@)]]
    /\ fails' = [k \in Sends |-> IF fails[k].n = 0 THEN fails[k]
                                 ELSE [fails[k] EXCEPT !.age = Older(@, AgeCap)]]
    /\ hold' = [k \in Sends |-> Older(hold[k], HoldCap)]
    /\ job' = [p \in Printers |->
                 IF job[p].pc # "recopy" THEN job[p]
                 ELSE [job[p] EXCEPT !.age = Older(@, AgeCap), !.rec = OlderAtt(@)]]
    /\ dev' = [p \in Printers |-> [dev[p] EXCEPT !.quiet = Older(@, AgeCap),
                                                 !.bare = ~TrayPresent(p)]]
    /\ trail' = [k \in Sends |-> [trail[k] EXCEPT !.since = Older(@, AgeCap),
                                 !.halted = IF @ = "just" THEN "past" ELSE @]]
    /\ UNCHANGED <<cloudVars, file, applied, started, card, faults>>

-----------------------------------------------------------------------------
Init ==
    /\ row = [p \in Printers |-> NoRow]
    /\ ver = [k \in Sends |-> 0]
    /\ marker = [k \in Sends |-> None]
    /\ att = [k \in Sends |-> NoAtt]
    /\ file = [k \in Sends |-> 0]
    /\ asg = [p \in Printers |-> None]
    /\ applied = [p \in Printers |-> FALSE]
    /\ started = {}
    /\ fails = [k \in Sends |-> NoFails]
    /\ hold = [k \in Sends |-> None]
    /\ job = [p \in Printers |-> NoJob]
    /\ dev = [p \in Printers |-> NewDev]
    /\ card = [k \in Sends |-> 0]
    /\ faults = 0
    /\ trail = [k \in Sends |-> NoTrail]

FreshStep(p) ==
    \/ FreshWait(p) \/ FreshRejected(p) \/ FreshReady(p)
    \/ Download(p) \/ DownloadFails(p) \/ BadPlate(p)
    \/ UploadSkipped(p) \/ Upload(p) \/ UploadFails(p) \/ UploadCancelled(p)
    \/ AuthorizeRefused(p) \/ AuthorizeOutage(p) \/ Authorize(p)
    \/ Start(p) \/ StartNotSent(p)
    \/ MarkStarted(p) \/ RecordAssignment(p) \/ RememberAttempt(p)

WatchdogStep(p) ==
    \/ PassNothing(p) \/ PassCancel(p) \/ PassKnown(p)
    \/ AdvanceDispatched(p) \/ AdvanceConfirm(p) \/ MarkConfirmed(p)
    \/ AdvanceEnterB(p) \/ AdvanceWait(p)
    \/ AdvanceReset(p) \/ AdvanceRepublish(p) \/ AdvanceFail(p)
    \/ Recopy(p) \/ RepublishHeld(p) \/ RepublishNotSent(p) \/ Republish(p)
    \/ ResaveAttempt(p) \/ ResaveFails(p)

SettleStep(p) ==
    FailNotAcked(p) \/ FailAcked(p) \/ DropFailed(p) \/ LatchFailure(p) \/ Sweep(p)

Worker(p) == FreshStep(p) \/ WatchdogStep(p) \/ SettleStep(p)

PrinterStep(p) ==
    \/ \E view \in {"ready", "active"} : ReportView(p, view)
    \/ ReportEcho(p) \/ ReportName(p)
    \/ \E flag \in {"tray", "parse", "rejects"} : ReportFlag(p, flag)
    \/ LinkDown(p) \/ LinkUp(p) \/ AssignmentSeen(p) \/ AssignmentEnds(p)

CloudStep(p) ==
    \/ \E k \in Sends : CloudQueue(p, k)
    \/ CloudDrop(p)
    \/ \E ctl \in {"none", "stop", "busy"} : CloudControl(p, ctl)

Next ==
    \/ ReportPass \/ ReportOutage
    \/ \E p \in Printers : Worker(p) \/ PrinterStep(p) \/ CloudStep(p)
    \/ Crash \/ Tick

Spec == Init /\ [][Next]_vars

\* The report loop and each worker keep running and a report of failure is
\* answered in the end.  Time passes however often a worker runs in between:
\* Tick is strongly fair.  Nothing is asked of the printer or its session.
Fairness ==
    /\ WF_vars(ReportPass) /\ SF_vars(Tick)
    /\ \A p \in Printers : WF_vars(Worker(p)) /\ SF_vars(FailAcked(p))

LiveSpec == Spec /\ Fairness
-----------------------------------------------------------------------------
(* Properties.                                                             *)

AttRecords ==
    [kind : {"none", "part", "full", "failed"}, phase : {"A", "B"},
     attempts : 1 .. MaxAttempts, pending : BOOLEAN, age : Ages \cup {None},
     sid : Nat \cup {None}, name : Sends \cup {None},
     held : (0 .. HoldCap) \cup {None}, uploaded : BOOLEAN]

\* What is absent is not a record.
ASSUME AbsentAssumption ==
    None \notin [confirmed : BOOLEAN, age : Ages]
                \cup [send : Sends, active : BOOLEAN, att : AttRecords]

CloudTypeOK ==
    /\ row \in [Printers -> [send : Sends \cup {None}, ctl : {"none", "stop", "busy"}]]
    /\ ver \in [Sends -> 0 .. MaxVer]

SpoolTypeOK ==
    /\ marker \in [Sends -> [confirmed : BOOLEAN, age : Ages] \cup {None}]
    /\ att \in [Sends -> AttRecords]
    /\ file \in [Sends -> 0 .. MaxVer]
    /\ asg \in [Printers -> [send : Sends, active : BOOLEAN, att : AttRecords]
                            \cup {None}]
    /\ applied \in [Printers -> BOOLEAN]

MemTypeOK ==
    /\ started \subseteq Sends
    /\ fails \in [Sends -> [n : 0 .. SetupLimit, age : Ages]]
    /\ hold \in [Sends -> (0 .. HoldCap) \cup {None}]

Steps == LongSteps \cup
    {"start", "mark", "assign", "remember", "advance", "confirm", "republish", "resave",
     "fail", "drop", "latch", "sweep"}

JobRecords ==
    [pc : Steps, send : Sends \cup {None}, ctl : {"none", "stop", "busy"},
     url : 0 .. MaxVer, age : Ages, tray : BOOLEAN, parse : BOOLEAN,
     cancel : BOOLEAN, retry : BOOLEAN, why : {"none", "slot", "setup", "other"},
     rec : AttRecords]

JobTypeOK == job \in [Printers -> JobRecords]

DevRecords ==
    [view : {"ready", "active"}, rejects : BOOLEAN, echo : Nat \cup {None},
     name : Sends \cup {None}, tray : BOOLEAN, bare : BOOLEAN, parse : BOOLEAN,
     up : BOOLEAN, link : {"live", "stale", "offline"}, quiet : Ages, sub : Nat,
     last : Sends \cup {None}]

DevTypeOK == dev \in [Printers -> DevRecords] /\ card \in [Sends -> 0 .. MaxVer]

TrailRecords ==
    [pubs : Nat, lost : Nat, torn : BOOLEAN, reported : BOOLEAN, ran : BOOLEAN,
     since : Ages, halted : {"no", "just", "past"}]

HistoryTypeOK == faults \in 0 .. MaxFaults /\ trail \in [Sends -> TrailRecords]

\* Every variable holds a value its code can hold; in particular no attempt
\* record ever counts past the budget.
TypeOK ==
    CloudTypeOK /\ SpoolTypeOK /\ MemTypeOK /\ JobTypeOK /\ DevTypeOK /\ HistoryTypeOK

\* One life of a send - from its first start to its settlement - publishes the
\* start at most MAX_ATTEMPTS times; only a crash between a publish and the
\* write that charges it, or that write failing, buys one more.
StartBudget == \A k \in Sends : trail[k].pubs <= MaxAttempts + trail[k].lost

\* report_dispatched follows a marker or a verdict that saw the printer active,
\* and the printer really was active after the last start of that send. It says so of a
\* send that is queued once, and of a printer with one send: the marker of a send that
\* was started and never confirmed outlives its row until a sweep, and should the send
\* be queued again by then the print of another send confirms it.
ConfirmedSendRan ==
    \A k \in Sends : marker[k] # None /\ marker[k].confirmed => trail[k].ran

\* A start for k goes out in this step.
Published(k) ==
    LET p == PrinterOf[k] IN dev'[p].sub # dev[p].sub /\ dev'[p].last = k

\* A send whose start went out is never started from scratch again while its
\* record lives, across passes and restarts; only a crash before the durable
\* marker was written can lose the start.  It says so of a send that is queued once:
\* a send that leaves and comes back after a restart may be known by its assignment
\* alone, and is forgotten with it.
FreshStartOnce ==
    [][\A k \in Sends :
         Published(k) /\ job[PrinterOf[k]].pc = "start"
           => trail[k].pubs = 0 \/ trail[k].torn]_vars

\* A start names the file the row being served asked for, whole and on the card:
\* neither another send's upload nor an old download stands in for it.  Only a
\* restart may find no file there, after a fresh copy broke off.  It says so of a send
\* that is queued once: between two passes a send may leave and come back with a new
\* file while the old download is still in place.
StartsUploadedFile ==
    [][\A k \in Sends :
         Published(k) => LET j == job[PrinterOf[k]] IN
                         card[k] = j.url \/ (card[k] = 0 /\ j.pc = "republish")]_vars

\* After a send was reported failed, and while the cloud still lists it, no start goes
\* out for it.  It says so while no request fails (a failed one releases every latch)
\* and the program runs (the latch is written after the report).
NoStartAfterReportedFailure ==
    [][\A k \in Sends : Published(k) => ~trail[k].reported]_vars

\* Some time after the operator's stop was published, the stopped send is not started
\* again: a new send asks once more before its start, and a pass submitted since drops
\* it.  Only a watchdog's pass submitted before the stop, which waited behind another
\* job or in a fresh copy, still restarts it.
NoStartAfterStop ==
    [][\A k \in Sends : Published(k) /\ trail[k].halted = "past" =>
         LET j == job[PrinterOf[k]] IN j.pc = "republish" /\ j.ctl # "stop"]_vars

\* No start is published while a tray it maps has read absent for some time.  Only
\* the watchdog's pass that makes a fresh copy goes by a reading that is as old as the
\* copy took.
NoStartOnEmptyTray ==
    [][\A k \in Sends : Published(k) =>
         LET p == PrinterOf[k] IN
         \/ TrayPresent(p) \/ ~dev[p].bare
         \/ job[p].pc = "republish" /\ job[p].parse]_vars

HardReset(p) ==
    job[p].pc = "advance" /\ job'[p].pc = "sweep" /\ dev[p].up /\ ~dev'[p].up

\* The watchdog never resets a connected session that has been silent since the
\* last start was published, within the hold: the printer may be unpacking.
\* Only a crash or a failed write that lost the record of that start can make it.  It
\* says so of a send that is queued once - one that comes back after a restart may inherit
\* a record that waits for a reset - and of passes that make no fresh copy: the phase of a
\* republish begins with its pass, as long before the publish as the copy took.
NoResetWhileSilent ==
    [][\A k \in Sends :
         LET p == PrinterOf[k] IN
         HardReset(p) /\ job[p].send = k /\ trail[k].lost = 0
           => ~(dev[p].quiet >= trail[k].since /\ trail[k].since < HoldMax)]_vars

InFlight(k) == marker[k] # None /\ ~AlreadyConfirmed(PrinterOf[k], k)

\* Every send in flight is confirmed, by its marker or its assignment, reported failed or
\* dropped in the end.
InFlightSettles == \A k \in Sends : InFlight(k) ~> ~InFlight(k)

\* ... provided every session stays up from some time on.
InFlightSettlesOnceUp == <>[](\A p \in Printers : dev[p].up) => InFlightSettles

\* With a printer that stays connected and ready, a send the cloud keeps asking
\* for is in the end started or reported failed.
QueuedSendSettles ==
    <>[](\A p \in Printers : dev[p].link = "live" /\ dev[p].view = "ready"
                              /\ row[p].ctl = "none")
      => \A k \in Sends :
           row[PrinterOf[k]].send = k
             ~> row[PrinterOf[k]].send # k \/ marker[k] # None \/ FailureLatched(k)
=============================================================================
