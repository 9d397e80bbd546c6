---------------------------- MODULE SendPipeline ----------------------------
(***************************************************************************)
(* The pure decisions of bridge/send_pipeline.py: what a printer snapshot  *)
(* allows, and what the two-phase watchdog does with one attempt record.   *)
(*                                                                         *)
(* A snapshot keeps only what the decisions read:                          *)
(*   view     "ready"   - IDLE, FINISH or FAILED on a live connection      *)
(*            "active"  - PRINTING, PAUSED, or an accepting gcode_state    *)
(*            "offline" - OFFLINE, or not live                             *)
(*   rejects  commands_rejected is true                                    *)
(*   echo     the submission id the printer reports, None when it has none *)
(*   name     the gcode_file the printer reports, None when it has none    *)
(*                                                                         *)
(* Clocks are ages: the seconds since phase_started_at, counted in ticks.  *)
(***************************************************************************)
EXTENDS Integers

CONSTANTS
    None,          \* the absent value (Python's None, a missing file)
    PhaseA,        \* PHASE_A_SECONDS, in ticks
    PhaseB,        \* PHASE_B_SECONDS, in ticks
    MaxAttempts    \* MAX_ATTEMPTS

ASSUME PipelineAssumption ==
    /\ PhaseA \in Nat \ {0}
    /\ PhaseB \in Nat \ {0}
    /\ MaxAttempts \in Nat \ {0}
    /\ None \notin Int

-----------------------------------------------------------------------------
(* Snapshot predicates.                                                    *)

SnapshotIsActive(snap) == snap.view = "active"

SnapshotEchoed(snap, sid) == sid # None /\ snap.echo = sid

SnapshotCommandsRejected(snap) == snap.rejects

ReadyForUpload(snap) == snap.view = "ready" /\ ~snap.rejects

GcodeFileChanged(rec, snap) ==
    /\ rec.name # None
    /\ snap.name # None
    /\ snap.name # rec.name

-----------------------------------------------------------------------------
(* decide(): one verdict per pass of the worker, first match wins.         *)

Verdicts ==
    {"fail", "confirm", "reset_retry", "republish", "retry", "enter_b", "wait"}

\* A plausible slip: the reset is waited for without a limit.
DecidePendingPatient(rec) ==
    IF rec.attempts >= MaxAttempts THEN "fail" ELSE "republish"

\* A reset is already waiting on a connected session.
DecidePending(rec) ==
    CASE rec.attempts >= MaxAttempts -> "fail"
      [] rec.attempts < MaxAttempts /\ rec.age >= PhaseA -> "reset_retry"
      [] OTHER -> "republish"

\* The printer echoed this start: only an active state confirms it.
DecideB(rec) ==
    CASE rec.age < PhaseB -> "wait"
      [] rec.age >= PhaseB /\ rec.attempts >= MaxAttempts -> "fail"
      [] OTHER -> "retry"

\* A plausible slip: the echo of a start already confirms it.
DecideAEchoConfirms(rec, snap) ==
    CASE SnapshotEchoed(snap, rec.sid) -> "confirm"
      [] ~SnapshotEchoed(snap, rec.sid) /\ rec.age < PhaseA -> "wait"
      [] OTHER -> IF rec.attempts >= MaxAttempts THEN "fail" ELSE "reset_retry"

DecideA(rec, snap) ==
    CASE SnapshotEchoed(snap, rec.sid) -> "enter_b"
      [] ~SnapshotEchoed(snap, rec.sid) /\ rec.age < PhaseA -> "wait"
      [] OTHER ->
           IF GcodeFileChanged(rec, snap) THEN "enter_b"
           ELSE IF rec.attempts >= MaxAttempts THEN "fail" ELSE "reset_retry"

Decide(rec, snap) ==
    IF SnapshotCommandsRejected(snap) THEN "fail"
    ELSE IF SnapshotIsActive(snap) THEN "confirm"
    ELSE IF rec.pending THEN DecidePending(rec)
    ELSE IF rec.phase = "B" THEN DecideB(rec)
    ELSE DecideA(rec, snap)
=============================================================================
