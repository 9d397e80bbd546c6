--------------------------- MODULE CloudSendProofs ---------------------------
(***************************************************************************)
(* The attempt budget of a cloud send, for any number of printers, sends   *)
(* and restarts, whatever the printers and the cloud do, and that a start  *)
(* follows a reading of its trays; then, each under a condition on the     *)
(* instance, that a send is started from scratch once, that a reported     *)
(* failure is final, and that a start finds its file on the card.          *)
(*                                                                         *)
(* StartBudget is not inductive: a publish is charged to the record one    *)
(* step later, from a copy of the record the pass took before a transfer.  *)
(* The invariant adds what each record and each copy of it accounts for.   *)
(***************************************************************************)
EXTENDS CloudSend, TLAPS

\* The starts that a persisted record accounts for.
Charge(rec) == IF rec.kind = "full" THEN rec.attempts ELSE 1

Resaving(k) == job[PrinterOf[k]].pc = "resave" /\ job[PrinterOf[k]].send = k

\* A row and a job are about a send of their own printer.
OwnSends ==
    \A p \in Printers :
        /\ row[p].send # None => PrinterOf[row[p].send] = p
        /\ job[p].send # None => PrinterOf[job[p].send] = p
        /\ job[p].pc \notin {"idle", "pass", "sweep"} => job[p].send # None

\* The copy a republishing pass holds is no behind the persisted record, and
\* has an attempt left.
CopyCharged ==
    \A p \in Printers :
        /\ job[p].pc \in {"recopy", "republish", "resave"} =>
              /\ job[p].rec.kind = "full"
              /\ job[p].rec.attempts < MaxAttempts
              /\ Charge(att[job[p].send]) <= job[p].rec.attempts
        /\ job[p].pc = "latch" => trail[job[p].send].pubs = 0

\* Every start is accounted for, but the ones a crash lost and the one that is
\* about to be charged.
StartsCharged ==
    \A k \in Sends :
        trail[k].pubs <= trail[k].lost + Charge(att[k]) + (IF Resaving(k) THEN 1 ELSE 0)

IInv == TypeOK /\ OwnSends /\ CopyCharged /\ StartsCharged

-----------------------------------------------------------------------------
(* Constants, clocks and records.                                          *)

LEMMA ConstFacts ==
    /\ AgeCap \in Nat /\ HoldCap \in Nat /\ MaxAttempts \in Nat \ {0}
    /\ SetupLimit \in Nat /\ MaxVer \in Nat /\ MaxFaults \in Nat
    /\ 0 \in Ages /\ 0 \in 0 .. HoldCap
    /\ None \notin Sends /\ None \notin Printers /\ None \notin Nat
    /\ PrinterOf \in [Sends -> Printers]
  BY PipelineAssumption, CloudSendAssumption DEF AgeCap, HoldCap, Ages, Larger

\* A clock stays within its bound, and an absent one stays absent.
LEMMA OlderType ==
    ASSUME NEW cap \in Nat, NEW age \in (0 .. cap) \cup {None}
    PROVE  /\ Older(age, cap) \in (0 .. cap) \cup {None}
           /\ age # None => Older(age, cap) \in 0 .. cap
  BY ConstFacts DEF Older

LEMMA OlderAttType ==
    ASSUME NEW rec \in AttRecords
    PROVE  /\ OlderAtt(rec) \in AttRecords
           /\ OlderAtt(rec).attempts = rec.attempts
           /\ OlderAtt(rec).kind = rec.kind
  <1>1. Older(rec.age, AgeCap) \in Ages \cup {None}
    BY OlderType, ConstFacts DEF AttRecords, Ages
  <1>2. Older(rec.held, HoldCap) \in (0 .. HoldCap) \cup {None}
    BY OlderType, ConstFacts DEF AttRecords
  <1> QED BY <1>1, <1>2 DEF AttRecords, OlderAtt

LEMMA FixedRecordTypes ==
    /\ NoAtt \in AttRecords /\ NoAtt.kind = "none"
    /\ Latched \in AttRecords /\ Latched.kind = "failed"
    /\ \A k \in Sends, sid \in Nat \cup {None} :
          NewAssignment(k, sid) \in [send : Sends, active : BOOLEAN, att : AttRecords]
  <1>1. 1 \in 1 .. MaxAttempts
    BY ConstFacts
  <1>2. NoAtt \in AttRecords /\ NoAtt.kind = "none"
    BY <1>1 DEF NoAtt, AttRecords
  <1>3. Latched \in AttRecords /\ Latched.kind = "failed"
    BY <1>2 DEF Latched, AttRecords
  <1>4. \A sid \in Nat \cup {None} : [NoAtt EXCEPT !.sid = sid] \in AttRecords
    BY <1>2 DEF AttRecords
  <1> QED BY <1>2, <1>3, <1>4 DEF NewAssignment

\* What reading a record back and what marking it uploaded leave of it.
ReadOf(a, age, up) == [a EXCEPT !.kind = "full", !.age = age, !.uploaded = up]
UploadedOf(a, kind) == [a EXCEPT !.uploaded = TRUE, !.kind = kind]

LEMMA ReadUpdate ==
    ASSUME NEW a \in AttRecords, NEW age \in Ages, NEW up \in BOOLEAN
    PROVE  /\ ReadOf(a, age, up) \in AttRecords
           /\ ReadOf(a, age, up).kind = "full"
           /\ ReadOf(a, age, up).age = age
           /\ ReadOf(a, age, up).attempts = a.attempts
  BY DEF AttRecords, ReadOf

LEMMA UploadUpdate ==
    ASSUME NEW a \in AttRecords, NEW kind \in {"none", "part", "full", "failed"}
    PROVE  /\ UploadedOf(a, kind) \in AttRecords
           /\ UploadedOf(a, kind).kind = kind
           /\ UploadedOf(a, kind).attempts = a.attempts
  BY DEF AttRecords, UploadedOf

\* What a pass reads back: a full record, with a clock, and not behind the
\* persisted one.
LEMMA LoadAttemptType ==
    ASSUME SpoolTypeOK, NEW p \in Printers, NEW k \in Sends
    PROVE  /\ LoadAttempt(p, k) \in AttRecords
           /\ LoadAttempt(p, k).kind = "full"
           /\ LoadAttempt(p, k).age \in Ages
           /\ Charge(att[k]) <= LoadAttempt(p, k).attempts
  <1> DEFINE saved == IF att[k].kind = "full" THEN att[k]
                      ELSE IF asg[p] # None THEN asg[p].att ELSE NoAtt
             since == IF marker[k] # None THEN marker[k].age ELSE 0
  <1>1. saved \in AttRecords
    BY FixedRecordTypes DEF SpoolTypeOK
  <1>5. Charge(att[k]) <= saved.attempts
    BY <1>1, ConstFacts DEF Charge, AttRecords
  <1>2. since \in Ages
    BY ConstFacts DEF SpoolTypeOK
  <1>3. att[k] \in AttRecords
    BY DEF SpoolTypeOK
  <1> HIDE DEF saved, since
  <1>4. LoadAttempt(p, k) =
          [saved EXCEPT !.kind = "full",
                        !.age = IF saved.age # None THEN saved.age ELSE since,
                        !.uploaded = IF att[k].kind = "part" THEN TRUE
                                     ELSE IF saved.kind = "full" THEN saved.uploaded
                                     ELSE marker[k] # None]
    BY DEF LoadAttempt, saved, since
  <1> DEFINE age == IF saved.age # None THEN saved.age ELSE since
             up == IF att[k].kind = "part" THEN TRUE
                   ELSE IF saved.kind = "full" THEN saved.uploaded
                   ELSE marker[k] # None
  <1>7. saved.age \in Ages \cup {None} /\ saved.uploaded \in BOOLEAN
    BY <1>1 DEF AttRecords
  <1>8. age \in Ages /\ up \in BOOLEAN
    BY <1>2, <1>7
  <1>9. LoadAttempt(p, k) = ReadOf(saved, age, up)
    BY <1>4 DEF ReadOf
  <1> HIDE DEF age, up
  <1> DEFINE read == LoadAttempt(p, k)
  <1>10. /\ read \in AttRecords /\ read.kind = "full" /\ read.age = age
         /\ read.attempts = saved.attempts
    BY <1>1, <1>8, <1>9, ReadUpdate
  <1> HIDE DEF read
  <1>11. read.age \in Ages /\ Charge(att[k]) <= read.attempts
    BY <1>5, <1>8, <1>10
  <1> QED BY <1>10, <1>11 DEF read

-----------------------------------------------------------------------------
(* What a step has to show about the budget.                               *)

Transfers == {"recopy", "republish", "resave"}

\* Nothing of the budget moves: no start is published, no record changes what it
\* accounts for, and no copy is taken.
LEMMA BudgetFrame ==
    ASSUME IInv,
           \A q \in Printers :
              /\ job'[q].pc = job[q].pc
              /\ job'[q].send = job[q].send
              /\ job'[q].rec.kind = job[q].rec.kind
              /\ job'[q].rec.attempts = job[q].rec.attempts
              /\ row'[q].send # None => PrinterOf[row'[q].send] = q,
           \A k \in Sends :
              /\ Charge(att'[k]) = Charge(att[k])
              /\ trail'[k].pubs = trail[k].pubs
              /\ trail'[k].lost = trail[k].lost
    PROVE  OwnSends' /\ CopyCharged' /\ StartsCharged'
  <1>1. OwnSends'
    BY DEF IInv, OwnSends
  <1>2. CopyCharged'
    <2> SUFFICES ASSUME NEW q \in Printers
                 PROVE  /\ job[q].pc \in Transfers =>
                              /\ job[q].rec.kind = "full"
                              /\ job[q].rec.attempts < MaxAttempts
                              /\ Charge(att'[job[q].send]) <= job[q].rec.attempts
                        /\ job[q].pc = "latch" => trail'[job[q].send].pubs = 0
      BY DEF CopyCharged, Transfers
    <2>1. job[q].pc \in Transfers \cup {"latch"} => job[q].send \in Sends
      BY DEF IInv, TypeOK, JobTypeOK, JobRecords, OwnSends, Transfers
    <2> QED BY <2>1 DEF IInv, CopyCharged, Transfers
  <1>3. StartsCharged'
    <2> SUFFICES ASSUME NEW k \in Sends
                 PROVE  trail'[k].pubs <= trail'[k].lost + Charge(att'[k])
                                          + (IF Resaving(k)' THEN 1 ELSE 0)
      BY DEF StartsCharged
    <2>1. Resaving(k)' = Resaving(k)
      BY ConstFacts DEF Resaving
    <2> QED BY <2>1 DEF IInv, StartsCharged
  <1> QED BY <1>1, <1>2, <1>3

\* A step of p's pass that is not a publish, takes no copy and lowers no charge.
LEMMA BudgetStep ==
    ASSUME IInv, NEW p \in Printers,
           job[p].pc # "resave",
           job'[p].pc \notin Transfers \cup {"latch"},
           job'[p].send = job[p].send \/ job'[p].send = None,
           job'[p].pc \notin {"idle", "pass", "sweep"} => job'[p].send # None,
           \A q \in Printers \ {p} : job'[q] = job[q],
           row' = row,
           \A k \in Sends :
              /\ trail'[k].pubs = trail[k].pubs
              /\ trail'[k].lost = trail[k].lost
              /\ Charge(att'[k]) \in Nat
              /\ Charge(att[k]) <= Charge(att'[k])
              /\ k # job[p].send => Charge(att'[k]) = Charge(att[k])
    PROVE  OwnSends' /\ CopyCharged' /\ StartsCharged'
  <1>1. OwnSends'
    BY DEF IInv, OwnSends
  <1>2. CopyCharged'
    <2> SUFFICES ASSUME NEW q \in Printers \ {p}
                 PROVE  /\ job[q].pc \in Transfers =>
                              /\ job[q].rec.kind = "full"
                              /\ job[q].rec.attempts < MaxAttempts
                              /\ Charge(att'[job[q].send]) <= job[q].rec.attempts
                        /\ job[q].pc = "latch" => trail'[job[q].send].pubs = 0
      BY DEF CopyCharged, Transfers
    <2>1. job[q].pc \in Transfers \cup {"latch"} =>
             job[q].send \in Sends /\ job[q].send # job[p].send
      BY DEF IInv, TypeOK, JobTypeOK, JobRecords, OwnSends, Transfers
    <2> QED BY <2>1 DEF IInv, CopyCharged, Transfers
  <1>3. StartsCharged'
    <2> SUFFICES ASSUME NEW k \in Sends
                 PROVE  trail'[k].pubs <= trail'[k].lost + Charge(att'[k])
                                          + (IF Resaving(k)' THEN 1 ELSE 0)
      BY DEF StartsCharged
    <2>1. Resaving(k)' = Resaving(k)
      BY ConstFacts DEF Resaving, Transfers
    <2>2. trail[k].pubs \in Nat /\ trail[k].lost \in Nat /\ Charge(att[k]) \in Nat
      BY ConstFacts DEF IInv, TypeOK, HistoryTypeOK, TrailRecords, SpoolTypeOK,
             AttRecords, Charge
    <2>3. trail[k].pubs <= trail[k].lost + Charge(att[k]) + (IF Resaving(k) THEN 1 ELSE 0)
      BY DEF IInv, StartsCharged
    <2> QED BY <2>1, <2>2, <2>3
  <1> QED BY <1>1, <1>2, <1>3


\* Only p's pass moves, to pc, and it stays with its send.
Moved(p, pc) ==
    /\ job'[p].pc = pc /\ job'[p].send = job[p].send
    /\ \A q \in Printers \ {p} : job'[q] = job[q]

\* The pass moves to another step, and nothing else of the job changes.
LEMMA GotoJob ==
    ASSUME JobTypeOK, NEW p \in Printers, NEW pc \in Steps, Goto(p, pc)
    PROVE  JobTypeOK' /\ Moved(p, pc)
  BY DEF JobTypeOK, JobRecords, Goto, Moved

\* A job record that changes its step, and with it one field, is a job record.
LEMMA JobUpdate ==
    ASSUME NEW j \in JobRecords, NEW pc \in Steps, NEW cancel \in BOOLEAN,
           NEW why \in {"none", "slot", "setup", "other"}
    PROVE  /\ [j EXCEPT !.pc = pc, !.cancel = cancel] \in JobRecords
           /\ [j EXCEPT !.pc = pc, !.why = why] \in JobRecords
  <1>1. [j EXCEPT !.pc = pc, !.cancel = cancel] \in JobRecords
    BY DEF JobRecords
  <1>2. [j EXCEPT !.pc = pc, !.why = why] \in JobRecords
    BY DEF JobRecords
  <1> QED BY <1>1, <1>2

RecopyOf(j, retry, tray, parse, rec) ==
    [j EXCEPT !.pc = "recopy", !.age = 0, !.retry = retry, !.tray = tray,
              !.parse = parse, !.rec = rec]

LEMMA RecopyUpdate ==
    ASSUME NEW j \in JobRecords, NEW rec \in AttRecords, NEW retry \in BOOLEAN,
           NEW tray \in BOOLEAN, NEW parse \in BOOLEAN
    PROVE  LET new == RecopyOf(j, retry, tray, parse, rec)
           IN  /\ new \in JobRecords
               /\ new.pc = "recopy" /\ new.send = j.send /\ new.rec = rec
  <1>1. "recopy" \in Steps /\ 0 \in Ages
    BY ConstFacts DEF Steps, LongSteps
  <1> QED BY <1>1 DEF JobRecords, RecopyOf

LEMMA GoFailJob ==
    ASSUME JobTypeOK, NEW p \in Printers,
           NEW why \in {"none", "slot", "setup", "other"}, GoFail(p, why)
    PROVE  JobTypeOK' /\ Moved(p, "fail")
  <1> DEFINE r == [job[p] EXCEPT !.pc = "fail", !.why = why]
  <1>0. job[p] \in JobRecords /\ "fail" \in Steps
    BY DEF JobTypeOK, Steps
  <1>1. r \in JobRecords
    BY <1>0, JobUpdate, Zenon
  <1>2. job' = [job EXCEPT ![p] = r]
    BY DEF GoFail
  <1>3. r.pc = "fail" /\ r.send = job[p].send
    BY <1>0 DEF JobRecords
  <1> HIDE DEF r
  <1> QED BY <1>1, <1>2, <1>3 DEF JobTypeOK, Moved

LEMMA AuthJob ==
    ASSUME JobTypeOK, NEW p \in Printers,
           job' = [job EXCEPT ![p].pc = "auth", ![p].cancel = FALSE]
    PROVE  JobTypeOK' /\ Moved(p, "auth")
  <1> DEFINE r == [job[p] EXCEPT !.pc = "auth", !.cancel = FALSE]
  <1>0. job[p] \in JobRecords /\ "auth" \in Steps
    BY DEF JobTypeOK, Steps, LongSteps
  <1>1. r \in JobRecords /\ r.pc = "auth" /\ r.send = job[p].send
    <2>1. r \in JobRecords
      BY <1>0, JobUpdate, Zenon
    <2>2. r.pc = "auth" /\ r.send = job[p].send
      BY <1>0 DEF JobRecords
    <2> QED BY <2>1, <2>2
  <1>2. job' = [job EXCEPT ![p] = r]
    OBVIOUS
  <1> HIDE DEF r
  <1> QED BY <1>1, <1>2 DEF JobTypeOK, Moved

LEMMA ChargeType ==
    ASSUME NEW rec \in AttRecords
    PROVE  Charge(rec) \in 1 .. MaxAttempts
  BY ConstFacts DEF Charge, AttRecords

\* A step of p's pass that publishes nothing and takes no copy keeps the
\* invariant when it keeps the types and lowers no charge.
LEMMA MovesOnInv ==
    ASSUME IInv, NEW p \in Printers, job[p].pc # "resave",
           NEW pc \in Steps \ (Transfers \cup {"latch", "idle", "pass"}),
           JobTypeOK', Moved(p, pc),
           pc # "sweep" => job[p].send # None,
           CloudTypeOK', SpoolTypeOK', MemTypeOK', DevTypeOK', HistoryTypeOK',
           row' = row,
           \A k \in Sends : /\ Charge(att[k]) <= Charge(att'[k])
                            /\ k # job[p].send => att'[k] = att[k],
           \A k \in Sends : trail'[k].pubs = trail[k].pubs /\ trail'[k].lost = trail[k].lost
    PROVE  IInv'
  <1>1. TypeOK'
    BY DEF TypeOK
  <1>2. \A k \in Sends : Charge(att'[k]) \in Nat
    BY ChargeType, ConstFacts DEF SpoolTypeOK
  <1>3. OwnSends' /\ CopyCharged' /\ StartsCharged'
    BY <1>2, BudgetStep DEF Transfers, Moved
  <1> QED BY <1>1, <1>3 DEF IInv

\* ... and so does one that leaves the records alone.
LEMMA NoRecordInv ==
    ASSUME IInv, NEW p \in Printers, job[p].pc # "resave",
           NEW pc \in Steps \ (Transfers \cup {"latch", "idle", "pass"}),
           JobTypeOK', Moved(p, pc),
           pc # "sweep" => job[p].send # None,
           SpoolTypeOK', MemTypeOK', DevTypeOK', HistoryTypeOK',
           UNCHANGED <<cloudVars, att>>,
           \A k \in Sends : trail'[k].pubs = trail[k].pubs /\ trail'[k].lost = trail[k].lost
    PROVE  IInv'
  <1>1. CloudTypeOK' /\ row' = row
    BY DEF IInv, TypeOK, CloudTypeOK, cloudVars
  <1>2. \A k \in Sends : Charge(att[k]) <= Charge(att'[k]) /\ att'[k] = att[k]
    BY ChargeType, ConstFacts DEF IInv, TypeOK, SpoolTypeOK
  <1> QED BY <1>1, <1>2, MovesOnInv

\* A step that only decides where the pass goes on.
LEMMA OnlyMovesInv ==
    ASSUME IInv, NEW p \in Printers, job[p].pc # "resave",
           \/ Goto(p, "sweep")
           \/ job[p].send # None /\ GoFail(p, "other"),
           UNCHANGED <<cloudVars, spoolVars, memVars, devVars, trail>>,
           faults' \in 0 .. MaxFaults
    PROVE  IInv'
  <1>1. JobTypeOK
    BY DEF IInv, TypeOK
  <1>2. PICK pc \in {"sweep", "fail"} :
            /\ JobTypeOK' /\ Moved(p, pc)
            /\ pc # "sweep" => job[p].send # None
    BY <1>1, GotoJob, GoFailJob DEF Steps
  <1>3. SpoolTypeOK' /\ MemTypeOK' /\ DevTypeOK' /\ HistoryTypeOK'
    BY DEF IInv, TypeOK, SpoolTypeOK, MemTypeOK, DevTypeOK, HistoryTypeOK,
           spoolVars, memVars, devVars
  <1> QED BY <1>2, <1>3, NoRecordInv DEF Steps, Transfers, LongSteps, spoolVars

LEMMA WaitingSteps ==
    ASSUME IInv, NEW p \in Printers,
           \/ PassNothing(p) \/ FreshWait(p) \/ FreshRejected(p) \/ DownloadFails(p)
           \/ AuthorizeRefused(p) \/ AuthorizeOutage(p)
           \/ AdvanceDispatched(p) \/ AdvanceWait(p) \/ AdvanceFail(p) \/ FailNotAcked(p)
    PROVE  IInv'
  <1>0. faults \in 0 .. MaxFaults
    BY DEF IInv, TypeOK, HistoryTypeOK
  <1>1. CASE AuthorizeOutage(p)
    BY <1>0, <1>1, OnlyMovesInv, ConstFacts DEF AuthorizeOutage
  <1>2. CASE FreshRejected(p) \/ AdvanceFail(p)
    <2>1. job[p].send # None
      BY <1>2 DEF FreshRejected, AdvanceFail, Advancing, IInv, OwnSends
    <2> QED BY <1>0, <1>2, <2>1, OnlyMovesInv
              DEF FreshRejected, AdvanceFail, Advancing
  <1>3. CASE \/ PassNothing(p) \/ FreshWait(p) \/ DownloadFails(p) \/ AuthorizeRefused(p)
             \/ AdvanceDispatched(p) \/ AdvanceWait(p) \/ FailNotAcked(p)
    BY <1>0, <1>3, OnlyMovesInv
       DEF PassNothing, FreshWait, DownloadFails, AuthorizeRefused, AdvanceDispatched,
           AdvanceWait, Advancing, FailNotAcked
  <1> QED BY <1>1, <1>2, <1>3


\* The outcomes of a slot hold and of a counted failure.
LEMMA SlotHeldMoves ==
    ASSUME IInv, NEW p \in Printers, NEW k \in Sends, SlotHeld(p, k)
    PROVE  /\ hold' \in [Sends -> (0 .. HoldCap) \cup {None}]
           /\ JobTypeOK'
           /\ Moved(p, "sweep") \/ Moved(p, "fail")
  <1>1. hold' \in [Sends -> (0 .. HoldCap) \cup {None}]
    BY ConstFacts DEF SlotHeld, BeginHold, IInv, TypeOK, MemTypeOK
  <1>2. JobTypeOK
    BY DEF IInv, TypeOK
  <1> QED BY <1>1, <1>2, GotoJob, GoFailJob DEF SlotHeld, Steps

LEMMA CountSetupFailureMoves ==
    ASSUME IInv, NEW p \in Printers, NEW k \in Sends, CountSetupFailure(p, k)
    PROVE  /\ fails' \in [Sends -> [n : 0 .. SetupLimit, age : Ages]]
           /\ JobTypeOK'
           /\ Moved(p, "sweep") \/ Moved(p, "fail")
  <1> DEFINE n == fails[k].n + 1
             capped == IF n > SetupLimit THEN SetupLimit ELSE n
  <1>1. fails \in [Sends -> [n : 0 .. SetupLimit, age : Ages]]
    BY DEF IInv, TypeOK, MemTypeOK
  <1>2. capped \in 0 .. SetupLimit
    BY <1>1, ConstFacts
  <1>3. fails' = [fails EXCEPT ![k].n = capped]
    BY DEF CountSetupFailure
  <1> HIDE DEF capped
  <1>4. fails' \in [Sends -> [n : 0 .. SetupLimit, age : Ages]]
    BY <1>1, <1>2, <1>3
  <1>5. JobTypeOK
    BY DEF IInv, TypeOK
  <1> QED BY <1>4, <1>5, GotoJob, GoFailJob DEF CountSetupFailure, Steps

\* What an upload leaves on the card.
LEMMA CardType ==
    ASSUME SpoolTypeOK, DevTypeOK, NEW p \in Printers, NEW k \in Sends,
           UploadBroken(p) \/ UploadDone(p, k)
    PROVE  card' \in [Sends -> 0 .. MaxVer]
  <1>1. \A gone : CardAfter(gone) \in [Sends -> 0 .. MaxVer]
    BY ConstFacts DEF CardAfter, DevTypeOK
  <1>2. file[k] \in 0 .. MaxVer
    BY DEF SpoolTypeOK
  <1> QED BY <1>1, <1>2 DEF UploadBroken, UploadDone

LEMMA FreshSteps ==
    ASSUME IInv, NEW p \in Printers,
           \/ FreshReady(p) \/ Download(p) \/ BadPlate(p) \/ UploadSkipped(p)
           \/ UploadFails(p) \/ Authorize(p) \/ StartNotSent(p)
    PROVE  IInv'
  <1> DEFINE k == job[p].send
  <1>1. k \in Sends /\ k # None
    BY ConstFacts DEF IInv, OwnSends, TypeOK, JobTypeOK, JobRecords, FreshReady, Download,
       BadPlate, UploadSkipped, UploadFails, Authorize, StartNotSent
  <1>2. JobTypeOK /\ job[p].pc # "resave"
    BY DEF IInv, TypeOK, FreshReady, Download, BadPlate, UploadSkipped, UploadFails,
           Authorize, StartNotSent
  <1>3. CASE FreshReady(p) \/ Authorize(p)
    <2>1. /\ hold' \in [Sends -> (0 .. HoldCap) \cup {None}] /\ JobTypeOK'
          /\ \/ Moved(p, "sweep") \/ Moved(p, "fail")
             \/ Moved(p, "download") \/ Moved(p, "start")
      <3>1. CASE SlotHeld(p, k)
        BY <1>1, <3>1, SlotHeldMoves
      <3>2. CASE hold' = [hold EXCEPT ![k] = None]
                   /\ (Goto(p, "download") \/ Goto(p, "start"))
        BY <1>1, <1>2, <3>2, GotoJob DEF IInv, TypeOK, MemTypeOK, Steps, LongSteps
      <3> QED BY <1>3, <3>1, <3>2 DEF FreshReady, Authorize
    <2>2. SpoolTypeOK' /\ MemTypeOK' /\ DevTypeOK' /\ HistoryTypeOK'
      BY <1>3, <2>1 DEF IInv, TypeOK, SpoolTypeOK, MemTypeOK, DevTypeOK, HistoryTypeOK,
         spoolVars, devVars, FreshReady, Authorize
    <2>3. UNCHANGED <<cloudVars, att, trail>>
      BY <1>3 DEF spoolVars, FreshReady, Authorize
    <2> QED BY <1>1, <1>2, <2>1, <2>2, <2>3, NoRecordInv DEF Steps, LongSteps, Transfers
  <1>4. CASE UploadFails(p) \/ StartNotSent(p)
    <2>1. /\ fails' \in [Sends -> [n : 0 .. SetupLimit, age : Ages]] /\ JobTypeOK'
          /\ Moved(p, "sweep") \/ Moved(p, "fail")
      BY <1>1, <1>4, CountSetupFailureMoves DEF UploadFails, StartNotSent
    <2>2. SpoolTypeOK' /\ MemTypeOK' /\ DevTypeOK' /\ HistoryTypeOK'
      BY <1>1, <1>4, <2>1, CardType DEF IInv, TypeOK, SpoolTypeOK, MemTypeOK, DevTypeOK,
         HistoryTypeOK, spoolVars, devVars, UploadFails, StartNotSent
    <2>3. UNCHANGED <<cloudVars, att, trail>>
      BY <1>4 DEF spoolVars, UploadFails, StartNotSent
    <2> QED BY <1>1, <1>2, <2>1, <2>2, <2>3, NoRecordInv DEF Steps, LongSteps, Transfers
  <1>5. CASE Download(p) \/ BadPlate(p)
    <2>1. JobTypeOK' /\ (Moved(p, "upload") \/ Moved(p, "fail"))
      BY <1>2, <1>5, GotoJob, GoFailJob DEF Download, BadPlate, Steps, LongSteps
    <2>2. file' \in [Sends -> 0 .. MaxVer]
      BY <1>1, <1>2, <1>5, ConstFacts
         DEF IInv, TypeOK, SpoolTypeOK, JobTypeOK, JobRecords, Download, BadPlate
    <2>3. SpoolTypeOK' /\ MemTypeOK' /\ DevTypeOK' /\ HistoryTypeOK'
      BY <1>5, <2>2 DEF IInv, TypeOK, SpoolTypeOK, MemTypeOK, DevTypeOK, HistoryTypeOK,
         memVars, devVars, Download, BadPlate
    <2>4. UNCHANGED <<cloudVars, att, trail>>
      BY <1>5 DEF Download, BadPlate
    <2> QED BY <1>1, <1>2, <2>1, <2>3, <2>4, NoRecordInv DEF Steps, LongSteps, Transfers
  <1>6. CASE UploadSkipped(p)
    <2>1. JobTypeOK' /\ Moved(p, "auth")
      BY <1>2, <1>6, AuthJob DEF UploadSkipped
    <2>2. SpoolTypeOK' /\ MemTypeOK' /\ DevTypeOK' /\ HistoryTypeOK'
      BY <1>6 DEF IInv, TypeOK, SpoolTypeOK, MemTypeOK, DevTypeOK, HistoryTypeOK,
         spoolVars, memVars, devVars, UploadSkipped
    <2>3. UNCHANGED <<cloudVars, att, trail>>
      BY <1>6 DEF spoolVars, UploadSkipped
    <2> QED BY <1>1, <1>2, <2>1, <2>2, <2>3, NoRecordInv DEF Steps, LongSteps, Transfers
  <1> QED BY <1>3, <1>4, <1>5, <1>6


LEMMA SaveAttemptType ==
    ASSUME SpoolTypeOK, NEW p \in Printers, NEW k \in Sends, NEW rec \in AttRecords,
           SaveAttempt(p, k, rec)
    PROVE  /\ att' \in [Sends -> AttRecords]
           /\ asg' \in [Printers -> [send : Sends, active : BOOLEAN, att : AttRecords]
                                    \cup {None}]
           /\ att'[k] = rec
           /\ \A j \in Sends \ {k} : att'[j] = att[j]
  BY DEF SaveAttempt, SpoolTypeOK

LEMMA StartSteps ==
    ASSUME IInv, NEW p \in Printers,
           \/ Upload(p) \/ MarkStarted(p) \/ RecordAssignment(p) \/ RememberAttempt(p)
    PROVE  IInv'
  <1> DEFINE k == job[p].send
  <1>1. k \in Sends /\ k # None
    BY ConstFacts DEF IInv, OwnSends, TypeOK, JobTypeOK, JobRecords, Upload, MarkStarted,
       RecordAssignment, RememberAttempt
  <1>2. /\ CloudTypeOK /\ SpoolTypeOK /\ MemTypeOK /\ JobTypeOK /\ DevTypeOK /\ HistoryTypeOK
        /\ job[p].pc # "resave"
    BY DEF IInv, TypeOK, Upload, MarkStarted, RecordAssignment, RememberAttempt
  <1>3. ASSUME Upload(p) PROVE IInv'
    <2> DEFINE rec == [att[k] EXCEPT !.uploaded = TRUE,
                                     !.kind = IF @ = "none" THEN "part" ELSE @]
    <2>1. JobTypeOK' /\ Moved(p, "auth")
      BY <1>2, <1>3, AuthJob DEF Upload
    <2>2. rec \in AttRecords /\ Charge(rec) = Charge(att[k])
      <3>1. att[k] \in AttRecords
        BY <1>1, <1>2 DEF SpoolTypeOK
      <3> DEFINE kind == IF att[k].kind = "none" THEN "part" ELSE att[k].kind
      <3>2. kind \in {"none", "part", "full", "failed"} /\ (kind = "full" <=> att[k].kind = "full")
        BY <3>1 DEF AttRecords
      <3>3. rec = UploadedOf(att[k], kind)
        BY Zenon DEF UploadedOf
      <3> HIDE DEF rec, kind
      <3>4. rec \in AttRecords /\ rec.kind = kind /\ rec.attempts = att[k].attempts
        BY <3>1, <3>2, <3>3, UploadUpdate
      <3> QED BY <3>2, <3>4 DEF Charge
    <2>3. att' = [att EXCEPT ![k] = rec]
      BY <1>3 DEF Upload
    <2> HIDE DEF rec
    <2>4. SpoolTypeOK'
      <3>1. UNCHANGED <<marker, file, asg, applied>>
        BY <1>3 DEF Upload
      <3>2. att' \in [Sends -> AttRecords]
        BY <1>2, <2>2, <2>3 DEF SpoolTypeOK
      <3> QED BY <1>2, <3>1, <3>2 DEF SpoolTypeOK
    <2>5. card' \in [Sends -> 0 .. MaxVer]
      BY <1>1, <1>2, <1>3, CardType DEF Upload
    <2>6. CloudTypeOK' /\ MemTypeOK' /\ DevTypeOK' /\ HistoryTypeOK'
      BY <1>2, <1>3, <2>5 DEF Upload, CloudTypeOK, MemTypeOK, DevTypeOK, HistoryTypeOK,
         cloudVars, memVars
    <2>7. \A j \in Sends : Charge(att[j]) <= Charge(att'[j]) /\ (j # k => att'[j] = att[j])
      BY <1>2, <2>2, <2>3, ChargeType, ConstFacts DEF SpoolTypeOK
    <2>8. row' = row /\ trail' = trail
      BY <1>3 DEF Upload, cloudVars
    <2> QED BY <1>1, <1>2, <2>1, <2>4, <2>6, <2>7, <2>8, MovesOnInv
              DEF Steps, LongSteps, Transfers
  <1>4. ASSUME MarkStarted(p) PROVE IInv'
    <2>1. JobTypeOK' /\ Moved(p, "assign")
      BY <1>2, <1>4, GotoJob DEF MarkStarted, Steps
    <2>2. /\ fails' \in [Sends -> [n : 0 .. SetupLimit, age : Ages]]
          /\ started' \subseteq Sends
          /\ marker' \in [Sends -> [confirmed : BOOLEAN, age : Ages] \cup {None}]
      BY <1>1, <1>2, <1>4, ConstFacts DEF MarkStarted, MemTypeOK, SpoolTypeOK, NoFails
    <2>3. SpoolTypeOK' /\ MemTypeOK' /\ DevTypeOK' /\ HistoryTypeOK'
      BY <1>2, <1>4, <2>2 DEF MarkStarted, SpoolTypeOK, MemTypeOK, DevTypeOK, HistoryTypeOK,
         devVars
    <2>4. UNCHANGED <<cloudVars, att, trail>>
      BY <1>4 DEF MarkStarted
    <2> QED BY <1>1, <1>2, <2>1, <2>3, <2>4, NoRecordInv DEF Steps, LongSteps, Transfers
  <1>5. ASSUME RecordAssignment(p) PROVE IInv'
    <2>1. JobTypeOK' /\ Moved(p, "remember")
      BY <1>2, <1>5, GotoJob DEF RecordAssignment, Steps
    <2>2. dev[p].sub \in Nat
      BY <1>2 DEF DevTypeOK, DevRecords
    <2>3. SpoolTypeOK'
      BY <1>1, <1>2, <1>5, <2>2, FixedRecordTypes DEF RecordAssignment, SpoolTypeOK
    <2>4. MemTypeOK' /\ DevTypeOK' /\ HistoryTypeOK'
      BY <1>2, <1>5 DEF RecordAssignment, MemTypeOK, DevTypeOK, HistoryTypeOK, memVars, devVars
    <2>5. UNCHANGED <<cloudVars, att, trail>>
      BY <1>5 DEF RecordAssignment
    <2> QED BY <1>1, <1>2, <2>1, <2>3, <2>4, <2>5, NoRecordInv DEF Steps, LongSteps, Transfers
  <1>6. ASSUME RememberAttempt(p) PROVE IInv'
    <2> DEFINE rec == [LoadAttempt(p, k) EXCEPT
                         !.phase = "A", !.age = 0, !.sid = dev[p].sub,
                         !.uploaded = TRUE, !.name = dev[p].name]
    <2>1. PICK pc \in {"confirm", "sweep"} : JobTypeOK' /\ Moved(p, pc)
      BY <1>2, <1>6, GotoJob DEF RememberAttempt, Steps
    <2>2. rec \in AttRecords /\ Charge(att[k]) <= Charge(rec)
      <3> DEFINE old == LoadAttempt(p, k)
      <3>1. old \in AttRecords /\ old.kind = "full" /\ Charge(att[k]) <= old.attempts
        BY <1>1, <1>2, LoadAttemptType
      <3>2. dev[p].sub \in Nat /\ dev[p].name \in Sends \cup {None}
        BY <1>2 DEF DevTypeOK, DevRecords
      <3> HIDE DEF old
      <3>3. rec = [old EXCEPT !.phase = "A", !.age = 0, !.sid = dev[p].sub,
                              !.uploaded = TRUE, !.name = dev[p].name]
        BY DEF old
      <3>4. rec \in AttRecords /\ rec.kind = "full" /\ rec.attempts = old.attempts
        BY <3>1, <3>2, <3>3, ConstFacts DEF AttRecords
      <3> QED BY <3>1, <3>4 DEF Charge
    <2>3. att' = [att EXCEPT ![k] = rec]
      BY <1>6 DEF RememberAttempt
    <2>4. asg' = IF asg[p] = None THEN asg
                 ELSE [asg EXCEPT ![p].att = rec,
                                  ![p].active = @ \/ dev[p].view = "active"]
      BY <1>6 DEF RememberAttempt
    <2> HIDE DEF rec
    <2>5. asg' \in [Printers -> [send : Sends, active : BOOLEAN, att : AttRecords]
                                \cup {None}]
      <3> SUFFICES ASSUME asg[p] # None
                   PROVE  asg' \in [Printers -> [send : Sends, active : BOOLEAN, att : AttRecords]
                                                \cup {None}]
        BY <1>2, <2>4 DEF SpoolTypeOK
      <3> DEFINE new == [asg[p] EXCEPT !.att = rec, !.active = @ \/ dev[p].view = "active"]
      <3>1. new \in [send : Sends, active : BOOLEAN, att : AttRecords]
        BY <1>2, <2>2 DEF SpoolTypeOK
      <3>2. asg' = [asg EXCEPT ![p] = new]
        BY <2>4
      <3> HIDE DEF new
      <3> QED BY <1>2, <3>1, <3>2 DEF SpoolTypeOK
    <2>6. UNCHANGED <<marker, file, applied>>
      BY <1>6 DEF RememberAttempt
    <2>7. SpoolTypeOK'
      BY <1>2, <2>2, <2>3, <2>5, <2>6 DEF SpoolTypeOK
    <2>8. CloudTypeOK' /\ MemTypeOK' /\ DevTypeOK' /\ HistoryTypeOK'
      BY <1>2, <1>6 DEF RememberAttempt, CloudTypeOK, MemTypeOK, DevTypeOK, HistoryTypeOK,
         cloudVars, memVars, devVars
    <2>9. \A j \in Sends : Charge(att[j]) <= Charge(att'[j]) /\ (j # k => att'[j] = att[j])
      BY <1>2, <2>2, <2>3, ChargeType, ConstFacts DEF SpoolTypeOK
    <2>10. row' = row /\ trail' = trail
      BY <1>6 DEF RememberAttempt, cloudVars
    <2> QED BY <1>1, <1>2, <2>1, <2>7, <2>8, <2>9, <2>10, MovesOnInv
              DEF Steps, LongSteps, Transfers
  <1> QED BY <1>3, <1>4, <1>5, <1>6


\* decide() asks for another start only while an attempt is left.
LEMMA DecideBudget ==
    ASSUME NEW rec \in AttRecords, rec.age \in Ages, NEW snap,
           Decide(rec, snap) \in {"reset_retry", "republish", "retry"}
    PROVE  rec.attempts < MaxAttempts
  <1>1. /\ rec.attempts \in Int /\ MaxAttempts \in Int
        /\ rec.age \in Int /\ PhaseB \in Int
    BY ConstFacts, PipelineAssumption DEF AttRecords, Ages
  <1>2. rec.attempts >= MaxAttempts => DecidePending(rec) = "fail"
    BY <1>1 DEF DecidePending
  <1>3. rec.attempts >= MaxAttempts => DecideB(rec) \in {"wait", "fail"}
    BY <1>1 DEF DecideB
  <1>4. rec.attempts >= MaxAttempts => DecideA(rec, snap) \in {"wait", "enter_b", "fail"}
    BY <1>1 DEF DecideA
  <1> QED BY <1>1, <1>2, <1>3, <1>4 DEF Decide

LEMMA VerdictBudget ==
    ASSUME SpoolTypeOK, NEW p \in Printers, NEW k \in Sends,
           Verdict(p, k) \in {"reset_retry", "republish", "retry"}
    PROVE  LoadAttempt(p, k).attempts < MaxAttempts
  <1> DEFINE rec == LoadAttempt(p, k)
             base == Decide(rec, Snapshot(p))
  <1>1. rec \in AttRecords /\ rec.age \in Ages
    BY LoadAttemptType
  <1>2. base \in {"reset_retry", "republish", "retry"}
    BY DEF Verdict
  <1> HIDE DEF rec
  <1>3. rec.attempts < MaxAttempts
    BY <1>1, <1>2, DecideBudget
  <1> QED BY <1>3 DEF rec

LEMMA WatchdogMoves ==
    ASSUME IInv, NEW p \in Printers,
           PassKnown(p) \/ AdvanceConfirm(p) \/ MarkConfirmed(p) \/ FailAcked(p)
    PROVE  IInv'
  <1> DEFINE k == job[p].send
  <1>1. k \in Sends /\ k # None
    BY ConstFacts DEF IInv, OwnSends, TypeOK, JobTypeOK, JobRecords, PassKnown,
       AdvanceConfirm, MarkConfirmed, Advancing, FailAcked
  <1>2. /\ CloudTypeOK /\ SpoolTypeOK /\ MemTypeOK /\ JobTypeOK /\ DevTypeOK /\ HistoryTypeOK
        /\ job[p].pc # "resave"
    BY DEF IInv, TypeOK, PassKnown, AdvanceConfirm, MarkConfirmed, Advancing, FailAcked
  <1>3. ASSUME PassKnown(p) PROVE IInv'
    <2>1. JobTypeOK' /\ Moved(p, "advance")
      BY <1>2, <1>3, GotoJob DEF PassKnown, Steps
    <2>2. LoadAttempt(p, k).held \in (0 .. HoldCap) \cup {None}
      BY <1>1, <1>2, LoadAttemptType DEF AttRecords
    <2>3. MemTypeOK'
      BY <1>1, <1>2, <1>3, <2>2 DEF PassKnown, AdoptHold, MemTypeOK
    <2>4. SpoolTypeOK'
      BY <1>1, <1>2, <1>3, FixedRecordTypes DEF PassKnown, SpoolTypeOK
    <2>5. DevTypeOK' /\ HistoryTypeOK'
      BY <1>2, <1>3 DEF PassKnown, DevTypeOK, HistoryTypeOK, devVars
    <2>6. UNCHANGED <<cloudVars, att, trail>>
      BY <1>3 DEF PassKnown
    <2> QED BY <1>1, <1>2, <2>1, <2>3, <2>4, <2>5, <2>6, NoRecordInv
              DEF Steps, LongSteps, Transfers
  <1>4. ASSUME AdvanceConfirm(p) PROVE IInv'
    <2>1. JobTypeOK' /\ Moved(p, "confirm")
      BY <1>2, <1>4, GotoJob DEF AdvanceConfirm, Steps
    <2> DEFINE Rows == [send : Sends, active : BOOLEAN, att : AttRecords]
    <2>7. /\ UNCHANGED <<marker, att, file, applied>>
          /\ asg' = IF asg[p] = None THEN asg ELSE [asg EXCEPT ![p].active = TRUE]
      BY <1>4 DEF AdvanceConfirm
    <2>2. asg' \in [Printers -> Rows \cup {None}]
      <3>1. asg \in [Printers -> Rows \cup {None}]
        BY <1>2 DEF SpoolTypeOK
      <3>2. \A r \in Rows : [r EXCEPT !.active = TRUE] \in Rows
        OBVIOUS
      <3>3. asg[p] = None \/ asg[p] \in Rows
        BY <3>1
      <3> HIDE DEF Rows
      <3>4. asg[p] # None => [asg[p] EXCEPT !.active = TRUE] \in Rows
        BY <3>2, <3>3
      <3>5. CASE asg[p] = None
        BY <2>7, <3>1, <3>5
      <3>6. CASE asg[p] # None
        BY <2>7, <3>1, <3>4, <3>6
      <3> QED BY <3>5, <3>6
    <2>3. SpoolTypeOK'
      BY <1>2, <2>2, <2>7 DEF SpoolTypeOK
    <2>4. MemTypeOK' /\ DevTypeOK' /\ HistoryTypeOK'
      BY <1>1, <1>2, <1>4 DEF AdvanceConfirm, MemTypeOK, DevTypeOK, HistoryTypeOK, devVars
    <2>5. UNCHANGED <<cloudVars, att, trail>>
      BY <1>4 DEF AdvanceConfirm
    <2> QED BY <1>1, <1>2, <2>1, <2>3, <2>4, <2>5, NoRecordInv
              DEF Steps, LongSteps, Transfers
  <1>6. ASSUME MarkConfirmed(p) PROVE IInv'
    <2>1. JobTypeOK' /\ Moved(p, "sweep")
      BY <1>2, <1>6, GotoJob DEF MarkConfirmed, Steps
    <2> DEFINE done == [confirmed |-> TRUE, age |-> 0]
    <2>7. /\ UNCHANGED <<att, asg, applied>>
          /\ marker' = [marker EXCEPT ![k] = done]
          /\ file' = [file EXCEPT ![k] = 0]
      BY <1>6 DEF MarkConfirmed
    <2>3. SpoolTypeOK'
      <3>1. done \in [confirmed : BOOLEAN, age : Ages]
        BY ConstFacts
      <3> HIDE DEF done
      <3>2. marker' \in [Sends -> [confirmed : BOOLEAN, age : Ages] \cup {None}]
        BY <1>2, <2>7, <3>1 DEF SpoolTypeOK
      <3>4. file \in [Sends -> 0 .. MaxVer] /\ 0 \in 0 .. MaxVer
        BY <1>2, ConstFacts DEF SpoolTypeOK
      <3> HIDE DEF k
      <3>3. file' \in [Sends -> 0 .. MaxVer]
        BY <2>7, <3>4
      <3> QED BY <1>2, <2>7, <3>2, <3>3 DEF SpoolTypeOK
    <2>4. MemTypeOK' /\ DevTypeOK' /\ HistoryTypeOK'
      BY <1>2, <1>6 DEF MarkConfirmed, MemTypeOK, DevTypeOK, HistoryTypeOK, memVars, devVars
    <2>5. UNCHANGED <<cloudVars, att, trail>>
      BY <1>6 DEF MarkConfirmed
    <2> QED BY <1>1, <1>2, <2>1, <2>3, <2>4, <2>5, NoRecordInv
              DEF Steps, LongSteps, Transfers
  <1>5. ASSUME FailAcked(p) PROVE IInv'
    <2>1. JobTypeOK' /\ Moved(p, "drop")
      BY <1>2, <1>5, GotoJob DEF FailAcked, Steps
    <2>2. trail' = [trail EXCEPT ![k].reported = (row[p].send = k)]
      BY <1>5 DEF FailAcked
    <2>3. /\ trail' \in [Sends -> TrailRecords]
          /\ \A j \in Sends : trail'[j].pubs = trail[j].pubs /\ trail'[j].lost = trail[j].lost
      <3> DEFINE listed == row[p].send = k
      <3>1. listed \in BOOLEAN /\ trail' = [trail EXCEPT ![k].reported = listed]
        BY <2>2
      <3> HIDE DEF listed
      <3> QED BY <1>1, <1>2, <3>1 DEF HistoryTypeOK, TrailRecords
    <2>4. SpoolTypeOK' /\ MemTypeOK' /\ DevTypeOK' /\ HistoryTypeOK'
      BY <1>2, <1>5, <2>3 DEF FailAcked, SpoolTypeOK, MemTypeOK, DevTypeOK, HistoryTypeOK,
         spoolVars, memVars, devVars
    <2>5. UNCHANGED <<cloudVars, att>>
      BY <1>5 DEF FailAcked, spoolVars
    <2> QED BY <1>1, <1>2, <2>1, <2>3, <2>4, <2>5, NoRecordInv
              DEF Steps, LongSteps, Transfers
  <1> QED BY <1>3, <1>4, <1>5, <1>6

\* A pass that saves a record which accounts for no less than the old one.
LEMMA SavesInv ==
    ASSUME IInv, NEW p \in Printers, NEW k \in Sends, job[p].send = k, k # None,
           job[p].pc # "resave",
           NEW new \in AttRecords, new.kind = "full", Charge(att[k]) <= new.attempts,
           SaveAttempt(p, k, new), JobTypeOK', Moved(p, "sweep") \/ Moved(p, "fail"),
           MemTypeOK', DevTypeOK',
           UNCHANGED <<cloudVars, marker, file, applied, faults, trail>>
    PROVE  IInv'
  <1>1. CloudTypeOK /\ SpoolTypeOK /\ HistoryTypeOK
    BY DEF IInv, TypeOK
  <1>2. SpoolTypeOK'
    BY <1>1, SaveAttemptType DEF SpoolTypeOK
  <1>3. CloudTypeOK' /\ HistoryTypeOK'
    BY <1>1 DEF CloudTypeOK, HistoryTypeOK, cloudVars
  <1>4. att'[k] = new /\ \A j \in Sends \ {k} : att'[j] = att[j]
    BY <1>1, SaveAttemptType
  <1>5. Charge(att[k]) <= Charge(new)
    BY DEF Charge
  <1>6. \A j \in Sends : Charge(att[j]) <= Charge(att'[j]) /\ (j # k => att'[j] = att[j])
    BY <1>1, <1>4, <1>5, ChargeType, ConstFacts DEF SpoolTypeOK
  <1>7. row' = row /\ trail' = trail
    BY DEF cloudVars
  <1> QED BY <1>2, <1>3, <1>6, <1>7, MovesOnInv DEF Steps, LongSteps, Transfers

LEMMA WatchdogSaves ==
    ASSUME IInv, NEW p \in Printers, AdvanceEnterB(p) \/ AdvanceReset(p)
    PROVE  IInv'
  <1> DEFINE k == job[p].send
             rec == LoadAttempt(p, k)
  <1>1. k \in Sends /\ k # None
    BY ConstFacts DEF IInv, OwnSends, TypeOK, JobTypeOK, JobRecords,
       AdvanceEnterB, AdvanceReset, Advancing
  <1>2. /\ CloudTypeOK /\ SpoolTypeOK /\ MemTypeOK /\ JobTypeOK /\ DevTypeOK /\ HistoryTypeOK
        /\ job[p].pc # "resave"
    BY DEF IInv, TypeOK, AdvanceEnterB, AdvanceReset, Advancing
  <1>3. rec \in AttRecords /\ rec.kind = "full" /\ Charge(att[k]) <= rec.attempts
    BY <1>1, <1>2, LoadAttemptType
  <1>5. ASSUME AdvanceEnterB(p) PROVE IInv'
    <2> DEFINE new == [rec EXCEPT !.phase = "B", !.age = 0]
    <2>1. new \in AttRecords /\ new.kind = "full" /\ Charge(att[k]) <= new.attempts
      <3> HIDE DEF rec
      <3>1. rec \in AttRecords /\ rec.kind = "full" /\ rec.attempts \in Int
        BY <1>3, ConstFacts DEF AttRecords
      <3>2. new \in AttRecords /\ new.kind = "full" /\ new.attempts = rec.attempts
        BY <3>1, ConstFacts DEF AttRecords
      <3> QED BY <1>3, <3>2
    <2>2. SaveAttempt(p, k, new)
      BY <1>5 DEF AdvanceEnterB
    <2>3. JobTypeOK' /\ Moved(p, "sweep")
      BY <1>2, <1>5, GotoJob DEF AdvanceEnterB, Steps
    <2>4. /\ MemTypeOK' /\ DevTypeOK'
          /\ UNCHANGED <<cloudVars, marker, file, applied, faults, trail>>
      BY <1>2, <1>5 DEF AdvanceEnterB, MemTypeOK, DevTypeOK, memVars, devVars
    <2> HIDE DEF new
    <2> QED BY <1>1, <1>2, <2>1, <2>2, <2>3, <2>4, SavesInv
  <1>6. ASSUME AdvanceReset(p) PROVE IInv'
    <2> DEFINE spent == [rec EXCEPT !.attempts = IF rec.pending THEN @ + 1 ELSE @]
               new == [spent EXCEPT !.pending = TRUE, !.phase = "A", !.age = 0]
    <2>1. rec.attempts < MaxAttempts
      BY <1>1, <1>2, <1>6, VerdictBudget DEF AdvanceReset, Advancing
    <2>2. spent \in AttRecords /\ spent.kind = "full" /\ Charge(att[k]) <= spent.attempts
      <3> HIDE DEF rec
      <3>1. /\ spent \in AttRecords /\ spent.kind = "full"
            /\ rec.attempts \in Int /\ rec.attempts <= spent.attempts
        BY <1>3, <2>1, ConstFacts DEF AttRecords
      <3>2. Charge(att[k]) \in Int /\ spent.attempts \in Int
        BY <1>1, <1>2, <3>1, ChargeType, ConstFacts DEF SpoolTypeOK, AttRecords
      <3> QED BY <1>3, <3>1, <3>2
    <2>3. CASE SaveAttempt(p, k, spent) /\ GoFail(p, "other") /\ UNCHANGED dev
      <3>1. JobTypeOK' /\ Moved(p, "fail")
        BY <1>2, <2>3, GoFailJob
      <3>2. /\ MemTypeOK' /\ DevTypeOK'
          /\ UNCHANGED <<cloudVars, marker, file, applied, faults, trail>>
        BY <1>2, <1>6, <2>3 DEF AdvanceReset, MemTypeOK, DevTypeOK, memVars
      <3> HIDE DEF spent
      <3> QED BY <1>1, <1>2, <2>2, <2>3, <3>1, <3>2, SavesInv
    <2>4. CASE /\ SaveAttempt(p, k, new) /\ Goto(p, "sweep")
               /\ dev' = [dev EXCEPT ![p].up = FALSE, ![p].link = "stale"]
      <3>1. JobTypeOK' /\ Moved(p, "sweep")
        BY <1>2, <2>4, GotoJob DEF Steps
      <3>2. new \in AttRecords /\ new.kind = "full" /\ Charge(att[k]) <= new.attempts
        <4> HIDE DEF rec, spent
        <4>1. new \in AttRecords /\ new.kind = "full" /\ new.attempts = spent.attempts
          BY <2>2, ConstFacts DEF AttRecords
        <4> QED BY <2>2, <4>1
      <3>3. [dev[p] EXCEPT !.up = FALSE, !.link = "stale"] \in DevRecords
        <4>1. dev[p] \in DevRecords
          BY <1>2 DEF DevTypeOK
        <4> QED BY <4>1 DEF DevRecords
      <3>4. dev' = [dev EXCEPT ![p] = [dev[p] EXCEPT !.up = FALSE, !.link = "stale"]]
        BY <2>4
      <3>5. /\ MemTypeOK' /\ DevTypeOK'
          /\ UNCHANGED <<cloudVars, marker, file, applied, faults, trail>>
        BY <1>2, <1>6, <3>3, <3>4 DEF AdvanceReset, MemTypeOK, DevTypeOK, memVars
      <3> HIDE DEF new
      <3> QED BY <1>1, <1>2, <2>4, <3>1, <3>2, <3>5, SavesInv
    <2> QED BY <1>6, <2>3, <2>4 DEF AdvanceReset
  <1> QED BY <1>5, <1>6


\* A pass that ends, having neither published nor saved.
LEMMA UploadCancelledInv ==
    ASSUME IInv, NEW p \in Printers, UploadCancelled(p)
    PROVE  IInv'
  <1>1. NoJob \in JobRecords /\ NoJob.pc = "idle" /\ NoJob.send = None
    BY FixedRecordTypes, ConstFacts DEF NoJob, JobRecords, Steps, LongSteps
  <1>2. JobTypeOK' /\ job'[p] = NoJob /\ \A q \in Printers \ {p} : job'[q] = job[q]
    BY <1>1 DEF UploadCancelled, IInv, TypeOK, JobTypeOK
  <1>0. card' \in [Sends -> 0 .. MaxVer]
    <2>1. job[p].send \in Sends
      BY ConstFacts DEF IInv, OwnSends, TypeOK, JobTypeOK, JobRecords, UploadCancelled
    <2> QED BY <2>1, CardType DEF UploadCancelled, IInv, TypeOK
  <1>3. TypeOK'
    BY <1>0, <1>2 DEF UploadCancelled, IInv, TypeOK, CloudTypeOK, SpoolTypeOK, MemTypeOK,
       DevTypeOK, HistoryTypeOK, cloudVars, spoolVars, memVars, devVars
  <1>4. row' = row /\ att' = att /\ trail' = trail
    BY DEF UploadCancelled, cloudVars, spoolVars
  <1>5. \A k \in Sends : Charge(att[k]) \in Nat
    BY ChargeType, ConstFacts DEF IInv, TypeOK, SpoolTypeOK
  <1>6. job[p].pc # "resave"
    BY DEF UploadCancelled
  <1>7. OwnSends' /\ CopyCharged' /\ StartsCharged'
    BY <1>1, <1>2, <1>4, <1>5, <1>6, BudgetStep DEF Transfers
  <1> QED BY <1>3, <1>7 DEF IInv

\* A pass that takes or keeps a copy of the record.
LEMMA CopyInv ==
    ASSUME IInv, NEW p \in Printers, job[p].pc # "resave", job[p].send # None,
           job'[p].pc \in {"recopy", "republish"}, job'[p].send = job[p].send,
           job'[p].rec.kind = "full", job'[p].rec.attempts < MaxAttempts,
           Charge(att[job[p].send]) <= job'[p].rec.attempts,
           \A q \in Printers \ {p} : job'[q] = job[q],
           JobTypeOK', DevTypeOK',
           UNCHANGED <<cloudVars, spoolVars, memVars, faults, trail>>
    PROVE  IInv'
  <1>1. TypeOK'
    BY DEF IInv, TypeOK, CloudTypeOK, SpoolTypeOK, MemTypeOK, HistoryTypeOK,
       cloudVars, spoolVars, memVars
  <1>2. row' = row /\ att' = att /\ trail' = trail
    BY DEF cloudVars, spoolVars
  <1>3. OwnSends'
    BY <1>2 DEF IInv, OwnSends
  <1>4. CopyCharged'
    BY <1>2 DEF IInv, CopyCharged
  <1>5. \A k \in Sends : Resaving(k)' = Resaving(k)
    BY ConstFacts DEF Resaving
  <1>6. StartsCharged'
    BY <1>2, <1>5 DEF IInv, StartsCharged
  <1> QED BY <1>1, <1>3, <1>4, <1>6 DEF IInv

LEMMA AdvanceRepublishInv ==
    ASSUME IInv, NEW p \in Printers, AdvanceRepublish(p)
    PROVE  IInv'
  <1> DEFINE k == job[p].send
             rec == LoadAttempt(p, k)
  <1>1. PICK verdict \in {"republish", "retry"} :
            /\ Advancing(p, verdict)
            /\ IF verdict = "republish" /\ ~dev[p].up
               THEN Goto(p, "sweep")
               ELSE job' = [job EXCEPT ![p].pc = "recopy", ![p].age = 0,
                                       ![p].retry = (verdict = "retry"),
                                       ![p].tray = TrayPresent(p),
                                       ![p].parse = dev[p].parse /\ Readable(p),
                                       ![p].rec = rec]
    BY DEF AdvanceRepublish
  <1>2. UNCHANGED <<cloudVars, spoolVars, memVars, devVars, faults, trail>>
    BY DEF AdvanceRepublish
  <1>3. k \in Sends /\ k # None /\ job[p].pc # "resave"
    BY <1>1, ConstFacts DEF IInv, OwnSends, TypeOK, JobTypeOK, JobRecords, Advancing
  <1>4. JobTypeOK /\ SpoolTypeOK /\ DevTypeOK /\ HistoryTypeOK
    BY DEF IInv, TypeOK
  <1>5. CASE Goto(p, "sweep")
    BY <1>2, <1>3, <1>4, <1>5, OnlyMovesInv DEF HistoryTypeOK
  <1>6. ASSUME job' = [job EXCEPT ![p].pc = "recopy", ![p].age = 0,
                                  ![p].retry = (verdict = "retry"),
                                  ![p].tray = TrayPresent(p),
                                  ![p].parse = dev[p].parse /\ Readable(p),
                                  ![p].rec = rec]
        PROVE  IInv'
    <2> DEFINE retry == verdict = "retry"
               tray  == TrayPresent(p)
               parse == dev[p].parse /\ Readable(p)
               new   == [job[p] EXCEPT !.pc = "recopy", !.age = 0, !.retry = retry,
                                       !.tray = tray, !.parse = parse, !.rec = rec]
    <2>1. /\ rec \in AttRecords /\ rec.kind = "full" /\ rec.attempts < MaxAttempts
          /\ Charge(att[k]) <= rec.attempts
      BY <1>1, <1>3, <1>4, LoadAttemptType, VerdictBudget DEF Advancing
    <2>2. retry \in BOOLEAN
      OBVIOUS
    <2>3. tray \in BOOLEAN /\ parse \in BOOLEAN
      BY <1>4 DEF TrayPresent, Readable, DevTypeOK, DevRecords
    <2>4. job' = [job EXCEPT ![p] = new]
      BY <1>6, ZenonT(60)
    <2> HIDE DEF rec, retry, tray, parse
    <2>5. /\ new \in JobRecords /\ new.pc = "recopy" /\ new.send = job[p].send
          /\ new.rec = rec
      <3>1. job[p] \in JobRecords /\ "recopy" \in Steps /\ 0 \in Ages /\ rec \in AttRecords
        BY <1>4, <2>1, ConstFacts DEF JobTypeOK, Steps, LongSteps
      <3>2. new = RecopyOf(job[p], retry, tray, parse, rec)
        BY Zenon DEF RecopyOf
      <3> HIDE DEF new, k
      <3>3. job[p] \in JobRecords /\ rec \in AttRecords
        BY <3>1
      <3> DEFINE up == RecopyOf(job[p], retry, tray, parse, rec)
      <3>4. /\ up \in JobRecords /\ up.pc = "recopy" /\ up.send = job[p].send
            /\ up.rec = rec
        BY <2>2, <2>3, <3>3, RecopyUpdate
      <3> QED BY <3>2, <3>4, Zenon
    <2> HIDE DEF new
    <2>6. JobTypeOK' /\ job'[p] = new /\ \A q \in Printers \ {p} : job'[q] = job[q]
      BY <1>4, <2>4, <2>5 DEF JobTypeOK
    <2>7. DevTypeOK' /\ UNCHANGED <<cloudVars, spoolVars, memVars, faults, trail>>
      BY <1>2, <1>4 DEF DevTypeOK, devVars
    <2> QED BY <1>3, <2>1, <2>5, <2>6, <2>7, CopyInv
  <1> QED BY <1>1, <1>5, <1>6

LEMMA RecopyInv ==
    ASSUME IInv, NEW p \in Printers, Recopy(p)
    PROVE  IInv'
  <1> DEFINE k == job[p].send
             new == [job[p] EXCEPT !.pc = "republish", !.cancel = FALSE]
  <1>1. k \in Sends /\ k # None /\ job[p].pc = "recopy"
    BY ConstFacts DEF IInv, OwnSends, TypeOK, JobTypeOK, JobRecords, Recopy
  <1>2. JobTypeOK /\ SpoolTypeOK /\ DevTypeOK
    BY DEF IInv, TypeOK
  <1>3. /\ new \in JobRecords /\ new.pc = "republish" /\ new.send = job[p].send
        /\ new.rec = job[p].rec
    <2>1. job[p] \in JobRecords /\ "republish" \in Steps
      BY <1>2 DEF JobTypeOK, Steps
    <2>2. new \in JobRecords
      BY <2>1, JobUpdate, Zenon
    <2>3. new.pc = "republish" /\ new.send = job[p].send /\ new.rec = job[p].rec
      BY <2>1 DEF JobRecords
    <2> QED BY <2>2, <2>3
  <1>4. job' = [job EXCEPT ![p] = new]
    BY DEF Recopy
  <1> HIDE DEF new
  <1>5. JobTypeOK' /\ job'[p] = new /\ \A q \in Printers \ {p} : job'[q] = job[q]
    BY <1>2, <1>3, <1>4 DEF JobTypeOK
  <1>6. card' \in [Sends -> 0 .. MaxVer]
    BY <1>1, <1>2, CardType DEF Recopy, DevTypeOK
  <1>7. DevTypeOK' /\ UNCHANGED <<cloudVars, spoolVars, memVars, faults, trail>>
    BY <1>2, <1>6 DEF Recopy, DevTypeOK
  <1>8. /\ job[p].rec.kind = "full" /\ job[p].rec.attempts < MaxAttempts
        /\ Charge(att[k]) <= job[p].rec.attempts
    BY <1>1 DEF IInv, CopyCharged
  <1> QED BY <1>1, <1>3, <1>5, <1>7, <1>8, CopyInv

LEMMA RepublishStopsInv ==
    ASSUME IInv, NEW p \in Printers, RepublishHeld(p) \/ RepublishNotSent(p)
    PROVE  IInv'
  <1> DEFINE k == job[p].send
             rec == job[p].rec
  <1>1. k \in Sends /\ k # None /\ job[p].pc = "republish"
    BY ConstFacts DEF IInv, OwnSends, TypeOK, JobTypeOK, JobRecords, RepublishHeld,
       RepublishNotSent
  <1>2. JobTypeOK /\ SpoolTypeOK /\ MemTypeOK /\ DevTypeOK /\ HistoryTypeOK
    BY DEF IInv, TypeOK
  <1>3. /\ rec \in AttRecords /\ rec.kind = "full" /\ Charge(att[k]) <= rec.attempts
    BY <1>1, <1>2 DEF IInv, CopyCharged, JobTypeOK, JobRecords
  <1>4. \A held \in (0 .. HoldCap) \cup {None} :
           LET new == [rec EXCEPT !.held = held]
           IN  new \in AttRecords /\ new.kind = "full" /\ Charge(att[k]) <= new.attempts
    <2> HIDE DEF rec
    <2>1. \A held \in (0 .. HoldCap) \cup {None} :
             /\ [rec EXCEPT !.held = held] \in AttRecords
             /\ [rec EXCEPT !.held = held].kind = "full"
             /\ [rec EXCEPT !.held = held].attempts = rec.attempts
      BY <1>3 DEF AttRecords
    <2> QED BY <1>3, <2>1
  <1>5. /\ DevTypeOK'
        /\ UNCHANGED <<cloudVars, marker, file, applied, started, fails, faults, trail>>
    BY <1>2 DEF RepublishHeld, RepublishNotSent, DevTypeOK, devVars
  <1>6. ASSUME RepublishHeld(p) PROVE IInv'
    <2>1. /\ hold' \in [Sends -> (0 .. HoldCap) \cup {None}] /\ JobTypeOK'
          /\ Moved(p, "sweep") \/ Moved(p, "fail")
      BY <1>1, <1>6, SlotHeldMoves DEF RepublishHeld
    <2>2. MemTypeOK'
      BY <1>2, <1>5, <2>1 DEF MemTypeOK
    <2>3. hold'[k] \in (0 .. HoldCap) \cup {None}
      BY <1>1, <2>1
    <2>4. SaveAttempt(p, k, [rec EXCEPT !.held = hold'[k]])
      BY <1>6 DEF RepublishHeld
    <2> DEFINE new == [rec EXCEPT !.held = hold'[k]]
    <2>5. new \in AttRecords /\ new.kind = "full" /\ Charge(att[k]) <= new.attempts
      BY <1>4, <2>3
    <2>6. SaveAttempt(p, k, new)
      BY <2>4
    <2> HIDE DEF new
    <2> QED BY <1>1, <1>5, <2>1, <2>2, <2>5, <2>6, SavesInv
  <1>7. ASSUME RepublishNotSent(p) PROVE IInv'
    <2>1. JobTypeOK' /\ (Moved(p, "sweep") \/ Moved(p, "fail"))
      BY <1>2, <1>7, GotoJob, GoFailJob DEF RepublishNotSent, Steps
    <2>2. MemTypeOK'
      BY <1>1, <1>2, <1>5, <1>7 DEF RepublishNotSent, MemTypeOK
    <2> DEFINE new == [rec EXCEPT !.held = None]
    <2>3. CASE UNCHANGED <<att, asg>>
      <3>1. SpoolTypeOK' /\ HistoryTypeOK' /\ UNCHANGED <<cloudVars, att, trail>>
        BY <1>2, <1>5, <2>3 DEF SpoolTypeOK, HistoryTypeOK
      <3> QED BY <1>1, <1>5, <2>1, <2>2, <3>1, NoRecordInv DEF Steps, LongSteps, Transfers
    <2>4. CASE SaveAttempt(p, k, new)
      <3>1. new \in AttRecords /\ new.kind = "full" /\ Charge(att[k]) <= new.attempts
        BY <1>4
      <3> HIDE DEF new
      <3> QED BY <1>1, <1>5, <2>1, <2>2, <2>4, <3>1, SavesInv
    <2> QED BY <1>7, <2>3, <2>4 DEF RepublishNotSent
  <1> QED BY <1>6, <1>7


LEMMA PublishType ==
    ASSUME DevTypeOK, NEW p \in Printers, NEW k \in Sends, Publish(p, k)
    PROVE  dev' \in [Printers -> DevRecords]
  <1> DEFINE new == [dev[p] EXCEPT !.sub = @ + 1, !.last = k]
  <1>1. new \in DevRecords
    <2>1. dev[p] \in DevRecords /\ dev[p].sub \in Nat /\ k \in Sends \cup {None}
      BY DEF DevTypeOK, DevRecords
    <2>2. dev[p].sub + 1 \in Nat
      BY <2>1
    <2> QED BY <2>1, <2>2 DEF DevRecords
  <1>2. dev' = [dev EXCEPT ![p] = new]
    BY DEF Publish
  <1> HIDE DEF new
  <1> QED BY <1>1, <1>2 DEF DevTypeOK

\* The first start begins a new count, which the record of any age covers.
LEMMA StartInv ==
    ASSUME IInv, NEW p \in Printers, Start(p)
    PROVE  IInv'
  <1> DEFINE k == job[p].send
             new == [trail[k] EXCEPT !.pubs = 1, !.lost = 0, !.torn = FALSE,
                                     !.ran = FALSE, !.since = 0]
  <1>1. k \in Sends /\ k # None /\ job[p].pc = "start"
    BY ConstFacts DEF IInv, OwnSends, TypeOK, JobTypeOK, JobRecords, Start
  <1>2. JobTypeOK /\ DevTypeOK /\ HistoryTypeOK
    BY DEF IInv, TypeOK
  <1>3. JobTypeOK' /\ Moved(p, "mark")
    BY <1>2, GotoJob DEF Start, Steps
  <1>4. new \in TrailRecords /\ new.pubs = 1 /\ new.lost = 0
    <2>1. trail[k] \in TrailRecords /\ 0 \in Ages
      BY <1>1, <1>2, ConstFacts DEF HistoryTypeOK
    <2> QED BY <2>1 DEF TrailRecords
  <1>5. trail' = [trail EXCEPT ![k] = new]
    BY ZenonT(60) DEF Start
  <1> HIDE DEF new
  <1>6. TypeOK'
    <2>1. CloudTypeOK /\ SpoolTypeOK /\ MemTypeOK /\ DevTypeOK /\ HistoryTypeOK
      BY DEF IInv, TypeOK
    <2>2. UNCHANGED <<cloudVars, spoolVars, memVars, faults>>
      BY DEF Start
    <2>3. CloudTypeOK' /\ SpoolTypeOK' /\ MemTypeOK'
      BY <2>1, <2>2 DEF CloudTypeOK, SpoolTypeOK, MemTypeOK, cloudVars, spoolVars, memVars
    <2>4. DevTypeOK'
      BY <1>1, <1>2, <2>1, PublishType DEF Start, DevTypeOK
    <2>5. HistoryTypeOK'
      BY <1>1, <1>4, <1>5, <2>1, <2>2 DEF HistoryTypeOK
    <2> QED BY <1>3, <2>3, <2>4, <2>5 DEF TypeOK
  <1>7. row' = row /\ att' = att
    BY DEF Start, cloudVars, spoolVars
  <1>8. OwnSends'
    BY <1>1, <1>3, <1>7 DEF IInv, OwnSends, Moved
  <1>9. CopyCharged'
    <2> SUFFICES ASSUME NEW q \in Printers \ {p}
                 PROVE  /\ job[q].pc \in Transfers =>
                              /\ job[q].rec.kind = "full"
                              /\ job[q].rec.attempts < MaxAttempts
                              /\ Charge(att[job[q].send]) <= job[q].rec.attempts
                        /\ job[q].pc = "latch" => trail'[job[q].send].pubs = 0
      BY <1>3, <1>7 DEF CopyCharged, Transfers, Moved
    <2>1. job[q].pc = "latch" => job[q].send \in Sends /\ job[q].send # k
      BY <1>1 DEF IInv, TypeOK, JobTypeOK, JobRecords, OwnSends
    <2> QED BY <1>5, <2>1, <1>2 DEF IInv, CopyCharged, Transfers, HistoryTypeOK
  <1>10. StartsCharged'
    <2> SUFFICES ASSUME NEW j \in Sends
                 PROVE  trail'[j].pubs <= trail'[j].lost + Charge(att[j])
                                          + (IF Resaving(j)' THEN 1 ELSE 0)
      BY <1>7 DEF StartsCharged
    <2>1. j # k => trail'[j] = trail[j] /\ Resaving(j)' = Resaving(j)
      BY <1>1, <1>2, <1>3, <1>5, ConstFacts DEF Resaving, Moved, HistoryTypeOK
    <2>2. j = k => trail'[j] = new
      BY <1>1, <1>2, <1>5 DEF HistoryTypeOK
    <2>3. Charge(att[j]) \in Nat /\ Charge(att[j]) >= 1
      BY ChargeType, ConstFacts DEF IInv, TypeOK, SpoolTypeOK
    <2> QED BY <1>4, <2>1, <2>2, <2>3 DEF IInv, StartsCharged
  <1> QED BY <1>6, <1>8, <1>9, <1>10 DEF IInv

\* A later start is charged by the next step of the pass.
LEMMA RepublishInv ==
    ASSUME IInv, NEW p \in Printers, Republish(p)
    PROVE  IInv'
  <1> DEFINE k == job[p].send
             new == [trail[k] EXCEPT !.pubs = @ + 1, !.ran = FALSE, !.since = 0]
  <1>1. k \in Sends /\ k # None /\ job[p].pc = "republish" /\ PrinterOf[k] = p
    BY ConstFacts DEF IInv, OwnSends, TypeOK, JobTypeOK, JobRecords, Republish
  <1>2. JobTypeOK /\ DevTypeOK /\ HistoryTypeOK /\ SpoolTypeOK
    BY DEF IInv, TypeOK
  <1>3. JobTypeOK' /\ Moved(p, "resave") /\ job'[p].rec = job[p].rec
    <2>1. JobTypeOK' /\ Moved(p, "resave")
      BY <1>2, GotoJob DEF Republish, Steps
    <2>2. job'[p] = [job[p] EXCEPT !.pc = "resave"]
      BY <1>2 DEF Republish, Goto, JobTypeOK
    <2>3. job[p] \in JobRecords
      BY <1>2 DEF JobTypeOK
    <2> QED BY <2>1, <2>2, <2>3 DEF JobRecords
  <1>4. new \in TrailRecords /\ new.pubs = trail[k].pubs + 1 /\ new.lost = trail[k].lost
    <2>1. trail[k] \in TrailRecords /\ 0 \in Ages
      BY <1>1, <1>2, ConstFacts DEF HistoryTypeOK
    <2>2. trail[k].pubs + 1 \in Nat
      BY <2>1 DEF TrailRecords
    <2> QED BY <2>1, <2>2 DEF TrailRecords
  <1>5. trail' = [trail EXCEPT ![k] = new]
    BY DEF Republish
  <1> HIDE DEF new
  <1>6. hold' \in [Sends -> (0 .. HoldCap) \cup {None}]
    BY DEF Republish, IInv, TypeOK, MemTypeOK
  <1>7. TypeOK'
    <2>1. CloudTypeOK /\ SpoolTypeOK /\ MemTypeOK /\ DevTypeOK
      BY DEF IInv, TypeOK
    <2>2. UNCHANGED <<cloudVars, spoolVars, faults, started, fails>>
      BY DEF Republish
    <2>3. CloudTypeOK' /\ SpoolTypeOK' /\ MemTypeOK'
      BY <1>6, <2>1, <2>2 DEF CloudTypeOK, SpoolTypeOK, MemTypeOK, cloudVars, spoolVars
    <2>4. DevTypeOK'
      BY <1>1, <1>2, <2>1, PublishType DEF Republish, DevTypeOK
    <2>5. HistoryTypeOK'
      BY <1>1, <1>2, <1>3, <1>4, <1>5, <2>2 DEF HistoryTypeOK, IInv, TypeOK
    <2> QED BY <1>3, <2>3, <2>4, <2>5 DEF TypeOK
  <1>8. row' = row /\ att' = att
    BY DEF Republish, cloudVars, spoolVars
  <1>9. OwnSends'
    BY <1>1, <1>3, <1>8 DEF IInv, OwnSends, Moved
  <1>10. CopyCharged'
    <2> SUFFICES ASSUME NEW q \in Printers
                 PROVE  /\ job'[q].pc \in Transfers =>
                              /\ job[q].rec.kind = "full"
                              /\ job[q].rec.attempts < MaxAttempts
                              /\ Charge(att[job[q].send]) <= job[q].rec.attempts
                        /\ job'[q].pc = "latch" => trail'[job[q].send].pubs = 0
      BY <1>3, <1>8 DEF CopyCharged, Transfers, Moved
    <2>1. CASE q = p
      BY <1>1, <1>3, <2>1 DEF IInv, CopyCharged, Moved
    <2>2. CASE q # p
      <3>1. job[q].pc = "latch" => job[q].send \in Sends /\ job[q].send # k
        BY <1>1, <2>2 DEF IInv, TypeOK, JobTypeOK, JobRecords, OwnSends
      <3> QED BY <1>2, <1>3, <1>5, <2>2, <3>1
                DEF IInv, CopyCharged, Transfers, HistoryTypeOK, Moved
    <2> QED BY <2>1, <2>2
  <1>11. StartsCharged'
    <2> SUFFICES ASSUME NEW j \in Sends
                 PROVE  trail'[j].pubs <= trail'[j].lost + Charge(att[j])
                                          + (IF Resaving(j)' THEN 1 ELSE 0)
      BY <1>8 DEF StartsCharged
    <2>1. j # k => trail'[j] = trail[j] /\ Resaving(j)' = Resaving(j)
      BY <1>1, <1>2, <1>3, <1>5, ConstFacts DEF Resaving, Moved, HistoryTypeOK
    <2>2. j = k => trail'[j] = new /\ Resaving(j)' /\ ~Resaving(j)
      BY <1>1, <1>2, <1>3, <1>5 DEF HistoryTypeOK, Resaving, Moved
    <2>3. Charge(att[j]) \in Nat /\ trail[j].pubs \in Nat /\ trail[j].lost \in Nat
      BY <1>2, ChargeType, ConstFacts DEF SpoolTypeOK, HistoryTypeOK, TrailRecords
    <2>4. trail[j].pubs <= trail[j].lost + Charge(att[j]) + (IF Resaving(j) THEN 1 ELSE 0)
      BY DEF IInv, StartsCharged
    <2> QED BY <1>4, <2>1, <2>2, <2>3, <2>4
  <1> QED BY <1>7, <1>9, <1>10, <1>11 DEF IInv

\* The charge lands: the copy grows by the one start that was published.
LEMMA ResaveInv ==
    ASSUME IInv, NEW p \in Printers, ResaveAttempt(p)
    PROVE  IInv'
  <1> DEFINE k == job[p].send
             rec == job[p].rec
             new == [rec EXCEPT !.pending = FALSE, !.attempts = @ + 1, !.phase = "A",
                                !.age = job[p].age, !.sid = dev[p].sub,
                                !.uploaded = TRUE, !.held = None]
  <1>1. k \in Sends /\ k # None /\ job[p].pc = "resave" /\ PrinterOf[k] = p
    BY ConstFacts DEF IInv, OwnSends, TypeOK, JobTypeOK, JobRecords, ResaveAttempt
  <1>2. JobTypeOK /\ DevTypeOK /\ HistoryTypeOK /\ SpoolTypeOK
    BY DEF IInv, TypeOK
  <1>3. JobTypeOK' /\ Moved(p, "sweep")
    BY <1>2, GotoJob DEF ResaveAttempt, Steps
  <1>4. /\ rec \in AttRecords /\ rec.kind = "full" /\ rec.attempts < MaxAttempts
        /\ Charge(att[k]) <= rec.attempts
    BY <1>1, <1>2 DEF IInv, CopyCharged, JobTypeOK, JobRecords
  <1>5. job[p].age \in Ages /\ dev[p].sub \in Nat
    BY <1>2 DEF JobTypeOK, JobRecords, DevTypeOK, DevRecords
  <1>6. SaveAttempt(p, k, new)
    BY DEF ResaveAttempt, Resaved
  <1>7. new \in AttRecords /\ new.kind = "full" /\ new.attempts = rec.attempts + 1
    <2> HIDE DEF rec
    <2>1. rec.attempts + 1 \in 1 .. MaxAttempts
      BY <1>4, ConstFacts DEF AttRecords
    <2> QED BY <1>4, <1>5, <2>1 DEF AttRecords
  <1> HIDE DEF new
  <1>8. att'[k] = new /\ \A j \in Sends \ {k} : att'[j] = att[j]
    BY <1>1, <1>2, <1>6, <1>7, SaveAttemptType
  <1>9. TypeOK'
    <2>1. SpoolTypeOK'
      BY <1>1, <1>2, <1>6, <1>7, SaveAttemptType DEF ResaveAttempt, SpoolTypeOK
    <2> QED BY <1>3, <2>1 DEF ResaveAttempt, IInv, TypeOK, CloudTypeOK, MemTypeOK, DevTypeOK,
                  HistoryTypeOK, cloudVars, memVars, devVars
  <1>10. row' = row /\ trail' = trail
    BY DEF ResaveAttempt, cloudVars
  <1>11. OwnSends'
    BY <1>1, <1>3, <1>10 DEF IInv, OwnSends, Moved
  <1>12. CopyCharged'
    <2> SUFFICES ASSUME NEW q \in Printers \ {p}
                 PROVE  /\ job[q].pc \in Transfers =>
                              /\ job[q].rec.kind = "full"
                              /\ job[q].rec.attempts < MaxAttempts
                              /\ Charge(att'[job[q].send]) <= job[q].rec.attempts
                        /\ job[q].pc = "latch" => trail[job[q].send].pubs = 0
      BY <1>3, <1>10 DEF CopyCharged, Transfers, Moved
    <2>1. job[q].pc \in Transfers => job[q].send \in Sends /\ job[q].send # k
      BY <1>1 DEF IInv, TypeOK, JobTypeOK, JobRecords, OwnSends, Transfers
    <2> QED BY <1>8, <2>1 DEF IInv, CopyCharged, Transfers
  <1>13. StartsCharged'
    <2> SUFFICES ASSUME NEW j \in Sends
                 PROVE  trail[j].pubs <= trail[j].lost + Charge(att'[j])
                                         + (IF Resaving(j)' THEN 1 ELSE 0)
      BY <1>10 DEF StartsCharged
    <2>1. trail[j].pubs <= trail[j].lost + Charge(att[j]) + (IF Resaving(j) THEN 1 ELSE 0)
      BY DEF IInv, StartsCharged
    <2>2. CASE j = k
      <3>1. /\ trail[j].pubs \in Nat /\ trail[j].lost \in Nat
            /\ Charge(att[j]) \in Nat /\ rec.attempts \in Nat
        BY <1>2, <1>4, ChargeType, ConstFacts DEF SpoolTypeOK, HistoryTypeOK, TrailRecords,
           AttRecords
      <3>2. Charge(att'[j]) = rec.attempts + 1 /\ Charge(att[j]) <= rec.attempts
        BY <1>4, <1>7, <1>8, <2>2 DEF Charge
      <3>3. Resaving(j) /\ ~Resaving(j)'
        BY <1>1, <1>3, <2>2 DEF Resaving, Moved
      <3> QED BY <2>1, <3>1, <3>2, <3>3
    <2>3. CASE j # k
      <3>1. att'[j] = att[j] /\ Resaving(j)' = Resaving(j)
        BY <1>1, <1>3, <1>8, <2>3, ConstFacts DEF Resaving, Moved
      <3> QED BY <2>1, <3>1
    <2> QED BY <2>2, <2>3
  <1> QED BY <1>9, <1>11, <1>12, <1>13 DEF IInv

\* The charge is not written: the start is counted lost, as after a crash.
LEMMA ResaveFailsInv ==
    ASSUME IInv, NEW p \in Printers, ResaveFails(p)
    PROVE  IInv'
  <1> DEFINE k == job[p].send
             new == [trail[k] EXCEPT !.lost = @ + 1]
  <1>1. k \in Sends /\ k # None /\ job[p].pc = "resave" /\ PrinterOf[k] = p
    BY ConstFacts DEF IInv, OwnSends, TypeOK, JobTypeOK, JobRecords, ResaveFails
  <1>2. /\ CloudTypeOK /\ SpoolTypeOK /\ MemTypeOK /\ JobTypeOK /\ DevTypeOK /\ HistoryTypeOK
    BY DEF IInv, TypeOK
  <1>3. NoJob \in JobRecords /\ NoJob.pc = "idle" /\ NoJob.send = None
    BY FixedRecordTypes, ConstFacts DEF NoJob, JobRecords, Steps, LongSteps
  <1>4. /\ JobTypeOK' /\ job'[p].pc = "idle" /\ job'[p].send = None
        /\ \A q \in Printers \ {p} : job'[q] = job[q]
    BY <1>2, <1>3 DEF ResaveFails, JobTypeOK
  <1>5. UNCHANGED <<cloudVars, spoolVars, memVars, devVars>> /\ faults' \in 0 .. MaxFaults
    BY <1>2, ConstFacts DEF ResaveFails, HistoryTypeOK
  <1>6. new \in TrailRecords /\ new.pubs = trail[k].pubs /\ new.lost = trail[k].lost + 1
    <2>1. \A t \in TrailRecords : LET u == [t EXCEPT !.lost = @ + 1] IN
             u \in TrailRecords /\ u.pubs = t.pubs /\ u.lost = t.lost + 1
      BY DEF TrailRecords
    <2> QED BY <1>1, <1>2, <2>1 DEF HistoryTypeOK
  <1>7. trail' = [trail EXCEPT ![k] = new]
    BY DEF ResaveFails
  <1> HIDE DEF new
  <1>8. TypeOK'
    BY <1>1, <1>2, <1>4, <1>5, <1>6, <1>7 DEF TypeOK, CloudTypeOK, SpoolTypeOK, MemTypeOK,
       DevTypeOK, HistoryTypeOK, cloudVars, spoolVars, memVars, devVars
  <1>9. row' = row /\ att' = att
    BY <1>5 DEF cloudVars, spoolVars
  <1>10. OwnSends'
    BY <1>4, <1>9 DEF IInv, OwnSends
  <1>11. CopyCharged'
    <2> SUFFICES ASSUME NEW q \in Printers \ {p}
                 PROVE  /\ job[q].pc \in Transfers =>
                              /\ job[q].rec.kind = "full"
                              /\ job[q].rec.attempts < MaxAttempts
                              /\ Charge(att[job[q].send]) <= job[q].rec.attempts
                        /\ job[q].pc = "latch" => trail'[job[q].send].pubs = 0
      BY <1>4, <1>9 DEF CopyCharged, Transfers
    <2>1. job[q].pc = "latch" => job[q].send \in Sends /\ job[q].send # k
      BY <1>1 DEF IInv, TypeOK, JobTypeOK, JobRecords, OwnSends
    <2> QED BY <1>2, <1>7, <2>1 DEF IInv, CopyCharged, Transfers, HistoryTypeOK
  <1>12. StartsCharged'
    <2> SUFFICES ASSUME NEW j \in Sends
                 PROVE  trail'[j].pubs <= trail'[j].lost + Charge(att[j])
                                          + (IF Resaving(j)' THEN 1 ELSE 0)
      BY <1>9 DEF StartsCharged
    <2>1. trail[j].pubs <= trail[j].lost + Charge(att[j]) + (IF Resaving(j) THEN 1 ELSE 0)
      BY DEF IInv, StartsCharged
    <2>2. trail[j].pubs \in Nat /\ trail[j].lost \in Nat /\ Charge(att[j]) \in Nat
      BY <1>2, ChargeType, ConstFacts DEF SpoolTypeOK, HistoryTypeOK, TrailRecords
    <2>3. CASE j = k
      <3>1. trail'[j].pubs = trail[j].pubs /\ trail'[j].lost = trail[j].lost + 1
        BY <1>1, <1>2, <1>6, <1>7, <2>3 DEF HistoryTypeOK
      <3> QED BY <2>1, <2>2, <3>1
    <2>4. CASE j # k
      <3>1. trail'[j] = trail[j] /\ Resaving(j)' = Resaving(j)
        BY <1>1, <1>2, <1>4, <1>7, <2>4, ConstFacts DEF Resaving, HistoryTypeOK
      <3> QED BY <2>1, <3>1
    <2> QED BY <2>3, <2>4
  <1> QED BY <1>8, <1>10, <1>11, <1>12 DEF IInv

LEMMA ClearPendingType ==
    ASSUME SpoolTypeOK, MemTypeOK, NEW p \in Printers, NEW k \in Sends, ClearPending(p, k)
    PROVE  /\ started' \subseteq Sends
           /\ marker' \in [Sends -> [confirmed : BOOLEAN, age : Ages] \cup {None}]
           /\ file' \in [Sends -> 0 .. MaxVer]
           /\ asg' \in [Printers -> [send : Sends, active : BOOLEAN, att : AttRecords]
                                    \cup {None}]
  BY ConstFacts DEF ClearPending, SpoolTypeOK, MemTypeOK

\* A settled send owes nothing: its count and its record go together.
LEMMA SettleInv ==
    ASSUME IInv, NEW p \in Printers, job[p].pc # "resave",
           NEW pc \in {"sweep", "latch", "idle"}, JobTypeOK', job'[p].pc = pc,
           job'[p].send = job[p].send \/ job'[p].send = None,
           pc = "latch" => job'[p].send = job[p].send /\ job[p].send # None
                           /\ trail'[job[p].send].pubs = 0,
           \A q \in Printers \ {p} : job'[q] = job[q],
           CloudTypeOK', SpoolTypeOK', MemTypeOK', DevTypeOK', HistoryTypeOK',
           row' = row,
           \A k \in Sends : /\ trail'[k].lost = trail[k].lost
                            /\ \/ trail'[k].pubs = 0 /\ PrinterOf[k] = p
                               \/ trail'[k].pubs = trail[k].pubs /\ att'[k] = att[k]
    PROVE  IInv'
  <1>1. TypeOK'
    BY DEF TypeOK
  <1>2. OwnSends'
    BY DEF IInv, OwnSends
  <1>3. CopyCharged'
    <2> SUFFICES ASSUME NEW q \in Printers \ {p}
                 PROVE  /\ job[q].pc \in Transfers =>
                              /\ job[q].rec.kind = "full"
                              /\ job[q].rec.attempts < MaxAttempts
                              /\ Charge(att'[job[q].send]) <= job[q].rec.attempts
                        /\ job[q].pc = "latch" => trail'[job[q].send].pubs = 0
      BY DEF CopyCharged, Transfers
    <2>1. job[q].pc \in Transfers \cup {"latch"} =>
             job[q].send \in Sends /\ PrinterOf[job[q].send] = q
      BY DEF IInv, TypeOK, JobTypeOK, JobRecords, OwnSends, Transfers
    <2> QED BY <2>1 DEF IInv, CopyCharged, Transfers
  <1>4. StartsCharged'
    <2> SUFFICES ASSUME NEW k \in Sends
                 PROVE  trail'[k].pubs <= trail'[k].lost + Charge(att'[k])
                                          + (IF Resaving(k)' THEN 1 ELSE 0)
      BY DEF StartsCharged
    <2>1. Resaving(k)' = Resaving(k)
      BY ConstFacts DEF Resaving
    <2>2. trail[k].pubs <= trail[k].lost + Charge(att[k]) + (IF Resaving(k) THEN 1 ELSE 0)
      BY DEF IInv, StartsCharged
    <2>3. trail[k].lost \in Nat /\ Charge(att'[k]) \in Nat
      BY ChargeType, ConstFacts DEF IInv, TypeOK, HistoryTypeOK, TrailRecords, SpoolTypeOK
    <2> QED BY <2>1, <2>2, <2>3
  <1> QED BY <1>1, <1>2, <1>3, <1>4 DEF IInv

\* The history forgets the starts of a send that settled.
LEMMA TrailReset ==
    ASSUME HistoryTypeOK, NEW S, trail' = [k \in Sends |-> IF k \in S
                                           THEN [trail[k] EXCEPT !.pubs = 0] ELSE trail[k]]
    PROVE  /\ trail' \in [Sends -> TrailRecords]
           /\ \A k \in Sends : /\ trail'[k].lost = trail[k].lost
                               /\ k \in S => trail'[k].pubs = 0
                               /\ k \notin S => trail'[k] = trail[k]
  <1>1. \A k \in Sends : /\ [trail[k] EXCEPT !.pubs = 0] \in TrailRecords
                         /\ [trail[k] EXCEPT !.pubs = 0].lost = trail[k].lost
                         /\ [trail[k] EXCEPT !.pubs = 0].pubs = 0
    BY DEF HistoryTypeOK, TrailRecords
  <1> QED BY <1>1 DEF HistoryTypeOK

LEMMA SettleSteps ==
    ASSUME IInv, NEW p \in Printers,
           PassCancel(p) \/ DropFailed(p) \/ LatchFailure(p) \/ Sweep(p)
    PROVE  IInv'
  <1> DEFINE k == job[p].send
  <1>1. /\ CloudTypeOK /\ SpoolTypeOK /\ MemTypeOK /\ JobTypeOK /\ DevTypeOK /\ HistoryTypeOK
        /\ job[p].pc # "resave"
    BY DEF IInv, TypeOK, PassCancel, DropFailed, LatchFailure, Sweep
  <1>2. ASSUME PassCancel(p) \/ DropFailed(p) PROVE IInv'
    <2>1. k \in Sends /\ k # None /\ PrinterOf[k] = p
      BY <1>2, ConstFacts DEF IInv, OwnSends, TypeOK, JobTypeOK, JobRecords, PassCancel,
         DropFailed
    <2>2. JobTypeOK' /\ (Moved(p, "sweep") \/ Moved(p, "latch"))
      BY <1>1, <1>2, GotoJob DEF PassCancel, DropFailed, Steps
    <2>3. /\ ClearPending(p, k) /\ att' = [att EXCEPT ![k] = NoAtt]
          /\ trail' = [trail EXCEPT ![k].pubs = 0]
          /\ UNCHANGED <<cloudVars, applied, fails, hold, devVars, faults>>
      BY <1>2 DEF PassCancel, DropFailed
    <2>4. trail' = [j \in Sends |-> IF j \in {k} THEN [trail[j] EXCEPT !.pubs = 0] ELSE trail[j]]
      BY <1>1, <2>1, <2>3 DEF HistoryTypeOK
    <2>5. /\ trail' \in [Sends -> TrailRecords]
          /\ \A j \in Sends : /\ trail'[j].lost = trail[j].lost
                              /\ j \in {k} => trail'[j].pubs = 0
                              /\ j \notin {k} => trail'[j] = trail[j]
      BY <1>1, <2>4, TrailReset
    <2>6. att' \in [Sends -> AttRecords] /\ \A j \in Sends \ {k} : att'[j] = att[j]
      BY <1>1, <2>1, <2>3, FixedRecordTypes DEF SpoolTypeOK
    <2>7. CloudTypeOK' /\ SpoolTypeOK' /\ MemTypeOK' /\ DevTypeOK' /\ HistoryTypeOK'
      BY <1>1, <2>1, <2>3, <2>5, <2>6, ClearPendingType
         DEF CloudTypeOK, SpoolTypeOK, MemTypeOK, DevTypeOK, HistoryTypeOK, cloudVars, devVars
    <2>8. row' = row
      BY <2>3 DEF cloudVars
    <2> QED BY <1>1, <2>1, <2>2, <2>5, <2>6, <2>7, <2>8, SettleInv DEF Moved
  <1>3. ASSUME LatchFailure(p) PROVE IInv'
    <2>1. k \in Sends /\ k # None /\ PrinterOf[k] = p /\ trail[k].pubs = 0
      BY <1>3, ConstFacts DEF IInv, OwnSends, CopyCharged, TypeOK, JobTypeOK, JobRecords,
         LatchFailure
    <2>2. JobTypeOK' /\ Moved(p, "sweep")
      BY <1>1, <1>3, GotoJob DEF LatchFailure, Steps
    <2>3. att' = [att EXCEPT ![k] = Latched] /\ trail' = trail /\ row' = row
      BY <1>3 DEF LatchFailure, cloudVars
    <2>4. att' \in [Sends -> AttRecords] /\ \A j \in Sends \ {k} : att'[j] = att[j]
      BY <1>1, <2>1, <2>3, FixedRecordTypes DEF SpoolTypeOK
    <2>5. MemTypeOK'
      BY <1>1, <1>3, <2>1, ConstFacts DEF LatchFailure, MemTypeOK, NoFails
    <2>6. CloudTypeOK' /\ SpoolTypeOK' /\ DevTypeOK' /\ HistoryTypeOK'
      BY <1>1, <1>3, <2>4 DEF LatchFailure, CloudTypeOK, SpoolTypeOK, DevTypeOK,
         HistoryTypeOK, cloudVars, devVars
    <2> QED BY <1>1, <2>1, <2>2, <2>3, <2>4, <2>5, <2>6, SettleInv DEF Moved
  <1>4. ASSUME Sweep(p) PROVE IInv'
    <2> DEFINE gone == SendsOf(p) \ {k}
    <2>1. NoJob \in JobRecords /\ NoJob.pc = "idle" /\ NoJob.send = None
      BY FixedRecordTypes, ConstFacts DEF NoJob, JobRecords, Steps, LongSteps
    <2>2. JobTypeOK' /\ job'[p] = NoJob /\ \A q \in Printers \ {p} : job'[q] = job[q]
      BY <1>1, <1>4, <2>1 DEF Sweep, JobTypeOK
    <2>3. trail' = [j \in Sends |-> IF j \in gone THEN [trail[j] EXCEPT !.pubs = 0] ELSE trail[j]]
      BY <1>4 DEF Sweep
    <2>4. /\ trail' \in [Sends -> TrailRecords]
          /\ \A j \in Sends : /\ trail'[j].lost = trail[j].lost
                              /\ j \in gone => trail'[j].pubs = 0
                              /\ j \notin gone => trail'[j] = trail[j]
      BY <1>1, <2>3, TrailReset
    <2>5. /\ att' \in [Sends -> AttRecords]
          /\ \A j \in Sends : j \notin gone => att'[j] = att[j]
      BY <1>1, <1>4, FixedRecordTypes DEF Sweep, SpoolTypeOK
    <2>6. /\ marker' \in [Sends -> [confirmed : BOOLEAN, age : Ages] \cup {None}]
          /\ file' \in [Sends -> 0 .. MaxVer]
      BY <1>1, <1>4, ConstFacts DEF Sweep, SpoolTypeOK
    <2>7. /\ started' \subseteq Sends
          /\ fails' \in [Sends -> [n : 0 .. SetupLimit, age : Ages]]
          /\ hold' \in [Sends -> (0 .. HoldCap) \cup {None}]
      BY <1>1, <1>4, ConstFacts DEF Sweep, MemTypeOK, NoFails
    <2>8. UNCHANGED <<cloudVars, asg, applied, devVars, faults>>
      BY <1>4 DEF Sweep
    <2>9. CloudTypeOK' /\ SpoolTypeOK' /\ MemTypeOK' /\ DevTypeOK' /\ HistoryTypeOK'
      BY <1>1, <2>4, <2>5, <2>6, <2>7, <2>8
         DEF CloudTypeOK, SpoolTypeOK, MemTypeOK, DevTypeOK, HistoryTypeOK, cloudVars, devVars
    <2>10. \A j \in Sends : j \in gone => PrinterOf[j] = p
      BY DEF SendsOf
    <2>11. row' = row
      BY <2>8 DEF cloudVars
    <2> HIDE DEF gone
    <2> QED BY <1>1, <2>1, <2>2, <2>4, <2>5, <2>9, <2>10, <2>11, SettleInv
  <1> QED BY <1>2, <1>3, <1>4


-----------------------------------------------------------------------------
(* The cloud, the report loop, the printer and time.                       *)

\* A step that moves no pass, saves no record and counts no start.
LEMMA OutsideInv ==
    ASSUME IInv, CloudTypeOK', SpoolTypeOK', DevTypeOK', HistoryTypeOK',
           UNCHANGED <<att, memVars, job>>,
           \A q \in Printers : row'[q].send # None => PrinterOf[row'[q].send] = q,
           \A k \in Sends : trail'[k].pubs = trail[k].pubs /\ trail'[k].lost = trail[k].lost
    PROVE  IInv'
  <1>1. TypeOK'
    BY DEF IInv, TypeOK, MemTypeOK, JobTypeOK, memVars
  <1>2. OwnSends' /\ CopyCharged' /\ StartsCharged'
    BY BudgetFrame
  <1> QED BY <1>1, <1>2 DEF IInv

LEMMA CloudSteps ==
    ASSUME IInv, NEW p \in Printers,
           \/ \E k \in Sends : CloudQueue(p, k)
           \/ CloudDrop(p)
           \/ \E ctl \in {"none", "stop", "busy"} : CloudControl(p, ctl)
    PROVE  IInv'
  <1>1. CloudTypeOK /\ SpoolTypeOK /\ DevTypeOK /\ HistoryTypeOK
    BY DEF IInv, TypeOK
  <1>2. ASSUME NEW k \in Sends, CloudQueue(p, k) PROVE IInv'
    <2>1. ver' \in [Sends -> 0 .. MaxVer]
      <3>1. ver[k] + 1 \in 0 .. MaxVer
        BY <1>1, <1>2, ConstFacts DEF CloudQueue, CloudTypeOK
      <3> QED BY <1>1, <1>2, <3>1 DEF CloudQueue, CloudTypeOK
    <2>2. CloudTypeOK' /\ SpoolTypeOK' /\ DevTypeOK' /\ HistoryTypeOK'
      BY <1>1, <1>2, <2>1 DEF CloudQueue, CloudTypeOK, SpoolTypeOK, DevTypeOK, HistoryTypeOK,
         spoolVars, devVars
    <2>3. \A q \in Printers : row'[q].send # None => PrinterOf[row'[q].send] = q
      BY <1>1, <1>2 DEF CloudQueue, CloudTypeOK, IInv, OwnSends
    <2> QED BY <1>2, <2>2, <2>3, OutsideInv DEF CloudQueue, spoolVars
  <1>3. ASSUME CloudDrop(p) PROVE IInv'
    <2> DEFINE k == row[p].send
               new == [trail[k] EXCEPT !.reported = FALSE, !.halted = "no"]
    <2>1. k \in Sends
      BY <1>1, <1>3 DEF CloudDrop, CloudTypeOK
    <2>2. new \in TrailRecords /\ new.pubs = trail[k].pubs /\ new.lost = trail[k].lost
      <3>1. trail[k] \in TrailRecords
        BY <1>1, <2>1 DEF HistoryTypeOK
      <3> QED BY <3>1 DEF TrailRecords
    <2>3. trail' = [trail EXCEPT ![k] = new]
      BY <1>3 DEF CloudDrop
    <2> HIDE DEF new
    <2>4. /\ trail' \in [Sends -> TrailRecords]
          /\ \A j \in Sends : trail'[j].pubs = trail[j].pubs /\ trail'[j].lost = trail[j].lost
      BY <1>1, <2>1, <2>2, <2>3 DEF HistoryTypeOK
    <2>5. CloudTypeOK' /\ SpoolTypeOK' /\ DevTypeOK' /\ HistoryTypeOK'
      BY <1>1, <1>3, <2>4 DEF CloudDrop, CloudTypeOK, SpoolTypeOK, DevTypeOK, HistoryTypeOK,
         NoRow, devVars
    <2>6. \A q \in Printers : row'[q].send # None => PrinterOf[row'[q].send] = q
      BY <1>1, <1>3 DEF CloudDrop, CloudTypeOK, NoRow, IInv, OwnSends
    <2> QED BY <1>3, <2>4, <2>5, <2>6, OutsideInv DEF CloudDrop
  <1>4. ASSUME NEW ctl \in {"none", "stop", "busy"}, CloudControl(p, ctl) PROVE IInv'
    <2>1. /\ CloudTypeOK'
          /\ \A q \in Printers : row'[q].send = row[q].send
      BY <1>1, <1>4 DEF CloudControl, CloudTypeOK
    <2>2. SpoolTypeOK' /\ DevTypeOK' /\ HistoryTypeOK'
      BY <1>1, <1>4 DEF CloudControl, SpoolTypeOK, DevTypeOK, HistoryTypeOK, spoolVars, devVars
    <2>3. \A q \in Printers : row'[q].send # None => PrinterOf[row'[q].send] = q
      BY <2>1 DEF IInv, OwnSends
    <2> QED BY <1>4, <2>1, <2>2, <2>3, OutsideInv DEF CloudControl, spoolVars
  <1> QED BY <1>2, <1>3, <1>4

LEMMA PrinterSteps ==
    ASSUME IInv, NEW p \in Printers, PrinterStep(p)
    PROVE  IInv'
  <1>1. CloudTypeOK /\ SpoolTypeOK /\ DevTypeOK /\ HistoryTypeOK
    BY DEF IInv, TypeOK
  <1>2. ASSUME NEW new \in DevRecords, dev' = [dev EXCEPT ![p] = new],
               UNCHANGED <<cloudVars, spoolVars, memVars, job, card, faults>>,
               trail' \in [Sends -> TrailRecords],
               \A k \in Sends : trail'[k].pubs = trail[k].pubs /\ trail'[k].lost = trail[k].lost
        PROVE  IInv'
    <2>1. CloudTypeOK' /\ SpoolTypeOK' /\ DevTypeOK' /\ HistoryTypeOK'
      BY <1>1, <1>2 DEF CloudTypeOK, SpoolTypeOK, DevTypeOK, HistoryTypeOK, cloudVars, spoolVars
    <2>2. \A q \in Printers : row'[q].send # None => PrinterOf[row'[q].send] = q
      BY <1>2 DEF IInv, OwnSends, cloudVars
    <2> QED BY <1>2, <2>1, <2>2, OutsideInv DEF spoolVars
  <1>3. dev[p] \in DevRecords /\ 0 \in Ages
    BY <1>1, ConstFacts DEF DevTypeOK
  <1>4. trail' = trail => /\ trail' \in [Sends -> TrailRecords]
                          /\ \A k \in Sends : /\ trail'[k].pubs = trail[k].pubs
                                              /\ trail'[k].lost = trail[k].lost
    BY <1>1 DEF HistoryTypeOK
  <1>5. ASSUME NEW view \in {"ready", "active"}, ReportView(p, view) PROVE IInv'
    <2> DEFINE k == dev[p].last
               new == [dev[p] EXCEPT !.quiet = 0, !.link = "live", !["view"] = view]
    <2>1. new \in DevRecords
      <3>1. \A d \in DevRecords :
              [d EXCEPT !.quiet = 0, !.link = "live", !["view"] = view] \in DevRecords
        BY <1>3 DEF DevRecords
      <3> QED BY <1>3, <3>1, Zenon
    <2>2. /\ dev' = [dev EXCEPT ![p] = new]
          /\ UNCHANGED <<cloudVars, spoolVars, memVars, job, card, faults>>
      BY <1>5 DEF ReportView, Heard
    <2> HIDE DEF new
    <2>3. CASE trail' = trail
      BY <1>2, <1>4, <2>1, <2>2, <2>3
    <2>4. CASE k # None /\ trail' = [trail EXCEPT ![k].ran = TRUE]
      <3>1. k \in Sends
        BY <1>3, <2>4 DEF DevRecords
      <3>2. /\ trail' \in [Sends -> TrailRecords]
            /\ \A j \in Sends : trail'[j].pubs = trail[j].pubs /\ trail'[j].lost = trail[j].lost
        <4>1. trail \in [Sends -> TrailRecords]
          BY <1>1 DEF HistoryTypeOK
        <4>2. \A t \in TrailRecords :
                LET u == [t EXCEPT !.ran = TRUE]
                IN  u \in TrailRecords /\ u.pubs = t.pubs /\ u.lost = t.lost
          BY DEF TrailRecords
        <4>3. trail' = [trail EXCEPT ![k] = [trail[k] EXCEPT !.ran = TRUE]]
          BY <2>4
        <4> HIDE DEF k
        <4> QED BY <3>1, <4>1, <4>2, <4>3
      <3> QED BY <1>2, <2>1, <2>2, <3>2
    <2> QED BY <1>5, <2>3, <2>4 DEF ReportView
  <1>6. ASSUME ReportEcho(p) \/ ReportName(p) PROVE IInv'
    <2> DEFINE echo == [dev[p] EXCEPT !.quiet = 0, !.link = "live", !["echo"] = dev[p].sub]
               name == [dev[p] EXCEPT !.quiet = 0, !.link = "live", !["name"] = dev[p].last]
    <2>1. echo \in DevRecords /\ name \in DevRecords
      <3>1. dev[p].sub \in Nat /\ dev[p].last \in Sends \cup {None}
        BY <1>3 DEF DevRecords
      <3>2. \A d \in DevRecords, n \in Nat :
              [d EXCEPT !.quiet = 0, !.link = "live", !["echo"] = n] \in DevRecords
        BY <1>3 DEF DevRecords
      <3>3. \A d \in DevRecords, k \in Sends \cup {None} :
              [d EXCEPT !.quiet = 0, !.link = "live", !["name"] = k] \in DevRecords
        BY <1>3 DEF DevRecords
      <3> QED BY <1>3, <3>1, <3>2, <3>3, Zenon
    <2>2. /\ dev' = [dev EXCEPT ![p] = echo] \/ dev' = [dev EXCEPT ![p] = name]
          /\ UNCHANGED <<cloudVars, spoolVars, memVars, job, card, faults, trail>>
      BY <1>6 DEF ReportEcho, ReportName, Heard
    <2> HIDE DEF echo, name
    <2> QED BY <1>2, <1>4, <2>1, <2>2
  <1>7. ASSUME NEW flag \in {"tray", "parse", "rejects"}, ReportFlag(p, flag) PROVE IInv'
    <2> DEFINE new == [dev[p] EXCEPT !.quiet = 0, !.link = "live",
                                     !.bare = @ /\ flag # "tray", ![flag] = ~@]
    <2>1. new \in DevRecords
      <3>1. CASE flag = "tray"
        BY <1>3, <3>1, ZenonT(60) DEF DevRecords
      <3>2. CASE flag = "parse"
        BY <1>3, <3>2, ZenonT(60) DEF DevRecords
      <3>3. CASE flag = "rejects"
        BY <1>3, <3>3, ZenonT(60) DEF DevRecords
      <3> QED BY <3>1, <3>2, <3>3
    <2>2. dev' = [dev EXCEPT ![p] = new]
      BY <1>7, Zenon DEF ReportFlag
    <2>3. UNCHANGED <<cloudVars, spoolVars, memVars, job, card, faults, trail>>
      BY <1>7 DEF ReportFlag
    <2> HIDE DEF new
    <2> QED BY <1>2, <1>4, <2>1, <2>2, <2>3
  <1>8. ASSUME LinkDown(p) \/ LinkUp(p) PROVE IInv'
    <2> DEFINE lost == [dev[p] EXCEPT !.up = FALSE, !.link = "stale"]
               quiet == [dev[p] EXCEPT !.link = "stale"]
               gone == [dev[p] EXCEPT !.link = "offline", !.bare = FALSE]
               back == [dev[p] EXCEPT !.up = TRUE, !.link = "stale", !.quiet = 0]
    <2>1. /\ lost \in DevRecords /\ quiet \in DevRecords /\ gone \in DevRecords
          /\ back \in DevRecords
      BY <1>3 DEF DevRecords
    <2>2. /\ \/ dev' = [dev EXCEPT ![p] = lost] \/ dev' = [dev EXCEPT ![p] = quiet]
             \/ dev' = [dev EXCEPT ![p] = gone] \/ dev' = [dev EXCEPT ![p] = back]
          /\ UNCHANGED <<cloudVars, spoolVars, memVars, job, card, faults, trail>>
      BY <1>8 DEF LinkDown, LinkUp
    <2> HIDE DEF lost, quiet, gone, back
    <2> QED BY <1>2, <1>4, <2>1, <2>2
  <1>9. ASSUME AssignmentEnds(p) PROVE IInv'
    <2>1. CloudTypeOK' /\ SpoolTypeOK' /\ DevTypeOK' /\ HistoryTypeOK'
      BY <1>1, <1>9 DEF AssignmentEnds, CloudTypeOK, SpoolTypeOK, DevTypeOK, HistoryTypeOK,
         cloudVars, devVars
    <2>2. \A q \in Printers : row'[q].send # None => PrinterOf[row'[q].send] = q
      BY <1>9 DEF AssignmentEnds, IInv, OwnSends, cloudVars
    <2>3. UNCHANGED <<att, memVars, job, trail>>
      BY <1>9 DEF AssignmentEnds
    <2> QED BY <1>4, <2>1, <2>2, <2>3, OutsideInv
  <1>10. ASSUME AssignmentSeen(p) PROVE IInv'
    <2> DEFINE Rows == [send : Sends, active : BOOLEAN, att : AttRecords]
    <2>1. asg' \in [Printers -> Rows \cup {None}]
      <3>1. asg \in [Printers -> Rows \cup {None}] /\ asg[p] # None
        BY <1>1, <1>10 DEF SpoolTypeOK, AssignmentSeen
      <3>2. [asg[p] EXCEPT !.active = TRUE] \in Rows
        BY <3>1
      <3> HIDE DEF Rows
      <3> QED BY <1>10, <3>1, <3>2 DEF AssignmentSeen
    <2>2. CloudTypeOK' /\ SpoolTypeOK' /\ DevTypeOK' /\ HistoryTypeOK'
      BY <1>1, <1>10, <2>1 DEF AssignmentSeen, CloudTypeOK, SpoolTypeOK, DevTypeOK,
         HistoryTypeOK, cloudVars, devVars
    <2>3. \A q \in Printers : row'[q].send # None => PrinterOf[row'[q].send] = q
      BY <1>10 DEF AssignmentSeen, IInv, OwnSends, cloudVars
    <2>4. UNCHANGED <<att, memVars, job, trail>>
      BY <1>10 DEF AssignmentSeen
    <2> QED BY <1>4, <2>2, <2>3, <2>4, OutsideInv
  <1> QED BY <1>5, <1>6, <1>7, <1>8, <1>9, <1>10 DEF PrinterStep

\* Dropping the latches changes no charge: a latched record accounts for one
\* start, as an empty one does.
LEMMA ReleaseCharges ==
    ASSUME SpoolTypeOK, NEW live, att' = ReleaseSettled(live)
    PROVE  /\ att' \in [Sends -> AttRecords]
           /\ \A k \in Sends : Charge(att'[k]) = Charge(att[k])
  BY FixedRecordTypes DEF SpoolTypeOK, ReleaseSettled, FailureLatched, Charge

LEMMA SubmittedType ==
    ASSUME CloudTypeOK, NEW p \in Printers
    PROVE  /\ Submitted(p) \in JobRecords
           /\ Submitted(p).pc = "pass" /\ Submitted(p).send = row[p].send
  <1>1. NoJob \in JobRecords
    BY FixedRecordTypes, ConstFacts DEF NoJob, JobRecords, Steps, LongSteps
  <1>2. row[p].send = None \/ ver[row[p].send] \in 0 .. MaxVer
    BY DEF CloudTypeOK
  <1>3. /\ row[p].send \in Sends \cup {None}
        /\ row[p].ctl \in {"none", "stop", "busy"}
    BY DEF CloudTypeOK
  <1>4. (IF row[p].send = None THEN 0 ELSE ver[row[p].send]) \in 0 .. MaxVer
    BY <1>2, ConstFacts
  <1> QED BY <1>1, <1>3, <1>4 DEF Submitted, JobRecords, Steps, LongSteps

LEMMA ReportPassInv ==
    ASSUME IInv, ReportPass
    PROVE  IInv'
  <1> DEFINE stopped == {p \in Printers : row[p].ctl = "stop" /\ ~applied[p] /\ dev[p].up}
             live    == {row[p].send : p \in Printers} \ {None}
  <1>1. CloudTypeOK /\ SpoolTypeOK /\ MemTypeOK /\ JobTypeOK /\ DevTypeOK /\ HistoryTypeOK
    BY DEF IInv, TypeOK
  <1>2. /\ job' = [p \in Printers |->
                     IF job[p].pc = "idle" THEN Submitted(p)
                     ELSE IF p \in stopped /\ job[p].pc \in {"upload", "recopy"}
                     THEN [job[p] EXCEPT !.cancel = TRUE] ELSE job[p]]
        /\ att' = ReleaseSettled(live)
        /\ trail' = [k \in Sends |->
                       IF PrinterOf[k] \in stopped /\ row[PrinterOf[k]].send = k
                       THEN [trail[k] EXCEPT !.halted = "just"] ELSE trail[k]]
        /\ applied' = [p \in Printers |-> applied[p] \/ p \in stopped]
        /\ asg' = [p \in Printers |-> IF p \in stopped THEN None ELSE asg[p]]
    BY DEF ReportPass
  <1>3. UNCHANGED <<cloudVars, marker, file, memVars, devVars, faults>>
    BY DEF ReportPass
  <1> HIDE DEF stopped, live
  <1>4. att' \in [Sends -> AttRecords] /\ \A k \in Sends : Charge(att'[k]) = Charge(att[k])
    BY <1>1, <1>2, ReleaseCharges
  <1>5. /\ trail' \in [Sends -> TrailRecords]
        /\ \A k \in Sends : trail'[k].pubs = trail[k].pubs /\ trail'[k].lost = trail[k].lost
    <2>1. \A k \in Sends :
            /\ [trail[k] EXCEPT !.halted = "just"] \in TrailRecords
            /\ [trail[k] EXCEPT !.halted = "just"].pubs = trail[k].pubs
            /\ [trail[k] EXCEPT !.halted = "just"].lost = trail[k].lost
      BY <1>1 DEF HistoryTypeOK, TrailRecords
    <2> QED BY <1>1, <1>2, <2>1 DEF HistoryTypeOK
  <1>6. \A p \in Printers :
           \/ job[p].pc = "idle" /\ job'[p] = Submitted(p)
           \/ /\ job'[p] \in JobRecords
              /\ job'[p].pc = job[p].pc /\ job'[p].send = job[p].send
              /\ job'[p].rec = job[p].rec
    <2> SUFFICES ASSUME NEW p \in Printers, job[p].pc # "idle"
                 PROVE  /\ job'[p] \in JobRecords
                        /\ job'[p].pc = job[p].pc /\ job'[p].send = job[p].send
                        /\ job'[p].rec = job[p].rec
      BY <1>2
    <2>1. job'[p] = job[p] \/ job'[p] = [job[p] EXCEPT !.cancel = TRUE]
      BY <1>2
    <2>2. job[p] \in JobRecords
      BY <1>1 DEF JobTypeOK
    <2> QED BY <2>1, <2>2 DEF JobRecords
  <1>7. TypeOK'
    <2>1. job' = [p \in Printers |-> job'[p]] /\ \A p \in Printers : job'[p] \in JobRecords
      BY <1>1, <1>2, <1>6, SubmittedType
    <2>2. JobTypeOK'
      BY <2>1 DEF JobTypeOK
    <2>3. /\ applied' \in [Printers -> BOOLEAN]
          /\ asg' \in [Printers -> [send : Sends, active : BOOLEAN, att : AttRecords] \cup {None}]
      BY <1>1, <1>2 DEF SpoolTypeOK
    <2>4. CloudTypeOK' /\ SpoolTypeOK' /\ MemTypeOK' /\ DevTypeOK' /\ HistoryTypeOK'
      BY <1>1, <1>3, <1>4, <1>5, <2>3 DEF CloudTypeOK, SpoolTypeOK, MemTypeOK, DevTypeOK,
         HistoryTypeOK, cloudVars, memVars, devVars
    <2> QED BY <2>2, <2>4 DEF TypeOK
  <1>8. OwnSends'
    <2> SUFFICES ASSUME NEW p \in Printers
                 PROVE  /\ row'[p].send # None => PrinterOf[row'[p].send] = p
                        /\ job'[p].send # None => PrinterOf[job'[p].send] = p
                        /\ job'[p].pc \notin {"idle", "pass", "sweep"} => job'[p].send # None
      BY DEF OwnSends
    <2>1. row' = row
      BY <1>3 DEF cloudVars
    <2> QED BY <1>1, <1>6, <2>1, SubmittedType DEF IInv, OwnSends
  <1>9. CopyCharged'
    <2> SUFFICES ASSUME NEW p \in Printers
                 PROVE  /\ job'[p].pc \in Transfers =>
                              /\ job'[p].rec.kind = "full"
                              /\ job'[p].rec.attempts < MaxAttempts
                              /\ Charge(att'[job'[p].send]) <= job'[p].rec.attempts
                        /\ job'[p].pc = "latch" => trail'[job'[p].send].pubs = 0
      BY DEF CopyCharged, Transfers
    <2>1. job[p].pc \in Transfers \cup {"latch"} => job[p].send \in Sends
      BY DEF IInv, TypeOK, JobTypeOK, JobRecords, OwnSends, Transfers
    <2>2. CASE job[p].pc = "idle" /\ job'[p] = Submitted(p)
      BY <1>1, <2>2, SubmittedType DEF Transfers
    <2>3. CASE /\ job'[p].pc = job[p].pc /\ job'[p].send = job[p].send
               /\ job'[p].rec = job[p].rec
      BY <1>4, <1>5, <2>1, <2>3 DEF IInv, CopyCharged, Transfers
    <2> QED BY <1>6, <2>2, <2>3
  <1>10. StartsCharged'
    <2> SUFFICES ASSUME NEW k \in Sends
                 PROVE  trail'[k].pubs <= trail'[k].lost + Charge(att'[k])
                                          + (IF Resaving(k)' THEN 1 ELSE 0)
      BY DEF StartsCharged
    <2>1. Resaving(k)' = Resaving(k)
      BY <1>1, <1>6, ConstFacts, SubmittedType DEF Resaving
    <2> QED BY <1>4, <1>5, <2>1 DEF IInv, StartsCharged
  <1> QED BY <1>7, <1>8, <1>9, <1>10 DEF IInv

LEMMA ReportOutageInv ==
    ASSUME IInv, ReportOutage
    PROVE  IInv'
  <1>1. CloudTypeOK /\ SpoolTypeOK /\ MemTypeOK /\ JobTypeOK /\ DevTypeOK /\ HistoryTypeOK
    BY DEF IInv, TypeOK
  <1>2. att' \in [Sends -> AttRecords] /\ \A k \in Sends : Charge(att'[k]) = Charge(att[k])
    BY <1>1, ReleaseCharges DEF ReportOutage
  <1>3. faults' \in 0 .. MaxFaults
    BY <1>1, ConstFacts DEF ReportOutage, HistoryTypeOK
  <1>4. UNCHANGED <<cloudVars, marker, file, asg, applied, memVars, job, devVars, trail>>
    BY DEF ReportOutage
  <1>5. TypeOK'
    BY <1>1, <1>2, <1>3, <1>4 DEF TypeOK, CloudTypeOK, SpoolTypeOK, MemTypeOK, JobTypeOK,
       DevTypeOK, HistoryTypeOK, cloudVars, memVars, devVars
  <1>6. \A q \in Printers : row'[q].send # None => PrinterOf[row'[q].send] = q
    BY <1>4 DEF IInv, OwnSends, cloudVars
  <1>7. OwnSends' /\ CopyCharged' /\ StartsCharged'
    BY <1>2, <1>4, <1>6, BudgetFrame
  <1> QED BY <1>5, <1>7 DEF IInv

\* A crash loses every pass; a publish that was not charged yet is counted lost.
LEMMA CrashInv ==
    ASSUME IInv, Crash
    PROVE  IInv'
  <1>1. CloudTypeOK /\ SpoolTypeOK /\ MemTypeOK /\ JobTypeOK /\ DevTypeOK /\ HistoryTypeOK
    BY DEF IInv, TypeOK
  <1>2. UNCHANGED <<cloudVars, spoolVars, card>>
    BY DEF Crash
  <1>3. /\ started' \subseteq Sends
        /\ fails' \in [Sends -> [n : 0 .. SetupLimit, age : Ages]]
        /\ hold' \in [Sends -> (0 .. HoldCap) \cup {None}]
    <2>1. /\ started' = {} /\ fails' = [k \in Sends |-> NoFails]
          /\ hold' = [k \in Sends |-> None]
      BY DEF Crash
    <2>2. NoFails \in [n : 0 .. SetupLimit, age : Ages]
      BY ConstFacts DEF NoFails
    <2> QED BY <2>1, <2>2
  <1>4. /\ NoJob \in JobRecords /\ NoJob.pc = "idle" /\ NoJob.send = None
    <2>1. "idle" \in Steps
      BY DEF Steps, LongSteps
    <2> QED BY <2>1, FixedRecordTypes, ConstFacts DEF NoJob, JobRecords
  <1>5. job' = [p \in Printers |-> NoJob]
    BY DEF Crash
  <1>6. dev' \in [Printers -> DevRecords]
    <2>1. \A p \in Printers :
            [dev[p] EXCEPT !.up = FALSE, !.link = "offline", !.view = "ready",
                           !.bare = FALSE] \in DevRecords
      <3>1. \A d \in DevRecords :
              [d EXCEPT !.up = FALSE, !.link = "offline", !.view = "ready",
                        !.bare = FALSE] \in DevRecords
        BY DEF DevRecords
      <3>2. \A p \in Printers : dev[p] \in DevRecords
        BY <1>1 DEF DevTypeOK
      <3> QED BY <3>1, <3>2
    <2> QED BY <2>1 DEF Crash
  <1>7. faults' \in 0 .. MaxFaults
    <2>1. faults < MaxFaults /\ faults' = faults + 1
      BY DEF Crash
    <2> QED BY <1>1, <2>1, ConstFacts DEF HistoryTypeOK
  <1>8. \A k \in Sends :
           /\ trail'[k] \in TrailRecords
           /\ trail'[k].pubs = trail[k].pubs
           /\ trail'[k].lost = trail[k].lost + (IF Resaving(k) THEN 1 ELSE 0)
    <2> SUFFICES ASSUME NEW k \in Sends
                 PROVE  /\ trail'[k] \in TrailRecords
                        /\ trail'[k].pubs = trail[k].pubs
                        /\ trail'[k].lost = trail[k].lost + (IF Resaving(k) THEN 1 ELSE 0)
      OBVIOUS
    <2> DEFINE j == job[PrinterOf[k]]
               lost == IF j.pc = "resave" THEN trail[k].lost + 1 ELSE trail[k].lost
               torn == trail[k].torn \/ j.pc = "mark"
    <2>1. trail[k] \in TrailRecords
      BY <1>1 DEF HistoryTypeOK
    <2>2. trail'[k] = IF j.send # k THEN trail[k]
                      ELSE [trail[k] EXCEPT !.lost = lost, !.torn = torn]
      BY DEF Crash
    <2>3. /\ trail[k].lost \in Nat /\ lost \in Nat
          /\ lost = trail[k].lost + (IF j.pc = "resave" THEN 1 ELSE 0)
      BY <2>1 DEF TrailRecords
    <2>4. torn \in BOOLEAN
      OBVIOUS
    <2>5. Resaving(k) <=> j.pc = "resave" /\ j.send = k
      BY DEF Resaving
    <2> HIDE DEF j, lost, torn
    <2>6. CASE j.send = k
      <3>1. trail'[k] = [trail[k] EXCEPT !.lost = lost, !.torn = torn]
        BY <2>2, <2>6
      <3>2. /\ trail'[k] \in TrailRecords
            /\ trail'[k].pubs = trail[k].pubs /\ trail'[k].lost = lost
        BY <2>1, <2>3, <2>4, <3>1 DEF TrailRecords
      <3> QED BY <2>3, <2>5, <2>6, <3>2
    <2>7. CASE j.send # k
      BY <2>1, <2>2, <2>3, <2>5, <2>7
    <2> QED BY <2>6, <2>7
  <1>9. trail' \in [Sends -> TrailRecords]
    <2>1. trail' = [k \in Sends |-> trail'[k]]
      BY DEF Crash
    <2> QED BY <1>8, <2>1
  <1>10. TypeOK'
    BY <1>1, <1>2, <1>3, <1>4, <1>5, <1>6, <1>7, <1>9 DEF TypeOK, CloudTypeOK, SpoolTypeOK,
       MemTypeOK, JobTypeOK, DevTypeOK, HistoryTypeOK, cloudVars, spoolVars
  <1>11. OwnSends' /\ CopyCharged'
    BY <1>2, <1>4, <1>5 DEF IInv, OwnSends, CopyCharged, cloudVars
  <1>12. StartsCharged'
    <2> SUFFICES ASSUME NEW k \in Sends
                 PROVE  trail'[k].pubs <= trail'[k].lost + Charge(att'[k])
                                          + (IF Resaving(k)' THEN 1 ELSE 0)
      BY DEF StartsCharged
    <2>1. ~Resaving(k)'
      BY <1>4, <1>5, ConstFacts DEF Resaving
    <2>2. att' = att
      BY <1>2 DEF spoolVars
    <2>3. trail[k].lost \in Nat /\ Charge(att[k]) \in Nat
      BY <1>1, ChargeType, ConstFacts DEF HistoryTypeOK, TrailRecords, SpoolTypeOK
    <2>4. trail[k].pubs <= trail[k].lost + Charge(att[k]) + (IF Resaving(k) THEN 1 ELSE 0)
      BY DEF IInv, StartsCharged
    <2> QED BY <1>8, <2>1, <2>2, <2>3, <2>4
  <1> QED BY <1>10, <1>11, <1>12 DEF IInv

\* Time ages the clocks and moves nothing else.
LEMMA TickInv ==
    ASSUME IInv, Tick
    PROVE  IInv'
  <1>1. CloudTypeOK /\ SpoolTypeOK /\ MemTypeOK /\ JobTypeOK /\ DevTypeOK /\ HistoryTypeOK
    BY DEF IInv, TypeOK
  <1>2. UNCHANGED <<cloudVars, file, applied, started, card, faults>>
    BY DEF Tick
  <1>3. \A age \in Ages : Older(age, AgeCap) \in Ages
    BY OlderType, ConstFacts DEF Ages
  <1>4. marker' \in [Sends -> [confirmed : BOOLEAN, age : Ages] \cup {None}]
    <2>1. \A k \in Sends : marker[k] # None =>
            [marker[k] EXCEPT !.age = Older(marker[k].age, AgeCap)]
               \in [confirmed : BOOLEAN, age : Ages]
      BY <1>1, <1>3 DEF SpoolTypeOK
    <2> QED BY <2>1 DEF Tick
  <1>5. /\ att' \in [Sends -> AttRecords]
        /\ \A k \in Sends : Charge(att'[k]) = Charge(att[k])
    <2>1. att' = [k \in Sends |-> OlderAtt(att[k])]
      BY DEF Tick
    <2>2. \A k \in Sends : att[k] \in AttRecords
      BY <1>1 DEF SpoolTypeOK
    <2> QED BY <2>1, <2>2, OlderAttType DEF Charge
  <1>6. asg' \in [Printers -> [send : Sends, active : BOOLEAN, att : AttRecords] \cup {None}]
    <2>1. asg' = [p \in Printers |-> IF asg[p] = None THEN None
                                     ELSE [asg[p] EXCEPT !.att = OlderAtt(asg[p].att)]]
      BY DEF Tick
    <2>2. \A p \in Printers : asg[p] # None => OlderAtt(asg[p].att) \in AttRecords
      BY <1>1, OlderAttType DEF SpoolTypeOK
    <2> QED BY <1>1, <2>1, <2>2 DEF SpoolTypeOK
  <1>7. fails' \in [Sends -> [n : 0 .. SetupLimit, age : Ages]]
    <2>1. \A k \in Sends : [fails[k] EXCEPT !.age = Older(fails[k].age, AgeCap)]
                              \in [n : 0 .. SetupLimit, age : Ages]
      BY <1>1, <1>3 DEF MemTypeOK
    <2> QED BY <1>1, <2>1 DEF Tick, MemTypeOK
  <1>8. hold' \in [Sends -> (0 .. HoldCap) \cup {None}]
    <2>1. \A k \in Sends : Older(hold[k], HoldCap) \in (0 .. HoldCap) \cup {None}
      BY <1>1, OlderType, ConstFacts DEF MemTypeOK
    <2> QED BY <2>1 DEF Tick
  <1>9. \A p \in Printers : /\ job'[p] \in JobRecords
                            /\ job'[p].pc = job[p].pc /\ job'[p].send = job[p].send
                            /\ job'[p].rec.kind = job[p].rec.kind
                            /\ job'[p].rec.attempts = job[p].rec.attempts
    <2> SUFFICES ASSUME NEW p \in Printers
                 PROVE  /\ job'[p] \in JobRecords
                        /\ job'[p].pc = job[p].pc /\ job'[p].send = job[p].send
                        /\ job'[p].rec.kind = job[p].rec.kind
                        /\ job'[p].rec.attempts = job[p].rec.attempts
      OBVIOUS
    <2> DEFINE age == Older(job[p].age, AgeCap)
               rec == OlderAtt(job[p].rec)
    <2>1. job[p] \in JobRecords
      BY <1>1 DEF JobTypeOK
    <2>2. job'[p] = job[p] \/ job'[p] = [job[p] EXCEPT !.age = age, !.rec = rec]
      BY DEF Tick
    <2>3. age \in Ages
      BY <1>3, <2>1 DEF JobRecords
    <2>4. /\ rec \in AttRecords
          /\ rec.kind = job[p].rec.kind /\ rec.attempts = job[p].rec.attempts
      BY <2>1, OlderAttType DEF JobRecords
    <2> HIDE DEF age, rec
    <2> QED BY <2>1, <2>2, <2>3, <2>4 DEF JobRecords
  <1>10. job' \in [Printers -> JobRecords]
    <2>1. job' = [p \in Printers |-> job'[p]]
      BY DEF Tick
    <2> QED BY <1>9, <2>1
  <1>11. dev' \in [Printers -> DevRecords]
    <2>1. \A p \in Printers :
            [dev[p] EXCEPT !.quiet = Older(dev[p].quiet, AgeCap), !.bare = ~TrayPresent(p)]
               \in DevRecords
      <3> SUFFICES ASSUME NEW p \in Printers
                   PROVE  [dev[p] EXCEPT !.quiet = Older(dev[p].quiet, AgeCap),
                                         !.bare = ~TrayPresent(p)] \in DevRecords
        OBVIOUS
      <3> DEFINE bare == ~TrayPresent(p)
                 quiet == Older(dev[p].quiet, AgeCap)
      <3>1. dev[p] \in DevRecords
        BY <1>1 DEF DevTypeOK
      <3>2. bare \in BOOLEAN
        OBVIOUS
      <3>3. quiet \in Ages
        BY <1>3, <3>1 DEF DevRecords
      <3> HIDE DEF bare, quiet
      <3>4. [dev[p] EXCEPT !.quiet = quiet, !.bare = bare] \in DevRecords
        BY <3>1, <3>2, <3>3 DEF DevRecords
      <3> QED BY <3>4 DEF bare, quiet
    <2>2. dev' = [p \in Printers |-> [dev[p] EXCEPT !.quiet = Older(dev[p].quiet, AgeCap),
                                                    !.bare = ~TrayPresent(p)]]
      BY DEF Tick
    <2> QED BY <2>1, <2>2
  <1>12. /\ trail' \in [Sends -> TrailRecords]
         /\ \A k \in Sends : trail'[k].pubs = trail[k].pubs /\ trail'[k].lost = trail[k].lost
    <2> DEFINE new(k) == [trail[k] EXCEPT
                            !.since = Older(trail[k].since, AgeCap),
                            !.halted = IF trail[k].halted = "just" THEN "past"
                                       ELSE trail[k].halted]
    <2>1. trail' = [k \in Sends |-> new(k)]
      BY DEF Tick
    <2>2. \A k \in Sends : /\ new(k) \in TrailRecords
                           /\ new(k).pubs = trail[k].pubs /\ new(k).lost = trail[k].lost
      <3> SUFFICES ASSUME NEW k \in Sends
                   PROVE  /\ new(k) \in TrailRecords
                          /\ new(k).pubs = trail[k].pubs /\ new(k).lost = trail[k].lost
        OBVIOUS
      <3>1. trail[k] \in TrailRecords
        BY <1>1 DEF HistoryTypeOK
      <3>2. Older(trail[k].since, AgeCap) \in Ages
        BY <1>3, <3>1 DEF TrailRecords
      <3> QED BY <3>1, <3>2 DEF TrailRecords
    <2> HIDE DEF new
    <2> QED BY <2>1, <2>2
  <1>13. TypeOK'
    BY <1>1, <1>2, <1>4, <1>5, <1>6, <1>7, <1>8, <1>10, <1>11, <1>12 DEF TypeOK, CloudTypeOK,
       SpoolTypeOK, MemTypeOK, JobTypeOK, DevTypeOK, HistoryTypeOK, cloudVars
  <1>14. \A q \in Printers : row'[q].send # None => PrinterOf[row'[q].send] = q
    BY <1>2 DEF IInv, OwnSends, cloudVars
  <1>15. OwnSends' /\ CopyCharged' /\ StartsCharged'
    BY <1>5, <1>9, <1>12, <1>14, BudgetFrame
  <1> QED BY <1>13, <1>15 DEF IInv

-----------------------------------------------------------------------------
(* The theorems.                                                           *)

LEMMA InitInv == Init => IInv
  <1> SUFFICES ASSUME Init PROVE IInv
    OBVIOUS
  <1>1. NoJob \in JobRecords /\ NoJob.pc = "idle" /\ NoJob.send = None
    BY FixedRecordTypes, ConstFacts DEF NoJob, JobRecords, Steps, LongSteps
  <1>2. NewDev \in DevRecords
    BY ConstFacts DEF NewDev, DevRecords
  <1>3. NoTrail \in TrailRecords /\ NoTrail.pubs = 0 /\ NoTrail.lost = 0
    BY ConstFacts DEF NoTrail, TrailRecords
  <1>4. NoRow \in [send : Sends \cup {None}, ctl : {"none", "stop", "busy"}] /\ NoRow.send = None
    BY DEF NoRow
  <1>5. CloudTypeOK /\ SpoolTypeOK
    BY <1>4, FixedRecordTypes, ConstFacts DEF Init, CloudTypeOK, SpoolTypeOK
  <1>6. MemTypeOK /\ JobTypeOK
    BY <1>1, ConstFacts DEF Init, MemTypeOK, JobTypeOK, NoFails
  <1>7. DevTypeOK /\ HistoryTypeOK
    BY <1>2, <1>3, ConstFacts DEF Init, DevTypeOK, HistoryTypeOK
  <1>8. OwnSends /\ CopyCharged
    BY <1>1, <1>4 DEF Init, OwnSends, CopyCharged
  <1>9. StartsCharged
    <2>1. \A k \in Sends : trail[k].pubs = 0 /\ trail[k].lost = 0 /\ Charge(att[k]) = 1
      BY <1>3, FixedRecordTypes DEF Init, Charge
    <2> QED BY <2>1 DEF StartsCharged
  <1> QED BY <1>5, <1>6, <1>7, <1>8, <1>9 DEF IInv, TypeOK

LEMMA WorkerInv ==
    ASSUME IInv, NEW p \in Printers, Worker(p)
    PROVE  IInv'
  <1>1. CASE FreshStep(p)
    BY <1>1, WaitingSteps, FreshSteps, StartSteps, UploadCancelledInv, StartInv
       DEF FreshStep
  <1>2. CASE WatchdogStep(p)
    BY <1>2, WaitingSteps, WatchdogMoves, WatchdogSaves, SettleSteps, AdvanceRepublishInv,
       RecopyInv, RepublishStopsInv, RepublishInv, ResaveInv, ResaveFailsInv DEF WatchdogStep
  <1>3. CASE SettleStep(p)
    BY <1>3, WaitingSteps, WatchdogMoves, SettleSteps DEF SettleStep
  <1> QED BY <1>1, <1>2, <1>3 DEF Worker

LEMMA NextInv == IInv /\ [Next]_vars => IInv'
  <1> SUFFICES ASSUME IInv, [Next]_vars PROVE IInv'
    OBVIOUS
  <1>1. CASE ReportPass
    BY <1>1, ReportPassInv
  <1>2. CASE ReportOutage
    BY <1>2, ReportOutageInv
  <1>3. ASSUME NEW p \in Printers, Worker(p) \/ PrinterStep(p) \/ CloudStep(p)
        PROVE  IInv'
    BY <1>3, WorkerInv, PrinterSteps, CloudSteps DEF CloudStep
  <1>4. CASE Crash
    BY <1>4, CrashInv
  <1>5. CASE Tick
    BY <1>5, TickInv
  <1>6. CASE UNCHANGED vars
    BY <1>6 DEF vars, cloudVars, spoolVars, memVars, devVars, IInv, TypeOK, CloudTypeOK,
       SpoolTypeOK, MemTypeOK, JobTypeOK, DevTypeOK, HistoryTypeOK, OwnSends, CopyCharged,
       StartsCharged, Resaving
  <1> QED BY <1>1, <1>2, <1>3, <1>4, <1>5, <1>6 DEF Next

\* The inductive invariant holds in every behaviour.
THEOREM Invariant == Spec => []IInv
  BY InitInv, NextInv, PTL DEF Spec

\* Every variable keeps its type; in particular no attempt record ever counts
\* past MAX_ATTEMPTS, for any number of printers, sends and restarts.
THEOREM TypeCorrect == Spec => []TypeOK
  <1>1. IInv => TypeOK
    BY DEF IInv
  <1> QED BY <1>1, Invariant, PTL

\* One life of a send publishes its start at most MAX_ATTEMPTS times, and one
\* more for each crash between a publish and the write that charges it.
THEOREM Budget == Spec => []StartBudget
  <1>1. IInv => StartBudget
    <2> SUFFICES ASSUME IInv, NEW k \in Sends
                 PROVE  trail[k].pubs <= MaxAttempts + trail[k].lost
      BY DEF StartBudget
    <2>1. /\ trail[k].pubs \in Nat /\ trail[k].lost \in Nat
          /\ Charge(att[k]) \in 1 .. MaxAttempts
          /\ PrinterOf[k] \in Printers
      BY ChargeType, ConstFacts DEF IInv, TypeOK, HistoryTypeOK, TrailRecords, SpoolTypeOK
    <2>2. trail[k].pubs <= trail[k].lost + Charge(att[k]) + (IF Resaving(k) THEN 1 ELSE 0)
      BY DEF IInv, StartsCharged
    <2>3. Resaving(k) => Charge(att[k]) < MaxAttempts
      <3>1. Resaving(k) => /\ job[PrinterOf[k]].rec.attempts < MaxAttempts
                           /\ Charge(att[k]) <= job[PrinterOf[k]].rec.attempts
                           /\ job[PrinterOf[k]].rec.attempts \in Nat
        BY <2>1 DEF IInv, TypeOK, CopyCharged, Resaving, JobTypeOK, JobRecords, AttRecords
      <3> QED BY <2>1, <3>1, ConstFacts
    <2> QED BY <2>1, <2>2, <2>3, ConstFacts
  <1> QED BY <1>1, Invariant, PTL

-----------------------------------------------------------------------------
(* Starts: who publishes, and when a send may be started from scratch.     *)

Serving(k) == job[PrinterOf[k]].send = k

\* The bridge knows a start of k: by memory, marker or assignment.
Known(k) == SendKnown(PrinterOf[k], k)

BeforeStart == {"download", "upload", "auth", "start"}
AfterStart  ==
    {"assign", "remember", "advance", "confirm", "recopy", "republish", "resave"}

\* A send that was never queued, or queued behind the back of the pass that is
\* running, has left no trace yet.
Unseen(k) ==
    LET p == PrinterOf[k] IN
    /\ ver[k] = 0 => row[p].send # k /\ ~Serving(k)
    /\ \/ ver[k] = 0
       \/ row[p].send = k /\ job[p].pc # "idle" /\ ~Serving(k)
       => ~Known(k) /\ trail[k].pubs = 0

\* What is known of a send being served or asked for is on disk, and so is every
\* start but the one whose marker the pass, or a crash, has yet to account for.
OnDisk(k) ==
    LET p == PrinterOf[k] IN
    /\ (row[p].send = k \/ Serving(k)) /\ Known(k) => marker[k] # None
    /\ trail[k].pubs # 0 /\ ~trail[k].torn =>
          marker[k] # None \/ (Serving(k) /\ job[p].pc = "mark")

\* A pass goes by the marker that it saw when it began.
GoesByMarker(k) ==
    Serving(k) =>
       /\ job[PrinterOf[k]].pc \in BeforeStart => marker[k] = None
       /\ job[PrinterOf[k]].pc \in AfterStart => marker[k] # None

OnceInv == \A k \in Sends : Unseen(k) /\ OnDisk(k) /\ GoesByMarker(k)

\* A start is published by the pass that serves the send, in one of two steps.
LEMMA PublishedBy ==
    ASSUME IInv, [Next]_vars, NEW k \in Sends, Published(k)
    PROVE  /\ Serving(k)
           /\ Start(PrinterOf[k]) \/ Republish(PrinterOf[k])
  <1> DEFINE p == PrinterOf[k]
  <1>1. /\ p \in Printers /\ dev \in [Printers -> DevRecords]
        /\ dev'[p].sub # dev[p].sub /\ dev'[p].last = k
    BY ConstFacts DEF IInv, TypeOK, DevTypeOK, Published
  <1> HIDE DEF p
  <1>2. UNCHANGED dev => FALSE
    BY <1>1
  <1>3. ASSUME NEW q \in Printers, Worker(q)
        PROVE  q = p /\ Serving(k) /\ (Start(p) \/ Republish(p))
    <2>1. CASE Start(q) \/ Republish(q)
      <3>1. dev' = [dev EXCEPT ![q] = [dev[q] EXCEPT !.sub = @ + 1, !.last = job[q].send]]
        BY <2>1 DEF Start, Republish, Publish
      <3>2. q = p
        BY <1>1, <3>1
      <3>3. dev'[p].last = job[p].send
        BY <1>1, <3>1, <3>2 DEF DevRecords
      <3> QED BY <1>1, <2>1, <3>2, <3>3 DEF Serving, p
    <2>2. CASE AdvanceReset(q)
      <3>1. \/ UNCHANGED dev
            \/ dev' = [dev EXCEPT ![q] = [dev[q] EXCEPT !.up = FALSE, !.link = "stale"]]
        BY <2>2 DEF AdvanceReset
      <3>2. dev'[p].sub = dev[p].sub
        <4>1. \/ dev'[p] = dev[p]
              \/ dev'[p] = [dev[p] EXCEPT !.up = FALSE, !.link = "stale"]
          BY <1>1, <3>1
        <4>2. dev[p] \in DevRecords
          BY <1>1
        <4> QED BY <4>1, <4>2 DEF DevRecords
      <3> QED BY <1>1, <3>2
    <2>3. CASE FreshStep(q) /\ ~Start(q)
      BY <1>2, <2>3 DEF FreshStep, FreshWait, FreshRejected, FreshReady, Download,
         DownloadFails, BadPlate, UploadSkipped, Upload, UploadFails, UploadCancelled,
         AuthorizeRefused, AuthorizeOutage, Authorize, StartNotSent, MarkStarted,
         RecordAssignment, RememberAttempt, devVars
    <2>4. CASE WatchdogStep(q) /\ ~Republish(q) /\ ~AdvanceReset(q)
      BY <1>2, <2>4 DEF WatchdogStep, PassNothing, PassCancel, PassKnown, AdvanceDispatched,
         AdvanceConfirm, MarkConfirmed, AdvanceEnterB, AdvanceWait, AdvanceRepublish,
         AdvanceFail, Recopy, RepublishHeld, RepublishNotSent, ResaveAttempt, ResaveFails,
         devVars
    <2>5. CASE SettleStep(q)
      BY <1>2, <2>5 DEF SettleStep, FailNotAcked, FailAcked, DropFailed, LatchFailure, Sweep,
         devVars
    <2> QED BY <1>3, <2>1, <2>2, <2>3, <2>4, <2>5 DEF Worker
  <1>4. ASSUME NEW q \in Printers, PrinterStep(q) PROVE FALSE
    <2>1. ASSUME NEW field \in {"view", "echo", "name"}, NEW value, Heard(q, field, value)
          PROVE  FALSE
      <3>1. dev' = [dev EXCEPT ![q] = [dev[q] EXCEPT !.quiet = 0, !.link = "live",
                                                     ![field] = value]]
        BY <2>1 DEF Heard
      <3> QED BY <1>1, <2>1, <3>1 DEF DevRecords
    <2>2. ASSUME NEW flag \in {"tray", "parse", "rejects"}, ReportFlag(q, flag) PROVE FALSE
      <3>1. dev' = [dev EXCEPT ![q] = [dev[q] EXCEPT !.quiet = 0, !.link = "live",
                                          !.bare = @ /\ flag # "tray", ![flag] = ~@]]
        BY <2>2, Zenon DEF ReportFlag
      <3> QED BY <1>1, <2>2, <3>1 DEF DevRecords
    <2>3. CASE LinkDown(q) \/ LinkUp(q)
      BY <1>1, <2>3 DEF LinkDown, LinkUp, DevRecords
    <2>4. CASE AssignmentSeen(q) \/ AssignmentEnds(q)
      BY <1>2, <2>4 DEF AssignmentSeen, AssignmentEnds, devVars
    <2> QED BY <1>4, <2>1, <2>2, <2>3, <2>4 DEF PrinterStep, ReportView, ReportEcho, ReportName
  <1>5. ASSUME NEW q \in Printers, CloudStep(q) PROVE FALSE
    BY <1>2, <1>5 DEF CloudStep, CloudQueue, CloudDrop, CloudControl, devVars
  <1>6. ReportPass \/ ReportOutage => FALSE
    BY <1>2 DEF ReportPass, ReportOutage, devVars
  <1>7. Crash => FALSE
    <2> SUFFICES ASSUME Crash PROVE FALSE
      OBVIOUS
    <2>1. dev'[p] = [dev[p] EXCEPT !.up = FALSE, !.link = "offline", !.view = "ready",
                                   !.bare = FALSE]
      BY <1>1 DEF Crash
    <2> QED BY <1>1, <2>1 DEF DevRecords
  <1>8. Tick => FALSE
    <2> SUFFICES ASSUME Tick PROVE FALSE
      OBVIOUS
    <2>1. dev'[p] = [dev[p] EXCEPT !.quiet = Older(dev[p].quiet, AgeCap),
                                   !.bare = ~TrayPresent(p)]
      BY <1>1 DEF Tick
    <2> QED BY <1>1, <2>1 DEF DevRecords
  <1>9. UNCHANGED vars => FALSE
    BY <1>2 DEF vars, devVars
  <1> QED BY <1>3, <1>4, <1>5, <1>6, <1>7, <1>8, <1>9 DEF Next, p

\* A send that p's pass is not about keeps what the invariant says of it, as long
\* as nothing new is known of it.
LEMMA OthersOnce ==
    ASSUME IInv, OnceInv, NEW p \in Printers, job[p].pc # "idle",
           \A q \in Printers \ {p} : job'[q] = job[q],
           job'[p].send \in {job[p].send, None},
           UNCHANGED cloudVars,
           NEW k \in Sends, k # job[p].send,
           marker'[k] = None <=> marker[k] = None,
           Known(k)' => Known(k),
           trail'[k].pubs = trail[k].pubs, trail'[k].torn = trail[k].torn
    PROVE  (Unseen(k) /\ OnDisk(k) /\ GoesByMarker(k))'
  <1>1. PrinterOf[k] \in Printers /\ k # None
    BY ConstFacts
  <1>2. Unseen(k) /\ OnDisk(k) /\ GoesByMarker(k)
    BY DEF OnceInv
  <1>3. row' = row /\ ver' = ver
    BY DEF cloudVars
  <1>4. CASE PrinterOf[k] = p
    BY <1>1, <1>2, <1>3, <1>4 DEF Unseen, OnDisk, GoesByMarker, Serving
  <1>5. CASE PrinterOf[k] # p
    BY <1>1, <1>2, <1>3, <1>5 DEF Unseen, OnDisk, GoesByMarker, Serving
  <1> QED BY <1>4, <1>5

\* A step of p's pass that starts nothing and drops nothing.
LEMMA MovesOnce ==
    ASSUME IInv, OnceInv, NEW p \in Printers, job[p].pc \notin {"idle", "mark"},
           NEW pc, Moved(p, pc), UNCHANGED cloudVars,
           \A k \in Sends : /\ marker'[k] = None <=> marker[k] = None
                            /\ Known(k)' => Known(k)
                            /\ trail'[k].pubs = trail[k].pubs
                            /\ trail'[k].torn = trail[k].torn,
           pc \in BeforeStart => marker[job[p].send] = None,
           pc \in AfterStart => marker[job[p].send] # None
    PROVE  OnceInv'
  <1>1. ASSUME NEW k \in Sends, k # job[p].send
        PROVE  (Unseen(k) /\ OnDisk(k) /\ GoesByMarker(k))'
    BY <1>1, OthersOnce DEF Moved
  <1>2. ASSUME NEW k \in Sends, k = job[p].send
        PROVE  (Unseen(k) /\ OnDisk(k) /\ GoesByMarker(k))'
    <2>1. PrinterOf[k] = p /\ k # None
      BY <1>2, ConstFacts DEF IInv, OwnSends
    <2>2. Unseen(k) /\ OnDisk(k) /\ GoesByMarker(k)
      BY DEF OnceInv
    <2>3. row' = row /\ ver' = ver /\ job'[p].pc = pc /\ job'[p].send = k
      BY <1>2 DEF cloudVars, Moved
    <2>4. Serving(k) /\ Serving(k)'
      BY <1>2, <2>1, <2>3 DEF Serving
    <2>5. Unseen(k)'
      BY <2>1, <2>2, <2>3, <2>4 DEF Unseen
    <2>6. OnDisk(k)'
      BY <2>1, <2>2, <2>3, <2>4 DEF OnDisk
    <2>7. GoesByMarker(k)'
      BY <1>2, <2>1, <2>3, <2>4 DEF GoesByMarker
    <2> QED BY <2>5, <2>6, <2>7
  <1> QED BY <1>1, <1>2 DEF OnceInv

\* The steps that touch neither marker, assignment nor memory.
LEMMA QuietOnce ==
    ASSUME IInv, OnceInv, NEW p \in Printers,
           \/ FreshWait(p) \/ FreshRejected(p) \/ FreshReady(p)
           \/ Download(p) \/ DownloadFails(p) \/ BadPlate(p)
           \/ UploadSkipped(p) \/ Upload(p) \/ UploadFails(p)
           \/ AuthorizeRefused(p) \/ AuthorizeOutage(p) \/ Authorize(p) \/ StartNotSent(p)
           \/ PassNothing(p) \/ AdvanceDispatched(p) \/ AdvanceWait(p) \/ AdvanceFail(p)
           \/ AdvanceRepublish(p) \/ Recopy(p)
           \/ FailNotAcked(p) \/ LatchFailure(p)
    PROVE  OnceInv'
  <1> DEFINE k == job[p].send
  <1>1. UNCHANGED <<cloudVars, marker, asg, started, trail>>
    <2>1. CASE \/ FreshWait(p) \/ FreshRejected(p) \/ FreshReady(p) \/ Download(p)
               \/ DownloadFails(p) \/ BadPlate(p) \/ UploadSkipped(p)
      BY <2>1 DEF spoolVars, memVars, FreshWait, FreshRejected, FreshReady, Download,
         DownloadFails, BadPlate, UploadSkipped
    <2>2. CASE \/ Upload(p) \/ UploadFails(p) \/ AuthorizeRefused(p) \/ AuthorizeOutage(p)
               \/ Authorize(p) \/ StartNotSent(p) \/ PassNothing(p)
      BY <2>2 DEF spoolVars, memVars, Upload, UploadFails, AuthorizeRefused, AuthorizeOutage,
         Authorize, StartNotSent, PassNothing
    <2>3. CASE \/ AdvanceDispatched(p) \/ AdvanceWait(p) \/ AdvanceFail(p) \/ Recopy(p)
               \/ FailNotAcked(p) \/ LatchFailure(p)
      BY <2>3 DEF spoolVars, memVars, AdvanceDispatched, AdvanceWait, AdvanceFail, Recopy,
         FailNotAcked, LatchFailure
    <2>4. CASE AdvanceRepublish(p)
      BY <2>4 DEF spoolVars, memVars, AdvanceRepublish
    <2> QED BY <2>1, <2>2, <2>3, <2>4
  <1>2. \A j \in Sends : /\ marker'[j] = None <=> marker[j] = None
                         /\ Known(j)' => Known(j)
                         /\ trail'[j].pubs = trail[j].pubs
                         /\ trail'[j].torn = trail[j].torn
    BY <1>1 DEF Known, SendKnown, AssignmentMatches
  <1>3. JobTypeOK
    BY DEF IInv, TypeOK
  <1>4. job[p].pc \notin {"idle", "pass", "sweep"} => k \in Sends
    BY <1>3, ConstFacts DEF IInv, OwnSends, JobTypeOK, JobRecords
  <1>5. k \in Sends =>
           /\ job[p].pc \in BeforeStart => marker[k] = None
           /\ job[p].pc \in AfterStart => marker[k] # None
    BY ConstFacts DEF OnceInv, GoesByMarker, Serving, IInv, OwnSends
  <1>6. ASSUME NEW pc \in {"sweep", "fail", "download", "upload", "auth", "start", "recopy",
                          "republish"},
               Moved(p, pc), job[p].pc \notin {"idle", "mark"},
               pc \in BeforeStart => marker[k] = None,
               pc \in AfterStart => marker[k] # None
        PROVE  OnceInv'
    BY <1>1, <1>2, <1>6, MovesOnce
  <1>7. CASE \/ FreshWait(p) \/ FreshRejected(p) \/ DownloadFails(p) \/ AuthorizeRefused(p)
             \/ AuthorizeOutage(p) \/ PassNothing(p) \/ AdvanceDispatched(p) \/ AdvanceWait(p)
             \/ AdvanceFail(p) \/ FailNotAcked(p) \/ LatchFailure(p) \/ BadPlate(p)
    <2>1. Goto(p, "sweep") \/ GoFail(p, "other")
      BY <1>7 DEF FreshWait, FreshRejected, DownloadFails, BadPlate, AuthorizeRefused,
         AuthorizeOutage, PassNothing, AdvanceDispatched, AdvanceWait, AdvanceFail, FailNotAcked,
         LatchFailure
    <2>2. Moved(p, "sweep") \/ Moved(p, "fail")
      BY <1>3, <2>1, GotoJob, GoFailJob DEF Steps
    <2>3. job[p].pc \notin {"idle", "mark"}
      BY <1>7 DEF FreshWait, FreshRejected, DownloadFails, BadPlate, AuthorizeRefused,
         AuthorizeOutage, PassNothing, AdvanceDispatched, AdvanceWait, AdvanceFail, Advancing,
         FailNotAcked, LatchFailure
    <2> QED BY <1>6, <2>2, <2>3 DEF BeforeStart, AfterStart
  <1>8. CASE FreshReady(p) \/ Authorize(p)
    <2>1. k \in Sends
      BY <1>3, <1>4, <1>8 DEF FreshReady, Authorize, JobTypeOK, JobRecords
    <2>2. marker[k] = None
      BY <1>5, <1>8, <2>1 DEF FreshReady, Authorize, SendKnown, BeforeStart
    <2>3. \E pc \in {"sweep", "fail", "download", "start"} : Moved(p, pc)
      BY <1>3, <1>8, <2>1, GotoJob, SlotHeldMoves DEF FreshReady, Authorize, Steps, LongSteps
    <2>4. job[p].pc \notin {"idle", "mark"}
      BY <1>8 DEF FreshReady, Authorize
    <2> QED BY <1>6, <2>2, <2>3, <2>4 DEF BeforeStart, AfterStart
  <1>9. CASE Download(p) \/ UploadSkipped(p) \/ Upload(p)
    <2>1. job[p].pc \in {"download", "upload"}
      BY <1>9 DEF Download, UploadSkipped, Upload
    <2>2. marker[k] = None
      BY <1>4, <1>5, <2>1 DEF BeforeStart
    <2>3. Moved(p, "upload") \/ Moved(p, "auth")
      BY <1>3, <1>9, GotoJob, AuthJob DEF Download, UploadSkipped, Upload, Steps, LongSteps
    <2> QED BY <1>6, <2>1, <2>2, <2>3 DEF BeforeStart, AfterStart
  <1>10. CASE UploadFails(p) \/ StartNotSent(p)
    <2>1. job[p].pc \in {"upload", "start"}
      BY <1>10 DEF UploadFails, StartNotSent
    <2>2. Moved(p, "sweep") \/ Moved(p, "fail")
      BY <1>4, <1>10, <2>1, CountSetupFailureMoves DEF UploadFails, StartNotSent
    <2> QED BY <1>6, <2>1, <2>2 DEF BeforeStart, AfterStart
  <1>11. CASE Recopy(p)
    <2>1. job[p].pc = "recopy" /\ marker[k] # None
      BY <1>4, <1>5, <1>11 DEF Recopy, AfterStart
    <2>2. Moved(p, "republish")
      <3>1. job' = [job EXCEPT ![p] = [job[p] EXCEPT !.pc = "republish", !.cancel = FALSE]]
        BY <1>11 DEF Recopy
      <3>2. \A j \in JobRecords : LET new == [j EXCEPT !.pc = "republish", !.cancel = FALSE]
                                  IN  new.pc = "republish" /\ new.send = j.send
        BY DEF JobRecords
      <3>3. job'[p].pc = "republish" /\ job'[p].send = k
        BY <1>3, <3>1, <3>2 DEF JobTypeOK
      <3>4. \A q \in Printers \ {p} : job'[q] = job[q]
        BY <1>3, <3>1 DEF JobTypeOK
      <3> QED BY <3>3, <3>4 DEF Moved
    <2> QED BY <1>6, <2>1, <2>2 DEF BeforeStart, AfterStart
  <1>12. CASE AdvanceRepublish(p)
    <2>1. job[p].pc = "advance" /\ marker[k] # None
      BY <1>4, <1>5, <1>12 DEF AdvanceRepublish, Advancing, AfterStart
    <2>2. PICK verdict \in {"republish", "retry"} :
             \/ Goto(p, "sweep")
             \/ job' = [job EXCEPT ![p] = RecopyOf(job[p], verdict = "retry", TrayPresent(p),
                                            dev[p].parse /\ Readable(p), LoadAttempt(p, k))]
      BY <1>12 DEF AdvanceRepublish, RecopyOf
    <2>3. CASE Goto(p, "sweep")
      <3>1. Moved(p, "sweep")
        BY <1>3, <2>3, GotoJob DEF Steps
      <3> QED BY <1>6, <2>1, <3>1 DEF BeforeStart, AfterStart
    <2>4. CASE job' = [job EXCEPT ![p] = RecopyOf(job[p], verdict = "retry", TrayPresent(p),
                                           dev[p].parse /\ Readable(p), LoadAttempt(p, k))]
      <3>1. \A retry, tray, parse, rec : \A j \in JobRecords :
              /\ RecopyOf(j, retry, tray, parse, rec).pc = "recopy"
              /\ RecopyOf(j, retry, tray, parse, rec).send = j.send
        BY DEF RecopyOf, JobRecords
      <3>2. job'[p].pc = "recopy" /\ job'[p].send = k
        BY <1>3, <2>4, <3>1 DEF JobTypeOK
      <3>3. \A q \in Printers \ {p} : job'[q] = job[q]
        BY <1>3, <2>4 DEF JobTypeOK
      <3>4. Moved(p, "recopy")
        BY <3>2, <3>3 DEF Moved
      <3> QED BY <1>6, <2>1, <3>4 DEF BeforeStart, AfterStart
    <2> QED BY <2>2, <2>3, <2>4
  <1> QED BY <1>7, <1>8, <1>9, <1>10, <1>11, <1>12

LEMMA MarkerPresent ==
    /\ [confirmed |-> TRUE, age |-> 0] # None
    /\ [confirmed |-> FALSE, age |-> 0] # None
  <1>1. /\ [confirmed |-> TRUE, age |-> 0] \in [confirmed : BOOLEAN, age : Ages]
        /\ [confirmed |-> FALSE, age |-> 0] \in [confirmed : BOOLEAN, age : Ages]
    BY ConstFacts
  <1> QED BY <1>1, AbsentAssumption

\* Writing a record makes no send known that was not.
LEMMA SavedKnown ==
    ASSUME IInv, NEW p \in Printers, UNCHANGED <<marker, started>>,
           NEW rec, SaveAttempt(p, job[p].send, rec) \/ UNCHANGED asg
    PROVE  \A k \in Sends : Known(k)' => Known(k)
  <1>1. asg \in [Printers -> [send : Sends, active : BOOLEAN, att : AttRecords] \cup {None}]
    BY DEF IInv, TypeOK, SpoolTypeOK
  <1>2. \A q \in Printers : asg'[q] # None => asg[q] # None /\ asg'[q].send = asg[q].send
    <2>1. CASE UNCHANGED asg
      BY <2>1
    <2>2. CASE asg[p] # None /\ asg' = [asg EXCEPT ![p] = [asg[p] EXCEPT !.att = rec]]
      <3>1. \A a \in [send : Sends, active : BOOLEAN, att : AttRecords] :
              [a EXCEPT !.att = rec].send = a.send
        OBVIOUS
      <3> QED BY <1>1, <2>2, <3>1
    <2> QED BY <2>1, <2>2 DEF SaveAttempt
  <1>3. \A k \in Sends : PrinterOf[k] \in Printers
    BY ConstFacts
  <1> QED BY <1>2, <1>3 DEF Known, SendKnown, AssignmentMatches

\* The steps of a pass in flight that write the record, the assignment or the
\* marker of the send they are about.
LEMMA RecordsOnce ==
    ASSUME IInv, OnceInv, NEW p \in Printers,
           \/ PassKnown(p) \/ RecordAssignment(p) \/ RememberAttempt(p)
           \/ AdvanceConfirm(p) \/ MarkConfirmed(p) \/ AdvanceEnterB(p) \/ AdvanceReset(p)
           \/ RepublishHeld(p) \/ RepublishNotSent(p) \/ ResaveAttempt(p) \/ FailAcked(p)
    PROVE  OnceInv'
  <1> DEFINE k == job[p].send
  <1>1. /\ SpoolTypeOK /\ JobTypeOK /\ HistoryTypeOK
        /\ k \in Sends /\ PrinterOf[k] = p
    BY ConstFacts DEF IInv, TypeOK, OwnSends, JobTypeOK, JobRecords, PassKnown,
       RecordAssignment, RememberAttempt, AdvanceConfirm, MarkConfirmed, AdvanceEnterB,
       AdvanceReset, Advancing, RepublishHeld, RepublishNotSent, ResaveAttempt, FailAcked
  <1>2. /\ job[p].pc \in {"pass", "fail"} \cup AfterStart
        /\ UNCHANGED cloudVars
        /\ FailAcked(p) \/ UNCHANGED trail
    BY DEF PassKnown, RecordAssignment, RememberAttempt, AdvanceConfirm, MarkConfirmed,
       AdvanceEnterB, AdvanceReset, Advancing, RepublishHeld, RepublishNotSent, ResaveAttempt,
       FailAcked,
       AfterStart
  <1>3. job[p].pc # "fail" => marker[k] # None
    <2>1. CASE job[p].pc \in AfterStart
      BY <1>1, <2>1 DEF OnceInv, GoesByMarker, Serving
    <2>2. CASE PassKnown(p)
      BY <1>1, <2>2 DEF OnceInv, OnDisk, Known, Serving, PassKnown
    <2> QED BY <1>2, <2>1, <2>2
            DEF RecordAssignment, RememberAttempt, AdvanceConfirm, MarkConfirmed,
                AdvanceEnterB, AdvanceReset, Advancing, RepublishHeld, RepublishNotSent,
                ResaveAttempt, FailAcked
  <1>4. \A j \in Sends : trail'[j].pubs = trail[j].pubs /\ trail'[j].torn = trail[j].torn
    <2>1. CASE FailAcked(p)
      <3>1. trail' = [trail EXCEPT ![k] = [trail[k] EXCEPT !.reported = (row[p].send = k)]]
        BY <2>1 DEF FailAcked
      <3>2. \A b : \A t \in TrailRecords : LET u == [t EXCEPT !.reported = b]
                                       IN  u.pubs = t.pubs /\ u.torn = t.torn
        BY DEF TrailRecords
      <3> QED BY <1>1, <3>1, <3>2 DEF HistoryTypeOK
    <2> QED BY <1>2, <2>1
  <1>5. \A j \in Sends : marker'[j] = None <=> marker[j] = None
    <2>1. UNCHANGED marker \/ marker' = [marker EXCEPT ![k] = [confirmed |-> TRUE, age |-> 0]]
      <3>1. CASE \/ PassKnown(p) \/ RecordAssignment(p) \/ AdvanceEnterB(p) \/ AdvanceReset(p)
                 \/ RepublishHeld(p) \/ RepublishNotSent(p) \/ ResaveAttempt(p) \/ FailAcked(p)
                 \/ RememberAttempt(p) \/ AdvanceConfirm(p)
        BY <3>1 DEF spoolVars, PassKnown, RecordAssignment, AdvanceEnterB, AdvanceReset,
           RepublishHeld, RepublishNotSent, ResaveAttempt, FailAcked, RememberAttempt,
           AdvanceConfirm
      <3>2. CASE MarkConfirmed(p)
        BY <3>2 DEF MarkConfirmed
      <3> QED BY <3>1, <3>2
    <2>2. [confirmed |-> TRUE, age |-> 0] # None
      BY MarkerPresent
    <2>3. CASE UNCHANGED marker
      BY <2>3
    <2>4. CASE marker' = [marker EXCEPT ![k] = [confirmed |-> TRUE, age |-> 0]]
               /\ marker[k] # None
      BY <1>1, <2>2, <2>4 DEF SpoolTypeOK
    <2>5. FailAcked(p) => UNCHANGED marker
      BY DEF FailAcked, spoolVars
    <2>6. FailAcked(p) \/ job[p].pc # "fail"
      BY DEF PassKnown, RecordAssignment, RememberAttempt, AdvanceConfirm, MarkConfirmed,
         AdvanceEnterB, AdvanceReset, Advancing, RepublishHeld, RepublishNotSent, ResaveAttempt
    <2> QED BY <1>3, <2>1, <2>3, <2>4, <2>5, <2>6
  <1>6. \A j \in Sends : Known(j)' => Known(j)
    <2>1. CASE PassKnown(p) \/ RecordAssignment(p) \/ RememberAttempt(p) \/ AdvanceConfirm(p)
      <3>1. marker[k] # None
        BY <1>3, <2>1 DEF PassKnown, RecordAssignment, RememberAttempt, AdvanceConfirm, Advancing
      <3>2. started' \subseteq started \cup {k}
        BY <2>1 DEF PassKnown, RecordAssignment, RememberAttempt, AdvanceConfirm, memVars
      <3>3. \A q \in Printers : asg'[q] # None =>
               asg'[q].send = k \/ (asg[q] # None /\ asg'[q].send = asg[q].send)
        <4>1. \A rec, b : \A a \in [send : Sends, active : BOOLEAN, att : AttRecords] :
                /\ [a EXCEPT !.att = rec, !.active = b].send = a.send
                /\ [a EXCEPT !.active = b].send = a.send
          OBVIOUS
        <4>2. CASE PassKnown(p) \/ RecordAssignment(p)
          BY <1>1, <4>2 DEF PassKnown, RecordAssignment, NewAssignment, SpoolTypeOK
        <4>3. CASE AdvanceConfirm(p)
          <5>1. \/ UNCHANGED asg
                \/ /\ asg[p] # None
                   /\ asg' = [asg EXCEPT ![p] = [asg[p] EXCEPT !.active = TRUE]]
            BY <4>3 DEF AdvanceConfirm
          <5> QED BY <1>1, <4>1, <5>1 DEF SpoolTypeOK
        <4>4. CASE RememberAttempt(p)
          <5> DEFINE rec == [LoadAttempt(p, k) EXCEPT
                               !.phase = "A", !.age = 0, !.sid = dev[p].sub,
                               !.uploaded = TRUE, !.name = dev[p].name]
                     b == asg[p].active \/ dev[p].view = "active"
          <5>1. \/ UNCHANGED asg
                \/ /\ asg[p] # None
                   /\ asg' = [asg EXCEPT ![p] = [asg[p] EXCEPT !.att = rec, !.active = b]]
            BY <4>4, Zenon DEF RememberAttempt
          <5> HIDE DEF rec, b
          <5>2. CASE /\ asg[p] # None
                     /\ asg' = [asg EXCEPT ![p] = [asg[p] EXCEPT !.att = rec, !.active = b]]
            <6>1. asg[p] \in [send : Sends, active : BOOLEAN, att : AttRecords]
              BY <1>1, <5>2 DEF SpoolTypeOK
            <6>2. [asg[p] EXCEPT !.att = rec, !.active = b].send = asg[p].send
              BY <6>1
            <6> QED BY <1>1, <5>2, <6>2 DEF SpoolTypeOK
          <5> QED BY <5>1, <5>2
        <4> QED BY <2>1, <4>2, <4>3, <4>4
      <3> QED BY <1>1, <1>5, <3>1, <3>2, <3>3, ConstFacts DEF Known, SendKnown, AssignmentMatches
    <2>2. CASE AdvanceEnterB(p) \/ AdvanceReset(p) \/ RepublishHeld(p)
      BY <2>2, SavedKnown DEF AdvanceEnterB, AdvanceReset, RepublishHeld, memVars
    <2>3. CASE RepublishNotSent(p) \/ ResaveAttempt(p) \/ FailAcked(p)
      BY <2>3, SavedKnown DEF RepublishNotSent, ResaveAttempt, FailAcked, memVars, spoolVars
    <2>4. CASE MarkConfirmed(p)
      <3>1. marker[k] # None
        BY <1>3, <2>4 DEF MarkConfirmed
      <3>2. UNCHANGED <<started, asg>>
        BY <2>4 DEF MarkConfirmed, memVars
      <3> QED BY <1>5, <3>1, <3>2 DEF Known, SendKnown, AssignmentMatches
    <2> QED BY <2>1, <2>2, <2>3, <2>4
  <1>7. \E pc \in {"sweep", "fail", "drop", "advance", "remember", "confirm"} :
           Moved(p, pc) /\ (pc \in AfterStart => job[p].pc # "fail")
    <2>1. CASE RepublishHeld(p)
      BY <1>1, <2>1, SlotHeldMoves DEF RepublishHeld, AfterStart
    <2>2. CASE PassKnown(p) \/ RecordAssignment(p) \/ FailAcked(p)
      BY <1>1, <2>2, GotoJob
         DEF PassKnown, RecordAssignment, FailAcked, Steps, LongSteps, AfterStart
    <2>3. CASE \/ AdvanceConfirm(p) \/ MarkConfirmed(p) \/ AdvanceEnterB(p)
               \/ ResaveAttempt(p)
      BY <1>1, <2>3, GotoJob DEF AdvanceConfirm, MarkConfirmed, Advancing, AdvanceEnterB,
         ResaveAttempt, Steps, LongSteps, AfterStart
    <2>5. CASE RememberAttempt(p)
      <3>1. (Goto(p, "confirm") \/ Goto(p, "sweep")) /\ job[p].pc = "remember"
        BY <2>5 DEF RememberAttempt
      <3> QED BY <1>1, <3>1, GotoJob DEF Steps, LongSteps, AfterStart
    <2>4. CASE AdvanceReset(p) \/ RepublishNotSent(p)
      <3>1. Goto(p, "sweep") \/ GoFail(p, "other")
        BY <2>4 DEF AdvanceReset, RepublishNotSent
      <3> QED BY <1>1, <3>1, GotoJob, GoFailJob DEF Steps, AfterStart
    <2> QED BY <2>1, <2>2, <2>3, <2>4, <2>5
  <1> QED BY <1>2, <1>3, <1>4, <1>5, <1>6, <1>7, MovesOnce DEF BeforeStart, AfterStart

\* A start, its marker, and a start of a send that has its marker.
LEMMA StartsOnce ==
    ASSUME IInv, OnceInv, NEW p \in Printers, Start(p) \/ MarkStarted(p) \/ Republish(p)
    PROVE  OnceInv'
  <1>1. /\ SpoolTypeOK /\ MemTypeOK /\ JobTypeOK /\ HistoryTypeOK
        /\ job[p].send \in Sends /\ PrinterOf[job[p].send] = p
        /\ job[p].pc \in {"start", "mark", "republish"}
    BY ConstFacts DEF IInv, TypeOK, OwnSends, JobTypeOK, JobRecords, Start, MarkStarted,
       Republish
  <1>2. PICK k \in Sends : k = job[p].send /\ PrinterOf[k] = p
    BY <1>1
  <1>3. Unseen(k) /\ OnDisk(k) /\ GoesByMarker(k) /\ Serving(k)
    BY <1>2 DEF OnceInv, Serving
  <1>4. PICK pc \in {"mark", "assign", "resave"} :
           /\ Moved(p, pc)
           /\ pc = "mark" => Start(p)
           /\ pc = "assign" => MarkStarted(p)
           /\ pc = "resave" => Republish(p)
    BY <1>1, GotoJob DEF Start, MarkStarted, Republish, Steps
  <1>5. UNCHANGED <<cloudVars, asg>>
    BY DEF Start, MarkStarted, Republish, spoolVars
  <1>6. \A j \in Sends \ {k} : /\ marker'[j] = marker[j]
                               /\ j \in started' <=> j \in started
                               /\ trail'[j] = trail[j]
    <2>1. CASE Start(p)
      BY <1>1, <1>2, <2>1 DEF Start, HistoryTypeOK, spoolVars, memVars
    <2>2. CASE MarkStarted(p)
      BY <1>1, <1>2, <2>2 DEF MarkStarted, SpoolTypeOK
    <2>3. CASE Republish(p)
      BY <1>1, <1>2, <2>3 DEF Republish, HistoryTypeOK, spoolVars
    <2> QED BY <2>1, <2>2, <2>3
  <1>7. ASSUME NEW j \in Sends, j # k
        PROVE  (Unseen(j) /\ OnDisk(j) /\ GoesByMarker(j))'
    <2>1. Known(j)' => Known(j)
      BY <1>5, <1>6, <1>7 DEF Known, SendKnown, AssignmentMatches
    <2> QED BY <1>1, <1>2, <1>4, <1>5, <1>6, <1>7, <2>1, OthersOnce DEF Moved
  <1>8. (Unseen(k) /\ OnDisk(k) /\ GoesByMarker(k))'
    <2>1. /\ row' = row /\ ver' = ver /\ k # None /\ ver[k] # 0
          /\ job'[p].pc = pc /\ Serving(k)'
      BY <1>2, <1>3, <1>4, <1>5, ConstFacts DEF cloudVars, Unseen, Moved, Serving
    <2>2. CASE Start(p)
      <3>1. UNCHANGED <<marker, started>> /\ pc = "mark"
        BY <1>4, <2>2 DEF Start, MarkStarted, Republish, spoolVars, memVars
      <3>2. Known(k)' => Known(k)
        BY <1>5, <3>1 DEF Known, SendKnown, AssignmentMatches
      <3> QED BY <1>2, <1>3, <2>1, <3>1, <3>2
              DEF Unseen, OnDisk, GoesByMarker, BeforeStart, AfterStart
    <2>3. CASE MarkStarted(p) \/ Republish(p)
      <3>1. marker'[k] # None /\ pc # "mark"
        <4>1. CASE MarkStarted(p)
          BY <1>1, <1>2, <1>4, <4>1, MarkerPresent DEF MarkStarted, SpoolTypeOK, Start
        <4>2. CASE Republish(p)
          BY <1>2, <1>3, <1>4, <4>2 DEF Republish, Start, spoolVars, GoesByMarker, AfterStart
        <4> QED BY <2>3, <4>1, <4>2
      <3> QED BY <1>2, <1>4, <2>1, <3>1
              DEF Unseen, OnDisk, GoesByMarker, BeforeStart, AfterStart
    <2> QED BY <2>2, <2>3, <1>1 DEF Start, MarkStarted, Republish
  <1> QED
    <2> SUFFICES ASSUME NEW j \in Sends PROVE (Unseen(j) /\ OnDisk(j) /\ GoesByMarker(j))'
      BY DEF OnceInv
    <2> QED BY <1>7, <1>8

\* The steps that end a pass early, forget a send, or sweep the others.
LEMMA DropsOnce ==
    ASSUME IInv, OnceInv, NEW p \in Printers,
           \/ UploadCancelled(p) \/ PassCancel(p) \/ ResaveFails(p)
           \/ DropFailed(p) \/ Sweep(p)
    PROVE  OnceInv'
  <1> DEFINE k == job[p].send
  <1>1. /\ SpoolTypeOK /\ MemTypeOK /\ JobTypeOK /\ HistoryTypeOK
        /\ job[p].pc \in {"upload", "recopy", "pass", "resave", "drop", "sweep"}
        /\ UNCHANGED cloudVars
    BY DEF IInv, TypeOK, UploadCancelled, PassCancel, ResaveFails, DropFailed, Sweep
  <1>2. NoJob.pc = "idle" /\ NoJob.send = None
    BY DEF NoJob
  <1>3. ASSUME NEW j \in Sends
        PROVE  /\ Unseen(j) /\ OnDisk(j) /\ GoesByMarker(j)
               /\ row' = row /\ ver' = ver /\ PrinterOf[j] \in Printers /\ j # None
    BY <1>1, ConstFacts DEF OnceInv, cloudVars
  <1>4. ASSUME NEW j \in Sends, j # k, PrinterOf[j] # p \/ ~Sweep(p)
        PROVE  (Unseen(j) /\ OnDisk(j) /\ GoesByMarker(j))'
    <2>1. marker'[j] = marker[j] /\ trail'[j] = trail[j] /\ (Known(j)' => Known(j))
      <3>1. CASE UploadCancelled(p)
        BY <3>1 DEF UploadCancelled, spoolVars, memVars, Known, SendKnown, AssignmentMatches
      <3>2. CASE PassCancel(p) \/ DropFailed(p)
        BY <1>1, <1>3, <1>4, <3>2 DEF PassCancel, DropFailed, ClearPending, SpoolTypeOK, MemTypeOK,
           HistoryTypeOK, Known, SendKnown, AssignmentMatches
      <3>3. CASE Sweep(p)
        BY <1>4, <3>3 DEF Sweep, SendsOf, Known, SendKnown, AssignmentMatches
      <3>4. CASE ResaveFails(p)
        BY <1>1, <1>4, <3>4 DEF ResaveFails, HistoryTypeOK, spoolVars, memVars, Known, SendKnown,
           AssignmentMatches
      <3> QED BY <3>1, <3>2, <3>3, <3>4
    <2>2. job'[p].send \in {k, None} /\ \A q \in Printers \ {p} : job'[q] = job[q]
      <3>1. CASE UploadCancelled(p) \/ ResaveFails(p) \/ Sweep(p)
        BY <1>1, <1>2, <3>1 DEF UploadCancelled, ResaveFails, Sweep, JobTypeOK
      <3>2. CASE PassCancel(p) \/ DropFailed(p)
        <4>1. Goto(p, "sweep") \/ Goto(p, "latch")
          BY <3>2 DEF PassCancel, DropFailed
        <4> QED BY <1>1, <4>1, GotoJob DEF Steps, Moved
      <3> QED BY <3>1, <3>2
    <2> QED BY <1>1, <1>4, <2>1, <2>2, OthersOnce
  <1>5. ASSUME NEW j \in Sends, j # k, PrinterOf[j] = p, Sweep(p)
        PROVE  (Unseen(j) /\ OnDisk(j) /\ GoesByMarker(j))'
    <2>1. job'[p].pc = "idle" /\ job'[p].send = None /\ job[p].pc = "sweep"
      BY <1>1, <1>2, <1>5 DEF Sweep, JobTypeOK
    <2>2. j \in SendsOf(p) \ {k}
      BY <1>5 DEF SendsOf
    <2>3. marker'[j] = None /\ (j \in started' => j \in started) /\ asg' = asg
      BY <1>5, <2>2 DEF Sweep
    <2>4. trail'[j].pubs = 0
      <3>1. trail'[j] = [trail[j] EXCEPT !.pubs = 0]
        BY <1>5, <2>2 DEF Sweep
      <3> QED BY <1>1, <3>1 DEF HistoryTypeOK, TrailRecords
    <2>5. Known(j)' => Known(j)
      BY <2>3 DEF Known, SendKnown, AssignmentMatches
    <2>6. ~Serving(j) /\ ~Serving(j)'
      BY <1>3, <1>5, <2>1 DEF Serving
    <2>7. row[p].send = j => ~Known(j)
      BY <1>3, <1>5, <2>1, <2>6 DEF Unseen
    <2> QED BY <1>3, <1>5, <2>1, <2>4, <2>5, <2>6, <2>7 DEF Unseen, OnDisk, GoesByMarker
  <1>6. ASSUME NEW j \in Sends, j = k, UploadCancelled(p) \/ ResaveFails(p) \/ Sweep(p)
        PROVE  (Unseen(j) /\ OnDisk(j) /\ GoesByMarker(j))'
    <2>1. PrinterOf[j] = p
      BY <1>3, <1>6 DEF IInv, OwnSends
    <2>2. job'[p].pc = "idle" /\ job'[p].send = None /\ job[p].pc # "mark"
      BY <1>1, <1>2, <1>6 DEF UploadCancelled, ResaveFails, Sweep, JobTypeOK
    <2>3. Serving(j) /\ ~Serving(j)'
      BY <1>3, <1>6, <2>1, <2>2 DEF Serving
    <2>4. /\ marker'[j] = marker[j] /\ (Known(j)' => Known(j))
          /\ trail'[j].pubs = trail[j].pubs /\ trail'[j].torn = trail[j].torn
      <3>1. CASE UploadCancelled(p)
        BY <3>1 DEF UploadCancelled, spoolVars, memVars, Known, SendKnown, AssignmentMatches
      <3>2. CASE Sweep(p)
        BY <1>6, <3>2 DEF Sweep, Known, SendKnown, AssignmentMatches
      <3>3. CASE ResaveFails(p)
        <4>1. PICK n : trail' = [trail EXCEPT ![j] = [trail[j] EXCEPT !.lost = n]]
          BY <1>6, <3>3 DEF ResaveFails
        <4>2. \A t \in TrailRecords : LET u == [t EXCEPT !.lost = n]
                                      IN  u.pubs = t.pubs /\ u.torn = t.torn
          BY DEF TrailRecords
        <4>3. UNCHANGED <<marker, started, asg>>
          BY <3>3 DEF ResaveFails, spoolVars, memVars
        <4> QED BY <1>1, <4>1, <4>2, <4>3
                DEF HistoryTypeOK, Known, SendKnown, AssignmentMatches
      <3> QED BY <1>6, <3>1, <3>2, <3>3
    <2> QED BY <1>3, <2>1, <2>2, <2>3, <2>4 DEF Unseen, OnDisk, GoesByMarker
  <1>7. ASSUME NEW j \in Sends, j = k, PassCancel(p) \/ DropFailed(p)
        PROVE  (Unseen(j) /\ OnDisk(j) /\ GoesByMarker(j))'
    <2>1. PrinterOf[j] = p
      BY <1>3, <1>7 DEF IInv, OwnSends
    <2>2. job'[p].pc \in {"sweep", "latch"} /\ job'[p].send = j
      <3>1. Goto(p, "sweep") \/ Goto(p, "latch")
        BY <1>7 DEF PassCancel, DropFailed
      <3> QED BY <1>1, <1>7, <3>1, GotoJob DEF Steps, Moved
    <2>3. marker'[j] = None /\ ~Known(j)'
      BY <1>1, <1>7, <2>1 DEF PassCancel, DropFailed, ClearPending, SpoolTypeOK, Known,
         SendKnown, AssignmentMatches
    <2>4. trail'[j].pubs = 0
      <3>1. trail' = [trail EXCEPT ![j] = [trail[j] EXCEPT !.pubs = 0]]
        BY <1>7 DEF PassCancel, DropFailed
      <3> QED BY <1>1, <3>1 DEF HistoryTypeOK, TrailRecords
    <2>5. Serving(j) /\ Serving(j)'
      BY <1>7, <2>1, <2>2 DEF Serving
    <2> QED BY <1>3, <2>1, <2>2, <2>3, <2>4, <2>5
            DEF Unseen, OnDisk, GoesByMarker, BeforeStart, AfterStart
  <1> QED
    <2> SUFFICES ASSUME NEW j \in Sends PROVE (Unseen(j) /\ OnDisk(j) /\ GoesByMarker(j))'
      BY DEF OnceInv
    <2> QED BY <1>4, <1>5, <1>6, <1>7

LEMMA WorkerOnce ==
    ASSUME IInv, OnceInv, NEW p \in Printers, Worker(p)
    PROVE  OnceInv'
  <1>1. CASE FreshStep(p)
    BY <1>1, QuietOnce, RecordsOnce, StartsOnce, DropsOnce DEF FreshStep
  <1>2. CASE WatchdogStep(p)
    BY <1>2, QuietOnce, RecordsOnce, StartsOnce, DropsOnce DEF WatchdogStep
  <1>3. CASE SettleStep(p)
    BY <1>3, QuietOnce, RecordsOnce, StartsOnce, DropsOnce DEF SettleStep
  <1> QED BY <1>1, <1>2, <1>3 DEF Worker

\* A step outside the passes that asks for no send.
LEMMA StillOnce ==
    ASSUME OnceInv, ver' = ver,
           \A p \in Printers : /\ row'[p].send \in {row[p].send, None}
                               /\ job'[p].pc = job[p].pc /\ job'[p].send = job[p].send,
           \A k \in Sends : /\ marker'[k] = None <=> marker[k] = None
                            /\ Known(k)' => Known(k)
                            /\ trail'[k].pubs = trail[k].pubs
                            /\ trail'[k].torn = trail[k].torn
    PROVE  OnceInv'
  <1> SUFFICES ASSUME NEW k \in Sends PROVE (Unseen(k) /\ OnDisk(k) /\ GoesByMarker(k))'
    BY DEF OnceInv
  <1>1. PrinterOf[k] \in Printers /\ k # None
    BY ConstFacts
  <1>2. Unseen(k) /\ OnDisk(k) /\ GoesByMarker(k)
    BY DEF OnceInv
  <1>3. Serving(k)' <=> Serving(k)
    BY <1>1 DEF Serving
  <1> QED BY <1>1, <1>2, <1>3 DEF Unseen, OnDisk, GoesByMarker

LEMMA OutsideOnce ==
    ASSUME IInv, OnceInv,
           \/ ReportOutage \/ Tick \/ UNCHANGED vars
           \/ \E p \in Printers :
                 \/ PrinterStep(p) \/ CloudDrop(p)
                 \/ \E ctl \in {"none", "stop", "busy"} : CloudControl(p, ctl)
    PROVE  OnceInv'
  <1>1. CloudTypeOK /\ SpoolTypeOK /\ JobTypeOK /\ HistoryTypeOK
    BY DEF IInv, TypeOK
  <1>2. CASE ReportOutage \/ UNCHANGED vars
    <2>1. UNCHANGED <<row, ver, job, marker, started, asg, trail>>
      BY <1>2 DEF ReportOutage, vars, cloudVars, spoolVars, memVars
    <2> QED BY <2>1, StillOnce DEF Known, SendKnown, AssignmentMatches
  <1>3. ASSUME NEW p \in Printers, CloudDrop(p) \/ \E ctl : CloudControl(p, ctl) PROVE OnceInv'
    <2>1. UNCHANGED <<ver, job, marker, started, asg>>
      BY <1>3 DEF CloudDrop, CloudControl, spoolVars, memVars
    <2>2. \A q \in Printers : row'[q].send \in {row[q].send, None}
      BY <1>1, <1>3 DEF CloudDrop, CloudControl, CloudTypeOK, NoRow
    <2>3. \A k \in Sends : trail'[k].pubs = trail[k].pubs /\ trail'[k].torn = trail[k].torn
      <3>1. CASE UNCHANGED trail
        BY <3>1
      <3>2. CASE CloudDrop(p)
        <4>1. trail' = [trail EXCEPT ![row[p].send] =
                          [trail[row[p].send] EXCEPT !.reported = FALSE, !.halted = "no"]]
          BY <3>2 DEF CloudDrop
        <4>2. \A t \in TrailRecords : LET u == [t EXCEPT !.reported = FALSE, !.halted = "no"]
                                      IN  u.pubs = t.pubs /\ u.torn = t.torn
          BY DEF TrailRecords
        <4> QED BY <1>1, <4>1, <4>2 DEF HistoryTypeOK
      <3> QED BY <1>3, <3>1, <3>2 DEF CloudControl
    <2> QED BY <2>1, <2>2, <2>3, StillOnce DEF Known, SendKnown, AssignmentMatches
  <1>4. ASSUME NEW p \in Printers, PrinterStep(p) PROVE OnceInv'
    <2>1. CASE AssignmentEnds(p)
      <3>1. UNCHANGED <<row, ver, job, marker, started, trail>>
        BY <2>1 DEF AssignmentEnds, cloudVars, memVars
      <3>2. \A q \in Printers : asg'[q] \in {asg[q], None}
        BY <1>1, <2>1 DEF AssignmentEnds, SpoolTypeOK
      <3>3. \A k \in Sends : Known(k)' => Known(k)
        BY <3>1, <3>2, ConstFacts DEF Known, SendKnown, AssignmentMatches
      <3> QED BY <3>1, <3>3, StillOnce
    <2>4. CASE AssignmentSeen(p)
      <3>1. UNCHANGED <<row, ver, job, marker, started, trail>>
        BY <2>4 DEF AssignmentSeen, cloudVars, memVars
      <3>2. asg[p] # None /\ asg' = [asg EXCEPT ![p] = [asg[p] EXCEPT !.active = TRUE]]
        BY <2>4 DEF AssignmentSeen
      <3>3. \A a \in [send : Sends, active : BOOLEAN, att : AttRecords] :
               [a EXCEPT !.active = TRUE].send = a.send
        OBVIOUS
      <3>4. \A q \in Printers : asg'[q] # None => asg[q] # None /\ asg'[q].send = asg[q].send
        BY <1>1, <3>2, <3>3 DEF SpoolTypeOK
      <3>5. \A k \in Sends : Known(k)' => Known(k)
        BY <3>1, <3>4, ConstFacts DEF Known, SendKnown, AssignmentMatches
      <3> QED BY <3>1, <3>5, StillOnce
    <2>2. ASSUME NEW view \in {"ready", "active"}, ReportView(p, view) PROVE OnceInv'
      <3>1. UNCHANGED <<row, ver, job, marker, started, asg>>
        BY <2>2 DEF ReportView, Heard, cloudVars, spoolVars, memVars
      <3>2. \A k \in Sends : trail'[k].pubs = trail[k].pubs /\ trail'[k].torn = trail[k].torn
        <4>1. \/ UNCHANGED trail
              \/ trail' = [trail EXCEPT ![dev[p].last] = [trail[dev[p].last] EXCEPT !.ran = TRUE]]
          BY <2>2 DEF ReportView
        <4>2. \A t \in TrailRecords : LET u == [t EXCEPT !.ran = TRUE]
                                      IN  u.pubs = t.pubs /\ u.torn = t.torn
          BY DEF TrailRecords
        <4> QED BY <1>1, <4>1, <4>2 DEF HistoryTypeOK
      <3> QED BY <3>1, <3>2, StillOnce DEF Known, SendKnown, AssignmentMatches
    <2>3. CASE UNCHANGED <<row, ver, job, marker, started, asg, trail>>
      BY <2>3, StillOnce DEF Known, SendKnown, AssignmentMatches
    <2> QED BY <1>4, <2>1, <2>2, <2>3, <2>4 DEF PrinterStep, ReportEcho, ReportName, ReportFlag,
         LinkDown,
               LinkUp, Heard, cloudVars, spoolVars, memVars
  <1>5. CASE Tick
    <2>1. UNCHANGED <<row, ver, started>>
      BY <1>5 DEF Tick, cloudVars
    <2>2. \A p \in Printers : job'[p].pc = job[p].pc /\ job'[p].send = job[p].send
      <3> SUFFICES ASSUME NEW p \in Printers
                   PROVE  job'[p].pc = job[p].pc /\ job'[p].send = job[p].send
        OBVIOUS
      <3> DEFINE age == Older(job[p].age, AgeCap)
                 rec == OlderAtt(job[p].rec)
      <3>1. job'[p] = job[p] \/ job'[p] = [job[p] EXCEPT !.age = age, !.rec = rec]
        BY <1>5 DEF Tick
      <3>2. job[p] \in JobRecords
        BY <1>1 DEF JobTypeOK
      <3> HIDE DEF age, rec
      <3> QED BY <3>1, <3>2 DEF JobRecords
    <2>3. \A k \in Sends : marker'[k] = None <=> marker[k] = None
      <3> SUFFICES ASSUME NEW k \in Sends, marker[k] # None
                   PROVE  marker[k] # None /\ marker'[k] # None
        BY <1>5 DEF Tick
      <3>1. marker'[k] = [marker[k] EXCEPT !.age = Older(marker[k].age, AgeCap)]
        BY <1>5 DEF Tick
      <3>2. marker[k] \in [confirmed : BOOLEAN, age : Ages]
        BY <1>1 DEF SpoolTypeOK
      <3>3. Older(marker[k].age, AgeCap) \in Ages
        BY <3>2, OlderType, ConstFacts DEF Ages
      <3>4. marker'[k] \in [confirmed : BOOLEAN, age : Ages]
        BY <3>1, <3>2, <3>3
      <3> QED BY <3>4, AbsentAssumption
    <2>4. \A p \in Printers : asg'[p] # None => asg[p] # None /\ asg'[p].send = asg[p].send
      <3> SUFFICES ASSUME NEW p \in Printers, asg'[p] # None
                   PROVE  asg[p] # None /\ asg'[p].send = asg[p].send
        OBVIOUS
      <3> DEFINE rec == OlderAtt(asg[p].att)
      <3>1. asg[p] # None /\ asg'[p] = [asg[p] EXCEPT !.att = rec]
        BY <1>5 DEF Tick
      <3>2. asg[p] \in [send : Sends, active : BOOLEAN, att : AttRecords]
        BY <1>1, <3>1 DEF SpoolTypeOK
      <3> HIDE DEF rec
      <3> QED BY <3>1, <3>2
    <2>5. \A k \in Sends : Known(k)' => Known(k)
      BY <2>1, <2>3, <2>4, ConstFacts DEF Known, SendKnown, AssignmentMatches
    <2>6. \A k \in Sends : trail'[k].pubs = trail[k].pubs /\ trail'[k].torn = trail[k].torn
      <3> SUFFICES ASSUME NEW k \in Sends
                   PROVE  trail'[k].pubs = trail[k].pubs /\ trail'[k].torn = trail[k].torn
        OBVIOUS
      <3> DEFINE since == Older(trail[k].since, AgeCap)
                 halted == IF trail[k].halted = "just" THEN "past" ELSE trail[k].halted
      <3>1. trail'[k] = [trail[k] EXCEPT !.since = since, !.halted = halted]
        BY <1>5 DEF Tick
      <3>2. trail[k] \in TrailRecords
        BY <1>1 DEF HistoryTypeOK
      <3> HIDE DEF since, halted
      <3> QED BY <3>1, <3>2 DEF TrailRecords
    <2> QED BY <2>1, <2>2, <2>3, <2>5, <2>6, StillOnce
  <1> QED BY <1>2, <1>3, <1>4, <1>5

\* A pass that begins is about the send its row asks for, of which nothing is
\* known but what is on disk.
LEMMA ReportPassOnce ==
    ASSUME IInv, OnceInv, ReportPass
    PROVE  OnceInv'
  <1>1. CloudTypeOK /\ SpoolTypeOK /\ JobTypeOK /\ HistoryTypeOK
    BY DEF IInv, TypeOK
  <1>2. UNCHANGED <<row, ver, marker, started>>
    BY DEF ReportPass, cloudVars, memVars
  <1>3. \A p \in Printers : asg'[p] \in {asg[p], None}
    BY DEF ReportPass
  <1>4. \A p \in Printers :
           \/ job[p].pc = "idle" /\ job'[p].pc = "pass" /\ job'[p].send = row[p].send
           \/ job'[p].pc = job[p].pc /\ job'[p].send = job[p].send
    <2> SUFFICES ASSUME NEW p \in Printers
                 PROVE  \/ /\ job[p].pc = "idle" /\ job'[p].pc = "pass"
                           /\ job'[p].send = row[p].send
                        \/ job'[p].pc = job[p].pc /\ job'[p].send = job[p].send
      OBVIOUS
    <2>1. \/ job[p].pc = "idle" /\ job'[p] = Submitted(p)
          \/ job'[p] = job[p] \/ job'[p] = [job[p] EXCEPT !.cancel = TRUE]
      BY DEF ReportPass
    <2>2. job[p] \in JobRecords
      BY <1>1 DEF JobTypeOK
    <2>3. [job[p] EXCEPT !.cancel = TRUE].pc = job[p].pc
          /\ [job[p] EXCEPT !.cancel = TRUE].send = job[p].send
      BY <2>2 DEF JobRecords
    <2> QED BY <1>1, <2>1, <2>3, SubmittedType
  <1>5. \A k \in Sends : trail'[k].pubs = trail[k].pubs /\ trail'[k].torn = trail[k].torn
    <2> SUFFICES ASSUME NEW k \in Sends
                 PROVE  trail'[k].pubs = trail[k].pubs /\ trail'[k].torn = trail[k].torn
      OBVIOUS
    <2>1. trail'[k] = trail[k] \/ trail'[k] = [trail[k] EXCEPT !.halted = "just"]
      BY DEF ReportPass
    <2>2. trail[k] \in TrailRecords
      BY <1>1 DEF HistoryTypeOK
    <2> QED BY <2>1, <2>2 DEF TrailRecords
  <1> SUFFICES ASSUME NEW k \in Sends PROVE (Unseen(k) /\ OnDisk(k) /\ GoesByMarker(k))'
    BY DEF OnceInv
  <1>6. Unseen(k) /\ OnDisk(k) /\ GoesByMarker(k) /\ PrinterOf[k] \in Printers /\ k # None
    BY ConstFacts DEF OnceInv
  <1>7. Known(k)' => Known(k)
    BY <1>2, <1>3, <1>6 DEF Known, SendKnown, AssignmentMatches
  <1>8. CASE /\ job[PrinterOf[k]].pc = "idle" /\ job'[PrinterOf[k]].pc = "pass"
             /\ job'[PrinterOf[k]].send = row[PrinterOf[k]].send
    BY <1>2, <1>5, <1>6, <1>7, <1>8
       DEF Unseen, OnDisk, GoesByMarker, Serving, BeforeStart, AfterStart
  <1>9. CASE /\ job'[PrinterOf[k]].pc = job[PrinterOf[k]].pc
             /\ job'[PrinterOf[k]].send = job[PrinterOf[k]].send
    BY <1>2, <1>5, <1>6, <1>7, <1>9 DEF Unseen, OnDisk, GoesByMarker, Serving
  <1> QED BY <1>4, <1>6, <1>8, <1>9

\* A crash leaves what is on disk, and notes the start whose marker it lost.
LEMMA CrashOnce ==
    ASSUME IInv, OnceInv, Crash
    PROVE  OnceInv'
  <1>1. UNCHANGED <<row, ver, marker, asg>> /\ started' = {}
    BY DEF Crash, cloudVars, spoolVars
  <1>2. \A p \in Printers : job'[p].pc = "idle" /\ job'[p].send = None
    BY DEF Crash, NoJob
  <1> SUFFICES ASSUME NEW k \in Sends PROVE (Unseen(k) /\ OnDisk(k) /\ GoesByMarker(k))'
    BY DEF OnceInv
  <1>3. Unseen(k) /\ OnDisk(k) /\ GoesByMarker(k) /\ PrinterOf[k] \in Printers /\ k # None
    BY ConstFacts DEF OnceInv
  <1>4. Known(k)' => Known(k)
    BY <1>1 DEF Known, SendKnown, AssignmentMatches
  <1>5. /\ trail'[k].pubs = trail[k].pubs
        /\ trail'[k].torn <=> trail[k].torn \/ (Serving(k) /\ job[PrinterOf[k]].pc = "mark")
    <2> DEFINE j == job[PrinterOf[k]]
               lost == IF j.pc = "resave" THEN trail[k].lost + 1 ELSE trail[k].lost
               torn == trail[k].torn \/ j.pc = "mark"
    <2>1. trail[k] \in TrailRecords
      BY DEF IInv, TypeOK, HistoryTypeOK
    <2>2. trail'[k] = IF j.send # k THEN trail[k]
                      ELSE [trail[k] EXCEPT !.lost = lost, !.torn = torn]
      BY DEF Crash
    <2>3. \A l, b : \A t \in TrailRecords : LET u == [t EXCEPT !.lost = l, !.torn = b]
                                        IN  u.pubs = t.pubs /\ u.torn = b
      BY DEF TrailRecords
    <2>4. CASE j.send # k
      BY <2>2, <2>4 DEF Serving
    <2>5. CASE j.send = k
      <3> HIDE DEF lost, torn
      <3>1. trail'[k].pubs = trail[k].pubs /\ trail'[k].torn = torn
        BY <2>1, <2>2, <2>3, <2>5
      <3> QED BY <2>5, <3>1 DEF Serving, torn
    <2> QED BY <2>4, <2>5
  <1>6. ~Serving(k)'
    BY <1>2, <1>3 DEF Serving
  <1> QED BY <1>1, <1>2, <1>3, <1>4, <1>5, <1>6 DEF Unseen, OnDisk, GoesByMarker

\* A send that is queued for the first time has left no trace.
LEMMA QueueOnce ==
    ASSUME IInv, OnceInv, MaxVer = 1, NEW p \in Printers, NEW k \in Sends, CloudQueue(p, k)
    PROVE  OnceInv'
  <1>1. CloudTypeOK
    BY DEF IInv, TypeOK
  <1>2. /\ ver[k] = 0 /\ ver'[k] = 1 /\ PrinterOf[k] = p
        /\ \A j \in Sends \ {k} : ver'[j] = ver[j]
        /\ row[p].send = None /\ row'[p].send = k
        /\ \A q \in Printers \ {p} : row'[q] = row[q]
    BY <1>1, ConstFacts DEF CloudQueue, CloudTypeOK
  <1>3. UNCHANGED <<marker, started, asg, job, trail>>
    BY DEF CloudQueue, spoolVars, memVars
  <1> SUFFICES ASSUME NEW j \in Sends PROVE (Unseen(j) /\ OnDisk(j) /\ GoesByMarker(j))'
    BY DEF OnceInv
  <1>4. Unseen(j) /\ OnDisk(j) /\ GoesByMarker(j) /\ PrinterOf[j] \in Printers /\ j # None
    BY ConstFacts DEF OnceInv
  <1>5. (Known(j)' <=> Known(j)) /\ (Serving(j)' <=> Serving(j))
    BY <1>3 DEF Known, SendKnown, AssignmentMatches, Serving
  <1> QED BY <1>2, <1>3, <1>4, <1>5 DEF Unseen, OnDisk, GoesByMarker

LEMMA InitOnce == Init => OnceInv
  <1> SUFFICES ASSUME Init, NEW k \in Sends
               PROVE  Unseen(k) /\ OnDisk(k) /\ GoesByMarker(k)
    BY DEF OnceInv
  <1>1. PrinterOf[k] \in Printers /\ k # None
    BY ConstFacts
  <1>2. /\ row[PrinterOf[k]].send = None /\ job[PrinterOf[k]].send = None
        /\ marker[k] = None /\ started = {} /\ asg[PrinterOf[k]] = None
        /\ trail[k].pubs = 0
    BY <1>1 DEF Init, NoRow, NoJob, NoTrail
  <1> QED BY <1>1, <1>2
          DEF Unseen, OnDisk, GoesByMarker, Known, SendKnown, AssignmentMatches, Serving

LEMMA NextOnce == ASSUME MaxVer = 1 PROVE IInv /\ OnceInv /\ [Next]_vars => OnceInv'
  <1> SUFFICES ASSUME IInv, OnceInv, [Next]_vars PROVE OnceInv'
    OBVIOUS
  <1>1. CASE ReportPass \/ Crash
    BY <1>1, ReportPassOnce, CrashOnce
  <1>2. CASE ReportOutage \/ Tick \/ UNCHANGED vars
    BY <1>2, OutsideOnce
  <1>3. ASSUME NEW p \in Printers, Worker(p) \/ PrinterStep(p) \/ CloudStep(p)
        PROVE  OnceInv'
    BY <1>3, WorkerOnce, OutsideOnce, QueueOnce DEF CloudStep
  <1> QED BY <1>1, <1>2, <1>3 DEF Next

\* A send that the cloud queues once is started from scratch once in the life of
\* its record, across passes, failed requests and restarts; a start is lost only
\* with a crash between the publish and the marker.
THEOREM OneFreshStart == ASSUME MaxVer = 1 PROVE Spec => FreshStartOnce
  <1>1. IInv /\ OnceInv /\ [Next]_vars =>
          [\A k \in Sends :
             Published(k) /\ job[PrinterOf[k]].pc = "start"
               => trail[k].pubs = 0 \/ trail[k].torn]_vars
    <2> SUFFICES ASSUME IInv, OnceInv, [Next]_vars, NEW k \in Sends,
                        Published(k), job[PrinterOf[k]].pc = "start"
                 PROVE  trail[k].pubs = 0 \/ trail[k].torn
      OBVIOUS
    <2>1. Serving(k)
      BY PublishedBy
    <2>2. marker[k] = None
      BY <2>1 DEF OnceInv, GoesByMarker, BeforeStart
    <2> QED BY <2>2 DEF OnceInv, OnDisk
  <1>2. IInv /\ OnceInv /\ [Next]_vars => OnceInv'
    BY NextOnce
  <1> QED BY <1>1, <1>2, InitOnce, InitInv, NextInv, PTL DEF Spec, FreshStartOnce

-----------------------------------------------------------------------------
(* After a reported failure.                                               *)

\* A send reported failed that the cloud still lists is being forgotten, or is
\* latched, and then its printer's pass goes by the latch.
ReportedOK(k) ==
    LET p == PrinterOf[k] IN
    trail[k].reported =>
       /\ row[p].send = k
       /\ \/ Serving(k) /\ job[p].pc \in {"drop", "latch"}
          \/ FailureLatched(k)
             /\ (job[p].pc = "idle" \/ (Serving(k) /\ job[p].pc \in {"pass", "sweep"}))

ReportedInv == \A k \in Sends : ReportedOK(k)

\* Where a pass may be that has nothing reported to answer for.
NothingReported(p) ==
    /\ job[p].pc \notin {"idle", "drop", "latch", "sweep"}
    /\ job[p].pc = "pass" => ~FailureLatched(job[p].send)

\* Such a pass may write the record of its own send and reports nothing.
LEMMA FreeReported ==
    ASSUME IInv, ReportedInv, NEW p \in Printers, job[p].send \in Sends, NothingReported(p),
           \A q \in Printers \ {p} : job'[q] = job[q],
           UNCHANGED cloudVars,
           \A k \in Sends : trail'[k].reported = trail[k].reported,
           \A k \in Sends \ {job[p].send} : att'[k] = att[k]
    PROVE  ReportedInv'
  <1> SUFFICES ASSUME NEW k \in Sends PROVE ReportedOK(k)'
    BY DEF ReportedInv
  <1>1. PrinterOf[k] \in Printers /\ row' = row /\ ReportedOK(k)
    BY ConstFacts DEF ReportedInv, cloudVars
  <1>2. CASE PrinterOf[k] = p
    <2>1. ~trail[k].reported
      BY <1>1, <1>2 DEF ReportedOK, NothingReported, Serving
    <2> QED BY <1>1, <2>1 DEF ReportedOK
  <1>3. CASE PrinterOf[k] # p
    <2>1. k # job[p].send
      BY <1>3, ConstFacts DEF IInv, OwnSends
    <2> QED BY <1>1, <1>3, <2>1 DEF ReportedOK, Serving, FailureLatched
  <1> QED BY <1>2, <1>3

LEMMA FreeJobs ==
    ASSUME IInv, NEW p \in Printers,
           FreshStep(p) \/ (WatchdogStep(p) /\ ~PassNothing(p)) \/ FailNotAcked(p)
    PROVE  /\ job[p].send \in Sends /\ NothingReported(p)
           /\ UNCHANGED cloudVars
  <1>1. JobTypeOK
    BY DEF IInv, TypeOK
  <1>2. NothingReported(p) /\ UNCHANGED cloudVars
    <2>1. CASE FreshStep(p)
      BY <2>1 DEF NothingReported, FreshStep, FreshWait, FreshRejected, FreshReady, Download,
         DownloadFails, BadPlate, UploadSkipped, Upload, UploadFails, UploadCancelled,
         AuthorizeRefused, AuthorizeOutage, Authorize, Start, StartNotSent, MarkStarted,
         RecordAssignment, RememberAttempt
    <2>2. CASE WatchdogStep(p) /\ ~PassNothing(p)
      BY <2>2 DEF NothingReported, WatchdogStep, PassCancel, PassKnown, AdvanceDispatched,
         AdvanceConfirm, MarkConfirmed, AdvanceEnterB, AdvanceWait, AdvanceReset,
         AdvanceRepublish, AdvanceFail, Advancing, Recopy, RepublishHeld, RepublishNotSent,
         Republish, ResaveAttempt, ResaveFails
    <2>3. CASE FailNotAcked(p)
      BY <2>3 DEF NothingReported, FailNotAcked
    <2> QED BY <2>1, <2>2, <2>3
  <1>3. job[p].pc = "pass" => job[p].send # None
    BY DEF FreshStep, WatchdogStep, FreshWait, FreshRejected, FreshReady, Download,
       DownloadFails, BadPlate, UploadSkipped, Upload, UploadFails, UploadCancelled,
       AuthorizeRefused, AuthorizeOutage, Authorize, Start, StartNotSent, MarkStarted,
       RecordAssignment, RememberAttempt, PassCancel, PassKnown, AdvanceDispatched,
       AdvanceConfirm, MarkConfirmed, AdvanceEnterB, AdvanceWait, AdvanceReset,
       AdvanceRepublish, AdvanceFail, Advancing, Recopy, RepublishHeld, RepublishNotSent,
       Republish, ResaveAttempt, ResaveFails, FailNotAcked
  <1>4. job[p].send # None
    BY <1>2, <1>3 DEF IInv, OwnSends, NothingReported
  <1> QED BY <1>1, <1>2, <1>4 DEF JobTypeOK, JobRecords

\* Those passes write no other record, and move no other pass.
LEMMA FreeWrites ==
    ASSUME IInv, NEW p \in Printers,
           FreshStep(p) \/ (WatchdogStep(p) /\ ~PassNothing(p)) \/ FailNotAcked(p)
    PROVE  /\ \A q \in Printers \ {p} : job'[q] = job[q]
           /\ \A k \in Sends : trail'[k].reported = trail[k].reported
           /\ \A k \in Sends \ {job[p].send} : att'[k] = att[k]
  <1>1. SpoolTypeOK /\ JobTypeOK /\ HistoryTypeOK /\ job[p].send \in Sends
    BY FreeJobs DEF IInv, TypeOK
  <1>2. ASSUME FreshStep(p) PROVE \A q \in Printers \ {p} : job'[q] = job[q]
    <2>1. CASE \/ FreshWait(p) \/ FreshRejected(p) \/ FreshReady(p) \/ Download(p)
               \/ DownloadFails(p) \/ BadPlate(p) \/ UploadSkipped(p) \/ Upload(p)
               \/ UploadFails(p) \/ UploadCancelled(p)
      BY <1>1, <2>1 DEF FreshWait, FreshRejected, FreshReady, Download, DownloadFails, BadPlate,
         UploadSkipped, Upload, UploadFails, UploadCancelled, Goto, GoFail, SlotHeld,
         CountSetupFailure, JobTypeOK
    <2>2. CASE \/ AuthorizeRefused(p) \/ AuthorizeOutage(p) \/ Authorize(p) \/ Start(p)
               \/ StartNotSent(p) \/ MarkStarted(p) \/ RecordAssignment(p) \/ RememberAttempt(p)
      BY <1>1, <2>2 DEF AuthorizeRefused, AuthorizeOutage, Authorize, Start, StartNotSent,
         MarkStarted, RecordAssignment, RememberAttempt, Goto, GoFail, SlotHeld,
         CountSetupFailure, JobTypeOK
    <2> QED BY <1>2, <2>1, <2>2 DEF FreshStep
  <1>3. ASSUME WatchdogStep(p), ~PassNothing(p) PROVE \A q \in Printers \ {p} : job'[q] = job[q]
    <2>1. CASE \/ PassCancel(p) \/ PassKnown(p) \/ AdvanceDispatched(p) \/ AdvanceConfirm(p)
               \/ MarkConfirmed(p) \/ AdvanceEnterB(p) \/ AdvanceWait(p) \/ AdvanceReset(p)
               \/ AdvanceFail(p)
      BY <1>1, <2>1 DEF PassCancel, PassKnown, AdvanceDispatched, AdvanceConfirm,
         MarkConfirmed, AdvanceEnterB, AdvanceWait, AdvanceReset, AdvanceFail, Goto, GoFail,
         JobTypeOK
    <2>2. CASE \/ AdvanceRepublish(p) \/ Recopy(p) \/ RepublishHeld(p) \/ RepublishNotSent(p)
               \/ Republish(p) \/ ResaveAttempt(p) \/ ResaveFails(p)
      BY <1>1, <2>2 DEF AdvanceRepublish, Recopy, RepublishHeld, RepublishNotSent, Republish,
         ResaveAttempt, ResaveFails, Goto, GoFail, SlotHeld, JobTypeOK
    <2> QED BY <1>3, <2>1, <2>2 DEF WatchdogStep
  <1>4. ASSUME FailNotAcked(p) PROVE \A q \in Printers \ {p} : job'[q] = job[q]
    BY <1>1, <1>4 DEF FailNotAcked, Goto, JobTypeOK
  <1>5. \A k \in Sends : trail'[k].reported = trail[k].reported
    <2>1. \A n : \A t \in TrailRecords :
            /\ [t EXCEPT !.pubs = 1, !.lost = 0, !.torn = FALSE, !.ran = FALSE,
                         !.since = 0].reported = t.reported
            /\ [t EXCEPT !.pubs = n, !.ran = FALSE, !.since = 0].reported = t.reported
            /\ [t EXCEPT !.pubs = 0].reported = t.reported
            /\ [t EXCEPT !.lost = n].reported = t.reported
      BY DEF TrailRecords
    <2>2. CASE Start(p)
      BY <1>1, <2>1, <2>2 DEF Start, HistoryTypeOK
    <2>3. CASE Republish(p)
      BY <1>1, <2>1, <2>3 DEF Republish, HistoryTypeOK
    <2>4. CASE PassCancel(p)
      BY <1>1, <2>1, <2>4 DEF PassCancel, HistoryTypeOK
    <2>9. CASE ResaveFails(p)
      BY <1>1, <2>1, <2>9 DEF ResaveFails, HistoryTypeOK
    <2>5. CASE UNCHANGED trail
      BY <2>5
    <2>6. FreshStep(p) => Start(p) \/ UNCHANGED trail
      BY DEF FreshStep, FreshWait, FreshRejected, FreshReady, Download, DownloadFails, BadPlate,
         UploadSkipped, Upload, UploadFails, UploadCancelled, AuthorizeRefused,
         AuthorizeOutage, Authorize, StartNotSent, MarkStarted, RecordAssignment,
         RememberAttempt
    <2>7. WatchdogStep(p) => \/ PassNothing(p) \/ Republish(p) \/ PassCancel(p)
                             \/ ResaveFails(p) \/ UNCHANGED trail
      BY DEF WatchdogStep, PassKnown, AdvanceDispatched, AdvanceConfirm, MarkConfirmed,
         AdvanceEnterB, AdvanceWait, AdvanceReset, AdvanceRepublish, AdvanceFail, Recopy,
         RepublishHeld,
         RepublishNotSent, ResaveAttempt
    <2>8. FailNotAcked(p) => UNCHANGED trail
      BY DEF FailNotAcked
    <2> QED BY <2>2, <2>3, <2>4, <2>5, <2>6, <2>7, <2>8, <2>9
  <1>6. \A k \in Sends \ {job[p].send} : att'[k] = att[k]
    <2>1. CASE FreshStep(p)
      BY <1>1, <2>1 DEF FreshStep, FreshWait, FreshRejected, FreshReady, Download, DownloadFails,
         BadPlate, UploadSkipped, Upload, UploadFails, UploadCancelled, AuthorizeRefused,
         AuthorizeOutage, Authorize, Start, StartNotSent, MarkStarted, RecordAssignment,
         RememberAttempt, spoolVars, SpoolTypeOK
    <2>2. CASE WatchdogStep(p) /\ ~PassNothing(p)
      BY <1>1, <2>2 DEF WatchdogStep, PassCancel, PassKnown, AdvanceDispatched, AdvanceConfirm,
         MarkConfirmed, AdvanceEnterB, AdvanceWait, AdvanceReset, AdvanceRepublish, AdvanceFail,
         Recopy, RepublishHeld, RepublishNotSent, Republish, ResaveAttempt, ResaveFails,
         SaveAttempt, spoolVars, SpoolTypeOK
    <2>3. CASE FailNotAcked(p)
      BY <2>3 DEF FailNotAcked, spoolVars
    <2> QED BY <2>1, <2>2, <2>3
  <1> QED BY <1>2, <1>3, <1>4, <1>5, <1>6

\* The report of a failure, its clean-up and its latch, and the end of a pass.
LEMMA SettleReported ==
    ASSUME IInv, ReportedInv, NEW p \in Printers,
           PassNothing(p) \/ FailAcked(p) \/ DropFailed(p) \/ LatchFailure(p) \/ Sweep(p)
    PROVE  ReportedInv'
  <1>1. /\ SpoolTypeOK /\ JobTypeOK /\ HistoryTypeOK /\ row' = row
        /\ job[p].pc \in {"pass", "fail", "drop", "latch", "sweep"}
    BY DEF IInv, TypeOK, PassNothing, FailAcked, DropFailed, LatchFailure, Sweep, cloudVars
  <1>2. /\ PassNothing(p) => Moved(p, "sweep")
        /\ FailAcked(p) => Moved(p, "drop")
        /\ DropFailed(p) => Moved(p, "latch")
        /\ LatchFailure(p) => Moved(p, "sweep")
        /\ Sweep(p) => job'[p] = NoJob /\ \A q \in Printers \ {p} : job'[q] = job[q]
    BY <1>1, GotoJob DEF PassNothing, FailAcked, DropFailed, LatchFailure, Sweep, Steps, JobTypeOK
  <1>3. \A b : \A t \in TrailRecords :
           [t EXCEPT !.pubs = 0].reported = t.reported /\ [t EXCEPT !.reported = b].reported = b
    BY DEF TrailRecords
  <1> SUFFICES ASSUME NEW k \in Sends PROVE ReportedOK(k)'
    BY DEF ReportedInv
  <1>4. PrinterOf[k] \in Printers /\ k # None /\ ReportedOK(k)
    BY ConstFacts DEF ReportedInv
  <1>5. CASE job[p].send # k
    <2>1. trail'[k].reported = trail[k].reported
      <3>1. CASE PassNothing(p) \/ LatchFailure(p)
        BY <3>1 DEF PassNothing, LatchFailure
      <3>2. CASE FailAcked(p) \/ DropFailed(p)
        BY <1>1, <1>5, <3>2 DEF FailAcked, DropFailed, HistoryTypeOK
      <3>3. CASE Sweep(p)
        BY <1>1, <1>3, <3>3 DEF Sweep, HistoryTypeOK
      <3> QED BY <3>1, <3>2, <3>3
    <2>2. CASE PrinterOf[k] = p
      BY <1>1, <1>4, <1>5, <2>1, <2>2 DEF ReportedOK, Serving
    <2>3. CASE PrinterOf[k] # p
      <3>1. att'[k] = att[k]
        BY <1>1, <1>5, <2>3 DEF PassNothing, FailAcked, DropFailed, LatchFailure, Sweep, SendsOf,
           spoolVars, SpoolTypeOK
      <3>2. job'[PrinterOf[k]] = job[PrinterOf[k]]
        BY <1>2, <1>4, <2>3 DEF Moved
      <3> QED BY <1>1, <1>4, <2>1, <3>1, <3>2 DEF ReportedOK, Serving, FailureLatched
    <2> QED BY <2>2, <2>3
  <1>6. CASE job[p].send = k
    <2>1. PrinterOf[k] = p
      BY <1>4, <1>6 DEF IInv, OwnSends
    <2>2. CASE PassNothing(p)
      BY <1>1, <1>2, <1>4, <1>6, <2>1, <2>2
         DEF PassNothing, spoolVars, ReportedOK, Serving, FailureLatched, Moved
    <2>3. CASE FailAcked(p)
      <3>1. trail'[k].reported = (row[p].send = k)
        BY <1>1, <1>3, <1>6, <2>3 DEF FailAcked, HistoryTypeOK
      <3> QED BY <1>1, <1>2, <1>6, <2>1, <2>3, <3>1 DEF ReportedOK, Serving, Moved
    <2>4. CASE DropFailed(p)
      <3>1. trail'[k].reported = trail[k].reported
        BY <1>1, <1>3, <1>6, <2>4 DEF DropFailed, HistoryTypeOK
      <3> QED BY <1>1, <1>2, <1>4, <1>6, <2>1, <2>4, <3>1 DEF ReportedOK, Serving, Moved
    <2>5. CASE LatchFailure(p)
      <3>1. FailureLatched(k)' /\ trail' = trail
        BY <1>1, <1>6, <2>5 DEF LatchFailure, FailureLatched, Latched, NoAtt, SpoolTypeOK
      <3> QED BY <1>1, <1>2, <1>4, <1>6, <2>1, <2>5, <3>1 DEF ReportedOK, Serving, Moved
    <2>6. CASE Sweep(p)
      <3>1. att'[k] = att[k] /\ trail'[k] = trail[k] /\ job'[p].pc = "idle" /\ job[p].pc = "sweep"
        BY <1>2, <1>6, <2>6 DEF Sweep, SendsOf, NoJob
      <3> QED BY <1>1, <1>4, <1>6, <2>1, <3>1 DEF ReportedOK, Serving, FailureLatched
    <2> QED BY <2>2, <2>3, <2>4, <2>5, <2>6
  <1> QED BY <1>5, <1>6

\* A step outside the passes that releases no latch of a row that is listed.
LEMMA OutsideReported ==
    ASSUME ReportedInv,
           \A p \in Printers : \/ job'[p].pc = job[p].pc /\ job'[p].send = job[p].send
                               \/ /\ job[p].pc = "idle" /\ job'[p].pc = "pass"
                                  /\ job'[p].send = row[p].send,
           \A k \in Sends : trail'[k].reported =>
              /\ trail[k].reported
              /\ row'[PrinterOf[k]].send = row[PrinterOf[k]].send
              /\ row[PrinterOf[k]].send = k /\ FailureLatched(k) => FailureLatched(k)'
    PROVE  ReportedInv'
  <1> SUFFICES ASSUME NEW k \in Sends, trail'[k].reported PROVE ReportedOK(k)'
    BY DEF ReportedInv, ReportedOK
  <1>1. PrinterOf[k] \in Printers /\ ReportedOK(k) /\ trail[k].reported
    BY ConstFacts DEF ReportedInv
  <1> QED BY <1>1 DEF ReportedOK, Serving

LEMMA OutsideSteps ==
    ASSUME IInv, ReportedInv,
           \/ ReportPass \/ Tick \/ UNCHANGED vars
           \/ \E p \in Printers : PrinterStep(p) \/ CloudStep(p)
    PROVE  ReportedInv'
  <1>1. CloudTypeOK /\ SpoolTypeOK /\ JobTypeOK /\ HistoryTypeOK
    BY DEF IInv, TypeOK
  <1>2. CASE ReportPass
    <2>1. row' = row
      BY <1>2 DEF ReportPass, cloudVars
    <2>2. \A p \in Printers : \/ job'[p].pc = job[p].pc /\ job'[p].send = job[p].send
                              \/ /\ job[p].pc = "idle" /\ job'[p].pc = "pass"
                                 /\ job'[p].send = row[p].send
      <3> SUFFICES ASSUME NEW p \in Printers
                   PROVE  \/ job'[p].pc = job[p].pc /\ job'[p].send = job[p].send
                          \/ /\ job[p].pc = "idle" /\ job'[p].pc = "pass"
                             /\ job'[p].send = row[p].send
        OBVIOUS
      <3>1. \/ job[p].pc = "idle" /\ job'[p] = Submitted(p)
            \/ job'[p] = job[p] \/ job'[p] = [job[p] EXCEPT !.cancel = TRUE]
        BY <1>2 DEF ReportPass
      <3>2. /\ [job[p] EXCEPT !.cancel = TRUE].pc = job[p].pc
            /\ [job[p] EXCEPT !.cancel = TRUE].send = job[p].send
        BY <1>1 DEF JobTypeOK, JobRecords
      <3> QED BY <1>1, <3>1, <3>2, SubmittedType
    <2>3. \A k \in Sends : trail'[k].reported = trail[k].reported
      <3>1. \A k \in Sends : \/ trail'[k] = trail[k]
                             \/ trail'[k] = [trail[k] EXCEPT !.halted = "just"]
        BY <1>2 DEF ReportPass
      <3>2. \A k \in Sends : [trail[k] EXCEPT !.halted = "just"].reported = trail[k].reported
        BY <1>1 DEF HistoryTypeOK, TrailRecords
      <3> QED BY <3>1, <3>2
    <2>4. \A k \in Sends : row[PrinterOf[k]].send = k /\ FailureLatched(k) => FailureLatched(k)'
      <3> SUFFICES ASSUME NEW k \in Sends, row[PrinterOf[k]].send = k, FailureLatched(k)
                   PROVE  FailureLatched(k)'
        OBVIOUS
      <3>1. k \in {row[p].send : p \in Printers} \ {None}
        BY ConstFacts
      <3>2. att'[k] = att[k]
        BY <1>2, <3>1 DEF ReportPass, ReleaseSettled
      <3> QED BY <3>2 DEF FailureLatched
    <2> QED BY <2>1, <2>2, <2>3, <2>4, OutsideReported
  <1>3. CASE Tick
    <2>1. row' = row
      BY <1>3 DEF Tick, cloudVars
    <2>2. \A p \in Printers : job'[p].pc = job[p].pc /\ job'[p].send = job[p].send
      <3> SUFFICES ASSUME NEW p \in Printers
                   PROVE  job'[p].pc = job[p].pc /\ job'[p].send = job[p].send
        OBVIOUS
      <3> DEFINE age == Older(job[p].age, AgeCap)
                 rec == OlderAtt(job[p].rec)
      <3>1. job'[p] = job[p] \/ job'[p] = [job[p] EXCEPT !.age = age, !.rec = rec]
        BY <1>3 DEF Tick
      <3>2. job[p] \in JobRecords
        BY <1>1 DEF JobTypeOK
      <3> HIDE DEF age, rec
      <3> QED BY <3>1, <3>2 DEF JobRecords
    <2>3. \A k \in Sends : trail'[k].reported = trail[k].reported
      <3> SUFFICES ASSUME NEW k \in Sends PROVE trail'[k].reported = trail[k].reported
        OBVIOUS
      <3> DEFINE since == Older(trail[k].since, AgeCap)
                 halted == IF trail[k].halted = "just" THEN "past" ELSE trail[k].halted
      <3>1. trail'[k] = [trail[k] EXCEPT !.since = since, !.halted = halted]
        BY <1>3 DEF Tick
      <3>2. trail[k] \in TrailRecords
        BY <1>1 DEF HistoryTypeOK
      <3> HIDE DEF since, halted
      <3> QED BY <3>1, <3>2 DEF TrailRecords
    <2>4. \A k \in Sends : FailureLatched(k)' <=> FailureLatched(k)
      <3>1. \A k \in Sends : att'[k] = OlderAtt(att[k])
        BY <1>3 DEF Tick
      <3> QED BY <1>1, <3>1, OlderAttType DEF FailureLatched, SpoolTypeOK
    <2> QED BY <2>1, <2>2, <2>3, <2>4, OutsideReported
  <1>4. CASE UNCHANGED vars
    <2>1. UNCHANGED <<row, att, job, trail>>
      BY <1>4 DEF vars, cloudVars, spoolVars
    <2> QED BY <2>1, OutsideReported DEF FailureLatched
  <1>5. ASSUME NEW p \in Printers, PrinterStep(p) PROVE ReportedInv'
    <2>1. UNCHANGED <<row, att, job>>
      BY <1>5 DEF PrinterStep, ReportView, ReportEcho, ReportName, ReportFlag, LinkDown, LinkUp,
         AssignmentSeen, AssignmentEnds, Heard, cloudVars, spoolVars
    <2>2. \A k \in Sends : trail'[k].reported = trail[k].reported
      <3>1. \/ UNCHANGED trail
            \/ trail' = [trail EXCEPT ![dev[p].last] = [trail[dev[p].last] EXCEPT !.ran = TRUE]]
        BY <1>5 DEF PrinterStep, ReportView, ReportEcho, ReportName, ReportFlag, LinkDown, LinkUp,
           AssignmentSeen, AssignmentEnds
      <3>2. \A t \in TrailRecords : [t EXCEPT !.ran = TRUE].reported = t.reported
        BY DEF TrailRecords
      <3> QED BY <1>1, <3>1, <3>2 DEF HistoryTypeOK
    <2> QED BY <2>1, <2>2, OutsideReported DEF FailureLatched
  <1>6. ASSUME NEW p \in Printers, CloudStep(p) PROVE ReportedInv'
    <2>1. UNCHANGED <<att, job>>
      BY <1>6 DEF CloudStep, CloudQueue, CloudDrop, CloudControl, spoolVars
    <2>2. \A k \in Sends : trail'[k].reported =>
             trail[k].reported /\ row'[PrinterOf[k]].send = row[PrinterOf[k]].send
      <3> SUFFICES ASSUME NEW k \in Sends, trail'[k].reported
                   PROVE  trail[k].reported /\ row'[PrinterOf[k]].send = row[PrinterOf[k]].send
        OBVIOUS
      <3>1. PrinterOf[k] \in Printers /\ ReportedOK(k) /\ k # None
        BY ConstFacts DEF ReportedInv
      <3>2. CASE \E j \in Sends : CloudQueue(p, j)
        BY <1>1, <3>1, <3>2 DEF CloudQueue, CloudTypeOK, ReportedOK
      <3>3. CASE CloudDrop(p)
        <4> DEFINE j == row[p].send
        <4>1. /\ trail' = [trail EXCEPT ![j] =
                              [trail[j] EXCEPT !.reported = FALSE, !.halted = "no"]]
              /\ row' = [row EXCEPT ![p] = NoRow]
          BY <3>3 DEF CloudDrop
        <4>2. j # k
          <5>1. \A t \in TrailRecords :
                  [t EXCEPT !.reported = FALSE, !.halted = "no"].reported = FALSE
            BY DEF TrailRecords
          <5> QED BY <1>1, <4>1, <5>1 DEF HistoryTypeOK
        <4>3. trail'[k] = trail[k]
          BY <1>1, <4>1, <4>2 DEF HistoryTypeOK
        <4> QED BY <1>1, <3>1, <4>1, <4>2, <4>3 DEF ReportedOK, CloudTypeOK
      <3>4. CASE \E ctl : CloudControl(p, ctl)
        BY <1>1, <3>1, <3>4 DEF CloudControl, CloudTypeOK
      <3> QED BY <1>6, <3>2, <3>3, <3>4 DEF CloudStep
    <2> QED BY <2>1, <2>2, OutsideReported DEF FailureLatched
  <1> QED BY <1>2, <1>3, <1>4, <1>5, <1>6

LEMMA InitReported == Init => ReportedInv
  BY DEF Init, NoTrail, ReportedInv, ReportedOK

LEMMA NextReported == ASSUME MaxFaults = 0
                      PROVE IInv /\ ReportedInv /\ [Next]_vars => ReportedInv'
  <1> SUFFICES ASSUME IInv, ReportedInv, [Next]_vars PROVE ReportedInv'
    OBVIOUS
  <1>1. ~ReportOutage /\ ~Crash
    BY DEF IInv, TypeOK, HistoryTypeOK, ReportOutage, Crash
  <1>2. ASSUME NEW p \in Printers, Worker(p) PROVE ReportedInv'
    <2>1. CASE FreshStep(p) \/ (WatchdogStep(p) /\ ~PassNothing(p)) \/ FailNotAcked(p)
      BY <2>1, FreeJobs, FreeWrites, FreeReported
    <2>2. CASE PassNothing(p) \/ FailAcked(p) \/ DropFailed(p) \/ LatchFailure(p) \/ Sweep(p)
      BY <2>2, SettleReported
    <2> QED BY <1>2, <2>1, <2>2 DEF Worker, SettleStep
  <1> QED BY <1>1, <1>2, OutsideSteps DEF Next

\* While no request fails and the program runs, a send that was reported failed is
\* not started again as long as the cloud lists it.
THEOREM FailureIsFinal == ASSUME MaxFaults = 0 PROVE Spec => NoStartAfterReportedFailure
  <1>1. IInv /\ ReportedInv /\ [Next]_vars =>
          [\A k \in Sends : Published(k) => ~trail[k].reported]_vars
    <2> SUFFICES ASSUME IInv, ReportedInv, [Next]_vars, NEW k \in Sends, Published(k)
                 PROVE  ~trail[k].reported
      OBVIOUS
    <2>1. Serving(k) /\ job[PrinterOf[k]].pc \in {"start", "republish"}
      BY PublishedBy DEF Start, Republish
    <2> QED BY <2>1 DEF ReportedInv, ReportedOK
  <1>2. IInv /\ ReportedInv /\ [Next]_vars => ReportedInv'
    BY NextReported
  <1> QED BY <1>1, <1>2, InitReported, InitInv, NextInv, PTL
          DEF Spec, NoStartAfterReportedFailure

-----------------------------------------------------------------------------
(* Trays that empty.                                                       *)

\* The tray is present, or emptied since the last tick.
TrayRead(p) == TrayPresent(p) \/ ~dev[p].bare

\* A pass that read its tray publishes before the next tick, unless it makes a
\* fresh copy in between; and what cannot be read has not been seen absent.
TrayReadOK(p) ==
    /\ dev[p].bare => Readable(p)
    /\ job[p].pc = "start" => TrayRead(p)
    /\ job[p].pc \in {"recopy", "republish"} /\ job[p].tray /\ ~job[p].parse => TrayRead(p)

TrayInv == \A p \in Printers : TrayReadOK(p)

\* A step of p's pass that leaves the printers alone.
LEMMA PassTray ==
    ASSUME TrayInv, NEW p \in Printers, dev' = dev,
           \A q \in Printers \ {p} : job'[q] = job[q],
           \/ job'[p].pc \notin {"start", "recopy", "republish"}
           \/ job'[p].pc = "start" /\ TrayPresent(p)
           \/ job'[p].pc = "recopy" /\ job'[p].tray = TrayPresent(p)
           \/ /\ job[p].pc = "recopy" /\ job'[p].pc = "republish"
              /\ job'[p].tray = job[p].tray /\ job'[p].parse = job[p].parse
    PROVE  TrayInv'
  BY DEF TrayInv, TrayReadOK, TrayRead, TrayPresent, Readable

\* A step of the printers' that leaves the passes alone.
LEMMA PrinterTray ==
    ASSUME TrayInv,
           \A q \in Printers : \/ job'[q].pc \notin {"start", "recopy", "republish"}
                               \/ /\ job'[q].pc = job[q].pc /\ job'[q].tray = job[q].tray
                                  /\ job'[q].parse = job[q].parse,
           \A q \in Printers : \/ dev'[q].bare = FALSE
                               \/ /\ dev'[q].bare = dev[q].bare /\ dev'[q].tray = dev[q].tray
                                  /\ dev'[q].link # "offline" \/ dev'[q].link = dev[q].link
    PROVE  TrayInv'
  BY DEF TrayInv, TrayReadOK, TrayRead, TrayPresent, Readable

\* Where a pass goes.
LEMMA GoneTo ==
    ASSUME JobTypeOK, NEW p \in Printers
    PROVE  /\ \A pc : Goto(p, pc) =>
                 job'[p].pc = pc /\ \A q \in Printers \ {p} : job'[q] = job[q]
           /\ \A why : GoFail(p, why) =>
                 job'[p].pc = "fail" /\ \A q \in Printers \ {p} : job'[q] = job[q]
           /\ job' = [job EXCEPT ![p] = NoJob] =>
                 job'[p].pc = "idle" /\ \A q \in Printers \ {p} : job'[q] = job[q]
  BY DEF JobTypeOK, JobRecords, Goto, GoFail, NoJob

LEMMA FreshTray ==
    ASSUME IInv, TrayInv, NEW p \in Printers, FreshStep(p), ~Start(p)
    PROVE  TrayInv'
  <1>1. JobTypeOK
    BY DEF IInv, TypeOK
  <1>2. dev' = dev
    BY DEF FreshStep, FreshWait, FreshRejected, FreshReady, Download,
         DownloadFails, BadPlate, UploadSkipped, Upload, UploadFails, UploadCancelled,
         AuthorizeRefused, AuthorizeOutage, Authorize, StartNotSent, MarkStarted,
         RecordAssignment, RememberAttempt, devVars
  <1>3. CASE Authorize(p)
    BY <1>1, <1>2, <1>3, GoneTo, PassTray DEF Authorize, SlotHeld
  <1>4. CASE \/ FreshWait(p) \/ FreshRejected(p) \/ Download(p) \/ DownloadFails(p)
             \/ BadPlate(p) \/ AuthorizeRefused(p) \/ AuthorizeOutage(p)
             \/ MarkStarted(p) \/ RecordAssignment(p) \/ RememberAttempt(p)
    BY <1>1, <1>2, <1>4, GoneTo, PassTray
       DEF FreshWait, FreshRejected, Download, DownloadFails, BadPlate, AuthorizeRefused,
           AuthorizeOutage, MarkStarted, RecordAssignment, RememberAttempt
  <1>5. CASE FreshReady(p) \/ UploadFails(p) \/ StartNotSent(p) \/ UploadCancelled(p)
    BY <1>1, <1>2, <1>5, GoneTo, PassTray
       DEF FreshReady, SlotHeld, CountSetupFailure, UploadFails, StartNotSent, UploadCancelled
  <1>6. CASE UploadSkipped(p) \/ Upload(p)
    <2>1. job' = [job EXCEPT ![p].pc = "auth", ![p].cancel = FALSE]
      BY <1>6 DEF UploadSkipped, Upload
    <2>2. job'[p].pc = "auth" /\ \A q \in Printers \ {p} : job'[q] = job[q]
      BY <1>1, <2>1 DEF JobTypeOK, JobRecords
    <2> QED BY <1>2, <2>2, PassTray
  <1> QED BY <1>3, <1>4, <1>5, <1>6 DEF FreshStep

LEMMA WatchdogTray ==
    ASSUME IInv, TrayInv, NEW p \in Printers,
           (WatchdogStep(p) /\ ~Republish(p)) \/ SettleStep(p)
    PROVE  TrayInv'
  <1>1. JobTypeOK /\ DevTypeOK
    BY DEF IInv, TypeOK
  <1>2. CASE \/ PassNothing(p) \/ PassCancel(p) \/ PassKnown(p) \/ AdvanceDispatched(p)
             \/ AdvanceConfirm(p) \/ AdvanceEnterB(p) \/ AdvanceWait(p) \/ AdvanceFail(p)
             \/ MarkConfirmed(p) \/ ResaveAttempt(p) \/ ResaveFails(p)
    BY <1>1, <1>2, GoneTo, PassTray
       DEF PassNothing, PassCancel, PassKnown, AdvanceDispatched, AdvanceConfirm,
           MarkConfirmed, AdvanceEnterB, AdvanceWait, AdvanceFail, ResaveAttempt,
           ResaveFails, devVars
  <1>3. CASE \/ FailNotAcked(p) \/ FailAcked(p) \/ DropFailed(p) \/ LatchFailure(p) \/ Sweep(p)
             \/ RepublishHeld(p) \/ RepublishNotSent(p)
    BY <1>1, <1>3, GoneTo, PassTray
       DEF FailNotAcked, FailAcked, DropFailed, LatchFailure, Sweep, RepublishHeld,
           RepublishNotSent, SlotHeld, devVars
  <1>4. CASE AdvanceReset(p)
    <2>1. /\ job'[p].pc \in {"sweep", "fail"} /\ \A q \in Printers \ {p} : job'[q] = job[q]
          /\ \/ UNCHANGED dev
             \/ dev' = [dev EXCEPT ![p].up = FALSE, ![p].link = "stale"]
      BY <1>1, <1>4, GoneTo DEF AdvanceReset
    <2>2. \A q \in Printers :
            /\ dev'[q].bare = dev[q].bare /\ dev'[q].tray = dev[q].tray
            /\ dev'[q].link = "stale" \/ dev'[q].link = dev[q].link
      BY <1>1, <2>1 DEF DevTypeOK, DevRecords
    <2>3. \A q \in Printers : \/ job'[q].pc \notin {"start", "recopy", "republish"}
                              \/ /\ job'[q].pc = job[q].pc /\ job'[q].tray = job[q].tray
                                 /\ job'[q].parse = job[q].parse
      BY <2>1
    <2>4. \A q \in Printers :
            \/ dev'[q].bare = FALSE
            \/ /\ dev'[q].bare = dev[q].bare /\ dev'[q].tray = dev[q].tray
               /\ dev'[q].link # "offline" \/ dev'[q].link = dev[q].link
      BY <2>2
    <2> QED BY <2>3, <2>4, PrinterTray
  <1>5. CASE AdvanceRepublish(p)
    <2>1. dev' = dev
      BY <1>5 DEF AdvanceRepublish, devVars
    <2>2. CASE Goto(p, "sweep")
      BY <1>1, <2>1, <2>2, GoneTo, PassTray
    <2>3. CASE ~Goto(p, "sweep")
      <3>1. PICK verdict \in {"republish", "retry"} :
              job' = [job EXCEPT ![p].pc = "recopy", ![p].age = 0,
                                 ![p].retry = (verdict = "retry"),
                                 ![p].tray = TrayPresent(p),
                                 ![p].parse = dev[p].parse /\ Readable(p),
                                 ![p].rec = LoadAttempt(p, job[p].send)]
        BY <1>5, <2>3 DEF AdvanceRepublish
      <3> DEFINE tray  == TrayPresent(p)
                 parse == dev[p].parse /\ Readable(p)
                 rec   == LoadAttempt(p, job[p].send)
                 retry == verdict = "retry"
      <3>2. job' = [job EXCEPT ![p].pc = "recopy", ![p].age = 0, ![p].retry = retry,
                               ![p].tray = tray, ![p].parse = parse, ![p].rec = rec]
        BY <3>1
      <3> HIDE DEF tray, parse, rec, retry
      <3>3. /\ job'[p].pc = "recopy" /\ job'[p].tray = tray
            /\ \A q \in Printers \ {p} : job'[q] = job[q]
        BY <1>1, <3>2 DEF JobTypeOK, JobRecords
      <3> QED BY <2>1, <3>3, PassTray DEF tray
    <2> QED BY <2>2, <2>3
  <1>6. CASE Recopy(p)
    <2>1. dev' = dev /\ job[p].pc = "recopy"
          /\ job' = [job EXCEPT ![p].pc = "republish", ![p].cancel = FALSE]
      BY <1>6 DEF Recopy
    <2>2. /\ job'[p].pc = "republish" /\ job'[p].tray = job[p].tray
          /\ job'[p].parse = job[p].parse /\ \A q \in Printers \ {p} : job'[q] = job[q]
      BY <1>1, <2>1 DEF JobTypeOK, JobRecords
    <2> QED BY <2>1, <2>2, PassTray
  <1> QED BY <1>2, <1>3, <1>4, <1>5, <1>6 DEF WatchdogStep, SettleStep

\* A step that changes one printer and no pass.
LEMMA OnePrinterTray ==
    ASSUME IInv, TrayInv, NEW p \in Printers, UNCHANGED job,
           \A q \in Printers \ {p} : dev'[q] = dev[q],
           \/ dev'[p].bare = FALSE
           \/ /\ dev'[p].bare = dev[p].bare /\ dev'[p].tray = dev[p].tray
              /\ dev'[p].link # "offline" \/ dev'[p].link = dev[p].link
    PROVE  TrayInv'
  BY PrinterTray

LEMMA StartTray ==
    ASSUME IInv, TrayInv, NEW p \in Printers, Start(p) \/ Republish(p)
    PROVE  TrayInv'
  <1>1. JobTypeOK /\ DevTypeOK
    BY DEF IInv, TypeOK
  <1>2. /\ job'[p].pc \in {"mark", "resave"} /\ \A q \in Printers \ {p} : job'[q] = job[q]
        /\ dev' = [dev EXCEPT ![p] = [dev[p] EXCEPT !.sub = @ + 1, !.last = job[p].send]]
    BY <1>1, GoneTo DEF Start, Republish, Publish
  <1>3. \A q \in Printers : /\ dev'[q].bare = dev[q].bare
                            /\ dev'[q].tray = dev[q].tray
                            /\ dev'[q].link = dev[q].link
    BY <1>1, <1>2 DEF DevTypeOK, DevRecords
  <1> QED BY <1>2, <1>3, PrinterTray

LEMMA HeardTray ==
    ASSUME IInv, TrayInv, NEW p \in Printers, PrinterStep(p)
    PROVE  TrayInv'
  <1>1. DevTypeOK
    BY DEF IInv, TypeOK
  <1>2. UNCHANGED job
    BY DEF PrinterStep, ReportView, ReportEcho, ReportName, Heard, ReportFlag, LinkDown,
       LinkUp, AssignmentSeen, AssignmentEnds
  <1>3. ASSUME NEW field \in {"view", "echo", "name"}, NEW value, Heard(p, field, value)
        PROVE  TrayInv'
    <2>1. dev' = [dev EXCEPT ![p] = [dev[p] EXCEPT !.quiet = 0, !.link = "live",
                                                   ![field] = value]]
      BY <1>3 DEF Heard
    <2>2. /\ dev'[p].bare = dev[p].bare /\ dev'[p].tray = dev[p].tray /\ dev'[p].link = "live"
          /\ \A q \in Printers \ {p} : dev'[q] = dev[q]
      BY <1>1, <1>3, <2>1 DEF DevTypeOK, DevRecords
    <2> QED BY <1>2, <2>2, OnePrinterTray
  <1>4. ASSUME NEW flag \in {"tray", "parse", "rejects"}, ReportFlag(p, flag)
        PROVE  TrayInv'
    <2> DEFINE bare == dev[p].bare /\ flag # "tray"
               turned == ~dev[p][flag]
    <2>1. dev' = [dev EXCEPT ![p] = [dev[p] EXCEPT !.quiet = 0, !.link = "live",
                                                   !.bare = bare, ![flag] = turned]]
      BY <1>1, <1>4 DEF ReportFlag, DevTypeOK, DevRecords
    <2>2. bare = FALSE \/ (bare = dev[p].bare /\ flag # "tray")
      BY <1>1 DEF DevTypeOK, DevRecords
    <2> HIDE DEF bare, turned
    <2>3. /\ dev'[p].bare = bare /\ dev'[p].link = "live"
          /\ flag # "tray" => dev'[p].tray = dev[p].tray
          /\ \A q \in Printers \ {p} : dev'[q] = dev[q]
      BY <1>1, <1>4, <2>1 DEF DevTypeOK, DevRecords
    <2> QED BY <1>2, <2>2, <2>3, OnePrinterTray
  <1>5. CASE LinkDown(p)
    <2>1. \/ dev' = [dev EXCEPT ![p].up = FALSE, ![p].link = "stale"]
          \/ dev' = [dev EXCEPT ![p].link = "stale"]
          \/ dev' = [dev EXCEPT ![p].link = "offline", ![p].bare = FALSE]
      BY <1>5 DEF LinkDown
    <2>2. /\ \/ dev'[p].bare = FALSE
             \/ /\ dev'[p].bare = dev[p].bare /\ dev'[p].tray = dev[p].tray
                /\ dev'[p].link = "stale"
          /\ \A q \in Printers \ {p} : dev'[q] = dev[q]
      BY <1>1, <2>1 DEF DevTypeOK, DevRecords
    <2> QED BY <1>2, <2>2, OnePrinterTray
  <1>6. CASE LinkUp(p)
    <2>1. /\ dev'[p].bare = dev[p].bare /\ dev'[p].tray = dev[p].tray /\ dev'[p].link = "stale"
          /\ \A q \in Printers \ {p} : dev'[q] = dev[q]
      BY <1>1, <1>6 DEF LinkUp, DevTypeOK, DevRecords
    <2> QED BY <1>2, <2>1, OnePrinterTray
  <1>7. CASE AssignmentSeen(p) \/ AssignmentEnds(p)
    <2>1. dev' = dev
      BY <1>7 DEF AssignmentSeen, AssignmentEnds, devVars
    <2> QED BY <1>2, <2>1, PrinterTray
  <1> QED BY <1>3, <1>4, <1>5, <1>6, <1>7
          DEF PrinterStep, ReportView, ReportEcho, ReportName

\* A tick finds no pass between its reading and its publish, but for a fresh copy.
LEMMA TickTray ==
    ASSUME IInv, TrayInv, Tick
    PROVE  TrayInv'
  <1> SUFFICES ASSUME NEW p \in Printers PROVE TrayReadOK(p)'
    BY DEF TrayInv
  <1>1. JobTypeOK /\ DevTypeOK /\ Waiting(p)
    BY DEF IInv, TypeOK, Tick
  <1>2. dev'[p].bare => Readable(p)'
    <2> DEFINE quiet == Older(dev[p].quiet, AgeCap)
               bare  == ~TrayPresent(p)
    <2>1. dev'[p] = [dev[p] EXCEPT !.quiet = quiet, !.bare = bare]
      BY DEF Tick
    <2>2. bare => dev[p].link # "offline"
      BY DEF TrayPresent, Readable
    <2> HIDE DEF quiet, bare
    <2>3. dev'[p].bare = bare /\ dev'[p].link = dev[p].link
      BY <1>1, <2>1 DEF DevTypeOK, DevRecords
    <2> QED BY <2>2, <2>3 DEF Readable
  <1>3. job'[p].pc = job[p].pc /\ job'[p].parse = job[p].parse
    <2> DEFINE age == Older(job[p].age, AgeCap)
               rec == OlderAtt(job[p].rec)
    <2>1. job'[p] = job[p] \/ job'[p] = [job[p] EXCEPT !.age = age, !.rec = rec]
      BY DEF Tick
    <2>2. job[p] \in JobRecords
      BY <1>1 DEF JobTypeOK
    <2> HIDE DEF age, rec
    <2> QED BY <2>1, <2>2 DEF JobRecords
  <1>4. job[p].pc \notin {"start", "republish"} /\ (job[p].pc = "recopy" => job[p].parse)
    BY <1>1 DEF Waiting, LongSteps
  <1> QED BY <1>2, <1>3, <1>4 DEF TrayReadOK

LEMMA InitTray == Init => TrayInv
  BY DEF Init, TrayInv, TrayReadOK, NewDev, NoJob

LEMMA NextTray == IInv /\ TrayInv /\ [Next]_vars => TrayInv'
  <1> SUFFICES ASSUME IInv, TrayInv, [Next]_vars PROVE TrayInv'
    OBVIOUS
  <1>0. JobTypeOK /\ DevTypeOK
    BY DEF IInv, TypeOK
  <1>1. CASE \E p \in Printers : Worker(p)
    BY <1>1, FreshTray, StartTray, WatchdogTray DEF Worker
  <1>2. CASE \E p \in Printers : PrinterStep(p)
    BY <1>2, HeardTray
  <1>3. CASE (\E p \in Printers : CloudStep(p)) \/ ReportOutage \/ UNCHANGED vars
    <2>1. UNCHANGED <<job, dev>>
      BY <1>3 DEF CloudStep, CloudQueue, CloudDrop, CloudControl, ReportOutage, vars, devVars
    <2> QED BY <2>1, PrinterTray
  <1>4. CASE ReportPass
    <2>1. dev' = dev
      BY <1>4 DEF ReportPass, devVars
    <2>2. \A q \in Printers : \/ job'[q].pc = "pass"
                              \/ /\ job'[q].pc = job[q].pc /\ job'[q].tray = job[q].tray
                                 /\ job'[q].parse = job[q].parse
      <3> SUFFICES ASSUME NEW q \in Printers
                   PROVE  \/ job'[q].pc = "pass"
                          \/ /\ job'[q].pc = job[q].pc /\ job'[q].tray = job[q].tray
                             /\ job'[q].parse = job[q].parse
        OBVIOUS
      <3>1. \/ job'[q] = Submitted(q)
            \/ job'[q] = job[q] \/ job'[q] = [job[q] EXCEPT !.cancel = TRUE]
        BY <1>4 DEF ReportPass
      <3>2. Submitted(q).pc = "pass"
        BY SubmittedType DEF IInv, TypeOK
      <3>3. LET new == [job[q] EXCEPT !.cancel = TRUE]
            IN  new.pc = job[q].pc /\ new.tray = job[q].tray /\ new.parse = job[q].parse
        BY <1>0 DEF JobTypeOK, JobRecords
      <3> QED BY <3>1, <3>2, <3>3
    <2>3. \A q \in Printers : \/ job'[q].pc \notin {"start", "recopy", "republish"}
                              \/ /\ job'[q].pc = job[q].pc /\ job'[q].tray = job[q].tray
                                 /\ job'[q].parse = job[q].parse
      BY <2>2
    <2> QED BY <2>1, <2>3, PrinterTray
  <1>5. CASE Crash
    <2>1. \A q \in Printers : job'[q].pc = "idle" /\ dev'[q].bare = FALSE
      <3> SUFFICES ASSUME NEW q \in Printers PROVE job'[q].pc = "idle" /\ dev'[q].bare = FALSE
        OBVIOUS
      <3>1. /\ job'[q] = NoJob
            /\ dev'[q] = [dev[q] EXCEPT !.up = FALSE, !.link = "offline",
                                        !.view = "ready", !.bare = FALSE]
        BY <1>5 DEF Crash
      <3> QED BY <1>0, <3>1 DEF NoJob, DevTypeOK, DevRecords
    <2> QED BY <2>1, PrinterTray
  <1>6. CASE Tick
    BY <1>6, TickTray
  <1> QED BY <1>1, <1>2, <1>3, <1>4, <1>5, <1>6 DEF Next

\* No start is published while a tray it maps has read absent for some time, for
\* any printers, sends, restarts and faults; only the watchdog's pass that makes a
\* fresh copy goes by an older reading (app.py _handle_cloud_sends, _slot_hold).
THEOREM TraysAreRead == Spec => NoStartOnEmptyTray
  <1>1. IInv /\ TrayInv /\ [Next]_vars =>
          [\A k \in Sends : Published(k) =>
             LET p == PrinterOf[k] IN
             \/ TrayPresent(p) \/ ~dev[p].bare
             \/ job[p].pc = "republish" /\ job[p].parse]_vars
    <2> SUFFICES ASSUME IInv, TrayInv, [Next]_vars, NEW k \in Sends, Published(k)
                 PROVE  LET p == PrinterOf[k] IN
                        \/ TrayPresent(p) \/ ~dev[p].bare
                        \/ job[p].pc = "republish" /\ job[p].parse
      OBVIOUS
    <2> DEFINE p == PrinterOf[k]
    <2>1. p \in Printers /\ (Start(p) \/ Republish(p))
      BY PublishedBy, ConstFacts
    <2> HIDE DEF p
    <2>2. \/ job[p].pc = "start"
          \/ job[p].pc = "republish" /\ job[p].tray
      BY <2>1 DEF Start, Republish
    <2>3. \/ TrayPresent(p) \/ ~dev[p].bare
          \/ job[p].pc = "republish" /\ job[p].parse
      BY <2>1, <2>2 DEF TrayInv, TrayReadOK, TrayRead
    <2> QED BY <2>3 DEF p
  <1> QED BY <1>1, InitTray, NextTray, InitInv, NextInv, PTL DEF Spec, NoStartOnEmptyTray

-----------------------------------------------------------------------------
(* Files: what a start finds on the card.                                  *)

\* Of a send that is queued once: before it is served nothing was uploaded for it;
\* what its record calls uploaded lies on the card as long as it was not started;
\* and a pass that gets past the upload has put it there.
CardOK(k) ==
    LET p == PrinterOf[k] IN
    /\ \/ ver[k] = 0
       \/ row[p].send = k /\ job[p].pc # "idle" /\ ~Serving(k)
       => ~UploadedAlready(k)
    /\ /\ row[p].send = k \/ Serving(k)
       /\ UploadedAlready(k) /\ ~FailureLatched(k) /\ marker[k] = None
       => card[k] = 1
    /\ Serving(k) => /\ job[p].url = 1
                     /\ job[p].pc \in {"download", "upload"} => ~FailureLatched(k)
                     /\ job[p].pc = "upload" => file[k] = 1
                     /\ job[p].pc \in {"auth", "start"} => card[k] = 1

CardInv == \A k \in Sends : CardOK(k)

\* The pass goes on, for the file it began with, or ends.
Keeps(p, pc) == Moved(p, pc) /\ job'[p].url = job[p].url

Ends(p) ==
    /\ job'[p].pc = "idle" /\ job'[p].send = None
    /\ \A q \in Printers \ {p} : job'[q] = job[q]

LEMMA Keeping ==
    ASSUME JobTypeOK, NEW p \in Printers
    PROVE  /\ \A pc : Goto(p, pc) => Keeps(p, pc)
           /\ \A why : GoFail(p, why) => Keeps(p, "fail")
           /\ \A pc : job' = [job EXCEPT ![p].pc = pc, ![p].cancel = FALSE] => Keeps(p, pc)
           /\ \A retry, tray, parse, rec :
                 job' = [job EXCEPT ![p] = RecopyOf(job[p], retry, tray, parse, rec)]
                   => Keeps(p, "recopy")
           /\ job' = [job EXCEPT ![p] = NoJob] => Ends(p)
  <1>1. \A pc : Goto(p, pc) => Keeps(p, pc)
    BY DEF JobTypeOK, JobRecords, Goto, Keeps, Moved
  <1>2. \A why : GoFail(p, why) => Keeps(p, "fail")
    BY DEF JobTypeOK, JobRecords, GoFail, Keeps, Moved
  <1>3. \A pc : job' = [job EXCEPT ![p].pc = pc, ![p].cancel = FALSE] => Keeps(p, pc)
    BY DEF JobTypeOK, JobRecords, Keeps, Moved
  <1>4. ASSUME NEW retry, NEW tray, NEW parse, NEW rec,
               job' = [job EXCEPT ![p] = RecopyOf(job[p], retry, tray, parse, rec)]
        PROVE  Keeps(p, "recopy")
    <2>1. \A j \in JobRecords : LET new == RecopyOf(j, retry, tray, parse, rec)
                                IN  new.pc = "recopy" /\ new.send = j.send /\ new.url = j.url
      BY DEF RecopyOf, JobRecords
    <2>2. job'[p] = RecopyOf(job[p], retry, tray, parse, rec)
          /\ \A q \in Printers \ {p} : job'[q] = job[q]
      BY <1>4 DEF JobTypeOK
    <2> QED BY <2>1, <2>2 DEF Keeps, Moved, JobTypeOK
  <1>5. job' = [job EXCEPT ![p] = NoJob] => Ends(p)
    BY DEF JobTypeOK, Ends, NoJob
  <1> QED BY <1>1, <1>2, <1>3, <1>4, <1>5

\* What a step of p's pass has to show: it uploads nothing for the sends it is not
\* about, and of its own it leaves on the card what it says.
LEMMA PassCard ==
    ASSUME IInv, OnceInv, CardInv, NEW p \in Printers, job[p].pc # "idle",
           UNCHANGED cloudVars, NEW pc, Keeps(p, pc) \/ (pc = "idle" /\ Ends(p)),
           \A k \in Sends \ {job[p].send} :
              /\ UploadedAlready(k)' => UploadedAlready(k)
              /\ PrinterOf[k] # p => /\ att'[k] = att[k] /\ marker'[k] = marker[k]
                                     /\ file'[k] = file[k] /\ card'[k] = card[k],
           \A k \in Sends : k = job[p].send =>
              /\ UploadedAlready(k)' /\ ~FailureLatched(k)' /\ marker'[k] = None
                   => card'[k] = 1
              /\ pc \in {"download", "upload"} => ~FailureLatched(k)'
              /\ pc = "upload" => file'[k] = 1
              /\ pc \in {"auth", "start"} => card'[k] = 1
    PROVE  CardInv'
  <1> SUFFICES ASSUME NEW k \in Sends PROVE CardOK(k)'
    BY DEF CardInv
  <1>1. /\ PrinterOf[k] \in Printers /\ k # None
        /\ CardOK(k) /\ Unseen(k) /\ row' = row /\ ver' = ver
    BY ConstFacts DEF CardInv, OnceInv, cloudVars
  <1>2. /\ \A q \in Printers \ {p} : job'[q] = job[q]
        /\ job'[p].pc = pc
        /\ \/ job'[p].send = job[p].send /\ job'[p].url = job[p].url
           \/ job'[p].send = None /\ pc = "idle"
    BY DEF Keeps, Moved, Ends
  <1>3. CASE PrinterOf[k] # p
    <2>1. /\ k # job[p].send
      BY <1>3, ConstFacts DEF IInv, OwnSends
    <2>2. /\ att'[k] = att[k] /\ marker'[k] = marker[k]
          /\ file'[k] = file[k] /\ card'[k] = card[k]
      BY <1>3, <2>1
    <2> QED BY <1>1, <1>2, <1>3, <2>2 DEF CardOK, Serving, UploadedAlready, FailureLatched
  <1>4. CASE PrinterOf[k] = p /\ k # job[p].send
    <2>1. ~Serving(k) /\ ~Serving(k)'
      BY <1>1, <1>2, <1>4 DEF Serving
    <2>2. UploadedAlready(k)' => UploadedAlready(k)
      BY <1>4
    <2> QED BY <1>1, <1>4, <2>1, <2>2 DEF CardOK
  <1>5. CASE PrinterOf[k] = p /\ k = job[p].send
    <2>1. Serving(k) /\ ver[k] # 0 /\ job[p].url = 1
      BY <1>1, <1>5 DEF Serving, Unseen, CardOK
    <2>2. Serving(k)' => job'[p].url = 1
      BY <1>1, <1>2, <1>5, <2>1 DEF Serving
    <2>3. ~Serving(k)' => pc = "idle"
      BY <1>2, <1>5 DEF Serving
    <2> QED BY <1>1, <1>2, <1>5, <2>1, <2>2, <2>3 DEF CardOK
  <1> QED BY <1>3, <1>4, <1>5

\* What the send being served has on the card before it is started.
LEMMA OwnCard ==
    ASSUME IInv, CardInv, NEW p \in Printers, NEW k \in Sends, k = job[p].send
    PROVE  /\ PrinterOf[k] = p /\ Serving(k) /\ job[p].url = 1
           /\ UploadedAlready(k) /\ ~FailureLatched(k) /\ marker[k] = None => card[k] = 1
           /\ job[p].pc \in {"download", "upload"} => ~FailureLatched(k)
           /\ job[p].pc = "upload" => file[k] = 1
           /\ job[p].pc \in {"auth", "start"} => card[k] = 1
  <1>1. PrinterOf[k] = p
    BY ConstFacts DEF IInv, OwnSends
  <1> QED BY <1>1 DEF CardInv, CardOK, Serving

\* A step that leaves the records, the markers and the card alone.
LEMMA StillCard ==
    ASSUME IInv, OnceInv, CardInv, NEW p \in Printers, job[p].pc # "idle",
           UNCHANGED <<cloudVars, att, card>>,
           NEW pc, Keeps(p, pc) \/ (pc = "idle" /\ Ends(p)),
           \A k \in Sends : \/ marker'[k] = marker[k]
                            \/ k = job[p].send /\ marker'[k] # None,
           \A k \in Sends \ {job[p].send} : file'[k] = file[k],
           \A k \in Sends : k = job[p].send =>
              /\ pc \in {"download", "upload"} => ~FailureLatched(k)
              /\ pc = "upload" => file'[k] = 1
              /\ pc \in {"auth", "start"} => card[k] = 1
    PROVE  CardInv'
  <1>1. \A k \in Sends \ {job[p].send} :
           /\ UploadedAlready(k)' => UploadedAlready(k)
           /\ PrinterOf[k] # p => /\ att'[k] = att[k] /\ marker'[k] = marker[k]
                                  /\ file'[k] = file[k] /\ card'[k] = card[k]
    BY DEF UploadedAlready
  <1>2. \A k \in Sends : k = job[p].send =>
           /\ UploadedAlready(k)' /\ ~FailureLatched(k)' /\ marker'[k] = None
                => card'[k] = 1
           /\ pc \in {"download", "upload"} => ~FailureLatched(k)'
           /\ pc = "upload" => file'[k] = 1
           /\ pc \in {"auth", "start"} => card'[k] = 1
    <2> SUFFICES ASSUME NEW k \in Sends, k = job[p].send
                 PROVE  /\ UploadedAlready(k)' /\ ~FailureLatched(k)' /\ marker'[k] = None
                             => card'[k] = 1
                        /\ pc \in {"download", "upload"} => ~FailureLatched(k)'
                        /\ pc = "upload" => file'[k] = 1
                        /\ pc \in {"auth", "start"} => card'[k] = 1
      OBVIOUS
    <2>1. UploadedAlready(k) /\ ~FailureLatched(k) /\ marker[k] = None => card[k] = 1
      BY OwnCard
    <2> QED BY <2>1 DEF UploadedAlready, FailureLatched
  <1> QED BY <1>1, <1>2, PassCard

\* Where the steps go that upload nothing.
LEMMA QuietCard ==
    ASSUME IInv, OnceInv, CardInv, NEW p \in Printers,
           \/ PassNothing(p) \/ PassKnown(p) \/ FreshWait(p) \/ FreshRejected(p)
           \/ DownloadFails(p) \/ BadPlate(p) \/ AuthorizeRefused(p) \/ AuthorizeOutage(p)
           \/ Start(p) \/ StartNotSent(p) \/ MarkStarted(p) \/ RecordAssignment(p)
           \/ AdvanceDispatched(p) \/ AdvanceConfirm(p) \/ AdvanceWait(p) \/ AdvanceFail(p)
           \/ AdvanceRepublish(p) \/ Republish(p) \/ FailNotAcked(p) \/ FailAcked(p)
           \/ MarkConfirmed(p) \/ ResaveFails(p)
    PROVE  CardInv'
  <1>0. JobTypeOK /\ SpoolTypeOK
    BY DEF IInv, TypeOK
  <1>1. ASSUME UNCHANGED <<cloudVars, att, card>>, job[p].pc # "idle",
               NEW pc \in {"sweep", "fail", "advance", "mark", "assign", "remember", "recopy",
                           "resave", "drop", "confirm"}, Keeps(p, pc),
               \A k \in Sends : marker'[k] = marker[k]
                                \/ (k = job[p].send /\ marker'[k] # None),
               \A k \in Sends \ {job[p].send} : file'[k] = file[k]
        PROVE  CardInv'
    BY <1>1, StillCard
  <1>2. CASE \/ PassNothing(p) \/ PassKnown(p) \/ FreshWait(p) \/ FreshRejected(p)
             \/ DownloadFails(p) \/ AuthorizeRefused(p) \/ AuthorizeOutage(p)
    <2>1. UNCHANGED <<cloudVars, att, card, marker, file>> /\ job[p].pc # "idle"
      BY <1>2 DEF PassNothing, PassKnown, FreshWait, FreshRejected, DownloadFails,
         AuthorizeRefused, AuthorizeOutage, spoolVars, devVars
    <2>2. Keeps(p, "sweep") \/ Keeps(p, "fail") \/ Keeps(p, "advance")
      BY <1>0, <1>2, Keeping DEF PassNothing, PassKnown, FreshWait, FreshRejected,
         DownloadFails, AuthorizeRefused, AuthorizeOutage
    <2> QED BY <1>1, <2>1, <2>2
  <1>3. CASE \/ AdvanceDispatched(p) \/ AdvanceWait(p) \/ AdvanceFail(p) \/ Republish(p)
             \/ FailNotAcked(p) \/ FailAcked(p)
    <2>1. UNCHANGED <<cloudVars, att, card, marker, file>> /\ job[p].pc # "idle"
      BY <1>3 DEF AdvanceDispatched, AdvanceWait, AdvanceFail, Advancing, Republish,
         FailNotAcked, FailAcked, spoolVars, devVars
    <2>2. Keeps(p, "sweep") \/ Keeps(p, "fail") \/ Keeps(p, "resave") \/ Keeps(p, "drop")
      BY <1>0, <1>3, Keeping DEF AdvanceDispatched, AdvanceWait, AdvanceFail, Republish,
         FailNotAcked, FailAcked
    <2> QED BY <1>1, <2>1, <2>2
  <1>4. CASE Start(p) \/ RecordAssignment(p) \/ StartNotSent(p)
    <2>1. UNCHANGED <<cloudVars, att, card, marker, file>> /\ job[p].pc # "idle"
      BY <1>4 DEF Start, RecordAssignment, StartNotSent, spoolVars, devVars
    <2>2. Keeps(p, "mark") \/ Keeps(p, "remember") \/ Keeps(p, "sweep") \/ Keeps(p, "fail")
      BY <1>0, <1>4, Keeping DEF Start, RecordAssignment, StartNotSent, CountSetupFailure
    <2> QED BY <1>1, <2>1, <2>2
  <1>5. CASE \/ BadPlate(p) \/ AdvanceConfirm(p) \/ MarkConfirmed(p)
             \/ MarkStarted(p)
    <2>1. UNCHANGED <<cloudVars, att, card>> /\ job[p].pc # "idle"
      BY <1>5 DEF BadPlate, AdvanceConfirm, Advancing, MarkConfirmed, MarkStarted, spoolVars,
         devVars
    <2>2. \/ Keeps(p, "fail") \/ Keeps(p, "confirm") \/ Keeps(p, "sweep")
          \/ Keeps(p, "assign")
      BY <1>0, <1>5, Keeping DEF BadPlate, AdvanceConfirm, MarkConfirmed, MarkStarted
    <2>3. /\ \A k \in Sends : marker'[k] = marker[k]
                              \/ (k = job[p].send /\ marker'[k] # None)
          /\ \A k \in Sends \ {job[p].send} : file'[k] = file[k]
      BY <1>0, <1>5, MarkerPresent DEF BadPlate, AdvanceConfirm, MarkConfirmed, MarkStarted,
         SpoolTypeOK
    <2> QED BY <1>1, <2>1, <2>2, <2>3
  <1>6. CASE AdvanceRepublish(p)
    <2>1. UNCHANGED <<cloudVars, att, card, marker, file>> /\ job[p].pc # "idle"
      BY <1>6 DEF AdvanceRepublish, Advancing, spoolVars, devVars
    <2>2. \/ Goto(p, "sweep")
          \/ \E verdict \in {"republish", "retry"} :
               job' = [job EXCEPT ![p] = RecopyOf(job[p], verdict = "retry", TrayPresent(p),
                              dev[p].parse /\ Readable(p), LoadAttempt(p, job[p].send))]
      BY <1>6 DEF AdvanceRepublish, RecopyOf
    <2>3. Keeps(p, "sweep") \/ Keeps(p, "recopy")
      BY <1>0, <2>2, Keeping
    <2> QED BY <1>1, <2>1, <2>3
  <1>7. CASE ResaveFails(p)
    <2>1. UNCHANGED <<cloudVars, att, card, marker, file>> /\ job[p].pc # "idle"
      BY <1>7 DEF ResaveFails, spoolVars, devVars
    <2>2. Keeps(p, "idle") \/ ("idle" = "idle" /\ Ends(p))
      BY <1>0, <1>7, Keeping DEF ResaveFails
    <2> QED BY <2>1, <2>2, StillCard
  <1> QED BY <1>2, <1>3, <1>4, <1>5, <1>6, <1>7

\* On the way of a fresh send to its start.
LEMMA FreshCard ==
    ASSUME MaxVer = 1, IInv, OnceInv, CardInv, NEW p \in Printers,
           \/ FreshReady(p) \/ Download(p) \/ UploadSkipped(p) \/ Authorize(p)
    PROVE  CardInv'
  <1> DEFINE k == job[p].send
  <1>0. JobTypeOK /\ SpoolTypeOK
    BY DEF IInv, TypeOK
  <1>1. /\ k \in Sends /\ job[p].pc # "idle" /\ UNCHANGED <<cloudVars, att, card, marker>>
        /\ \A j \in Sends \ {k} : file'[j] = file[j]
    <2>1. k \in Sends
      BY <1>0, ConstFacts DEF IInv, OwnSends, FreshReady, Download, UploadSkipped, Authorize,
         JobTypeOK, JobRecords
    <2> QED BY <1>0, <2>1 DEF FreshReady, Download, UploadSkipped, Authorize, spoolVars,
               devVars, SpoolTypeOK
  <1>2. /\ UploadedAlready(k) /\ ~FailureLatched(k) /\ marker[k] = None => card[k] = 1
        /\ job[p].pc \in {"download", "upload"} => ~FailureLatched(k)
        /\ job[p].pc = "auth" => card[k] = 1
        /\ job[p].url = 1 /\ Serving(k) /\ PrinterOf[k] = p
    BY <1>1, OwnCard
  <1>3. CASE FreshReady(p)
    <2>1. ~FailureLatched(k)
      BY <1>3 DEF FreshReady
    <2>2. PICK pc \in {"download", "sweep", "fail"} : Keeps(p, pc)
      BY <1>0, <1>3, Keeping DEF FreshReady, SlotHeld
    <2> QED BY <1>1, <2>1, <2>2, StillCard
  <1>4. CASE Download(p)
    <2>1. job[p].pc = "download" /\ file'[k] = 1
      BY <1>0, <1>1, <1>2, <1>4 DEF Download, SpoolTypeOK
    <2>2. Keeps(p, "upload")
      BY <1>0, <1>4, Keeping DEF Download
    <2> QED BY <1>1, <1>2, <2>1, <2>2, StillCard
  <1>5. CASE UploadSkipped(p)
    <2>1. job[p].pc = "upload" /\ UploadedAlready(k)
      BY <1>5 DEF UploadSkipped
    <2>2. marker[k] = None
      BY <1>1, <1>2, <2>1 DEF OnceInv, GoesByMarker, BeforeStart
    <2>3. Keeps(p, "auth")
      BY <1>0, <1>5, Keeping DEF UploadSkipped
    <2> QED BY <1>1, <1>2, <2>1, <2>2, <2>3, StillCard
  <1>6. CASE Authorize(p)
    <2>1. job[p].pc = "auth"
      BY <1>6 DEF Authorize
    <2>2. PICK pc \in {"start", "sweep", "fail"} : Keeps(p, pc)
      BY <1>0, <1>6, Keeping DEF Authorize, SlotHeld
    <2> QED BY <1>1, <1>2, <2>1, <2>2, StillCard
  <1> QED BY <1>3, <1>4, <1>5, <1>6

\* A transfer touches the copies of its own printer only.
LEMMA OwnCopies ==
    ASSUME NEW p \in Printers, UploadBroken(p) \/ UploadDone(p, job[p].send),
           NEW k \in Sends, PrinterOf[k] # p, k # job[p].send
    PROVE  card'[k] = card[k]
  <1>1. PICK gone \in Cleared(p) :
           \/ card' = CardAfter(gone)
           \/ card' = [CardAfter(gone) EXCEPT ![job[p].send] = file[job[p].send]]
    BY DEF UploadBroken, UploadDone
  <1>2. k \notin gone
    BY DEF Cleared, SendsOf
  <1>3. CardAfter(gone)[k] = card[k]
    BY <1>2 DEF CardAfter
  <1>4. [CardAfter(gone) EXCEPT ![job[p].send] = file[job[p].send]][k] = CardAfter(gone)[k]
    BY DEF CardAfter
  <1> QED BY <1>1, <1>3, <1>4

\* An upload leaves the file on the card, a broken one what the pass can do without.
LEMMA UploadCard ==
    ASSUME IInv, OnceInv, CardInv, NEW p \in Printers,
           Upload(p) \/ UploadFails(p) \/ UploadCancelled(p) \/ Recopy(p)
    PROVE  CardInv'
  <1> DEFINE k == job[p].send
  <1>0. JobTypeOK /\ SpoolTypeOK /\ DevTypeOK
    BY DEF IInv, TypeOK
  <1>1. /\ k \in Sends /\ job[p].pc \in {"upload", "recopy"}
        /\ UNCHANGED <<cloudVars, marker, file>>
    <2>1. job[p].pc \in {"upload", "recopy"}
      BY DEF Upload, UploadFails, UploadCancelled, Recopy
    <2>2. k \in Sends
      BY <1>0, <2>1, ConstFacts DEF IInv, OwnSends, JobTypeOK, JobRecords
    <2> QED BY <2>1, <2>2 DEF Upload, UploadFails, UploadCancelled, Recopy, spoolVars
  <1>2. \A j \in Sends \ {k} : /\ PrinterOf[j] # p => card'[j] = card[j]
                               /\ att'[j] = att[j]
    <2>1. CASE UploadBroken(p) \/ UploadDone(p, k)
      BY <1>0, <2>1, OwnCopies DEF Upload, UploadFails, UploadCancelled, Recopy, spoolVars,
         SpoolTypeOK
    <2>2. CASE UNCHANGED card
      BY <1>0, <2>2 DEF Upload, UploadFails, UploadCancelled, Recopy, spoolVars, SpoolTypeOK
    <2> QED BY <2>1, <2>2 DEF Upload, UploadFails, UploadCancelled, Recopy
  <1>3. \A j \in Sends \ {k} :
           /\ UploadedAlready(j)' => UploadedAlready(j)
           /\ PrinterOf[j] # p => /\ att'[j] = att[j] /\ marker'[j] = marker[j]
                                  /\ file'[j] = file[j] /\ card'[j] = card[j]
    BY <1>1, <1>2 DEF UploadedAlready
  <1>4. CASE Upload(p)
    <2>1. file[k] = 1
      BY <1>1, <1>4, OwnCard DEF Upload
    <2>2. card'[k] = 1
      <3>1. PICK gone : card' = [CardAfter(gone) EXCEPT ![k] = file[k]]
        BY <1>4 DEF Upload, UploadDone
      <3> QED BY <1>1, <2>1, <3>1 DEF CardAfter
    <2>3. Keeps(p, "auth")
      BY <1>0, <1>4, Keeping DEF Upload
    <2> QED BY <1>1, <1>3, <2>2, <2>3, PassCard
  <1>5. CASE UploadFails(p)
    <2>1. ~UploadedAlready(k) /\ att' = att
      BY <1>5 DEF UploadFails, spoolVars
    <2>2. PICK pc \in {"sweep", "fail"} : Keeps(p, pc)
      BY <1>0, <1>5, Keeping DEF UploadFails, CountSetupFailure
    <2> QED BY <1>1, <1>3, <2>1, <2>2, PassCard DEF UploadedAlready
  <1>6. CASE UploadCancelled(p)
    <2>1. att' = att /\ Ends(p)
      BY <1>0, <1>6, Keeping DEF UploadCancelled, spoolVars
    <2>2. ~UploadedAlready(k) \/ marker[k] # None
      <3>1. job[p].pc = "recopy" => marker[k] # None
        BY <1>1, OwnCard DEF OnceInv, GoesByMarker, AfterStart
      <3> QED BY <1>6, <3>1 DEF UploadCancelled
    <2>3. \A j \in Sends : j = k => ~(UploadedAlready(j)' /\ marker'[j] = None)
      BY <1>1, <2>1, <2>2 DEF UploadedAlready
    <2>4. Keeps(p, "idle") \/ ("idle" = "idle" /\ Ends(p))
      BY <2>1
    <2> QED BY <1>1, <1>3, <2>3, <2>4, PassCard
  <1>7. CASE Recopy(p)
    <2>1. marker[k] # None
      BY <1>1, <1>7, OwnCard DEF Recopy, OnceInv, GoesByMarker, AfterStart
    <2>2. Keeps(p, "republish")
      BY <1>0, <1>7, Keeping DEF Recopy
    <2> QED BY <1>1, <1>3, <2>1, <2>2, PassCard
  <1> QED BY <1>4, <1>5, <1>6, <1>7

\* The record of a send in flight may say what it likes of the card.
LEMMA RecordCard ==
    ASSUME IInv, OnceInv, CardInv, NEW p \in Printers,
           \/ RememberAttempt(p) \/ AdvanceEnterB(p) \/ AdvanceReset(p) \/ RepublishHeld(p)
           \/ RepublishNotSent(p) \/ ResaveAttempt(p)
    PROVE  CardInv'
  <1> DEFINE k == job[p].send
  <1>0. JobTypeOK /\ SpoolTypeOK
    BY DEF IInv, TypeOK
  <1>1. job[p].pc \in {"remember", "advance", "republish", "resave"}
    BY DEF RememberAttempt, AdvanceEnterB, AdvanceReset, Advancing, RepublishHeld,
       RepublishNotSent, ResaveAttempt
  <1>2. k \in Sends
    BY <1>0, <1>1, ConstFacts DEF IInv, OwnSends, JobTypeOK, JobRecords
  <1>3. marker[k] # None
    BY <1>1, <1>2, OwnCard DEF OnceInv, GoesByMarker, AfterStart
  <1>4. /\ UNCHANGED <<cloudVars, card>> /\ marker'[k] # None
        /\ \A j \in Sends \ {k} : marker'[j] = marker[j] /\ file'[j] = file[j]
    <2>1. CASE RememberAttempt(p)
      BY <1>0, <1>2, <1>3, <2>1, MarkerPresent DEF RememberAttempt, SpoolTypeOK, devVars
    <2>2. CASE ~RememberAttempt(p)
      BY <1>3, <2>2 DEF AdvanceEnterB, AdvanceReset, RepublishHeld, RepublishNotSent,
         ResaveAttempt, devVars
    <2> QED BY <2>1, <2>2
  <1>5. \A j \in Sends \ {k} : att'[j] = att[j]
    <2>1. ASSUME NEW rec, SaveAttempt(p, k, rec) PROVE \A j \in Sends \ {k} : att'[j] = att[j]
      BY <1>0, <2>1 DEF SaveAttempt, SpoolTypeOK
    <2>2. CASE RememberAttempt(p)
      BY <1>0, <2>2 DEF RememberAttempt, SpoolTypeOK
    <2>3. CASE UNCHANGED att
      BY <2>3
    <2> QED BY <2>1, <2>2, <2>3 DEF AdvanceEnterB, AdvanceReset, RepublishHeld,
               RepublishNotSent, ResaveAttempt
  <1>6. PICK pc \in {"sweep", "fail", "confirm"} : Keeps(p, pc)
    BY <1>0, Keeping DEF RememberAttempt, AdvanceEnterB, AdvanceReset, RepublishHeld,
       RepublishNotSent, ResaveAttempt, SlotHeld
  <1>7. /\ \A j \in Sends \ {k} :
              /\ UploadedAlready(j)' => UploadedAlready(j)
              /\ PrinterOf[j] # p => /\ att'[j] = att[j] /\ marker'[j] = marker[j]
                                     /\ file'[j] = file[j] /\ card'[j] = card[j]
    BY <1>4, <1>5 DEF UploadedAlready
  <1> QED BY <1>1, <1>4, <1>6, <1>7, PassCard

\* What is dropped has no record of an upload left, or is latched.
LEMMA DropCard ==
    ASSUME IInv, OnceInv, CardInv, NEW p \in Printers,
           PassCancel(p) \/ DropFailed(p) \/ LatchFailure(p) \/ Sweep(p)
    PROVE  CardInv'
  <1> DEFINE k == job[p].send
  <1>0. JobTypeOK /\ SpoolTypeOK
    BY DEF IInv, TypeOK
  <1>1. UNCHANGED <<cloudVars, card>> /\ job[p].pc # "idle"
    BY DEF PassCancel, DropFailed, LatchFailure, Sweep, devVars
  <1>2. NoAtt.uploaded = FALSE /\ Latched.kind = "failed"
    BY FixedRecordTypes DEF NoAtt
  <1>3. CASE PassCancel(p) \/ DropFailed(p) \/ LatchFailure(p)
    <2>1. k \in Sends
      BY <1>0, <1>3, ConstFacts DEF IInv, OwnSends, PassCancel, DropFailed, LatchFailure,
         JobTypeOK, JobRecords
    <2>2. PICK pc \in {"sweep", "latch"} : Keeps(p, pc)
      BY <1>0, <1>3, Keeping DEF PassCancel, DropFailed, LatchFailure
    <2>3. \A j \in Sends : j = k => ~UploadedAlready(j)' \/ FailureLatched(j)'
      <3>1. att'[k] = NoAtt \/ att'[k] = Latched
        BY <1>0, <1>3, <2>1 DEF PassCancel, DropFailed, LatchFailure, SpoolTypeOK
      <3> QED BY <1>2, <3>1 DEF UploadedAlready, FailureLatched
    <2>4. \A j \in Sends \ {k} :
             att'[j] = att[j] /\ marker'[j] = marker[j] /\ file'[j] = file[j]
      <3>1. CASE PassCancel(p)
        BY <1>0, <3>1 DEF PassCancel, ClearPending, SpoolTypeOK
      <3>2. CASE DropFailed(p)
        BY <1>0, <3>2 DEF DropFailed, ClearPending, SpoolTypeOK
      <3>3. CASE LatchFailure(p)
        BY <1>0, <3>3 DEF LatchFailure, SpoolTypeOK
      <3> QED BY <1>3, <3>1, <3>2, <3>3
    <2>5. \A j \in Sends \ {k} :
             /\ UploadedAlready(j)' => UploadedAlready(j)
             /\ PrinterOf[j] # p => /\ att'[j] = att[j] /\ marker'[j] = marker[j]
                                    /\ file'[j] = file[j] /\ card'[j] = card[j]
      BY <1>1, <2>4 DEF UploadedAlready
    <2>6. /\ pc # "idle" /\ pc \notin {"download", "upload", "auth", "start"}
          /\ Keeps(p, pc) \/ (pc = "idle" /\ Ends(p))
      BY <2>2
    <2>7. \A j \in Sends : j = k =>
             /\ UploadedAlready(j)' /\ ~FailureLatched(j)' /\ marker'[j] = None
                  => card'[j] = 1
             /\ pc \in {"download", "upload"} => ~FailureLatched(j)'
             /\ pc = "upload" => file'[j] = 1
             /\ pc \in {"auth", "start"} => card'[j] = 1
      BY <2>3, <2>6
    <2> HIDE DEF k
    <2> QED BY <1>1, <2>5, <2>6, <2>7, PassCard DEF k
  <1>4. CASE Sweep(p)
    <2>1. Ends(p)
      BY <1>0, <1>4, Keeping DEF Sweep
    <2>2. \A j \in Sends : att'[j].uploaded => att[j].uploaded
      BY <1>2, <1>4 DEF Sweep
    <2>3. \A j \in Sends : j = k \/ PrinterOf[j] # p =>
             att'[j] = att[j] /\ marker'[j] = marker[j] /\ file'[j] = file[j]
      BY <1>4 DEF Sweep, SendsOf
    <2>4. \A j \in Sends \ {k} :
             /\ UploadedAlready(j)' => UploadedAlready(j)
             /\ PrinterOf[j] # p => /\ att'[j] = att[j] /\ marker'[j] = marker[j]
                                    /\ file'[j] = file[j] /\ card'[j] = card[j]
      BY <1>1, <2>2, <2>3 DEF UploadedAlready
    <2>5. \A j \in Sends : j = k =>
             (UploadedAlready(j)' /\ ~FailureLatched(j)' /\ marker'[j] = None => card'[j] = 1)
      <3>1. \A j \in Sends : j = k =>
               (UploadedAlready(j) /\ ~FailureLatched(j) /\ marker[j] = None => card[j] = 1)
        BY OwnCard
      <3> QED BY <1>1, <2>3, <3>1 DEF UploadedAlready, FailureLatched
    <2>6. Keeps(p, "idle") \/ ("idle" = "idle" /\ Ends(p))
      BY <2>1
    <2> QED BY <1>1, <2>4, <2>5, <2>6, PassCard
  <1> QED BY <1>3, <1>4

LEMMA WorkerCard ==
    ASSUME MaxVer = 1, IInv, OnceInv, CardInv, NEW p \in Printers, Worker(p)
    PROVE  CardInv'
  <1>1. CASE FreshStep(p)
    BY <1>1, QuietCard, FreshCard, UploadCard, RecordCard DEF FreshStep
  <1>2. CASE WatchdogStep(p)
    BY <1>2, QuietCard, UploadCard, RecordCard, DropCard DEF WatchdogStep
  <1>3. CASE SettleStep(p)
    BY <1>3, QuietCard, DropCard DEF SettleStep
  <1> QED BY <1>1, <1>2, <1>3 DEF Worker

\* A step outside the passes uploads nothing and latches nothing; a latch it
\* releases leaves no record of an upload.
LEMMA AsideCard ==
    ASSUME CardInv, ver' = ver,
           \A p \in Printers : /\ row'[p].send \in {row[p].send, None}
                               /\ job'[p].pc = job[p].pc /\ job'[p].send = job[p].send
                               /\ job'[p].url = job[p].url,
           \A k \in Sends : /\ marker'[k] = None => marker[k] = None
                            /\ UploadedAlready(k)' => UploadedAlready(k)
                            /\ FailureLatched(k)' => FailureLatched(k)
                            /\ FailureLatched(k) /\ ~FailureLatched(k)' => ~UploadedAlready(k)'
                            /\ file'[k] = file[k] /\ card'[k] = card[k]
    PROVE  CardInv'
  <1> SUFFICES ASSUME NEW k \in Sends PROVE CardOK(k)'
    BY DEF CardInv
  <1>1. PrinterOf[k] \in Printers /\ k # None /\ CardOK(k)
    BY ConstFacts DEF CardInv
  <1>2. Serving(k)' <=> Serving(k)
    BY <1>1 DEF Serving
  <1> QED BY <1>1, <1>2 DEF CardOK

LEMMA OutsideCard ==
    ASSUME IInv, CardInv,
           \/ ReportOutage \/ Tick \/ UNCHANGED vars
           \/ \E p \in Printers :
                 \/ PrinterStep(p) \/ CloudDrop(p)
                 \/ \E ctl \in {"none", "stop", "busy"} : CloudControl(p, ctl)
    PROVE  CardInv'
  <1>1. CloudTypeOK /\ SpoolTypeOK /\ JobTypeOK
    BY DEF IInv, TypeOK
  <1>2. CASE ReportOutage
    <2>1. UNCHANGED <<row, ver, job, marker, file, card>> /\ att' = ReleaseSettled({})
      BY <1>2 DEF ReportOutage, cloudVars, devVars
    <2>2. \A k \in Sends : (att'[k] = att[k] /\ ~FailureLatched(k)) \/ att'[k] = NoAtt
      BY <2>1 DEF ReleaseSettled
    <2>3. NoAtt.uploaded = FALSE /\ NoAtt.kind = "none"
      BY DEF NoAtt
    <2> QED BY <2>1, <2>2, <2>3, AsideCard DEF UploadedAlready, FailureLatched
  <1>3. ASSUME UNCHANGED <<ver, job, marker, att, file, card>>,
               \A q \in Printers : row'[q].send \in {row[q].send, None}
        PROVE  CardInv'
    BY <1>3, AsideCard DEF UploadedAlready, FailureLatched
  <1>4. ASSUME NEW p \in Printers, CloudDrop(p) \/ \E ctl : CloudControl(p, ctl) PROVE CardInv'
    <2>1. UNCHANGED <<ver, job, marker, att, file, card>>
      BY <1>4 DEF CloudDrop, CloudControl, spoolVars, devVars
    <2>2. \A q \in Printers : row'[q].send \in {row[q].send, None}
      BY <1>1, <1>4 DEF CloudDrop, CloudControl, CloudTypeOK, NoRow
    <2> QED BY <1>3, <2>1, <2>2
  <1>5. CASE UNCHANGED vars \/ \E p \in Printers : PrinterStep(p)
    <2>1. UNCHANGED <<row, ver, job, marker, att, file, card>>
      BY <1>5 DEF PrinterStep, ReportView, ReportEcho, ReportName, ReportFlag, LinkDown,
         LinkUp, AssignmentSeen, AssignmentEnds, Heard, vars, cloudVars, spoolVars, devVars
    <2> QED BY <1>3, <2>1
  <1>6. CASE Tick
    <2>1. UNCHANGED <<row, ver, file, card>>
      BY <1>6 DEF Tick, cloudVars
    <2>2. \A p \in Printers : /\ job'[p].pc = job[p].pc /\ job'[p].send = job[p].send
                              /\ job'[p].url = job[p].url
      <3> SUFFICES ASSUME NEW p \in Printers
                   PROVE  /\ job'[p].pc = job[p].pc /\ job'[p].send = job[p].send
                          /\ job'[p].url = job[p].url
        OBVIOUS
      <3> DEFINE age == Older(job[p].age, AgeCap)
                 rec == OlderAtt(job[p].rec)
      <3>1. job'[p] = job[p] \/ job'[p] = [job[p] EXCEPT !.age = age, !.rec = rec]
        BY <1>6 DEF Tick
      <3>2. job[p] \in JobRecords
        BY <1>1 DEF JobTypeOK
      <3> HIDE DEF age, rec
      <3> QED BY <3>1, <3>2 DEF JobRecords
    <2>3. \A k \in Sends : marker'[k] = None => marker[k] = None
      <3> SUFFICES ASSUME NEW k \in Sends, marker[k] # None PROVE marker'[k] # None
        OBVIOUS
      <3>1. marker'[k] = [marker[k] EXCEPT !.age = Older(marker[k].age, AgeCap)]
        BY <1>6 DEF Tick
      <3>2. marker[k] \in [confirmed : BOOLEAN, age : Ages]
        BY <1>1 DEF SpoolTypeOK
      <3>3. Older(marker[k].age, AgeCap) \in Ages
        BY <3>2, OlderType, ConstFacts DEF Ages
      <3>4. marker'[k] \in [confirmed : BOOLEAN, age : Ages]
        BY <3>1, <3>2, <3>3
      <3> QED BY <3>4, AbsentAssumption
    <2>4. \A k \in Sends : att'[k].uploaded = att[k].uploaded /\ att'[k].kind = att[k].kind
      <3> SUFFICES ASSUME NEW k \in Sends
                   PROVE  att'[k].uploaded = att[k].uploaded /\ att'[k].kind = att[k].kind
        OBVIOUS
      <3> DEFINE age == Older(att[k].age, AgeCap)
                 held == Older(att[k].held, HoldCap)
      <3>1. att'[k] = [att[k] EXCEPT !.age = age, !.held = held]
        BY <1>6 DEF Tick, OlderAtt
      <3>2. att[k] \in AttRecords
        BY <1>1 DEF SpoolTypeOK
      <3> HIDE DEF age, held
      <3> QED BY <3>1, <3>2 DEF AttRecords
    <2> QED BY <2>1, <2>2, <2>3, <2>4, AsideCard DEF UploadedAlready, FailureLatched
  <1> QED BY <1>2, <1>4, <1>5, <1>6

\* A pass that begins takes the file its row names, the only one there ever was.
LEMMA ReportPassCard ==
    ASSUME MaxVer = 1, IInv, OnceInv, CardInv, ReportPass
    PROVE  CardInv'
  <1>1. CloudTypeOK /\ SpoolTypeOK /\ JobTypeOK
    BY DEF IInv, TypeOK
  <1>2. UNCHANGED <<row, ver, marker, file, card>>
    BY DEF ReportPass, cloudVars, devVars
  <1>3. \A k \in Sends : att'[k] = att[k] \/ (FailureLatched(k) /\ att'[k] = NoAtt)
    BY DEF ReportPass, ReleaseSettled
  <1>4. NoAtt.uploaded = FALSE /\ NoAtt.kind = "none"
    BY DEF NoAtt
  <1>5. ASSUME NEW p \in Printers
        PROVE  \/ /\ job[p].pc = "idle" /\ job'[p].pc = "pass" /\ job'[p].send = row[p].send
                  /\ row[p].send # None => job'[p].url = ver[row[p].send]
               \/ /\ job'[p].pc = job[p].pc /\ job'[p].send = job[p].send
                  /\ job'[p].url = job[p].url
    <2>1. \/ job[p].pc = "idle" /\ job'[p] = Submitted(p)
          \/ job'[p] = job[p] \/ job'[p] = [job[p] EXCEPT !.cancel = TRUE]
      BY DEF ReportPass
    <2>2. job[p] \in JobRecords
      BY <1>1 DEF JobTypeOK
    <2>3. LET u == [job[p] EXCEPT !.cancel = TRUE]
          IN  u.pc = job[p].pc /\ u.send = job[p].send /\ u.url = job[p].url
      BY <2>2 DEF JobRecords
    <2>4. LET u == Submitted(p)
          IN  /\ u.pc = "pass" /\ u.send = row[p].send
              /\ row[p].send # None => u.url = ver[row[p].send]
      BY DEF Submitted, NoJob
    <2> QED BY <2>1, <2>3, <2>4
  <1> SUFFICES ASSUME NEW k \in Sends PROVE CardOK(k)'
    BY DEF CardInv
  <1> DEFINE p == PrinterOf[k]
  <1>6. CardOK(k) /\ Unseen(k) /\ p \in Printers /\ k # None /\ ver[k] \in 0 .. 1
    BY <1>1, ConstFacts DEF CardInv, OnceInv, CloudTypeOK
  <1>7. /\ UploadedAlready(k)' => UploadedAlready(k) /\ (FailureLatched(k)' <=> FailureLatched(k))
        /\ FailureLatched(k)' => FailureLatched(k)
    BY <1>3, <1>4 DEF UploadedAlready, FailureLatched
  <1>8. CASE /\ job[p].pc = "idle" /\ job'[p].pc = "pass" /\ job'[p].send = row[p].send
             /\ row[p].send # None => job'[p].url = ver[row[p].send]
    <2>1. Serving(k)' <=> row[p].send = k
      BY <1>8 DEF Serving
    <2>2. row[p].send = k => job'[p].url = 1
      BY <1>6, <1>8 DEF Unseen
    <2>3. row[p].send = k \/ Serving(k) => (UploadedAlready(k) /\ ~FailureLatched(k)
                                            /\ marker[k] = None => card[k] = 1)
      BY <1>6 DEF CardOK
    <2> QED BY <1>2, <1>6, <1>7, <1>8, <2>1, <2>2, <2>3 DEF CardOK
  <1>9. CASE /\ job'[p].pc = job[p].pc /\ job'[p].send = job[p].send
             /\ job'[p].url = job[p].url
    <2>1. Serving(k)' <=> Serving(k)
      BY <1>9 DEF Serving
    <2> QED BY <1>2, <1>6, <1>7, <1>9, <2>1 DEF CardOK
  <1> QED BY <1>5, <1>6, <1>8, <1>9

\* A crash leaves the card and what is on disk.
LEMMA CrashCard ==
    ASSUME IInv, CardInv, Crash
    PROVE  CardInv'
  <1>1. UNCHANGED <<row, ver, marker, att, file, card>>
    BY DEF Crash, cloudVars, spoolVars
  <1>2. \A p \in Printers : job'[p].pc = "idle" /\ job'[p].send = None
    BY DEF Crash, NoJob
  <1> SUFFICES ASSUME NEW k \in Sends PROVE CardOK(k)'
    BY DEF CardInv
  <1>3. CardOK(k) /\ PrinterOf[k] \in Printers /\ k # None
    BY ConstFacts DEF CardInv
  <1> QED BY <1>1, <1>2, <1>3 DEF CardOK, Serving, UploadedAlready, FailureLatched

\* For a send that is queued for the first time nothing was uploaded.
LEMMA QueueCard ==
    ASSUME MaxVer = 1, IInv, OnceInv, CardInv, NEW p \in Printers, NEW k \in Sends,
           CloudQueue(p, k)
    PROVE  CardInv'
  <1>1. CloudTypeOK
    BY DEF IInv, TypeOK
  <1>2. /\ ver[k] = 0 /\ ver'[k] = 1 /\ PrinterOf[k] = p
        /\ \A j \in Sends \ {k} : ver'[j] = ver[j]
        /\ row[p].send = None /\ row'[p].send = k
        /\ \A q \in Printers \ {p} : row'[q] = row[q]
    BY <1>1, ConstFacts DEF CloudQueue, CloudTypeOK
  <1>3. UNCHANGED <<marker, att, file, card, job>>
    BY DEF CloudQueue, spoolVars, devVars
  <1> SUFFICES ASSUME NEW j \in Sends PROVE CardOK(j)'
    BY DEF CardInv
  <1>4. CardOK(j) /\ Unseen(j) /\ PrinterOf[j] \in Printers /\ j # None
    BY ConstFacts DEF CardInv, OnceInv
  <1> QED BY <1>2, <1>3, <1>4 DEF CardOK, Unseen, Serving, UploadedAlready, FailureLatched

LEMMA InitCard == Init => CardInv
  <1> SUFFICES ASSUME Init, NEW k \in Sends PROVE CardOK(k)
    BY DEF CardInv
  <1>1. PrinterOf[k] \in Printers /\ k # None
    BY ConstFacts
  <1>2. /\ row[PrinterOf[k]].send = None /\ job[PrinterOf[k]].send = None
        /\ att[k].uploaded = FALSE
    BY <1>1 DEF Init, NoRow, NoJob, NoAtt
  <1> QED BY <1>1, <1>2 DEF CardOK, Serving, UploadedAlready

LEMMA NextCard ==
    ASSUME MaxVer = 1 PROVE IInv /\ OnceInv /\ CardInv /\ [Next]_vars => CardInv'
  <1> SUFFICES ASSUME IInv, OnceInv, CardInv, [Next]_vars PROVE CardInv'
    OBVIOUS
  <1>1. CASE ReportPass \/ Crash
    BY <1>1, ReportPassCard, CrashCard
  <1>2. CASE ReportOutage \/ Tick \/ UNCHANGED vars
    BY <1>2, OutsideCard
  <1>3. ASSUME NEW p \in Printers, Worker(p) \/ PrinterStep(p) \/ CloudStep(p)
        PROVE  CardInv'
    BY <1>3, WorkerCard, OutsideCard, QueueCard DEF CloudStep
  <1> QED BY <1>1, <1>2, <1>3 DEF Next

\* Every start of a send that the cloud queues once names the file its row asked for,
\* whole on the card; only a restart may find no file there, after a fresh copy that
\* broke off.
THEOREM StartsTakeTheirFile == ASSUME MaxVer = 1 PROVE Spec => StartsUploadedFile
  <1>1. IInv /\ OnceInv /\ CardInv /\ [Next]_vars =>
          [\A k \in Sends :
             Published(k) => LET j == job[PrinterOf[k]] IN
                             card[k] = j.url \/ (card[k] = 0 /\ j.pc = "republish")]_vars
    <2> SUFFICES ASSUME IInv, OnceInv, CardInv, [Next]_vars, NEW k \in Sends, Published(k)
                 PROVE  LET j == job[PrinterOf[k]] IN
                        card[k] = j.url \/ (card[k] = 0 /\ j.pc = "republish")
      OBVIOUS
    <2>1. Serving(k) /\ (Start(PrinterOf[k]) \/ Republish(PrinterOf[k]))
      BY PublishedBy
    <2>2. /\ job[PrinterOf[k]].url = 1
          /\ job[PrinterOf[k]].pc \in {"auth", "start"} => card[k] = 1
      BY <2>1 DEF CardInv, CardOK
    <2>3. card[k] \in 0 .. 1
      BY DEF IInv, TypeOK, DevTypeOK
    <2>4. job[PrinterOf[k]].pc \in {"start", "republish"}
      BY <2>1 DEF Start, Republish
    <2>5. card[k] = 0 \/ card[k] = 1
      BY <2>3
    <2> QED BY <2>2, <2>4, <2>5
  <1>2. IInv /\ OnceInv /\ CardInv /\ [Next]_vars => CardInv'
    BY NextCard
  <1>3. IInv /\ OnceInv /\ [Next]_vars => OnceInv'
    BY NextOnce
  <1> QED BY <1>1, <1>2, <1>3, InitOnce, InitCard, InitInv, NextInv, PTL
          DEF Spec, StartsUploadedFile
=============================================================================
