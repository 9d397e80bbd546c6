----------------------------- MODULE PrintCycle -----------------------------
(***************************************************************************)
(* What becomes of one printer's prints: the lifecycle tracker that turns  *)
(* reports into events (bambu/state.py), the assignment that says whose    *)
(* print is on the machine (router.py), and the report loop that closes it:*)
(* snapshot, POST, reconcile after a restart, detect the end, POST the     *)
(* outcome, drop the assignment.  The send worker records assignments at   *)
(* any time, sessions come and go, and the process may die anywhere.       *)
(*                                                                         *)
(* A report is delivered with the machine's step: what the connection loses*)
(* is lost by a session that drops before the step.  The queue of events   *)
(* keeps only those that name a send of Link's; its file is EventOutbox's. *)
(* A cancel at the printer's screen, which renames a failed print's event, *)
(* and assignments without a submission id are left out.                   *)
(***************************************************************************)
EXTENDS Naturals, Sequences

CONSTANTS
    Sends,      \* submission ids Link generates, numbered and used in order
    MaxPrints,  \* bound: prints, Link's and those somebody else starts
    MaxFaults,  \* bound: sessions that drop, crashes, POSTs that fail, stops
    None

States == {"idle", "prepare", "running", "pause", "finish", "failed"}
Kinds  == {"started", "finished", "failed", "cancelled"}

ASSUME CycleAssumption ==
    /\ Sends \subseteq Nat \ {0} /\ MaxPrints \in Nat /\ MaxFaults \in Nat
    /\ None \notin Nat \cup States \cup Kinds \cup ({"id", "file"} \X Nat)

VARIABLES
    m,          \* the machine: state, whose print, the id its reports name
    up,         \* the session is connected
    ses,        \* _session_seq
    gseen,      \* _session_gcode_seen
    frame,      \* the merged payload: the state and the id last reported
    trk,        \* the LifecycleTracker
    known,      \* _submissions
    events,     \* the outbox of this printer
    asg,        \* the assignment, on disk, or None
    decided,    \* _reconciled: the session already decided, or None
    steady,     \* _steady: the state that has to last, or None
    pass,       \* the report loop
    work,       \* the send worker: where it is, and the last id it gave out
    finished,   \* history: sends the machine printed to the end
    closes,     \* history: terminal events since the machine's last start
    due,        \* history: the session began with the machine at rest, the assignment confirmed
    crossed,    \* history: sends recorded while a completion was in hand
    astray,     \* history: sends whose match the tracker took into a session of another print
    others, faults

trkVars  == <<gseen, frame, trk, events, closes>>
loopVars == <<decided, steady, pass>>
linkVars == <<up, ses, due, astray>>
workVars == <<work, crossed>>
vars == <<m, linkVars, trkVars, known, asg, loopVars, workVars, finished, others, faults>>

Rest == {"idle", "finish", "failed"}

NoPrint == [st |-> "idle", job |-> None, id |-> None]
Quiet   == [prev |-> None, act |-> None, sub |-> None, ran |-> FALSE, stop |-> FALSE]
Between == [at |-> "post", snap |-> None, a |-> None, stop |-> FALSE, verdict |-> None]

Init ==
    /\ m = NoPrint
    /\ up = FALSE /\ ses = 0 /\ gseen = FALSE /\ due = FALSE
    /\ frame = [st |-> None, id |-> None] /\ trk = Quiet /\ known = {} /\ events = <<>>
    /\ asg = None /\ decided = None /\ steady = None /\ pass = Between
    /\ work = [at |-> "idle", send |-> 0]
    /\ finished = {} /\ closes = 0 /\ crossed = {} /\ astray = {} /\ others = 0 /\ faults = 0

Fault == faults < MaxFaults /\ faults' = faults + 1

-----------------------------------------------------------------------------
(* The tracker: observe().                                                 *)

\* _print_identity: a non-zero id, else the file.
Identity(x) == IF x.job = None THEN None
               ELSE IF x.id # None THEN <<"id", x.id>> ELSE <<"file", x.job>>

IsNewPrint(x) ==
    /\ x.st = "running" /\ Identity(x) # None
    /\ IF trk.act = None THEN trk.prev \notin {None, "running"} ELSE Identity(x) # trk.act

\* register_submission: an id Link generated, remembered by the tracker.
Registers(id) == known \cup {id}

Matched(id) == IF id \in known THEN id ELSE None

\* A plausible slip: the open print's match outlives the next print.
MatchKept(x) ==
    IF Matched(x.id) # None /\ x.st \in {"running", "pause"} THEN Matched(x.id) ELSE trk.sub

\* _active_submission before the frame's own end is looked at.
Match(x) ==
    IF IsNewPrint(x) \/ (Matched(x.id) # None /\ x.st \in {"running", "pause"})
    THEN Matched(x.id) ELSE trk.sub

\* The submission an event of this frame names.
Named(x) == IF ~IsNewPrint(x) /\ Matched(x.id) = None THEN Match(x) ELSE Matched(x.id)

LinkStop(x) == trk.stop /\ ~IsNewPrint(x)

Terminal(x) ==
    CASE x.st = "finish" /\ (trk.prev \in {"running", "pause"} \/ trk.ran) -> "finished"
      [] x.st = "failed" /\ (trk.prev \in {"prepare", "running"} \/ trk.ran) ->
           IF LinkStop(x) THEN "cancelled" ELSE "failed"
      [] x.st = "idle" /\ trk.prev \in {"running", "pause"} -> "cancelled"
      [] OTHER -> None

Event(kind, sub) == IF kind = None \/ sub = None THEN <<>> ELSE <<[kind |-> kind, sub |-> sub]>>

Edges(x) == Event(IF IsNewPrint(x) THEN "started" ELSE None, Named(x))
                \o Event(Terminal(x), Named(x))

\* A plausible slip: a cycle that closed still counts as seen running.
RanKept(x) == trk.ran \/ x.st = "running"

Ran(x) == Terminal(x) = None /\ (trk.ran \/ x.st = "running")

Observe(x) ==
    /\ trk' = [prev |-> x.st,
               act  |-> IF x.st \in Rest THEN None
                        ELSE IF x.st = "running" /\ Identity(x) # None THEN Identity(x) ELSE trk.act,
               sub  |-> IF x.st \in Rest THEN None ELSE Match(x),
               ran  |-> Ran(x),
               stop |-> LinkStop(x) /\ Terminal(x) = None]
    /\ events' = events \o Edges(x)
    /\ gseen' = TRUE
    /\ frame' = [st |-> x.st, id |-> x.id]

-----------------------------------------------------------------------------
(* The machine.                                                            *)

\* A report of x, if the session is up to carry it.
Reported(x, before) ==
    IF up
    THEN Observe(x) /\ closes' = IF Terminal(x) = None THEN before ELSE before + 1
    ELSE UNCHANGED <<gseen, frame, trk, events>> /\ closes' = before

Becomes(x) ==
    /\ m' = x
    /\ finished' = IF x.st = "finish" THEN finished \cup ({x.job} \cap Sends) ELSE finished
    /\ due' = FALSE
    /\ UNCHANGED <<up, ses, astray, asg, loopVars, crossed, faults>>

\* A P1 may drop the id when the print ends.
Ends(st) ==
    \E id \in {m.id, None} : LET x == [m EXCEPT !.st = st, !.id = id]
                             IN  Becomes(x) /\ Reported(x, closes)

Turns(st) == Becomes([m EXCEPT !.st = st]) /\ Reported([m EXCEPT !.st = st], closes)

MachineRuns ==
    /\ \/ m.st \in {"prepare", "pause"} /\ Turns("running")
       \/ m.st = "running" /\ Turns("pause")
       \/ m.st \in {"running", "pause"} /\ (Ends("idle") \/ Ends("finish"))
       \/ m.st \in {"prepare", "running", "pause"} /\ Ends("failed")
       \/ m.st = "finish" /\ Turns("idle")
    /\ UNCHANGED <<known, work, others>>

Begins(x) == Becomes(x) /\ Reported(x, 0)

\* A print Link did not send: its id is 0 or absent.
OtherStarts ==
    /\ m.st \in Rest /\ work.send + others < MaxPrints
    /\ others' = others + 1
    /\ Begins([st |-> "prepare", job |-> 0, id |-> None])
    /\ UNCHANGED <<known, work>>

\* Any other report of the state the machine is in.
Repeats ==
    /\ up
    /\ Reported(m, closes)
    /\ UNCHANGED <<m, linkVars, known, asg, loopVars, workVars, finished, others, faults>>

-----------------------------------------------------------------------------
(* The session and the process.                                            *)

\* What the tracker forgets at a CONNACK: the open cycle is kept.
NewSession == [trk EXCEPT !.prev = None, !.ran = FALSE]

Connects ==
    /\ ~up
    /\ up' = TRUE /\ ses' = ses + 1 /\ gseen' = FALSE
    /\ trk' = NewSession
    /\ due' = (m.st \in Rest /\ asg # None /\ asg.conf)
    /\ astray' = astray \cup ({trk.sub} \ {None, m.job})
    /\ UNCHANGED <<m, frame, events, closes, known, asg, loopVars, workVars, finished, others,
                   faults>>

Drops ==
    /\ up /\ Fault
    /\ up' = FALSE /\ due' = FALSE
    /\ UNCHANGED <<m, ses, astray, trkVars, known, asg, loopVars, workVars, finished, others>>

\* _register_persisted_submissions runs before the printers are connected.
KnownOnDisk == IF asg = None THEN {} ELSE {asg.sub}

\* The assignment and the events are on disk; the rest was this process.
Crash ==
    /\ Fault
    /\ up' = FALSE /\ ses' = 0 /\ due' = FALSE /\ gseen' = FALSE
    /\ frame' = [st |-> None, id |-> None] /\ trk' = Quiet /\ known' = KnownOnDisk
    /\ decided' = None /\ steady' = None /\ pass' = Between
    /\ work' = [work EXCEPT !.at = "idle"]
    /\ UNCHANGED <<m, events, closes, asg, crossed, astray, finished, others>>

-----------------------------------------------------------------------------
(* The send worker: start_print, the tag, record_assignment.               *)

\* start_print publishes the start and registers its id; a machine at work
\* ignores it.
Publishes ==
    /\ work.at = "idle" /\ work.send + 1 \in Sends /\ work.send + others < MaxPrints
    /\ up /\ frame.st \notin {"prepare", "running", "pause"}
    /\ work' = [at |-> "published", send |-> work.send + 1]
    /\ known' = Registers(work.send + 1)
    /\ IF m.st \in Rest
       THEN Begins([st |-> "prepare", job |-> work.send + 1, id |-> work.send + 1])
       ELSE UNCHANGED <<m, linkVars, trkVars, asg, loopVars, crossed, finished, faults>>
    /\ UNCHANGED others

\* Whatever was there before is overwritten, owed or not, and the id is
\* registered once more.
Records ==
    /\ work.at = "published"
    /\ work' = [work EXCEPT !.at = "idle"]
    /\ asg' = [sub |-> work.send, terminal |-> None, conf |-> FALSE]
    /\ known' = Registers(work.send)
    /\ crossed' = IF pass.at = "judge" THEN crossed \cup {work.send} ELSE crossed
    /\ due' = FALSE
    /\ UNCHANGED <<m, up, ses, astray, trkVars, loopVars, finished, others, faults>>

-----------------------------------------------------------------------------
(* The report loop.                                                        *)

\* matched_submission: the print on the machine is one of Link's.
MatchedNow(ids) == IF frame.id \in ids THEN frame.id ELSE None

\* The socket is up and this session has carried a report of the state.
Live == up /\ gseen

LifecycleFields(ids) == [ses |-> ses, events |-> events, matched |-> MatchedNow(ids)]

\* The pending events go out even when the printer is not live.
SnapshotNow(ids) ==
    LET life == LifecycleFields(ids)
    IN  [live |-> Live, st |-> frame.st,
         ses |-> life.ses, matched |-> life.matched, events |-> life.events]

Nothing == [live |-> FALSE, st |-> None, ses |-> 0, matched |-> None, events |-> <<>>]

\* The snapshot and its POST.  The answer acknowledges the events that were
\* sent and may carry a stop, whose row stays up for the rest of the pass.
Posts ==
    /\ pass.at = "post"
    /\ known' = known \cup KnownOnDisk
    /\ \/ /\ events' = <<>> /\ UNCHANGED <<trk, asg, faults>>
          /\ pass' = [Between EXCEPT !.at = "reconcile", !.snap = SnapshotNow(known'), !.a = asg]
       \/ /\ Fault /\ UNCHANGED <<trk, asg, events>>
          /\ pass' = [Between EXCEPT !.at = "reconcile", !.snap = SnapshotNow(known'), !.a = asg]
       \/ /\ Fault /\ events' = <<>>
          /\ trk' = [trk EXCEPT !.stop = @ \/ up]
          /\ asg' = IF up THEN None ELSE asg
          /\ pass' = [Between EXCEPT !.at = "judge", !.snap = SnapshotNow(known'), !.a = asg',
                                     !.stop = TRUE]
    /\ UNCHANGED <<m, linkVars, gseen, frame, closes, decided, steady, workVars,
                   finished, others>>

Decides(ses_) == decided' = ses_ /\ steady' = None

MarkedRunning == IF asg = None THEN None ELSE [asg EXCEPT !.conf = TRUE]

Latched(kind) == IF asg # None /\ asg.terminal = None THEN [asg EXCEPT !.terminal = kind] ELSE asg

\* emit_recovered: the end this session did not see.
Recovered(sub) == Event("finished", sub)

\* A plausible slip: every report starts the wait anew.
NotedAnew(snap, key) == steady' = None /\ UNCHANGED decided

Noted(snap, key) == steady' = key /\ UNCHANGED decided

\* _consider.  A close waits until the same state has been live for
\* RESTART_RECONCILE_STEADY_SECONDS and the assignment is older than
\* ASSIGNMENT_STARTUP_GRACE_SECONDS; both clocks are left to the fairness.
Considers(a, snap) ==
    LET key    == <<snap.ses, snap.st, snap.matched>>
        kept   == snap.st \notin Rest /\ snap.matched = a.sub
        finish == snap.st = "finish" /\ snap.matched = a.sub
    IN  \/ /\ a.terminal # None
           /\ Decides(snap.ses) /\ UNCHANGED <<asg, events>>
        \/ /\ a.terminal = None /\ kept
           /\ Decides(snap.ses) /\ asg' = MarkedRunning /\ UNCHANGED events
        \/ /\ a.terminal = None /\ ~kept /\ ~finish /\ ~a.conf
           /\ Decides(snap.ses) /\ UNCHANGED <<asg, events>>
        \/ /\ a.terminal = None /\ ~kept /\ (finish \/ a.conf)
           /\ Noted(snap, key) /\ UNCHANGED <<asg, events>>
        \/ /\ a.terminal = None /\ finish /\ steady = key
           /\ Decides(snap.ses) /\ events' = events \o Recovered(a.sub) /\ UNCHANGED asg
        \/ /\ a.terminal = None /\ ~kept /\ ~finish /\ a.conf /\ steady = key
           /\ Decides(snap.ses) /\ asg' = Latched("unobserved") /\ UNCHANGED events

\* reconcile reads the assignment after the POST: the one of the snapshot, or
\* one that was recorded since.
Reconciles ==
    /\ pass.at = "reconcile"
    /\ \E a \in {pass.a, asg} :
         IF a = None \/ ~pass.snap.live \/ decided = pass.snap.ses
         THEN UNCHANGED <<asg, events, decided, steady>>
         ELSE Considers(a, pass.snap)
    /\ pass' = [Between EXCEPT !.at = "judge", !.a = asg',
                               !.snap = [Nothing EXCEPT !.events = pass.snap.events]]
    /\ UNCHANGED <<m, linkVars, gseen, frame, trk, closes, known, workVars, finished, others,
                   faults>>

Saw(a, evs, kind) == \E i \in DOMAIN evs : evs[i] = [kind |-> kind, sub |-> a.sub]

\* The last end of the print among the events.
Verdict(a, evs) ==
    LET ends == {i \in DOMAIN evs : evs[i].sub = a.sub /\ evs[i].kind \in {"finished", "failed"}}
    IN  IF ends = {} THEN None
        ELSE IF \E i \in ends : evs[i].kind = "finished" /\ \A j \in ends : j <= i
        THEN "finished" ELSE "failed"

Owes(a, kind) == [Between EXCEPT !.at = "tell", !.a = a, !.verdict = kind]

\* _detect_submission_completion: what the assignment read at the start of the
\* pass and this pass's events say lands on the assignment there is now.
Judges ==
    /\ pass.at = "judge"
    /\ LET a   == pass.a
           evs == pass.snap.events
       IN  \/ /\ a = None
              /\ pass' = Between /\ UNCHANGED asg
           \/ /\ a # None /\ a.terminal # None
              /\ pass' = Owes(a, a.terminal) /\ UNCHANGED asg
           \/ /\ a # None /\ a.terminal = None /\ (pass.stop \/ Saw(a, evs, "cancelled"))
              /\ pass' = Between /\ asg' = None
           \/ /\ a # None /\ a.terminal = None /\ ~pass.stop /\ ~Saw(a, evs, "cancelled")
              /\ LET marked == IF Saw(a, evs, "started") THEN MarkedRunning ELSE asg
                 IN  IF Verdict(a, evs) = None
                     THEN asg' = marked /\ pass' = Between
                     ELSE /\ asg' = IF marked # None /\ marked.terminal = None
                                    THEN [marked EXCEPT !.terminal = Verdict(a, evs)] ELSE marked
                          /\ pass' = Owes(a, Verdict(a, evs))
    /\ UNCHANGED <<m, linkVars, trkVars, known, decided, steady, workVars, finished, others,
                   faults>>

\* _ack_terminal: once the POST is answered the assignment is dropped, whichever
\* it is by now; a POST may be lost on either way.
Tells ==
    /\ pass.at = "tell"
    /\ pass' = Between
    /\ \/ asg' = None /\ UNCHANGED faults
       \/ Fault /\ UNCHANGED asg
    /\ UNCHANGED <<m, linkVars, trkVars, known, decided, steady, workVars, finished, others>>

LoopStep == Posts \/ Reconciles \/ Judges \/ Tells

Next ==
    \/ MachineRuns \/ OtherStarts \/ Repeats
    \/ Connects \/ Drops \/ Crash
    \/ Publishes \/ Records
    \/ LoopStep

Spec == Init /\ [][Next]_vars

\* The loop turns, time passes, a lost session is connected again and the
\* printer answers the pushall that follows.
FairSpec ==
    /\ Spec
    /\ WF_vars(LoopStep)
    /\ WF_vars(Connects) /\ WF_vars(Repeats)
    /\ WF_vars(Records) /\ SF_vars(Reconciles /\ decided' = ses)

-----------------------------------------------------------------------------
Machine    == [st : States, job : Sends \cup {0, None}, id : Sends \cup {None}]
Identities == {None} \cup ({"id", "file"} \X (Sends \cup {0}))
Events     == [kind : Kinds, sub : Sends]

Tracker == [prev : States \cup {None}, act : Identities, sub : Sends \cup {None},
            ran : BOOLEAN, stop : BOOLEAN]

Assignments == [sub : Sends, conf : BOOLEAN,
                terminal : {None, "finished", "failed", "unobserved"}]

TypeOK ==
    /\ m \in Machine
    /\ up \in BOOLEAN /\ gseen \in BOOLEAN /\ due \in BOOLEAN /\ ses \in Nat
    /\ frame \in [st : States \cup {None}, id : Sends \cup {None}] /\ trk \in Tracker
    /\ known \subseteq Sends /\ events \in Seq(Events)
    /\ asg \in Assignments \cup {None} /\ pass.a \in Assignments \cup {None}
    /\ work \in [at : {"idle"}, send : Sends \cup {0}] \cup [at : {"published"}, send : Sends]
    /\ finished \subseteq Sends /\ crossed \subseteq Sends /\ astray \subseteq Sends
    /\ closes \in Nat

\* A print closes on at most one terminal event that was observed, whatever
\* sessions end and begin in between (LifecycleTracker).
TerminalOncePerPrint == closes <= 1

\* report_complete goes out only for a send the printer printed to the end
\* (router.py, _detect_submission_completion: somebody else's finish leaves the
\* assignment alone).  The code does not keep this; the next property says how far it does.
CompleteOnlyWhatFinished ==
    pass.at = "tell" /\ pass.verdict = "finished" => pass.a.sub \in finished \cup crossed

\* It fails only for a send whose print ended while the session was down and
\* whose match the tracker took into a session of another print - and, as
\* above, for one recorded between the read of the assignments and the latch,
\* which takes the outcome of the one before.
CompleteMeansFinished ==
    pass.at = "tell" /\ pass.verdict = "finished"
        => pass.a.sub \in finished \cup crossed \cup astray

\* An assignment that was confirmed does not outlive its print: the session that
\* begins with the machine at rest closes it.  One that is confirmed only by
\* events of that same pass is passed over until the next session.
RestIsNoticed == ~<>[](asg # None /\ due)
=============================================================================
