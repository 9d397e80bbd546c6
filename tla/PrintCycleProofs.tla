-------------------------- MODULE PrintCycleProofs --------------------------
(***************************************************************************)
(* For any sends, prints and faults: a print is closed by one terminal     *)
(* event, and a completion is reported only for a send that the machine    *)
(* printed to the end, or that is one of the two exceptions the property   *)
(* names.                                                                  *)
(*                                                                         *)
(* The second is far from inductive.  It follows the fact from the machine *)
(* through the tracker's open session (TrackerOK: that session is the      *)
(* machine's print, or astray, or replaced by the very next report), into  *)
(* the events (EventsOK), and from there through a pass that holds an old  *)
(* assignment while the worker records a new one (PassOK).                 *)
(***************************************************************************)
EXTENDS PrintCycle, TLAPS

-----------------------------------------------------------------------------
(* Types.                                                                  *)

\* None is nothing else.
LEMMA NoneIsNew ==
    /\ None \notin Sends /\ None # 0 /\ None \notin States /\ None \notin Kinds
    /\ \A s \in Sends : s \in Nat /\ s # 0
    /\ None \notin ({"id", "file"} \X (Sends \cup {0}))
  <1>1. Sends \cup {0} \subseteq Nat
    BY CycleAssumption
  <1>2. None \notin Nat /\ None \notin ({"id", "file"} \X Nat)
    BY CycleAssumption
  <1>3. None \notin ({"id", "file"} \X (Sends \cup {0}))
    BY <1>1, <1>2
  <1> QED BY <1>1, <1>2, <1>3, CycleAssumption

LEMMA EventTyped ==
    ASSUME NEW kind \in Kinds \cup {None}, NEW sub \in Sends \cup {None}
    PROVE  Event(kind, sub) \in Seq(Events)
  <1>1. kind # None /\ sub # None => <<[kind |-> kind, sub |-> sub]>> \in Seq(Events)
    BY DEF Events
  <1>2. <<>> \in Seq(Events)
    OBVIOUS
  <1> QED BY <1>1, <1>2 DEF Event

LEMMA MatchedTyped ==
    ASSUME TypeOK, NEW id \in Sends \cup {None}
    PROVE  Matched(id) \in Sends \cup {None}
  BY DEF TypeOK, Matched

LEMMA TerminalTyped ==
    ASSUME NEW x
    PROVE  Terminal(x) \in (Kinds \ {"started"}) \cup {None}
  BY DEF Terminal, Kinds

\* What the tracker makes of a report.
LEMMA ObserveTyped ==
    ASSUME TypeOK, NEW x \in Machine, Observe(x)
    PROVE  /\ trk' \in Tracker /\ events' \in Seq(Events) /\ gseen' \in BOOLEAN
           /\ frame' \in [st : States \cup {None}, id : Sends \cup {None}]
  <1>1. x.st \in States /\ x.job \in Sends \cup {0, None} /\ x.id \in Sends \cup {None}
    BY DEF Machine
  <1>2. Matched(x.id) \in Sends \cup {None}
    BY <1>1, MatchedTyped
  <1>3. Match(x) \in Sends \cup {None} /\ Named(x) \in Sends \cup {None}
    BY <1>2 DEF Match, Named, TypeOK, Tracker
  <1>4. Identity(x) \in Identities
    BY <1>1 DEF Identity, Identities
  <1>5. trk' \in Tracker
    <2>1. trk.act \in Identities
      BY DEF TypeOK, Tracker
    <2>2. Ran(x) \in BOOLEAN /\ (LinkStop(x) /\ Terminal(x) = None) \in BOOLEAN
      BY DEF Ran
    <2>3. None \in Identities /\ None \in Sends \cup {None}
      BY DEF Identities
    <2> QED BY <1>1, <1>3, <1>4, <2>1, <2>2, <2>3 DEF Observe, Tracker
  <1>6. events' \in Seq(Events)
    <2>1. Edges(x) \in Seq(Events)
      <3>1. Event(IF IsNewPrint(x) THEN "started" ELSE None, Named(x)) \in Seq(Events)
        BY <1>3, EventTyped DEF Kinds
      <3>2. Event(Terminal(x), Named(x)) \in Seq(Events)
        BY <1>3, EventTyped, TerminalTyped
      <3> QED BY <3>1, <3>2 DEF Edges
    <2> QED BY <2>1 DEF Observe, TypeOK
  <1>7. gseen' \in BOOLEAN /\ frame' \in [st : States \cup {None}, id : Sends \cup {None}]
    BY <1>1 DEF Observe
  <1> QED BY <1>5, <1>6, <1>7

LEMMA ReportedTyped ==
    ASSUME TypeOK, NEW x \in Machine, NEW before \in Nat, Reported(x, before)
    PROVE  /\ trk' \in Tracker /\ events' \in Seq(Events) /\ gseen' \in BOOLEAN
           /\ frame' \in [st : States \cup {None}, id : Sends \cup {None}]
           /\ closes' \in Nat
  <1>1. CASE up
    <2>1. Observe(x) /\ closes' \in {before, before + 1}
      BY <1>1 DEF Reported
    <2> QED BY <2>1, ObserveTyped
  <1>2. CASE ~up
    BY <1>2 DEF Reported, TypeOK
  <1> QED BY <1>1, <1>2

\* The parts of TypeOK, primed.
LEMMA TypeParts ==
    ASSUME m' \in Machine, up' \in BOOLEAN, gseen' \in BOOLEAN, due' \in BOOLEAN, ses' \in Nat,
           frame' \in [st : States \cup {None}, id : Sends \cup {None}], trk' \in Tracker,
           known' \subseteq Sends, events' \in Seq(Events),
           asg' \in Assignments \cup {None}, pass'.a \in Assignments \cup {None},
           work' \in [at : {"idle"}, send : Sends \cup {0}] \cup [at : {"published"}, send : Sends],
           finished' \subseteq Sends, crossed' \subseteq Sends, astray' \subseteq Sends,
           closes' \in Nat
    PROVE  TypeOK'
  BY DEF TypeOK

\* The machine takes another state, which is reported or not.
LEMMA BecomesTyped ==
    ASSUME TypeOK, NEW x \in Machine, Becomes(x), NEW before \in Nat, Reported(x, before),
           known' \subseteq Sends,
           work' \in [at : {"idle"}, send : Sends \cup {0}] \cup [at : {"published"}, send : Sends]
    PROVE  TypeOK'
  <1>1. finished' \subseteq Sends
    BY DEF Becomes, TypeOK
  <1>2. m' \in Machine /\ due' \in BOOLEAN
    BY DEF Becomes
  <1>3. /\ up' \in BOOLEAN /\ ses' \in Nat /\ asg' \in Assignments \cup {None}
        /\ pass'.a \in Assignments \cup {None}
        /\ crossed' \subseteq Sends /\ astray' \subseteq Sends
    BY DEF Becomes, TypeOK, loopVars
  <1> QED BY <1>1, <1>2, <1>3, ReportedTyped, TypeParts

\* What the machine goes on to.
Continues(x) ==
    /\ x \in Machine /\ x.job = m.job /\ Becomes(x) /\ Reported(x, closes)
    /\ \/ x.st \notin Rest /\ x.id = m.id
       \/ x.st \in Rest /\ x.id \in {m.id, None}
    /\ m.st = "prepare" => x.st \in {"running", "failed"}
    /\ x.st # "prepare" /\ m.st # "idle"
    /\ m.st \in Rest => x.st \in Rest

LEMMA MachineContinues ==
    ASSUME TypeOK, MachineRuns
    PROVE  (\E x \in Machine : Continues(x)) /\ UNCHANGED <<known, work, others>>
  <1>1. m \in Machine
    BY DEF TypeOK
  <1>2. ASSUME NEW st \in States, Turns(st),
               \/ m.st \in {"prepare", "pause"} /\ st = "running"
               \/ m.st = "running" /\ st = "pause"
               \/ m.st = "finish" /\ st = "idle"
        PROVE  \E x \in Machine : Continues(x)
    <2> DEFINE x == [m EXCEPT !.st = st]
    <2>1. x \in Machine /\ x.st = st /\ x.job = m.job /\ x.id = m.id
      BY <1>1 DEF Machine
    <2>2. Becomes(x) /\ Reported(x, closes)
      BY <1>2 DEF Turns
    <2>3. Continues(x)
      BY <1>2, <2>1, <2>2 DEF Continues, Rest
    <2> QED BY <2>1, <2>3
  <1>3. ASSUME NEW st \in {"idle", "finish", "failed"}, Ends(st),
               m.st \in {"prepare", "running", "pause"}, m.st = "prepare" => st = "failed"
        PROVE  \E x \in Machine : Continues(x)
    <2>1. PICK id \in {m.id, None} : LET x == [m EXCEPT !.st = st, !.id = id]
                                     IN  Becomes(x) /\ Reported(x, closes)
      BY <1>3 DEF Ends
    <2> DEFINE x == [m EXCEPT !.st = st, !.id = id]
    <2>2. x \in Machine /\ x.st = st /\ x.job = m.job /\ x.id = id
      BY <1>1 DEF Machine, States
    <2>3. Becomes(x) /\ Reported(x, closes)
      BY <2>1
    <2>4. Continues(x)
      BY <1>3, <2>2, <2>3 DEF Continues, Rest
    <2> QED BY <2>2, <2>4
  <1> QED BY <1>2, <1>3 DEF MachineRuns, States

\* A print begins.
BeginsOther == [st |-> "prepare", job |-> 0, id |-> None]
BeginsSend(s) == [st |-> "prepare", job |-> s, id |-> s]

LEMMA BeginsTyped ==
    /\ BeginsOther \in Machine
    /\ \A s \in Sends : BeginsSend(s) \in Machine
  BY DEF BeginsOther, BeginsSend, Machine, States

LEMMA KnownTyped == ASSUME TypeOK PROVE KnownOnDisk \subseteq Sends
  BY DEF TypeOK, KnownOnDisk, Assignments

\* Marking, latching and dropping keep an assignment an assignment.
LEMMA AssignmentTyped ==
    ASSUME TypeOK
    PROVE  /\ MarkedRunning \in Assignments \cup {None}
           /\ Latched("unobserved") \in Assignments \cup {None}
  <1>1. asg # None => asg \in Assignments
    BY DEF TypeOK
  <1>2. ASSUME asg \in Assignments
        PROVE  [asg EXCEPT !.conf = TRUE] \in Assignments
    BY <1>2 DEF Assignments
  <1>3. ASSUME asg \in Assignments
        PROVE  [asg EXCEPT !.terminal = "unobserved"] \in Assignments
    BY <1>3 DEF Assignments
  <1>4. MarkedRunning \in Assignments \cup {None}
    BY <1>1, <1>2 DEF MarkedRunning
  <1>5. Latched("unobserved") \in Assignments \cup {None}
    BY <1>1, <1>3 DEF Latched
  <1> QED BY <1>4, <1>5

LEMMA VerdictTyped ==
    ASSUME NEW a, NEW evs
    PROVE  Verdict(a, evs) \in {None, "finished", "failed"}
  BY DEF Verdict

\* The assignment that is judged upon, with the start it may have seen.
Marked == IF Saw(pass.a, pass.snap.events, "started") THEN MarkedRunning ELSE asg

LatchedOn(asg1, kind) ==
    IF asg1 # None /\ asg1.terminal = None THEN [asg1 EXCEPT !.terminal = kind] ELSE asg1

\* The ways a pass may judge.
LEMMA JudgesCases ==
    ASSUME Judges
    PROVE  \/ pass' = Between /\ asg' \in {asg, None, Marked}
           \/ /\ pass.a # None /\ pass.a.terminal # None
              /\ pass' = Owes(pass.a, pass.a.terminal) /\ asg' = asg
           \/ /\ pass.a # None /\ pass.a.terminal = None
              /\ Verdict(pass.a, pass.snap.events) # None
              /\ pass' = Owes(pass.a, Verdict(pass.a, pass.snap.events))
              /\ asg' = LatchedOn(Marked, Verdict(pass.a, pass.snap.events))
  BY DEF Judges, Marked, LatchedOn

LEMMA MarkedTyped == ASSUME TypeOK PROVE Marked \in Assignments \cup {None}
  BY AssignmentTyped DEF TypeOK, Marked

LEMMA LatchedTyped ==
    ASSUME NEW asg1 \in Assignments \cup {None}, NEW kind \in {"finished", "failed"}
    PROVE  LatchedOn(asg1, kind) \in Assignments \cup {None}
  <1>1. asg1 # None => asg1 \in Assignments
    OBVIOUS
  <1>2. ASSUME asg1 \in Assignments
        PROVE  [asg1 EXCEPT !.terminal = kind] \in Assignments
    BY <1>2 DEF Assignments
  <1> QED BY <1>1, <1>2 DEF LatchedOn

LEMMA JudgesTyped ==
    ASSUME TypeOK, Judges
    PROVE  asg' \in Assignments \cup {None} /\ pass'.a \in Assignments \cup {None}
  <1>1. /\ pass.a \in Assignments \cup {None} /\ asg \in Assignments \cup {None}
        /\ Marked \in Assignments \cup {None}
    BY MarkedTyped DEF TypeOK
  <1>2. CASE pass' = Between /\ asg' \in {asg, None, Marked}
    <2>1. pass'.a = None
      BY <1>2 DEF Between
    <2> QED BY <1>1, <1>2, <2>1
  <1>3. CASE pass' = Owes(pass.a, pass.a.terminal) /\ asg' = asg
    <2>1. pass'.a = pass.a
      BY <1>3 DEF Owes, Between
    <2> QED BY <1>1, <1>3, <2>1
  <1>4. CASE /\ Verdict(pass.a, pass.snap.events) # None
             /\ pass' = Owes(pass.a, Verdict(pass.a, pass.snap.events))
             /\ asg' = LatchedOn(Marked, Verdict(pass.a, pass.snap.events))
    <2>1. pass'.a = pass.a
      BY <1>4 DEF Owes, Between
    <2>2. Verdict(pass.a, pass.snap.events) \in {"finished", "failed"}
      BY <1>4, VerdictTyped
    <2>3. asg' \in Assignments \cup {None}
      BY <1>1, <1>4, <2>2, LatchedTyped
    <2> QED BY <1>1, <2>1, <2>3
  <1> QED BY <1>2, <1>3, <1>4, JudgesCases

LEMMA ReconcilesTyped ==
    ASSUME TypeOK, Reconciles
    PROVE  /\ asg' \in Assignments \cup {None} /\ events' \in Seq(Events)
           /\ pass'.a = asg'
  <1>1. pass'.a = asg'
    BY DEF Reconciles, Between
  <1>2. CASE UNCHANGED <<asg, events>>
    BY <1>1, <1>2 DEF TypeOK
  <1>3. ASSUME NEW a \in {pass.a, asg}, a # None, Considers(a, pass.snap)
        PROVE  asg' \in Assignments \cup {None} /\ events' \in Seq(Events)
    <2>1. a \in Assignments
      BY <1>3 DEF TypeOK
    <2>2. Recovered(a.sub) \in Seq(Events)
      BY <2>1, EventTyped DEF Recovered, Assignments, Kinds
    <2>3. asg' \in {asg, MarkedRunning, Latched("unobserved")}
      BY <1>3 DEF Considers
    <2>4. events' \in {events, events \o Recovered(a.sub)}
      BY <1>3 DEF Considers
    <2>5. events \in Seq(Events) /\ asg \in Assignments \cup {None}
      BY DEF TypeOK
    <2>6. events \o Recovered(a.sub) \in Seq(Events)
      BY <2>2, <2>5
    <2>7. events' \in Seq(Events)
      BY <2>4, <2>5, <2>6
    <2>8. asg' \in Assignments \cup {None}
      BY <2>3, <2>5, AssignmentTyped
    <2> QED BY <2>7, <2>8
  <1> QED BY <1>1, <1>2, <1>3 DEF Reconciles

LEMMA PostsTyped ==
    ASSUME TypeOK, Posts
    PROVE  /\ asg' \in {asg, None} /\ events' \in {events, <<>>} /\ pass'.a \in {asg, None}
           /\ trk' \in Tracker /\ known' \subseteq Sends
           /\ \E stop \in BOOLEAN : trk' = [trk EXCEPT !.stop = stop]
  <1>1. known' \subseteq Sends
    BY KnownTyped DEF Posts, TypeOK
  <1>2. trk = [trk EXCEPT !.stop = trk.stop] /\ trk.stop \in BOOLEAN
    BY DEF TypeOK, Tracker
  <1>3. \E stop \in BOOLEAN : trk' = [trk EXCEPT !.stop = stop]
    <2>1. CASE UNCHANGED trk
      BY <1>2, <2>1
    <2>2. CASE trk' = [trk EXCEPT !.stop = @ \/ up]
      BY <2>2
    <2> QED BY <2>1, <2>2 DEF Posts
  <1>4. trk' \in Tracker
    BY <1>3 DEF TypeOK, Tracker
  <1>5. asg' \in {asg, None} /\ events' \in {events, <<>>} /\ pass'.a \in {asg, None}
    BY DEF Posts, Between
  <1> QED BY <1>1, <1>3, <1>4, <1>5

LEMMA TypeInit == Init => TypeOK
  <1> SUFFICES ASSUME Init PROVE TypeOK
    OBVIOUS
  <1>1. m \in Machine /\ trk \in Tracker
    BY DEF Init, NoPrint, Quiet, Machine, Tracker, Identities, States
  <1>2. events \in Seq(Events)
    BY DEF Init
  <1>3. pass.a = None
    BY DEF Init, Between
  <1>4. work \in [at : {"idle"}, send : Sends \cup {0}]
    BY DEF Init
  <1> QED BY <1>1, <1>2, <1>3, <1>4 DEF Init, TypeOK

LEMMA TypeStep == ASSUME TypeOK, [Next]_vars PROVE TypeOK'
  <1>0. /\ m \in Machine /\ up \in BOOLEAN /\ gseen \in BOOLEAN /\ due \in BOOLEAN /\ ses \in Nat
        /\ frame \in [st : States \cup {None}, id : Sends \cup {None}] /\ trk \in Tracker
        /\ known \subseteq Sends /\ events \in Seq(Events)
        /\ asg \in Assignments \cup {None} /\ pass.a \in Assignments \cup {None}
        /\ work \in [at : {"idle"}, send : Sends \cup {0}]
                        \cup [at : {"published"}, send : Sends]
        /\ finished \subseteq Sends /\ crossed \subseteq Sends /\ astray \subseteq Sends
        /\ closes \in Nat
    BY DEF TypeOK
  <1>1. CASE MachineRuns
    <2>1. PICK x \in Machine : Continues(x)
      BY <1>1, MachineContinues
    <2>2. known' \subseteq Sends /\ work' = work
      BY <1>0, <1>1, MachineContinues
    <2> QED BY <1>0, <2>1, <2>2, BecomesTyped DEF Continues
  <1>2. CASE OtherStarts
    <2>1. Becomes(BeginsOther) /\ Reported(BeginsOther, 0) /\ UNCHANGED <<known, work>>
      BY <1>2 DEF OtherStarts, Begins, BeginsOther
    <2> QED BY <1>0, <2>1, BecomesTyped, BeginsTyped
  <1>3. CASE Repeats
    <2>1. Reported(m, closes)
      BY <1>3 DEF Repeats
    <2>2. /\ trk' \in Tracker /\ events' \in Seq(Events) /\ gseen' \in BOOLEAN
          /\ frame' \in [st : States \cup {None}, id : Sends \cup {None}] /\ closes' \in Nat
      BY <1>0, <2>1, ReportedTyped
    <2>3. UNCHANGED <<m, up, ses, due, astray, known, asg, pass, work, crossed, finished>>
      BY <1>3 DEF Repeats, linkVars, loopVars, workVars
    <2> QED BY <1>0, <2>2, <2>3, TypeParts
  <1>4. CASE Connects
    <2>1. trk' \in Tracker
      BY <1>0, <1>4 DEF Connects, NewSession, Tracker
    <2>2. due' \in BOOLEAN
      <3>1. CASE asg = None
        BY <1>4, <3>1 DEF Connects
      <3>2. CASE asg # None
        <4>1. asg.conf \in BOOLEAN
          BY <1>0, <3>2 DEF Assignments
        <4> QED BY <1>4, <3>2, <4>1 DEF Connects
      <3> QED BY <3>1, <3>2
    <2>3. astray' \subseteq Sends
      BY <1>0, <1>4 DEF Connects, Tracker
    <2>4. up' \in BOOLEAN /\ gseen' \in BOOLEAN
      BY <1>4 DEF Connects
    <2>5. ses' \in Nat
      <3>1. ses' = ses + 1
        BY <1>4 DEF Connects
      <3> QED BY <1>0, <3>1
    <2>6. UNCHANGED <<m, frame, events, closes, known, asg, pass, work, crossed, finished>>
      BY <1>4 DEF Connects, loopVars, workVars
    <2> QED BY <1>0, <2>1, <2>2, <2>3, <2>4, <2>5, <2>6, TypeParts
  <1>5. CASE Drops
    <2>1. up' \in BOOLEAN /\ due' \in BOOLEAN
      BY <1>5 DEF Drops
    <2>2. UNCHANGED <<m, ses, astray, gseen, frame, trk, events, closes, known, asg, pass, work,
                      crossed, finished>>
      BY <1>5 DEF Drops, trkVars, loopVars, workVars
    <2> QED BY <1>0, <2>1, <2>2, TypeParts
  <1>6. CASE Crash
    <2>1. trk' \in Tracker /\ known' \subseteq Sends /\ pass'.a = None
      BY <1>6, KnownTyped DEF Crash, Quiet, Tracker, Identities, Between
    <2>2. up' \in BOOLEAN /\ due' \in BOOLEAN /\ gseen' \in BOOLEAN /\ ses' \in Nat
          /\ frame' \in [st : States \cup {None}, id : Sends \cup {None}]
      BY <1>6 DEF Crash
    <2>3. work' \in [at : {"idle"}, send : Sends \cup {0}]
      BY <1>0, <1>6 DEF Crash
    <2>4. UNCHANGED <<m, events, closes, asg, crossed, astray, finished>>
      BY <1>6 DEF Crash
    <2> QED BY <1>0, <2>1, <2>2, <2>3, <2>4, TypeParts
  <1>7. CASE Publishes
    <2>1. work.send + 1 \in Sends /\ known' \subseteq Sends
          /\ work' \in [at : {"published"}, send : Sends]
      BY <1>0, <1>7 DEF Publishes, Registers
    <2>2. CASE Begins(BeginsSend(work.send + 1))
      BY <1>0, <2>1, <2>2, BecomesTyped, BeginsTyped DEF Begins
    <2>3. CASE UNCHANGED <<m, linkVars, trkVars, asg, loopVars, crossed, finished, faults>>
      <3>1. UNCHANGED <<m, up, ses, due, astray, gseen, frame, trk, events, closes, asg, pass,
                        crossed, finished>>
        BY <2>3 DEF linkVars, trkVars, loopVars
      <3> QED BY <1>0, <2>1, <3>1, TypeParts
    <2> QED BY <1>7, <2>2, <2>3 DEF Publishes, BeginsSend
  <1>8. CASE Records
    <2>1. work.at = "published" => work.send \in Sends
      BY <1>0
    <2>2. work.send \in Sends
      BY <1>8, <2>1 DEF Records
    <2>3. asg' \in Assignments /\ known' \subseteq Sends /\ crossed' \subseteq Sends
          /\ due' \in BOOLEAN
      BY <1>0, <1>8, <2>2 DEF Records, Registers, Assignments
    <2>4. work' \in [at : {"idle"}, send : Sends \cup {0}]
      BY <1>0, <1>8 DEF Records
    <2>5. UNCHANGED <<m, up, ses, astray, gseen, frame, trk, events, closes, pass, finished>>
      BY <1>8 DEF Records, trkVars, loopVars
    <2> QED BY <1>0, <2>3, <2>4, <2>5, TypeParts
  <1>9. CASE Posts
    <2>1. UNCHANGED <<m, up, ses, due, astray, gseen, frame, closes, work, crossed, finished>>
      BY <1>9 DEF Posts, linkVars, workVars
    <2>2. /\ asg' \in {asg, None} /\ pass'.a \in {asg, None} /\ events' \in {events, <<>>}
          /\ trk' \in Tracker /\ known' \subseteq Sends
      BY <1>9, PostsTyped
    <2>3. asg' \in Assignments \cup {None} /\ pass'.a \in Assignments \cup {None}
      BY <1>0, <2>2
    <2>4. events' \in Seq(Events)
      <3>1. events' \in {events, <<>>} /\ events \in Seq(Events)
        BY <1>0, <2>2
      <3>2. <<>> \in Seq(Events)
        OBVIOUS
      <3> QED BY <3>1, <3>2
    <2> QED BY <1>0, <2>1, <2>2, <2>3, <2>4, TypeParts
  <1>10. CASE Reconciles
    <2>1. UNCHANGED <<m, up, ses, due, astray, gseen, frame, trk, closes, known, work, crossed,
                      finished>>
      BY <1>10 DEF Reconciles, linkVars, workVars
    <2> QED BY <1>0, <1>10, <2>1, ReconcilesTyped, TypeParts
  <1>11. CASE Judges
    <2>1. UNCHANGED <<m, up, ses, due, astray, gseen, frame, trk, events, closes, known, work,
                      crossed, finished>>
      BY <1>11 DEF Judges, linkVars, trkVars, workVars
    <2> QED BY <1>0, <1>11, <2>1, JudgesTyped, TypeParts
  <1>12. CASE Tells
    <2>1. UNCHANGED <<m, up, ses, due, astray, gseen, frame, trk, events, closes, known, work,
                      crossed, finished>>
      BY <1>12 DEF Tells, linkVars, trkVars, workVars
    <2>2. asg' \in Assignments \cup {None} /\ pass'.a = None
      BY <1>0, <1>12 DEF Tells, Between
    <2> QED BY <1>0, <2>1, <2>2, TypeParts
  <1>13. CASE UNCHANGED vars
    <2>1. UNCHANGED <<m, up, ses, due, astray, gseen, frame, trk, events, closes, known, asg,
                      pass, work, crossed, finished>>
      BY <1>13 DEF vars, linkVars, trkVars, loopVars, workVars
    <2> QED BY <1>0, <2>1, TypeParts
  <1> QED BY <1>1, <1>2, <1>3, <1>4, <1>5, <1>6, <1>7, <1>8, <1>9, <1>10, <1>11, <1>12, <1>13
          DEF Next, LoopStep

\* Types, for every number of sends and prints.
THEOREM TypeCorrect == Spec => []TypeOK
  <1>1. Init => TypeOK
    BY TypeInit
  <1>2. TypeOK /\ [Next]_vars => TypeOK'
    BY TypeStep
  <1> QED BY <1>1, <1>2, PTL DEF Spec

-----------------------------------------------------------------------------
(* The machine, the tracker's session, and the close of a print.           *)

MachineOK ==
    /\ m.job \in Sends => m.id \in {m.job, None} /\ (m.id = None => m.st \in Rest)
    /\ m.job \notin Sends => m.id = None
    /\ m.job = None => m.st = "idle"
    /\ m.st = "finish" /\ m.job \in Sends => m.job \in finished

\* The session the tracker has open is the machine's print, or one already noted
\* as astray, or one that the next report of the print will replace.
TrackerOK ==
    /\ frame.st \in Rest \cup {None} => trk.sub = None /\ trk.act = None
    /\ m.job \in Sends => trk.act \in {None, <<"id", m.job>>} /\ trk.sub \in {None, m.job}
    /\ up /\ m.job \notin Sends /\ trk.sub \notin astray \cup {None}
         => /\ m.st = "prepare" /\ trk.prev = "prepare" /\ ~trk.ran
            /\ trk.act \in {None, <<"id", trk.sub>>}
    /\ up /\ m.st \in Rest /\ trk.sub # None => ~trk.ran
    /\ frame.st = "finish" /\ frame.id # None => frame.id \in finished

\* After the close the machine rests and nothing the tracker holds closes again.
CloseOK ==
    /\ closes <= 1
    /\ closes >= 1 => m.st \in Rest /\ trk.prev \in Rest \cup {None} /\ ~trk.ran

\* Steps the machine, the frame and the open session have no part in.
Aside ==
    /\ UNCHANGED <<m, finished, frame, closes, astray>>
    /\ \E stop \in BOOLEAN : trk' = [trk EXCEPT !.stop = stop]
    /\ up' => up

\* What a step is to the machine and the tracker.
LEMMA StepCases ==
    ASSUME TypeOK, [Next]_vars
    PROVE  \/ \E x \in Machine : Continues(x)
           \/ m.st \in Rest /\ Becomes(BeginsOther) /\ Reported(BeginsOther, 0)
           \/ /\ m.st \in Rest /\ up /\ frame.st \in Rest \cup {None}
              /\ \E s \in Sends : Becomes(BeginsSend(s)) /\ Reported(BeginsSend(s), 0)
           \/ up /\ Reported(m, closes) /\ UNCHANGED <<m, finished, up, astray>>
           \/ Connects \/ Crash \/ Aside
  <1>0. trk' = trk => \E stop \in BOOLEAN : trk' = [trk EXCEPT !.stop = stop]
    BY DEF TypeOK, Tracker
  <1>1. MachineRuns => \E x \in Machine : Continues(x)
    BY MachineContinues
  <1>2. OtherStarts => m.st \in Rest /\ Becomes(BeginsOther) /\ Reported(BeginsOther, 0)
    BY DEF OtherStarts, Begins, BeginsOther
  <1>3. Repeats => up /\ Reported(m, closes) /\ UNCHANGED <<m, finished, up, astray>>
    BY DEF Repeats, linkVars
  <1>4. Drops \/ Records \/ Reconciles \/ Judges \/ Tells \/ UNCHANGED vars => Aside
    BY <1>0 DEF Drops, Records, Reconciles, Judges, Tells, Aside, vars, linkVars, trkVars
  <1>5. Posts => Aside
    BY PostsTyped DEF Posts, Aside, linkVars
  <1>6. ASSUME Publishes
        PROVE  \/ Aside
               \/ /\ m.st \in Rest /\ up /\ frame.st \in Rest \cup {None}
                  /\ \E s \in Sends : Becomes(BeginsSend(s)) /\ Reported(BeginsSend(s), 0)
    <2>1. up /\ frame.st \in Rest \cup {None} /\ work.send + 1 \in Sends
      BY <1>6 DEF Publishes, TypeOK, States, Rest
    <2>2. m.st \in Rest => Begins(BeginsSend(work.send + 1))
      BY <1>6 DEF Publishes, BeginsSend
    <2>3. m.st \notin Rest => Aside
      BY <1>0, <1>6 DEF Publishes, Aside, linkVars, trkVars
    <2> QED BY <2>1, <2>2, <2>3 DEF Begins
  <1> QED BY <1>1, <1>2, <1>3, <1>4, <1>5, <1>6 DEF Next, LoopStep

LEMMA MachineStep == ASSUME TypeOK, MachineOK, [Next]_vars PROVE MachineOK'
  <1>0. m \in Machine /\ finished \subseteq Sends
    BY DEF TypeOK
  <1>1. ASSUME NEW x \in Machine, Continues(x) PROVE MachineOK'
    <2>1. m' = x /\ x.job = m.job
          /\ finished' = IF x.st = "finish" THEN finished \cup ({x.job} \cap Sends) ELSE finished
      BY <1>1 DEF Continues, Becomes
    <2>2. x.job \in Sends => x.id \in {x.job, None} /\ (x.id = None => x.st \in Rest)
      <3>1. CASE x.st \notin Rest
        BY <1>1, <2>1, <3>1 DEF Continues, MachineOK
      <3>2. CASE x.st \in Rest
        BY <1>1, <2>1, <3>2 DEF Continues, MachineOK
      <3> QED BY <3>1, <3>2
    <2>3. x.job \notin Sends => x.id = None
      BY <1>1, <2>1 DEF Continues, MachineOK
    <2>4. x.job # None
      BY <1>1, <2>1 DEF Continues, MachineOK
    <2> QED BY <2>1, <2>2, <2>3, <2>4 DEF MachineOK
  <1>2. ASSUME Becomes(BeginsOther) PROVE MachineOK'
    BY <1>2, NoneIsNew DEF Becomes, BeginsOther, MachineOK
  <1>3. ASSUME NEW s \in Sends, Becomes(BeginsSend(s)) PROVE MachineOK'
    BY <1>3, NoneIsNew DEF Becomes, BeginsSend, MachineOK
  <1>4. ASSUME UNCHANGED <<m, finished>> PROVE MachineOK'
    BY <1>4 DEF MachineOK
  <1>5. Connects \/ Crash \/ Aside => UNCHANGED <<m, finished>>
    BY DEF Connects, Crash, Aside
  <1> QED BY <1>1, <1>2, <1>3, <1>4, <1>5, StepCases

\* What the report of a machine at work or at rest leaves of the tracker.
LEMMA Watched ==
    ASSUME NEW x, Observe(x)
    PROVE  /\ trk'.prev = x.st
           /\ trk'.act = IF x.st \in Rest THEN None
                         ELSE IF x.st = "running" /\ Identity(x) # None THEN Identity(x)
                         ELSE trk.act
           /\ trk'.sub = IF x.st \in Rest THEN None ELSE Match(x)
           /\ trk'.ran = Ran(x)
           /\ frame'.st = x.st /\ frame'.id = x.id
  BY DEF Observe

LEMMA CloseStep == ASSUME TypeOK, CloseOK, [Next]_vars PROVE CloseOK'
  <1>0. closes \in Nat
    BY DEF TypeOK
  <1>1. ASSUME NEW x, Reported(x, closes), m' = x, m.st \in Rest => x.st \in Rest
        PROVE  CloseOK'
    <2>1. CASE ~up
      BY <1>1, <2>1 DEF Reported, CloseOK
    <2>2. CASE up /\ Terminal(x) = None
      <3>1. closes' = closes /\ trk'.prev = x.st /\ trk'.ran = (trk.ran \/ x.st = "running")
        BY <1>1, <2>2, Watched DEF Reported, Ran
      <3>2. closes >= 1 => x.st \in Rest /\ ~(trk.ran \/ x.st = "running")
        BY <1>1 DEF CloseOK, Rest
      <3> QED BY <1>1, <3>1, <3>2 DEF CloseOK
    <2>3. CASE up /\ Terminal(x) # None
      <3>1. closes' = closes + 1 /\ trk'.prev = x.st /\ trk'.ran = FALSE
        BY <1>1, <2>3, Watched DEF Reported, Ran
      <3>2. x.st \in Rest
        BY <2>3 DEF Terminal, Rest
      <3>3. ~(closes >= 1)
        <4>1. \/ trk.prev \in {"running", "pause", "prepare"}
              \/ trk.ran
          BY <2>3 DEF Terminal
        <4> QED BY <4>1, NoneIsNew DEF CloseOK, Rest, States
      <3> QED BY <1>0, <1>1, <3>1, <3>2, <3>3 DEF CloseOK
    <2> QED BY <2>1, <2>2, <2>3
  <1>2. ASSUME NEW x, x.st = "prepare", Reported(x, 0) PROVE CloseOK'
    <2>1. Terminal(x) = None
      BY <1>2 DEF Terminal
    <2>2. closes' = 0
      BY <1>2, <2>1 DEF Reported
    <2> QED BY <2>2 DEF CloseOK
  <1>3. ASSUME NEW x \in Machine, Continues(x) PROVE CloseOK'
    BY <1>1, <1>3 DEF Continues, Becomes
  <1>4. ASSUME Reported(BeginsOther, 0) PROVE CloseOK'
    BY <1>2, <1>4 DEF BeginsOther
  <1>5. ASSUME NEW s \in Sends, Reported(BeginsSend(s), 0) PROVE CloseOK'
    BY <1>2, <1>5 DEF BeginsSend
  <1>6. ASSUME Reported(m, closes), UNCHANGED m PROVE CloseOK'
    BY <1>1, <1>6
  <1>7. CASE Connects
    BY <1>7 DEF Connects, NewSession, CloseOK, TypeOK, Tracker
  <1>8. CASE Crash
    BY <1>8 DEF Crash, Quiet, CloseOK
  <1>9. CASE Aside
    <2>1. trk'.prev = trk.prev /\ trk'.ran = trk.ran
      BY <1>9 DEF Aside, TypeOK, Tracker
    <2> QED BY <1>9, <2>1 DEF Aside, CloseOK
  <1> QED BY <1>3, <1>4, <1>5, <1>6, <1>7, <1>8, <1>9, StepCases

\* One terminal event closes a print (LifecycleTracker.observe).
THEOREM OneClose == Spec => []TerminalOncePerPrint
  <1>1. Init => CloseOK
    BY DEF Init, CloseOK
  <1>2. TypeOK /\ CloseOK /\ [Next]_vars => CloseOK'
    BY CloseStep
  <1>3. CloseOK => TerminalOncePerPrint
    BY DEF CloseOK, TerminalOncePerPrint
  <1> QED BY <1>1, <1>2, <1>3, TypeCorrect, PTL DEF Spec

-----------------------------------------------------------------------------
(* The open session.                                                       *)

LEMMA FreshMatch ==
    ASSUME TypeOK, NEW x
    PROVE  /\ Matched(x.id) # None => Matched(x.id) = x.id /\ x.id \in Sends
           /\ x.id = None => Matched(x.id) = None
           /\ Match(x) \in {Matched(x.id), trk.sub}
           /\ x.st = "prepare" => Match(x) = trk.sub /\ Terminal(x) = None /\ Ran(x) = trk.ran
  <1>1. None \notin known
    BY NoneIsNew DEF TypeOK
  <1>2. /\ Matched(x.id) # None => Matched(x.id) = x.id /\ x.id \in Sends
        /\ x.id = None => Matched(x.id) = None
    BY <1>1 DEF Matched, TypeOK
  <1>3. Match(x) \in {Matched(x.id), trk.sub}
    BY DEF Match
  <1>4. x.st = "prepare" => Match(x) = trk.sub /\ Terminal(x) = None
    BY DEF Match, IsNewPrint, Terminal
  <1>5. x.st = "prepare" => Ran(x) = trk.ran
    BY <1>4 DEF Ran, TypeOK, Tracker
  <1> QED BY <1>2, <1>3, <1>4, <1>5

\* A report of the print that is on the machine.
LEMMA SamePrint ==
    ASSUME TypeOK, MachineOK, MachineOK', TrackerOK, NEW x \in Machine, m' = x, Observe(x),
           x.job = m.job, x = m \/ (m.st = "prepare" => x.st \in {"running", "failed"}),
           up, UNCHANGED <<up, astray>>
    PROVE  TrackerOK'
  <1>1. x.st \in Rest => trk'.sub = None /\ trk'.act = None
    BY Watched
  <1>2. trk'.sub # None => x.st \notin Rest /\ trk'.sub = Match(x)
    BY Watched
  <1>3. frame'.st = x.st /\ frame'.id = x.id /\ x.st # None
    BY Watched, NoneIsNew DEF Machine
  <1>4. m.job \in Sends => trk'.act \in {None, <<"id", m.job>>} /\ trk'.sub \in {None, m.job}
    <2> SUFFICES ASSUME m.job \in Sends
                 PROVE  trk'.act \in {None, <<"id", m.job>>} /\ trk'.sub \in {None, m.job}
      OBVIOUS
    <2>1. x.id \in {m.job, None} /\ (x.st = "running" => x.id = m.job) /\ m.job # None
      BY NoneIsNew DEF MachineOK, Rest
    <2>2. Match(x) \in {None, m.job}
      BY <2>1, FreshMatch DEF TrackerOK
    <2>3. x.st = "running" => Identity(x) = <<"id", m.job>>
      BY <2>1 DEF Identity
    <2>4. trk.act \in {None, <<"id", m.job>>}
      BY DEF TrackerOK
    <2> QED BY <2>2, <2>3, <2>4, Watched
  <1>5. ASSUME m.job \notin Sends, trk'.sub \notin astray \cup {None}
        PROVE  /\ x.st = "prepare" /\ trk'.prev = "prepare" /\ ~trk'.ran
               /\ trk'.act \in {None, <<"id", trk'.sub>>}
    <2>1. x.id = None /\ Matched(x.id) = None
      BY <1>5, FreshMatch DEF MachineOK
    <2>2. Match(x) = trk.sub /\ trk'.sub = trk.sub /\ x.st \notin Rest
      BY <1>2, <1>5, <2>1, FreshMatch
    <2>3. /\ m.st = "prepare" /\ trk.prev = "prepare" /\ ~trk.ran
          /\ trk.act \in {None, <<"id", trk.sub>>}
      BY <1>5, <2>2 DEF TrackerOK
    <2>4. x.st # "running"
      <3> SUFFICES ASSUME x.st = "running" PROVE FALSE
        OBVIOUS
      <3>1. m.job # None
        BY <2>3 DEF MachineOK
      <3>2. Identity(x) = <<"file", m.job>>
        BY <2>1, <3>1 DEF Identity
      <3>3. <<"file", m.job>> # None
        <4>1. m.job = 0
          BY <1>5, <3>1 DEF TypeOK, Machine
        <4> QED BY <4>1, NoneIsNew
      <3>4. IsNewPrint(x)
        <4>1. CASE trk.act = None
          BY <2>3, <3>2, <3>3, <4>1, NoneIsNew DEF IsNewPrint, States
        <4>2. CASE trk.act = <<"id", trk.sub>>
          <5>1. <<"file", m.job>> # <<"id", trk.sub>>
            OBVIOUS
          <5>2. trk.act # None
            <6>1. trk.sub \in Sends
              BY <1>5, <2>2 DEF TypeOK, Tracker
            <6> QED BY <4>2, <6>1, NoneIsNew
          <5> QED BY <3>2, <3>3, <4>2, <5>1, <5>2 DEF IsNewPrint
        <4> QED BY <2>3, <4>1, <4>2
      <3>5. Match(x) = None
        BY <2>1, <3>4 DEF Match
      <3> QED BY <1>5, <2>2, <3>5
    <2>5. x.st = "prepare"
      <3>1. x.st # "failed"
        BY <2>2 DEF Rest
      <3> QED BY <2>3, <2>4, <3>1
    <2> QED BY <2>2, <2>3, <2>5, FreshMatch, Watched
  <1>6. x.st = "finish" /\ x.id # None => x.id \in finished'
    <2>1. x.id # None => x.job \in Sends /\ x.id = x.job
      BY DEF MachineOK
    <2> QED BY <2>1 DEF MachineOK
  <1>7. frame'.st \in Rest \cup {None} => trk'.sub = None /\ trk'.act = None
    BY <1>1, <1>3
  <1>8. up' /\ m'.st \in Rest /\ trk'.sub # None => ~trk'.ran
    BY <1>2
  <1> QED BY <1>3, <1>4, <1>5, <1>6, <1>7, <1>8 DEF TrackerOK

\* Another print begins, which the tracker sees or does not.
LEMMA OtherPrint ==
    ASSUME TypeOK, MachineOK, TrackerOK, m.st \in Rest,
           Becomes(BeginsOther), Reported(BeginsOther, 0)
    PROVE  TrackerOK'
  <1> DEFINE x == BeginsOther
  <1>1. /\ m'.st = "prepare" /\ m'.job = 0 /\ UNCHANGED <<up, astray>> /\ finished \subseteq finished'
        /\ 0 \notin Sends /\ "prepare" \notin Rest \cup {None}
    BY NoneIsNew DEF Becomes, BeginsOther, Rest, States
  <1>2. CASE ~up
    <2>1. trk' = trk /\ frame' = frame
      BY <1>2 DEF Reported
    <2> QED BY <1>1, <1>2, <2>1 DEF TrackerOK
  <1>3. CASE up
    <2>1. Observe(x)
      BY <1>3 DEF Reported
    <2>2. x.st = "prepare" /\ x.id = None
      BY DEF BeginsOther
    <2>3. /\ trk'.sub = trk.sub /\ trk'.act = trk.act /\ trk'.ran = trk.ran
          /\ trk'.prev = "prepare" /\ frame'.st = "prepare" /\ frame'.id = None
      BY <1>1, <2>1, <2>2, FreshMatch, Watched
    <2>4. ASSUME trk.sub \notin astray \cup {None}
          PROVE  ~trk.ran /\ trk.act \in {None, <<"id", trk.sub>>}
      <3>1. CASE m.job \in Sends
        BY <1>3, <2>4, <3>1 DEF TrackerOK
      <3>2. CASE m.job \notin Sends
        BY <1>1, <1>3, <2>4, <3>2 DEF TrackerOK
      <3> QED BY <3>1, <3>2
    <2> QED BY <1>1, <2>3, <2>4 DEF TrackerOK
  <1> QED BY <1>2, <1>3

LEMMA SendPrint ==
    ASSUME TypeOK, TrackerOK, up, frame.st \in Rest \cup {None}, NEW s \in Sends,
           Becomes(BeginsSend(s)), Reported(BeginsSend(s), 0)
    PROVE  TrackerOK'
  <1> DEFINE x == BeginsSend(s)
  <1>1. Observe(x) /\ x.st = "prepare" /\ x.id = s
    BY DEF Reported, BeginsSend
  <1>2. /\ m'.st = "prepare" /\ m'.job = s /\ "prepare" \notin Rest \cup {None}
    BY NoneIsNew DEF Becomes, BeginsSend, Rest, States
  <1>3. trk.sub = None /\ trk.act = None
    BY DEF TrackerOK
  <1>4. /\ trk'.sub = None /\ trk'.act = None /\ frame'.st = "prepare"
    BY <1>1, <1>2, <1>3, FreshMatch, Watched
  <1> QED BY <1>2, <1>4 DEF TrackerOK

LEMMA TrackerStep ==
    ASSUME TypeOK, MachineOK, TrackerOK, [Next]_vars
    PROVE  TrackerOK'
  <1>0. MachineOK'
    BY MachineStep
  <1>1. ASSUME NEW x \in Machine, Continues(x) PROVE TrackerOK'
    <2>1. m' = x /\ x.job = m.job /\ UNCHANGED <<up, astray>> /\ finished \subseteq finished'
      BY <1>1 DEF Continues, Becomes
    <2>2. CASE up
      <3>1. Observe(x)
        BY <1>1, <2>2 DEF Continues, Reported
      <3> QED BY <1>0, <1>1, <2>1, <2>2, <3>1, SamePrint DEF Continues
    <2>3. CASE ~up
      <3>1. trk' = trk /\ frame' = frame
        BY <1>1, <2>3 DEF Continues, Reported
      <3> QED BY <2>1, <2>3, <3>1 DEF TrackerOK
    <2> QED BY <2>2, <2>3
  <1>2. ASSUME up, Reported(m, closes), UNCHANGED <<m, finished, up, astray>>
        PROVE  TrackerOK'
    <2>1. Observe(m) /\ m \in Machine
      BY <1>2 DEF Reported, TypeOK
    <2> QED BY <1>0, <1>2, <2>1, SamePrint
  <1>3. CASE Connects
    <2>1. /\ trk'.prev = None /\ trk'.ran = FALSE /\ trk'.act = trk.act /\ trk'.sub = trk.sub
      BY <1>3 DEF Connects, NewSession, TypeOK, Tracker
    <2>2. UNCHANGED <<m, frame, finished>>
      BY <1>3 DEF Connects
    <2>3. m.job \notin Sends => trk.sub \in astray' \cup {None}
      BY <1>3 DEF Connects, TypeOK, Tracker
    <2> QED BY <2>1, <2>2, <2>3 DEF TrackerOK
  <1>4. CASE Crash
    BY <1>4 DEF Crash, Quiet, TrackerOK
  <1>5. CASE Aside
    <2>1. /\ trk'.prev = trk.prev /\ trk'.ran = trk.ran /\ trk'.act = trk.act
          /\ trk'.sub = trk.sub
      BY <1>5 DEF Aside, TypeOK, Tracker
    <2> QED BY <1>5, <2>1 DEF Aside, TrackerOK
  <1> QED BY <1>1, <1>2, <1>3, <1>4, <1>5, OtherPrint, SendPrint, StepCases

-----------------------------------------------------------------------------
(* What the events and the assignment say.                                 *)

\* Every finish among the events is of a send in S.
FinishedIn(evs, S) == \A i \in DOMAIN evs : evs[i].kind = "finished" => evs[i].sub \in S

\* An outcome on the assignment that is "finished" is of a send in S.
LatchedIn(a, S) == a # None /\ a.terminal = "finished" => a.sub \in S

Ended == finished \cup astray
Good  == finished \cup crossed \cup astray

LEMMA FinishedInGrows ==
    ASSUME NEW S, NEW T, S \subseteq T, NEW evs, FinishedIn(evs, S)
    PROVE  FinishedIn(evs, T)
  BY DEF FinishedIn

LEMMA FinishedInEvent ==
    ASSUME NEW kind, NEW sub, NEW S, kind = "finished" /\ sub # None => sub \in S
    PROVE  FinishedIn(Event(kind, sub), S)
  <1>1. CASE kind = None \/ sub = None
    BY <1>1 DEF Event, FinishedIn
  <1>2. CASE kind # None /\ sub # None
    BY <1>2 DEF Event, FinishedIn
  <1> QED BY <1>1, <1>2

LEMMA FinishedInBoth ==
    ASSUME NEW evs \in Seq(Events), NEW more \in Seq(Events), NEW S,
           FinishedIn(evs, S), FinishedIn(more, S)
    PROVE  FinishedIn(evs \o more, S)
  BY DEF FinishedIn

LEMMA HistoriesGrow ==
    ASSUME [Next]_vars
    PROVE  finished \subseteq finished' /\ crossed \subseteq crossed' /\ astray \subseteq astray'
  <1>1. ASSUME NEW x, Becomes(x)
        PROVE  finished \subseteq finished' /\ crossed' = crossed /\ astray' = astray
    BY <1>1 DEF Becomes
  <1>2. MachineRuns => finished \subseteq finished' /\ crossed' = crossed /\ astray' = astray
    BY <1>1 DEF MachineRuns, Turns, Ends
  <1>3. OtherStarts => finished \subseteq finished' /\ crossed' = crossed /\ astray' = astray
    BY <1>1 DEF OtherStarts, Begins
  <1>4. Publishes => finished \subseteq finished' /\ crossed' = crossed /\ astray' = astray
    BY <1>1 DEF Publishes, Begins, linkVars
  <1>5. Repeats \/ Connects \/ Drops \/ Crash \/ Records \/ LoopStep \/ UNCHANGED vars
          => finished' = finished /\ crossed \subseteq crossed' /\ astray \subseteq astray'
    BY DEF Repeats, Connects, Drops, Crash, Records, LoopStep, Posts, Reconciles, Judges, Tells,
           vars, linkVars, workVars
  <1> QED BY <1>2, <1>3, <1>4, <1>5 DEF Next

\* A finish that the tracker names is of a send that ended.
LEMMA NamedEnded ==
    ASSUME TypeOK, MachineOK, MachineOK', TrackerOK, up, NEW x \in Machine, m' = x,
           x.job = m.job, x = m \/ (m.st = "prepare" => x.st \in {"running", "failed"}),
           x.st = "finish", Named(x) # None
    PROVE  Named(x) \in finished' \cup astray
  <1>1. Named(x) = IF Matched(x.id) = None THEN Match(x) ELSE Matched(x.id)
    BY DEF Named, IsNewPrint
  <1>2. CASE Matched(x.id) # None
    <2>1. Named(x) = x.id /\ x.id \in Sends
      BY <1>1, <1>2, FreshMatch
    <2>2. x.id # None
      BY <2>1, NoneIsNew
    <2>3. x.job \in Sends /\ x.job = x.id
      BY <2>2 DEF MachineOK
    <2> QED BY <2>1, <2>3 DEF MachineOK
  <1>3. CASE Matched(x.id) = None
    <2>1. Named(x) = trk.sub /\ trk.sub # None
      BY <1>1, <1>3, FreshMatch
    <2>2. CASE m.job \in Sends
      <3>1. trk.sub = m.job
        BY <2>1, <2>2 DEF TrackerOK
      <3> QED BY <2>1, <2>2, <3>1 DEF MachineOK
    <2>3. CASE m.job \notin Sends
      <3>1. m.st # "prepare"
        OBVIOUS
      <3> QED BY <2>1, <2>3, <3>1 DEF TrackerOK
    <2> QED BY <2>2, <2>3
  <1> QED BY <1>2, <1>3

LEMMA ObservedEnded ==
    ASSUME TypeOK, NEW x \in Machine, Observe(x), NEW S, FinishedIn(events, S),
           Terminal(x) = "finished" /\ Named(x) # None => Named(x) \in S
    PROVE  FinishedIn(events', S)
  <1> DEFINE start == Event(IF IsNewPrint(x) THEN "started" ELSE None, Named(x))
             end   == Event(Terminal(x), Named(x))
  <1>1. x.id \in Sends \cup {None}
    BY DEF Machine
  <1>2. Named(x) \in Sends \cup {None}
    <2>1. Matched(x.id) \in Sends \cup {None} /\ trk.sub \in Sends \cup {None}
      BY <1>1, MatchedTyped DEF TypeOK, Tracker
    <2>2. Match(x) \in Sends \cup {None}
      BY <2>1, FreshMatch
    <2> QED BY <2>1, <2>2 DEF Named
  <1>3. start \in Seq(Events) /\ FinishedIn(start, S)
    <2> DEFINE kind == IF IsNewPrint(x) THEN "started" ELSE None
    <2>1. kind \in Kinds \cup {None} /\ kind # "finished"
      BY NoneIsNew DEF Kinds
    <2> QED BY <1>2, <2>1, EventTyped, FinishedInEvent
  <1>4. end \in Seq(Events) /\ FinishedIn(end, S)
    <2>1. Terminal(x) \in Kinds \cup {None}
      BY TerminalTyped
    <2> QED BY <1>2, <2>1, EventTyped, FinishedInEvent
  <1>5. events' = events \o (start \o end)
    BY DEF Observe, Edges
  <1>6. start \o end \in Seq(Events) /\ FinishedIn(start \o end, S)
    <2>1. start \o end \in Seq(Events)
      BY <1>3, <1>4
    <2>2. FinishedIn(start \o end, S)
      BY <1>3, <1>4, FinishedInBoth
    <2> QED BY <2>1, <2>2
  <1>7. events \in Seq(Events)
    BY DEF TypeOK
  <1> QED BY <1>5, <1>6, <1>7, FinishedInBoth

\* What a pass holds in its hands, and what is on disk.
PassOK ==
    /\ pass.at \in {"post", "reconcile", "judge", "tell"}
    /\ pass.at = "reconcile" /\ pass.snap.st = "finish" /\ pass.snap.matched # None
         => pass.snap.matched \in finished
    /\ pass.at \in {"reconcile", "judge"} => FinishedIn(pass.snap.events, Ended)
    /\ LatchedIn(asg, Good) /\ LatchedIn(pass.a, Good)
    /\ pass.at = "judge" /\ pass.a # None /\ asg # None
         => asg.sub = pass.a.sub \/ asg.sub \in crossed
    /\ pass.at = "tell" /\ pass.verdict = "finished" => pass.a.sub \in Good

EventsOK == FinishedIn(events, Ended)

LEMMA EventsStep ==
    ASSUME TypeOK, MachineOK, TrackerOK, EventsOK, PassOK, [Next]_vars
    PROVE  EventsOK'
  <1>0. /\ MachineOK' /\ Ended \subseteq Ended' /\ FinishedIn(events, Ended')
        /\ events \in Seq(Events)
    <2>1. Ended \subseteq Ended'
      BY HistoriesGrow DEF Ended
    <2> QED BY <2>1, MachineStep, FinishedInGrows DEF EventsOK, TypeOK
  <1>1. ASSUME NEW x \in Machine, NEW before, m' = x, x.job = m.job, Reported(x, before),
               x = m \/ (m.st = "prepare" => x.st \in {"running", "failed"}), astray' = astray
        PROVE  EventsOK'
    <2>1. CASE ~up
      BY <1>0, <1>1, <2>1 DEF Reported, EventsOK
    <2>2. CASE up
      <3>1. Observe(x)
        BY <1>1, <2>2 DEF Reported
      <3>2. Terminal(x) = "finished" => x.st = "finish"
        BY NoneIsNew DEF Terminal, Kinds
      <3>3. Terminal(x) = "finished" /\ Named(x) # None => Named(x) \in Ended'
        BY <1>0, <1>1, <2>2, <3>2, NamedEnded DEF Ended
      <3> QED BY <1>0, <3>1, <3>3, ObservedEnded DEF EventsOK
    <2> QED BY <2>1, <2>2
  <1>2. ASSUME NEW x \in Machine, x.st = "prepare", Reported(x, 0) PROVE EventsOK'
    <2>1. Terminal(x) # "finished"
      BY <1>2, NoneIsNew, FreshMatch DEF Kinds
    <2>2. CASE up
      BY <1>0, <1>2, <2>1, <2>2, ObservedEnded DEF Reported, EventsOK
    <2>3. CASE ~up
      BY <1>0, <1>2, <2>3 DEF Reported, EventsOK
    <2> QED BY <2>2, <2>3
  <1>3. CASE MachineRuns
    <2>1. PICK x \in Machine : Continues(x)
      BY <1>3, MachineContinues
    <2> QED BY <1>1, <2>1 DEF Continues, Becomes
  <1>4. CASE OtherStarts
    <2>1. BeginsOther \in Machine /\ BeginsOther.st = "prepare" /\ Reported(BeginsOther, 0)
      BY <1>4, BeginsTyped DEF OtherStarts, Begins, BeginsOther
    <2> QED BY <1>2, <2>1
  <1>5. CASE Repeats
    BY <1>1, <1>5 DEF Repeats, TypeOK, linkVars
  <1>6. CASE Publishes
    <2>1. CASE m.st \in Rest
      <3> DEFINE x == BeginsSend(work.send + 1)
      <3>1. x \in Machine /\ x.st = "prepare" /\ Reported(x, 0)
        BY <1>6, <2>1, BeginsTyped DEF Publishes, Begins, BeginsSend
      <3> QED BY <1>2, <3>1
    <2>2. CASE m.st \notin Rest
      BY <1>0, <1>6, <2>2 DEF Publishes, trkVars, EventsOK
    <2> QED BY <2>1, <2>2
  <1>7. CASE Connects \/ Drops \/ Crash \/ Records \/ Judges \/ Tells \/ UNCHANGED vars
    <2>1. events' = events
      BY <1>7 DEF Connects, Drops, Crash, Records, Judges, Tells, vars, trkVars
    <2> QED BY <1>0, <2>1 DEF EventsOK
  <1>8. CASE Posts
    <2>1. events' \in {events, <<>>}
      BY <1>8, PostsTyped
    <2>2. FinishedIn(<<>>, Ended')
      BY DEF FinishedIn
    <2> QED BY <1>0, <2>1, <2>2 DEF EventsOK
  <1>9. CASE Reconciles
    <2>1. \/ events' = events
          \/ \E a \in {pass.a, asg} :
               /\ pass.at = "reconcile" /\ a # None
               /\ pass.snap.st = "finish" /\ pass.snap.matched = a.sub
               /\ events' = events \o Recovered(a.sub)
      BY <1>9 DEF Reconciles, Considers
    <2>2. CASE events' = events
      BY <1>0, <2>2 DEF EventsOK
    <2>3. ASSUME NEW a \in {pass.a, asg}, pass.at = "reconcile", a # None,
                 pass.snap.st = "finish", pass.snap.matched = a.sub,
                 events' = events \o Recovered(a.sub)
          PROVE  EventsOK'
      <3>1. a.sub \in Sends /\ a.sub # None
        BY <2>3, NoneIsNew DEF TypeOK, Assignments
      <3>2. a.sub \in Ended'
        BY <1>0, <2>3, <3>1 DEF PassOK, Ended
      <3>3. FinishedIn(Recovered(a.sub), Ended')
        BY <3>2, FinishedInEvent DEF Recovered
      <3>4. Recovered(a.sub) \in Seq(Events)
        BY <3>1, EventTyped DEF Recovered, Kinds
      <3> QED BY <1>0, <2>3, <3>3, <3>4, FinishedInBoth DEF EventsOK
    <2> QED BY <2>1, <2>2, <2>3
  <1> QED BY <1>3, <1>4, <1>5, <1>6, <1>7, <1>8, <1>9 DEF Next, LoopStep

LEMMA LatchedInGrows ==
    ASSUME NEW S, NEW T, S \subseteq T, NEW a, LatchedIn(a, S)
    PROVE  LatchedIn(a, T)
  BY DEF LatchedIn

\* The start of a print, marked on the assignment, keeps its send and outcome.
LEMMA MarkedKeeps ==
    ASSUME TypeOK
    PROVE  \A a \in {MarkedRunning, Marked} :
              /\ a # None => asg # None
              /\ asg # None => a.sub = asg.sub /\ a.terminal = asg.terminal
  <1>1. asg # None => asg \in Assignments
    BY DEF TypeOK
  <1>2. ASSUME asg # None
        PROVE  /\ [asg EXCEPT !.conf = TRUE].sub = asg.sub
               /\ [asg EXCEPT !.conf = TRUE].terminal = asg.terminal
    BY <1>1, <1>2 DEF Assignments
  <1>3. /\ MarkedRunning # None => asg # None
        /\ asg # None => MarkedRunning.sub = asg.sub /\ MarkedRunning.terminal = asg.terminal
    BY <1>2 DEF MarkedRunning
  <1>4. Marked \in {MarkedRunning, asg}
    BY DEF Marked
  <1> QED BY <1>3, <1>4

\* An outcome set on an assignment is the one it is set to.
LEMMA LatchedOnIn ==
    ASSUME NEW a \in Assignments \cup {None}, NEW kind \in {"finished", "failed", "unobserved"},
           NEW S, LatchedIn(a, S), a # None /\ kind = "finished" => a.sub \in S
    PROVE  LatchedIn(LatchedOn(a, kind), S)
  <1>1. CASE a # None /\ a.terminal = None
    <2>1. /\ [a EXCEPT !.terminal = kind].sub = a.sub
          /\ [a EXCEPT !.terminal = kind].terminal = kind
      BY <1>1 DEF Assignments
    <2> QED BY <1>1, <2>1 DEF LatchedOn, LatchedIn
  <1>2. CASE ~(a # None /\ a.terminal = None)
    BY <1>2 DEF LatchedOn
  <1> QED BY <1>1, <1>2

LEMMA PassStep ==
    ASSUME TypeOK, TrackerOK, EventsOK, PassOK, [Next]_vars
    PROVE  PassOK'
  <1>0. /\ Ended \subseteq Ended' /\ Good \subseteq Good' /\ Ended \subseteq Good
        /\ finished \subseteq finished' /\ crossed \subseteq crossed'
    BY HistoriesGrow DEF Ended, Good
  <1>1. /\ LatchedIn(asg, Good') /\ LatchedIn(pass.a, Good') /\ LatchedIn(None, Good')
        /\ asg \in Assignments \cup {None} /\ pass.a \in Assignments \cup {None}
    BY <1>0, LatchedInGrows DEF PassOK, LatchedIn, TypeOK
  <1>2. ASSUME UNCHANGED <<asg, pass>> PROVE PassOK'
    <2>1. pass.at \in {"reconcile", "judge"} => FinishedIn(pass.snap.events, Ended')
      BY <1>0, FinishedInGrows DEF PassOK
    <2>2. /\ pass.at = "reconcile" /\ pass.snap.st = "finish" /\ pass.snap.matched # None
                => pass.snap.matched \in finished'
          /\ pass.at = "judge" /\ pass.a # None /\ asg # None
                => asg.sub = pass.a.sub \/ asg.sub \in crossed'
          /\ pass.at = "tell" /\ pass.verdict = "finished" => pass.a.sub \in Good'
          /\ pass.at \in {"post", "reconcile", "judge", "tell"}
      BY <1>0 DEF PassOK
    <2> QED BY <1>1, <1>2, <2>1, <2>2 DEF PassOK
  <1>3. ASSUME pass' = Between, LatchedIn(asg', Good') PROVE PassOK'
    <2>1. pass'.at = "post" /\ pass'.a = None
      BY <1>3 DEF Between
    <2> QED BY <1>1, <1>3, <2>1 DEF PassOK
  <1>4. MachineRuns \/ OtherStarts \/ Repeats \/ Connects \/ Drops \/ Publishes \/ UNCHANGED vars
          => UNCHANGED <<asg, pass>>
    BY DEF MachineRuns, Turns, Ends, OtherStarts, Begins, Becomes, Repeats, Connects, Drops,
           Publishes, vars, loopVars
  <1>5. CASE Crash
    BY <1>1, <1>3, <1>5 DEF Crash
  <1>6. CASE Records
    <2>1. asg'.terminal = None /\ asg'.sub = work.send /\ pass' = pass
          /\ (pass.at = "judge" => work.send \in crossed') /\ UNCHANGED finished
      BY <1>6 DEF Records, loopVars
    <2>2. LatchedIn(asg', Good')
      BY <2>1, NoneIsNew DEF LatchedIn, CycleAssumption, Kinds
    <2>3. pass.at \in {"reconcile", "judge"} => FinishedIn(pass.snap.events, Ended')
      BY <1>0, FinishedInGrows DEF PassOK
    <2> QED BY <1>0, <1>1, <2>1, <2>2, <2>3 DEF PassOK
  <1>7. CASE Posts
    <2>1. /\ pass'.snap = SnapshotNow(known') /\ known' \subseteq Sends
          /\ \/ pass'.at = "reconcile"
             \/ pass'.at = "judge" /\ pass'.a = asg'
          /\ pass'.a \in {asg, None} /\ asg' \in {asg, None}
      <3>1. known' \subseteq Sends /\ pass'.a \in {asg, None} /\ asg' \in {asg, None}
        BY <1>7, PostsTyped
      <3> QED BY <1>7, <3>1 DEF Posts, Between
    <2>2. /\ pass'.snap.st = frame.st /\ pass'.snap.events = events
          /\ pass'.snap.matched = IF frame.id \in known' THEN frame.id ELSE None
      BY <2>1 DEF SnapshotNow, LifecycleFields, MatchedNow
    <2>3. FinishedIn(pass'.snap.events, Ended')
      BY <1>0, <2>2, FinishedInGrows DEF EventsOK
    <2>4. pass'.snap.st = "finish" /\ pass'.snap.matched # None => pass'.snap.matched \in finished'
      BY <1>0, <2>2 DEF TrackerOK
    <2>5. LatchedIn(asg', Good') /\ LatchedIn(pass'.a, Good')
      BY <1>1, <2>1
    <2> QED BY <2>1, <2>3, <2>4, <2>5 DEF PassOK
  <1>8. CASE Reconciles
    <2>1. /\ pass.at = "reconcile" /\ pass'.at = "judge" /\ pass'.a = asg'
          /\ pass'.snap.events = pass.snap.events
      BY <1>8 DEF Reconciles, Between, Nothing
    <2>2. FinishedIn(pass'.snap.events, Ended')
      BY <1>0, <2>1, FinishedInGrows DEF PassOK
    <2>3. asg' \in {asg, MarkedRunning, LatchedOn(asg, "unobserved")}
      BY <1>8 DEF Reconciles, Considers, Latched, LatchedOn
    <2>4. LatchedIn(MarkedRunning, Good')
      BY <1>1, MarkedKeeps DEF LatchedIn
    <2>5. LatchedIn(LatchedOn(asg, "unobserved"), Good')
      BY <1>1, LatchedOnIn
    <2>6. LatchedIn(asg', Good')
      BY <1>1, <2>3, <2>4, <2>5
    <2> QED BY <2>1, <2>2, <2>6 DEF PassOK
  <1>9. CASE Judges
    <2> DEFINE v == Verdict(pass.a, pass.snap.events)
    <2>0. LatchedIn(Marked, Good') /\ Marked \in Assignments \cup {None}
      BY <1>1, MarkedKeeps, MarkedTyped DEF LatchedIn
    <2>1. CASE pass' = Between /\ asg' \in {asg, None, Marked}
      BY <1>1, <1>3, <2>0, <2>1
    <2>2. CASE /\ pass.a # None /\ pass' = Owes(pass.a, pass.a.terminal) /\ asg' = asg
      <3>1. pass'.at = "tell" /\ pass'.a = pass.a /\ pass'.verdict = pass.a.terminal
        BY <2>2 DEF Owes, Between
      <3>2. pass'.verdict = "finished" => pass'.a.sub \in Good'
        BY <1>1, <2>2, <3>1 DEF LatchedIn
      <3> QED BY <1>1, <2>2, <3>1, <3>2 DEF PassOK
    <2>3. CASE /\ pass.a # None /\ v # None
               /\ pass' = Owes(pass.a, v) /\ asg' = LatchedOn(Marked, v)
      <3>1. pass'.at = "tell" /\ pass'.a = pass.a /\ pass'.verdict = v
        BY <2>3 DEF Owes, Between
      <3>2. v \in {"finished", "failed"}
        BY <2>3, VerdictTyped
      <3>3. v = "finished" => pass.a.sub \in Good
        <4>1. FinishedIn(pass.snap.events, Ended)
          BY <1>9 DEF Judges, PassOK
        <4>2. v = "finished" => \E i \in DOMAIN pass.snap.events :
                 /\ pass.snap.events[i].sub = pass.a.sub
                 /\ pass.snap.events[i].kind = "finished"
          BY NoneIsNew DEF Verdict, Kinds
        <4> QED BY <1>0, <4>1, <4>2 DEF FinishedIn
      <3>4. Marked # None /\ v = "finished" => Marked.sub \in Good'
        <4>1. Marked # None => asg # None /\ Marked.sub = asg.sub
          BY MarkedKeeps
        <4>2. asg # None => asg.sub = pass.a.sub \/ asg.sub \in crossed
          BY <1>9, <2>3 DEF Judges, PassOK
        <4>3. crossed \subseteq Good
          BY DEF Good
        <4> QED BY <1>0, <3>3, <4>1, <4>2, <4>3
      <3>5. LatchedIn(asg', Good')
        BY <2>0, <2>3, <3>2, <3>4, LatchedOnIn
      <3>6. pass'.verdict = "finished" => pass'.a.sub \in Good'
        BY <1>0, <3>1, <3>3
      <3> QED BY <1>1, <3>1, <3>5, <3>6 DEF PassOK
    <2> QED BY <1>9, <2>1, <2>2, <2>3, JudgesCases
  <1>10. CASE Tells
    <2>1. pass' = Between /\ asg' \in {asg, None}
      BY <1>10 DEF Tells
    <2> QED BY <1>1, <1>3, <2>1
  <1> QED BY <1>2, <1>4, <1>5, <1>6, <1>7, <1>8, <1>9, <1>10 DEF Next, LoopStep

CycleInv == TypeOK /\ MachineOK /\ TrackerOK /\ EventsOK /\ PassOK

LEMMA CycleInit == Init => CycleInv
  <1> SUFFICES ASSUME Init PROVE CycleInv
    OBVIOUS
  <1>1. MachineOK
    BY NoneIsNew DEF Init, NoPrint, MachineOK, Rest
  <1>2. TrackerOK
    BY NoneIsNew DEF Init, NoPrint, Quiet, TrackerOK, Rest
  <1>3. EventsOK
    BY DEF Init, EventsOK, FinishedIn
  <1>4. PassOK
    BY DEF Init, Between, PassOK, LatchedIn
  <1> QED BY <1>1, <1>2, <1>3, <1>4, TypeInit DEF CycleInv

\* report_complete goes out only for a send the machine printed to the end, save
\* the two ways the property names (_detect_submission_completion).
THEOREM CompleteIsTrue == Spec => []CompleteMeansFinished
  <1>1. CycleInv /\ [Next]_vars => CycleInv'
    BY TypeStep, MachineStep, TrackerStep, EventsStep, PassStep DEF CycleInv
  <1>2. CycleInv => CompleteMeansFinished
    BY DEF CycleInv, PassOK, Good, CompleteMeansFinished
  <1> QED BY <1>1, <1>2, CycleInit, PTL DEF Spec

=============================================================================
