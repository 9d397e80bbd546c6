---------------------------- MODULE EventOutbox ------------------------------
(***************************************************************************)
(* The durable outbox of print events (bridge/outbox.py) and the report    *)
(* pass that empties it (bridge/app.py, main and _ack_reported_events).    *)
(*                                                                         *)
(* Printers append from their MQTT threads. The report loop copies each    *)
(* printer's pending events, posts them all at once, and drops the ones    *)
(* the cloud answered for, one printer at a time. Printers join and leave  *)
(* the fleet, the process stops anywhere, and a write of the file may fail *)
(* (the code logs that and goes on).                                       *)
(*                                                                         *)
(* An event is a record of its id (a fresh uuid), printer and sequence     *)
(* number. The code's list is always in order of that number (SeqsInOrder),*)
(* so a set of events stands for it. append and ack hold the outbox's lock *)
(* over memory and file; a stop between the two reads as a stop before or  *)
(* after, because the file is replaced by a rename.                        *)
(***************************************************************************)
EXTENDS Integers, FiniteSets

CONSTANTS
    Printers,
    EventIds,      \* the ids uuid4 hands out; one per event, never reused
    MaxEvents,     \* MAX_EVENTS, the events kept
    MaxSeq,        \* bound: the highest sequence number given
    MaxCrashes,    \* bound: process stops
    MaxFaults,     \* bound: failed writes, damaged files
    MaxMoves       \* bound: printers joining or leaving the fleet

ASSUME OutboxAssumption ==
    /\ MaxEvents \in Nat \ {0}
    /\ MaxSeq \in Nat
    /\ MaxCrashes \in Nat
    /\ MaxFaults \in Nat
    /\ MaxMoves \in Nat

VARIABLES
    up,         \* the process is running
    events,     \* EventOutbox._events
    nextSeq,    \* EventOutbox._next_seq
    disk,       \* events.json: its "next_seq" and "events"
    readable,   \* events.json can be read
    log,        \* every event appended so far (history)
    member,     \* the printers in the fleet
    phase,      \* the report pass: "idle", "building", "posted" or "acking"
    todo,       \* its printers not yet copied, or not yet acknowledged
    wire,       \* the events in its report
    acked,      \* the ids its answer lets it drop
    applied,    \* the events the cloud has applied
    crashes, faults, moves

vars == <<up, events, nextSeq, disk, readable, log, member, phase, todo, wire,
          acked, applied, crashes, faults, moves>>
store == <<events, nextSeq, disk, readable, log>>
pass == <<phase, todo, wire, acked>>
limits == <<crashes, faults, moves>>

Event == [id : EventIds, printer : Printers, seq : 1..MaxSeq]

IdsOf(S) == {e.id : e \in S}

-----------------------------------------------------------------------------
(* The store                                                               *)

\* A plausible slip: one event more than the limit is kept.
CappedLate(S) == {e \in S : Cardinality({f \in S : f.seq > e.seq}) <= MaxEvents}

\* The newest MaxEvents of S: the oldest are dropped first.
Capped(S) == {e \in S : Cardinality({f \in S : f.seq > e.seq}) < MaxEvents}

\* The file as memory would write it.
Image == [next |-> nextSeq, events |-> events]

\* _save: the whole file is replaced, or the write fails and is logged.
Save ==
    \/ /\ disk' = Image'
       /\ readable' = TRUE
       /\ UNCHANGED faults
    \/ /\ faults < MaxFaults
       /\ faults' = faults + 1
       /\ UNCHANGED <<disk, readable>>

\* _load: an unreadable file starts empty.
LoadedEvents == IF readable THEN disk.events ELSE {}

\* A plausible slip: the number goes on from the highest event still in the
\* file, whatever counter the file holds.
LoadedNextFromEvents ==
    IF readable /\ disk.events # {}
    THEN CHOOSE n \in {e.seq + 1 : e \in disk.events} :
            \A e \in disk.events : n > e.seq
    ELSE 1

\* A plausible slip: the number goes on from how many events there are.
LoadedNextFromCount == IF readable THEN Cardinality(disk.events) + 1 ELSE 1

\* max(highest + 1, next_seq), or 1 when there is no readable file.
LoadedNext ==
    IF readable
    THEN CHOOSE n \in {disk.next} \cup {e.seq + 1 : e \in disk.events} :
            /\ n >= disk.next
            /\ \A e \in disk.events : n > e.seq
    ELSE 1

\* uuid4: some id no event has. Which one does not matter.
FreshId == CHOOSE i \in EventIds : i \notin IdsOf(log)

\* A print event from a printer's MQTT thread. The printer need not be in the
\* fleet: add_printer connects before it joins, remove_printer closes after.
Append(p) ==
    LET stored == [id |-> FreshId, printer |-> p, seq |-> nextSeq] IN
    /\ up
    /\ IdsOf(log) # EventIds
    /\ nextSeq <= MaxSeq
    /\ nextSeq' = nextSeq + 1
    /\ events' = Capped(events \cup {stored})
    /\ Save
    /\ log' = log \cup {stored}
    /\ UNCHANGED <<up, member, applied, crashes, moves, pass>>

\* The acknowledgement of `ids`: exactly those are dropped, and the file is
\* written only if one was there.
Drop(ids) ==
    /\ events' = {e \in events : e.id \notin ids}
    /\ UNCHANGED <<nextSeq, log>>
    /\ IF events' # events THEN Save ELSE UNCHANGED <<disk, readable, faults>>

-----------------------------------------------------------------------------
(* The report pass                                                         *)

BeginPass ==
    /\ up
    /\ phase = "idle"
    /\ phase' = "building"
    /\ todo' = member
    /\ UNCHANGED <<up, store, member, applied, limits, wire, acked>>

\* A plausible slip: an event the cloud has applied is not reported again.
PendingUnapplied(p) == {e \in events \ applied : e.printer = p}

\* The report of one printer carries its pending events.
Pending(p) == {e \in events : e.printer = p}

CopyEvents(p) ==
    /\ up
    /\ phase = "building"
    /\ p \in todo
    /\ todo' = todo \ {p}
    /\ wire' = wire \cup Pending(p)
    /\ UNCHANGED <<up, store, member, applied, limits, phase, acked>>

Post ==
    /\ up
    /\ phase = "building"
    /\ todo = {}
    /\ phase' = "posted"
    /\ UNCHANGED <<up, store, member, applied, limits, todo, wire, acked>>

\* The cloud applies some of a report; applying twice is applying once.
CloudApplies(S) ==
    /\ phase = "posted"
    /\ S \subseteq wire
    /\ applied' = applied \cup S

\* A plausible slip: any answer acknowledges the whole report.
AckedIdsAll(ids) == IdsOf(wire)

\* The ids of the report the answer lets Link drop: the ones it names, or,
\* from a cloud that names none, all of them (it applied them all).
AckedIds(ids) == IdsOf(wire) \cap ids

AnswerArrives(S, ids) ==
    /\ up
    /\ CloudApplies(S)
    /\ ids \subseteq IdsOf(applied')
    /\ phase' = "acking"
    /\ acked' = AckedIds(ids)
    /\ todo' = {e.printer : e \in {f \in wire : f.id \in acked'}}
    /\ UNCHANGED <<up, store, member, limits, wire>>

\* The answer of a cloud that has applied the whole report.
FullAnswer == phase = "posted" /\ AnswerArrives(wire, IdsOf(wire))

\* The request fails after some of it was applied, or before.
AnswerLost(S) ==
    /\ up
    /\ CloudApplies(S)
    /\ phase' = "idle"
    /\ wire' = {}
    /\ UNCHANGED <<up, store, member, limits, todo, acked>>

\* One printer's ids; a printer that has left the fleet drops nothing.
AckPrinter(p) ==
    /\ up
    /\ phase = "acking"
    /\ p \in todo
    /\ todo' = todo \ {p}
    /\ IF p \in member
       THEN Drop(IdsOf({e \in wire : e.printer = p /\ e.id \in acked}))
       ELSE UNCHANGED <<store, faults>>
    /\ UNCHANGED <<up, member, applied, crashes, moves, phase, wire, acked>>

EndPass ==
    /\ up
    /\ phase = "acking"
    /\ todo = {}
    /\ phase' = "idle"
    /\ wire' = {}
    /\ acked' = {}
    /\ UNCHANGED <<up, store, member, applied, limits, todo>>

-----------------------------------------------------------------------------
(* Fleet and process                                                       *)

RemovePrinter(p) ==
    /\ up
    /\ moves < MaxMoves
    /\ p \in member
    /\ member' = member \ {p}
    /\ moves' = moves + 1
    /\ UNCHANGED <<up, store, pass, applied, crashes, faults>>

AddPrinter(p) ==
    /\ up
    /\ moves < MaxMoves
    /\ p \notin member
    /\ member' = member \cup {p}
    /\ moves' = moves + 1
    /\ UNCHANGED <<up, store, pass, applied, crashes, faults>>

\* The file is damaged behind Link's back.
Damage ==
    /\ faults < MaxFaults
    /\ readable
    /\ readable' = FALSE
    /\ faults' = faults + 1
    /\ UNCHANGED <<up, events, nextSeq, disk, log, member, pass, applied,
                   crashes, moves>>

Crash ==
    /\ up
    /\ crashes < MaxCrashes
    /\ crashes' = crashes + 1
    /\ up' = FALSE
    /\ events' = {}
    /\ nextSeq' = 1
    /\ phase' = "idle"
    /\ todo' = {}
    /\ wire' = {}
    /\ acked' = {}
    /\ UNCHANGED <<disk, readable, log, member, applied, faults, moves>>

Restart ==
    /\ ~up
    /\ up' = TRUE
    /\ events' = LoadedEvents
    /\ nextSeq' = LoadedNext
    /\ UNCHANGED <<disk, readable, log, member, pass, applied, limits>>

-----------------------------------------------------------------------------
Init ==
    /\ up = TRUE
    /\ events = {}
    /\ nextSeq = 1
    /\ disk = [next |-> 1, events |-> {}]
    /\ readable = TRUE
    /\ log = {}
    /\ member = Printers
    /\ phase = "idle"
    /\ todo = {}
    /\ wire = {}
    /\ acked = {}
    /\ applied = {}
    /\ crashes = 0
    /\ faults = 0
    /\ moves = 0

Answer ==
    \E S \in SUBSET wire : \E ids \in SUBSET IdsOf(applied \cup S) :
        AnswerArrives(S, ids)

Lost == \E S \in SUBSET wire : AnswerLost(S)

Next ==
    \/ \E p \in Printers : Append(p) \/ CopyEvents(p) \/ AckPrinter(p)
                              \/ RemovePrinter(p) \/ AddPrinter(p)
    \/ BeginPass
    \/ Post
    \/ Answer
    \/ Lost
    \/ EndPass
    \/ Damage
    \/ Crash
    \/ Restart

Spec == Init /\ [][Next]_vars

\* The report loop never stops turning, the service manager restarts the
\* process, and a cloud that keeps being asked answers in full in the end.
Fairness ==
    /\ WF_vars(BeginPass)
    /\ \A p \in Printers : WF_vars(CopyEvents(p)) /\ WF_vars(AckPrinter(p))
    /\ WF_vars(Post)
    /\ WF_vars(EndPass)
    /\ WF_vars(Restart)
    /\ SF_vars(FullAnswer)

LiveSpec == Spec /\ Fairness

-----------------------------------------------------------------------------
(* Properties                                                              *)

\* Every variable keeps its type, and neither memory nor the file ever holds
\* more events than MAX_EVENTS.
TypeOK ==
    /\ up \in BOOLEAN
    /\ log \subseteq Event
    /\ events \subseteq log
    /\ disk \in [next : 1..(MaxSeq + 1), events : SUBSET log]
    /\ wire \subseteq log
    /\ applied \subseteq log
    /\ Cardinality(events) <= MaxEvents
    /\ Cardinality(disk.events) <= MaxEvents
    /\ nextSeq \in 1..(MaxSeq + 1)
    /\ readable \in BOOLEAN
    /\ member \subseteq Printers
    /\ phase \in {"idle", "building", "posted", "acking"}
    /\ todo \subseteq Printers
    /\ acked \subseteq EventIds
    /\ crashes \in 0..MaxCrashes /\ faults \in 0..MaxFaults /\ moves \in 0..MaxMoves

InOrder(S, n) ==
    /\ \A e \in S : e.seq < n
    /\ \A e, f \in S : e.seq = f.seq => e = f

\* The unsent events carry different numbers, all below the next one, in
\* memory and in the file, whatever writes failed and wherever Link stopped:
\* the list's order is the order of the numbers (append and _load).
SeqsInOrder == InOrder(events, nextSeq) /\ InOrder(disk.events, disk.next)

\* As long as no write has failed and no file was damaged, numbers rise over
\* the whole life of the install, over every restart and acknowledgement.
SeqRisesWhileDiskWorks ==
    faults = 0 => InOrder(log, IF up THEN nextSeq ELSE disk.next)

Channel == INSTANCE EventChannel WITH
    Message <- Event,
    Capacity <- MaxEvents,
    emitted <- log,
    owed <- IF up THEN events ELSE disk.events,
    safe <- readable /\ (up => disk = Image)

\* The outbox is the channel EventChannel describes: an event leaves only
\* once the cloud has applied it, unless the limit pushes it out or Link
\* restarts on a file that was not current.
ChannelSpec == Channel!Spec

\* An event of a printer that stays in the fleet does not stay owed for ever:
\* the cloud applies it and Link drops it, over lost answers and restarts.
EveryEventSettles ==
    \A p \in Printers : \A i \in EventIds :
        <>[](p \in member)
            => []<>(up /\ ~\E e \in events : e.id = i /\ e.printer = p)
=============================================================================
