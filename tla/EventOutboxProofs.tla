-------------------------- MODULE EventOutboxProofs --------------------------
(***************************************************************************)
(* The outbox for any printers, any number of events and any limit: it     *)
(* keeps its order and its limit over failed writes and restarts, its      *)
(* numbers rise while the disk works, and it implements EventChannel.      *)
(*                                                                         *)
(* The properties are not inductive alone. The invariant adds that ids are *)
(* unique over the log (an acknowledgement drops by id), that only what    *)
(* the cloud has applied is acknowledged, and that a file no fault has     *)
(* touched is the image of memory.                                         *)
(***************************************************************************)
EXTENDS EventOutbox, FiniteSetTheorems, TLAPS

IdsUnique == \A e, f \in log : e.id = f.id => e = f

AckedWereApplied == acked \subseteq IdsOf(applied)

DiskCurrent ==
    faults = 0 => /\ readable
                  /\ up => disk = Image

Stopped == ~up => events = {} /\ nextSeq = 1

IInv ==
    /\ TypeOK
    /\ IsFiniteSet(log)
    /\ SeqsInOrder
    /\ SeqRisesWhileDiskWorks
    /\ IdsUnique
    /\ AckedWereApplied
    /\ DiskCurrent
    /\ Stopped

-----------------------------------------------------------------------------
(* The limit and the file.                                                 *)

\* A finite non-empty set of numbered events has an oldest one: the one with
\* the fewest events before it.
LEMMA OldestExists ==
    ASSUME NEW S, IsFiniteSet(S), S # {}, \A e \in S : e.seq \in Nat
    PROVE  \E m \in S : \A e \in S : m.seq <= e.seq
  <1> DEFINE Before(e) == {f \in S : f.seq < e.seq}
             T == {Before(e) : e \in S}
             R == StrictSubsetOrdering(S)
  <1>1. IsWellFoundedOn(R, SUBSET S)
    BY FS_StrictSubsetOrderingWellFounded, FS_FiniteSubsetsOfFinite
  <1>2. T \subseteq SUBSET S /\ T # {}
    OBVIOUS
  <1>3. PICK x \in T : \A y \in T : <<y, x>> \notin R
    <2> HIDE DEF T, R
    <2> QED BY <1>1, <1>2, WFMin
  <1>4. PICK m \in S : x = Before(m)
    OBVIOUS
  <1>5. ASSUME NEW e \in S, ~(m.seq <= e.seq) PROVE FALSE
    <2>1. e.seq < m.seq /\ e.seq \in Nat /\ m.seq \in Nat
      BY <1>5
    <2>2. e \in Before(m) /\ e \notin Before(e)
      BY <2>1
    <2>3. Before(e) \subseteq Before(m)
      BY <2>1
    <2>4. <<Before(e), Before(m)>> \in R
      BY <2>2, <2>3 DEF StrictSubsetOrdering
    <2> QED BY <1>3, <1>4, <2>4
  <1> QED BY <1>5

\* The limit drops nothing while there is room.
LEMMA CappedWithRoom ==
    ASSUME NEW S, IsFiniteSet(S), Cardinality(S) <= MaxEvents,
           \A e \in S : e.seq \in Nat
    PROVE  Capped(S) = S
  <1> SUFFICES ASSUME NEW e \in S
               PROVE  Cardinality({f \in S : f.seq > e.seq}) < MaxEvents
    BY DEF Capped
  <1> DEFINE After == {f \in S : f.seq > e.seq}
  <1>1. IsFiniteSet(S \ {e}) /\ Cardinality(S \ {e}) = Cardinality(S) - 1
    BY FS_RemoveElement
  <1>2. After \in SUBSET (S \ {e})
    OBVIOUS
  <1>3. Cardinality(After) <= Cardinality(S \ {e})
    BY <1>1, <1>2, FS_Subset
  <1>4. Cardinality(S) \in Nat /\ Cardinality(After) \in Nat
    BY <1>1, <1>2, FS_Subset, FS_CardinalityType
  <1> HIDE DEF After
  <1>5. Cardinality(After) < MaxEvents
    BY <1>1, <1>3, <1>4, OutboxAssumption
  <1> QED BY <1>5 DEF After

\* What the limit leaves is part of what was there, and within the limit
\* when there was at most one event too many.
LEMMA CappedWithinLimit ==
    ASSUME NEW S, IsFiniteSet(S), \A e \in S : e.seq \in Nat,
           \A e, f \in S : e.seq = f.seq => e = f,
           Cardinality(S) <= MaxEvents + 1
    PROVE  Capped(S) \subseteq S /\ Cardinality(Capped(S)) <= MaxEvents
  <1>0. Capped(S) \subseteq S
    BY DEF Capped
  <1>1. CASE Cardinality(S) <= MaxEvents
    BY <1>1, CappedWithRoom
  <1>2. CASE Cardinality(S) > MaxEvents
    <2>1. Cardinality(S) = MaxEvents + 1
      BY <1>2, FS_CardinalityType, OutboxAssumption
    <2>2. S # {}
      BY <2>1, FS_EmptySet, OutboxAssumption
    <2>3. PICK m \in S : \A e \in S : m.seq <= e.seq
      BY <2>2, OldestExists
    <2>4. {f \in S : f.seq > m.seq} = S \ {m}
      BY <2>3
    <2>5. IsFiniteSet(S \ {m}) /\ Cardinality(S \ {m}) = MaxEvents
      BY <2>1, FS_RemoveElement, OutboxAssumption
    <2>6. m \notin Capped(S)
      BY <2>4, <2>5, OutboxAssumption DEF Capped
    <2>7. Capped(S) \in SUBSET (S \ {m})
      BY <1>0, <2>6
    <2>8. Cardinality(Capped(S)) <= Cardinality(S \ {m})
      BY <2>5, <2>7, FS_Subset
    <2> QED BY <1>0, <2>5, <2>8
  <1>3. Cardinality(S) \in Nat
    BY FS_CardinalityType
  <1> QED BY <1>1, <1>2, <1>3, OutboxAssumption

\* A readable file is loaded with the counter it holds.
LEMMA LoadedCounter ==
    ASSUME TypeOK, SeqsInOrder, readable
    PROVE  LoadedNext = disk.next
  <1> DEFINE N == {disk.next} \cup {e.seq + 1 : e \in disk.events}
             P(n) == n >= disk.next /\ \A e \in disk.events : n > e.seq
  <1>1. disk.next \in Nat /\ \A e \in disk.events : e.seq \in Nat /\ e.seq < disk.next
    BY OutboxAssumption DEF TypeOK, Event, SeqsInOrder, InOrder
  <1>2. P(disk.next) /\ disk.next \in N
    BY <1>1
  <1>3. \A n \in N : P(n) => n = disk.next
    BY <1>1
  <1>4. LoadedNext = CHOOSE n \in N : P(n)
    BY DEF LoadedNext
  <1>5. LoadedNext \in N /\ P(LoadedNext)
    BY <1>2, <1>4
  <1> QED BY <1>3, <1>5

-----------------------------------------------------------------------------
(* The inductive invariant.                                                *)

LEMMA InitInv == Init => IInv
  <1> SUFFICES ASSUME Init PROVE IInv
    OBVIOUS
  <1>1. IsFiniteSet({}) /\ Cardinality({}) = 0
    BY FS_EmptySet
  <1> QED
    BY <1>1, OutboxAssumption DEF Init, IInv, TypeOK, SeqsInOrder, InOrder,
       SeqRisesWhileDiskWorks, IdsUnique, AckedWereApplied, DiskCurrent, Stopped, Image

\* A write leaves the old file, at the cost of a fault, or the new one.
LEMMA SaveKeepsOrder ==
    ASSUME IInv, Save, up, up' = up, log \subseteq log', events' \subseteq log',
           InOrder(events', nextSeq'), nextSeq' \in 1..(MaxSeq + 1),
           Cardinality(events') <= MaxEvents
    PROVE  /\ disk' \in [next : 1..(MaxSeq + 1), events : SUBSET log']
           /\ Cardinality(disk'.events) <= MaxEvents
           /\ InOrder(disk'.events, disk'.next)
           /\ readable' \in BOOLEAN
           /\ DiskCurrent'
           /\ faults' = 0 => faults = 0
           /\ faults' \in 0..MaxFaults
  <1>1. CASE disk' = Image' /\ readable' = TRUE /\ UNCHANGED faults
    BY <1>1 DEF Image, DiskCurrent, IInv, TypeOK
  <1>2. CASE faults < MaxFaults /\ faults' = faults + 1 /\ UNCHANGED <<disk, readable>>
    <2>1. faults' # 0 /\ faults' \in 0..MaxFaults
      BY <1>2, OutboxAssumption DEF IInv, TypeOK
    <2> QED BY <1>2, <2>1 DEF IInv, TypeOK, SeqsInOrder, DiskCurrent
  <1> QED BY <1>1, <1>2 DEF Save

\* Without faults so far, the log's numbers are all below the next one.
LEMMA LogBelowNext ==
    ASSUME IInv, up, faults = 0
    PROVE  InOrder(log, nextSeq)
  BY DEF IInv, SeqRisesWhileDiskWorks

LEMMA AppendInv == ASSUME IInv, NEW p \in Printers, Append(p) PROVE IInv'
  <1> DEFINE stored == [id |-> FreshId, printer |-> p, seq |-> nextSeq]
             S == events \cup {stored}
  <1>0. TypeOK /\ IsFiniteSet(log) /\ SeqsInOrder
    BY DEF IInv
  <1>1. /\ FreshId \in EventIds
        /\ FreshId \notin IdsOf(log)
        /\ \A e \in log : e.id # FreshId
    <2>1. IdsOf(log) \subseteq EventIds
      BY <1>0 DEF TypeOK, IdsOf, Event
    <2>2. \E i \in EventIds : i \notin IdsOf(log)
      BY <2>1 DEF Append
    <2>3. FreshId \in EventIds /\ FreshId \notin IdsOf(log)
      BY <2>2 DEF FreshId
    <2> QED BY <2>3 DEF IdsOf
  <1>2. /\ up /\ up' /\ nextSeq' = nextSeq + 1 /\ nextSeq <= MaxSeq
        /\ events' = Capped(S) /\ Save /\ log' = log \cup {stored}
        /\ UNCHANGED <<member, applied, crashes, moves, phase, todo, wire, acked>>
    BY DEF Append, pass
  <1>3. stored \in Event /\ nextSeq \in Nat /\ nextSeq' \in 1..(MaxSeq + 1)
    BY <1>0, <1>1, <1>2, OutboxAssumption DEF TypeOK, Event
  <1>4. stored.id = FreshId /\ stored.seq = nextSeq
    OBVIOUS
  <1>5. \A e \in events : e.seq \in Nat /\ e.seq < nextSeq
    BY <1>0, OutboxAssumption DEF TypeOK, Event, SeqsInOrder, InOrder
  <1> HIDE DEF stored
  <1>6. InOrder(S, nextSeq')
    <2>1. \A e \in S : e.seq < nextSeq'
      BY <1>2, <1>3, <1>4, <1>5
    <2>2. ASSUME NEW e \in S, NEW f \in S, e.seq = f.seq PROVE e = f
      BY <2>2, <1>0, <1>3, <1>4, <1>5 DEF SeqsInOrder, InOrder
    <2> QED BY <2>1, <2>2 DEF InOrder
  <1>7. /\ IsFiniteSet(events) /\ Cardinality(events) \in Nat
        /\ Cardinality(events) <= MaxEvents
    <2>1. events \in SUBSET log /\ Cardinality(events) <= MaxEvents
      BY <1>0 DEF TypeOK
    <2>2. IsFiniteSet(events)
      BY <1>0, <2>1, FS_Subset
    <2> QED BY <2>1, <2>2, FS_CardinalityType
  <1>8. IsFiniteSet(S) /\ Cardinality(S) <= MaxEvents + 1
    <2>1. /\ IsFiniteSet(S)
          /\ Cardinality(S) = IF stored \in events THEN Cardinality(events)
                                                  ELSE Cardinality(events) + 1
      BY <1>7, FS_AddElement
    <2> QED BY <1>7, <2>1, OutboxAssumption
  <1>9. /\ \A e \in S : e.seq \in Nat
        /\ \A e, f \in S : e.seq = f.seq => e = f
    BY <1>3, <1>4, <1>5, <1>6 DEF InOrder
  <1>10. events' \subseteq S /\ Cardinality(events') <= MaxEvents
    BY <1>2, <1>8, <1>9, CappedWithinLimit
  <1>11. InOrder(events', nextSeq')
    BY <1>6, <1>10 DEF InOrder
  <1>12. log' \subseteq Event /\ log \subseteq log' /\ events' \subseteq log'
    BY <1>0, <1>2, <1>3, <1>10 DEF TypeOK
  <1>13. /\ disk' \in [next : 1..(MaxSeq + 1), events : SUBSET log']
         /\ Cardinality(disk'.events) <= MaxEvents
         /\ InOrder(disk'.events, disk'.next)
         /\ readable' \in BOOLEAN
         /\ DiskCurrent'
         /\ faults' = 0 => faults = 0
         /\ faults' \in 0..MaxFaults
    BY <1>2, <1>3, <1>10, <1>11, <1>12, SaveKeepsOrder
  <1>14. TypeOK'
    BY <1>0, <1>2, <1>3, <1>10, <1>12, <1>13 DEF TypeOK
  <1>15. IsFiniteSet(log')
    BY <1>0, <1>2, FS_AddElement
  <1>16. SeqsInOrder'
    BY <1>11, <1>13 DEF SeqsInOrder
  <1>17. SeqRisesWhileDiskWorks'
    <2> SUFFICES ASSUME faults' = 0 PROVE InOrder(log', nextSeq')
      BY <1>2 DEF SeqRisesWhileDiskWorks, InOrder
    <2>1. InOrder(log, nextSeq)
      BY <1>2, <1>13, LogBelowNext
    <2>2. \A e \in log : e.seq \in Nat /\ e.seq < nextSeq
      BY <2>1, <1>0, OutboxAssumption DEF InOrder, TypeOK, Event
    <2>3. \A e \in log' : e.seq < nextSeq'
      BY <1>2, <1>3, <1>4, <2>2
    <2>4. ASSUME NEW e \in log', NEW f \in log', e.seq = f.seq PROVE e = f
      BY <2>1, <2>2, <2>4, <1>2, <1>3, <1>4 DEF InOrder
    <2> QED BY <2>3, <2>4 DEF InOrder
  <1>18. IdsUnique'
    BY <1>1, <1>2, <1>4 DEF IInv, IdsUnique
  <1>19. AckedWereApplied'
    BY <1>2 DEF IInv, AckedWereApplied, IdsOf
  <1> QED BY <1>2, <1>13, <1>14, <1>15, <1>16, <1>17, <1>18, <1>19 DEF IInv, Stopped

\* The steps of a report pass that leave the store alone.
LEMMA PassInv ==
    ASSUME IInv, UNCHANGED <<up, store, faults>>,
           member' \subseteq Printers, moves' \in 0..MaxMoves, UNCHANGED crashes,
           phase' \in {"idle", "building", "posted", "acking"}, todo' \subseteq Printers,
           wire' \subseteq log, applied \subseteq applied', applied' \subseteq log,
           acked' \subseteq IdsOf(applied'), acked' \subseteq EventIds
    PROVE  IInv'
  BY DEF store, IInv, TypeOK, SeqsInOrder, InOrder, SeqRisesWhileDiskWorks, IdsUnique,
     AckedWereApplied, DiskCurrent, Stopped, Image

LEMMA BeginPassInv == IInv /\ BeginPass => IInv'
  <1> SUFFICES ASSUME IInv, BeginPass PROVE IInv'
    OBVIOUS
  <1> QED BY PassInv DEF BeginPass, limits, IInv, TypeOK, AckedWereApplied

LEMMA CopyEventsInv == ASSUME IInv, NEW p \in Printers, CopyEvents(p) PROVE IInv'
  <1>1. wire' \subseteq log /\ todo' \subseteq Printers
    BY DEF CopyEvents, Pending, IInv, TypeOK
  <1> QED BY <1>1, PassInv DEF CopyEvents, limits, IInv, TypeOK, AckedWereApplied

LEMMA PostInv == IInv /\ Post => IInv'
  <1> SUFFICES ASSUME IInv, Post PROVE IInv'
    OBVIOUS
  <1> QED BY PassInv DEF Post, limits, IInv, TypeOK, AckedWereApplied

LEMMA AnswerInv ==
    ASSUME IInv, NEW S \in SUBSET wire, NEW ids, AnswerArrives(S, ids) PROVE IInv'
  <1>1. /\ applied' = applied \cup S /\ wire' = wire
        /\ ids \subseteq IdsOf(applied') /\ acked' = IdsOf(wire) \cap ids
        /\ todo' = {e.printer : e \in {f \in wire : f.id \in acked'}}
        /\ phase' = "acking" /\ UNCHANGED <<up, store, member, limits>>
    BY DEF AnswerArrives, CloudApplies, AckedIds
  <1>2. wire \subseteq Event /\ wire \subseteq log
    BY DEF IInv, TypeOK
  <1>3. todo' \subseteq Printers
    BY <1>1, <1>2 DEF Event
  <1>4. acked' \subseteq EventIds
    BY <1>1, <1>2 DEF Event, IdsOf
  <1>5. acked' \subseteq IdsOf(applied')
    BY <1>1
  <1>6. applied \subseteq applied' /\ applied' \subseteq log
    BY <1>1, <1>2 DEF IInv, TypeOK
  <1> QED BY <1>1, <1>2, <1>3, <1>4, <1>5, <1>6, PassInv DEF limits, IInv, TypeOK

LEMMA AnswerLostInv == ASSUME IInv, NEW S \in SUBSET wire, AnswerLost(S) PROVE IInv'
  <1>1. /\ applied' = applied \cup S /\ wire' = {} /\ phase' = "idle"
        /\ UNCHANGED <<up, store, member, limits, todo, acked>>
    BY DEF AnswerLost, CloudApplies
  <1>2. applied \subseteq applied' /\ applied' \subseteq log
    BY <1>1 DEF IInv, TypeOK
  <1>3. acked' \subseteq IdsOf(applied')
    BY <1>1 DEF IInv, AckedWereApplied, IdsOf
  <1> QED BY <1>1, <1>2, <1>3, PassInv DEF limits, IInv, TypeOK

LEMMA EndPassInv == IInv /\ EndPass => IInv'
  <1> SUFFICES ASSUME IInv, EndPass PROVE IInv'
    OBVIOUS
  <1> QED BY PassInv DEF EndPass, limits, IInv, TypeOK, IdsOf

LEMMA MembershipInv ==
    ASSUME IInv, NEW p \in Printers, RemovePrinter(p) \/ AddPrinter(p) PROVE IInv'
  <1>1. moves' \in 0..MaxMoves
    BY OutboxAssumption DEF IInv, TypeOK, RemovePrinter, AddPrinter
  <1>2. member' \subseteq Printers
    BY DEF IInv, TypeOK, RemovePrinter, AddPrinter
  <1>3. UNCHANGED <<up, store, faults, crashes, phase, todo, wire, acked, applied>>
    BY DEF RemovePrinter, AddPrinter, pass
  <1> QED BY <1>1, <1>2, <1>3, PassInv DEF IInv, TypeOK, AckedWereApplied

\* What an acknowledgement leaves in memory.
LEMMA DropKeeps ==
    ASSUME IInv, NEW ids, events' = {e \in events : e.id \notin ids}
    PROVE  /\ events' \subseteq events
           /\ Cardinality(events') <= MaxEvents
           /\ InOrder(events', nextSeq)
  <1>1. events' \in SUBSET events
    OBVIOUS
  <1>2. IsFiniteSet(events) /\ Cardinality(events) <= MaxEvents
    <2>1. events \in SUBSET log /\ IsFiniteSet(log)
      BY DEF IInv, TypeOK
    <2> QED BY <2>1, FS_Subset DEF IInv, TypeOK
  <1>3. Cardinality(events') <= Cardinality(events) /\ IsFiniteSet(events')
    BY <1>1, <1>2, FS_Subset
  <1>4. Cardinality(events') \in Nat /\ Cardinality(events) \in Nat
    BY <1>2, <1>3, FS_CardinalityType
  <1> QED BY <1>1, <1>2, <1>3, <1>4, OutboxAssumption
          DEF IInv, SeqsInOrder, InOrder

LEMMA AckPrinterInv == ASSUME IInv, NEW p \in Printers, AckPrinter(p) PROVE IInv'
  <1>0. /\ up /\ up' /\ todo' \subseteq Printers
        /\ UNCHANGED <<member, applied, crashes, moves, phase, wire, acked>>
    BY DEF AckPrinter, IInv, TypeOK
  <1>1. CASE UNCHANGED <<store, faults>>
    BY <1>0, <1>1, PassInv DEF AckPrinter, IInv, TypeOK, AckedWereApplied
  <1>2. ASSUME NEW ids, Drop(ids) PROVE IInv'
    <2>0. events' = {e \in events : e.id \notin ids} /\ UNCHANGED <<nextSeq, log>>
      BY <1>2 DEF Drop
    <2>1. CASE UNCHANGED <<disk, readable, faults>> /\ events' = events
      BY <1>0, <2>0, <2>1, PassInv DEF store, IInv, TypeOK, AckedWereApplied
    <2>2. CASE Save
      <3>1. /\ events' \subseteq events /\ Cardinality(events') <= MaxEvents
            /\ InOrder(events', nextSeq')
        BY <2>0, DropKeeps
      <3>2. log' = log /\ events' \subseteq log' /\ nextSeq' \in 1..(MaxSeq + 1)
        BY <2>0, <3>1 DEF IInv, TypeOK
      <3>3. /\ disk' \in [next : 1..(MaxSeq + 1), events : SUBSET log']
            /\ Cardinality(disk'.events) <= MaxEvents
            /\ InOrder(disk'.events, disk'.next)
            /\ readable' \in BOOLEAN
            /\ DiskCurrent'
            /\ faults' = 0 => faults = 0
            /\ faults' \in 0..MaxFaults
        BY <1>0, <2>2, <3>1, <3>2, SaveKeepsOrder
      <3>4. TypeOK'
        BY <1>0, <2>0, <3>1, <3>2, <3>3 DEF IInv, TypeOK
      <3>5. SeqsInOrder'
        BY <3>1, <3>3 DEF SeqsInOrder
      <3>6. SeqRisesWhileDiskWorks'
        BY <1>0, <2>0, <3>3 DEF IInv, SeqRisesWhileDiskWorks, InOrder
      <3>7. (IdsUnique /\ AckedWereApplied /\ IsFiniteSet(log))'
        BY <1>0, <2>0 DEF IInv, IdsUnique, AckedWereApplied
      <3> QED BY <1>0, <3>3, <3>4, <3>5, <3>6, <3>7 DEF IInv, Stopped
    <2> QED BY <1>2, <2>1, <2>2 DEF Drop
  <1> QED BY <1>1, <1>2 DEF AckPrinter

LEMMA DamageInv == IInv /\ Damage => IInv'
  <1> SUFFICES ASSUME IInv, Damage PROVE IInv'
    OBVIOUS
  <1>1. /\ readable' = FALSE /\ faults' = faults + 1 /\ faults < MaxFaults
        /\ UNCHANGED <<up, events, nextSeq, disk, log, member, phase, todo, wire, acked,
                       applied, crashes, moves>>
    BY DEF Damage, pass
  <1>2. faults' # 0 /\ faults' \in 0..MaxFaults
    BY <1>1, OutboxAssumption DEF IInv, TypeOK
  <1> QED BY <1>1, <1>2 DEF IInv, TypeOK, SeqsInOrder, InOrder, SeqRisesWhileDiskWorks,
             IdsUnique, AckedWereApplied, DiskCurrent, Stopped

LEMMA CrashInv == IInv /\ Crash => IInv'
  <1> SUFFICES ASSUME IInv, Crash PROVE IInv'
    OBVIOUS
  <1>0. IsFiniteSet({}) /\ Cardinality({}) = 0
    BY FS_EmptySet
  <1>1. crashes' \in 0..MaxCrashes
    BY OutboxAssumption DEF Crash, IInv, TypeOK
  <1>2. TypeOK'
    <2>1. /\ up' = FALSE /\ events' = {} /\ nextSeq' = 1 /\ phase' = "idle"
          /\ todo' = {} /\ wire' = {} /\ acked' = {}
          /\ UNCHANGED <<disk, readable, log, member, applied, faults, moves>>
      BY DEF Crash
    <2>2. 1 \in 1..(MaxSeq + 1) /\ Cardinality(events') <= MaxEvents
      BY <1>0, <2>1, OutboxAssumption
    <2> QED BY <1>1, <2>1, <2>2 DEF IInv, TypeOK
  <1>3. SeqsInOrder'
    BY DEF Crash, IInv, SeqsInOrder, InOrder
  <1>4. SeqRisesWhileDiskWorks'
    <2> SUFFICES ASSUME faults = 0 PROVE InOrder(log, disk.next)
      BY DEF Crash, SeqRisesWhileDiskWorks, InOrder
    <2>1. disk.next = nextSeq
      BY DEF Crash, IInv, DiskCurrent, Image
    <2> QED BY <2>1 DEF Crash, IInv, SeqRisesWhileDiskWorks
  <1>5. (IsFiniteSet(log) /\ IdsUnique /\ AckedWereApplied /\ DiskCurrent /\ Stopped)'
    BY DEF Crash, IInv, IdsUnique, AckedWereApplied, DiskCurrent, Stopped
  <1> QED BY <1>2, <1>3, <1>4, <1>5 DEF IInv

LEMMA RestartInv == IInv /\ Restart => IInv'
  <1> SUFFICES ASSUME IInv, Restart PROVE IInv'
    OBVIOUS
  <1>0. /\ up' = TRUE /\ ~up /\ events' = LoadedEvents /\ nextSeq' = LoadedNext
        /\ UNCHANGED <<disk, readable, log, member, phase, todo, wire, acked, applied,
                       crashes, faults, moves>>
    BY DEF Restart, pass, limits
  <1>1. CASE readable
    <2>1. events' = disk.events /\ nextSeq' = disk.next
      BY <1>0, <1>1, LoadedCounter DEF IInv, LoadedEvents
    <2>2. disk = Image'
      BY <1>0, <2>1 DEF IInv, TypeOK, Image
    <2> QED BY <1>0, <1>1, <2>1, <2>2 DEF IInv, TypeOK, SeqsInOrder, InOrder,
               SeqRisesWhileDiskWorks, IdsUnique, AckedWereApplied, DiskCurrent, Stopped
  <1>2. CASE ~readable
    <2>1. events' = {} /\ nextSeq' = 1
      BY <1>0, <1>2 DEF LoadedEvents, LoadedNext
    <2>2. Cardinality({}) = 0 /\ faults # 0
      BY <1>2, FS_EmptySet DEF IInv, DiskCurrent
    <2> QED BY <1>0, <2>1, <2>2, OutboxAssumption DEF IInv, TypeOK, SeqsInOrder, InOrder,
               SeqRisesWhileDiskWorks, IdsUnique, AckedWereApplied, DiskCurrent, Stopped
  <1> QED BY <1>1, <1>2

LEMMA NextInv == IInv /\ [Next]_vars => IInv'
  <1> SUFFICES ASSUME IInv, [Next]_vars PROVE IInv'
    OBVIOUS
  <1>1. ASSUME NEW p \in Printers,
               \/ Append(p) \/ CopyEvents(p) \/ AckPrinter(p)
               \/ RemovePrinter(p) \/ AddPrinter(p)
        PROVE  IInv'
    BY <1>1, AppendInv, CopyEventsInv, AckPrinterInv, MembershipInv
  <1>2. CASE Answer
    BY <1>2, AnswerInv DEF Answer
  <1>3. CASE Lost
    BY <1>3, AnswerLostInv DEF Lost
  <1>4. CASE UNCHANGED vars
    BY <1>4 DEF vars, IInv, TypeOK, SeqsInOrder, InOrder, SeqRisesWhileDiskWorks,
       IdsUnique, AckedWereApplied, DiskCurrent, Stopped, Image
  <1> QED BY <1>1, <1>2, <1>3, <1>4, BeginPassInv, PostInv, EndPassInv, DamageInv, CrashInv,
             RestartInv DEF Next

\* The inductive invariant holds in every behaviour.
THEOREM Invariant == Spec => []IInv
  BY InitInv, NextInv, PTL DEF Spec

\* Every variable keeps its type; memory and file stay within MAX_EVENTS, for
\* any limit and any number of events and printers.
THEOREM TypeCorrect == Spec => []TypeOK
  <1>1. IInv => TypeOK
    BY DEF IInv
  <1> QED BY <1>1, Invariant, PTL

\* The unsent events are in order of distinct numbers below the next one, in
\* memory and in the file, over failed writes, damage and restarts.
THEOREM Ordered == Spec => []SeqsInOrder
  <1>1. IInv => SeqsInOrder
    BY DEF IInv
  <1> QED BY <1>1, Invariant, PTL

\* Numbers rise over the life of the install as long as no write has failed
\* and no file was damaged.
THEOREM NumbersRise == Spec => []SeqRisesWhileDiskWorks
  <1>1. IInv => SeqRisesWhileDiskWorks
    BY DEF IInv
  <1> QED BY <1>1, Invariant, PTL

-----------------------------------------------------------------------------
(* The outbox implements EventChannel.                                     *)

LEMMA ChannelInit == Init => Channel!Init
  BY DEF Init, Channel!Init, Image

\* A step that changes neither the store nor what the cloud has applied.
LEMMA QuietStep ==
    ASSUME UNCHANGED <<up, store, applied>>
    PROVE  UNCHANGED Channel!vars
  BY DEF store, Channel!vars, Image

LEMMA AppendEmits ==
    ASSUME IInv, NEW p \in Printers, Append(p)
    PROVE  \E m \in Event : Channel!Emit(m)
  <1> DEFINE stored == [id |-> FreshId, printer |-> p, seq |-> nextSeq]
             S == events \cup {stored}
  <1>1. /\ up /\ up' /\ events' = Capped(S) /\ log' = log \cup {stored}
        /\ UNCHANGED applied
        /\ \E i \in EventIds : i \notin IdsOf(log)
    <2>1. IdsOf(log) \subseteq EventIds
      BY DEF IInv, TypeOK, IdsOf, Event
    <2> QED BY <2>1 DEF Append
  <1>2. FreshId \in EventIds /\ FreshId \notin IdsOf(log)
    BY <1>1 DEF FreshId
  <1>3. stored \in Event /\ stored \notin log
    BY <1>2, OutboxAssumption DEF Append, IInv, TypeOK, Event, IdsOf
  <1>4. /\ events \in SUBSET log /\ IsFiniteSet(log) /\ log \subseteq Event
        /\ Cardinality(events) <= MaxEvents
    BY DEF IInv, TypeOK
  <1>5. IsFiniteSet(events) /\ Cardinality(events) \in Nat
    BY <1>4, FS_Subset, FS_CardinalityType
  <1> HIDE DEF stored
  <1>6. \A e \in S : e.seq \in Nat
    BY <1>3, <1>4 DEF Event
  <1>7. ASSUME Cardinality(events) < MaxEvents PROVE events' = S
    <2>1. stored \notin events
      BY <1>3, <1>4
    <2>2. IsFiniteSet(S) /\ Cardinality(S) = Cardinality(events) + 1
      BY <1>5, <2>1, FS_AddElement
    <2>3. Cardinality(S) <= MaxEvents
      BY <1>5, <1>7, <2>2, OutboxAssumption
    <2> HIDE DEF S
    <2>4. Capped(S) = S
      BY <1>6, <2>2, <2>3, CappedWithRoom
    <2> QED BY <1>1, <2>4
  <1>8. events' \subseteq S
    BY <1>1 DEF Capped
  <1>9. Channel!Cardinality(events) = Cardinality(events)
    BY DEF Channel!Cardinality, Cardinality
  <1>10. Channel!Emit(stored)
    BY <1>1, <1>3, <1>7, <1>8, <1>9 DEF Channel!Emit
  <1> QED BY <1>3, <1>10

LEMMA AnswerApplies ==
    ASSUME IInv, NEW S \in SUBSET wire, CloudApplies(S), UNCHANGED <<up, store>>
    PROVE  Channel!Apply
  BY DEF IInv, TypeOK, CloudApplies, store, Channel!Apply, Image

\* Only what the cloud has applied is dropped.
LEMMA AckSettles ==
    ASSUME IInv, NEW p \in Printers, AckPrinter(p)
    PROVE  Channel!Settle \/ UNCHANGED Channel!vars
  <1>1. CASE p \notin member
    <2>1. UNCHANGED <<up, store, applied>>
      BY <1>1 DEF AckPrinter
    <2> QED BY <2>1, QuietStep
  <1>2. CASE p \in member
    <2> DEFINE G == {e \in wire : e.printer = p /\ e.id \in acked}
               ids == IdsOf(G)
    <2>1. Drop(ids) /\ up /\ up' /\ UNCHANGED applied
      BY <1>2 DEF AckPrinter
    <2>2. ASSUME NEW e \in events, e.id \in ids PROVE e \in applied
      <3>1. e.id \in acked
        BY <2>2 DEF IdsOf
      <3>2. PICK f \in applied : f.id = e.id
        BY <3>1 DEF IInv, AckedWereApplied, IdsOf
      <3> QED BY <3>2 DEF IInv, TypeOK, IdsUnique
    <2> HIDE DEF ids
    <2>3. events' = {e \in events : e.id \notin ids} /\ log' = log
      BY <2>1 DEF Drop
    <2>4. events' \subseteq events /\ events \ events' \subseteq applied
      BY <2>2, <2>3
    <2> QED BY <2>1, <2>3, <2>4 DEF Channel!Settle
  <1> QED BY <1>1, <1>2

LEMMA CrashLosesOnlyUnsafe == IInv /\ Crash => Channel!Lose \/ UNCHANGED Channel!vars
  <1> SUFFICES ASSUME IInv, Crash PROVE Channel!Lose \/ UNCHANGED Channel!vars
    OBVIOUS
  <1>1. up /\ ~up' /\ UNCHANGED <<disk, readable, log, applied>>
    BY DEF Crash, IInv, TypeOK
  <1>2. CASE readable /\ disk = Image
    <2>1. disk.events = events
      BY <1>2 DEF Image
    <2> QED BY <1>1, <1>2, <2>1 DEF Channel!vars
  <1>3. CASE ~(readable /\ disk = Image)
    <2>1. disk.events \subseteq log
      BY DEF IInv, TypeOK
    <2> QED BY <1>1, <1>3, <2>1 DEF Channel!Lose
  <1> QED BY <1>2, <1>3

LEMMA RestartKeepsSafe == IInv /\ Restart => Channel!Lose \/ UNCHANGED Channel!vars
  <1> SUFFICES ASSUME IInv, Restart PROVE Channel!Lose \/ UNCHANGED Channel!vars
    OBVIOUS
  <1>1. /\ ~up /\ up' /\ events' = LoadedEvents /\ nextSeq' = LoadedNext
        /\ UNCHANGED <<disk, readable, log, applied>>
    BY DEF Restart
  <1>2. CASE readable
    <2>1. events' = disk.events /\ nextSeq' = disk.next
      BY <1>1, <1>2, LoadedCounter DEF IInv, LoadedEvents
    <2>2. disk = Image'
      BY <1>1, <2>1 DEF IInv, TypeOK, Image
    <2> QED BY <1>1, <1>2, <2>1, <2>2 DEF Channel!vars
  <1>3. CASE ~readable
    <2>1. events' = {}
      BY <1>1, <1>3 DEF LoadedEvents
    <2> QED BY <1>1, <1>3, <2>1 DEF Channel!Lose
  <1> QED BY <1>2, <1>3

LEMMA DamageSpoils == IInv /\ Damage => Channel!Spoil
  BY DEF Damage, IInv, TypeOK, Channel!Spoil, Image

LEMMA ChannelNext == IInv /\ [Next]_vars => [Channel!Next]_Channel!vars
  <1> SUFFICES ASSUME IInv, [Next]_vars PROVE [Channel!Next]_Channel!vars
    OBVIOUS
  <1>1. ASSUME NEW p \in Printers, Append(p) PROVE Channel!Next
    BY <1>1, AppendEmits DEF Channel!Next
  <1>2. ASSUME NEW p \in Printers, AckPrinter(p) PROVE [Channel!Next]_Channel!vars
    BY <1>2, AckSettles DEF Channel!Next
  <1>3. ASSUME NEW p \in Printers, CopyEvents(p) \/ RemovePrinter(p) \/ AddPrinter(p)
        PROVE  UNCHANGED Channel!vars
    BY <1>3, QuietStep DEF CopyEvents, RemovePrinter, AddPrinter
  <1>4. CASE BeginPass \/ Post \/ EndPass
    BY <1>4, QuietStep DEF BeginPass, Post, EndPass
  <1>5. CASE Answer \/ Lost
    <2>1. PICK S \in SUBSET wire : CloudApplies(S) /\ UNCHANGED <<up, store>>
      BY <1>5 DEF Answer, Lost, AnswerArrives, AnswerLost
    <2> QED BY <2>1, AnswerApplies DEF Channel!Next
  <1>6. CASE Damage \/ Crash \/ Restart
    <2>1. CASE Damage
      BY <2>1, DamageSpoils DEF Channel!Next
    <2>2. CASE Crash
      BY <2>2, CrashLosesOnlyUnsafe DEF Channel!Next
    <2>3. CASE Restart
      BY <2>3, RestartKeepsSafe DEF Channel!Next
    <2> QED BY <1>6, <2>1, <2>2, <2>3
  <1>7. CASE UNCHANGED vars
    BY <1>7, QuietStep DEF vars, store
  <1> QED BY <1>1, <1>2, <1>3, <1>4, <1>5, <1>6, <1>7 DEF Next

\* The outbox keeps the channel's promise for any printers, any limit and any
\* number of events: an event leaves only once the cloud has applied it,
\* unless the limit pushes it out or Link restarts on a file that was not
\* current.
THEOREM ImplementsChannel == Spec => ChannelSpec
  BY ChannelInit, ChannelNext, Invariant, PTL DEF Spec, ChannelSpec, Channel!Spec
=============================================================================
