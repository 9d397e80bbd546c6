-------------------------- MODULE ControlOnceProofs --------------------------
(***************************************************************************)
(* For any control ids, any commands and any number of faults: a control   *)
(* id that two threads may take is published to the end once, and what     *)
(* 3DPF is told of it is so.                                               *)
(*                                                                         *)
(* PublishedOnce is not inductive alone.  The invariant adds who may be in *)
(* the middle of a command (Busy: only the thread in the lock), that a     *)
(* thread sends nothing that is remembered (NotYet), and where a complete  *)
(* publish has left its trace (Ran): in memory, in a marker file, in a     *)
(* thread that is about to write one, or lost by a crash or by a stop      *)
(* whose assignment could not be dropped.                                  *)
(*                                                                         *)
(* For the receipts it adds what everybody who may speak of a command      *)
(* knows: memory and markers (Said), the queue of answers (Told) and each  *)
(* thread at its place (Saying).                                           *)
(***************************************************************************)
EXTENDS ControlOnce, TLAPS

\* A thread that is at work has a command, and inside one it has the lock.
Busy ==
    \A t \in Threads :
        /\ th[t].at # "idle" => th[t].id \in Ids
        /\ th[t].at \in {"send", "mark"} => lock = t
        /\ th[t].at = "send" => th[t].left \in 1..Messages[th[t].id]
        /\ th[t].at = "ack" => th[t].out # "none"

NotYet == \A t \in Threads : th[t].at = "send" => ~Remembered(th[t].id)

Marking(id) == \E t \in Threads : th[t].at = "mark" /\ th[t].id = id

Ran == \A id \in Ids : full[id] = 0 \/ Remembered(id) \/ id \in torn \cup unclear \/ Marking(id)

OnceInv == Busy /\ NotYet /\ Ran /\ PublishedOnce

-----------------------------------------------------------------------------
(* Types.                                                                  *)

\* What leaves _apply_control is a receipt to post, or nothing.
LEMMA LeavesTyped ==
    ASSUME TypeOK, NEW t \in Threads, NEW id \in Ids,
           NEW out \in Outcomes, Leaves(t, id, out)
    PROVE  th' \in [Threads -> States]
  BY DEF TypeOK, Leaves, States, Idle, Outcomes

\* An ack adds a receipt.
LEMMA AckedTyped ==
    ASSUME TypeOK, NEW id \in Ids, NEW state \in Receipts, Acked(id, state)
    PROVE  receipt' \in [Ids -> SUBSET Receipts] /\ faults' \in 0..MaxFaults
  <1>1. CASE receipt' = [receipt EXCEPT ![id] = @ \cup {state}] /\ NoFault
    <2>1. receipt[id] \cup {state} \in SUBSET Receipts
      BY DEF TypeOK
    <2>2. receipt' \in [Ids -> SUBSET Receipts]
      BY <1>1, <2>1 DEF TypeOK
    <2> QED BY <1>1, <2>2 DEF TypeOK, NoFault
  <1>2. CASE UNCHANGED receipt /\ Fault
    <2>1. faults' \in 0..MaxFaults
      BY <1>2, ControlAssumption DEF TypeOK, Fault
    <2> QED BY <1>2, <2>1 DEF TypeOK
  <1> QED BY <1>1, <1>2 DEF Acked

\* What _handle answers is a receipt.
LEMMA AnswersTyped ==
    ASSUME NEW out \in Outcomes \ {"none"}
    PROVE  Answers(out) \subseteq Receipts
  BY DEF Outcomes, Answers, Receipts

\* A message is entered in the book, or not.
LEMMA PublishesTyped ==
    ASSUME TypeOK, Busy, NEW t \in Threads, Publishes(t)
    PROVE  /\ sent' \in [Ids -> SUBSET Nat] /\ book' \subseteq Ids
           /\ th[t].id \in Ids /\ th[t].left \in Nat \ {0}
           /\ LeftAfter(t) \in Nat /\ LeftAfter(t) < th[t].left
  <1>1. th[t].id \in Ids /\ th[t].left \in 1..Messages[th[t].id] /\ Messages[th[t].id] \in Nat
    BY ControlAssumption DEF Busy, Publishes
  <1>2. Messages[th[t].id] - th[t].left + 1 \in Nat
    BY <1>1
  <1>3. sent' \in [Ids -> SUBSET Nat]
    BY <1>1, <1>2 DEF TypeOK, Publishes
  <1>4. book' \subseteq Ids
    BY <1>1 DEF TypeOK, Publishes, Books
  <1> QED BY <1>1, <1>3, <1>4 DEF LeftAfter

\* The parts of TypeOK, primed.
LEMMA TypeParts ==
    ASSUME expired' \subseteq Ids, todo' \subseteq Ids, receipt' \in [Ids -> SUBSET Receipts],
           th' \in [Threads -> States], lock' \in Threads \cup {None},
           applied' \subseteq Ids, marker' \subseteq Ids, torn' \subseteq Ids,
           unclear' \subseteq Ids,
           up' \in BOOLEAN, faults' \in 0..MaxFaults, outages' \in 0..MaxOutages,
           book' \subseteq Ids, replyQ' \in Seq(Ids \X {"applied", "rejected"}),
           sent' \in [Ids -> SUBSET Nat], full' \in [Ids -> 0..2]
    PROVE  TypeOK'
  BY DEF TypeOK

\* Every step keeps the types.
LEMMA TypeStep ==
    ASSUME TypeOK, Busy, [Next]_vars
    PROVE  TypeOK'
  <1> USE DEF TypeOK, cloud, link, memory, replies, history
  <1>1. ASSUME NEW id \in Ids, Expires(id) PROVE TypeOK'
    BY <1>1 DEF Expires, NoFault
  <1>2. ASSUME NEW id \in Ids, Handles(id) PROVE TypeOK'
    <2>1. th' \in [Threads -> States]
      <3>1. [th["chan"] EXCEPT !.at = "want", !.id = id] \in States
        BY DEF States, Threads
      <3> QED BY <1>2, <3>1 DEF Handles
    <2>2. receipt' \in [Ids -> SUBSET Receipts] /\ faults' \in 0..MaxFaults
      BY <1>2, AckedTyped DEF Handles, Receipts, NoFault
    <2> QED BY <1>2, <2>1, <2>2, TypeParts DEF Handles
  <1>3. CASE Waits
    BY <1>3 DEF Waits, Open
  <1>4. CASE Acks
    <2>1. th["chan"].id \in Ids /\ th["chan"].out \in Outcomes \ {"none"}
      BY <1>4 DEF Acks, Busy, Threads, States
    <2>2. receipt' \in [Ids -> SUBSET Receipts] /\ faults' \in 0..MaxFaults
      <3>1. PICK state \in Answers(th["chan"].out) : Acked(th["chan"].id, state)
        BY <1>4 DEF Acks
      <3> QED BY <2>1, <3>1, AckedTyped, AnswersTyped
    <2>3. th' \in [Threads -> States]
      BY <1>4 DEF Acks, Idle, States, Outcomes, Threads
    <2> QED BY <1>4, <2>2, <2>3, TypeParts DEF Acks
  <1>5. CASE ReplyPosts
    <2>1. Head(replyQ) \in Ids \X {"applied", "rejected"}
          /\ replyQ' \in Seq(Ids \X {"applied", "rejected"})
      BY <1>5 DEF ReplyPosts
    <2>2. Head(replyQ)[1] \in Ids /\ Head(replyQ)[2] \in Receipts
      BY <2>1 DEF Receipts
    <2>3. receipt' \in [Ids -> SUBSET Receipts] /\ faults' \in 0..MaxFaults
      BY <1>5, <2>2, AckedTyped DEF ReplyPosts
    <2> QED BY <1>5, <2>1, <2>3, TypeParts DEF ReplyPosts
  <1>6. ASSUME NEW t \in Threads, NEW id \in Ids, FindsApplied(t, id) PROVE TypeOK'
    <2>1. th' \in [Threads -> States]
      BY <1>6, LeavesTyped DEF FindsApplied, Outcomes
    <2> QED BY <1>6, <2>1, TypeParts DEF FindsApplied
  <1>7. ASSUME NEW t \in Threads, NEW id \in Ids, FindsNoPrinter(t, id) PROVE TypeOK'
    <2>1. th' \in [Threads -> States]
      BY <1>7, LeavesTyped DEF FindsNoPrinter, Outcomes
    <2>2. faults' \in 0..MaxFaults
      BY <1>7, ControlAssumption DEF FindsNoPrinter, Fault
    <2> QED BY <1>7, <2>1, <2>2, TypeParts DEF FindsNoPrinter
  <1>8. ASSUME NEW t \in Threads, NEW id \in Ids, Starts(t, id) PROVE TypeOK'
    BY <1>8, ControlAssumption DEF Starts, States, Idle, Outcomes
  <1>9. ASSUME NEW t \in Threads, Consumes(t) PROVE TypeOK'
    <2>1. th' \in [Threads -> States] /\ th[t].id \in Ids
      <3>1. th[t].id \in Ids
        BY <1>9 DEF Consumes, Busy
      <3>2. [th[t] EXCEPT !.at = "mark"] \in States
        BY DEF States
      <3> QED BY <1>9, <3>1, <3>2 DEF Consumes
    <2>2. sent' \in [Ids -> SUBSET Nat]
      BY <1>9, <2>1 DEF Consumes
    <2> QED BY <1>9, <2>1, <2>2, TypeParts DEF Consumes
  <1>10. ASSUME NEW t \in Threads, SendsOne(t) PROVE TypeOK'
    <2>1. sent' \in [Ids -> SUBSET Nat] /\ book' \subseteq Ids /\ LeftAfter(t) \in Nat
      BY <1>10, PublishesTyped DEF SendsOne
    <2>2. Counts(t) \in BOOLEAN
      BY DEF Counts, Takes, States
    <2>3. th' \in [Threads -> States]
      <3>1. \A s \in States, k \in Nat, b \in BOOLEAN :
               [s EXCEPT !.left = k, !.ok = b] \in States
        BY DEF States
      <3>2. [th[t] EXCEPT !.left = LeftAfter(t), !.ok = Counts(t)] \in States
        BY <2>1, <2>2, <3>1 DEF TypeOK
      <3> QED BY <1>10, <3>2 DEF SendsOne
    <2> QED BY <1>10, <2>1, <2>3, TypeParts DEF SendsOne
  <1>11. ASSUME NEW t \in Threads, SendsLast(t) PROVE TypeOK'
    <2>1. sent' \in [Ids -> SUBSET Nat] /\ book' \subseteq Ids /\ th[t].id \in Ids
      BY <1>11, PublishesTyped DEF SendsLast
    <2>2. th' \in [Threads -> States]
      <3>1. [th[t] EXCEPT !.at = "mark"] \in States
        BY DEF States
      <3> QED BY <1>11, <3>1 DEF SendsLast
    <2>3. full' \in [Ids -> 0..2]
      BY <1>11, <2>1 DEF SendsLast
    <2> QED BY <1>11, <2>1, <2>2, <2>3, TypeParts DEF SendsLast
  <1>12. ASSUME NEW t \in Threads, GivesUp(t) PROVE TypeOK'
    <2>1. sent' \in [Ids -> SUBSET Nat] /\ book' \subseteq Ids
      BY <1>12, PublishesTyped DEF GivesUp
    <2>2. th' \in [Threads -> States]
      BY <1>12 DEF GivesUp, States, Idle, Outcomes
    <2> QED BY <1>12, <2>1, <2>2, TypeParts DEF GivesUp
  <1>13. ASSUME NEW t \in Threads, Marks(t) PROVE TypeOK'
    <2>1. th[t].id \in Ids
      BY <1>13 DEF Marks, Busy
    <2>2. th' \in [Threads -> States]
      BY <1>13, <2>1, LeavesTyped DEF Marks, Outcomes
    <2>3. marker' \subseteq Ids /\ faults' \in 0..MaxFaults
      BY <1>13, <2>1, ControlAssumption DEF Marks, Fault, NoFault
    <2> QED BY <1>13, <2>1, <2>2, <2>3, TypeParts DEF Marks
  <1>14. ASSUME NEW id \in Ids, NEW state \in {"applied", "rejected"},
                PrinterReplies(id, state)
         PROVE  TypeOK'
    BY <1>14 DEF PrinterReplies
  <1>15. CASE GoesDown
    <2>1. outages' \in 0..MaxOutages
      BY <1>15, ControlAssumption DEF GoesDown
    <2> QED BY <1>15, <2>1, TypeParts DEF GoesDown
  <1>16. CASE ComesUp
    BY <1>16 DEF ComesUp
  <1>17. CASE Crash
    <2>1. faults' \in 0..MaxFaults
      BY <1>17, ControlAssumption DEF Crash, Fault
    <2>2. torn' \subseteq Ids
      BY <1>17 DEF Crash, Busy
    <2>3. th' \in [Threads -> States]
      BY <1>17 DEF Crash, Idle, States, Outcomes
    <2> QED BY <1>17, <2>1, <2>2, <2>3, TypeParts DEF Crash
  <1>18. CASE UNCHANGED vars
    BY <1>18 DEF vars
  <1>19. ASSUME NEW t \in Threads, ClearFails(t) PROVE TypeOK'
    <2>1. th[t].id \in Ids
      BY <1>19 DEF ClearFails, Busy
    <2>2. th' \in [Threads -> States]
      BY <1>19 DEF ClearFails, States, Idle, Outcomes
    <2>3. faults' \in 0..MaxFaults
      BY <1>19, ControlAssumption DEF ClearFails, Fault
    <2> QED BY <1>19, <2>1, <2>2, <2>3, TypeParts DEF ClearFails
  <1> QED
    BY <1>1, <1>2, <1>3, <1>4, <1>5, <1>6, <1>7, <1>8, <1>9, <1>10, <1>11, <1>12, <1>13, <1>14,
       <1>15, <1>16, <1>17, <1>18, <1>19
    DEF Next, Apply

-----------------------------------------------------------------------------
(* Once.                                                                   *)

\* Nobody is inside a command while the lock is free.
LEMMA LockFree ==
    ASSUME Busy, lock = None
    PROVE  \A t \in Threads : th[t].at \notin {"send", "mark"}
  BY ControlAssumption DEF Busy

\* _handle leaves the loop's thread alone, and the channel waits with the id or
\* is as it was.
LEMMA HandlesMoves ==
    ASSUME TypeOK, NEW id \in Ids, Handles(id)
    PROVE  /\ \A t \in Threads :
                \/ th'[t] = th[t]
                \/ t = "chan" /\ th[t].at = "idle" /\ th'[t].at = "want" /\ th'[t].id = id
           /\ UNCHANGED <<lock, applied, marker, full, torn, unclear>>
  <1>1. UNCHANGED <<lock, applied, marker, full, torn, unclear>>
    BY DEF Handles, memory, history
  <1>2. CASE id \in expired
    <2>1. th' = th
      BY <1>2 DEF Handles
    <2> QED BY <1>1, <2>1
  <1>3. CASE id \notin expired
    <2> DEFINE new == [th["chan"] EXCEPT !.at = "want", !.id = id]
    <2>1. th' = [th EXCEPT !["chan"] = new]
      BY <1>3 DEF Handles
    <2>2. new.at = "want" /\ new.id = id /\ th["chan"].at = "idle"
      BY DEF TypeOK, States, Threads, Handles
    <2> HIDE DEF new
    <2>3. \A t \in Threads : th'[t] = IF t = "chan" THEN new ELSE th[t]
      BY <2>1 DEF TypeOK
    <2>4. \A t \in Threads :
              \/ th'[t] = th[t]
              \/ t = "chan" /\ th[t].at = "idle" /\ th'[t].at = "want" /\ th'[t].id = id
      BY <2>2, <2>3
    <2> QED BY <1>1, <2>4
  <1> QED BY <1>2, <1>3

\* Who is in the middle of what stays true.
LEMMA BusyStep ==
    ASSUME TypeOK, Busy, [Next]_vars
    PROVE  Busy'
  <1> USE DEF TypeOK, Busy, memory
  <1>1. ASSUME NEW id \in Ids, Handles(id) PROVE Busy'
    BY <1>1, HandlesMoves
  <1>2. CASE Acks
    BY <1>2 DEF Acks, Idle, Threads
  <1>3. ASSUME NEW t \in Threads, NEW id \in Ids, FindsApplied(t, id) PROVE Busy'
    BY <1>3 DEF FindsApplied, Enters, Leaves, Idle, States
  <1>4. ASSUME NEW t \in Threads, NEW id \in Ids, FindsNoPrinter(t, id) PROVE Busy'
    BY <1>4 DEF FindsNoPrinter, Enters, Leaves, Idle, States
  <1>5. ASSUME NEW t \in Threads, NEW id \in Ids, Starts(t, id) PROVE Busy'
    BY <1>5, LockFree, ControlAssumption DEF Starts, Enters, Idle, States
  <1>6. ASSUME NEW t \in Threads, Consumes(t) PROVE Busy'
    BY <1>6 DEF Consumes, States
  <1>7. ASSUME NEW t \in Threads, SendsOne(t) PROVE Busy'
    <2>1. th[t].left \in 1..Messages[th[t].id] /\ Messages[th[t].id] \in Nat
      BY <1>7, ControlAssumption DEF SendsOne, Publishes
    <2>2. LeftAfter(t) \in 1..Messages[th[t].id]
      BY <1>7, <2>1, PublishesTyped DEF SendsOne
    <2>3. /\ th'[t].at = "send" /\ th'[t].id = th[t].id /\ th'[t].left = LeftAfter(t)
          /\ \A u \in Threads \ {t} : th'[u] = th[u]
      BY <1>7 DEF SendsOne, Publishes, States
    <2>4. lock' = lock /\ lock = t /\ th[t].id \in Ids
      BY <1>7 DEF SendsOne, Publishes
    <2> QED BY <2>2, <2>3, <2>4
  <1>8. ASSUME NEW t \in Threads, SendsLast(t) PROVE Busy'
    BY <1>8 DEF SendsLast, Publishes, States
  <1>9. ASSUME NEW t \in Threads, GivesUp(t) PROVE Busy'
    BY <1>9 DEF GivesUp, Publishes, Idle, States
  <1>10. ASSUME NEW t \in Threads, Marks(t) PROVE Busy'
    BY <1>10 DEF Marks, Leaves, Idle, States
  <1>11. CASE Crash
    BY <1>11 DEF Crash, Idle
  <1>13. ASSUME NEW t \in Threads, ClearFails(t) PROVE Busy'
    BY <1>13 DEF ClearFails, Idle, States
  <1>12. CASE UNCHANGED <<th, lock>>
    BY <1>12
  <1> QED
    BY <1>1, <1>2, <1>3, <1>4, <1>5, <1>6, <1>7, <1>8, <1>9, <1>10, <1>11, <1>12, <1>13
    DEF Next, Apply, Expires, Waits, ReplyPosts, PrinterReplies, GoesDown, ComesUp, vars

\* The thread that sends is alone, and leaves nothing behind that is remembered.
LEMMA NotYetStep ==
    ASSUME TypeOK, Busy, NotYet, [Next]_vars
    PROVE  NotYet'
  <1> USE DEF TypeOK, Busy, NotYet, Remembered, memory
  <1>1. ASSUME NEW id \in Ids, Handles(id) PROVE NotYet'
    BY <1>1, HandlesMoves
  <1>2. CASE Acks
    BY <1>2 DEF Acks, Idle, Threads
  <1>3. ASSUME NEW t \in Threads, NEW id \in Ids, FindsApplied(t, id) PROVE NotYet'
    BY <1>3, LockFree DEF FindsApplied, Enters, Leaves, Idle, States
  <1>4. ASSUME NEW t \in Threads, NEW id \in Ids, FindsNoPrinter(t, id) PROVE NotYet'
    BY <1>4 DEF FindsNoPrinter, Enters, Leaves, Idle, States
  <1>5. ASSUME NEW t \in Threads, NEW id \in Ids, Starts(t, id) PROVE NotYet'
    BY <1>5 DEF Starts, Enters, Idle, States
  <1>6. ASSUME NEW t \in Threads, Consumes(t) PROVE NotYet'
    BY <1>6 DEF Consumes, States
  <1>7. ASSUME NEW t \in Threads, SendsOne(t) PROVE NotYet'
    BY <1>7 DEF SendsOne, Publishes, States
  <1>8. ASSUME NEW t \in Threads, SendsLast(t) PROVE NotYet'
    BY <1>8 DEF SendsLast, Publishes, States
  <1>9. ASSUME NEW t \in Threads, GivesUp(t) PROVE NotYet'
    BY <1>9 DEF GivesUp, Publishes, Idle, States
  <1>10. ASSUME NEW t \in Threads, Marks(t) PROVE NotYet'
    BY <1>10, ControlAssumption DEF Marks, Leaves, Idle, States
  <1>11. CASE Crash
    BY <1>11 DEF Crash, Idle
  <1>13. ASSUME NEW t \in Threads, ClearFails(t) PROVE NotYet'
    BY <1>13 DEF ClearFails, Idle, States
  <1>12. CASE UNCHANGED <<th, applied, marker>>
    BY <1>12
  <1> QED
    BY <1>1, <1>2, <1>3, <1>4, <1>5, <1>6, <1>7, <1>8, <1>9, <1>10, <1>11, <1>12, <1>13
    DEF Next, Apply, Expires, Waits, ReplyPosts, PrinterReplies, GoesDown, ComesUp, vars

\* A complete publish leaves its trace, which only a crash wipes out.
LEMMA RanStep ==
    ASSUME TypeOK, Busy, Ran, [Next]_vars
    PROVE  Ran'
  <1> USE DEF TypeOK, Busy, Ran, Remembered, Marking, memory, history
  <1>1. ASSUME NEW id \in Ids, Handles(id) PROVE Ran'
    <2>1. \A x \in Ids : Marking(x) => Marking(x)'
      <3>1. \A t \in Threads : th[t].at = "mark" => th'[t] = th[t]
        BY <1>1, HandlesMoves
      <3> QED BY <3>1
    <2> QED BY <1>1, <2>1, HandlesMoves
  <1>2. CASE Acks
    BY <1>2 DEF Acks, Idle, Threads
  <1>3. ASSUME NEW t \in Threads, NEW id \in Ids, FindsApplied(t, id) PROVE Ran'
    BY <1>3, LockFree DEF FindsApplied, Enters, Leaves, Idle, States
  <1>4. ASSUME NEW t \in Threads, NEW id \in Ids, FindsNoPrinter(t, id) PROVE Ran'
    BY <1>4, LockFree DEF FindsNoPrinter, Enters, Leaves, Idle, States
  <1>5. ASSUME NEW t \in Threads, NEW id \in Ids, Starts(t, id) PROVE Ran'
    BY <1>5, LockFree DEF Starts, Enters, Idle, States
  <1>6. ASSUME NEW t \in Threads, Consumes(t) PROVE Ran'
    BY <1>6 DEF Consumes, States
  <1>7. ASSUME NEW t \in Threads, SendsOne(t) PROVE Ran'
    BY <1>7 DEF SendsOne, Publishes, States
  <1>8. ASSUME NEW t \in Threads, SendsLast(t) PROVE Ran'
    BY <1>8 DEF SendsLast, Publishes, States
  <1>9. ASSUME NEW t \in Threads, GivesUp(t) PROVE Ran'
    BY <1>9 DEF GivesUp, Publishes, Idle, States
  <1>10. ASSUME NEW t \in Threads, Marks(t) PROVE Ran'
    BY <1>10, ControlAssumption DEF Marks, Leaves, Idle, States
  <1>11. CASE Crash
    BY <1>11 DEF Crash, Idle
  <1>13. ASSUME NEW t \in Threads, ClearFails(t) PROVE Ran'
    BY <1>13 DEF ClearFails, Idle, States
  <1>12. CASE UNCHANGED <<th, applied, marker, full, torn, unclear>>
    BY <1>12
  <1> QED
    BY <1>1, <1>2, <1>3, <1>4, <1>5, <1>6, <1>7, <1>8, <1>9, <1>10, <1>11, <1>12, <1>13
    DEF Next, Apply, Expires, Waits, ReplyPosts, PrinterReplies, GoesDown, ComesUp, vars

\* Only the thread in the lock can count a second publish, and it holds an id
\* that nothing remembers.
LEMMA OnceStep ==
    ASSUME TypeOK, OnceInv, [Next]_vars
    PROVE  PublishedOnce'
  <1> USE DEF TypeOK, PublishedOnce, OnceInv, memory, history
  <1>1. ASSUME NEW t \in Threads, SendsLast(t) PROVE PublishedOnce'
    <2>1. th[t].at = "send" /\ lock = t /\ th[t].id \in Ids
      BY <1>1 DEF SendsLast, Publishes, Busy
    <2>2. ~Marking(th[t].id)
      BY <2>1 DEF Busy, Marking
    <2>3. full[th[t].id] = 0 \/ th[t].id \in torn \cup unclear
      BY <2>1, <2>2 DEF Ran, NotYet
    <2>4. /\ torn' = torn /\ unclear' = unclear
          /\ full' = [full EXCEPT ![th[t].id] = IF @ < 2 THEN @ + 1 ELSE @]
      BY <1>1 DEF SendsLast
    <2> QED BY <2>1, <2>3, <2>4
  <1>2. CASE Crash
    BY <1>2 DEF Crash
  <1>9. ASSUME NEW t \in Threads, ClearFails(t) PROVE PublishedOnce'
    BY <1>9 DEF ClearFails
  <1>3. CASE UNCHANGED <<full, torn, unclear>>
    BY <1>3
  <1>4. ASSUME NEW t \in Threads, NEW id \in Ids,
               FindsApplied(t, id) \/ FindsNoPrinter(t, id) \/ Starts(t, id)
        PROVE  UNCHANGED <<full, torn, unclear>>
    BY <1>4 DEF FindsApplied, FindsNoPrinter, Starts
  <1>5. ASSUME NEW t \in Threads, Consumes(t) \/ SendsOne(t) \/ GivesUp(t) \/ Marks(t)
        PROVE  UNCHANGED <<full, torn, unclear>>
    BY <1>5 DEF Consumes, SendsOne, GivesUp, Marks
  <1>6. ASSUME NEW id \in Ids, Expires(id) \/ Handles(id)
        PROVE  UNCHANGED <<full, torn, unclear>>
    BY <1>6 DEF Expires, Handles
  <1>7. ASSUME Waits \/ Acks \/ ReplyPosts \/ GoesDown \/ ComesUp
        PROVE  UNCHANGED <<full, torn, unclear>>
    BY <1>7 DEF Waits, Acks, ReplyPosts, GoesDown, ComesUp
  <1>8. ASSUME NEW id \in Ids, NEW state \in {"applied", "rejected"},
               PrinterReplies(id, state)
        PROVE  UNCHANGED <<full, torn, unclear>>
    BY <1>8 DEF PrinterReplies
  <1> QED
    BY <1>1, <1>2, <1>3, <1>4, <1>5, <1>6, <1>7, <1>8, <1>9 DEF Next, Apply, vars

-----------------------------------------------------------------------------
(* Receipts.                                                               *)

\* What entitles to "published".
Given(id) == 0 \in sent[id] \/ sent[id] = 1..Messages[id]

\* What is remembered was given, and only what was sent can be answered.
Said ==
    \A id \in Ids :
        /\ sent[id] \subseteq 0..Messages[id]
        /\ Remembered(id) => Given(id)
        /\ id \in book => sent[id] # {}

Told == \A i \in 1..Len(replyQ) : sent[replyQ[i][1]] # {}

\* A thread past its last message, and a channel about to answer, have a command
\* that was given; while ok stands, the messages so far were taken.
Honest(t) ==
    /\ th[t].at = "mark" => Given(th[t].id)
    /\ th[t].at = "ack" /\ th[t].out # "unknown" => Given(th[t].id)
    /\ th[t].at = "send" /\ th[t].ok
         => 1..(Messages[th[t].id] - th[t].left) \subseteq sent[th[t].id]

Saying == \A t \in Threads : Honest(t)

TruthInv == Said /\ Told /\ Saying /\ ReceiptIsTrue

\* The steps that give the printer something.
LEMMA WhoSends ==
    ASSUME [Next]_vars
    PROVE  \/ UNCHANGED sent
           \/ \E t \in Threads : Consumes(t) \/ Publishes(t)
  <1> USE DEF history
  <1>1. ASSUME NEW t \in Threads, NEW id \in Ids,
               FindsApplied(t, id) \/ FindsNoPrinter(t, id) \/ Starts(t, id)
        PROVE  UNCHANGED sent
    BY <1>1 DEF FindsApplied, FindsNoPrinter, Starts
  <1>2. ASSUME NEW t \in Threads, SendsOne(t) \/ SendsLast(t) \/ GivesUp(t)
        PROVE  Publishes(t)
    BY <1>2 DEF SendsOne, SendsLast, GivesUp
  <1>3. ASSUME NEW t \in Threads, ClearFails(t) \/ Marks(t) PROVE UNCHANGED sent
    BY <1>3 DEF ClearFails, Marks
  <1>4. ASSUME NEW id \in Ids, Expires(id) \/ Handles(id) PROVE UNCHANGED sent
    BY <1>4 DEF Expires, Handles
  <1>5. ASSUME Waits \/ Acks \/ ReplyPosts \/ GoesDown \/ ComesUp \/ Crash
        PROVE  UNCHANGED sent
    BY <1>5 DEF Waits, Acks, ReplyPosts, GoesDown, ComesUp, Crash
  <1>6. ASSUME NEW id \in Ids, NEW state \in {"applied", "rejected"},
               PrinterReplies(id, state)
        PROVE  UNCHANGED sent
    BY <1>6 DEF PrinterReplies
  <1> QED
    BY <1>1, <1>2, <1>3, <1>4, <1>5, <1>6 DEF Next, Apply, vars

\* What was sent stays sent, and is a message of the command or its refusal.
LEMMA SentGrows ==
    ASSUME TypeOK, Busy, Said, [Next]_vars, NEW id \in Ids
    PROVE  /\ sent[id] \subseteq sent'[id]
           /\ sent'[id] \subseteq 0..Messages[id]
  <1>0. sent[id] \subseteq 0..Messages[id] /\ Messages[id] \in Nat
    BY ControlAssumption DEF Said
  <1>1. CASE UNCHANGED sent
    BY <1>0, <1>1
  <1>2. ASSUME NEW t \in Threads, Consumes(t)
        PROVE  sent[id] \subseteq sent'[id] /\ sent'[id] \subseteq 0..Messages[id]
    <2>1. sent'[id] = sent[id] \cup {0} \/ sent'[id] = sent[id]
      BY <1>2 DEF Consumes, TypeOK
    <2> QED BY <1>0, <2>1
  <1>3. ASSUME NEW t \in Threads, Publishes(t)
        PROVE  sent[id] \subseteq sent'[id] /\ sent'[id] \subseteq 0..Messages[id]
    <2>1. \/ sent'[id] = sent[id]
          \/ /\ id = th[t].id
             /\ sent'[id] = sent[id] \cup {Messages[id] - th[t].left + 1}
      BY <1>3 DEF Publishes, TypeOK
    <2>2. id = th[t].id => Messages[id] - th[t].left + 1 \in 0..Messages[id]
      BY <1>0, <1>3 DEF Publishes, Busy
    <2> QED BY <1>0, <2>1, <2>2
  <1> QED BY <1>1, <1>2, <1>3, WhoSends

\* Hence what was given stays given.
LEMMA GivenStays ==
    ASSUME TypeOK, Busy, Said, [Next]_vars, NEW id \in Ids
    PROVE  /\ Given(id) => Given(id)'
           /\ sent[id] # {} => sent'[id] # {}
  <1>1. sent[id] \subseteq sent'[id] /\ sent'[id] \subseteq 0..Messages[id]
    BY SentGrows
  <1>2. (0..Messages[id]) \ {0} = 1..Messages[id]
    BY ControlAssumption
  <1>3. sent[id] = 1..Messages[id] /\ 0 \notin sent'[id] => sent'[id] = 1..Messages[id]
    <2> SUFFICES ASSUME sent[id] = 1..Messages[id], 0 \notin sent'[id]
                 PROVE  sent'[id] = 1..Messages[id]
      OBVIOUS
    <2>1. sent'[id] \subseteq 1..Messages[id] /\ 1..Messages[id] \subseteq sent'[id]
      BY <1>1, <1>2
    <2> QED BY <2>1
  <1> QED BY <1>1, <1>3 DEF Given

\* Given is more than nothing.
LEMMA GivenSome == ASSUME NEW id \in Ids, Given(id) PROVE sent[id] # {}
  <1>1. 1 \in 1..Messages[id]
    BY ControlAssumption
  <1> QED BY <1>1 DEF Given

\* The last message of a command of which every one was taken.
LEMMA LastGives ==
    ASSUME TypeOK, Busy, TruthInv, NEW t \in Threads, SendsLast(t)
    PROVE  Given(th[t].id)'
  <1> DEFINE id == th[t].id
  <1>1. /\ id \in Ids /\ Messages[id] \in Nat /\ th[t].left \in 1..Messages[id]
        /\ th[t].ok /\ Takes /\ th[t].left = 1
    BY ControlAssumption DEF SendsLast, Publishes, Busy, Counts, LeftAfter
  <1>2. 1..(Messages[id] - 1) \subseteq sent[id]
    BY <1>1 DEF TruthInv, Saying, Honest, SendsLast, Publishes
  <1>3. sent[id] \subseteq 0..Messages[id]
    BY <1>1 DEF TruthInv, Said
  <1>4. sent'[id] = sent[id] \cup {Messages[id]}
    <2>1. Messages[id] - th[t].left + 1 = Messages[id]
      BY <1>1
    <2> QED BY <1>1, <2>1 DEF SendsLast, Publishes, TypeOK
  <1>5. th'[t].id = id
    BY DEF SendsLast, TypeOK, States
  <1>6. 0 \in sent'[id] \/ sent'[id] = 1..Messages[id]
    BY <1>1, <1>2, <1>3, <1>4
  <1> QED BY <1>5, <1>6 DEF Given

\* Only a marked id is remembered anew.
LEMMA RememberedWas ==
    ASSUME [Next]_vars, NEW id \in Ids, Remembered(id)'
    PROVE  Remembered(id) \/ \E t \in Threads : Marks(t) /\ th[t].id = id
  <1> USE DEF Remembered, memory
  <1>1. ASSUME NEW t \in Threads, NEW x \in Ids,
               FindsApplied(t, x) \/ FindsNoPrinter(t, x) \/ Starts(t, x)
        PROVE  Remembered(id)
    BY <1>1 DEF FindsApplied, FindsNoPrinter, Starts
  <1>2. ASSUME NEW t \in Threads,
               \/ Consumes(t) \/ SendsOne(t) \/ SendsLast(t) \/ GivesUp(t) \/ ClearFails(t)
        PROVE  Remembered(id)
    BY <1>2 DEF Consumes, SendsOne, SendsLast, GivesUp, ClearFails
  <1>3. ASSUME NEW t \in Threads, Marks(t)
        PROVE  Remembered(id) \/ th[t].id = id
    BY <1>3 DEF Marks
  <1>4. ASSUME NEW x \in Ids, Expires(x) \/ Handles(x) PROVE Remembered(id)
    BY <1>4 DEF Expires, Handles
  <1>5. ASSUME Waits \/ Acks \/ ReplyPosts \/ GoesDown \/ ComesUp \/ Crash
        PROVE  Remembered(id)
    BY <1>5 DEF Waits, Acks, ReplyPosts, GoesDown, ComesUp, Crash
  <1>6. ASSUME NEW x \in Ids, NEW state \in {"applied", "rejected"}, PrinterReplies(x, state)
        PROVE  Remembered(id)
    BY <1>6 DEF PrinterReplies
  <1> QED BY <1>1, <1>2, <1>3, <1>4, <1>5, <1>6 DEF Next, Apply, vars

\* Only an id of which a message was just taken enters the book.
LEMMA BookWas ==
    ASSUME TypeOK, Busy, [Next]_vars, NEW id \in Ids, id \in book'
    PROVE  id \in book \/ sent'[id] # {}
  <1> USE DEF replies
  <1>1. ASSUME NEW t \in Threads, Publishes(t) PROVE id \in book \/ sent'[id] # {}
    <2>1. id \in book \/ (id = th[t].id /\ Takes)
      BY <1>1 DEF Publishes, Books
    <2>2. Takes /\ id = th[t].id => Messages[id] - th[t].left + 1 \in sent'[id]
      BY <1>1 DEF Publishes, TypeOK
    <2> QED BY <2>1, <2>2
  <1>2. ASSUME NEW t \in Threads, NEW x \in Ids,
               FindsApplied(t, x) \/ FindsNoPrinter(t, x) \/ Starts(t, x)
        PROVE  id \in book
    BY <1>2 DEF FindsApplied, FindsNoPrinter, Starts
  <1>3. ASSUME NEW t \in Threads, SendsOne(t) \/ SendsLast(t) \/ GivesUp(t)
        PROVE  Publishes(t)
    BY <1>3 DEF SendsOne, SendsLast, GivesUp
  <1>4. ASSUME NEW t \in Threads, Consumes(t) \/ ClearFails(t) \/ Marks(t) PROVE id \in book
    BY <1>4 DEF Consumes, ClearFails, Marks
  <1>5. ASSUME NEW x \in Ids, Expires(x) \/ Handles(x) PROVE id \in book
    BY <1>5 DEF Expires, Handles
  <1>6. ASSUME Waits \/ Acks \/ ReplyPosts \/ GoesDown \/ ComesUp \/ Crash
        PROVE  id \in book
    BY <1>6 DEF Waits, Acks, ReplyPosts, GoesDown, ComesUp, Crash
  <1>7. ASSUME NEW x \in Ids, NEW state \in {"applied", "rejected"}, PrinterReplies(x, state)
        PROVE  id \in book
    BY <1>7 DEF PrinterReplies
  <1> QED BY <1>1, <1>2, <1>3, <1>4, <1>5, <1>6, <1>7 DEF Next, Apply, vars

LEMMA SaidStep ==
    ASSUME TypeOK, Busy, Said, Saying, [Next]_vars
    PROVE  Said'
  <1> SUFFICES ASSUME NEW id \in Ids
               PROVE  /\ sent'[id] \subseteq 0..Messages[id]
                      /\ Remembered(id)' => Given(id)'
                      /\ id \in book' => sent'[id] # {}
    BY DEF Said
  <1>1. sent'[id] \subseteq 0..Messages[id]
    BY SentGrows
  <1>2. Remembered(id)' => Given(id)'
    <2>1. ASSUME NEW t \in Threads, Marks(t), th[t].id = id PROVE Given(id)
      BY <2>1 DEF Marks, Saying, Honest
    <2> QED BY <2>1, RememberedWas, GivenStays DEF Said
  <1>3. id \in book' => sent'[id] # {}
    BY BookWas, GivenStays DEF Said
  <1> QED BY <1>1, <1>2, <1>3

\* The answers in the queue are about ids that were in the book.
LEMMA ToldStep ==
    ASSUME TypeOK, Busy, Said, Told, [Next]_vars
    PROVE  Told'
  <1>1. ASSUME NEW i \in 1..Len(replyQ)
        PROVE  replyQ[i][1] \in Ids /\ sent'[replyQ[i][1]] # {}
    <2>1. replyQ[i][1] \in Ids
      BY DEF TypeOK
    <2> QED BY <2>1, GivenStays DEF Told
  <1>2. CASE UNCHANGED replyQ
    BY <1>1, <1>2 DEF Told
  <1>3. CASE ReplyPosts
    <2> SUFFICES ASSUME NEW i \in 1..Len(replyQ') PROVE sent'[replyQ'[i][1]] # {}
      BY DEF Told
    <2>1. /\ replyQ \in Seq(Ids \X {"applied", "rejected"}) /\ replyQ # <<>>
          /\ replyQ' = Tail(replyQ)
      BY <1>3 DEF TypeOK, ReplyPosts
    <2>2. i + 1 \in 1..Len(replyQ) /\ replyQ'[i] = replyQ[i + 1]
      BY <2>1
    <2> QED BY <1>1, <2>2
  <1>4. ASSUME NEW id \in Ids, NEW state \in {"applied", "rejected"}, PrinterReplies(id, state)
        PROVE  Told'
    <2> SUFFICES ASSUME NEW i \in 1..Len(replyQ') PROVE sent'[replyQ'[i][1]] # {}
      BY DEF Told
    <2>1. /\ replyQ \in Seq(Ids \X {"applied", "rejected"})
          /\ replyQ' = Append(replyQ, <<id, state>>)
      BY <1>4 DEF TypeOK, PrinterReplies
    <2>2. sent'[id] # {}
      BY <1>4, GivenStays DEF Said, PrinterReplies
    <2>3. (i \in 1..Len(replyQ) /\ replyQ'[i] = replyQ[i]) \/ replyQ'[i] = <<id, state>>
      BY <2>1
    <2> QED BY <1>1, <2>2, <2>3
  <1>5. CASE Crash
    BY <1>5 DEF Crash, Told
  <1>6. ASSUME NEW t \in Threads, Apply(t) PROVE UNCHANGED replyQ
    BY <1>6 DEF Apply, FindsApplied, FindsNoPrinter, Starts, Consumes, SendsOne, SendsLast,
                GivesUp, ClearFails, Marks, replies
  <1>7. ASSUME NEW id \in Ids, Expires(id) \/ Handles(id) PROVE UNCHANGED replyQ
    BY <1>7 DEF Expires, Handles, replies
  <1>8. ASSUME Waits \/ Acks \/ GoesDown \/ ComesUp \/ UNCHANGED vars PROVE UNCHANGED replyQ
    BY <1>8 DEF Waits, Acks, GoesDown, ComesUp, replies, vars
  <1> QED BY <1>2, <1>3, <1>4, <1>5, <1>6, <1>7, <1>8 DEF Next

\* A thread that stands still stays honest, as does one that is idle or waits.
LEMMA HonestStays ==
    ASSUME TypeOK, Busy, Said, Saying, [Next]_vars, NEW t \in Threads,
           th'[t] = th[t] \/ th'[t].at \in {"idle", "want"}
    PROVE  Honest(t)'
  <1>1. CASE th'[t].at \in {"idle", "want"}
    BY <1>1 DEF Honest
  <1>2. CASE th'[t] = th[t] /\ th[t].at \notin {"idle", "want"}
    <2>1. th[t].id \in Ids /\ Honest(t)
      BY <1>2 DEF TypeOK, States, Busy, Saying
    <2>2. /\ Given(th[t].id) => Given(th[t].id)'
          /\ sent[th[t].id] \subseteq sent'[th[t].id]
      BY <1>2, <2>1, GivenStays, SentGrows DEF Given
    <2> QED BY <1>2, <2>1, <2>2 DEF Honest
  <1> QED BY <1>1, <1>2

\* Leaving with an id that was given.
LEMMA LeavesHonest ==
    ASSUME TypeOK, Busy, Said, Saying, [Next]_vars, NEW t \in Threads, NEW id \in Ids,
           NEW out \in Outcomes, Leaves(t, id, out), out = "unknown" \/ Given(id)
    PROVE  Saying'
  <1> SUFFICES ASSUME NEW u \in Threads PROVE Honest(u)'
    BY DEF Saying
  <1>1. CASE u # t
    BY <1>1, HonestStays DEF Leaves, TypeOK
  <1>2. CASE u = t /\ th'[t].at = "idle"
    BY <1>2, HonestStays
  <1>3. CASE u = t /\ th'[t].at # "idle"
    <2>1. th'[t].at = "ack" /\ th'[t].id = id /\ th'[t].out = out
      BY <1>3 DEF Leaves, Idle, TypeOK, States
    <2>2. out = "unknown" \/ Given(id)'
      BY GivenStays
    <2> QED BY <1>3, <2>1, <2>2 DEF Honest, Given
  <1> QED BY <1>1, <1>2, <1>3

LEMMA SayingStep ==
    ASSUME TypeOK, Busy, TruthInv, [Next]_vars
    PROVE  Saying'
  <1>0. Said /\ Saying
    BY DEF TruthInv
  <1>a. ASSUME NEW t \in Threads, \A u \in Threads \ {t} : th'[u] = th[u], Honest(t)'
        PROVE  Saying'
    BY <1>0, <1>a, HonestStays DEF Saying
  <1>1. ASSUME NEW id \in Ids, Handles(id) PROVE Saying'
    BY <1>0, <1>1, HandlesMoves, HonestStays DEF Saying
  <1>2. CASE Acks
    <2>1. \A t \in Threads : th'[t] = th[t] \/ th'[t].at = "idle"
      BY <1>2 DEF Acks, Idle, TypeOK
    <2> QED BY <1>0, <2>1, HonestStays DEF Saying
  <1>3. ASSUME NEW t \in Threads, NEW id \in Ids, FindsApplied(t, id) PROVE Saying'
    <2>1. Given(id) /\ Leaves(t, id, "already")
      BY <1>0, <1>3 DEF FindsApplied, Said
    <2> QED BY <1>0, <2>1, LeavesHonest DEF Outcomes
  <1>4. ASSUME NEW t \in Threads, NEW id \in Ids, FindsNoPrinter(t, id) PROVE Saying'
    BY <1>0, <1>4, LeavesHonest DEF FindsNoPrinter, Outcomes
  <1>5. ASSUME NEW t \in Threads, NEW id \in Ids, Starts(t, id) PROVE Saying'
    <2>1. /\ \A u \in Threads \ {t} : th'[u] = th[u]
          /\ th'[t].at = "send" /\ th'[t].id = id /\ th'[t].left = Messages[id]
      BY <1>5 DEF Starts, Idle, TypeOK
    <2>2. 1..(Messages[id] - Messages[id]) = {}
      BY ControlAssumption
    <2>3. Honest(t)'
      BY <2>1, <2>2 DEF Honest
    <2> QED BY <1>a, <2>1, <2>3
  <1>6. ASSUME NEW t \in Threads, Consumes(t) PROVE Saying'
    <2>1. /\ \A u \in Threads \ {t} : th'[u] = th[u]
          /\ th'[t].at = "mark" /\ th'[t].id = th[t].id /\ th[t].id \in Ids
          /\ 0 \in sent'[th[t].id]
      BY <1>6 DEF Consumes, TypeOK, States, Busy
    <2>2. Honest(t)'
      BY <2>1 DEF Honest, Given
    <2> QED BY <1>a, <2>1, <2>2
  <1>7. ASSUME NEW t \in Threads, SendsOne(t) PROVE Saying'
    <2> DEFINE id == th[t].id
               done == Messages[id] - th[t].left
    <2>1. /\ \A u \in Threads \ {t} : th'[u] = th[u]
          /\ th'[t].at = "send" /\ th'[t].id = id /\ th'[t].left = LeftAfter(t)
          /\ th'[t].ok = Counts(t)
      BY <1>7 DEF SendsOne, Publishes, TypeOK, States
    <2>2. id \in Ids /\ th[t].left \in 1..Messages[id] /\ Messages[id] \in Nat
      BY <1>7, ControlAssumption DEF SendsOne, Publishes, Busy
    <2>3. ASSUME Counts(t)
          PROVE  1..(Messages[id] - LeftAfter(t)) \subseteq sent'[id]
      <3>1. Takes /\ th[t].ok /\ LeftAfter(t) = th[t].left - 1
        BY <2>3 DEF Counts, LeftAfter
      <3>2. 1..done \subseteq sent[id]
        BY <1>0, <1>7, <3>1 DEF Saying, Honest, SendsOne, Publishes
      <3>3. sent'[id] = sent[id] \cup {done + 1}
        BY <1>7, <2>2, <3>1 DEF SendsOne, Publishes, TypeOK
      <3>4. Messages[id] - LeftAfter(t) = done + 1 /\ done \in Nat
        BY <2>2, <3>1
      <3>5. 1..(done + 1) = (1..done) \cup {done + 1}
        BY <3>4
      <3> QED BY <3>2, <3>3, <3>4, <3>5
    <2>4. Honest(t)'
      BY <2>1, <2>3 DEF Honest
    <2> QED BY <1>a, <2>1, <2>4
  <1>8. ASSUME NEW t \in Threads, SendsLast(t) PROVE Saying'
    <2>1. \A u \in Threads \ {t} : th'[u] = th[u]
      BY <1>8 DEF SendsLast, TypeOK
    <2>2. th'[t].at = "mark"
      BY <1>8 DEF SendsLast, TypeOK, States
    <2>3. Honest(t)'
      BY <1>8, <2>2, LastGives DEF Honest
    <2> QED BY <1>a, <2>1, <2>3
  <1>9. ASSUME NEW t \in Threads, GivesUp(t) PROVE Saying'
    <2>1. \A u \in Threads : th'[u] = th[u] \/ th'[u].at = "idle"
      BY <1>9 DEF GivesUp, Idle, TypeOK
    <2> QED BY <1>0, <2>1, HonestStays DEF Saying
  <1>10. ASSUME NEW t \in Threads, Marks(t) PROVE Saying'
    <2>1. th[t].id \in Ids /\ Given(th[t].id) /\ Leaves(t, th[t].id, "published")
      BY <1>0, <1>10 DEF Marks, Saying, Honest, Busy
    <2> QED BY <1>0, <2>1, LeavesHonest DEF Outcomes
  <1>11. CASE Crash
    <2>1. \A t \in Threads : th'[t].at = "idle"
      BY <1>11 DEF Crash, Idle
    <2> QED BY <1>0, <2>1, HonestStays DEF Saying
  <1>13. ASSUME NEW t \in Threads, ClearFails(t) PROVE Saying'
    <2>1. \A u \in Threads : th'[u] = th[u] \/ th'[u].at = "idle"
      BY <1>13 DEF ClearFails, Idle, TypeOK
    <2> QED BY <1>0, <2>1, HonestStays DEF Saying
  <1>12. CASE UNCHANGED th
    BY <1>0, <1>12, HonestStays DEF Saying
  <1> QED
    BY <1>1, <1>2, <1>3, <1>4, <1>5, <1>6, <1>7, <1>8, <1>9, <1>10, <1>11, <1>12, <1>13
    DEF Next, Apply, Expires, Waits, ReplyPosts, PrinterReplies, GoesDown, ComesUp, vars

\* What an answer says is so when 3DPF gets it.
LEMMA AckedTrue ==
    ASSUME TypeOK, Busy, TruthInv, [Next]_vars, NEW id \in Ids, NEW state \in Receipts,
           Acked(id, state),
           state = "published" => Given(id),
           state \in {"applied", "rejected"} => sent[id] # {}
    PROVE  ReceiptIsTrue'
  <1> SUFFICES ASSUME NEW x \in Ids
               PROVE  /\ "published" \in receipt'[x] => Given(x)'
                      /\ receipt'[x] \cap {"applied", "rejected"} # {} => sent'[x] # {}
    BY DEF ReceiptIsTrue, Given
  <1>1. /\ Given(x) => Given(x)'
        /\ sent[x] # {} => sent'[x] # {}
    BY GivenStays DEF TruthInv
  <1>2. /\ "published" \in receipt[x] => Given(x)
        /\ receipt[x] \cap {"applied", "rejected"} # {} => sent[x] # {}
    BY DEF TruthInv, ReceiptIsTrue, Given
  <1>3. receipt'[x] = receipt[x] \/ (x = id /\ receipt'[x] = receipt[x] \cup {state})
    BY DEF Acked, TypeOK
  <1> QED BY <1>1, <1>2, <1>3

LEMMA ReceiptStep ==
    ASSUME TypeOK, Busy, TruthInv, [Next]_vars
    PROVE  ReceiptIsTrue'
  <1>1. CASE UNCHANGED receipt
    <2> SUFFICES ASSUME NEW x \in Ids
                 PROVE  /\ "published" \in receipt'[x] => Given(x)'
                        /\ receipt'[x] \cap {"applied", "rejected"} # {} => sent'[x] # {}
      BY DEF ReceiptIsTrue, Given
    <2>1. /\ Given(x) => Given(x)'
          /\ sent[x] # {} => sent'[x] # {}
      BY GivenStays DEF TruthInv
    <2> QED BY <1>1, <2>1 DEF TruthInv, ReceiptIsTrue, Given
  <1>2. ASSUME NEW id \in Ids, Handles(id) PROVE ReceiptIsTrue'
    BY <1>1, <1>2, AckedTrue DEF Handles, Receipts
  <1>3. CASE Acks
    <2>1. PICK state \in Answers(th["chan"].out) : Acked(th["chan"].id, state)
      BY <1>3 DEF Acks
    <2>2. /\ th["chan"].id \in Ids /\ th["chan"].out \in Outcomes \ {"none"}
          /\ th["chan"].at = "ack"
      BY <1>3 DEF Acks, Busy, TypeOK, Threads, States
    <2>3. th["chan"].out # "unknown" => Given(th["chan"].id) /\ sent[th["chan"].id] # {}
      BY <2>2, GivenSome DEF TruthInv, Saying, Honest, Threads
    <2>4. state \in Receipts /\ (th["chan"].out = "unknown" => state = "failed")
      BY <2>1, <2>2, AnswersTyped DEF Answers
    <2> QED BY <2>1, <2>2, <2>3, <2>4, AckedTrue
  <1>4. CASE ReplyPosts
    <2>1. /\ replyQ \in Seq(Ids \X {"applied", "rejected"}) /\ replyQ # <<>>
          /\ Acked(Head(replyQ)[1], Head(replyQ)[2])
      BY <1>4 DEF TypeOK, ReplyPosts
    <2>2. Head(replyQ) = replyQ[1] /\ 1 \in 1..Len(replyQ)
      BY <2>1
    <2>3. /\ Head(replyQ)[1] \in Ids /\ Head(replyQ)[2] \in {"applied", "rejected"}
          /\ sent[Head(replyQ)[1]] # {}
      BY <2>1, <2>2 DEF TruthInv, Told
    <2> QED BY <2>1, <2>3, AckedTrue DEF Receipts
  <1>5. ASSUME NEW t \in Threads, Apply(t) PROVE UNCHANGED receipt
    BY <1>5 DEF Apply, FindsApplied, FindsNoPrinter, Starts, Consumes, SendsOne, SendsLast,
                GivesUp, ClearFails, Marks, cloud
  <1>6. ASSUME NEW id \in Ids, Expires(id) PROVE UNCHANGED receipt
    BY <1>6 DEF Expires
  <1>7. ASSUME NEW id \in Ids, NEW state \in {"applied", "rejected"}, PrinterReplies(id, state)
        PROVE  UNCHANGED receipt
    BY <1>7 DEF PrinterReplies, cloud
  <1>8. ASSUME Waits \/ GoesDown \/ ComesUp \/ Crash \/ UNCHANGED vars PROVE UNCHANGED receipt
    BY <1>8 DEF Waits, GoesDown, ComesUp, Crash, cloud, vars
  <1> QED BY <1>1, <1>2, <1>3, <1>4, <1>5, <1>6, <1>7, <1>8 DEF Next

-----------------------------------------------------------------------------
\* The two halves of an inductive invariant: it holds of the initial states ...
LEMMA InvInit == Init => TypeOK /\ OnceInv /\ TruthInv
  <1>1. Init => TypeOK /\ OnceInv
    BY ControlAssumption
    DEF Init, TypeOK, OnceInv, Busy, NotYet, Ran, PublishedOnce, Idle, States, Outcomes
  <1>2. Init => TruthInv
    BY DEF Init, TruthInv, Said, Remembered, Told, Saying, Honest, ReceiptIsTrue, Idle
  <1> QED BY <1>1, <1>2

\* ... and every step, stutters too, keeps it.
LEMMA InvHolds == Spec => [](TypeOK /\ OnceInv /\ TruthInv)
  <1>1. TypeOK /\ OnceInv /\ [Next]_vars => (TypeOK /\ OnceInv)'
    BY TypeStep, BusyStep, NotYetStep, RanStep, OnceStep DEF OnceInv
  <1>2. TypeOK /\ OnceInv /\ TruthInv /\ [Next]_vars => TruthInv'
    BY SaidStep, ToldStep, SayingStep, ReceiptStep DEF OnceInv, TruthInv
  <1> QED BY <1>1, <1>2, InvInit, PTL DEF Spec

\* Every variable keeps its type: receipts are of the four kinds, a thread
\* counts its messages down (command_channel.py, app.py _apply_control).
THEOREM TypeCorrect == Spec => []TypeOK
  BY InvHolds, PTL

\* For any ids, commands, outages and faults, an id is published to the end
\* once, unless a crash came before its marker file or, for a stop, the
\* assignment could not be dropped (_apply_control_locked).
THEOREM Once == Spec => []PublishedOnce
  <1>1. OnceInv => PublishedOnce
    BY DEF OnceInv
  <1> QED BY <1>1, InvHolds, PTL

\* For any ids, commands, outages and faults, a receipt says what happened: what the
\* channel acks and what the printer answered (_handle, resolve).
THEOREM ReceiptsAreTrue == Spec => []ReceiptIsTrue
  <1>1. TruthInv => ReceiptIsTrue
    BY DEF TruthInv
  <1> QED BY <1>1, InvHolds, PTL
=============================================================================
