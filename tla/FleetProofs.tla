---------------------------- MODULE FleetProofs ----------------------------
(***************************************************************************)
(* For any objects, addresses, threads and any number of adds, removes,    *)
(* moves and faults: a serial is a member exactly when the last word was   *)
(* an add, every session has an owner, and the worker slots are the        *)
(* threads.                                                                *)
(*                                                                         *)
(* None of the three is inductive alone.  An add that commits must know    *)
(* that no remove came in between, and a reconnect that swaps that it puts *)
(* a printer in: the invariant says what a generation means while an add   *)
(* is in flight (Claimed) and what each thread holds (ThreadsTyped).  And  *)
(* a thread that merely holds an object may drop it: the invariant names   *)
(* whose duty it is to close it (Owned).                                   *)
(***************************************************************************)
EXTENDS Fleet, TLAPS, FiniteSetTheorems

\* A thread holds the objects its place in the code says it holds.
AdOK(s) == s = NoThread \/ s \in [pc : {"connect", "commit", "close"}, gen : Nat, obj : Objects]

RcPcs == {"check", "probe", "gate", "prove", "make", "connect", "swap", "release", "close"}

Early == {"check", "probe", "gate", "prove", "make"}
Ending == {"release", "close"}

RcOK(s) ==
    \/ s = NoThread
    \/ /\ s \in [pc : RcPcs, gen : Nat, old : Objects, new : Objects \cup {None},
                 ip : Addrs, swapped : BOOLEAN]
       /\ s.pc \in {"connect", "swap"} => s.new \in Objects
       /\ s.pc \in Early => s.new = None
       /\ s.pc \notin Ending => s.swapped = FALSE

ThreadsTyped ==
    /\ ad = [x \in Adders |-> ad[x]] /\ \A x \in Adders : AdOK(ad[x])
    /\ rc = [r \in Rcs |-> rc[r]] /\ \A r \in Rcs : RcOK(rc[r])

CoreTyped ==
    /\ member \in Objects \cup {None} /\ gen \in Nat /\ adding \in Nat \cup {None}

\* While an add is in flight it is the last word.
Claimed == adding # None => adding = gen /\ wanted /\ member = None

FleetInv == CoreTyped /\ ThreadsTyped /\ Claimed /\ LastWordWins

Working == {r \in Rcs : rc[r].pc \notin {"idle", "close"}}

-----------------------------------------------------------------------------
(* Types.                                                                  *)

\* A thread of a table takes another state.
LEMMA AdMoves ==
    ASSUME ThreadsTyped, NEW x \in Adders, NEW s, AdOK(s), ad' = [ad EXCEPT ![x] = s], rc' = rc
    PROVE  ThreadsTyped'
  BY DEF ThreadsTyped, AdOK

LEMMA RcMoves ==
    ASSUME ThreadsTyped, NEW r \in Rcs, NEW s, RcOK(s), rc' = [rc EXCEPT ![r] = s], ad' = ad
    PROVE  ThreadsTyped'
  BY DEF ThreadsTyped, RcOK

LEMMA ThreadsStay ==
    ASSUME ThreadsTyped, UNCHANGED <<ad, rc>>
    PROVE  ThreadsTyped'
  BY DEF ThreadsTyped, AdOK, RcOK

\* A reconnect goes to another place, and knows its replacement where it needs it.
LEMMA RcGoes ==
    ASSUME ThreadsTyped, NEW r \in Rcs, rc[r].pc # "idle", NEW pc \in RcPcs,
           pc \in {"connect", "swap"} => rc[r].new \in Objects,
           pc \in Early => rc[r].pc \in Early, pc \in Ending \/ rc[r].pc \notin Ending,
           rc' = [rc EXCEPT ![r].pc = pc], ad' = ad
    PROVE  ThreadsTyped'
  <1> DEFINE s == [rc[r] EXCEPT !.pc = pc]
  <1>1. rc[r] # NoThread
    BY DEF NoThread
  <1>2. RcOK(rc[r])
    BY DEF ThreadsTyped
  <1>3. RcOK(s)
    BY <1>1, <1>2 DEF RcOK, RcPcs, Early, Ending
  <1>4. rc' = [rc EXCEPT ![r] = s]
    OBVIOUS
  <1> HIDE DEF s
  <1> QED BY <1>3, <1>4, RcMoves

\* What a reconnect that is under way holds.
LEMMA RcHolds ==
    ASSUME ThreadsTyped, NEW r \in Rcs, rc[r].pc # "idle"
    PROVE  /\ rc[r].pc \in RcPcs /\ rc[r].gen \in Nat
           /\ rc[r].old \in Objects /\ rc[r].new \in Objects \cup {None}
           /\ rc[r].pc \in {"connect", "swap"} => rc[r].new \in Objects
           /\ rc[r].pc \in Early => rc[r].new = None
           /\ rc[r].pc \notin Ending => rc[r].swapped = FALSE
           /\ rc[r].ip \in Addrs
  <1>1. rc[r] # NoThread
    BY DEF NoThread
  <1>2. RcOK(rc[r])
    BY DEF ThreadsTyped
  <1> QED BY <1>1, <1>2 DEF RcOK

\* What an add that is under way holds.
LEMMA AdHolds ==
    ASSUME ThreadsTyped, NEW x \in Adders, ad[x].pc # "idle"
    PROVE  ad[x].gen \in Nat /\ ad[x].obj \in Objects
  <1>1. ad[x] # NoThread
    BY DEF NoThread
  <1>2. AdOK(ad[x])
    BY DEF ThreadsTyped
  <1> QED BY <1>1, <1>2 DEF AdOK

\* An add goes to another place.
LEMMA AdGoes ==
    ASSUME ThreadsTyped, NEW x \in Adders, ad[x].pc # "idle",
           NEW pc \in {"connect", "commit", "close"},
           ad' = [ad EXCEPT ![x].pc = pc], rc' = rc
    PROVE  ThreadsTyped'
  <1> DEFINE s == [ad[x] EXCEPT !.pc = pc]
  <1>1. ad[x] # NoThread
    BY DEF NoThread
  <1>2. AdOK(ad[x])
    BY DEF ThreadsTyped
  <1>3. AdOK(s)
    BY <1>1, <1>2 DEF AdOK
  <1>4. ad' = [ad EXCEPT ![x] = s]
    OBVIOUS
  <1> HIDE DEF s
  <1> QED BY <1>3, <1>4, AdMoves

\* The parts of the core that only an add, a remove or a swap changes.
LEMMA CoreStays ==
    ASSUME CoreTyped, Claimed, LastWordWins, UNCHANGED coreVars
    PROVE  CoreTyped' /\ Claimed' /\ LastWordWins'
  BY DEF CoreTyped, Claimed, LastWordWins, coreVars

-----------------------------------------------------------------------------
(* Membership.                                                             *)

\* An add keeps the invariant.
LEMMA AddStep ==
    ASSUME FleetInv, NEW x \in Adders,
           AddBegins(x) \/ AddConnects(x) \/ AddCommits(x) \/ AddCloses(x)
    PROVE  FleetInv'
  <1> USE FleetAssumption DEF FleetInv
  <1>1. CASE AddBegins(x)
    <2>1. PICK o \in Objects :
            ad' = [ad EXCEPT ![x] = [pc |-> "connect", gen |-> gen + 1, obj |-> o]]
      BY <1>1 DEF AddBegins, Fresh, Makeable
    <2>2. AdOK([pc |-> "connect", gen |-> gen + 1, obj |-> o])
      BY DEF AdOK, CoreTyped
    <2>3. ThreadsTyped'
      BY <1>1, <2>1, <2>2, AdMoves DEF AddBegins, rcVars
    <2> QED BY <1>1, <2>3 DEF AddBegins, rcVars, CoreTyped, Claimed, LastWordWins
  <1>2. CASE AddConnects(x)
    <2>1. ThreadsTyped'
      BY <1>2, AdGoes DEF AddConnects, rcVars
    <2> QED BY <1>2, <2>1, CoreStays DEF AddConnects
  <1>3. CASE AddCommits(x)
    <2>1. ad[x].pc = "commit" /\ rc' = rc /\ UNCHANGED <<gen, wanted>>
          /\ adding' = IF adding = ad[x].gen THEN None ELSE adding
      BY <1>3 DEF AddCommits, rcVars
    <2>2. ad[x].gen \in Nat /\ ad[x].obj \in Objects
      BY <2>1, AdHolds
    <2>3. CASE OwnsAdd(x)
      <3>1. member' = ad[x].obj /\ ad' = [ad EXCEPT ![x] = NoThread]
        BY <1>3, <2>3 DEF AddCommits
      <3>2. ThreadsTyped'
        BY <2>1, <3>1, AdMoves DEF AdOK
      <3>3. wanted /\ adding' = None
        BY <2>1, <2>2, <2>3 DEF OwnsAdd, Claimed
      <3> QED BY <2>1, <2>2, <3>1, <3>2, <3>3 DEF CoreTyped, Claimed, LastWordWins
    <2>4. CASE ~OwnsAdd(x)
      <3>1. member' = member /\ ad' = [ad EXCEPT ![x].pc = "close"]
        BY <1>3, <2>4 DEF AddCommits
      <3>2. ThreadsTyped'
        BY <2>1, <3>1, AdGoes
      <3>3. adding' = adding
        BY <2>1, <2>2, <2>4 DEF OwnsAdd, Claimed
      <3> QED BY <2>1, <3>1, <3>2, <3>3 DEF CoreTyped, Claimed, LastWordWins
    <2> QED BY <2>3, <2>4
  <1>4. CASE AddCloses(x)
    <2>1. ThreadsTyped'
      BY <1>4, AdMoves DEF AddCloses, rcVars, AdOK
    <2> QED BY <1>4, <2>1, CoreStays DEF AddCloses
  <1> QED BY <1>1, <1>2, <1>3, <1>4

\* A remove takes every claim with it.
LEMMA RemoveStep ==
    ASSUME FleetInv, RemoveBegins \/ RemoveCloses
    PROVE  FleetInv'
  <1> USE DEF FleetInv
  <1>1. CASE RemoveBegins
    <2>1. ThreadsTyped'
      BY <1>1, ThreadsStay DEF RemoveBegins
    <2>2. /\ gen' = gen + 1 /\ adding' = None /\ member' = None /\ wanted' = FALSE
      BY <1>1 DEF RemoveBegins
    <2>3. CoreTyped'
      BY <2>2 DEF CoreTyped
    <2>4. Claimed' /\ LastWordWins'
      BY <2>2 DEF Claimed, LastWordWins
    <2> QED BY <2>1, <2>3, <2>4
  <1>2. CASE RemoveCloses
    <2>1. ThreadsTyped'
      BY <1>2, ThreadsStay DEF RemoveCloses, rcVars
    <2> QED BY <1>2, <2>1, CoreStays DEF RemoveCloses
  <1> QED BY <1>1, <1>2

\* A proposal starts a thread that holds the member it saw.
LEMMA ProposeStep ==
    ASSUME FleetInv, NEW r \in Rcs, NEW a \in Addrs, Propose(r, a)
    PROVE  FleetInv'
  <1> DEFINE s == [pc |-> "check", gen |-> gen, old |-> member,
                   new |-> None, ip |-> a, swapped |-> FALSE]
  <1>1. rc' = [rc EXCEPT ![r] = s] /\ ad' = ad /\ UNCHANGED coreVars
        /\ member # None
    BY DEF Propose, threadVars
  <1>2. RcOK(s)
    BY <1>1 DEF RcOK, RcPcs, FleetInv, CoreTyped, Early, Ending
  <1> HIDE DEF s
  <1>3. ThreadsTyped'
    BY <1>1, <1>2, RcMoves DEF FleetInv
  <1> QED BY <1>1, <1>3, CoreStays DEF FleetInv

\* Every step of a reconnect but the swap leaves the membership alone.
LEMMA RcTyped ==
    ASSUME ThreadsTyped, NEW r \in Rcs, RcStep(r), ~RcSwaps(r)
    PROVE  ThreadsTyped' /\ UNCHANGED coreVars
  <1> USE DEF RcGoto, threadVars
  <1>1. CASE RcChecks(r)
    BY <1>1, RcGoes DEF RcChecks, RcPcs, Early, Ending
  <1>2. CASE RcProbes(r)
    BY <1>2, RcGoes DEF RcProbes, RcPcs, Early, Ending
  <1>3. CASE RcGates(r)
    BY <1>3, RcGoes DEF RcGates, RcPcs, Early, Ending
  <1>4. CASE RcProves(r)
    BY <1>4, RcGoes DEF RcProves, RcPcs, Early, Ending
  <1>5. CASE RcMakes(r)
    <2>1. PICK o \in Objects : rc' = [rc EXCEPT ![r].pc = "connect", ![r].new = o]
      BY <1>5 DEF RcMakes, Fresh, Makeable
    <2>2. rc[r].pc = "make" /\ ad' = ad /\ UNCHANGED coreVars
      BY <1>5 DEF RcMakes
    <2> DEFINE s == [rc[r] EXCEPT !.pc = "connect", !.new = o]
    <2>3. RcOK(rc[r]) /\ rc[r] # NoThread
      BY <2>2 DEF ThreadsTyped, NoThread
    <2>4. RcOK(s)
      BY <2>2, <2>3 DEF RcOK, RcPcs, Early, Ending
    <2>5. rc' = [rc EXCEPT ![r] = s]
      BY <2>1 DEF ThreadsTyped
    <2> HIDE DEF s
    <2> QED BY <2>2, <2>4, <2>5, RcMoves
  <1>6. CASE RcConnected(r)
    <2>1. rc[r].new \in Objects
      BY <1>6, RcHolds DEF RcConnected
    <2> QED BY <1>6, <2>1, RcGoes DEF RcConnected, RcPcs, Early, Ending
  <1>7. CASE RcGivesUp(r)
    BY <1>7, RcGoes DEF RcGivesUp, RcPcs, Early, Ending
  <1>8. CASE RcReleases(r)
    BY <1>8, RcGoes DEF RcReleases, RcPcs, Early, Ending
  <1>9. CASE RcCloses(r)
    BY <1>9, RcMoves DEF RcCloses, RcOK
  <1>10. CASE NotStarted(r)
    BY <1>10, RcMoves DEF NotStarted, RcOK
  <1> QED
    BY <1>1, <1>2, <1>3, <1>4, <1>5, <1>6, <1>7, <1>8, <1>9, <1>10 DEF RcStep

\* A swap puts a printer where one was: it needs the membership it began with.
LEMMA SwapStep ==
    ASSUME FleetInv, NEW r \in Rcs, RcSwaps(r)
    PROVE  FleetInv'
  <1> USE FleetAssumption DEF FleetInv
  <1>1. /\ rc[r].pc = "swap" /\ ad' = ad
        /\ UNCHANGED <<gen, adding, wanted>>
    BY DEF RcSwaps, threadVars
  <1>2. /\ rc[r].old \in Objects /\ rc[r].new \in Objects
        /\ RcOK(rc[r]) /\ rc[r] # NoThread
    <2>1. rc[r].old \in Objects /\ rc[r].new \in Objects
      BY <1>1, RcHolds
    <2>2. RcOK(rc[r])
      BY DEF ThreadsTyped
    <2>3. rc[r] # NoThread
      BY <1>1 DEF NoThread
    <2> QED BY <2>1, <2>2, <2>3
  <1>3. CASE MaySwap(r)
    <2> DEFINE s == [rc[r] EXCEPT !.pc = "release", !.swapped = TRUE]
    <2>1. /\ member # None /\ member' = rc[r].new
          /\ rc' = [rc EXCEPT ![r].pc = "release", ![r].swapped = TRUE]
      BY <1>2, <1>3 DEF RcSwaps, MaySwap
    <2>2. RcOK(s)
      BY <1>2 DEF RcOK, RcPcs, Early, Ending
    <2>3. rc' = [rc EXCEPT ![r] = s]
      BY <2>1 DEF ThreadsTyped
    <2> HIDE DEF s
    <2>4. ThreadsTyped'
      BY <1>1, <2>2, <2>3, RcMoves
    <2> QED BY <1>1, <1>2, <2>1, <2>4 DEF CoreTyped, Claimed, LastWordWins
  <1>4. CASE ~MaySwap(r)
    <2>1. member' = member /\ rc' = [rc EXCEPT ![r].pc = "release"]
      BY <1>4 DEF RcSwaps
    <2>2. ThreadsTyped'
      BY <1>1, <2>1, RcGoes DEF RcPcs, Early, Ending
    <2> QED BY <1>1, <2>1, <2>2 DEF CoreTyped, Claimed, LastWordWins
  <1> QED BY <1>3, <1>4

\* Every step keeps the invariant.
LEMMA FleetStep ==
    ASSUME FleetInv, [Next]_vars
    PROVE  FleetInv'
  <1>1. ASSUME NEW r \in Rcs, RcStep(r), ~RcSwaps(r) PROVE FleetInv'
    BY <1>1, RcTyped, CoreStays DEF FleetInv
  <1>2. ASSUME UNCHANGED <<coreVars, ad, rc>> PROVE FleetInv'
    BY <1>2, ThreadsStay, CoreStays DEF FleetInv
  <1>3. ASSUME NEW o \in Objects, DialOpens(o) \/ DialFails(o) PROVE FleetInv'
    BY <1>2, <1>3 DEF DialOpens, DialFails, rcVars, threadVars
  <1>4. CASE Cooled \/ PortsSettle
    BY <1>2, <1>4 DEF Cooled, PortsSettle, rcVars, threadVars
  <1>5. ASSUME NEW a \in Addrs, Moves(a) PROVE FleetInv'
    BY <1>2, <1>5 DEF Moves, rcVars, threadVars
  <1>6. CASE UNCHANGED vars
    BY <1>2, <1>6 DEF vars, rcVars, threadVars
  <1>7. ASSUME NEW x \in Adders, AddBegins(x) \/ AddConnects(x) \/ AddCommits(x) \/ AddCloses(x)
        PROVE  FleetInv'
    BY <1>7, AddStep
  <1>8. ASSUME NEW r \in Rcs, RcStep(r) PROVE FleetInv'
    BY <1>1, <1>8, SwapStep
  <1>9. CASE Reconciles
    BY <1>9, ProposeStep DEF Reconciles
  <1>10. CASE RemoveBegins \/ RemoveCloses
    BY <1>10, RemoveStep
  <1> QED
    BY <1>3, <1>4, <1>5, <1>6, <1>7, <1>8, <1>9, <1>10 DEF Next

\* A printer of the configuration is a member; nobody else works on anything.
LEMMA FleetInit ==
    ASSUME Init
    PROVE  FleetInv
  <1> USE FleetAssumption DEF Init
  <1>1. CoreTyped
    BY DEF CoreTyped
  <1>2. ThreadsTyped
    BY DEF ThreadsTyped, AdOK, RcOK
  <1>3. Claimed
    BY DEF Claimed
  <1>4. LastWordWins
    BY DEF LastWordWins, StartsAsMember, StartsEmpty, Least
  <1> QED BY <1>1, <1>2, <1>3, <1>4 DEF FleetInv

-----------------------------------------------------------------------------
(* Slots.                                                                  *)

\* Nothing that matters to the count happened.
LEMMA SlotsStay ==
    ASSUME SlotsMatchThreads, rcount' = rcount, Working' = Working
    PROVE  SlotsMatchThreads'
  BY DEF SlotsMatchThreads, Working

\* The working threads are finitely many, so their number is one.
LEMMA WorkingFinite == IsFiniteSet(Working) /\ Cardinality(Working) \in Nat
  <1>1. IsFiniteSet(Working)
    BY FleetAssumption, FS_Subset DEF Working
  <1> QED BY <1>1, FS_CardinalityType

\* A thread that begins takes a slot there is.
LEMMA SlotTaken ==
    ASSUME SlotsMatchThreads, NEW r \in Rcs, r \notin Working, Working' = Working \cup {r},
           rcount < MaxReconnects, rcount' = rcount + 1
    PROVE  SlotsMatchThreads'
  <1>1. Cardinality(Working') = Cardinality(Working) + 1
    BY WorkingFinite, FS_AddElement
  <1>2. rcount = Cardinality(Working)
    BY DEF SlotsMatchThreads, Working
  <1>3. rcount' = Cardinality(Working') /\ rcount' <= MaxReconnects
    BY <1>1, <1>2, WorkingFinite, FleetAssumption
  <1> QED BY <1>3 DEF SlotsMatchThreads, Working

\* A thread that ends gives its own slot back.
LEMMA SlotGiven ==
    ASSUME SlotsMatchThreads, NEW r \in Working, Working' = Working \ {r},
           rcount' = rcount - 1
    PROVE  SlotsMatchThreads'
  <1>1. Cardinality(Working') = Cardinality(Working) - 1
    BY WorkingFinite, FS_RemoveElement
  <1>2. rcount = Cardinality(Working) /\ rcount <= MaxReconnects
    BY DEF SlotsMatchThreads, Working
  <1>3. rcount' = Cardinality(Working') /\ rcount' <= MaxReconnects
    BY <1>1, <1>2, WorkingFinite, FleetAssumption
  <1> QED BY <1>3 DEF SlotsMatchThreads, Working

\* A reconnect that goes on keeps its slot.
LEMMA GoesOn ==
    ASSUME ThreadsTyped, SlotsMatchThreads, NEW r \in Rcs, NEW pc \in RcPcs,
           rc[r].pc \notin {"idle", "close"}, pc # "close",
           rc' = [rc EXCEPT ![r].pc = pc], rcount' = rcount
    PROVE  SlotsMatchThreads'
  <1>1. rc[r] # NoThread /\ RcOK(rc[r])
    BY DEF ThreadsTyped, NoThread
  <1>2. rc'[r].pc = pc
    BY <1>1 DEF ThreadsTyped, RcOK
  <1>3. \A q \in Rcs \ {r} : rc'[q] = rc[q]
    BY DEF ThreadsTyped
  <1>4. Working' = Working
    BY <1>2, <1>3 DEF Working, RcPcs
  <1> QED BY <1>4, SlotsStay

\* A reconnect takes its slot with the proposal and gives it back once.
LEMMA RcSlots ==
    ASSUME ThreadsTyped, SlotsMatchThreads, NEW r \in Rcs, RcStep(r)
    PROVE  SlotsMatchThreads'
  <1> USE DEF RcGoto
  <1>1. CASE RcChecks(r)
    BY <1>1, GoesOn DEF RcChecks, RcPcs
  <1>2. CASE RcProbes(r)
    BY <1>2, GoesOn DEF RcProbes, RcPcs
  <1>3. CASE RcGates(r)
    BY <1>3, GoesOn DEF RcGates, RcPcs
  <1>4. CASE RcProves(r)
    BY <1>4, GoesOn DEF RcProves, RcPcs
  <1>5. CASE RcMakes(r)
    <2>1. PICK o \in Objects : rc' = [rc EXCEPT ![r].pc = "connect", ![r].new = o]
      BY <1>5 DEF RcMakes, Fresh, Makeable
    <2>2. rc[r].pc = "make" /\ rcount' = rcount
      BY <1>5 DEF RcMakes
    <2>3. RcOK(rc[r]) /\ rc[r] # NoThread
      BY <2>2 DEF ThreadsTyped, NoThread
    <2>4. rc'[r].pc = "connect"
      BY <2>1, <2>3 DEF ThreadsTyped, RcOK
    <2>5. \A q \in Rcs \ {r} : rc'[q] = rc[q]
      BY <2>1 DEF ThreadsTyped
    <2>6. Working' = Working
      BY <2>2, <2>4, <2>5 DEF Working
    <2> QED BY <2>2, <2>6, SlotsStay
  <1>6. CASE RcConnected(r)
    BY <1>6, GoesOn DEF RcConnected, RcPcs
  <1>7. CASE RcGivesUp(r)
    BY <1>7, GoesOn DEF RcGivesUp, RcPcs
  <1>8. CASE RcReleases(r)
    <2>1. rc[r].pc = "release" /\ rc' = [rc EXCEPT ![r].pc = "close"] /\ rcount' = rcount - 1
      BY <1>8 DEF RcReleases
    <2>2. RcOK(rc[r]) /\ rc[r] # NoThread
      BY <2>1 DEF ThreadsTyped, NoThread
    <2>3. rc'[r].pc = "close"
      BY <2>1, <2>2 DEF ThreadsTyped, RcOK
    <2>4. \A q \in Rcs \ {r} : rc'[q] = rc[q]
      BY <2>1 DEF ThreadsTyped
    <2>5. r \in Working /\ Working' = Working \ {r}
      BY <2>1, <2>3, <2>4 DEF Working
    <2> QED BY <2>1, <2>5, SlotGiven
  <1>9. CASE RcCloses(r)
    <2>1. rc[r].pc = "close" /\ rc' = [rc EXCEPT ![r] = NoThread] /\ rcount' = rcount
      BY <1>9 DEF RcCloses
    <2>2. rc'[r].pc = "idle" /\ \A q \in Rcs \ {r} : rc'[q] = rc[q]
      BY <2>1 DEF ThreadsTyped, NoThread
    <2>3. Working' = Working
      BY <2>1, <2>2 DEF Working
    <2> QED BY <2>1, <2>3, SlotsStay
  <1>10. CASE NotStarted(r)
    <2>1. rc[r].pc = "check" /\ rc' = [rc EXCEPT ![r] = NoThread] /\ rcount' = rcount - 1
      BY <1>10 DEF NotStarted
    <2>2. rc'[r].pc = "idle" /\ \A q \in Rcs \ {r} : rc'[q] = rc[q]
      BY <2>1 DEF ThreadsTyped, NoThread
    <2>3. r \in Working /\ Working' = Working \ {r}
      BY <2>1, <2>2 DEF Working
    <2> QED BY <2>1, <2>3, SlotGiven
  <1>11. CASE RcSwaps(r)
    <2>1. /\ rc[r].pc = "swap" /\ rcount' = rcount
          /\ \/ rc' = [rc EXCEPT ![r].pc = "release", ![r].swapped = TRUE]
             \/ rc' = [rc EXCEPT ![r].pc = "release"]
      BY <1>11 DEF RcSwaps
    <2>2. RcOK(rc[r]) /\ rc[r] # NoThread
      BY <2>1 DEF ThreadsTyped, NoThread
    <2>3. rc'[r].pc = "release"
      BY <2>1, <2>2 DEF ThreadsTyped, RcOK
    <2>4. \A q \in Rcs \ {r} : rc'[q] = rc[q]
      BY <2>1 DEF ThreadsTyped
    <2>5. Working' = Working
      BY <2>1, <2>3, <2>4 DEF Working
    <2> QED BY <2>1, <2>5, SlotsStay
  <1> QED
    BY <1>1, <1>2, <1>3, <1>4, <1>5, <1>6, <1>7, <1>8, <1>9, <1>10, <1>11 DEF RcStep

\* Every step keeps the count.
LEMMA SlotsStep ==
    ASSUME ThreadsTyped, SlotsMatchThreads, [Next]_vars
    PROVE  SlotsMatchThreads'
  <1>1. ASSUME NEW r \in Rcs, NEW a \in Addrs, Propose(r, a) PROVE SlotsMatchThreads'
    <2> DEFINE s == [pc |-> "check", gen |-> gen, old |-> member,
                     new |-> None, ip |-> a, swapped |-> FALSE]
    <2>1. /\ rc[r].pc = "idle" /\ rc' = [rc EXCEPT ![r] = s]
          /\ rcount < MaxReconnects /\ rcount' = rcount + 1
      BY <1>1 DEF Propose, Least
    <2>2. rc'[r].pc = "check" /\ \A q \in Rcs \ {r} : rc'[q] = rc[q]
      BY <2>1 DEF ThreadsTyped
    <2> HIDE DEF s
    <2>3. r \notin Working /\ Working' = Working \cup {r}
      BY <2>1, <2>2 DEF Working
    <2> QED BY <2>1, <2>3, SlotTaken
  <1>2. ASSUME UNCHANGED <<rc, rcount>> PROVE SlotsMatchThreads'
    BY <1>2, SlotsStay DEF Working
  <1>3. ASSUME NEW x \in Adders, AddBegins(x) \/ AddConnects(x) \/ AddCommits(x) \/ AddCloses(x)
        PROVE  SlotsMatchThreads'
    BY <1>2, <1>3 DEF AddBegins, AddConnects, AddCommits, AddCloses, rcVars
  <1>4. CASE RemoveBegins \/ RemoveCloses
    BY <1>2, <1>4 DEF RemoveBegins, RemoveCloses, rcVars
  <1>5. ASSUME NEW o \in Objects, DialOpens(o) \/ DialFails(o) PROVE SlotsMatchThreads'
    BY <1>2, <1>5 DEF DialOpens, DialFails, rcVars
  <1>6. CASE Cooled \/ PortsSettle
    BY <1>2, <1>6 DEF Cooled, PortsSettle, rcVars
  <1>7. ASSUME NEW a \in Addrs, Moves(a) PROVE SlotsMatchThreads'
    BY <1>2, <1>7 DEF Moves, rcVars
  <1>8. CASE UNCHANGED vars
    BY <1>2, <1>8 DEF vars, rcVars
  <1> QED
    BY <1>1, <1>3, <1>4, <1>5, <1>6, <1>7, <1>8, RcSlots DEF Next, Reconciles

-----------------------------------------------------------------------------
(* Sessions.                                                               *)

LinkTyped == link \in [Objects -> [st : LinkStates, ip : Addrs \cup {None}, late : BOOLEAN]]

\* Whose duty it is to close the object, or to put it in: the fleet's, an add's,
\* the remove's, or that of a reconnect which lost it or has not swapped it in.
Owned(o) ==
    \/ member = o
    \/ \E x \in Adders : ad[x].pc # "idle" /\ ad[x].obj = o
    \/ rm.pc # "idle" /\ rm.obj = o
    \/ \E r \in Rcs : rc[r].pc # "idle" /\ RcLoser(r) = o

\* A session that runs, or may be about to, is somebody's duty.
Duty(o) == link[o].st \in {"dial", "open"} => link[o].late = TRUE \/ Owned(o)

OwnedInv == LinkTyped /\ \A o \in Objects : Duty(o)

\* disconnect() frees whoever owned the object.
LEMMA ClosedFrees ==
    ASSUME LinkTyped, NEW o \in Objects, Closed(o)
    PROVE  /\ LinkTyped'
           /\ \A p \in Objects \ {o} : link'[p] = link[p]
           /\ Duty(o)'
  <1> DEFINE st == IF link[o].st = "dial" THEN "dial" ELSE "closed"
             n == [link[o] EXCEPT !.st = st, !.late = (link[o].st = "dial")]
  <1>1. link' = [link EXCEPT ![o] = n]
    BY DEF LinkTyped, Closed
  <1>2. n \in [st : LinkStates, ip : Addrs \cup {None}, late : BOOLEAN]
    BY DEF LinkTyped, LinkStates
  <1>3. n.st # "open" /\ (n.st = "dial" => n.late = TRUE)
    BY DEF LinkTyped
  <1> HIDE DEF n
  <1>4. link'[o] = n /\ \A p \in Objects \ {o} : link'[p] = link[p]
    BY <1>1 DEF LinkTyped
  <1>5. LinkTyped'
    BY <1>1, <1>2 DEF LinkTyped
  <1> QED BY <1>3, <1>4, <1>5 DEF Duty

\* What stays owned and in its state stays a duty.
LEMMA DutyStays ==
    ASSUME NEW o \in Objects, Duty(o), link'[o] = link[o], Owned(o) => Owned(o)'
    PROVE  Duty(o)'
  BY DEF Duty

\* A reconnect that goes to another place owes what it owed.
LEMMA GoesOwing ==
    ASSUME ThreadsTyped, NEW r \in Rcs, NEW pc \in RcPcs, rc[r].pc # "idle",
           rc' = [rc EXCEPT ![r].pc = pc], UNCHANGED <<member, ad, rm>>,
           NEW o, Owned(o)
    PROVE  Owned(o)'
  <1>1. rc[r] # NoThread /\ RcOK(rc[r])
    BY DEF ThreadsTyped, NoThread
  <1>2. /\ rc'[r].pc = pc /\ pc # "idle"
        /\ rc'[r].swapped = rc[r].swapped /\ rc'[r].old = rc[r].old /\ rc'[r].new = rc[r].new
    BY <1>1 DEF ThreadsTyped, RcOK, RcPcs
  <1>3. \A q \in Rcs \ {r} : rc'[q] = rc[q]
    BY DEF ThreadsTyped
  <1>4. \A q \in Rcs : rc[q].pc # "idle" => rc'[q].pc # "idle" /\ RcLoser(q)' = RcLoser(q)
    BY <1>2, <1>3 DEF RcLoser
  <1> QED BY <1>4 DEF Owned

\* Nothing changes hands.
LEMMA SameHands ==
    ASSUME UNCHANGED <<member, ad, rm, rc>>, NEW o
    PROVE  Owned(o)' <=> Owned(o)
  BY DEF Owned, RcLoser

\* An add owns the object it made until it commits or closes it.
LEMMA AddOwned ==
    ASSUME FleetInv, OwnedInv, NEW x \in Adders,
           AddBegins(x) \/ AddConnects(x) \/ AddCommits(x) \/ AddCloses(x)
    PROVE  OwnedInv'
  <1> USE DEF FleetInv, OwnedInv
  <1>0. \A r \in Rcs : rc' = rc => RcLoser(r)' = RcLoser(r)
    BY DEF RcLoser
  <1>1. CASE AddBegins(x)
    <2>1. ad[x].pc = "idle" /\ UNCHANGED <<member, rm, rc>>
      BY <1>1 DEF AddBegins, Least, rcVars
    <2>2. PICK o \in Objects, a \in Addrs :
            /\ ad' = [ad EXCEPT ![x] = [pc |-> "connect", gen |-> gen + 1, obj |-> o]]
            /\ link' = [link EXCEPT ![o] = [st |-> "made", ip |-> a, late |-> FALSE]]
      BY <1>1 DEF AddBegins, Fresh, Makeable
    <2>3. \A y \in Adders \ {x} : ad'[y] = ad[y]
      BY <2>2 DEF ThreadsTyped
    <2>4. \A p \in Objects : Owned(p) => Owned(p)'
      BY <1>0, <2>1, <2>3 DEF Owned
    <2>5. LinkTyped' /\ link'[o].st = "made" /\ \A p \in Objects \ {o} : link'[p] = link[p]
      BY <2>2 DEF LinkTyped, LinkStates
    <2>6. Duty(o)'
      BY <2>5 DEF Duty
    <2>7. \A p \in Objects \ {o} : Duty(p)'
      BY <2>4, <2>5, DutyStays
    <2> QED BY <2>5, <2>6, <2>7
  <1>2. CASE AddConnects(x)
    <2>1. /\ ad[x].pc = "connect" /\ UNCHANGED <<member, rm, rc>>
          /\ ad' = [ad EXCEPT ![x].pc = "commit"]
      BY <1>2 DEF AddConnects, coreVars, rcVars
    <2>2. ad[x] # NoThread /\ AdOK(ad[x])
      BY <2>1 DEF ThreadsTyped, NoThread
    <2>o. PICK o \in Objects : o = ad[x].obj
      BY <2>1, AdHolds
    <2>3. ad'[x].pc = "commit" /\ ad'[x].obj = o
      BY <2>1, <2>2, <2>o DEF ThreadsTyped, AdOK
    <2>4. \A y \in Adders \ {x} : ad'[y] = ad[y]
      BY <2>1 DEF ThreadsTyped
    <2>5. \A p \in Objects : Owned(p) => Owned(p)'
      BY <1>0, <2>1, <2>3, <2>4, <2>o DEF Owned
    <2>6. Duty(o)'
      BY <2>3 DEF Owned, Duty
    <2>7. LinkTyped' /\ \A p \in Objects \ {o} : link'[p] = link[p]
      BY <1>2, <2>o DEF AddConnects, LinkTyped, LinkStates
    <2>8. \A p \in Objects \ {o} : Duty(p)'
      BY <2>5, <2>7, DutyStays
    <2> QED BY <2>6, <2>7, <2>8
  <1>3. CASE AddCommits(x)
    <2>1. ad[x].pc = "commit" /\ UNCHANGED <<rm, rc, link>>
      BY <1>3 DEF AddCommits, rcVars
    <2>2. ad[x] # NoThread /\ AdOK(ad[x])
      BY <2>1 DEF ThreadsTyped, NoThread
    <2>3. CASE OwnsAdd(x)
      <3>1. member = None /\ member' = ad[x].obj /\ ad' = [ad EXCEPT ![x] = NoThread]
        BY <1>3, <2>3 DEF AddCommits, OwnsAdd
      <3>2. \A y \in Adders \ {x} : ad'[y] = ad[y]
        BY <3>1 DEF ThreadsTyped
      <3>3. \A p \in Objects : p # None
        BY FleetAssumption
      <3>4. \A p \in Objects : Owned(p) => Owned(p)'
        BY <1>0, <2>1, <3>1, <3>2, <3>3 DEF Owned
      <3>5. \A p \in Objects : Duty(p)'
        BY <2>1, <3>4, DutyStays
      <3> QED BY <2>1, <3>5 DEF LinkTyped
    <2>4. CASE ~OwnsAdd(x)
      <3>1. member' = member /\ ad' = [ad EXCEPT ![x].pc = "close"]
        BY <1>3, <2>4 DEF AddCommits
      <3>2. \A y \in Adders \ {x} : ad'[y] = ad[y]
        BY <3>1 DEF ThreadsTyped
      <3>3. ad'[x].pc = "close" /\ ad'[x].obj = ad[x].obj
        BY <2>2, <3>1 DEF ThreadsTyped, AdOK
      <3>4. \A p \in Objects : Owned(p) => Owned(p)'
        BY <1>0, <2>1, <3>1, <3>2, <3>3 DEF Owned
      <3>5. \A p \in Objects : Duty(p)'
        BY <2>1, <3>4, DutyStays
      <3> QED BY <2>1, <3>5 DEF LinkTyped
    <2> QED BY <2>3, <2>4
  <1>4. CASE AddCloses(x)
    <2>1. /\ ad[x].pc = "close" /\ UNCHANGED <<member, rm, rc>>
          /\ ad' = [ad EXCEPT ![x] = NoThread] /\ Closed(ad[x].obj)
      BY <1>4 DEF AddCloses, coreVars, rcVars
    <2>2. PICK o \in Objects : o = ad[x].obj
      BY <2>1, AdHolds
    <2>3. /\ LinkTyped' /\ Duty(o)'
          /\ \A p \in Objects \ {o} : link'[p] = link[p]
      BY <2>1, <2>2, ClosedFrees
    <2>4. \A y \in Adders \ {x} : ad'[y] = ad[y]
      BY <2>1 DEF ThreadsTyped
    <2>5. \A p \in Objects \ {o} : Owned(p) => Owned(p)'
      BY <1>0, <2>1, <2>2, <2>4 DEF Owned
    <2>6. \A p \in Objects \ {o} : Duty(p)'
      BY <2>3, <2>5, DutyStays
    <2> QED BY <2>3, <2>6
  <1> QED BY <1>1, <1>2, <1>3, <1>4

\* A remove owns what was the member until it has closed it.
LEMMA RemoveOwned ==
    ASSUME FleetInv, OwnedInv, RemoveBegins \/ RemoveCloses
    PROVE  OwnedInv'
  <1> USE DEF OwnedInv
  <1>0. \A r \in Rcs : rc' = rc => RcLoser(r)' = RcLoser(r)
    BY DEF RcLoser
  <1>1. CASE RemoveBegins
    <2>1. rm.pc = "idle" /\ rm' = [pc |-> "close", obj |-> member] /\ UNCHANGED <<ad, rc, link>>
      BY <1>1 DEF RemoveBegins
    <2>2. \A p \in Objects : Owned(p) => Owned(p)'
      BY <1>0, <2>1 DEF Owned
    <2>3. \A p \in Objects : Duty(p)'
      BY <2>1, <2>2, DutyStays
    <2> QED BY <2>1, <2>3 DEF LinkTyped
  <1>2. CASE RemoveCloses
    <2>1. rm' = NoThread /\ UNCHANGED <<member, ad, rc>>
      BY <1>2 DEF RemoveCloses, coreVars, rcVars
    <2>2. \A p \in Objects : p # rm.obj => (Owned(p) => Owned(p)')
      BY <1>0, <2>1 DEF Owned
    <2>3. CASE rm.obj \notin Objects
      <3>1. link' = link \/ Closed(rm.obj)
        BY <1>2 DEF RemoveCloses
      <3>2. \A p \in Objects : link'[p] = link[p]
        BY <2>3, <3>1 DEF Closed, LinkTyped
      <3>3. LinkTyped'
        BY <2>3, <3>1 DEF Closed, LinkTyped
      <3>4. \A p \in Objects : Duty(p)'
        BY <2>2, <2>3, <3>2, DutyStays
      <3> QED BY <3>3, <3>4
    <2>4. CASE rm.obj \in Objects
      <3>1. PICK o \in Objects : o = rm.obj
        BY <2>4
      <3>2. Closed(o)
        BY <1>2, <3>1, FleetAssumption DEF RemoveCloses
      <3>3. LinkTyped' /\ Duty(o)' /\ \A p \in Objects \ {o} : link'[p] = link[p]
        BY <3>2, ClosedFrees
      <3>4. \A p \in Objects \ {o} : Duty(p)'
        BY <2>2, <3>1, <3>3, DutyStays
      <3> QED BY <3>3, <3>4
    <2> QED BY <2>3, <2>4
  <1> QED BY <1>1, <1>2

\* A reconnect that moves on with every session as it was keeps the duties.
LEMMA GoesDutiful ==
    ASSUME ThreadsTyped, OwnedInv, NEW r \in Rcs, NEW pc \in RcPcs, rc[r].pc # "idle",
           rc' = [rc EXCEPT ![r].pc = pc], UNCHANGED <<member, ad, rm, link>>
    PROVE  OwnedInv'
  <1>1. \A p \in Objects : Owned(p) => Owned(p)'
    BY GoesOwing
  <1>2. \A p \in Objects : Duty(p)'
    BY <1>1, DutyStays DEF OwnedInv
  <1> QED BY <1>2 DEF OwnedInv, LinkTyped

\* A proposal, and a thread that cannot be started, owe nothing yet.
LEMMA ProposeOwned ==
    ASSUME FleetInv, OwnedInv, NEW r \in Rcs, NEW a \in Addrs, Propose(r, a)
    PROVE  OwnedInv'
  <1>1. /\ rc[r].pc = "idle" /\ UNCHANGED <<member, ad, rm, link>>
        /\ rc' = [rc EXCEPT ![r] = [pc |-> "check", gen |-> gen, old |-> member,
                                    new |-> None, ip |-> a, swapped |-> FALSE]]
    BY DEF Propose, Least, coreVars, threadVars
  <1>2. \A q \in Rcs \ {r} : rc'[q] = rc[q]
    BY <1>1 DEF FleetInv, ThreadsTyped
  <1>3. \A q \in Rcs \ {r} : RcLoser(q)' = RcLoser(q)
    BY <1>2 DEF RcLoser
  <1>4. \A p \in Objects : Owned(p) => Owned(p)'
    BY <1>1, <1>2, <1>3 DEF Owned
  <1>5. \A p \in Objects : Duty(p)'
    BY <1>1, <1>4, DutyStays DEF OwnedInv
  <1> QED BY <1>1, <1>5 DEF OwnedInv, LinkTyped

\* A reconnect owns the replacement it makes, and after the swap what it replaced.
LEMMA RcOwned ==
    ASSUME FleetInv, OwnedInv, NEW r \in Rcs, RcStep(r)
    PROVE  OwnedInv'
  <1> USE DEF RcGoto, FleetInv, threadVars, coreVars
  <1>1. CASE RcChecks(r)
    BY <1>1, GoesDutiful DEF RcChecks, RcPcs
  <1>2. CASE RcProbes(r)
    BY <1>2, GoesDutiful DEF RcProbes, RcPcs
  <1>3. CASE RcGates(r)
    BY <1>3, GoesDutiful DEF RcGates, RcPcs
  <1>4. CASE RcProves(r)
    BY <1>4, GoesDutiful DEF RcProves, RcPcs
  <1>6. CASE RcConnected(r)
    BY <1>6, GoesDutiful DEF RcConnected, RcPcs
  <1>7. CASE RcGivesUp(r)
    BY <1>7, GoesDutiful DEF RcGivesUp, RcPcs
  <1>8. CASE RcReleases(r)
    BY <1>8, GoesDutiful DEF RcReleases, RcPcs
  <1>5. CASE RcMakes(r)
    <2>1. PICK o \in Objects :
            /\ rc' = [rc EXCEPT ![r].pc = "connect", ![r].new = o]
            /\ link' = [link EXCEPT ![o] = [st |-> "dial", ip |-> rc[r].ip, late |-> FALSE]]
      BY <1>5 DEF RcMakes, Fresh, Makeable
    <2>2. rc[r].pc = "make" /\ UNCHANGED <<member, ad, rm>>
      BY <1>5 DEF RcMakes
    <2>3. rc[r].new = None /\ rc[r].swapped = FALSE /\ rc[r].ip \in Addrs
      BY <2>2, RcHolds DEF Early, Ending
    <2>4. RcOK(rc[r]) /\ rc[r] # NoThread
      BY <2>2 DEF ThreadsTyped, NoThread
    <2>5. rc'[r].pc = "connect" /\ rc'[r].new = o /\ rc'[r].swapped = FALSE
      BY <2>1, <2>3, <2>4 DEF ThreadsTyped, RcOK
    <2>6. \A q \in Rcs \ {r} : rc'[q] = rc[q]
      BY <2>1 DEF ThreadsTyped
    <2>7. RcLoser(r) = None /\ \A q \in Rcs \ {r} : RcLoser(q)' = RcLoser(q)
      BY <2>3, <2>6 DEF RcLoser
    <2>8. \A p \in Objects : Owned(p) => Owned(p)'
      BY <2>2, <2>6, <2>7, FleetAssumption DEF Owned
    <2>9. LinkTyped' /\ \A p \in Objects \ {o} : link'[p] = link[p]
      BY <2>1, <2>3 DEF OwnedInv, LinkTyped, LinkStates
    <2>10. Duty(o)'
      BY <2>5 DEF Duty, Owned, RcLoser
    <2>11. \A p \in Objects \ {o} : Duty(p)'
      BY <2>8, <2>9, DutyStays DEF OwnedInv
    <2> QED BY <2>9, <2>10, <2>11 DEF OwnedInv
  <1>9. CASE RcCloses(r)
    <2>1. /\ rc[r].pc = "close" /\ rc' = [rc EXCEPT ![r] = NoThread]
          /\ UNCHANGED <<member, ad, rm>>
      BY <1>9 DEF RcCloses
    <2>2. \A q \in Rcs \ {r} : rc'[q] = rc[q]
      BY <2>1 DEF ThreadsTyped
    <2>3. \A q \in Rcs \ {r} : RcLoser(q)' = RcLoser(q)
      BY <2>2 DEF RcLoser
    <2>4. PICK o \in Objects \cup {None} : o = RcLoser(r)
      BY <2>1, RcHolds DEF RcLoser
    <2>5. \A p \in Objects \ {o} : Owned(p) => Owned(p)'
      BY <2>1, <2>2, <2>3, <2>4 DEF Owned
    <2>6. CASE o = None
      <3>1. link' = link
        BY <1>9, <2>4, <2>6 DEF RcCloses
      <3>2. \A p \in Objects : p # None
        BY FleetAssumption
      <3>3. \A p \in Objects : Duty(p)'
        BY <2>5, <2>6, <3>1, <3>2, DutyStays DEF OwnedInv
      <3> QED BY <3>1, <3>3 DEF OwnedInv, LinkTyped
    <2>7. CASE o \in Objects
      <3>1. Closed(o)
        BY <1>9, <2>4, <2>7, FleetAssumption DEF RcCloses
      <3>2. LinkTyped' /\ Duty(o)' /\ \A p \in Objects \ {o} : link'[p] = link[p]
        BY <2>7, <3>1, ClosedFrees DEF OwnedInv
      <3>3. \A p \in Objects \ {o} : Duty(p)'
        BY <2>5, <3>2, DutyStays DEF OwnedInv
      <3> QED BY <3>2, <3>3 DEF OwnedInv
    <2> QED BY <2>6, <2>7
  <1>10. CASE NotStarted(r)
    <2>1. /\ rc[r].pc = "check" /\ rc' = [rc EXCEPT ![r] = NoThread]
          /\ UNCHANGED <<member, ad, rm, link>>
      BY <1>10 DEF NotStarted
    <2>2. \A q \in Rcs \ {r} : rc'[q] = rc[q]
      BY <2>1 DEF ThreadsTyped
    <2>3. RcLoser(r) = None
      BY <2>1, RcHolds DEF RcLoser, Early, Ending
    <2>4. \A q \in Rcs \ {r} : RcLoser(q)' = RcLoser(q)
      BY <2>2 DEF RcLoser
    <2>5. \A p \in Objects : Owned(p) => Owned(p)'
      BY <2>1, <2>2, <2>3, <2>4, FleetAssumption DEF Owned
    <2>6. \A p \in Objects : Duty(p)'
      BY <2>1, <2>5, DutyStays DEF OwnedInv
    <2> QED BY <2>1, <2>6 DEF OwnedInv, LinkTyped
  <1>11. CASE RcSwaps(r)
    <2>1. rc[r].pc = "swap" /\ UNCHANGED <<ad, rm, link>>
      BY <1>11 DEF RcSwaps
    <2>2. RcOK(rc[r]) /\ rc[r] # NoThread
      BY <2>1 DEF ThreadsTyped, NoThread
    <2>3. rc[r].swapped = FALSE
      BY <2>1, RcHolds DEF Ending
    <2>4. CASE MaySwap(r)
      <3>1. /\ member = rc[r].old /\ member' = rc[r].new
            /\ rc' = [rc EXCEPT ![r].pc = "release", ![r].swapped = TRUE]
        BY <1>11, <2>4 DEF RcSwaps, MaySwap
      <3>2. rc'[r].pc = "release" /\ rc'[r].swapped = TRUE /\ rc'[r].old = rc[r].old
        BY <2>2, <3>1 DEF ThreadsTyped, RcOK
      <3>3. \A q \in Rcs \ {r} : rc'[q] = rc[q]
        BY <3>1 DEF ThreadsTyped
      <3>4. \A q \in Rcs \ {r} : RcLoser(q)' = RcLoser(q)
        BY <3>3 DEF RcLoser
      <3>5. RcLoser(r) = member' /\ RcLoser(r)' = member
        BY <2>3, <3>1, <3>2 DEF RcLoser
      <3>6. \A p \in Objects : Owned(p) => Owned(p)'
        BY <2>1, <3>2, <3>3, <3>4, <3>5 DEF Owned
      <3>7. \A p \in Objects : Duty(p)'
        BY <2>1, <3>6, DutyStays DEF OwnedInv
      <3> QED BY <2>1, <3>7 DEF OwnedInv, LinkTyped
    <2>5. CASE ~MaySwap(r)
      BY <1>11, <2>1, <2>5, GoesDutiful DEF RcSwaps, RcPcs
    <2> QED BY <2>4, <2>5
  <1> QED
    BY <1>1, <1>2, <1>3, <1>4, <1>5, <1>6, <1>7, <1>8, <1>9, <1>10, <1>11 DEF RcStep

\* A connect that comes back sets a session its owner still owns.
LEMMA DialOwned ==
    ASSUME OwnedInv, NEW o \in Objects, DialOpens(o) \/ DialFails(o)
    PROVE  OwnedInv'
  <1>1. UNCHANGED <<member, ad, rm, rc>> /\ link[o].st = "dial"
    BY DEF DialOpens, DialFails, coreVars, rcVars, threadVars
  <1>2. \A p \in Objects : Owned(p)' <=> Owned(p)
    BY <1>1, SameHands
  <1>3. PICK st \in LinkStates : link' = [link EXCEPT ![o].st = st]
    BY DEF DialOpens, DialFails, LinkStates
  <1>4. LinkTyped' /\ \A p \in Objects \ {o} : link'[p] = link[p]
    BY <1>3 DEF OwnedInv, LinkTyped
  <1>5. link'[o].late = link[o].late
    BY <1>3 DEF OwnedInv, LinkTyped
  <1>6. Duty(o)'
    BY <1>1, <1>2, <1>5 DEF OwnedInv, Duty
  <1>7. \A p \in Objects \ {o} : Duty(p)'
    BY <1>2, <1>4, DutyStays DEF OwnedInv
  <1> QED BY <1>4, <1>6, <1>7 DEF OwnedInv

\* Every step keeps every session in somebody's hands.
LEMMA OwnedStep ==
    ASSUME FleetInv, OwnedInv, [Next]_vars
    PROVE  OwnedInv'
  <1>1. ASSUME UNCHANGED <<member, ad, rm, rc, link>> PROVE OwnedInv'
    <2>1. \A p \in Objects : Duty(p)'
      BY <1>1, SameHands, DutyStays DEF OwnedInv
    <2> QED BY <1>1, <2>1 DEF OwnedInv, LinkTyped
  <1>2. CASE Cooled \/ PortsSettle
    BY <1>1, <1>2 DEF Cooled, PortsSettle, coreVars, rcVars, threadVars
  <1>3. ASSUME NEW a \in Addrs, Moves(a) PROVE OwnedInv'
    BY <1>1, <1>3 DEF Moves, coreVars, rcVars, threadVars
  <1>4. CASE UNCHANGED vars
    BY <1>1, <1>4 DEF vars, coreVars, rcVars, threadVars
  <1>5. ASSUME NEW x \in Adders, AddBegins(x) \/ AddConnects(x) \/ AddCommits(x) \/ AddCloses(x)
        PROVE  OwnedInv'
    BY <1>5, AddOwned
  <1>6. CASE RemoveBegins \/ RemoveCloses
    BY <1>6, RemoveOwned
  <1>7. CASE Reconciles
    BY <1>7, ProposeOwned DEF Reconciles
  <1>8. ASSUME NEW r \in Rcs, RcStep(r) PROVE OwnedInv'
    BY <1>8, RcOwned
  <1>9. ASSUME NEW o \in Objects, DialOpens(o) \/ DialFails(o) PROVE OwnedInv'
    BY <1>9, DialOwned
  <1> QED
    BY <1>2, <1>3, <1>4, <1>5, <1>6, <1>7, <1>8, <1>9 DEF Next

\* Start-up dials the members and nothing else.
LEMMA OwnedInit ==
    ASSUME Init
    PROVE  OwnedInv
  <1>1. CASE StartsAsMember
    <2>1. LinkTyped
      BY <1>1 DEF StartsAsMember, LinkTyped, LinkStates, NotMade
    <2>2. \A o \in Objects : o # member => link[o].st = "new"
      BY <1>1 DEF StartsAsMember, NotMade
    <2>3. \A o \in Objects : Duty(o)
      BY <2>2 DEF Duty, Owned
    <2> QED BY <2>1, <2>3 DEF OwnedInv
  <1>2. CASE StartsEmpty
    <2>1. LinkTyped /\ \A o \in Objects : link[o].st = "new"
      BY <1>2 DEF StartsEmpty, LinkTyped, LinkStates, NotMade
    <2> QED BY <2>1 DEF OwnedInv, Duty
  <1> QED BY <1>1, <1>2 DEF Init

-----------------------------------------------------------------------------
\* The parts of the invariant hold together.
LEMMA InvHolds == Spec => [](FleetInv /\ OwnedInv)
  <1>1. Init => FleetInv /\ OwnedInv
    BY FleetInit, OwnedInit
  <1>2. FleetInv /\ OwnedInv /\ [Next]_vars => (FleetInv /\ OwnedInv)'
    BY FleetStep, OwnedStep
  <1> QED BY <1>1, <1>2, PTL DEF Spec

\* Whatever slow connects of older adds and reconnects finish meanwhile, the
\* serial is a member only if the last word was an add, and then it is one once
\* that add has committed (fleet.py add_printer, remove_printer, _run_reconnect).
THEOREM MembershipFollowsLastWord == Spec => []LastWordWins
  <1>1. FleetInv => LastWordWins
    BY DEF FleetInv
  <1> QED BY <1>1, InvHolds, PTL

\* No session is left running with nobody to close it, except one that opened
\* after everybody stopped waiting for it (fleet.py _run_reconnect's finally,
\* add_printer's rollback, remove_printer).
THEOREM SessionsHaveOwners == Spec => []ClosedUnlessHeld
  <1>1. FleetInv /\ OwnedInv => ClosedUnlessHeld
    <2> SUFFICES ASSUME FleetInv, OwnedInv, NEW o \in Objects,
                        link[o].st = "open", ~link[o].late
                 PROVE  Held(o)
      BY DEF ClosedUnlessHeld
    <2>1. Owned(o)
      BY DEF OwnedInv, Duty
    <2> QED BY <2>1 DEF Owned, Held, RcLoser
  <1> QED BY <1>1, InvHolds, PTL

\* The live-worker count is the number of threads that hold a slot, and never
\* above the limit (fleet.py _schedule_reconnect, _release_reconnect_worker_slot).
THEOREM SlotsAreThreads == Spec => []SlotsMatchThreads
  <1>1. Init => SlotsMatchThreads
    <2>1. Init => Working = {} /\ rcount = 0
      BY DEF Init, Working, NoThread
    <2>2. Cardinality({}) = 0
      BY FS_EmptySet
    <2>3. Init => rcount = Cardinality(Working) /\ rcount <= MaxReconnects
      BY <2>1, <2>2, FleetAssumption
    <2> QED BY <2>3 DEF SlotsMatchThreads, Working
  <1>2. FleetInv /\ SlotsMatchThreads /\ [Next]_vars => SlotsMatchThreads'
    BY SlotsStep DEF FleetInv
  <1> QED BY <1>1, <1>2, InvHolds, PTL DEF Spec

-----------------------------------------------------------------------------
(* Types of the rest.                                                      *)

\* What no thread holds: the stored address, the claim on the serial, the proofs
\* and the network.
RestTyped ==
    /\ conf \in Addrs \cup {None} /\ wanted \in BOOLEAN /\ proved \subseteq Addrs
    /\ flight = None \/ (flight.gen \in Nat /\ flight.rc \in Rcs)
    /\ rm.pc \in {"idle", "close"}
    /\ home \in Addrs /\ answers \subseteq Addrs

\* Only an add or a swap stores an address, and it is one that was dialled.
LEMMA RestStep ==
    ASSUME FleetInv, OwnedInv, RestTyped, [Next]_vars
    PROVE  RestTyped'
  <1>0. ThreadsTyped /\ gen \in Nat
    BY DEF FleetInv, CoreTyped
  <1>1. ASSUME NEW x \in Adders, AddCommits(x) PROVE RestTyped'
    <2>1. ad[x].obj \in Objects
      BY <1>0, <1>1, AdHolds DEF AddCommits
    <2>2. link[ad[x].obj].ip \in Addrs \cup {None}
      BY <2>1 DEF OwnedInv, LinkTyped
    <2> QED BY <1>1, <2>2 DEF AddCommits, RestTyped, rcVars, netVars
  <1>2. ASSUME NEW x \in Adders, AddBegins(x) \/ AddConnects(x) \/ AddCloses(x)
        PROVE  RestTyped'
    BY <1>2 DEF AddBegins, AddConnects, AddCloses, RestTyped, coreVars, rcVars, netVars
  <1>3. CASE RemoveBegins \/ RemoveCloses
    <2>1. rm'.pc \in {"idle", "close"}
      BY <1>3 DEF RemoveBegins, RemoveCloses, NoThread
    <2>2. /\ conf' = None \/ conf' = conf
          /\ wanted' = FALSE \/ wanted' = wanted
          /\ flight' = None \/ flight' = flight
          /\ UNCHANGED <<proved, home, answers>>
      BY <1>3 DEF RemoveBegins, RemoveCloses, coreVars, rcVars, netVars
    <2> QED BY <2>1, <2>2 DEF RestTyped
  <1>4. ASSUME NEW r \in Rcs, NEW a \in Addrs, Propose(r, a) PROVE RestTyped'
    <2>1. flight'.gen \in Nat /\ flight'.rc \in Rcs
      BY <1>0, <1>4 DEF Propose
    <2> QED BY <1>4, <2>1 DEF Propose, RestTyped, coreVars, threadVars, netVars
  <1>5. ASSUME NEW r \in Rcs, RcGates(r) \/ RcSwaps(r) PROVE RestTyped'
    <2>1. rc[r].ip \in Addrs
      BY <1>0, <1>5, RcHolds DEF RcGates, RcSwaps
    <2>2. conf' \in Addrs \cup {None} /\ proved' \subseteq Addrs
      BY <1>5, <2>1 DEF RcGates, RcSwaps, RcGoto, RestTyped, coreVars
    <2>3. UNCHANGED <<wanted, flight, rm, home, answers>>
      BY <1>5 DEF RcGates, RcSwaps, RcGoto, coreVars, threadVars, netVars
    <2> QED BY <2>2, <2>3 DEF RestTyped
  <1>6. ASSUME NEW r \in Rcs, NotStarted(r) \/ RcReleases(r) PROVE RestTyped'
    <2>1. flight' = None \/ flight' = flight
      BY <1>6 DEF NotStarted, RcReleases
    <2>2. UNCHANGED <<conf, wanted, proved, rm, home, answers>>
      BY <1>6 DEF NotStarted, RcReleases, coreVars, threadVars, netVars
    <2> QED BY <2>1, <2>2 DEF RestTyped
  <1>7. ASSUME NEW r \in Rcs,
               \/ RcChecks(r) \/ RcProbes(r) \/ RcProves(r) \/ RcMakes(r) \/ RcConnected(r)
               \/ RcGivesUp(r) \/ RcCloses(r)
        PROVE  RestTyped'
    <2>1. UNCHANGED <<conf, wanted, proved, flight, rm, home, answers>>
      BY <1>7 DEF RcChecks, RcProbes, RcProves, RcMakes, RcConnected, RcGivesUp, RcCloses, RcGoto,
                  coreVars, threadVars, netVars
    <2> QED BY <2>1 DEF RestTyped
  <1>8. ASSUME NEW o \in Objects, DialOpens(o) \/ DialFails(o) PROVE RestTyped'
    BY <1>8 DEF DialOpens, DialFails, RestTyped, coreVars, rcVars, threadVars, netVars
  <1>9. CASE Cooled \/ PortsSettle \/ UNCHANGED vars
    BY <1>9 DEF Cooled, PortsSettle, RestTyped, vars, coreVars, rcVars, threadVars, netVars
  <1>10. ASSUME NEW a \in Addrs, Moves(a) PROVE RestTyped'
    <2>1. home' \in Addrs /\ answers' \subseteq Addrs
      BY <1>10 DEF Moves, RestTyped
    <2> QED BY <1>10, <2>1 DEF Moves, RestTyped, coreVars, rcVars, threadVars
  <1> QED
    BY <1>1, <1>2, <1>3, <1>4, <1>5, <1>6, <1>7, <1>8, <1>9, <1>10 DEF Next, Reconciles, RcStep

\* Type correctness of the fleet, for any objects, addresses and threads (fleet.py).
THEOREM TypeCorrect == Spec => []TypeOK
  <1>1. Init => RestTyped
    <2> SUFFICES ASSUME Init PROVE RestTyped
      OBVIOUS
    <2>1. conf \in Addrs \cup {None} /\ wanted \in BOOLEAN
      BY DEF Init, StartsAsMember, StartsEmpty
    <2>2. flight = None /\ proved = {} /\ rm.pc = "idle" /\ home \in Addrs /\ answers = {home}
      BY DEF Init, NoThread
    <2> QED BY <2>1, <2>2 DEF RestTyped
  <1>2. FleetInv /\ OwnedInv /\ RestTyped /\ [Next]_vars => RestTyped'
    BY RestStep
  <1>3. FleetInv /\ OwnedInv /\ RestTyped /\ SlotsMatchThreads => TypeOK
    <2> SUFFICES ASSUME FleetInv, OwnedInv, RestTyped, SlotsMatchThreads PROVE TypeOK
      OBVIOUS
    <2>1. \A x \in Adders : ad[x].pc \in Pcs
      <3>1. \A x \in Adders : AdOK(ad[x])
        BY DEF FleetInv, ThreadsTyped
      <3> QED BY <3>1 DEF AdOK, NoThread, Pcs
    <2>2. \A r \in Rcs : rc[r].pc \in Pcs
      <3>1. \A r \in Rcs : RcOK(rc[r])
        BY DEF FleetInv, ThreadsTyped
      <3> QED BY <3>1 DEF RcOK, RcPcs, NoThread, Pcs
    <2>3. rcount \in Nat
      BY WorkingFinite DEF SlotsMatchThreads, Working
    <2>4. rm.pc \in Pcs
      BY DEF RestTyped, Pcs
    <2> QED
      BY <2>1, <2>2, <2>3, <2>4
      DEF FleetInv, CoreTyped, OwnedInv, LinkTyped, RestTyped, TypeOK
  <1> QED BY <1>1, <1>2, <1>3, InvHolds, SlotsAreThreads, PTL DEF Spec
=============================================================================
