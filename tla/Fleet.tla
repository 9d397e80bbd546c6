------------------------------- MODULE Fleet -------------------------------
(***************************************************************************)
(* One serial of the fleet (fleet.py): its membership, the printer objects *)
(* that stand for it one after another, and the threads that change them - *)
(* adds, a remove, and the reconnect workers that move it to another       *)
(* address.  The fleet lock is held only for the short sections; every     *)
(* connect, probe, proof and disconnect happens outside it, so whatever    *)
(* was read under the lock may be stale by then.                           *)
(***************************************************************************)
EXTENDS Naturals, FiniteSets

CONSTANTS
    Objects,        \* BambuPrinter objects, numbered; one nobody holds is made anew
    Addrs,          \* addresses on the LAN, numbered
    Adders,         \* threads in add_printer, numbered; the first idle one is taken
    Rcs,            \* threads running _run_reconnect, numbered likewise
    MaxReconnects,  \* _MAX_RECONNECT_WORKERS_PER_SERIAL
    MaxGen,         \* bound: adds and removes
    MaxMoves,       \* bound: how often the printer changes its address
    MaxFaults,      \* bound: failed thread starts and connects that outlive their wait
    None

ASSUME FleetAssumption ==
    /\ Objects \cup Addrs \cup Adders \cup Rcs \subseteq Nat
    /\ IsFiniteSet(Rcs) /\ None \notin Nat
    /\ MaxReconnects \in Nat \ {0} /\ MaxGen \in Nat /\ MaxMoves \in Nat /\ MaxFaults \in Nat

VARIABLES
    member,     \* the object in _printers, or None
    conf,       \* its address in _configs, or None
    gen,        \* _membership_generations
    adding,     \* _adds_in_flight: a generation, or None
    flight,     \* _reconnects_in_flight: [gen, rc], or None
    rcount,     \* _reconnect_worker_counts
    proved,     \* addresses proved within the cooldown (_address_proof_at)
    link,       \* [Objects -> what became of the object and its session]
    ad,         \* [Adders -> a thread in add_printer]
    rm,         \* the thread in remove_printer
    rc,         \* [Rcs -> a thread in _run_reconnect]
    home,       \* where the printer is
    answers,    \* addresses on which port 8883 accepts
    wanted,     \* history: the last add or remove that took effect
    moves, faults

coreVars  == <<member, conf, gen, adding, wanted>>
rcVars    == <<flight, rcount, proved, rc>>
threadVars == <<ad, rm>>
netVars   == <<home, answers, moves, faults>>
vars == <<coreVars, rcVars, threadVars, netVars, link>>

NoThread == [pc |-> "idle"]
NotMade  == [st |-> "new", ip |-> None, late |-> FALSE]

Least(n, S) == n \in S /\ \A m \in S : n <= m

\* "new": not made.  "made": no session.  "dial": connect() is running in a
\* thread of its own.  "open": the session runs.  "closed": disconnect() found
\* a session, or nothing, and the object is done.
LinkStates == {"new", "made", "dial", "open", "closed"}

Held(o) ==
    \/ member = o
    \/ \E x \in Adders : ad[x].pc # "idle" /\ ad[x].obj = o
    \/ rm.pc # "idle" /\ rm.obj = o
    \/ \E r \in Rcs : rc[r].pc # "idle" /\ o \in {rc[r].old, rc[r].new}

\* A leaked one, too: nothing refers to it any more.
Makeable == {o \in Objects : /\ ~Held(o)
                             /\ link[o].st \in {"new", "closed"} \/ (link[o].st = "open" /\ link[o].late)}
Fresh    == {o \in Makeable : Least(o, Makeable)}

\* connect_all: a printer of the configuration is a member from the start, and
\* is dialled at its stored address in a thread of its own, which start-up
\* waits for only so long.
StartsAsMember ==
    /\ Least(member, Objects) /\ conf \in Addrs /\ wanted = TRUE
    /\ link = [o \in Objects |->
                 IF o = member THEN [st |-> "dial", ip |-> conf, late |-> FALSE] ELSE NotMade]

StartsEmpty ==
    /\ member = None /\ conf = None /\ wanted = FALSE
    /\ link = [o \in Objects |-> NotMade]

Init ==
    /\ member \in Objects \cup {None}
    /\ StartsAsMember \/ StartsEmpty
    /\ gen = 0 /\ adding = None
    /\ flight = None /\ rcount = 0 /\ proved = {}
    /\ rc = [r \in Rcs |-> NoThread]
    /\ ad = [x \in Adders |-> NoThread] /\ rm = NoThread
    /\ home \in Addrs /\ Least(home, Addrs) /\ answers = {home}
    /\ moves = 0 /\ faults = 0

\* disconnect() takes the session the object has at that moment.
Closed(o) == link' = [link EXCEPT ![o].st = IF @ = "dial" THEN "dial" ELSE "closed",
                                  ![o].late = (link[o].st = "dial")]

-----------------------------------------------------------------------------
(* add_printer.                                                            *)

\* Under the lock: a member, or an add under way, makes the call a no-op.
AddBegins(x) ==
    /\ Least(x, {y \in Adders : ad[y].pc = "idle"}) /\ member = None /\ adding = None
    /\ gen < MaxGen
    /\ \E o \in Fresh, a \in Addrs :
         /\ ad' = [ad EXCEPT ![x] = [pc |-> "connect", gen |-> gen + 1, obj |-> o]]
         /\ link' = [link EXCEPT ![o] = [st |-> "made", ip |-> a, late |-> FALSE]]
    /\ gen' = gen + 1 /\ adding' = gen + 1 /\ wanted' = TRUE
    /\ UNCHANGED <<member, conf, rcVars, rm, netVars>>

\* A connect that raises is logged; the printer joins offline.
AddConnects(x) ==
    /\ ad[x].pc = "connect"
    /\ \E ok \in BOOLEAN :
         link' = IF ok THEN [link EXCEPT ![ad[x].obj].st = "open"] ELSE link
    /\ ad' = [ad EXCEPT ![x].pc = "commit"]
    /\ UNCHANGED <<coreVars, rcVars, rm, netVars>>

\* A plausible slip: the add commits unless the serial is already a member.
OwnsAddByMember(x) == member = None

OwnsAdd(x) == adding = ad[x].gen /\ gen = ad[x].gen /\ member = None

AddCommits(x) ==
    /\ ad[x].pc = "commit"
    /\ adding' = IF adding = ad[x].gen THEN None ELSE adding
    /\ IF OwnsAdd(x)
       THEN /\ member' = ad[x].obj /\ conf' = link[ad[x].obj].ip
            /\ ad' = [ad EXCEPT ![x] = NoThread]
       ELSE /\ ad' = [ad EXCEPT ![x].pc = "close"]
            /\ UNCHANGED <<member, conf>>
    /\ UNCHANGED <<gen, wanted, rcVars, rm, netVars, link>>

\* The serial was removed, or added again, while this add was connecting.
AddCloses(x) ==
    /\ ad[x].pc = "close"
    /\ Closed(ad[x].obj)
    /\ ad' = [ad EXCEPT ![x] = NoThread]
    /\ UNCHANGED <<coreVars, rcVars, rm, netVars>>

-----------------------------------------------------------------------------
(* remove_printer.                                                         *)

\* Under the lock the serial stops being a member and every thread that works
\* for it loses its claim.  The worker is stopped outside (UploadPath).
RemoveBegins ==
    /\ rm.pc = "idle"
    /\ member # None \/ adding # None
    /\ rm' = [pc |-> "close", obj |-> member]
    /\ gen' = gen + 1 /\ adding' = None /\ flight' = None
    /\ member' = None /\ conf' = None /\ wanted' = FALSE
    /\ UNCHANGED <<rcount, proved, rc, ad, netVars, link>>

RemoveCloses ==
    /\ rm.pc = "close"
    /\ IF rm.obj = None THEN UNCHANGED link ELSE Closed(rm.obj)
    /\ rm' = NoThread
    /\ UNCHANGED <<coreVars, rcVars, ad, netVars>>

-----------------------------------------------------------------------------
(* propose_address, _schedule_reconnect and _run_reconnect.                *)

\* Without the lock held nothing here can change; the three refusals are one
\* locked section.  A thread that cannot be started gives its slot back.
Propose(r, a) ==
    /\ Least(r, {q \in Rcs : rc[q].pc = "idle"})
    /\ member # None /\ conf # None
    /\ a # link[member].ip /\ a \notin proved
    /\ flight = None /\ rcount < MaxReconnects
    /\ flight' = [gen |-> gen, rc |-> r]
    /\ rcount' = rcount + 1
    /\ rc' = [rc EXCEPT ![r] = [pc |-> "check", gen |-> gen, old |-> member,
                                new |-> None, ip |-> a, swapped |-> FALSE]]
    /\ UNCHANGED <<coreVars, proved, threadVars, netVars, link>>

NotStarted(r) ==
    /\ rc[r].pc = "check" /\ faults < MaxFaults
    /\ flight' = IF flight = [gen |-> rc[r].gen, rc |-> r] THEN None ELSE flight
    /\ rcount' = rcount - 1
    /\ rc' = [rc EXCEPT ![r] = NoThread]
    /\ faults' = faults + 1
    /\ UNCHANGED <<coreVars, proved, threadVars, home,
                   answers, moves, link>>

Owns(r) == gen = rc[r].gen /\ flight = [gen |-> rc[r].gen, rc |-> r]

RcGoto(r, pc) ==
    /\ rc' = [rc EXCEPT ![r].pc = pc]
    /\ UNCHANGED <<coreVars, flight, rcount, threadVars>>

RcChecks(r) ==
    /\ rc[r].pc = "check"
    /\ RcGoto(r, IF member = rc[r].old /\ Owns(r) THEN "probe" ELSE "release")
    /\ UNCHANGED <<proved, link, netVars>>

\* The stored address is kept while its port accepts.
RcProbes(r) ==
    /\ rc[r].pc = "probe"
    /\ RcGoto(r, IF link[rc[r].old].ip \in answers THEN "release" ELSE "gate")
    /\ UNCHANGED <<proved, link, netVars>>

RcGates(r) ==
    /\ rc[r].pc = "gate"
    /\ IF member = rc[r].old /\ Owns(r)
       THEN proved' = proved \cup {rc[r].ip} /\ RcGoto(r, "prove")
       ELSE UNCHANGED proved /\ RcGoto(r, "release")
    /\ UNCHANGED <<link, netVars>>

\* An MQTT session opens there and the printer answers for this serial, or not.
Proves(a) == home = a /\ home \in answers

RcProves(r) ==
    /\ rc[r].pc = "prove"
    /\ RcGoto(r, IF Proves(rc[r].ip) THEN "make" ELSE "release")
    /\ UNCHANGED <<proved, link, netVars>>

\* The replacement is made and connect() runs in a thread of its own.
RcMakes(r) ==
    /\ rc[r].pc = "make"
    /\ \E o \in Fresh :
         /\ link' = [link EXCEPT ![o] = [st |-> "dial", ip |-> rc[r].ip, late |-> FALSE]]
         /\ rc' = [rc EXCEPT ![r].pc = "connect", ![r].new = o]
    /\ UNCHANGED <<coreVars, flight, rcount, proved, threadVars,
                   netVars>>

\* connect() comes back, in time or after everybody stopped waiting: it sets
\* the object's session whatever was done to the object meanwhile.
DialOpens(o) ==
    /\ link[o].st = "dial"
    /\ link' = [link EXCEPT ![o].st = "open"]
    /\ UNCHANGED <<coreVars, rcVars, threadVars, netVars>>

DialFails(o) ==
    /\ link[o].st = "dial"
    /\ link' = [link EXCEPT ![o].st = IF link[o].late THEN "closed" ELSE "made"]
    /\ UNCHANGED <<coreVars, rcVars, threadVars, netVars>>

RcConnected(r) ==
    /\ rc[r].pc = "connect"
    /\ link[rc[r].new].st # "dial"
    /\ RcGoto(r, IF link[rc[r].new].st = "open" THEN "swap" ELSE "release")
    /\ UNCHANGED <<proved, link, netVars>>

\* _connect_timeout passed first.
RcGivesUp(r) ==
    /\ rc[r].pc = "connect" /\ link[rc[r].new].st = "dial" /\ faults < MaxFaults
    /\ RcGoto(r, "release")
    /\ faults' = faults + 1
    /\ UNCHANGED <<proved, link, home, answers, moves>>

MaySwap(r) == Owns(r) /\ member = rc[r].old

RcSwaps(r) ==
    /\ rc[r].pc = "swap"
    /\ IF MaySwap(r)
       THEN /\ member' = rc[r].new /\ conf' = rc[r].ip
            /\ rc' = [rc EXCEPT ![r].pc = "release", ![r].swapped = TRUE]
       ELSE /\ rc' = [rc EXCEPT ![r].pc = "release"]
            /\ UNCHANGED <<member, conf>>
    /\ UNCHANGED <<gen, adding, wanted, flight, rcount, proved, threadVars, netVars, link>>

\* A plausible slip: the slot of a thread whose membership is gone is not returned.
RcReleasesOwn(r) ==
    /\ rc[r].pc = "release"
    /\ flight' = IF flight = [gen |-> rc[r].gen, rc |-> r] THEN None ELSE flight
    /\ rcount' = IF flight = [gen |-> rc[r].gen, rc |-> r] THEN rcount - 1 ELSE rcount
    /\ rc' = [rc EXCEPT ![r].pc = "close"]
    /\ UNCHANGED <<coreVars, proved, threadVars, netVars, link>>

\* A plausible slip: the slot is returned, the claim on the serial is not.
RcReleasesSlot(r) ==
    /\ rc[r].pc = "release"
    /\ rcount' = rcount - 1
    /\ rc' = [rc EXCEPT ![r].pc = "close"]
    /\ UNCHANGED <<coreVars, flight, proved, threadVars, netVars, link>>

\* The finally block: ownership and the slot go first, under the lock.
RcReleases(r) ==
    /\ rc[r].pc = "release"
    /\ flight' = IF flight = [gen |-> rc[r].gen, rc |-> r] THEN None ELSE flight
    /\ rcount' = rcount - 1
    /\ rc' = [rc EXCEPT ![r].pc = "close"]
    /\ UNCHANGED <<coreVars, proved, threadVars, netVars, link>>

\* A plausible slip: only a swap disconnects anything.
RcLoserOfSwap(r) == IF rc[r].swapped THEN rc[r].old ELSE None

\* Then the loser of the swap is disconnected.
RcLoser(r) == IF rc[r].swapped THEN rc[r].old ELSE rc[r].new

RcCloses(r) ==
    /\ rc[r].pc = "close"
    /\ IF RcLoser(r) = None THEN UNCHANGED link ELSE Closed(RcLoser(r))
    /\ rc' = [rc EXCEPT ![r] = NoThread]
    /\ UNCHANGED <<coreVars, flight, rcount, proved, threadVars,
                   netVars>>

RcStep(r) ==
    \/ RcChecks(r) \/ RcProbes(r) \/ RcGates(r) \/ RcProves(r) \/ RcMakes(r)
    \/ RcConnected(r) \/ RcGivesUp(r) \/ RcSwaps(r) \/ RcReleases(r) \/ RcCloses(r) \/ NotStarted(r)

-----------------------------------------------------------------------------
(* The network.                                                            *)

\* The lease moves; the printer may be off, and the old address may be taken
\* over by a machine that answers on the same port.
Moves(a) ==
    /\ moves < MaxMoves /\ a # home
    /\ home' = a /\ answers' \in {{}, {a}, {a, home}} /\ moves' = moves + 1
    /\ UNCHANGED <<coreVars, rcVars, threadVars, faults, link>>

PortsSettle ==
    /\ answers # {home}
    /\ answers' = {home}
    /\ UNCHANGED <<coreVars, rcVars, threadVars, home, moves, faults, link>>

\* _ADDRESS_PROOF_COOLDOWN_SECONDS have passed.
Cooled ==
    /\ proved # {}
    /\ proved' = {}
    /\ UNCHANGED <<coreVars, flight, rcount, rc, threadVars, netVars, link>>

\* The rediscovery pass proposes what a scan, the last report or 3DPF's pin
\* names: the printer's address, or one it had or another machine has now.
Reconciles == \E r \in Rcs, a \in Addrs : Propose(r, a)

Next ==
    \/ \E x \in Adders : AddBegins(x) \/ AddConnects(x) \/ AddCommits(x) \/ AddCloses(x)
    \/ RemoveBegins \/ RemoveCloses
    \/ \E r \in Rcs : RcStep(r)
    \/ Reconciles
    \/ \E o \in Objects : DialOpens(o) \/ DialFails(o)
    \/ Cooled \/ PortsSettle
    \/ \E a \in Addrs : Moves(a)

\* Threads run on; the rediscovery pass keeps proposing what it sees; a connect
\* that is tried again and again succeeds once.
Fairness ==
    /\ \A x \in Adders : WF_vars(AddConnects(x) \/ AddCommits(x) \/ AddCloses(x))
    /\ WF_vars(RemoveCloses)
    /\ \A r \in Rcs : WF_vars(RcStep(r))
    /\ \A o \in Objects : SF_vars(DialOpens(o))
    /\ WF_vars(Cooled)
    /\ SF_vars(\E r \in Rcs : Propose(r, home))

Spec == Init /\ [][Next]_vars
FairSpec == Spec /\ Fairness

-----------------------------------------------------------------------------
Pcs == {"idle", "connect", "commit", "close", "check", "probe", "gate", "prove", "make",
        "swap", "release"}

TypeOK ==
    /\ member \in Objects \cup {None} /\ conf \in Addrs \cup {None}
    /\ gen \in Nat /\ adding \in Nat \cup {None} /\ wanted \in BOOLEAN
    /\ rcount \in Nat /\ proved \subseteq Addrs
    /\ flight = None \/ (flight.gen \in Nat /\ flight.rc \in Rcs)
    /\ \A x \in Adders : ad[x].pc \in Pcs
    /\ rm.pc \in Pcs /\ \A r \in Rcs : rc[r].pc \in Pcs
    /\ link \in [Objects -> [st : LinkStates, ip : Addrs \cup {None}, late : BOOLEAN]]
    /\ home \in Addrs /\ answers \subseteq Addrs

\* A serial is a member only when the last add or remove that took the lock was
\* an add, and then it is one as soon as that add has committed - whatever slow
\* connect of an older add or reconnect finishes meanwhile (fleet.py,
\* add_printer, remove_printer, _run_reconnect).
LastWordWins ==
    /\ member # None => wanted
    /\ wanted /\ adding = None => member # None

\* A session belongs to the member or to a thread that is still going to
\* commit or close it.  The one exception is a connect that outlived the wait
\* for it: nothing closes the session it opens afterwards.
ClosedUnlessHeld ==
    \A o \in Objects : link[o].st = "open" /\ ~link[o].late => Held(o)

\* The live-worker count is the number of threads that have not given their
\* slot back, across memberships, and stays within the limit.
SlotsMatchThreads ==
    /\ rcount = Cardinality({r \in Rcs : rc[r].pc \notin {"idle", "close"}})
    /\ rcount <= MaxReconnects

\* A printer whose address changed is followed there: once the network has
\* settled and the serial stays a member, its session dials the new address.
AddressFollows ==
    <>[](member # None /\ answers = {home})
        => <>[](member # None /\ link[member].ip = home)
============================================================================
