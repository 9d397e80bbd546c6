-------------------------- MODULE LinkSessionProofs --------------------------
(***************************************************************************)
(* For any clients, any time limits and any number of faults: the printer  *)
(* has at most one socket of a session besides those left to a helper, a   *)
(* session that is not stopped has a way back, and a refused access code   *)
(* is not tried again early.                                               *)
(*                                                                         *)
(* OneSocket counts sockets, so the invariant says which one it may be:    *)
(* the client's, or that of a client handed to a helper (Attached), of     *)
(* which only one is waited for, inside a reset (Awaited).  That a reset   *)
(* opens the next one with no client left needs the lock (InLock), inside  *)
(* which nobody else attaches one once _stop took it (Detached):           *)
(* disconnect() and a second actor may come between its steps.             *)
(***************************************************************************)
EXTENDS LinkSession, FiniteSetTheorems, TLAPS

Inside   == {"stop", "join", "open"}
InLock   == \A a \in Actors : pc[a].at \in Inside <=> lock = a
Detached == \A a \in Actors : pc[a].at \in {"join", "open"} => client = None
Attached == \A h \in Clients :
                cl[h] \in {"dial", "up", "half"} => client = h \/ closer[h] # "none"
Awaited  == \A h \in Clients : closer[h] = "awaited" =>
                /\ \E a \in Actors : pc[a].at = "join"
                /\ \A g \in Clients : closer[g] = "awaited" => g = h

\* disconnect() has raised _user_stopped before it does anything else.
QuitStops == quit # "no" => stopped

SocketInv == InLock /\ Detached /\ Attached /\ Awaited
WayBack   == NeverStranded /\ QuitStops /\ lost \in BOOLEAN

-----------------------------------------------------------------------------
(* Types.                                                                  *)

Reasons == {"none", "redial", "auth", "silent"}
Places  == [at : {"idle", "want", "stop", "join", "open"}, why : Reasons]

FlagsTyped ==
    /\ client \in Clients \cup {None} /\ connected \in BOOLEAN /\ ended \in BOOLEAN
    /\ err \in {"none", "auth", "refused"} /\ had \in BOOLEAN

TimersTyped ==
    /\ redialIn \in 0..RedialMax /\ delay \in RedialMin..RedialMax
    /\ openAge \in 0..ConnectTimeout /\ authIn \in 0..AuthRetry /\ resetAge \in 0..Cooldown
    /\ silent \in 0..(Backstop + 1)

ThreadsTyped ==
    /\ lock \in Actors \cup {None} /\ quit \in {"no", "stopping", "done"}
    /\ stopped \in BOOLEAN /\ pc \in [Actors -> Places]

ReportTyped == rejected \in BOOLEAN /\ hold \in {"none", "unpacking", "start"}

WorldTyped ==
    /\ cl \in [Clients -> {"gone", "dial", "up", "half", "dead"}]
    /\ cb \in [Clients -> {"none", "ok", "auth", "refused"}]
    /\ closer \in [Clients -> {"none", "awaited", "alone"}]

\* TypeOK in five parts: most steps leave most of them alone.
LEMMA TypeSplit ==
    /\ TypeOK <=> FlagsTyped /\ TimersTyped /\ ThreadsTyped /\ ReportTyped /\ WorldTyped
    /\ TypeOK' <=> FlagsTyped' /\ TimersTyped' /\ ThreadsTyped' /\ ReportTyped' /\ WorldTyped'
  BY DEF TypeOK, FlagsTyped, TimersTyped, ThreadsTyped, ReportTyped, WorldTyped, Places, Reasons

LEMMA Numbers ==
    /\ Stale \in Nat /\ HoldMax \in Nat /\ Cooldown \in Nat /\ ConnectTimeout \in Nat
    /\ RedialMin \in Nat /\ RedialMax \in Nat /\ AuthRetry \in Nat /\ Backstop \in Nat
    /\ RedialMin <= RedialMax
  BY LinkAssumption

\* A step keeps the parts it does not touch.
LEMMA Kept ==
    /\ FlagsTyped /\ UNCHANGED flags => FlagsTyped'
    /\ TimersTyped /\ UNCHANGED timers => TimersTyped'
    /\ ThreadsTyped /\ UNCHANGED threads => ThreadsTyped'
    /\ ReportTyped /\ UNCHANGED report => ReportTyped'
    /\ WorldTyped /\ UNCHANGED clients => WorldTyped'
  BY DEF FlagsTyped, TimersTyped, ThreadsTyped, ReportTyped, WorldTyped, flags, timers, threads,
         report, clients

\* _end_client_locked writes an ended flag and two timers.
LEMMA EndsTyped ==
    ASSUME TimersTyped, EndsClient
    PROVE  ended' \in BOOLEAN /\ redialIn' \in 0..RedialMax /\ openAge' \in 0..ConnectTimeout
  BY Numbers DEF TimersTyped, EndsClient

\* A thread enters hard_reset, goes on inside it, or leaves it.
LEMMA PlacesTyped ==
    ASSUME ThreadsTyped, NEW a \in Actors
    PROVE  /\ \A why \in Reasons : Asks(a, why) => pc' \in [Actors -> Places]
           /\ \A at \in Inside : pc' = [pc EXCEPT ![a].at = at] => pc' \in [Actors -> Places]
           /\ pc' = [pc EXCEPT ![a] = Idle] => pc' \in [Actors -> Places]
  BY DEF ThreadsTyped, Asks, Places, Reasons, Idle, Inside

\* _stop hands the client over.
LEMMA HandsOverTyped ==
    ASSUME FlagsTyped, WorldTyped, NEW how \in {"awaited", "alone"}, HandsOver(how)
    PROVE  closer' \in [Clients -> {"none", "awaited", "alone"}]
  BY DEF FlagsTyped, WorldTyped, HandsOver

\* The steps of hard_reset.
LEMMA ResetTyped ==
    ASSUME TypeOK, NEW a \in Actors, InReset(a) \/ GivesUp(a) \/ OpenRaises(a) \/ FactoryRaises(a)
    PROVE  TypeOK'
  <1>0. FlagsTyped /\ TimersTyped /\ ThreadsTyped /\ ReportTyped /\ WorldTyped
    BY TypeSplit
  <1> SUFFICES FlagsTyped' /\ TimersTyped' /\ ThreadsTyped' /\ ReportTyped' /\ WorldTyped'
    BY TypeSplit
  <1>1. CASE Turned(a)
    <2>1. ThreadsTyped'
      BY <1>0, <1>1, PlacesTyped DEF Turned, ThreadsTyped
    <2> QED BY <1>0, <1>1, <2>1, Kept DEF Turned
  <1>2. CASE Resets(a)
    <2>1. ThreadsTyped'
      BY <1>0, <1>2, PlacesTyped DEF Resets, Enters, ThreadsTyped, Inside
    <2> QED BY <1>0, <1>2, <2>1, Kept DEF Resets, Enters
  <1>6. CASE Stops(a)
    <2>1. ThreadsTyped' /\ ReportTyped' /\ TimersTyped'
      BY <1>0, <1>6, PlacesTyped, Kept DEF Stops, ThreadsTyped, Inside
    <2>2. FlagsTyped'
      BY <1>0, <1>6 DEF Stops, HandsOver, FlagsTyped
    <2>3. WorldTyped'
      BY <1>0, <1>6, HandsOverTyped DEF Stops, WorldTyped
    <2> QED BY <2>1, <2>2, <2>3
  <1>7. CASE StopReturns(a)
    <2>1. ThreadsTyped' /\ ReportTyped' /\ WorldTyped'
      BY <1>0, <1>7, PlacesTyped, Kept DEF StopReturns, ThreadsTyped, Inside
    <2>2. FlagsTyped'
      BY <1>0, <1>7 DEF StopReturns, FlagsTyped
    <2>3. TimersTyped'
      BY <1>0, <1>7, Numbers DEF StopReturns, TimersTyped
    <2> QED BY <2>1, <2>2, <2>3
  <1>8. CASE GivesUp(a)
    <2>1. WorldTyped'
      BY <1>0, <1>8 DEF GivesUp, WorldTyped
    <2> QED BY <1>0, <1>8, <2>1, Kept DEF GivesUp
  <1>3. CASE Opens(a)
    <2>1. ThreadsTyped' /\ ReportTyped'
      BY <1>0, <1>3, PlacesTyped, Kept DEF Opens, Leaves, ThreadsTyped
    <2>2. FlagsTyped' /\ TimersTyped' /\ WorldTyped'
      <3>1. PICK h \in Clients : client' = h /\ cl' = [cl EXCEPT ![h] = "dial"]
        BY <1>3 DEF Opens
      <3>2. FlagsTyped'
        BY <1>0, <1>3, <3>1 DEF Opens, FlagsTyped
      <3>3. TimersTyped'
        BY <1>0, <1>3, Numbers DEF Opens, TimersTyped
      <3>4. WorldTyped'
        BY <1>0, <1>3, <3>1 DEF Opens, WorldTyped
      <3> QED BY <3>2, <3>3, <3>4
    <2> QED BY <2>1, <2>2
  <1>4. CASE OpenRaises(a)
    <2>1. ThreadsTyped' /\ ReportTyped' /\ WorldTyped'
      BY <1>0, <1>4, PlacesTyped, Kept DEF OpenRaises, Leaves, ThreadsTyped
    <2>2. FlagsTyped'
      BY <1>0, <1>4 DEF OpenRaises, FlagsTyped
    <2>3. TimersTyped'
      BY <1>0, <1>4, Numbers DEF OpenRaises, TimersTyped
    <2> QED BY <2>1, <2>2, <2>3
  <1>5. CASE FactoryRaises(a)
    <2>1. ThreadsTyped'
      BY <1>0, <1>5, PlacesTyped DEF FactoryRaises, Leaves, ThreadsTyped
    <2> QED BY <1>0, <1>5, <2>1, Kept DEF FactoryRaises
  <1> QED BY <1>1, <1>2, <1>3, <1>4, <1>5, <1>6, <1>7, <1>8 DEF InReset

\* disconnect(), publishes, and the network.
LEMMA OutsideTyped ==
    ASSUME TypeOK, Disconnect \/ DisconnectStops \/ Publishes \/ NetChanges \/ StartHoldEnds
    PROVE  TypeOK'
  <1>0. FlagsTyped /\ TimersTyped /\ ThreadsTyped /\ ReportTyped /\ WorldTyped
    BY TypeSplit
  <1> SUFFICES FlagsTyped' /\ TimersTyped' /\ ThreadsTyped' /\ ReportTyped' /\ WorldTyped'
    BY TypeSplit
  <1>1. CASE Disconnect
    <2>1. ThreadsTyped'
      BY <1>0, <1>1 DEF Disconnect, ThreadsTyped
    <2> QED BY <1>0, <1>1, <2>1, Kept DEF Disconnect
  <1>2. CASE DisconnectStops
    <2>1. ThreadsTyped' /\ FlagsTyped'
      BY <1>0, <1>2 DEF DisconnectStops, HandsOver, ThreadsTyped, FlagsTyped
    <2>2. WorldTyped'
      BY <1>0, <1>2, HandsOverTyped DEF DisconnectStops, WorldTyped
    <2> QED BY <1>0, <1>2, <2>1, <2>2, Kept DEF DisconnectStops
  <1>3. CASE Publishes
    <2>1. ReportTyped'
      BY <1>0, <1>3 DEF Publishes, ReportTyped
    <2> QED BY <1>0, <1>3, <2>1, Kept DEF Publishes
  <1>4. CASE NetChanges
    <2>1. WorldTyped'
      BY <1>0, <1>4 DEF NetChanges, WorldTyped
    <2> QED BY <1>0, <1>4, <2>1, Kept DEF NetChanges
  <1>5. CASE StartHoldEnds
    <2>1. ReportTyped'
      BY <1>0, <1>5 DEF StartHoldEnds, ReportTyped
    <2>2. pc' \in [Actors -> Places]
      <3>1. CASE UNCHANGED pc
        BY <1>0, <3>1 DEF ThreadsTyped
      <3>2. CASE Asks("other", "silent")
        BY <1>0, <3>2, PlacesTyped DEF Actors, Reasons
      <3> QED BY <1>5, <3>1, <3>2 DEF StartHoldEnds
    <2>3. ThreadsTyped'
      BY <1>0, <1>5, <2>2 DEF StartHoldEnds, ThreadsTyped
    <2> QED BY <1>0, <1>5, <2>1, <2>3, Kept DEF StartHoldEnds
  <1> QED BY <1>1, <1>2, <1>3, <1>4, <1>5

\* paho's callbacks.
LEMMA CallbackTyped ==
    ASSUME TypeOK, NEW h \in Clients,
           \/ \E how \in {"ok", "auth", "refused"} : Connack(h, how)
           \/ ConnectOk(h) \/ ConnectRefused(h) \/ Joined(h)
           \/ Drops(h) \/ DialFails(h) \/ DialDies(h) \/ Reports(h)
    PROVE  TypeOK'
  <1>0. FlagsTyped /\ TimersTyped /\ ThreadsTyped /\ ReportTyped /\ WorldTyped
    BY TypeSplit
  <1> SUFFICES FlagsTyped' /\ TimersTyped' /\ ThreadsTyped' /\ ReportTyped' /\ WorldTyped'
    BY TypeSplit
  <1>1. ASSUME NEW how \in {"ok", "auth", "refused"}, Connack(h, how) PROVE
        FlagsTyped' /\ TimersTyped' /\ ThreadsTyped' /\ ReportTyped' /\ WorldTyped'
    <2>1. WorldTyped'
      BY <1>0, <1>1 DEF Connack, WorldTyped
    <2> QED BY <1>0, <1>1, <2>1, Kept DEF Connack
  <1>2. CASE ConnectOk(h)
    <2>1. WorldTyped' /\ FlagsTyped'
      BY <1>0, <1>2 DEF ConnectOk, WorldTyped, FlagsTyped
    <2>2. TimersTyped'
      BY <1>0, <1>2, Numbers DEF ConnectOk, TimersTyped
    <2> QED BY <1>0, <1>2, <2>1, <2>2, Kept DEF ConnectOk
  <1>3. CASE ConnectRefused(h)
    <2>1. WorldTyped' /\ FlagsTyped'
      BY <1>0, <1>3, EndsTyped DEF ConnectRefused, WorldTyped, FlagsTyped
    <2>2. TimersTyped'
      BY <1>0, <1>3, Numbers, EndsTyped DEF ConnectRefused, TimersTyped
    <2> QED BY <1>0, <1>3, <2>1, <2>2, Kept DEF ConnectRefused
  <1>4. CASE Drops(h) \/ DialFails(h)
    <2>0. EndsIfCurrent(h)
      BY <1>4 DEF Drops, DialFails
    <2>1. WorldTyped'
      BY <1>0, <2>0 DEF EndsIfCurrent, WorldTyped
    <2>2. FlagsTyped' /\ TimersTyped'
      BY <1>0, <2>0, EndsTyped DEF EndsIfCurrent, FlagsTyped, TimersTyped
    <2> QED BY <1>0, <2>0, <2>1, <2>2, Kept DEF EndsIfCurrent
  <1>5. CASE DialDies(h)
    <2>1. WorldTyped'
      BY <1>0, <1>5 DEF DialDies, WorldTyped
    <2> QED BY <1>0, <1>5, <2>1, Kept DEF DialDies
  <1>6. CASE Reports(h)
    <2>1. ReportTyped'
      BY <1>0, <1>6 DEF Reports, ReportTyped, HoldAfterReport
    <2>2. TimersTyped'
      BY <1>0, <1>6, Numbers DEF Reports, TimersTyped
    <2> QED BY <1>0, <1>6, <2>1, <2>2, Kept DEF Reports
  <1>7. CASE Joined(h)
    <2>1. WorldTyped'
      BY <1>0, <1>7 DEF Joined, WorldTyped
    <2> QED BY <1>0, <1>7, <2>1, Kept DEF Joined
  <1> QED BY <1>1, <1>2, <1>3, <1>4, <1>5, <1>6, <1>7

\* The watchdog's tick, the recovery pass and the clock.
LEMMA TickTyped ==
    ASSUME TypeOK, WatchTick \/ Recovers \/ TimePasses
    PROVE  TypeOK'
  <1>0. FlagsTyped /\ TimersTyped /\ ThreadsTyped /\ ReportTyped /\ WorldTyped
    BY TypeSplit
  <1> SUFFICES FlagsTyped' /\ TimersTyped' /\ ThreadsTyped' /\ ReportTyped' /\ WorldTyped'
    BY TypeSplit
  <1>1. ASSUME NEW a \in Actors, NEW why \in Reasons, Asks(a, why),
               UNCHANGED <<lock, stopped, quit>>
        PROVE  ThreadsTyped'
    BY <1>0, <1>1, PlacesTyped DEF ThreadsTyped
  <1>2. CASE AuthTick
    <2>1. ThreadsTyped'
      BY <1>1, <1>2 DEF AuthTick, Actors, Reasons
    <2>2. TimersTyped'
      BY <1>0, <1>2, Numbers DEF AuthTick, TimersTyped
    <2> QED BY <1>0, <1>2, <2>1, <2>2, Kept DEF AuthTick
  <1>3. CASE UnansweredTick
    <2>1. FlagsTyped' /\ TimersTyped'
      BY <1>0, <1>3, EndsTyped DEF UnansweredTick, FlagsTyped, TimersTyped
    <2> QED BY <1>0, <1>3, <2>1, Kept DEF UnansweredTick
  <1>4. CASE RedialTick
    <2>1. ThreadsTyped'
      BY <1>1, <1>4 DEF RedialTick, Actors, Reasons
    <2>2. NextDelay \in RedialMin..RedialMax
      BY <1>0, Numbers DEF TimersTyped, NextDelay
    <2>3. TimersTyped'
      BY <1>0, <1>4, <2>2 DEF RedialTick, TimersTyped
    <2> QED BY <1>0, <1>4, <2>1, <2>3, Kept DEF RedialTick
  <1>5. CASE SilentTick
    <2>1. ThreadsTyped'
      BY <1>1, <1>5 DEF SilentTick, Actors, Reasons
    <2> QED BY <1>0, <1>5, <2>1, Kept DEF SilentTick
  <1>6. CASE Recovers
    <2>1. ThreadsTyped'
      BY <1>1, <1>6 DEF Recovers, Actors, Reasons
    <2> QED BY <1>0, <1>6, <2>1, Kept DEF Recovers
  <1>7. CASE TimePasses
    <2>1. /\ Down(redialIn) \in 0..RedialMax /\ Down(authIn) \in 0..AuthRetry
          /\ UpTo(openAge, ConnectTimeout) \in 0..ConnectTimeout
          /\ UpTo(resetAge, Cooldown) \in 0..Cooldown
          /\ UpTo(silent, Backstop + 1) \in 0..(Backstop + 1)
      BY <1>0, Numbers DEF TimersTyped, Down, UpTo
    <2>2. TimersTyped'
      BY <1>0, <1>7, <2>1, Numbers DEF TimePasses, TimersTyped
    <2> QED BY <1>0, <1>7, <2>2, Kept DEF TimePasses
  <1> QED BY <1>2, <1>3, <1>4, <1>5, <1>6, <1>7 DEF WatchTick

LEMMA TypeStep ==
    ASSUME TypeOK, [Next]_vars
    PROVE  TypeOK'
  <1>1. CASE UNCHANGED vars
    BY <1>1 DEF TypeOK, vars, flags, timers, threads, report, clients
  <1> QED BY <1>1, ResetTyped, OutsideTyped, CallbackTyped, TickTyped DEF Next

-----------------------------------------------------------------------------
(* One socket.                                                             *)

\* Inside the lock there is one thread.
LEMMA OneInside ==
    ASSUME InLock, NEW a \in Actors, NEW b \in Actors, pc[a].at \in Inside, pc[b].at \in Inside
    PROVE  a = b
  BY DEF InLock

\* Hence a helper is waited for by the thread in the lock alone.
LEMMA NobodyWaits ==
    ASSUME InLock, Awaited, NEW a \in Actors, pc[a].at \in {"stop", "open"}
    PROVE  \A h \in Clients : closer[h] # "awaited"
  BY OneInside DEF Awaited, Inside

\* A step of hard_reset, from the lock to the next client.
LEMMA SocketReset ==
    ASSUME TypeOK, SocketInv, NEW a \in Actors,
           InReset(a) \/ GivesUp(a) \/ OpenRaises(a) \/ FactoryRaises(a)
    PROVE  SocketInv'
  <1>0. /\ WorldTyped /\ ThreadsTyped /\ FlagsTyped
        /\ a # None /\ None \notin Clients
    BY TypeSplit, LinkAssumption
  <1> USE DEF SocketInv
  <1>1. ASSUME Leaves(a), pc[a].at = "open"
        PROVE  InLock' /\ Detached' /\ \A b \in Actors : pc'[b].at # "join"
    <2>1. \A b \in Actors : b # a => pc[b].at \notin Inside
      BY <1>1, OneInside DEF Inside
    <2>2. /\ lock' = None /\ pc'[a].at = "idle"
          /\ \A b \in Actors : b # a => pc'[b] = pc[b]
      BY <1>0, <1>1 DEF Leaves, ThreadsTyped, Idle
    <2> QED BY <1>0, <2>1, <2>2, LinkAssumption DEF InLock, Detached, Inside
  <1>2. CASE Turned(a)
    <2>1. /\ UNCHANGED <<lock, client, cl, closer>>
          /\ pc[a].at = "want" /\ pc'[a].at = "idle"
          /\ \A b \in Actors : b # a => pc'[b] = pc[b]
      BY <1>0, <1>2 DEF Turned, flags, clients, ThreadsTyped, Idle
    <2> QED BY <2>1 DEF InLock, Detached, Attached, Awaited, Inside
  <1>3. CASE Resets(a)
    <2>1. /\ UNCHANGED <<client, cl, closer>> /\ lock = None /\ lock' = a
          /\ pc[a].at = "want" /\ pc'[a].at = "stop"
          /\ \A b \in Actors : b # a => pc'[b] = pc[b]
      BY <1>0, <1>3 DEF Resets, Enters, flags, clients, ThreadsTyped, Places
    <2> QED BY <2>1, LinkAssumption DEF InLock, Detached, Attached, Awaited, Inside
  <1>4. CASE Stops(a)
    <2>1. /\ lock' = lock /\ cl' = cl /\ client' = None
          /\ pc[a].at = "stop" /\ pc'[a].at = "join"
          /\ \A b \in Actors : b # a => pc'[b] = pc[b]
      BY <1>0, <1>4 DEF Stops, HandsOver, ThreadsTyped, Places
    <2>2. \A h \in Clients : closer'[h] = IF client = h THEN "awaited" ELSE closer[h]
      BY <1>0, <1>4 DEF Stops, HandsOver, WorldTyped, FlagsTyped
    <2>3. InLock' /\ Detached' /\ Attached'
      BY <2>1, <2>2 DEF InLock, Detached, Attached, Inside
    <2>4. Awaited'
      BY <2>1, <2>2, NobodyWaits DEF Awaited
    <2> QED BY <2>3, <2>4
  <1>5. CASE GivesUp(a)
    <2>1. UNCHANGED <<lock, pc, client, cl>>
      BY <1>5 DEF GivesUp, flags, threads
    <2>2. \A h \in Clients : closer'[h] = closer[h] \/ closer'[h] = "alone"
      BY <1>0, <1>5 DEF GivesUp, WorldTyped
    <2> QED BY <2>1, <2>2 DEF InLock, Detached, Attached, Awaited
  <1>6. CASE StopReturns(a)
    <2>1. /\ UNCHANGED <<lock, client, cl, closer>>
          /\ pc[a].at = "join" /\ pc'[a].at = "open"
          /\ \A b \in Actors : b # a => pc'[b] = pc[b]
          /\ \A h \in Clients : closer[h] # "awaited"
      BY <1>0, <1>6 DEF StopReturns, clients, ThreadsTyped, Places
    <2> QED BY <2>1 DEF InLock, Detached, Attached, Awaited, Inside
  <1>7. CASE Opens(a)
    <2>1. InLock' /\ Detached' /\ closer' = closer
      BY <1>1, <1>7 DEF Opens
    <2>2. client = None /\ \A h \in Clients : closer[h] # "awaited"
      BY <1>7, NobodyWaits DEF Opens, Detached
    <2>3. PICK h \in Clients : client' = h /\ cl' = [cl EXCEPT ![h] = "dial"]
      BY <1>7 DEF Opens
    <2>4. Attached'
      BY <1>0, <2>1, <2>2, <2>3 DEF WorldTyped, Attached
    <2> QED BY <2>1, <2>2, <2>4 DEF Awaited
  <1>8. CASE OpenRaises(a) \/ FactoryRaises(a)
    <2>1. InLock' /\ Detached' /\ UNCHANGED <<cl, closer>>
      BY <1>1, <1>8 DEF OpenRaises, FactoryRaises, clients
    <2>2. client = None /\ client' = None /\ \A h \in Clients : closer[h] # "awaited"
      BY <1>8, NobodyWaits DEF OpenRaises, FactoryRaises, Detached, flags
    <2>3. Attached'
      BY <2>1, <2>2 DEF Attached
    <2> QED BY <2>1, <2>2, <2>3 DEF Awaited
  <1> QED BY <1>2, <1>3, <1>4, <1>5, <1>6, <1>7, <1>8 DEF InReset

\* A thread that is not in the lock may ask for it without touching a socket.
LEMMA SocketAsks ==
    ASSUME ThreadsTyped, SocketInv, NEW a \in Actors, NEW why \in Reasons,
           pc[a].at = "idle", Asks(a, why), UNCHANGED <<lock, client, cl, closer>>
    PROVE  SocketInv'
  <1>1. /\ pc'[a].at = "want"
        /\ \A b \in Actors : b # a => pc'[b] = pc[b]
    BY DEF ThreadsTyped, Asks
  <1> QED BY <1>1 DEF SocketInv, InLock, Detached, Attached, Awaited, Inside

\* Every other step closes a socket or changes one that is open.
LEMMA SocketElse ==
    ASSUME WorldTyped, SocketInv, UNCHANGED <<lock, pc, client, closer>>,
           \A h \in Clients : \/ cl'[h] \notin {"dial", "up", "half"}
                              \/ cl[h] \in {"dial", "up", "half"}
    PROVE  SocketInv'
  BY DEF SocketInv, InLock, Detached, Attached, Awaited

LEMMA SocketStep ==
    ASSUME TypeOK, SocketInv, [Next]_vars
    PROVE  SocketInv'
  <1>0. WorldTyped /\ ThreadsTyped /\ FlagsTyped
    BY TypeSplit
  <1>1. CASE Disconnect
    BY <1>0, <1>1, SocketElse DEF Disconnect, flags, clients
  <1>2. CASE DisconnectStops
    <2>1. UNCHANGED <<lock, pc, cl>> /\ client' = None
      BY <1>2 DEF DisconnectStops, HandsOver
    <2>2. \A h \in Clients : closer'[h] = IF client = h THEN "alone" ELSE closer[h]
      BY <1>0, <1>2, LinkAssumption DEF DisconnectStops, HandsOver, WorldTyped, FlagsTyped
    <2> QED BY <2>1, <2>2 DEF SocketInv, InLock, Detached, Attached, Awaited
  <1>3. ASSUME NEW h \in Clients, NEW how \in {"ok", "auth", "refused"}, Connack(h, how)
        PROVE  SocketInv'
    <2>1. UNCHANGED <<lock, pc, client, closer>>
      BY <1>3 DEF Connack, flags, threads, clients
    <2>2. \A g \in Clients : \/ cl'[g] \notin {"dial", "up", "half"}
                             \/ cl[g] \in {"dial", "up", "half"}
      BY <1>0, <1>3 DEF Connack, WorldTyped
    <2> QED BY <1>0, <2>1, <2>2, SocketElse
  <1>4. ASSUME NEW h \in Clients, ConnectOk(h) \/ ConnectRefused(h) \/ Reports(h)
        PROVE  SocketInv'
    BY <1>0, <1>4, SocketElse DEF ConnectOk, ConnectRefused, Reports, flags, threads, clients
  <1>5. ASSUME NEW h \in Clients, Drops(h) \/ DialFails(h) \/ DialDies(h)
        PROVE  SocketInv'
    <2>1. UNCHANGED <<lock, pc, client, closer>> /\ cl' = [cl EXCEPT ![h] = "dead"]
      BY <1>5 DEF Drops, DialFails, DialDies, EndsIfCurrent, flags, threads, clients
    <2>2. \A g \in Clients : \/ cl'[g] \notin {"dial", "up", "half"}
                             \/ cl[g] \in {"dial", "up", "half"}
      BY <1>0, <2>1 DEF WorldTyped
    <2> QED BY <1>0, <2>1, <2>2, SocketElse
  <1>6. CASE Publishes \/ TimePasses \/ UnansweredTick
    BY <1>0, <1>6, SocketElse DEF Publishes, TimePasses, UnansweredTick, flags, threads, clients
  <1>7. CASE AuthTick \/ RedialTick \/ SilentTick
    <2>1. PICK why \in Reasons : Asks("watch", why)
      BY <1>7 DEF AuthTick, RedialTick, SilentTick, Reasons
    <2>2. pc["watch"].at = "idle" /\ UNCHANGED <<lock, client, cl, closer>>
      BY <1>7 DEF AuthTick, RedialTick, SilentTick, Watching, flags, clients
    <2> QED BY <1>0, <2>1, <2>2, SocketAsks DEF Actors
  <1>8. CASE Recovers \/ StartHoldEnds
    <2>1. UNCHANGED <<lock, client, cl, closer>>
      BY <1>8 DEF Recovers, StartHoldEnds, flags, clients
    <2>2. \/ UNCHANGED pc
          \/ pc["other"].at = "idle" /\ Asks("other", "silent")
      BY <1>8 DEF Recovers, StartHoldEnds
    <2>3. CASE UNCHANGED pc
      BY <1>0, <2>1, <2>3, SocketElse
    <2>4. CASE pc["other"].at = "idle" /\ Asks("other", "silent")
      BY <1>0, <2>1, <2>4, SocketAsks DEF Actors, Reasons
    <2> QED BY <2>2, <2>3, <2>4
  <1>9. CASE NetChanges
    <2>1. UNCHANGED <<lock, pc, client, closer>>
      BY <1>9 DEF NetChanges, flags, threads, clients
    <2>2. \A g \in Clients : \/ cl'[g] \notin {"dial", "up", "half"}
                             \/ cl[g] \in {"dial", "up", "half"}
      BY <1>0, <1>9 DEF NetChanges, WorldTyped
    <2> QED BY <1>0, <2>1, <2>2, SocketElse
  <1>10. CASE UNCHANGED vars
    BY <1>0, <1>10, SocketElse DEF vars, flags, threads, clients
  <1>11. ASSUME NEW h \in Clients, Joined(h)
         PROVE  SocketInv'
    <2>1. /\ UNCHANGED <<lock, pc, client>>
          /\ \A g \in Clients : IF g = h THEN cl'[g] = "gone" /\ closer'[g] = "none"
                                         ELSE cl'[g] = cl[g] /\ closer'[g] = closer[g]
      BY <1>0, <1>11 DEF Joined, flags, threads, WorldTyped
    <2> QED BY <2>1 DEF SocketInv, InLock, Detached, Attached, Awaited
  <1> QED BY <1>1, <1>2, <1>3, <1>4, <1>5, <1>6, <1>7, <1>8, <1>9, <1>10, <1>11, SocketReset
          DEF Next, WatchTick

\* The sockets that are counted are those of one client.
LEMMA AttachedIsOne ==
    ASSUME TypeOK, SocketInv
    PROVE  OneSocket
  <1> DEFINE Counted == {h \in Live : closer[h] # "alone"}
  <1>0. WorldTyped /\ None \notin Clients
    BY TypeSplit, LinkAssumption
  <1>1. \A h \in Counted : h \in Clients /\ (client = h \/ closer[h] = "awaited")
    BY <1>0 DEF SocketInv, Attached, Live, WorldTyped
  <1>2. \E x : Counted \subseteq {x}
    <2>1. CASE \E g \in Clients : closer[g] = "awaited"
      <3>1. PICK g \in Clients : closer[g] = "awaited"
        BY <2>1
      <3>2. client = None
        BY <3>1 DEF SocketInv, Awaited, Detached
      <3>3. \A h \in Counted : h = g
        BY <1>0, <1>1, <3>1, <3>2 DEF SocketInv, Awaited
      <3> QED BY <3>3
    <2>2. CASE \A g \in Clients : closer[g] # "awaited"
      BY <1>1, <2>2
    <2> QED BY <2>1, <2>2
  <1>3. PICK x : Counted \subseteq {x}
    BY <1>2
  <1> HIDE DEF Counted
  <1>4. IsFiniteSet({x}) /\ Cardinality({x}) = 1
    BY FS_Singleton
  <1>5. Cardinality(Counted) <= Cardinality({x}) /\ Cardinality(Counted) \in Nat
    BY <1>3, <1>4, FS_Subset, FS_CardinalityType
  <1> QED BY <1>4, <1>5 DEF OneSocket, Counted

-----------------------------------------------------------------------------
(* A way back.                                                             *)

\* What keeps a way back: nothing it rests on is taken away.
LEMMA WayKept ==
    ASSUME WayBack, UNCHANGED <<client, lock, quit, stopped, lost>>,
           ended => ended', had => had'
    PROVE  WayBack'
  BY DEF WayBack, NeverStranded, QuitStops

LEMMA WayReset ==
    ASSUME TypeOK, SocketInv, WayBack, NEW a \in Actors,
           InReset(a) \/ GivesUp(a) \/ OpenRaises(a) \/ FactoryRaises(a)
    PROVE  WayBack'
  <1>0. a # None /\ FlagsTyped
    BY TypeSplit, LinkAssumption
  <1>1. CASE Turned(a)
    BY <1>1, WayKept DEF Turned, flags, world
  <1>2. CASE Resets(a)
    BY <1>0, <1>2 DEF Resets, Enters, WayBack, NeverStranded, QuitStops, flags, world
  <1>6. CASE Stops(a) \/ StopReturns(a) \/ GivesUp(a)
    <2>1. lock # None
      BY <1>0, <1>6 DEF Stops, StopReturns, GivesUp, SocketInv, InLock, Inside
    <2>2. UNCHANGED <<lock, quit, stopped, lost>>
      BY <1>6 DEF Stops, StopReturns, GivesUp, threads, world
    <2> QED BY <2>1, <2>2 DEF WayBack, NeverStranded, QuitStops
  <1>3. CASE Opens(a)
    <2>1. client' # None /\ UNCHANGED <<quit, stopped, lost>>
      BY <1>3, LinkAssumption DEF Opens, world
    <2> QED BY <2>1 DEF WayBack, NeverStranded, QuitStops
  <1>4. CASE OpenRaises(a)
    BY <1>4 DEF OpenRaises, WayBack, NeverStranded, QuitStops
  <1>5. CASE FactoryRaises(a)
    <2>1. had' \/ ended' \/ lost'
      BY <1>5 DEF FactoryRaises, flags
    <2>2. lost' \in BOOLEAN /\ UNCHANGED <<quit, stopped>>
      BY <1>5 DEF FactoryRaises
    <2> QED BY <2>1, <2>2 DEF WayBack, NeverStranded, QuitStops
  <1> QED BY <1>1, <1>2, <1>3, <1>4, <1>5, <1>6 DEF InReset

LEMMA WayStep ==
    ASSUME TypeOK, SocketInv, WayBack, [Next]_vars
    PROVE  WayBack'
  <1>1. CASE Disconnect
    BY <1>1 DEF Disconnect, WayBack, NeverStranded, QuitStops, world
  <1>2. CASE DisconnectStops
    BY <1>2 DEF DisconnectStops, WayBack, NeverStranded, QuitStops, world
  <1>3. ASSUME NEW h \in Clients, NEW how \in {"ok", "auth", "refused"}, Connack(h, how)
        PROVE  WayBack'
    BY <1>3, WayKept DEF Connack, flags, threads, world
  <1>4. ASSUME NEW h \in Clients, ConnectOk(h)
        PROVE  WayBack'
    BY <1>4 DEF ConnectOk, WayBack, NeverStranded, QuitStops, threads, world
  <1>5. ASSUME NEW h \in Clients, ConnectRefused(h) \/ Reports(h) \/ DialDies(h) \/ Joined(h)
        PROVE  WayBack'
    BY <1>5, WayKept DEF ConnectRefused, Reports, DialDies, Joined, EndsClient, flags, threads,
                         world
  <1>6. ASSUME NEW h \in Clients, Drops(h) \/ DialFails(h)
        PROVE  WayBack'
    <2>1. EndsIfCurrent(h) /\ UNCHANGED lost
      BY <1>6 DEF Drops, DialFails, world
    <2>2. (ended => ended') /\ (had => had') /\ UNCHANGED <<client, lock, quit, stopped>>
      BY <2>1 DEF EndsIfCurrent, EndsClient, threads
    <2> QED BY <2>1, <2>2, WayKept
  <1>7. CASE Publishes \/ TimePasses \/ NetChanges
    BY <1>7, WayKept DEF Publishes, TimePasses, NetChanges, flags, threads, world
  <1>8. CASE WatchTick
    BY <1>8, WayKept DEF WatchTick, AuthTick, UnansweredTick, RedialTick, SilentTick, EndsClient,
       flags, threads, world
  <1>9. CASE Recovers \/ StartHoldEnds
    BY <1>9, WayKept DEF Recovers, StartHoldEnds, flags, world
  <1>10. CASE UNCHANGED vars
    BY <1>10, WayKept DEF vars, flags, threads, world
  <1> QED BY <1>1, <1>2, <1>3, <1>4, <1>5, <1>6, <1>7, <1>8, <1>9, <1>10, WayReset DEF Next

-----------------------------------------------------------------------------
(* The slow retry.                                                         *)

\* Only the tick that has waited asks for a reset after a refused code.
LEMMA SlowStep ==
    ASSUME TypeOK, Next, pc["watch"].at = "idle", pc'["watch"].at = "want", err = "auth"
    PROVE  authIn = 0
  <1>0. ThreadsTyped
    BY TypeSplit
  <1>1. UNCHANGED pc => FALSE
    OBVIOUS
  <1>2. ASSUME NEW a \in Actors, InReset(a) \/ GivesUp(a) \/ OpenRaises(a) \/ FactoryRaises(a)
        PROVE  FALSE
    <2>1. \/ UNCHANGED pc
          \/ pc' = [pc EXCEPT ![a] = Idle]
          \/ \E at \in Inside : pc' = [pc EXCEPT ![a].at = at]
      BY <1>2 DEF InReset, Turned, Resets, Enters, Stops, StopReturns, GivesUp, Opens, OpenRaises,
                  FactoryRaises, Leaves, threads, Inside
    <2> QED BY <1>0, <1>1, <2>1 DEF ThreadsTyped, Places, Idle, Actors, Inside
  <1>3. CASE Recovers \/ StartHoldEnds
    <2>1. UNCHANGED pc \/ Asks("other", "silent")
      BY <1>3 DEF Recovers, StartHoldEnds
    <2> QED BY <1>0, <2>1 DEF Asks, ThreadsTyped, Actors
  <1>4. CASE WatchTick
    BY <1>1, <1>4 DEF WatchTick, AuthTick, UnansweredTick, RedialTick, SilentTick, threads
  <1>5. CASE Disconnect \/ DisconnectStops \/ Publishes \/ TimePasses \/ NetChanges
    BY <1>1, <1>5 DEF Disconnect, DisconnectStops, Publishes, TimePasses, NetChanges, threads
  <1>6. ASSUME NEW h \in Clients,
               \/ \E how \in {"ok", "auth", "refused"} : Connack(h, how)
               \/ ConnectOk(h) \/ ConnectRefused(h) \/ Joined(h)
               \/ Drops(h) \/ DialFails(h) \/ DialDies(h) \/ Reports(h)
        PROVE  FALSE
    BY <1>1, <1>6 DEF Connack, ConnectOk, ConnectRefused, Drops, DialFails, EndsIfCurrent, DialDies,
       Reports, Joined, threads
  <1> QED BY <1>2, <1>3, <1>4, <1>5, <1>6 DEF Next

-----------------------------------------------------------------------------
(* The theorems.                                                           *)

LEMMA InitInv == Init => TypeOK /\ SocketInv /\ WayBack
  <1> SUFFICES ASSUME Init PROVE TypeOK /\ SocketInv /\ WayBack
    OBVIOUS
  <1>1. PICK h \in Clients : client = h /\ cl = [c \in Clients |-> IF c = h THEN "dial" ELSE "gone"]
    BY DEF Init
  <1>2. FlagsTyped /\ ThreadsTyped /\ ReportTyped
    BY <1>1 DEF Init, FlagsTyped, ThreadsTyped, ReportTyped, Places, Reasons, Idle
  <1>3. TimersTyped
    BY Numbers DEF Init, TimersTyped
  <1>4. WorldTyped
    BY <1>1 DEF Init, WorldTyped
  <1>5. SocketInv
    BY <1>1, LinkAssumption DEF Init, SocketInv, InLock, Detached, Attached, Awaited, Idle, Inside
  <1>6. WayBack
    BY <1>1, LinkAssumption DEF Init, WayBack, NeverStranded, QuitStops
  <1> QED BY <1>2, <1>3, <1>4, <1>5, <1>6, TypeSplit

LEMMA Invariant == Spec => [](TypeOK /\ SocketInv /\ WayBack)
  <1>1. TypeOK /\ SocketInv /\ WayBack /\ [Next]_vars => (TypeOK /\ SocketInv /\ WayBack)'
    BY TypeStep, SocketStep, WayStep
  <1> QED BY <1>1, InitInv, PTL DEF Spec

\* The session's fields and timers keep their types and bounds.
THEOREM TypeCorrect == Spec => []TypeOK
  BY Invariant, PTL

\* Whoever replaces the client, and however often at once, the printer has at
\* most one socket of this session besides those of clients whose helper _stop
\* no longer waits for.
THEOREM OneAtATime == Spec => []OneSocket
  <1>1. TypeOK /\ SocketInv /\ WayBack => OneSocket
    BY AttachedIsOne
  <1> QED BY <1>1, Invariant, PTL

\* A session that is not stopped always has a way back.
THEOREM AlwaysAWayBack == Spec => []NeverStranded
  <1>1. TypeOK /\ SocketInv /\ WayBack => NeverStranded
    BY DEF WayBack
  <1> QED BY <1>1, Invariant, PTL

\* After a refused access code the watchdog waits before it dials.
THEOREM SlowRetry == Spec => AuthRetryIsSlow
  <1>1. TypeOK /\ SocketInv /\ WayBack /\ [Next]_vars
          => [pc["watch"].at = "idle" /\ pc'["watch"].at = "want" /\ err = "auth"
                => authIn = 0]_vars
    BY SlowStep
  <1> QED BY <1>1, Invariant, PTL DEF Spec, AuthRetryIsSlow

=============================================================================
