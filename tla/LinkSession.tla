---------------------------- MODULE LinkSession ----------------------------
(***************************************************************************)
(* The MQTT session of one printer (bambu/session.py) and the threads that *)
(* may replace its client: the session's watchdog, the fleet's recovery    *)
(* pass and the send worker.  They meet in hard_reset, which takes the     *)
(* reset lock without waiting for it; the last two are one actor here,     *)
(* "other".  disconnect() takes no such lock.  paho calls back from a      *)
(* thread of the client's own, and _on_connect looks whether it is still   *)
(* the client before it takes the lock, so its effect may land on the next.*)
(*                                                                         *)
(* Time is counted in ticks; a timer that means nothing rests at 0.        *)
(***************************************************************************)
EXTENDS Naturals, FiniteSets

CONSTANTS
    Clients,        \* paho clients, numbered; one that is gone is used again
    Stale,          \* _STALE_AFTER_SECONDS
    HoldMax,        \* _RESET_HOLD_MAX_SECONDS
    Cooldown,       \* _RESET_COOLDOWN_SECONDS
    ConnectTimeout, \* _CONNECT_TIMEOUT_SECONDS
    RedialMin, RedialMax,  \* _REDIAL_MIN_SECONDS, _REDIAL_MAX_SECONDS
    AuthRetry,      \* _AUTH_RETRY_SECONDS
    Backstop,       \* _RECOVERY_SILENCE_SECONDS
    MaxFaults,      \* bound: changes and faults of the network and of paho
    None

\* The watchdog, and the recovery pass or the send worker.
Actors == {"watch", "other"}

ASSUME LinkAssumption ==
    /\ Clients \subseteq Nat /\ None \notin Clients /\ None \notin Actors
    /\ {Stale, HoldMax, Cooldown, ConnectTimeout, RedialMin, RedialMax, AuthRetry,
        Backstop} \subseteq Nat \ {0}
    /\ Stale < HoldMax /\ HoldMax < Backstop /\ RedialMin <= RedialMax
    /\ MaxFaults \in Nat

VARIABLES
    client,     \* _client
    connected,  \* _connected
    ended,      \* _client_ended
    redialIn,   \* ticks to _redial_at
    delay,      \* _redial_delay
    openAge,    \* ticks since _opened_at, up to ConnectTimeout
    err,        \* _last_connect_error
    authIn,     \* ticks to _auth_retry_not_before
    resetAge,   \* ticks since _last_reset_at, up to Cooldown
    silent,     \* silent_for: ticks since the last report or CONNACK, past Backstop at most
    had,        \* _had_session
    stopped,    \* _user_stopped
    rejected,   \* _commands_rejected
    hold,       \* _session_reset_hold: "unpacking", "start" or "none"
    lock,       \* the holder of _reset_lock
    pc,         \* [Actors -> where the thread is in hard_reset]
    quit,       \* disconnect(): "no", "stopping", "done"
    cl,         \* [Clients -> the client as the network has it]
    cb,         \* [Clients -> an _on_connect past its identity check]
    closer,     \* [Clients -> _stop's helper for it: "awaited", or "alone" once _stop left]
    net,        \* how the printer answers
    lost,       \* history: the factory raised in a session that was never connected
    faults

timers  == <<redialIn, delay, openAge, authIn, resetAge, silent>>
flags   == <<client, connected, ended, err, had>>
report  == <<rejected, hold>>
threads == <<lock, pc, stopped, quit>>
clients == <<cl, cb, closer>>
world   == <<net, lost, faults>>
vars    == <<timers, flags, report, threads, clients, world>>

Idle   == [at |-> "idle", why |-> "none"]

\* Sockets the printer may still see: "half" is a session it no longer serves.
Live == {h \in Clients : cl[h] \in {"dial", "up", "half"}}
Free == {h \in Clients : cl[h] = "gone"}
First(h) == h \in Free /\ \A g \in Free : h <= g

Init ==
    /\ \E h \in Clients :
         /\ client = h /\ \A g \in Clients : h <= g
         /\ cl = [c \in Clients |-> IF c = h THEN "dial" ELSE "gone"]
    /\ connected = FALSE /\ ended = FALSE /\ err = "none" /\ had = FALSE
    /\ redialIn = 0 /\ delay = RedialMin /\ openAge = 0 /\ authIn = 0
    /\ resetAge = Cooldown /\ silent = 0
    /\ rejected = FALSE /\ hold = "none"
    /\ lock = None /\ pc = [a \in Actors |-> Idle] /\ stopped = FALSE /\ quit = "no"
    /\ cb = [c \in Clients |-> "none"] /\ closer = [c \in Clients |-> "none"]
    /\ net \in {"good", "off", "auth", "refused"}
    /\ lost = FALSE
    /\ faults = 0

-----------------------------------------------------------------------------
(* Marking a client done.                                                  *)

\* _end_client_locked: the replacement is scheduled once per client.
EndsClient ==
    /\ ended' = TRUE
    /\ redialIn' = IF ended THEN redialIn ELSE delay
    /\ openAge' = 0

\* _stop: the client is let go of, and a helper thread is to disconnect it.
HandsOver(how) ==
    /\ client' = None /\ connected' = FALSE
    /\ closer' = IF client = None THEN closer ELSE [closer EXCEPT ![client] = how]

\* The helper is through: disconnect() and the join of the network thread.
Joined(h) ==
    /\ closer[h] # "none" /\ cb[h] = "none"
    /\ closer' = [closer EXCEPT ![h] = "none"]
    /\ cl' = [cl EXCEPT ![h] = "gone"]
    /\ UNCHANGED <<timers, flags, report, threads, cb, world>>

-----------------------------------------------------------------------------
(* hard_reset.                                                             *)

Asks(a, why) == pc' = [pc EXCEPT ![a] = [at |-> "want", why |-> why]]

\* A redial and the auth retry keep the connect error.
Preserves(a) == pc[a].why \in {"redial", "auth"} /\ err # "none"

\* A caller that finds the lock taken, or the session stopped, goes away.
Turned(a) ==
    /\ pc[a].at = "want"
    /\ stopped \/ lock # None
    /\ pc' = [pc EXCEPT ![a] = Idle]
    /\ UNCHANGED <<timers, flags, report, lock, stopped, quit, clients, world>>

Enters(a) ==
    /\ pc[a].at = "want" /\ ~stopped
    /\ lock' = a
    /\ pc' = [pc EXCEPT ![a].at = "stop"]
    /\ UNCHANGED <<timers, flags, report, stopped, quit, clients, world>>

\* A plausible slip: two resets may be under way at once.
ResetsUnlocked(a) == Enters(a)

Resets(a) == lock = None /\ Enters(a)

Stops(a) ==
    /\ pc[a].at = "stop"
    /\ pc' = [pc EXCEPT ![a].at = "join"]
    /\ HandsOver("awaited")
    /\ UNCHANGED <<timers, ended, err, had, report, lock, stopped, quit, cl, cb, world>>

\* _DISCONNECT_TIMEOUT_SECONDS are over: the helper is left to itself.
GivesUp(a) ==
    /\ pc[a].at = "join" /\ faults < MaxFaults
    /\ faults' = faults + 1
    /\ \E h \in Clients : closer[h] = "awaited" /\ closer' = [closer EXCEPT ![h] = "alone"]
    /\ UNCHANGED <<timers, flags, report, threads, cl, cb, net, lost>>

StopReturns(a) ==
    /\ pc[a].at = "join" /\ \A h \in Clients : closer[h] # "awaited"
    /\ pc' = [pc EXCEPT ![a].at = "open"]
    /\ resetAge' = 0
    /\ err' = IF Preserves(a) THEN err ELSE "none"
    /\ authIn' = IF err' = "auth" THEN authIn ELSE 0
    /\ UNCHANGED <<client, connected, ended, had, redialIn, delay, openAge, silent, report, lock,
                   stopped, quit, clients, world>>

Leaves(a) == lock' = None /\ pc' = [pc EXCEPT ![a] = Idle]

\* _open: a fresh client with an empty queue is attached and dialled.
Opens(a) ==
    /\ pc[a].at = "open"
    /\ \E h \in Clients :
         /\ First(h) /\ client' = h
         /\ cl' = [cl EXCEPT ![h] = "dial"]
    /\ connected' = FALSE /\ ended' = FALSE /\ redialIn' = 0 /\ openAge' = 0
    /\ Leaves(a)
    /\ UNCHANGED <<delay, authIn, resetAge, silent, err, had, report, stopped, quit, cb, closer,
                   world>>

\* A plausible slip: the exception leaves _client_ended down.
OpenRaisesStranded(a) ==
    /\ pc[a].at = "open" /\ faults < MaxFaults
    /\ faults' = faults + 1
    /\ client' = None /\ connected' = FALSE
    /\ ended' = FALSE /\ redialIn' = 0 /\ openAge' = 0
    /\ Leaves(a)
    /\ UNCHANGED <<delay, authIn, resetAge, silent, err, had, report, stopped, quit, clients, net,
                   lost>>

\* connect_async or loop_start raises: the client is ended, so it is redialled.
OpenRaises(a) ==
    /\ pc[a].at = "open" /\ faults < MaxFaults
    /\ faults' = faults + 1
    /\ client' = None /\ connected' = FALSE
    /\ ended' = TRUE /\ redialIn' = delay /\ openAge' = 0
    /\ Leaves(a)
    /\ UNCHANGED <<delay, authIn, resetAge, silent, err, had, report, stopped, quit, clients, net,
                   lost>>

\* The factory itself raises: nothing was attached and nothing is marked.
FactoryRaises(a) ==
    /\ pc[a].at = "open" /\ faults < MaxFaults
    /\ faults' = faults + 1
    /\ lost' = (lost \/ (~had /\ ~ended))
    /\ Leaves(a)
    /\ UNCHANGED <<timers, flags, report, stopped, quit, clients, net>>

-----------------------------------------------------------------------------
(* disconnect().                                                           *)

Disconnect ==
    /\ quit = "no"
    /\ stopped' = TRUE /\ quit' = "stopping"
    /\ UNCHANGED <<timers, flags, report, lock, pc, clients, world>>

DisconnectStops ==
    /\ quit = "stopping"
    /\ quit' = "done"
    /\ HandsOver("alone")
    /\ UNCHANGED <<timers, ended, err, had, report, lock, pc, stopped, cl, cb, world>>

-----------------------------------------------------------------------------
(* paho's callbacks.                                                       *)

\* The broker answers; _on_connect compares the client and is then on its way.
Connack(h, how) ==
    /\ cl[h] = "dial" /\ cb[h] = "none"
    /\ how = IF net = "good" THEN "ok" ELSE net
    /\ how \in {"ok", "auth", "refused"}
    /\ cl' = [cl EXCEPT ![h] = IF how = "ok" THEN "up" ELSE "dead"]
    /\ cb' = [cb EXCEPT ![h] = IF client = h THEN how ELSE "none"]
    /\ UNCHANGED <<timers, flags, report, threads, closer, world>>

ConnectOk(h) ==
    /\ cb[h] = "ok"
    /\ cb' = [cb EXCEPT ![h] = "none"]
    /\ connected' = TRUE /\ err' = "none" /\ had' = TRUE /\ ended' = FALSE
    /\ silent' = 0 /\ authIn' = 0 /\ delay' = RedialMin /\ redialIn' = 0 /\ openAge' = 0
    /\ UNCHANGED <<client, resetAge, report, threads, cl, closer, world>>

ConnectRefused(h) ==
    /\ cb[h] \in {"auth", "refused"}
    /\ cb' = [cb EXCEPT ![h] = "none"]
    /\ connected' = FALSE /\ err' = cb[h]
    /\ EndsClient
    /\ authIn' = IF cb[h] = "auth" THEN AuthRetry ELSE 0
    /\ UNCHANGED <<client, had, delay, resetAge, silent, report, threads, cl, closer, world>>

\* on_disconnect and on_connect_fail look at the client again under the lock.
EndsIfCurrent(h) ==
    /\ cl' = [cl EXCEPT ![h] = "dead"]
    /\ IF client = h
       THEN connected' = FALSE /\ EndsClient
       ELSE UNCHANGED <<connected, ended, redialIn, openAge>>
    /\ UNCHANGED <<client, err, had, delay, authIn, resetAge, silent, report, threads, cb, closer>>

Drops(h) ==
    /\ cl[h] \in {"up", "half"} /\ cb[h] = "none"
    /\ cl[h] = "half" \/ net # "good"
    /\ EndsIfCurrent(h)
    /\ UNCHANGED world

DialFails(h) ==
    /\ cl[h] = "dial" /\ net = "off"
    /\ EndsIfCurrent(h)
    /\ UNCHANGED world

\* paho's thread stops without a word.
DialDies(h) ==
    /\ cl[h] = "dial" /\ faults < MaxFaults
    /\ faults' = faults + 1
    /\ cl' = [cl EXCEPT ![h] = "dead"]
    /\ UNCHANGED <<timers, flags, report, threads, cb, closer, net, lost>>

\* _session_reset_hold after a report: the printer unpacks, or it does not and
\* what is left is a start not old enough.
HoldAfterReport == {"unpacking", IF hold = "unpacking" THEN "none" ELSE hold}

\* A report carries the state and the command fault of the printer.
Reports(h) ==
    /\ cl[h] = "up" /\ cb[h] = "none" /\ net = "good" /\ client = h
    /\ silent' = 0
    /\ hold' \in HoldAfterReport
    /\ rejected' \in BOOLEAN
    /\ UNCHANGED <<redialIn, delay, openAge, authIn, resetAge, flags, threads, clients, world>>

-----------------------------------------------------------------------------
(* start_print and publish.                                                *)

\* The message goes to the client of the moment, whose queue dies with it.
\* Only one that paho accepted stamps _start_published_at.
Publishes ==
    /\ connected /\ client # None /\ hold # "unpacking"
    /\ hold' = IF cl[client] \in {"up", "half"} THEN "start" ELSE hold
    /\ UNCHANGED <<timers, flags, rejected, threads, clients, world>>

-----------------------------------------------------------------------------
(* tick(), one disjunct for each way through it.                           *)

Watching == ~stopped /\ pc["watch"].at = "idle"

ResetAllowed == resetAge >= Cooldown

AuthTick ==
    /\ Watching /\ err = "auth"
    /\ authIn = 0 /\ ResetAllowed
    /\ authIn' = AuthRetry
    /\ Asks("watch", "auth")
    /\ UNCHANGED <<redialIn, delay, openAge, resetAge, silent, flags, report, lock, stopped, quit,
                   clients, world>>

\* A client that was opened and never answered is ended.
UnansweredTick ==
    /\ Watching /\ err # "auth" /\ ~connected
    /\ client # None /\ ~ended /\ openAge >= ConnectTimeout
    /\ EndsClient
    /\ UNCHANGED <<client, connected, err, had, delay, authIn, resetAge, silent, report, threads,
                   clients, world>>

RedialDue == ended /\ redialIn = 0

NextDelay == IF 2 * delay < RedialMax THEN 2 * delay ELSE RedialMax

\* A plausible slip: the redial is looked at before the kind of the refusal.
RedialTickFirst ==
    /\ Watching /\ ~connected /\ RedialDue
    /\ delay' = NextDelay
    /\ Asks("watch", "redial")
    /\ UNCHANGED <<redialIn, openAge, authIn, resetAge, silent, flags, report, lock, stopped, quit,
                   clients, world>>

RedialTick ==
    /\ Watching /\ err # "auth" /\ ~connected /\ RedialDue
    /\ delay' = NextDelay
    /\ Asks("watch", "redial")
    /\ UNCHANGED <<redialIn, openAge, authIn, resetAge, silent, flags, report, lock, stopped, quit,
                   clients, world>>

HoldsReset == hold # "none" /\ silent < HoldMax

\* Silence on a socket that is up; a rejecting printer is left to the backstop.
SilentTick ==
    /\ Watching /\ err # "auth" /\ connected /\ ~rejected
    /\ had /\ silent > Stale
    /\ ~HoldsReset /\ ResetAllowed
    /\ Asks("watch", "silent")
    /\ UNCHANGED <<timers, flags, report, lock, stopped, quit, clients, world>>

WatchTick == AuthTick \/ UnansweredTick \/ RedialTick \/ SilentTick

-----------------------------------------------------------------------------
(* The fleet's recovery pass and the send worker.                          *)

\* A plausible slip: only a session that is connected is recovered.
RecoversUnheld ==
    /\ pc["other"].at = "idle"
    /\ had /\ silent > Backstop /\ connected
    /\ net # "off"
    /\ Asks("other", "silent")
    /\ UNCHANGED <<timers, flags, report, lock, stopped, quit, clients, world>>

\* recover_dead_sessions and _probe_and_rebuild: the port accepts.
Recovers ==
    /\ pc["other"].at = "idle"
    /\ had /\ silent > Backstop
    /\ net # "off"
    /\ Asks("other", "silent")
    /\ UNCHANGED <<timers, flags, report, lock, stopped, quit, clients, world>>

\* The hold of a start ends: phase A is over and the printer was heard of, or
\* _RESET_HOLD_MAX_SECONDS have passed.  The send worker, whose phase A ran
\* out as well, asks for a reset or not (_hard_reset_printer).
StartHoldEnds ==
    /\ hold = "start"
    /\ hold' = "none"
    /\ IF pc["other"].at = "idle" THEN UNCHANGED pc \/ Asks("other", "silent") ELSE UNCHANGED pc
    /\ UNCHANGED <<timers, flags, rejected, lock, stopped, quit, clients, world>>

-----------------------------------------------------------------------------
(* The network and the clock.                                              *)

NetChanges ==
    /\ faults < MaxFaults
    /\ faults' = faults + 1
    /\ \/ net' \in {"good", "off", "auth", "refused"} \ {net} /\ UNCHANGED cl
       \/ \E h \in Clients : cl[h] = "up" /\ cl' = [cl EXCEPT ![h] = "half"] /\ UNCHANGED net
    /\ UNCHANGED <<timers, flags, report, threads, cb, closer, lost>>

Down(n) == IF n = 0 THEN 0 ELSE n - 1
UpTo(n, max) == IF n < max THEN n + 1 ELSE max

TimePasses ==
    /\ redialIn' = Down(redialIn) /\ authIn' = Down(authIn)
    /\ openAge' = IF client # None /\ ~connected /\ ~ended
                  THEN UpTo(openAge, ConnectTimeout) ELSE 0
    /\ resetAge' = UpTo(resetAge, Cooldown)
    /\ silent' = IF had THEN UpTo(silent, Backstop + 1) ELSE 0
    /\ UNCHANGED <<delay, flags, report, threads, clients, world>>

InReset(a) == Turned(a) \/ Resets(a) \/ Stops(a) \/ StopReturns(a) \/ Opens(a)

Next ==
    \/ \E a \in Actors : InReset(a) \/ GivesUp(a) \/ OpenRaises(a) \/ FactoryRaises(a)
    \/ Disconnect \/ DisconnectStops
    \/ \E h \in Clients :
         \/ \E how \in {"ok", "auth", "refused"} : Connack(h, how)
         \/ ConnectOk(h) \/ ConnectRefused(h) \/ Joined(h)
         \/ Drops(h) \/ DialFails(h) \/ DialDies(h) \/ Reports(h)
    \/ Publishes
    \/ WatchTick \/ Recovers \/ StartHoldEnds
    \/ NetChanges \/ TimePasses

Spec == Init /\ [][Next]_vars

\* Threads run on, a helper's join ends with its client's last call, and time
\* passes; a printer that is there answers a dial that is made again and again,
\* and neither the time limit of a dial nor a reset outruns the answer and its
\* callback every time.
FairSpec ==
    /\ Spec
    /\ \A a \in Actors : WF_vars(InReset(a))
    /\ WF_vars(WatchTick) /\ WF_vars(Recovers)
    /\ WF_vars(TimePasses)
    /\ \A h \in Clients :
         /\ SF_vars(Connack(h, "ok") /\ client = h)
         /\ WF_vars(ConnectOk(h) \/ ConnectRefused(h)) /\ WF_vars(Joined(h))
         /\ SF_vars(ConnectOk(h) /\ client = h)

-----------------------------------------------------------------------------
TypeOK ==
    /\ client \in Clients \cup {None} /\ connected \in BOOLEAN /\ ended \in BOOLEAN
    /\ had \in BOOLEAN /\ stopped \in BOOLEAN /\ rejected \in BOOLEAN
    /\ hold \in {"none", "unpacking", "start"}
    /\ redialIn \in 0..RedialMax /\ delay \in RedialMin..RedialMax
    /\ openAge \in 0..ConnectTimeout /\ authIn \in 0..AuthRetry /\ resetAge \in 0..Cooldown
    /\ silent \in 0..(Backstop + 1)
    /\ err \in {"none", "auth", "refused"}
    /\ lock \in Actors \cup {None} /\ quit \in {"no", "stopping", "done"}
    /\ pc \in [Actors -> [at : {"idle", "want", "stop", "join", "open"},
                          why : {"none", "redial", "auth", "silent"}]]
    /\ cl \in [Clients -> {"gone", "dial", "up", "half", "dead"}]
    /\ cb \in [Clients -> {"none", "ok", "auth", "refused"}]
    /\ closer \in [Clients -> {"none", "awaited", "alone"}]

\* Whoever replaces the client, and however often at once, the printer has at
\* most one socket of this session besides those whose helper _stop no longer
\* waits for (hard_reset, _stop, disconnect, _open): no client is dialled
\* while the one before is being waited for, and none is forgotten.
OneSocket == Cardinality({h \in Live : closer[h] # "alone"}) <= 1

\* A session that is not stopped always has a way back: a client under way, a
\* redial that is scheduled, a thread inside hard_reset, or the fleet's
\* recovery pass, which only cares for a printer that has been connected once.
\* The exception is a factory that raises before that.
NeverStranded == stopped \/ client # None \/ ended \/ lock # None \/ had \/ lost

\* After a refused access code the watchdog dials only once _AUTH_RETRY_SECONDS
\* have passed; a printer that is off refuses that way too.
AuthRetryIsSlow ==
    [][pc["watch"].at = "idle" /\ pc'["watch"].at = "want" /\ err = "auth" => authIn = 0]_vars

\* Once the printer stays reachable, a session that is not stopped gets a
\* connected client again and again: after half-open sockets, lost callbacks,
\* clients that could not start, and under any hold.
Reconnects ==
    <>[](net = "good" /\ ~stopped /\ ~lost)
        => []<>(connected /\ client # None /\ cl[client] = "up")
=============================================================================
