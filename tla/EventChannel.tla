---------------------------- MODULE EventChannel -----------------------------
(***************************************************************************)
(* What the outbox promises about lifecycle events (bridge/outbox.py):     *)
(* an event is written to disk before it is sent, and "leaves the disk     *)
(* only when the cloud says it has applied it".                            *)
(*                                                                         *)
(* `owed` holds the events Link would still report: those in memory while  *)
(* it runs, those its next start loads while it does not. `safe` says that *)
(* the two are the same thing, that is, that the file is readable and      *)
(* current. While it is, a restart changes nothing. The one other way for  *)
(* an event to leave unapplied is the limit on their number.               *)
(***************************************************************************)
EXTENDS FiniteSets, Integers

CONSTANTS Message, Capacity

VARIABLES emitted, owed, applied, safe

vars == <<emitted, owed, applied, safe>>

Init ==
    /\ emitted = {}
    /\ owed = {}
    /\ applied = {}
    /\ safe = TRUE

\* One event. Others give way to it only when there is no room.
Emit(m) ==
    /\ m \notin emitted
    /\ emitted' = emitted \cup {m}
    /\ owed' \subseteq owed \cup {m}
    /\ Cardinality(owed) < Capacity => owed' = owed \cup {m}
    /\ safe' \in BOOLEAN
    /\ UNCHANGED applied

\* The cloud applies events it was sent.
Apply ==
    /\ applied \subseteq applied'
    /\ applied' \subseteq emitted
    /\ UNCHANGED <<emitted, owed, safe>>

\* Applied events leave.
Settle ==
    /\ owed' \subseteq owed
    /\ owed \ owed' \subseteq applied
    /\ safe' \in BOOLEAN
    /\ UNCHANGED <<emitted, applied>>

\* The file is damaged, or can no longer be written.
Spoil ==
    /\ safe' = FALSE
    /\ UNCHANGED <<emitted, owed, applied>>

\* A restart on a file that was not current: some events are gone, and some
\* that had left are back.
Lose ==
    /\ ~safe
    /\ owed' \subseteq emitted
    /\ safe' \in BOOLEAN
    /\ UNCHANGED <<emitted, applied>>

Next == (\E m \in Message : Emit(m)) \/ Apply \/ Settle \/ Spoil \/ Lose

Spec == Init /\ [][Next]_vars
=============================================================================
