---------------------------- MODULE ControlOnce ----------------------------
(* A click on the website, from 3DPF's mailbox to the printer and back.     *)
(*                                                                          *)
(* One control id can reach Link twice: the command channel's long poll     *)
(* hands it over (CommandChannel), and the desired state carries it in a    *)
(* row (_handle_desired).  Both threads go through _apply_control, which    *)
(* publishes the command's MQTT messages one by one under _CONTROL_LOCK,    *)
(* then remembers the id in memory and in a marker file.  The channel acks  *)
(* what came of it; the paho thread matches the printer's own answer to the *)
(* id (ReplyBook) and a third thread posts it.                              *)
(*                                                                          *)
(* The channel's pause after a round that left a command waiting is as long *)
(* as retry_seconds, and a round lists an id once, so the per-id retry      *)
(* clock of _handle holds nothing back and is not a variable.  A command    *)
(* handed to the printer's worker (refresh, collect_log, diagnose) is one   *)
(* message here, taken when the queue takes it.                             *)
EXTENDS Naturals, Sequences, FiniteSets

CONSTANTS
    Ids,        \* control ids: the buttons pressed on the website
    Messages,   \* [Ids -> Nat \ {0}]: MQTT messages of the command
    Refusable,  \* commands Link may refuse on purpose: out of range, UI-only, or
                \* not allowed in the printer's state (objects skipped at rest)
    Persists,   \* commands whose later messages go out after a refused one
    Clearing,   \* stops: the printer's assignment is dropped once they are published
    Stamped,    \* commands sent with sequence_id "0", which the book replaces
    MaxFaults,  \* lost calls, crashes, write errors of a behaviour
    MaxOutages, \* times the link to the printer goes down in a behaviour
    None

Threads == {"loop", "chan"}    \* the report loop and the command channel
Receipts == {"published", "applied", "rejected", "failed"}

ASSUME ControlAssumption ==
    /\ Messages \in [Ids -> Nat \ {0}]
    /\ Refusable \subseteq Ids /\ Persists \subseteq Ids /\ Stamped \subseteq Ids
    /\ Clearing \subseteq Ids \ Refusable
    /\ MaxFaults \in Nat /\ MaxOutages \in Nat
    /\ None \notin Ids \cup Threads

VARIABLES
    receipt,    \* [Ids -> SUBSET Receipts]: the acks 3DPF got
    expired,    \* ids past their deadline
    todo,       \* ids of the channel's current round, not handled yet
    th,         \* [Threads -> what the thread is doing]
    lock,       \* the thread in _CONTROL_LOCK, or None
    applied,    \* applied_controls: the ids remembered in memory
    marker,     \* the ids with a control-<id>.applied file
    up,         \* the session, or the worker's queue, takes a message now
    book,       \* ids with a stamped message whose reply is waited for
    replyQ,     \* _reply_acks: <<id, state>> waiting to be posted
    sent,       \* history: [Ids -> messages the printer was given; 0: refused on
                \* purpose]
    full,       \* history: [Ids -> complete publishes, 2 stands for more]
    torn,       \* history: ids that ran but whose marker a crash forestalled
    unclear,    \* history: stops that ran, and whose assignment could not be dropped
    faults, outages
vars == <<receipt, expired, todo, th, lock, applied, marker, up,
          book, replyQ, sent, full, torn, unclear, faults, outages>>
cloud == <<receipt, expired>>
link == <<up, outages>>
memory == <<lock, applied, marker>>
replies == <<book, replyQ>>
history == <<sent, full, torn, unclear>>

Idle == [at |-> "idle", id |-> None, left |-> 0, ok |-> TRUE, out |-> "none"]
Outcomes == {"none", "published", "already", "unknown"}
States == [at : {"idle", "want", "send", "mark", "ack"}, id : Ids \cup {None},
           left : Nat, ok : BOOLEAN, out : Outcomes]

TypeOK ==
    /\ expired \subseteq Ids /\ todo \subseteq Ids
    /\ receipt \in [Ids -> SUBSET Receipts]
    /\ th \in [Threads -> States]
    /\ lock \in Threads \cup {None}
    /\ applied \subseteq Ids /\ marker \subseteq Ids
    /\ torn \subseteq Ids /\ unclear \subseteq Ids
    /\ up \in BOOLEAN /\ faults \in 0..MaxFaults /\ outages \in 0..MaxOutages
    /\ book \subseteq Ids
    /\ replyQ \in Seq(Ids \X {"applied", "rejected"})
    /\ sent \in [Ids -> SUBSET Nat] /\ full \in [Ids -> 0..2]

Init ==
    /\ expired = {} /\ todo = {}
    /\ receipt = [id \in Ids |-> {}]
    /\ th = [t \in Threads |-> Idle]
    /\ lock = None /\ applied = {} /\ marker = {}
    /\ up = TRUE /\ book = {} /\ replyQ = <<>>
    /\ sent = [id \in Ids |-> {}] /\ full = [id \in Ids |-> 0] /\ torn = {} /\ unclear = {}
    /\ faults = 0 /\ outages = 0

Fault == faults < MaxFaults /\ faults' = faults + 1
NoFault == UNCHANGED faults

(***************************************************************************)
(* The cloud.                                                              *)
(***************************************************************************)
\* expires_in_ms runs out, at 3DPF and on Link's own clock.
Expires(id) ==
    /\ id \notin expired
    /\ expired' = expired \cup {id}
    /\ UNCHANGED <<receipt, todo, th, memory, link, replies, history, faults>>

\* Commands the cloud still hands to a wait: nothing settled them.
Open == {id \in Ids \ expired : receipt[id] = {}}

(***************************************************************************)
(* The command channel takes commands.                                     *)
(***************************************************************************)
\* run_once: the long poll returns the commands that are open now.
Waits ==
    /\ th["chan"].at = "idle" /\ todo = {} /\ Open # {}
    /\ todo' = Open
    /\ UNCHANGED <<cloud, th, memory, link, replies, history, faults>>

\* 3DPF gets the ack, or the POST fails and _ack only logs it.
Acked(id, state) ==
    \/ receipt' = [receipt EXCEPT ![id] = @ \cup {state}] /\ NoFault
    \/ UNCHANGED receipt /\ Fault

\* _handle: a command past its deadline is answered, not run.
Handles(id) ==
    /\ th["chan"].at = "idle" /\ id \in todo
    /\ todo' = todo \ {id}
    /\ IF id \in expired
       THEN Acked(id, "failed") /\ UNCHANGED th
       ELSE /\ th' = [th EXCEPT !["chan"] = [@ EXCEPT !.at = "want", !.id = id]]
            /\ UNCHANGED receipt /\ NoFault
    /\ UNCHANGED <<expired, memory, link, replies, history>>

(***************************************************************************)
(* _apply_control_locked.                                                  *)
(***************************************************************************)
\* The thread gets the lock with an id: the channel with the command it waits
\* to run, the loop with any row's, perhaps once more.  The loop knows no
\* deadline, and while it waits for the lock it holds nothing.
Enters(t, id) ==
    /\ lock = None
    /\ \/ t = "chan" /\ th[t].at = "want" /\ th[t].id = id
       \/ t = "loop" /\ th[t].at = "idle"

\* The thread leaves _apply_control.  Only the channel has a receipt to post.
Leaves(t, id, out) ==
    th' = [th EXCEPT ![t] =
             IF t = "loop" THEN Idle
             ELSE [Idle EXCEPT !.at = "ack", !.id = id, !.out = out]]

\* A plausible slip: the marker file is written but never looked for.
RememberedInMemory(id) == id \in applied

Remembered(id) == id \in applied \cup marker

\* A plausible slip: an id the other thread published gets no outcome, so the
\* channel leaves it to the next wait.
FindsAppliedMute(t, id) ==
    /\ Enters(t, id) /\ Remembered(id)
    /\ applied' = applied \cup {id}
    /\ th' = [th EXCEPT ![t] = Idle]
    /\ UNCHANGED <<cloud, todo, lock, marker, link, replies, history, faults>>

\* The id is already applied.  The marker of an earlier process counts.
FindsApplied(t, id) ==
    /\ Enters(t, id) /\ Remembered(id)
    /\ applied' = applied \cup {id}
    /\ Leaves(t, id, "already")
    /\ UNCHANGED <<cloud, todo, lock, marker, link, replies, history, faults>>

\* The printer is not in the fleet.
FindsNoPrinter(t, id) ==
    /\ Enters(t, id) /\ ~Remembered(id)
    /\ Fault
    /\ Leaves(t, id, "unknown")
    /\ UNCHANGED <<cloud, todo, memory, link, replies, history>>

Starts(t, id) ==
    /\ Enters(t, id) /\ ~Remembered(id)
    /\ lock' = t
    /\ th' = [th EXCEPT ![t] = [Idle EXCEPT !.at = "send", !.id = id, !.left = Messages[id]]]
    /\ UNCHANGED <<cloud, todo, applied, marker, link, replies, history, faults>>

\* handle_control refuses on purpose, and returns True: the id is consumed.
Consumes(t) ==
    /\ th[t].at = "send" /\ th[t].left = Messages[th[t].id]
    /\ th[t].id \in Refusable
    /\ th' = [th EXCEPT ![t].at = "mark"]
    /\ sent' = [sent EXCEPT ![th[t].id] = @ \cup {0}]
    /\ UNCHANGED <<cloud, todo, memory, link, replies, full, torn, unclear, faults>>

\* The session takes the message, or the worker's queue takes the job (refresh,
\* collect_log, diagnose): either counts, before it has run.
Takes == up

\* Messages left after this one.  A light or a list of lines goes on after a
\* refusal, a setting with a closing pushall stops.
LeftAfter(t) == IF Takes \/ th[t].id \in Persists THEN th[t].left - 1 ELSE 0

\* A plausible slip: the refusal of the last message is not looked at.
CountsUnread(t) == th[t].ok

\* Whether the command counts as published after this message.
Counts(t) == th[t].ok /\ Takes

\* A message inside reply_watch (the channel's) is stamped and entered in the
\* book, which drops entries past their time.  The entry of a message nobody
\* took can get no reply and is left out.
Books(t) ==
    IF t = "chan" /\ th[t].id \in Stamped
    THEN \E kept \in SUBSET book : book' = kept \cup (IF Takes THEN {th[t].id} ELSE {})
    ELSE UNCHANGED book

\* _publish_command: the message is entered in the book, then published.
Publishes(t) ==
    LET id == th[t].id IN
    /\ th[t].at = "send"
    /\ sent' = IF Takes THEN [sent EXCEPT ![id] = @ \cup {Messages[id] - th[t].left + 1}]
                        ELSE sent
    /\ Books(t)

SendsOne(t) ==
    /\ Publishes(t) /\ LeftAfter(t) > 0
    /\ th' = [th EXCEPT ![t] = [@ EXCEPT !.left = LeftAfter(t), !.ok = Counts(t)]]
    /\ UNCHANGED <<cloud, todo, memory, link, replyQ, full, torn, unclear, faults>>

\* The last message, and all were taken; nothing is remembered yet.
SendsLast(t) ==
    /\ Publishes(t) /\ LeftAfter(t) = 0 /\ Counts(t)
    /\ th' = [th EXCEPT ![t].at = "mark"]
    /\ full' = [full EXCEPT ![th[t].id] = IF @ < 2 THEN @ + 1 ELSE @]
    /\ UNCHANGED <<cloud, todo, memory, link, replyQ, torn, unclear, faults>>

\* A message was refused: the id is left unmarked, for the next pass or wait.
GivesUp(t) ==
    /\ Publishes(t) /\ LeftAfter(t) = 0 /\ ~Counts(t)
    /\ th' = [th EXCEPT ![t] = Idle]
    /\ lock' = None
    /\ UNCHANGED <<cloud, todo, applied, marker, link, replyQ, full, torn, unclear, faults>>

\* clear_assignment cannot write assignments.json after the stop went out: the
\* exception passes by the id's being remembered, and both callers only log it.
ClearFails(t) ==
    /\ th[t].at = "mark" /\ th[t].id \in Clearing
    /\ Fault
    /\ unclear' = unclear \cup {th[t].id}
    /\ th' = [th EXCEPT ![t] = Idle]
    /\ lock' = None
    /\ UNCHANGED <<cloud, todo, applied, marker, link, replies, sent, full, torn>>

\* The id is remembered.  An OSError of the marker file is swallowed.
Marks(t) ==
    /\ th[t].at = "mark"
    /\ applied' = applied \cup {th[t].id}
    /\ \/ marker' = marker \cup {th[t].id} /\ NoFault
       \/ UNCHANGED marker /\ Fault
    /\ lock' = None
    /\ Leaves(t, th[t].id, "published")
    /\ UNCHANGED <<cloud, todo, link, replies, history>>

(***************************************************************************)
(* Receipts.                                                               *)
(***************************************************************************)
\* What _handle acks an outcome with; a printer that reports it refuses every
\* command (LAN-only, no developer mode) makes a published one "rejected".
Answers(out) ==
    CASE out = "published" -> {"published", "rejected"}
      [] out = "already"   -> {"published"}
      [] out = "unknown"   -> {"failed"}

Acks ==
    /\ th["chan"].at = "ack"
    /\ \E state \in Answers(th["chan"].out) : Acked(th["chan"].id, state)
    /\ th' = [th EXCEPT !["chan"] = Idle]
    /\ UNCHANGED <<expired, todo, memory, link, replies, history>>

\* resolve: the first reply settles the id and takes all its entries out of the
\* book, so a reply to its other messages finds none.
PrinterReplies(id, state) ==
    /\ id \in book
    /\ book' = book \ {id}
    /\ replyQ' = Append(replyQ, <<id, state>>)
    /\ UNCHANGED <<cloud, todo, th, memory, link, history, faults>>

\* drain_replies: a POST that fails is not repeated.
ReplyPosts ==
    /\ replyQ # <<>>
    /\ Acked(Head(replyQ)[1], Head(replyQ)[2])
    /\ replyQ' = Tail(replyQ)
    /\ UNCHANGED <<expired, todo, th, memory, link, book, history>>

(***************************************************************************)
(* The link to the printer, and the process.                               *)
(***************************************************************************)
GoesDown ==
    /\ up /\ outages < MaxOutages
    /\ up' = FALSE /\ outages' = outages + 1
    /\ UNCHANGED <<cloud, todo, th, memory, replies, history, faults>>

ComesUp ==
    /\ ~up
    /\ up' = TRUE
    /\ UNCHANGED <<cloud, todo, th, memory, replies, history, faults, outages>>

Crash ==
    /\ Fault
    /\ torn' = torn \cup (applied \ marker)
                    \cup {th[t].id : t \in {u \in Threads : th[u].at = "mark"}}
    /\ th' = [t \in Threads |-> Idle]
    /\ todo' = {} /\ lock' = None /\ applied' = {}
    /\ book' = {} /\ replyQ' = <<>>
    /\ UNCHANGED <<cloud, marker, link, sent, full, unclear>>

Apply(t) ==
    \/ \E id \in Ids : FindsApplied(t, id) \/ FindsNoPrinter(t, id) \/ Starts(t, id)
    \/ Consumes(t) \/ SendsOne(t) \/ SendsLast(t) \/ GivesUp(t) \/ ClearFails(t) \/ Marks(t)

Next ==
    \/ \E id \in Ids : Expires(id) \/ Handles(id)
    \/ Waits \/ Acks \/ ReplyPosts
    \/ \E t \in Threads : Apply(t)
    \/ \E id \in Ids, state \in {"applied", "rejected"} : PrinterReplies(id, state)
    \/ GoesDown \/ ComesUp \/ Crash

Spec == Init /\ [][Next]_vars

\* Both threads keep running; the lock is free between any two passes of the
\* loop, seconds apart, so a channel that waits for it gets it in the end.
FairSpec ==
    /\ Spec
    /\ WF_vars(Waits) /\ WF_vars(Acks) /\ WF_vars(ReplyPosts)
    /\ \A id \in Ids : WF_vars(Handles(id))
    /\ \A t \in Threads : WF_vars(SendsOne(t) \/ SendsLast(t) \/ GivesUp(t) \/ Marks(t))
    /\ \A id \in Ids : SF_vars(FindsApplied("chan", id) \/ Starts("chan", id))

(***************************************************************************)
(* Properties.                                                             *)
(***************************************************************************)
\* A control id that came by long poll, by the report loop or by both, before
\* and after a restart, is published to the end once.  Two things let it run
\* again: a crash before its marker file was written, and, for a stop, an
\* assignment that could not be dropped (_apply_control_locked).
PublishedOnce == \A id \in Ids : full[id] <= 1 \/ id \in torn \cup unclear

\* A receipt says what happened: "published" only when the printer was given
\* every message of the command or Link refused it on purpose, and an answer of
\* the printer's (or the refusal of a LAN-only printer) only for a command of
\* which something was sent (_handle, resolve).
ReceiptIsTrue ==
    \A id \in Ids :
        /\ "published" \in receipt[id] => 0 \in sent[id] \/ sent[id] = 1..Messages[id]
        /\ receipt[id] \cap {"applied", "rejected"} # {} => sent[id] # {}

\* Once the link to the printer holds, every command the cloud offers gets a
\* receipt or runs out of time: whichever thread published it, after lost acks,
\* refusals and crashes (run_once, _handle).  A settled command stays settled, so
\* "again and again" is "in the end".
CommandSettles == <>[]up => \A id \in Ids : []<>(id \notin Open)
=============================================================================
