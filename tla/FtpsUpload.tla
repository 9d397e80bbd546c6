----------------------------- MODULE FtpsUpload -----------------------------
(***************************************************************************)
(* The FTPS client of one printer (bambu/ftps.py, printer.upload_file).    *)
(* Each caller runs at most one operation, and all of them share the lock  *)
(* of the host, its handshake cool-off, and the card.  An upload is a sweep*)
(* of the earlier job files, then DELE, STOR block by block, the wait for  *)
(* the closing reply, and SIZE.  The printer writes the card at its own    *)
(* pace: its closing reply may come early, late - behind a SIZE that was   *)
(* already sent - or never, and says nothing certain about the copy.       *)
(***************************************************************************)
EXTENDS Naturals, FiniteSets

CONSTANTS
    Callers,    \* threads that upload, one operation at a time
    Copies,     \* local files handed to upload
    Blocks,     \* blocks of a file
    CoolOff,    \* _HANDSHAKE_COOLOFF_SECONDS, in ticks
    MaxFaults,  \* bound: failed connects, dropped connections, passed deadlines
    NoOne

ASSUME FtpsAssumption ==
    /\ NoOne \notin Callers \cup Copies
    /\ Blocks \in Nat \ {0} /\ CoolOff \in Nat \ {0} /\ MaxFaults \in Nat

VARIABLES
    ftp,        \* [Callers -> the operation under way]
    host,       \* the holder of the host lock, or NoOne
    cool,       \* ticks left of the cool-off
    since,      \* history: ticks since TLS was last refused, up to CoolOff
    sweepWait,  \* _sd_cleanup_after lies ahead
    card,       \* the copies on the card: [file, whole]
    res,        \* [Copies -> how its upload ended]
    ftpsFaults

ftpsVars == <<ftp, host, cool, since, sweepWait, card, res, ftpsFaults>>

\* "network" stands for every kind of failure but the named ones.
Results == {"none", "ok", "cancelled", "handshake", "network", "storage"}
Replies == {"none", "226", "426"}

Idle == [pc |-> "idle", file |-> NoOne, sent |-> 0, srv |-> "none", reply |-> "none"]

FtpsInit ==
    /\ ftp = [c \in Callers |-> Idle]
    /\ host = NoOne /\ cool = 0 /\ since = CoolOff /\ sweepWait = FALSE
    /\ card = {}
    /\ res = [f \in Copies |-> "none"]
    /\ ftpsFaults = 0

At(c, pc) == ftp[c].pc = pc

Goto(c, pc) == ftp' = [ftp EXCEPT ![c].pc = pc]

Without(f) == {e \in card : e.file # f}
WholeOn(f) == [file |-> f, whole |-> TRUE] \in card

\* The operation ends; the lock goes last.
Ends(c, how) ==
    /\ res' = [res EXCEPT ![ftp[c].file] = how]
    /\ ftp' = [ftp EXCEPT ![c] = Idle]
    /\ host' = NoOne

\* A handshake refusal arms the cool-off.
Armed == cool' = CoolOff /\ since' = 0

-----------------------------------------------------------------------------
(* The sweep of old job files, in front of every upload.                   *)

Starts(c, f) ==
    /\ At(c, "idle")
    /\ ftp' = [ftp EXCEPT ![c] = [Idle EXCEPT !.pc = IF sweepWait THEN "want" ELSE "sweep",
                                              !.file = f]]
    /\ UNCHANGED <<host, cool, since, sweepWait, card, res, ftpsFaults>>

\* A sweep that fails is put off for an hour and never stops the upload.
SweepLocks(c) ==
    /\ At(c, "sweep") /\ host = NoOne
    /\ IF cool > 0
       THEN Goto(c, "want") /\ sweepWait' = TRUE /\ UNCHANGED host
       ELSE Goto(c, "sweeping") /\ host' = c /\ UNCHANGED sweepWait
    /\ UNCHANGED <<cool, since, card, res, ftpsFaults>>

SweepFails(c) ==
    /\ At(c, "sweeping") /\ ftpsFaults < MaxFaults
    /\ ftpsFaults' = ftpsFaults + 1
    /\ Armed \/ UNCHANGED <<cool, since>>
    /\ Goto(c, "want") /\ host' = NoOne /\ sweepWait' = TRUE
    /\ UNCHANGED <<card, res>>

\* Every listed job file is deleted, or refused; the connection may drop on
\* the way.
SweepDeletes(c) ==
    /\ At(c, "sweeping")
    /\ \/ card' = {} /\ UNCHANGED <<sweepWait, ftpsFaults>>
       \/ /\ ftpsFaults < MaxFaults
          /\ \E left \in SUBSET card : left # {} /\ card' = left
          /\ sweepWait' \in BOOLEAN
          /\ ftpsFaults' = ftpsFaults + 1
    /\ Goto(c, "want") /\ host' = NoOne
    /\ UNCHANGED <<cool, since, res>>

HourPasses ==
    /\ sweepWait
    /\ sweepWait' = FALSE
    /\ UNCHANGED <<ftp, host, cool, since, card, res, ftpsFaults>>

-----------------------------------------------------------------------------
(* _guarded and _perform.                                                  *)

\* A plausible slip: being turned away by the cool-off arms it anew.
TurnedAwayRearms(c) ==
    /\ At(c, "want") /\ host = NoOne /\ cool > 0
    /\ Ends(c, "handshake")
    /\ cool' = CoolOff
    /\ UNCHANGED <<since, sweepWait, card, ftpsFaults>>

\* Inside the cool-off no socket is opened, and the failure does not arm it.
TurnedAway(c) ==
    /\ At(c, "want") /\ host = NoOne /\ cool > 0
    /\ Ends(c, "handshake")
    /\ UNCHANGED <<cool, since, sweepWait, card, ftpsFaults>>

Locks(c) ==
    /\ At(c, "want") /\ host = NoOne /\ cool = 0
    /\ host' = c /\ Goto(c, "connect")
    /\ UNCHANGED <<cool, since, sweepWait, card, res, ftpsFaults>>

Refused(c) ==
    /\ At(c, "connect") /\ ftpsFaults < MaxFaults
    /\ ftpsFaults' = ftpsFaults + 1
    /\ Armed /\ Ends(c, "handshake")
    /\ UNCHANGED <<sweepWait, card>>

\* Connected, logged in, and whatever had the name is deleted.
Connects(c) ==
    /\ At(c, "connect")
    /\ card' = Without(ftp[c].file)
    /\ Goto(c, "stor")
    /\ UNCHANGED <<host, cool, since, sweepWait, res, ftpsFaults>>

Opens(c) ==
    /\ At(c, "stor")
    /\ card' = card \cup {[file |-> ftp[c].file, whole |-> FALSE]}
    /\ ftp' = [ftp EXCEPT ![c].pc = "send", ![c].srv = "writing"]
    /\ UNCHANGED <<host, cool, since, sweepWait, res, ftpsFaults>>

\* cancel is looked at before each block, the empty read at the end included.
Sends(c, cancelled) ==
    /\ At(c, "send") /\ ~cancelled
    /\ ftp' = IF ftp[c].sent < Blocks
              THEN [ftp EXCEPT ![c].sent = @ + 1]
              ELSE [ftp EXCEPT ![c].pc = "closing"]
    /\ UNCHANGED <<host, cool, since, sweepWait, card, res, ftpsFaults>>

SeesCancel(c, cancelled) ==
    /\ At(c, "send") /\ cancelled
    /\ Goto(c, "clean")
    /\ UNCHANGED <<host, cool, since, sweepWait, card, res, ftpsFaults>>

\* The printer, once the data connection is closed: the copy is whole only if
\* all blocks came, a full card makes it short, and the closing reply is 226,
\* 426 or never comes.
PrinterWrites(c) ==
    /\ ftp[c].srv = "writing" /\ ftp[c].pc \notin {"stor", "send"}
    /\ \E w \in BOOLEAN, r \in Replies :
         /\ w => ftp[c].sent = Blocks
         /\ card' = IF w THEN Without(ftp[c].file) \cup {[file |-> ftp[c].file, whole |-> TRUE]}
                         ELSE card
         /\ ftp' = [ftp EXCEPT ![c].srv = "done", ![c].reply = r]
    /\ UNCHANGED <<host, cool, since, sweepWait, res, ftpsFaults>>

\* _await_closing: two seconds, then on without the reply.
AwaitsClosing(c) ==
    /\ At(c, "closing")
    /\ ftp' = [ftp EXCEPT ![c].pc = "size", ![c].reply = "none"]
    /\ UNCHANGED <<host, cool, since, sweepWait, card, res, ftpsFaults>>

\* A plausible slip: a 226 is believed.
SizeTrusts226(c) == ftp[c].reply = "226" \/ WholeOn(ftp[c].file)

\* A plausible slip: the first reply is taken for the answer to SIZE.
SizeReadFirst(c) == ftp[c].reply = "none" /\ WholeOn(ftp[c].file)

\* The printer answers SIZE after it has written; a closing reply in front of
\* it is skipped.
SizeRead(c) == WholeOn(ftp[c].file)

ReadsSize(c) ==
    /\ At(c, "size") /\ ftp[c].srv = "done"
    /\ IF SizeRead(c)
       THEN Ends(c, "ok")
       ELSE /\ ftp' = [ftp EXCEPT ![c].pc = "short"]
            /\ UNCHANGED <<host, res>>
    /\ UNCHANGED <<cool, since, sweepWait, card, ftpsFaults>>

\* A copy that is not the size of the local file is deleted.
DropsShort(c) ==
    /\ At(c, "short")
    /\ card' = Without(ftp[c].file)
    /\ Ends(c, "storage")
    /\ UNCHANGED <<cool, since, sweepWait, ftpsFaults>>

\* So is the copy of a cancelled upload; the reply of DELE may be the late one.
DropsPartial(c) ==
    /\ At(c, "clean") /\ ftp[c].srv = "done"
    /\ card' = Without(ftp[c].file)
    /\ Ends(c, "cancelled")
    /\ UNCHANGED <<cool, since, sweepWait, ftpsFaults>>

\* A dropped connection, a deadline that has passed or a refusal ends the
\* upload where it is; a refused SIZE reads as a copy of the wrong size, and
\* nothing is deleted for it.  What is on the card by then stays there; a copy
\* that had come in full may still be finished.
Breaks(c) ==
    /\ ftp[c].pc \in {"connect", "stor", "send", "closing", "size", "short", "clean"}
    /\ ftpsFaults < MaxFaults
    /\ ftpsFaults' = ftpsFaults + 1
    /\ card' = card
       \/ /\ ftp[c].srv = "writing" /\ ftp[c].sent = Blocks
          /\ card' = Without(ftp[c].file) \cup {[file |-> ftp[c].file, whole |-> TRUE]}
    /\ \E how \in CASE ftp[c].pc = "clean" -> {"cancelled", "storage"}
                     [] ftp[c].pc = "short" -> {"storage"}
                     [] OTHER -> {"network", "storage"} : Ends(c, how)
    /\ UNCHANGED <<cool, since, sweepWait>>

Tick ==
    /\ cool > 0
    /\ cool' = cool - 1
    /\ since' = IF since < CoolOff THEN since + 1 ELSE since
    /\ UNCHANGED <<ftp, host, sweepWait, card, res, ftpsFaults>>

\* What a caller's thread does by itself.
ClientStep(c, cancelled) ==
    \/ SweepLocks(c) \/ SweepFails(c) \/ SweepDeletes(c)
    \/ TurnedAway(c) \/ Locks(c) \/ Refused(c) \/ Connects(c) \/ Opens(c)
    \/ Sends(c, cancelled) \/ SeesCancel(c, cancelled)
    \/ AwaitsClosing(c) \/ ReadsSize(c) \/ DropsShort(c) \/ DropsPartial(c) \/ Breaks(c)

FtpsEnv == HourPasses \/ Tick \/ \E c \in Callers : PrinterWrites(c)

-----------------------------------------------------------------------------
FtpsTypeOK ==
    /\ ftp \in [Callers -> [pc : {"idle", "sweep", "sweeping", "want", "connect", "stor", "send",
                                  "closing", "size", "short", "clean"},
                            file : Copies \cup {NoOne}, sent : 0..Blocks,
                            srv : {"none", "writing", "done"}, reply : Replies]]
    /\ host \in Callers \cup {NoOne}
    /\ cool \in 0..CoolOff /\ since \in 0..CoolOff /\ sweepWait \in BOOLEAN
    /\ card \subseteq [file : Copies, whole : BOOLEAN]
    /\ res \in [Copies -> Results]
    /\ ftpsFaults \in 0..MaxFaults

\* A refused upload is never the reason for a longer wait: TLS is tried again
\* once _HANDSHAKE_COOLOFF_SECONDS have passed since a printer refused it.
CoolOffEnds == cool > 0 => cool + since = CoolOff

\* An upload is reported done only with the whole copy on the card, and a copy
\* is deleted as short only when it was not whole, whatever closing reply came
\* early, late or never (the shop's P1S-6 lost every good copy to a late 226).
VerdictIsTrue ==
    [][\A c \in Callers : ftp'[c].pc # ftp[c].pc =>
         LET f == ftp[c].file IN
         /\ ftp[c].pc = "size" /\ res'[f] = "ok" => WholeOn(f)
         /\ ftp'[c].pc = "short" => ~WholeOn(f)]_ftpsVars
=============================================================================
