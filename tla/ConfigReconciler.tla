-------------------------- MODULE ConfigReconciler ---------------------------
(***************************************************************************)
(* The courier of printer configuration (bridge/reconciler.py) and the     *)
(* durable store it fills (bridge/store.py).                               *)
(*                                                                         *)
(* The operator adopts, deletes and re-pins printers in the cloud. A pass  *)
(* pulls the cloud's list, drops the printers it buried, stores each code  *)
(* it delivers, rebuilds that printer in the fleet, hands a changed pin to *)
(* the fleet, and acknowledges everything in one request; the cloud then   *)
(* deletes its copy of the code. The pass runs on the upkeep thread. The   *)
(* store has no lock: a reconnect worker records an address it proved, and *)
(* the report loop records a new token, while the pass writes.             *)
(*                                                                         *)
(* _save serialises memory and then renames the file: two steps, and a     *)
(* save of the other thread may come between them. A save that fails       *)
(* raises after memory has changed, and ends the pass without an           *)
(* acknowledgement. The process may stop anywhere. A change of memory is   *)
(* one step with the serialisation that follows it. A pull that fails      *)
(* changes nothing and is a stutter; the interval between passes is left   *)
(* to the interleaving. Models, names and the printers of config.toml are  *)
(* left out.                                                               *)
(***************************************************************************)
EXTENDS Naturals, FiniteSets

CONSTANTS
    Serials,
    Addresses,
    None,          \* no address
    MaxAdopts,     \* bound: codes the operator enters
    MaxDeletes,    \* bound: printers the operator deletes
    MaxRepins,     \* bound: pins the operator edits
    MaxOthers,     \* bound: saves begun by the other threads
    MaxFailures,   \* bound: saves that fail
    MaxLost,       \* bound: acknowledgements or answers lost
    MaxCrashes     \* bound: process stops

ASSUME CourierAssumption ==
    /\ None \notin Addresses
    /\ {MaxAdopts, MaxDeletes, MaxRepins, MaxOthers, MaxFailures, MaxLost, MaxCrashes}
         \subseteq Nat

VARIABLES
    cloud,      \* per serial: the code wanted, whether 3DPF still holds it, pin, tombstone
    mem,        \* PrinterStore._printers
    disk,       \* printers.json
    members,    \* the code each printer of the fleet runs with, 0 for no member
    pins,       \* ConfigReconciler._cloud_pins
    pinned,     \* Fleet._pin_candidates
    pass,       \* the reconcile pass
    other,      \* another thread that writes the store
    proved,     \* the address a worker proved and recorded last (history)
    bare,       \* serials whose last code came without an address (history)
    unsaved,    \* serials whose removal was never written (history)
    overtaken,  \* printers.json holds a text older than one it held (history)
    spent       \* how much of each bound is used

vars == <<cloud, mem, disk, members, pins, pinned, pass, other, proved, bare,
          unsaved, overtaken, spent>>
history == <<proved, bare, unsaved, overtaken>>

Codes == 1..MaxAdopts
Places == Addresses \cup {None}
Gone == [code |-> 0, ip |-> None]
Blank == [s \in Serials |-> Gone]
Unwanted == [code |-> 0, held |-> FALSE, pin |-> None, tomb |-> FALSE]

IdlePass == [pc |-> "idle", got |-> [s \in Serials |-> Unwanted], remove |-> {},
             printers |-> {}, acks |-> {}, removed |-> {}, at |-> None, text |-> Blank,
             order |-> "none"]
IdleOther == [pc |-> "idle", at |-> None, ip |-> None, text |-> Blank, order |-> "none"]

Stored(s) == mem[s].code # 0

\* configs(): the stored printers that can be dialed.
Configs(image) == [s \in Serials |-> IF image[s].ip = None THEN 0 ELSE image[s].code]

Spend(bound, max) ==
    /\ spent[bound] < max
    /\ spent' = [spent EXCEPT ![bound] = @ + 1]

Init ==
    /\ cloud = [s \in Serials |-> Unwanted]
    /\ mem = Blank
    /\ disk = Blank
    /\ members = [s \in Serials |-> 0]
    /\ pins = [s \in Serials |-> None]
    /\ pinned = [s \in Serials |-> None]
    /\ pass = IdlePass
    /\ other = IdleOther
    /\ proved = [s \in Serials |-> None]
    /\ bare = {}
    /\ unsaved = {}
    /\ overtaken = "no"
    /\ spent = [b \in {"adopts", "deletes", "repins", "others", "failures", "lost",
                       "crashes"} |-> 0]

-----------------------------------------------------------------------------
(* The operator, in the cloud. A tombstone may outlive a re-adoption.      *)

Adopts(s) ==
    /\ Spend("adopts", MaxAdopts)
    /\ \E a \in Places, stays \in BOOLEAN :
         cloud' = [cloud EXCEPT ![s] = [code |-> spent.adopts + 1, held |-> TRUE, pin |-> a,
                                        tomb |-> cloud[s].tomb /\ stays]]
    /\ UNCHANGED <<mem, disk, members, pins, pinned, pass, other, history>>

Deletes(s) ==
    /\ cloud[s].code # 0
    /\ Spend("deletes", MaxDeletes)
    /\ cloud' = [cloud EXCEPT ![s] = [Unwanted EXCEPT !.tomb = TRUE]]
    /\ UNCHANGED <<mem, disk, members, pins, pinned, pass, other, history>>

Repins(s) ==
    /\ cloud[s].code # 0
    /\ Spend("repins", MaxRepins)
    /\ \E a \in Addresses \ {cloud[s].pin} : cloud' = [cloud EXCEPT ![s].pin = a]
    /\ UNCHANGED <<mem, disk, members, pins, pinned, pass, other, history>>

-----------------------------------------------------------------------------
(* The file                                                                *)

\* A text not yet renamed is the newest, or older than the other thread's; it is
\* overtaken once that newer one has been renamed. Serialises and Replaces give
\* what becomes of the other thread.
Serialises(thread) ==
    IF thread.order = "newest" THEN [thread EXCEPT !.order = "older"] ELSE thread

Replaces(thread) ==
    IF thread.order = "older" THEN [thread EXCEPT !.order = "overtaken"] ELSE thread

Renames(text, order) ==
    /\ disk' = text
    /\ unsaved' = {s \in unsaved : text[s].code # 0}
    /\ overtaken' = CASE overtaken = "loaded" -> "loaded"
                      [] order = "overtaken" -> "yes"
                      [] OTHER -> "no"

-----------------------------------------------------------------------------
(* The pass                                                                *)

\* _reconcile: the list is pulled; what the operator does later is not in it.
Pulls ==
    /\ pass.pc = "idle"
    /\ pass' = [IdlePass EXCEPT !.pc = "listing", !.got = cloud,
                                !.remove = {s \in Serials : cloud[s].tomb},
                                !.printers = {s \in Serials : cloud[s].code # 0}]
    /\ UNCHANGED <<cloud, mem, disk, members, pins, pinned, other, history, spent>>

\* _save begins: the text is memory as it is now.
Writes(s) ==
    /\ pass' = [pass EXCEPT !.pc = "saving", !.at = s, !.text = mem', !.order = "newest"]
    /\ other' = Serialises(other)


\* A tombstone: out of the fleet, out of the store, saved only if it was stored.
Removes(s) ==
    /\ pass.pc = "listing"
    /\ s \in pass.remove
    /\ members' = [members EXCEPT ![s] = 0]
    /\ pinned' = [pinned EXCEPT ![s] = None]
    /\ mem' = [mem EXCEPT ![s] = Gone]
    /\ proved' = [proved EXCEPT ![s] = None]
    /\ bare' = bare \ {s}
    /\ IF Stored(s)
         THEN Writes(s)
         ELSE /\ pass' = [pass EXCEPT !.remove = @ \ {s}, !.removed = @ \cup {s}]
              /\ UNCHANGED other
    /\ UNCHANGED <<cloud, disk, pins, unsaved, overtaken, spent>>

\* The next entry of the list, once the tombstones are done.
Reads(s) ==
    /\ pass.pc = "listing"
    /\ pass.remove = {}
    /\ s \in pass.printers

\* upsert keeps the address the entry had when the code comes without one.
Upserted(s) ==
    [code |-> pass.got[s].code,
     ip |-> IF pass.got[s].pin = None THEN mem[s].ip ELSE pass.got[s].pin]

\* A plausible slip: upsert writes nothing when memory has it all already.
DeliversChanges(s) ==
    /\ Reads(s)
    /\ pass.got[s].held
    /\ mem' = [mem EXCEPT ![s] = Upserted(s)]
    /\ proved' = [proved EXCEPT ![s] = IF pass.got[s].pin = None THEN @ ELSE None]
    /\ unsaved' = unsaved \ {s}
    /\ bare' = IF pass.got[s].pin = None THEN bare \cup {s} ELSE bare \ {s}
    /\ IF mem' # mem
         THEN Writes(s)
         ELSE /\ pass' = [pass EXCEPT !.pc = "joining", !.at = s]
              /\ UNCHANGED other
    /\ UNCHANGED <<cloud, disk, members, pins, pinned, overtaken, spent>>

\* A delivered code is stored, and the file written, before anything else.
Delivers(s) ==
    /\ Reads(s)
    /\ pass.got[s].held
    /\ mem' = [mem EXCEPT ![s] = Upserted(s)]
    /\ proved' = [proved EXCEPT ![s] = IF pass.got[s].pin = None THEN @ ELSE None]
    /\ unsaved' = unsaved \ {s}
    /\ bare' = IF pass.got[s].pin = None THEN bare \cup {s} ELSE bare \ {s}
    /\ Writes(s)
    /\ UNCHANGED <<cloud, disk, members, pins, pinned, overtaken, spent>>

\* The pin is not the one seen last, and not the address of the stored entry.
PinMoved(s) ==
    LET pin == pass.got[s].pin
    IN  pin # None /\ Stored(s) /\ pins[s] # pin /\ mem[s].ip \notin {None, pin}

SeesPin(s) ==
    pins' = IF pass.got[s].pin # None /\ Stored(s)
              THEN [pins EXCEPT ![s] = pass.got[s].pin] ELSE pins

SkipsEntry(s) ==
    /\ pass' = [pass EXCEPT !.printers = @ \ {s}]
    /\ UNCHANGED <<mem, other>>

AppliesPin(s) ==
    /\ mem' = [mem EXCEPT ![s].ip = pass.got[s].pin]
    /\ Writes(s)

\* A plausible slip: a changed pin is applied to a running printer too.
RefreshesAny(s) ==
    /\ Reads(s)
    /\ ~pass.got[s].held
    /\ SeesPin(s)
    /\ IF PinMoved(s) THEN AppliesPin(s) ELSE SkipsEntry(s)
    /\ UNCHANGED <<cloud, disk, members, pinned, history, spent>>

\* No code: a changed pin is a candidate for a running printer (propose_address)
\* and the address of one that does not run.
Refreshes(s) ==
    /\ Reads(s)
    /\ ~pass.got[s].held
    /\ SeesPin(s)
    /\ pinned' = IF PinMoved(s) /\ members[s] # 0
                   THEN [pinned EXCEPT ![s] = pass.got[s].pin] ELSE pinned
    /\ IF PinMoved(s) /\ members[s] = 0
         THEN AppliesPin(s) /\ proved' = [proved EXCEPT ![s] = None]
         ELSE SkipsEntry(s) /\ UNCHANGED proved
    /\ UNCHANGED <<cloud, disk, members, bare, unsaved, overtaken, spent>>

Saved ==
    /\ pass.pc = "saving"
    /\ Renames(pass.text, pass.order)
    /\ other' = Replaces(other)
    /\ pass' = IF pass.at \in pass.remove
                 THEN [pass EXCEPT !.pc = "listing", !.remove = @ \ {pass.at}, !.text = Blank,
                                   !.removed = @ \cup {pass.at}, !.order = "none"]
                 ELSE [pass EXCEPT !.pc = "joining", !.text = Blank, !.order = "none"]
    /\ UNCHANGED <<cloud, mem, members, pins, pinned, proved, bare, spent>>

\* _save raises; tick swallows it, and nothing of this pass is acknowledged.
SaveFails ==
    /\ pass.pc = "saving"
    /\ Spend("failures", MaxFailures)
    /\ pass' = IdlePass
    /\ unsaved' = IF pass.at \in pass.remove /\ disk[pass.at].code # 0
                    THEN unsaved \cup {pass.at} ELSE unsaved
    /\ UNCHANGED <<cloud, mem, disk, members, pins, pinned, other, proved, bare, overtaken>>


\* With an address the printer is rebuilt with the code just stored; its
\* candidate pin goes with the old member. The code's delivery is acknowledged.
Joins ==
    LET s == pass.at
        rebuilt == pass.got[s].pin # None
    IN  /\ pass.pc = "joining"
        /\ members' = IF rebuilt THEN [members EXCEPT ![s] = mem[s].code] ELSE members
        /\ pinned' = IF rebuilt THEN [pinned EXCEPT ![s] = None] ELSE pinned
        /\ pass' = [pass EXCEPT !.pc = "listing", !.printers = @ \ {s},
                      !.acks = IF pass.got[s].held THEN @ \cup {<<s, pass.got[s].code>>}
                                 ELSE @]
        /\ UNCHANGED <<cloud, mem, disk, pins, other, history, spent>>

\* The lists are done: one request, or none when there is nothing to say.
Ends ==
    /\ pass.pc = "listing"
    /\ pass.remove = {}
    /\ pass.printers = {}
    /\ pass' = IF pass.acks = {} /\ pass.removed = {}
                 THEN IdlePass ELSE [pass EXCEPT !.pc = "acking"]
    /\ UNCHANGED <<cloud, mem, disk, members, pins, pinned, other, history, spent>>

\* The cloud drops the codes and tombstones named. Without an answer it is told again.
Acks ==
    /\ pass.pc = "acking"
    /\ cloud' = [s \in Serials |->
                   [cloud[s] EXCEPT !.held = @ /\ <<s, cloud[s].code>> \notin pass.acks,
                                    !.tomb = @ /\ s \notin pass.removed]]
    /\ \/ /\ pass' = IdlePass
          /\ UNCHANGED spent
       \/ /\ Spend("lost", MaxLost)
          /\ UNCHANGED pass
    /\ UNCHANGED <<mem, disk, members, pins, pinned, other, history>>

\* The request never arrives; the next pull repeats what was not acknowledged.
AckLost ==
    /\ pass.pc = "acking"
    /\ Spend("lost", MaxLost)
    /\ pass' = IdlePass
    /\ UNCHANGED <<cloud, mem, disk, members, pins, pinned, other, history>>

-----------------------------------------------------------------------------
(* The other threads                                                       *)

\* A reconnect worker swapped in a printer at an address it proved.
Proves(s) ==
    /\ other.pc = "idle"
    /\ members[s] # 0
    /\ Spend("others", MaxOthers)
    /\ \E a \in Addresses \ {mem[s].ip} :
         other' = [IdleOther EXCEPT !.pc = "told", !.at = s, !.ip = a]
    /\ UNCHANGED <<cloud, mem, disk, members, pins, pinned, pass, history>>

\* update_ip: only a printer still stored, and only a different address.
Learns ==
    LET s == other.at
        moves == Stored(s) /\ mem[s].ip # other.ip
    IN  /\ other.pc = "told"
        /\ mem' = IF moves THEN [mem EXCEPT ![s].ip = other.ip] ELSE mem
        /\ proved' = IF moves THEN [proved EXCEPT ![s] = other.ip] ELSE proved
        /\ IF moves
             THEN /\ other' = [other EXCEPT !.pc = "saving", !.text = mem',
                                            !.order = "newest"]
                  /\ pass' = Serialises(pass)
             ELSE /\ other' = IdleOther
                  /\ UNCHANGED pass
        /\ UNCHANGED <<cloud, disk, members, pins, pinned, bare, unsaved, overtaken, spent>>

\* set_cloud_token after a rejected credential: the whole file is written.
Repairs ==
    /\ other.pc = "idle"
    /\ Spend("others", MaxOthers)
    /\ other' = [IdleOther EXCEPT !.pc = "saving", !.text = mem, !.order = "newest"]
    /\ pass' = Serialises(pass)
    /\ UNCHANGED <<cloud, mem, disk, members, pins, pinned, history>>

OtherSaved ==
    /\ other.pc = "saving"
    /\ Renames(other.text, other.order)
    /\ pass' = Replaces(pass)
    /\ other' = IdleOther
    /\ UNCHANGED <<cloud, mem, members, pins, pinned, proved, bare, spent>>

OtherFails ==
    /\ other.pc = "saving"
    /\ Spend("failures", MaxFailures)
    /\ other' = IdleOther
    /\ UNCHANGED <<cloud, mem, disk, members, pins, pinned, pass, history>>

-----------------------------------------------------------------------------
\* A stop, and a start that loads the file and dials what it can.
Crash ==
    /\ Spend("crashes", MaxCrashes)
    /\ mem' = disk
    /\ members' = Configs(disk)
    /\ pins' = [s \in Serials |-> None]
    /\ pinned' = [s \in Serials |-> None]
    /\ pass' = IdlePass
    /\ other' = IdleOther
    /\ proved' = [s \in Serials |-> IF disk[s].ip = proved[s] THEN proved[s] ELSE None]
    /\ bare' = {s \in bare : disk[s].ip = None}
    /\ overtaken' = IF overtaken = "no" THEN "no" ELSE "loaded"
    /\ UNCHANGED <<cloud, disk, unsaved>>

PassStep ==
    \/ Pulls \/ Saved \/ SaveFails \/ Joins \/ Ends \/ Acks \/ AckLost
    \/ \E s \in Serials : Removes(s) \/ Delivers(s) \/ Refreshes(s)

OtherStep == Learns \/ OtherSaved \/ OtherFails

Next ==
    \/ PassStep
    \/ OtherStep
    \/ Repairs
    \/ Crash
    \/ \E s \in Serials : Adopts(s) \/ Deletes(s) \/ Repins(s) \/ Proves(s)

Spec == Init /\ [][Next]_vars

\* The upkeep thread and the other writers go on running.
LiveSpec == Spec /\ WF_vars(PassStep) /\ WF_vars(OtherStep)

-----------------------------------------------------------------------------
(* Properties                                                              *)

Entry == [code : Codes \cup {0}, ip : Places]
Image == [Serials -> Entry]
Wish == [code : Codes \cup {0}, held : BOOLEAN, pin : Places, tomb : BOOLEAN]

\* Every variable has its type; a stored entry has its code.
TypeOK ==
    /\ cloud \in [Serials -> Wish]
    /\ mem \in Image
    /\ disk \in Image
    /\ members \in [Serials -> Codes \cup {0}]
    /\ pins \in [Serials -> Places]
    /\ pinned \in [Serials -> Places]
    /\ pass \in [pc : {"idle", "listing", "saving", "joining", "acking"},
                 got : [Serials -> Wish], remove : SUBSET Serials, printers : SUBSET Serials,
                 acks : SUBSET (Serials \X Codes), removed : SUBSET Serials,
                 at : Serials \cup {None}, text : Image,
                 order : {"none", "newest", "older", "overtaken"}]
    /\ other \in [pc : {"idle", "told", "saving"}, at : Serials \cup {None}, ip : Places,
                  text : Image, order : {"none", "newest", "older", "overtaken"}]
    /\ proved \in [Serials -> Places]
    /\ bare \subseteq Serials
    /\ unsaved \subseteq Serials
    /\ overtaken \in {"no", "yes", "loaded"}
    /\ \A s \in Serials : mem[s].code = 0 => mem[s] = Gone

\* A code the cloud let go of is in the file, whatever failed, was repeated or
\* stopped in between (upsert before the acknowledgement), unless an older text
\* was renamed over it.
CodeKept ==
    \A s \in Serials :
        cloud[s].code # 0 /\ ~cloud[s].held /\ overtaken = "no" => disk[s].code = cloud[s].code

Forgotten(s) == cloud[s].code = 0 /\ ~cloud[s].tomb


\* The address a worker proved for a running printer stays the stored one until
\* a code is delivered with another, also when a restart has forgotten which pin
\* was seen last.
ProvedAddressStays ==
    \A s \in Serials : proved[s] # None => mem[s].ip = proved[s]

=============================================================================
