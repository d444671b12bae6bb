----------------------------- MODULE TrustStore -----------------------------
(***************************************************************************)
(* daemon/config/trust.go: the peers this device has paired with, held in  *)
(* memory and persisted to trusted.json.  Several goroutines call Add,     *)
(* Remove, Touch and Rename at once; each holds writeMu for the whole call *)
(* and mu only while it changes the map and copies it, then writes the     *)
(* copy to a temp file, flushes it, and renames it over trusted.json.  Any *)
(* of those file operations may fail, and between any two of them the      *)
(* process may die or the machine lose its power.  The directory is never  *)
(* flushed, so the file system makes a rename permanent in its own time    *)
(* and a power loss before then brings the older trusted.json back.        *)
(*                                                                         *)
(* Only the data a property tells apart is kept: PairedAt is left out, a   *)
(* token is a model value, and a missing trusted.json is the empty store.  *)
(***************************************************************************)
CONSTANTS
  Device, Name, Token, Stamp,
  Proc,     \* goroutines that call the store
  Absent,   \* no record for a device
  Torn,     \* a trusted.json that does not parse
  Free,     \* writeMu is not held
  Faults    \* which of the faults "write", "crash", "power", "read" may happen

ASSUME NamesApart ==
  /\ Absent \notin [name : Name, token : Token, seen : Stamp]
  /\ Absent \notin Token
  /\ Torn \notin [Device -> [name : Name, token : Token, seen : Stamp] \cup {Absent}]
  /\ Free \notin Proc

Record == [name : Name, token : Token, seen : Stamp]
Store  == [Device -> Record \cup {Absent}]
Empty  == [d \in Device |-> Absent]
Op     == {"Add", "Remove", "Touch", "Rename"}
Stage  == {"idle", "write", "sync", "rename", "chmod"}

VARIABLES
  mem,       \* TrustStore.peers
  file,      \* trusted.json as a reader of the path sees it
  flushed,   \* the bytes of that file have reached the disk
  disk,      \* trusted.json as a power loss would leave it
  writeMu,   \* the goroutine holding writeMu, or Free
  pc,        \* where each goroutine is in writeLocked
  snap,      \* the snapshot each goroutine is persisting
  synced,    \* whether it has flushed its temp file
  call,      \* the operation and device of its call, Absent between calls
  up,        \* the daemon is running
  kept,      \* history: token of a pairing Add acknowledged, Absent if there is none
  removed,   \* history: what the last Remove told its caller, since no Add
  late       \* history: devices added or removed by a rename not yet permanent

vars == <<mem, file, flushed, disk, writeMu, pc, snap, synced, call, up,
          kept, removed, late>>

TypeOK ==
  /\ mem \in Store
  /\ file \in Store \cup {Torn}
  /\ flushed \in BOOLEAN
  /\ disk \in Store \cup {Torn}
  /\ writeMu \in Proc \cup {Free}
  /\ pc \in [Proc -> Stage]
  /\ snap \in [Proc -> Store]
  /\ synced \in [Proc -> BOOLEAN]
  /\ call \in [Proc -> [op : Op, dev : Device] \cup {Absent}]
  /\ up \in BOOLEAN
  /\ kept \in [Device -> Token \cup {Absent}]
  /\ removed \in [Device -> {"none", "gone", "unknown"}]
  /\ late \subseteq Device

Init ==
  /\ mem = Empty /\ file = Empty /\ flushed = TRUE /\ disk = Empty
  /\ writeMu = Free
  /\ pc = [p \in Proc |-> "idle"]
  /\ snap = [p \in Proc |-> Empty]
  /\ synced = [p \in Proc |-> FALSE]
  /\ call = [p \in Proc |-> Absent]
  /\ up = TRUE
  /\ kept = [d \in Device |-> Absent]
  /\ removed = [d \in Device |-> "none"]
  /\ late = {}

-----------------------------------------------------------------------------
(* Mutated: writeMu given back as soon as the map has changed. *)
Mutate_UnlocksEarly(p, op, d, m) ==
  /\ up /\ pc[p] = "idle" /\ writeMu = Free
  /\ mem' = m
  /\ snap' = [snap EXCEPT ![p] = m]
  /\ synced' = [synced EXCEPT ![p] = FALSE]
  /\ call' = [call EXCEPT ![p] = [op |-> op, dev |-> d]]
  /\ pc' = [pc EXCEPT ![p] = "write"]
  /\ UNCHANGED <<file, flushed, disk, writeMu, up, late>>

(* Mutated: a return that leaves by a path without the unlock. *)
Return_KeepsLock(p) ==
  /\ pc' = [pc EXCEPT ![p] = "idle"]
  /\ UNCHANGED <<mem, file, flushed, disk, writeMu, snap, synced, call, up, late>>

(* Mutated: no Sync between Write and Rename. *)
WriteTemp_NoSync(p) ==
  /\ up /\ pc[p] = "write"
  /\ pc' = [pc EXCEPT ![p] = "rename"]
  /\ UNCHANGED <<mem, file, flushed, disk, writeMu, snap, synced, call, up,
                 kept, removed, late>>

-----------------------------------------------------------------------------
(* Reads take mu only, so they are one step and see memory, not the file.  *)
IsPaired(d) == mem[d] # Absent

VerifyToken(d, t) == IsPaired(d) /\ mem[d].token = t

(* The part the four writers share: take writeMu, change the map under mu  *)
(* and keep the snapshot that is going to be persisted.                    *)
Mutate(p, op, d, m) ==
  /\ up /\ pc[p] = "idle" /\ writeMu = Free
  /\ writeMu' = p
  /\ mem' = m
  /\ snap' = [snap EXCEPT ![p] = m]
  /\ synced' = [synced EXCEPT ![p] = FALSE]
  /\ call' = [call EXCEPT ![p] = [op |-> op, dev |-> d]]
  /\ pc' = [pc EXCEPT ![p] = "write"]
  /\ UNCHANGED <<file, flushed, disk, up, late>>

(* A pairing is a fresh decision: it replaces whatever record d had. *)
Add(p, d, n, t, now) ==
  /\ Mutate(p, "Add", d,
            [mem EXCEPT ![d] = [name |-> n, token |-> t, seen |-> now]])
  /\ kept' = [kept EXCEPT ![d] = Absent]
  /\ removed' = [removed EXCEPT ![d] = "none"]

Remove(p, d) ==
  /\ IsPaired(d)
  /\ Mutate(p, "Remove", d, [mem EXCEPT ![d] = Absent])
  /\ kept' = [kept EXCEPT ![d] = Absent]
  /\ UNCHANGED removed

(* Removing a device the map does not hold returns (false, nil): no write. *)
RemoveUnknown(p, d) ==
  /\ up /\ pc[p] = "idle" /\ writeMu = Free
  /\ ~IsPaired(d)
  /\ removed' = [removed EXCEPT ![d] = IF @ = "gone" THEN "gone" ELSE "unknown"]
  /\ UNCHANGED <<mem, file, flushed, disk, writeMu, pc, snap, synced, call, up,
                 kept, late>>

(* Mutated: a Touch that ignores the lookup's second result and stores the *)
(* zero record for a device it did not find.                               *)
Touch_Resurrects(p, d, now) ==
  /\ Mutate(p, "Touch", d,
            [mem EXCEPT ![d] = IF IsPaired(d) THEN [mem[d] EXCEPT !.seen = now]
                               ELSE [name |-> Absent, token |-> Absent, seen |-> now]])
  /\ UNCHANGED <<kept, removed>>

(* Mutated: a Rename that also replaces the credential. *)
Rename_DropsToken(p, d, n) ==
  /\ IsPaired(d) /\ mem[d].name # n
  /\ \E t \in Token :
       Mutate(p, "Rename", d, [mem EXCEPT ![d] = [mem[d] EXCEPT !.name = n, !.token = t]])
  /\ UNCHANGED <<kept, removed>>

(* Touch and Rename return ErrNoSuchPeer, changing nothing, for a device   *)
(* that is not trusted.                                                    *)
Touch(p, d, now) ==
  /\ IsPaired(d)
  /\ Mutate(p, "Touch", d, [mem EXCEPT ![d] = [mem[d] EXCEPT !.seen = now]])
  /\ UNCHANGED <<kept, removed>>

(* Renaming to the name memory already has returns without a write. *)
Rename(p, d, n) ==
  /\ IsPaired(d) /\ mem[d].name # n
  /\ Mutate(p, "Rename", d, [mem EXCEPT ![d] = [mem[d] EXCEPT !.name = n]])
  /\ UNCHANGED <<kept, removed>>

-----------------------------------------------------------------------------
(* writeLocked, one step per file operation. *)

WriteTemp(p) ==
  /\ up /\ pc[p] = "write"
  /\ pc' = [pc EXCEPT ![p] = "sync"]
  /\ UNCHANGED <<mem, file, flushed, disk, writeMu, snap, synced, call, up,
                 kept, removed, late>>

SyncTemp(p) ==
  /\ up /\ pc[p] = "sync"
  /\ synced' = [synced EXCEPT ![p] = TRUE]
  /\ pc' = [pc EXCEPT ![p] = "rename"]
  /\ UNCHANGED <<mem, file, flushed, disk, writeMu, snap, call, up, kept, removed, late>>

(* Readers of the path see the new file from here on; the disk may not.    *)
RenameTemp(p) ==
  /\ up /\ pc[p] = "rename"
  /\ file' = snap[p]
  /\ flushed' = synced[p]
  /\ late' = IF call[p].op \in {"Add", "Remove"} THEN late \cup {call[p].dev} ELSE late
  /\ pc' = [pc EXCEPT ![p] = "chmod"]
  /\ UNCHANGED <<mem, disk, writeMu, snap, synced, call, up, kept, removed>>

(* The deferred unlock every return of the four writers runs. *)
Return(p) ==
  /\ writeMu' = Free
  /\ pc' = [pc EXCEPT ![p] = "idle"]
  /\ snap' = [snap EXCEPT ![p] = Empty]
  /\ synced' = [synced EXCEPT ![p] = FALSE]
  /\ call' = [call EXCEPT ![p] = Absent]
  /\ UNCHANGED <<mem, file, flushed, disk, up, late>>

(* The last chmod succeeds and the caller is told so. *)
ReturnOk(p) ==
  /\ up /\ pc[p] = "chmod"
  /\ Return(p)
  /\ LET c == call[p] IN
     /\ kept' = IF c.op = "Add" THEN [kept EXCEPT ![c.dev] = snap[p][c.dev].token]
                ELSE kept
     /\ removed' = IF c.op = "Remove" THEN [removed EXCEPT ![c.dev] = "gone"]
                   ELSE removed

(* Any file operation may fail.  The temp file is deleted and the error    *)
(* returned; memory keeps the change, and after a failed chmod so does     *)
(* trusted.json.                                                           *)
ReturnError(p) ==
  /\ "write" \in Faults
  /\ up /\ pc[p] # "idle"
  /\ Return(p)
  /\ UNCHANGED <<kept, removed>>

-----------------------------------------------------------------------------
(* The file system writes the directory, in its own time: the rename is    *)
(* permanent, and with it the file as far as its bytes were flushed.       *)
WriteBack ==
  /\ disk' = IF flushed THEN file ELSE Torn
  /\ late' = {}
  /\ UNCHANGED <<mem, file, flushed, writeMu, pc, snap, synced, call, up, kept, removed>>

(* The daemon is gone, and with it memory and callers. *)
Halt ==
  /\ up' = FALSE
  /\ mem' = Empty
  /\ writeMu' = Free
  /\ pc' = [p \in Proc |-> "idle"]
  /\ snap' = [p \in Proc |-> Empty]
  /\ synced' = [p \in Proc |-> FALSE]
  /\ call' = [p \in Proc |-> Absent]
  /\ UNCHANGED disk

(* The process dies; the file system goes on. *)
Crash ==
  /\ "crash" \in Faults
  /\ up
  /\ Halt
  /\ UNCHANGED <<file, flushed, kept, removed, late>>

(* The machine loses its power.  What was acknowledged on the strength of  *)
(* a rename that was not permanent is no longer counted on.                *)
PowerLoss ==
  /\ "power" \in Faults
  /\ Halt
  /\ file' = disk /\ flushed' = TRUE
  /\ kept' = [d \in Device |-> IF d \in late THEN Absent ELSE kept[d]]
  /\ removed' = [d \in Device |-> IF d \in late THEN "none" ELSE removed[d]]
  /\ late' = {}

(* LoadTrustStoreAt: a file that does not parse is copied aside and the    *)
(* store starts empty.                                                     *)
Boot ==
  /\ ~up /\ up' = TRUE
  /\ mem' = IF file = Torn THEN Empty ELSE file
  /\ UNCHANGED <<file, flushed, disk, writeMu, pc, snap, synced, call, kept, removed, late>>

(* A file that exists but cannot be read also starts the store empty, and  *)
(* the file stays where the next write will replace it: what was           *)
(* acknowledged is no longer counted on.                                   *)
BootUnreadable ==
  /\ "read" \in Faults
  /\ ~up /\ up' = TRUE
  /\ mem' = Empty
  /\ kept' = [d \in Device |-> Absent]
  /\ UNCHANGED <<file, flushed, disk, writeMu, pc, snap, synced, call, removed, late>>

Step(p) ==
  \/ WriteTemp(p) \/ SyncTemp(p) \/ RenameTemp(p)
  \/ ReturnOk(p) \/ ReturnError(p)

Next ==
  \/ \E p \in Proc, d \in Device :
       \/ \E n \in Name, t \in Token, now \in Stamp : Add(p, d, n, t, now)
       \/ Remove(p, d) \/ RemoveUnknown(p, d)
       \/ \E now \in Stamp : Touch(p, d, now)
       \/ \E n \in Name : Rename(p, d, n)
  \/ \E p \in Proc : Step(p)
  \/ WriteBack
  \/ Crash \/ PowerLoss \/ Boot \/ BootUnreadable

Spec == Init /\ [][Next]_vars

-----------------------------------------------------------------------------
(* The snapshot a goroutine is about to publish is the memory of that      *)
(* moment: writeMu (trust.go:228-232) keeps an older snapshot from         *)
(* landing over a newer one.                                               *)
SnapshotIsCurrent ==
  \A p \in Proc : pc[p] # "idle" => writeMu = p /\ snap[p] = mem

(* A Remove that answered "it was there, it is gone" (trust.go:249-269)    *)
(* stays true until the next Add: no late Touch, Rename or older snapshot, *)
(* and no restart, brings the record back, so no token of d verifies.  A   *)
(* power loss does not either once the rename is permanent; before that it *)
(* may, and the answer no longer counts.                                   *)
ForgottenStaysForgotten ==
  \A d \in Device : removed[d] = "gone" =>
    /\ \A t \in Token : ~VerifyToken(d, t)
    /\ file # Torn => file[d] = Absent
    /\ disk # Torn /\ d \notin late => disk[d] = Absent

(* A pairing Add acknowledged (trust.go:239-243) is in trusted.json, whole *)
(* and with that token, whatever fails afterwards and however the process  *)
(* ends, until the device is paired again or removed, and while the daemon *)
(* runs that token verifies.  A power loss takes back only what no         *)
(* permanent rename holds yet: the file it leaves is never a truncated one *)
(* ("can never leave a truncated trusted.json", trust.go:385-386) and      *)
(* still holds every pairing acknowledged before.                          *)
AckedPairingSurvives ==
  \A d \in Device : kept[d] # Absent =>
    /\ file # Torn /\ disk # Torn
    /\ file[d] # Absent /\ file[d].token = kept[d]
    /\ d \notin late => disk[d] # Absent /\ disk[d].token = kept[d]
    /\ up => VerifyToken(d, kept[d])

(* Every call gives writeMu back, on its error paths too: whoever holds it *)
(* is a goroutine with file operations still to do, in a daemon that runs, *)
(* so a caller that waits for it (trust.go:231, 250) waits for somebody.   *)
WriteMuHasOwner == writeMu # Free => up /\ pc[writeMu] # "idle"

Ledger == INSTANCE TrustLedger WITH ledger <- mem, stable <- file, durable <- disk

(* The store implements the ledger: memory changes one device at a time,   *)
(* trusted.json only ever changes to the whole current map and never holds *)
(* a part of one, and a boot recalls exactly what was published last, or,  *)
(* after a power loss, what was the last to become permanent.              *)
ImplementsLedger == Ledger!Spec
=============================================================================
