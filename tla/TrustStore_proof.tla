-------------------------- MODULE TrustStore_proof --------------------------
(* Proofs about the trust store, for any number of devices, goroutines,    *)
(* tokens and names, and any set of faults.                                *)
EXTENDS TrustStore, TLAPS

-----------------------------------------------------------------------------
(* The inductive invariant.  Besides the properties themselves it says     *)
(* what writeMu protects (WriterInv), what a call in progress has already  *)
(* done (CallInv) and that memory, the file and, once the rename is        *)
(* permanent, the disk agree with what the callers were told (HistoryInv). *)

WriterInv ==
  /\ flushed = TRUE /\ file # Torn /\ disk # Torn
  /\ WriteMuHasOwner
  /\ ~up => mem = Empty /\ \A p \in Proc : pc[p] = "idle"
  /\ \A p \in Proc : pc[p] \in {"rename", "chmod"} => synced[p] = TRUE
  /\ \A p \in Proc : pc[p] = "chmod" => file = snap[p]

CallInv ==
  \A p \in Proc : pc[p] # "idle" =>
    /\ call[p] \in [op : Op, dev : Device]
    /\ call[p].op = "Remove" => snap[p][call[p].dev] = Absent
    /\ call[p].op = "Add" => /\ snap[p][call[p].dev] # Absent
                             /\ removed[call[p].dev] = "none"
    /\ /\ pc[p] = "chmod" /\ call[p].op \in {"Add", "Remove"}
       /\ call[p].dev \notin late
       => disk = file

HistoryInv ==
  /\ \A d \in Device : removed[d] = "gone" =>
       /\ mem[d] = Absent /\ file[d] = Absent
       /\ d \notin late => disk[d] = Absent
  /\ \A d \in Device : kept[d] # Absent =>
       /\ file[d] # Absent /\ file[d].token = kept[d]
       /\ d \notin late => disk[d] # Absent /\ disk[d].token = kept[d]
       /\ up => mem[d] # Absent /\ mem[d].token = kept[d]

IInv == TypeOK /\ SnapshotIsCurrent /\ WriterInv /\ CallInv /\ HistoryInv

-----------------------------------------------------------------------------
(* A goroutine that starts a call changes the map at one device.  m is the *)
(* new map; what the history must allow for it is the hypothesis.          *)
LEMMA MutateKeepsStructure ==
  ASSUME IInv, NEW p \in Proc, NEW op \in Op, NEW d \in Device, NEW m \in Store,
         Mutate(p, op, d, m)
  PROVE  /\ SnapshotIsCurrent' /\ WriterInv'
         /\ mem' = m /\ snap'[p] = m /\ up /\ up' /\ UNCHANGED <<file, disk, late>>
         /\ call'[p] \in [op : Op, dev : Device]
         /\ call'[p].op = op /\ call'[p].dev = d
         /\ pc'[p] = "write" /\ \A q \in Proc \ {p} : pc'[q] = "idle"
         /\ mem' \in Store /\ file' \in Store \cup {Torn} /\ flushed' \in BOOLEAN
         /\ disk' \in Store \cup {Torn} /\ late' \subseteq Device
         /\ writeMu' \in Proc \cup {Free} /\ pc' \in [Proc -> Stage]
         /\ snap' \in [Proc -> Store] /\ synced' \in [Proc -> BOOLEAN]
         /\ call' \in [Proc -> [op : Op, dev : Device] \cup {Absent}]
         /\ up' \in BOOLEAN
<1>1. \A q \in Proc : pc[q] = "idle"
  BY NamesApart DEF IInv, SnapshotIsCurrent, Mutate
<1>2. /\ mem' = m /\ snap'[p] = m /\ up /\ up' /\ UNCHANGED <<file, disk, late>>
      /\ call'[p] = [op |-> op, dev |-> d] /\ writeMu' = p
      /\ call'[p] \in [op : Op, dev : Device]
      /\ call'[p].op = op /\ call'[p].dev = d
      /\ pc'[p] = "write" /\ \A q \in Proc \ {p} : pc'[q] = "idle"
  BY <1>1 DEF Mutate, IInv, TypeOK
<1>3. mem' \in Store /\ file' \in Store \cup {Torn} /\ flushed' \in BOOLEAN
      /\ disk' \in Store \cup {Torn} /\ late' \subseteq Device
      /\ writeMu' \in Proc \cup {Free} /\ pc' \in [Proc -> Stage]
      /\ snap' \in [Proc -> Store] /\ synced' \in [Proc -> BOOLEAN]
      /\ call' \in [Proc -> [op : Op, dev : Device] \cup {Absent}]
      /\ up' \in BOOLEAN
  BY DEF Mutate, IInv, TypeOK, Stage
<1>4. SnapshotIsCurrent'
  BY <1>1, <1>2 DEF SnapshotIsCurrent
<1>5. WriterInv'
  BY <1>1, <1>2 DEF WriterInv, WriteMuHasOwner, IInv, TypeOK, Mutate
<1> QED BY <1>2, <1>3, <1>4, <1>5

(* What remains for a mutating call is what it does to the history.        *)
LEMMA AddStep ==
  ASSUME IInv, NEW p \in Proc, NEW d \in Device, NEW n \in Name,
         NEW t \in Token, NEW now \in Stamp, Add(p, d, n, t, now)
  PROVE  IInv'
<1> DEFINE r == [name |-> n, token |-> t, seen |-> now]
           m == [mem EXCEPT ![d] = r]
<1>1. r \in Record /\ r # Absent
  BY NamesApart DEF Record
<1>2. m \in Store /\ Mutate(p, "Add", d, m) /\ "Add" \in Op
  BY <1>1 DEF Add, Store, IInv, TypeOK, Op
<1>3. /\ SnapshotIsCurrent' /\ WriterInv'
      /\ mem' = m /\ snap'[p] = m /\ up /\ up' /\ UNCHANGED <<file, disk, late>>
      /\ call'[p] \in [op : Op, dev : Device]
      /\ call'[p].op = "Add" /\ call'[p].dev = d
      /\ pc'[p] = "write" /\ \A q \in Proc \ {p} : pc'[q] = "idle"
  BY <1>2, MutateKeepsStructure
<1>4. /\ kept' = [kept EXCEPT ![d] = Absent]
      /\ removed' = [removed EXCEPT ![d] = "none"]
  BY DEF Add
<1>5. TypeOK'
  <2>1. kept' \in [Device -> Token \cup {Absent}]
        /\ removed' \in [Device -> {"none", "gone", "unknown"}]
    BY <1>4 DEF IInv, TypeOK
  <2> QED BY <2>1, <1>2, MutateKeepsStructure DEF TypeOK
<1>6. m[d] = r /\ \A e \in Device : e # d => m[e] = mem[e]
  BY DEF IInv, TypeOK, Store
<1>7. CallInv'
  <2>1. removed'[d] = "none"
    BY <1>4 DEF IInv, TypeOK
  <2>2. m[d] # Absent
    BY <1>1, <1>6
  <2> HIDE DEF m, r
  <2> QED BY <2>1, <2>2, <1>3 DEF CallInv
<1>8. HistoryInv'
  <2>1. \A e \in Device : removed'[e] = "gone" =>
                            e # d /\ removed[e] = "gone" /\ mem'[e] = mem[e]
    BY <1>3, <1>4, <1>6 DEF IInv, TypeOK, HistoryInv
  <2>2. \A e \in Device : kept'[e] # Absent => e # d /\ kept'[e] = kept[e]
    BY <1>4 DEF IInv, TypeOK
  <2> QED BY <2>1, <2>2, <1>3, <1>6 DEF IInv, HistoryInv
<1> QED BY <1>3, <1>5, <1>7, <1>8 DEF IInv

LEMMA RemoveStep ==
  ASSUME IInv, NEW p \in Proc, NEW d \in Device, Remove(p, d)
  PROVE  IInv'
<1> DEFINE m == [mem EXCEPT ![d] = Absent]
<1>1. m \in Store /\ Mutate(p, "Remove", d, m) /\ "Remove" \in Op
  BY DEF Remove, Store, IInv, TypeOK, Op
<1>2. /\ SnapshotIsCurrent' /\ WriterInv'
      /\ mem' = m /\ snap'[p] = m /\ up /\ up' /\ UNCHANGED <<file, disk, late>>
      /\ call'[p] \in [op : Op, dev : Device]
      /\ call'[p].op = "Remove" /\ call'[p].dev = d
      /\ pc'[p] = "write" /\ \A q \in Proc \ {p} : pc'[q] = "idle"
  BY <1>1, MutateKeepsStructure
<1>3. kept' = [kept EXCEPT ![d] = Absent] /\ removed' = removed
  BY DEF Remove
<1>4. TypeOK'
  <2>1. kept' \in [Device -> Token \cup {Absent}]
        /\ removed' \in [Device -> {"none", "gone", "unknown"}]
    BY <1>3 DEF IInv, TypeOK
  <2> QED BY <2>1, <1>1, MutateKeepsStructure DEF TypeOK
<1>5. m[d] = Absent /\ \A e \in Device : e # d => m[e] = mem[e]
  BY DEF IInv, TypeOK, Store
<1>6. CallInv'
  BY <1>2, <1>5 DEF CallInv
<1>7. HistoryInv'
  <2>1. \A e \in Device : removed'[e] = "gone" => removed[e] = "gone" /\ mem'[e] = Absent
    BY <1>2, <1>3, <1>5 DEF IInv, HistoryInv
  <2>2. \A e \in Device : kept'[e] # Absent => e # d /\ kept'[e] = kept[e]
    BY <1>3 DEF IInv, TypeOK
  <2> QED BY <2>1, <2>2, <1>2, <1>5 DEF IInv, HistoryInv
<1> QED BY <1>2, <1>4, <1>6, <1>7 DEF IInv

(* Touch and Rename replace a record by one with the same token. *)
LEMMA RefreshStep ==
  ASSUME IInv, NEW p \in Proc, NEW d \in Device, NEW op \in {"Touch", "Rename"},
         NEW r \in Record, mem[d] # Absent, r.token = mem[d].token,
         Mutate(p, op, d, [mem EXCEPT ![d] = r]), UNCHANGED <<kept, removed>>
  PROVE  IInv'
<1> DEFINE m == [mem EXCEPT ![d] = r]
<1>1. m \in Store /\ op \in Op /\ op # "Add" /\ op # "Remove" /\ r # Absent
  BY NamesApart DEF Store, IInv, TypeOK, Op, Record
<1>2. /\ SnapshotIsCurrent' /\ WriterInv'
      /\ mem' = m /\ snap'[p] = m /\ up /\ up' /\ UNCHANGED <<file, disk, late>>
      /\ call'[p] \in [op : Op, dev : Device]
      /\ call'[p].op = op /\ call'[p].dev = d
      /\ pc'[p] = "write" /\ \A q \in Proc \ {p} : pc'[q] = "idle"
  BY <1>1, MutateKeepsStructure
<1>3. TypeOK'
  BY <1>1, MutateKeepsStructure DEF IInv, TypeOK
<1>4. m[d] = r /\ \A e \in Device : e # d => m[e] = mem[e]
  BY DEF IInv, TypeOK, Store
<1>5. CallInv'
  BY <1>1, <1>2 DEF CallInv
<1>6. HistoryInv'
  BY <1>1, <1>2, <1>4 DEF IInv, HistoryInv
<1> QED BY <1>2, <1>3, <1>5, <1>6 DEF IInv

LEMMA TouchStep ==
  ASSUME IInv, NEW p \in Proc, NEW d \in Device, NEW now \in Stamp, Touch(p, d, now)
  PROVE  IInv'
<1> DEFINE r == [mem[d] EXCEPT !.seen = now]
<1>1. mem[d] \in Record
  BY DEF Touch, IsPaired, IInv, TypeOK, Store
<1>2. r \in Record /\ r.token = mem[d].token
  BY <1>1 DEF Record
<1> QED BY <1>2, RefreshStep DEF Touch, IsPaired

LEMMA RenameStep ==
  ASSUME IInv, NEW p \in Proc, NEW d \in Device, NEW n \in Name, Rename(p, d, n)
  PROVE  IInv'
<1> DEFINE r == [mem[d] EXCEPT !.name = n]
<1>1. mem[d] \in Record
  BY DEF Rename, IsPaired, IInv, TypeOK, Store
<1>2. r \in Record /\ r.token = mem[d].token
  BY <1>1 DEF Record
<1> QED BY <1>2, RefreshStep DEF Rename, IsPaired

-----------------------------------------------------------------------------
LEMMA TempStep ==
  ASSUME IInv, NEW p \in Proc, WriteTemp(p) \/ SyncTemp(p)
  PROVE  IInv'
<1>1. TypeOK'
  BY DEF IInv, TypeOK, WriteTemp, SyncTemp, Stage
<1>2. SnapshotIsCurrent'
  BY DEF IInv, TypeOK, SnapshotIsCurrent, WriteTemp, SyncTemp
<1>3. WriterInv'
  BY DEF IInv, TypeOK, SnapshotIsCurrent, WriterInv, WriteMuHasOwner, WriteTemp, SyncTemp
<1>4. CallInv'
  BY DEF IInv, TypeOK, CallInv, WriteTemp, SyncTemp
<1>5. HistoryInv'
  BY DEF IInv, HistoryInv, WriteTemp, SyncTemp
<1> QED BY <1>1, <1>2, <1>3, <1>4, <1>5 DEF IInv

(* The rename publishes the current map, so whatever memory was known to   *)
(* hold the file now holds as well.                                        *)
LEMMA RenameTempStep ==
  ASSUME IInv, NEW p \in Proc, RenameTemp(p)
  PROVE  IInv' /\ file' = mem /\ UNCHANGED <<mem, disk>>
<1>1. file' = snap[p] /\ snap[p] = mem /\ mem' = mem /\ up /\ up' /\ synced[p] = TRUE
      /\ mem \in Store /\ mem # Torn /\ flushed' = TRUE
  BY NamesApart DEF IInv, TypeOK, SnapshotIsCurrent, WriterInv, RenameTemp, Store, Record
<1>2. \A q \in Proc \ {p} : pc[q] = "idle" /\ pc'[q] = "idle"
  BY DEF IInv, TypeOK, SnapshotIsCurrent, RenameTemp
<1>3. TypeOK'
  <2>1. late' \subseteq Device
    BY DEF IInv, TypeOK, CallInv, RenameTemp
  <2> QED BY <1>1, <2>1 DEF IInv, TypeOK, RenameTemp, Stage
<1>4. SnapshotIsCurrent'
  BY DEF IInv, TypeOK, SnapshotIsCurrent, RenameTemp
<1>5. WriterInv'
  BY <1>1, <1>2 DEF IInv, TypeOK, SnapshotIsCurrent, WriterInv, WriteMuHasOwner, RenameTemp
<1>6. CallInv'
  <2>1. call' = call /\ snap' = snap /\ removed' = removed /\ pc[p] = "rename"
        /\ (call[p].op \in {"Add", "Remove"} => call[p].dev \in late')
    BY DEF RenameTemp
  <2> QED BY <1>2, <2>1 DEF IInv, TypeOK, CallInv
<1>7. HistoryInv'
  <2>1. late \subseteq late' /\ UNCHANGED <<disk, kept, removed>>
    BY DEF RenameTemp
  <2> QED BY <1>1, <2>1 DEF IInv, HistoryInv
<1> QED BY <1>1, <1>3, <1>4, <1>5, <1>6, <1>7 DEF IInv, RenameTemp

(* Giving writeMu back leaves every goroutine idle. *)
LEMMA ReturnKeepsStructure ==
  ASSUME IInv, NEW p \in Proc, pc[p] # "idle", Return(p)
  PROVE  /\ SnapshotIsCurrent' /\ WriterInv' /\ CallInv'
         /\ UNCHANGED <<mem, file, disk, up, late>>
         /\ mem' \in Store /\ file' \in Store \cup {Torn} /\ flushed' \in BOOLEAN
         /\ disk' \in Store \cup {Torn} /\ late' \subseteq Device
         /\ writeMu' \in Proc \cup {Free} /\ pc' \in [Proc -> Stage]
         /\ snap' \in [Proc -> Store] /\ synced' \in [Proc -> BOOLEAN]
         /\ call' \in [Proc -> [op : Op, dev : Device] \cup {Absent}]
         /\ up' \in BOOLEAN
<1>1. \A q \in Proc : pc'[q] = "idle"
  BY DEF IInv, TypeOK, SnapshotIsCurrent, Return
<1>2. Empty \in Store
  BY DEF Empty, Store
<1>3. mem' \in Store /\ file' \in Store \cup {Torn} /\ flushed' \in BOOLEAN
      /\ disk' \in Store \cup {Torn} /\ late' \subseteq Device
      /\ writeMu' \in Proc \cup {Free} /\ pc' \in [Proc -> Stage]
      /\ snap' \in [Proc -> Store] /\ synced' \in [Proc -> BOOLEAN]
      /\ call' \in [Proc -> [op : Op, dev : Device] \cup {Absent}]
      /\ up' \in BOOLEAN
  BY <1>2 DEF IInv, TypeOK, Return, Stage
<1>4. SnapshotIsCurrent' /\ CallInv'
  BY <1>1 DEF SnapshotIsCurrent, CallInv
<1>5. WriterInv'
  BY <1>1, NamesApart DEF IInv, WriterInv, WriteMuHasOwner, Return
<1> QED BY <1>3, <1>4, <1>5 DEF Return

LEMMA ReturnErrorStep ==
  ASSUME IInv, NEW p \in Proc, ReturnError(p)
  PROVE  IInv'
<1>1. Return(p) /\ pc[p] # "idle" /\ UNCHANGED <<kept, removed>>
  BY DEF ReturnError
<1>2. SnapshotIsCurrent' /\ WriterInv' /\ CallInv' /\ UNCHANGED <<mem, file, disk, up, late>>
  BY <1>1, ReturnKeepsStructure
<1>3. TypeOK'
  BY <1>1, ReturnKeepsStructure DEF IInv, TypeOK
<1>4. HistoryInv'
  BY <1>1, <1>2 DEF IInv, HistoryInv
<1> QED BY <1>2, <1>3, <1>4 DEF IInv

(* The acknowledgement is truthful: the published snapshot is the file,    *)
(* and it holds what the call was for.                                     *)
LEMMA ReturnOkStep ==
  ASSUME IInv, NEW p \in Proc, ReturnOk(p)
  PROVE  IInv'
<1>1. Return(p) /\ pc[p] = "chmod" /\ up
  BY DEF ReturnOk
<1>2. SnapshotIsCurrent' /\ WriterInv' /\ CallInv' /\ UNCHANGED <<mem, file, disk, up, late>>
  BY <1>1, ReturnKeepsStructure
<1>3. file = snap[p] /\ mem = snap[p] /\ snap[p] \in Store
  BY <1>1 DEF IInv, TypeOK, WriterInv, SnapshotIsCurrent
<1> DEFINE c == call[p]
<1>4. /\ c \in [op : Op, dev : Device]
      /\ c.op = "Remove" => mem[c.dev] = Absent
      /\ c.op = "Add" => mem[c.dev] # Absent /\ removed[c.dev] = "none"
      /\ c.op \in {"Add", "Remove"} /\ c.dev \notin late => disk = file
  BY <1>1, <1>3 DEF IInv, CallInv
<1>5. kept' = IF c.op = "Add" THEN [kept EXCEPT ![c.dev] = mem[c.dev].token] ELSE kept
  BY <1>3 DEF ReturnOk
<1>6. removed' = IF c.op = "Remove" THEN [removed EXCEPT ![c.dev] = "gone"] ELSE removed
  BY DEF ReturnOk
<1> HIDE DEF c
<1>7. c.dev \in Device /\ (c.op = "Add" => mem[c.dev].token \in Token)
  BY <1>3, <1>4 DEF Store, Record
<1>8. TypeOK'
  <2>1. kept' \in [Device -> Token \cup {Absent}]
        /\ removed' \in [Device -> {"none", "gone", "unknown"}]
    BY <1>5, <1>6, <1>7 DEF IInv, TypeOK
  <2> QED BY <2>1, <1>1, ReturnKeepsStructure DEF TypeOK
<1>9. HistoryInv'
  <2>1. \A e \in Device : removed'[e] = "gone" =>
                            /\ mem[e] = Absent /\ file[e] = Absent
                            /\ e \notin late => disk[e] = Absent
    <3> SUFFICES ASSUME NEW e \in Device, removed'[e] = "gone"
                 PROVE  /\ mem[e] = Absent /\ file[e] = Absent
                        /\ e \notin late => disk[e] = Absent
      OBVIOUS
    <3>1. CASE removed[e] = "gone"
      BY <3>1 DEF IInv, HistoryInv
    <3>2. CASE removed[e] # "gone"
      BY <3>2, <1>3, <1>4, <1>6, <1>7 DEF IInv, TypeOK
    <3> QED BY <3>1, <3>2
  <2>2. ASSUME NEW e \in Device, kept'[e] # Absent
        PROVE  /\ file[e] # Absent /\ file[e].token = kept'[e] /\ mem = file
               /\ e \notin late => disk[e] # Absent /\ disk[e].token = kept'[e]
    <3>1. CASE c.op = "Add" /\ e = c.dev
      BY <3>1, <1>3, <1>4, <1>5, <1>7 DEF IInv, TypeOK
    <3>2. CASE ~(c.op = "Add" /\ e = c.dev)
      <4>1. kept'[e] = kept[e]
        BY <3>2, <1>5, <1>7 DEF IInv, TypeOK
      <4> QED BY <4>1, <2>2, <1>3 DEF IInv, HistoryInv
    <3> QED BY <3>1, <3>2
  <2> QED BY <2>1, <2>2, <1>2 DEF HistoryInv
<1> QED BY <1>2, <1>8, <1>9 DEF IInv

LEMMA RemoveUnknownStep ==
  ASSUME IInv, NEW p \in Proc, NEW d \in Device, RemoveUnknown(p, d)
  PROVE  IInv'
<1>1. \A e \in Device : removed'[e] = "gone" <=> removed[e] = "gone"
  BY DEF RemoveUnknown, IInv, TypeOK
<1>2. \A q \in Proc : pc[q] = "idle"
  BY NamesApart DEF RemoveUnknown, IInv, SnapshotIsCurrent
<1>3. TypeOK'
  BY DEF RemoveUnknown, IInv, TypeOK
<1>4. SnapshotIsCurrent' /\ CallInv' /\ WriterInv'
  BY <1>2 DEF RemoveUnknown, IInv, SnapshotIsCurrent, CallInv, WriterInv, WriteMuHasOwner
<1>5. HistoryInv'
  BY <1>1 DEF RemoveUnknown, IInv, HistoryInv
<1> QED BY <1>3, <1>4, <1>5 DEF IInv

(* A rename that is permanent binds the disk as it bound the file. *)
LEMMA WriteBackStep ==
  ASSUME IInv, WriteBack
  PROVE  IInv' /\ UNCHANGED <<mem, file>> /\ disk' = file
<1>1. disk' = file /\ late' = {} /\ file # Torn
      /\ UNCHANGED <<mem, file, flushed, writeMu, pc, snap, synced, call, up, kept, removed>>
  BY DEF WriteBack, IInv, WriterInv
<1>2. TypeOK' /\ SnapshotIsCurrent' /\ WriterInv'
  BY <1>1 DEF IInv, TypeOK, SnapshotIsCurrent, WriterInv, WriteMuHasOwner
<1>3. CallInv'
  BY <1>1 DEF IInv, CallInv
<1>4. HistoryInv'
  BY <1>1 DEF IInv, HistoryInv
<1> QED BY <1>1, <1>2, <1>3, <1>4 DEF IInv

(* A daemon that is gone leaves no goroutine and no lock behind.           *)
LEMMA HaltKeepsStructure ==
  ASSUME IInv, Halt, file' \in Store, flushed' = TRUE, late' \subseteq Device
  PROVE  /\ SnapshotIsCurrent' /\ WriterInv' /\ CallInv'
         /\ mem' = Empty /\ disk' = disk /\ up' = FALSE
         /\ mem' \in Store /\ file' \in Store \cup {Torn} /\ flushed' \in BOOLEAN
         /\ disk' \in Store \cup {Torn} /\ late' \subseteq Device
         /\ writeMu' \in Proc \cup {Free} /\ pc' \in [Proc -> Stage]
         /\ snap' \in [Proc -> Store] /\ synced' \in [Proc -> BOOLEAN]
         /\ call' \in [Proc -> [op : Op, dev : Device] \cup {Absent}]
         /\ up' \in BOOLEAN
<1>1. Empty \in Store /\ Torn \notin Store /\ \A q \in Proc : pc'[q] = "idle"
  BY NamesApart DEF Halt, Empty, Store, Record
<1>2. SnapshotIsCurrent' /\ CallInv'
  BY <1>1 DEF SnapshotIsCurrent, CallInv
<1>3. WriterInv'
  BY <1>1 DEF Halt, IInv, WriterInv, WriteMuHasOwner
<1>4. mem' \in Store /\ disk' \in Store \cup {Torn}
      /\ writeMu' \in Proc \cup {Free} /\ pc' \in [Proc -> Stage]
      /\ snap' \in [Proc -> Store] /\ synced' \in [Proc -> BOOLEAN]
      /\ call' \in [Proc -> [op : Op, dev : Device] \cup {Absent}]
  BY <1>1 DEF Halt, IInv, TypeOK, Stage
<1> QED BY <1>2, <1>3, <1>4 DEF Halt

LEMMA CrashStep == ASSUME IInv, Crash PROVE IInv' /\ mem' = Empty /\ UNCHANGED <<file, disk>>
<1>1. Halt /\ UNCHANGED <<file, flushed, kept, removed, late>>
      /\ file \in Store /\ flushed = TRUE /\ late \subseteq Device
  BY DEF Crash, IInv, TypeOK, WriterInv
<1>2. /\ SnapshotIsCurrent' /\ WriterInv' /\ CallInv'
      /\ mem' = Empty /\ disk' = disk /\ up' = FALSE
  BY <1>1, HaltKeepsStructure
<1>3. TypeOK'
  BY <1>1, HaltKeepsStructure DEF IInv, TypeOK
<1>4. HistoryInv'
  BY <1>1, <1>2 DEF IInv, HistoryInv, Empty
<1> QED BY <1>1, <1>2, <1>3, <1>4 DEF IInv

(* The file the power loss leaves is the one the last permanent rename     *)
(* published, and what is still counted on was counted on of that file.    *)
LEMMA PowerLossStep ==
  ASSUME IInv, PowerLoss
  PROVE  IInv' /\ mem' = Empty /\ file' = disk /\ disk' = disk
<1>1. Halt /\ file' = disk /\ flushed' = TRUE /\ late' = {} /\ disk \in Store
  BY DEF PowerLoss, IInv, TypeOK, WriterInv
<1>2. /\ SnapshotIsCurrent' /\ WriterInv' /\ CallInv'
      /\ mem' = Empty /\ disk' = disk /\ up' = FALSE
  BY <1>1, HaltKeepsStructure
<1>3. /\ kept' = [d \in Device |-> IF d \in late THEN Absent ELSE kept[d]]
      /\ removed' = [d \in Device |-> IF d \in late THEN "none" ELSE removed[d]]
  BY DEF PowerLoss
<1>4. TypeOK'
  <2>1. kept' \in [Device -> Token \cup {Absent}]
        /\ removed' \in [Device -> {"none", "gone", "unknown"}]
    BY <1>3 DEF IInv, TypeOK
  <2> QED BY <2>1, <1>1, HaltKeepsStructure DEF TypeOK
<1>5. HistoryInv'
  <2>1. \A d \in Device : removed'[d] = "gone" => mem'[d] = Absent /\ disk[d] = Absent
    BY <1>2, <1>3 DEF IInv, HistoryInv, Empty
  <2>2. \A d \in Device : kept'[d] # Absent => disk[d] # Absent /\ disk[d].token = kept'[d]
    BY <1>3 DEF IInv, HistoryInv
  <2> QED BY <2>1, <2>2, <1>1, <1>2 DEF HistoryInv
<1> QED BY <1>1, <1>2, <1>4, <1>5 DEF IInv

LEMMA BootStep ==
  ASSUME IInv, Boot \/ BootUnreadable
  PROVE  IInv' /\ UNCHANGED <<file, disk>> /\ (mem' = file \/ mem' = Empty)
<1>1. /\ UNCHANGED <<file, disk, late>> /\ file \in Store
      /\ (mem' = file /\ kept' = kept) \/ (mem' = Empty /\ kept' = [d \in Device |-> Absent])
      /\ Empty \in Store /\ \A q \in Proc : pc'[q] = "idle"
  BY DEF Boot, BootUnreadable, IInv, TypeOK, WriterInv, Empty, Store
<1>2. TypeOK'
  BY <1>1 DEF Boot, BootUnreadable, IInv, TypeOK
<1>3. SnapshotIsCurrent' /\ CallInv' /\ WriterInv'
  BY <1>1 DEF Boot, BootUnreadable, IInv, SnapshotIsCurrent, CallInv, WriterInv,
              WriteMuHasOwner
<1>4. HistoryInv'
  BY <1>1 DEF Boot, BootUnreadable, IInv, HistoryInv, Empty
<1> QED BY <1>1, <1>2, <1>3, <1>4 DEF IInv

-----------------------------------------------------------------------------
LEMMA InitIInv == Init => IInv
<1> SUFFICES ASSUME Init PROVE IInv
  OBVIOUS
<1>1. Empty \in Store /\ Empty # Torn
  BY NamesApart DEF Empty, Store, Record
<1>2. TypeOK
  BY <1>1 DEF Init, TypeOK, Stage
<1>3. SnapshotIsCurrent /\ WriterInv /\ CallInv
  BY <1>1 DEF Init, SnapshotIsCurrent, WriterInv, WriteMuHasOwner, CallInv
<1>4. HistoryInv
  BY DEF Init, HistoryInv
<1> QED BY <1>2, <1>3, <1>4 DEF IInv

LEMMA NextIInv == IInv /\ [Next]_vars => IInv'
<1> SUFFICES ASSUME IInv, [Next]_vars PROVE IInv'
  OBVIOUS
<1>1. ASSUME NEW p \in Proc, NEW d \in Device, NEW n \in Name, NEW t \in Token,
             NEW now \in Stamp, Add(p, d, n, t, now)
      PROVE  IInv'
  BY <1>1, AddStep
<1>2. ASSUME NEW p \in Proc, NEW d \in Device, Remove(p, d)
      PROVE  IInv'
  BY <1>2, RemoveStep
<1>3. ASSUME NEW p \in Proc, NEW d \in Device, RemoveUnknown(p, d)
      PROVE  IInv'
  BY <1>3, RemoveUnknownStep
<1>4. ASSUME NEW p \in Proc, NEW d \in Device, NEW now \in Stamp, Touch(p, d, now)
      PROVE  IInv'
  BY <1>4, TouchStep
<1>5. ASSUME NEW p \in Proc, NEW d \in Device, NEW n \in Name, Rename(p, d, n)
      PROVE  IInv'
  BY <1>5, RenameStep
<1>6. ASSUME NEW p \in Proc, Step(p)
      PROVE  IInv'
  BY <1>6, TempStep, RenameTempStep, ReturnOkStep, ReturnErrorStep DEF Step
<1>7. CASE WriteBack \/ Crash \/ PowerLoss \/ Boot \/ BootUnreadable
  BY <1>7, WriteBackStep, CrashStep, PowerLossStep, BootStep
<1>8. CASE UNCHANGED vars
  BY <1>8 DEF vars, IInv, TypeOK, SnapshotIsCurrent, WriterInv, WriteMuHasOwner, CallInv,
              HistoryInv
<1> QED BY <1>1, <1>2, <1>3, <1>4, <1>5, <1>6, <1>7, <1>8 DEF Next

LEMMA SpecIInv == Spec => []IInv
<1> QED BY InitIInv, NextIInv, PTL DEF Spec

(* Every variable keeps its type. *)
THEOREM TypeCorrect == Spec => []TypeOK
<1>1. IInv => TypeOK
  BY DEF IInv
<1> QED BY <1>1, SpecIInv, PTL

(* writeMu keeps an older snapshot from landing over a newer one. *)
THEOREM SnapshotsAreCurrent == Spec => []SnapshotIsCurrent
<1>1. IInv => SnapshotIsCurrent
  BY DEF IInv
<1> QED BY <1>1, SpecIInv, PTL

(* Whoever holds writeMu is a goroutine of the running daemon that still   *)
(* has file operations to do.                                              *)
THEOREM LockHasOwner == Spec => []WriteMuHasOwner
<1>1. IInv => WriteMuHasOwner
  BY DEF IInv, WriterInv
<1> QED BY <1>1, SpecIInv, PTL

(* A removal the caller was told about is never undone behind its back, by *)
(* a failing write, a dying process, a restart, or a power loss after the  *)
(* rename became permanent.                                                *)
THEOREM RemovalIsFinal == Spec => []ForgottenStaysForgotten
<1>1. IInv => ForgottenStaysForgotten
  BY DEF IInv, HistoryInv, ForgottenStaysForgotten, VerifyToken, IsPaired
<1> QED BY <1>1, SpecIInv, PTL

(* A pairing the caller was told about survives every failing write and    *)
(* dying process, and every power loss after its rename became permanent.  *)
THEOREM PairingIsDurable == Spec => []AckedPairingSurvives
<1>1. IInv => AckedPairingSurvives
  BY DEF IInv, HistoryInv, WriterInv, AckedPairingSurvives, VerifyToken, IsPaired
<1> QED BY <1>1, SpecIInv, PTL

-----------------------------------------------------------------------------
(* Which ledger step a store step is.  The file operations before the      *)
(* rename, and every return, are stutters.                                 *)

LEMMA LedgerDefs ==
  /\ Ledger!Record = Record /\ Ledger!Store = Store /\ Ledger!Empty = Empty
<1> QED BY DEF Ledger!Record, Record, Ledger!Store, Store, Ledger!Empty, Empty

LEMMA MutationsRefine ==
  ASSUME IInv, NEW p \in Proc, NEW d \in Device
  PROVE  /\ \A n \in Name, t \in Token, now \in Stamp :
              Add(p, d, n, t, now) => Ledger!Trust(d)
         /\ Remove(p, d) => Ledger!Forget(d)
         /\ \A now \in Stamp : Touch(p, d, now) => Ledger!Refresh(d)
         /\ \A n \in Name : Rename(p, d, n) => Ledger!Refresh(d)
<1>1. ASSUME NEW n \in Name, NEW t \in Token, NEW now \in Stamp, Add(p, d, n, t, now)
      PROVE  Ledger!Trust(d)
  <2>1. [name |-> n, token |-> t, seen |-> now] \in Record
    BY DEF Record
  <2> QED BY <1>1, <2>1, LedgerDefs DEF Add, Mutate, Ledger!Trust
<1>2. ASSUME Remove(p, d) PROVE Ledger!Forget(d)
  BY <1>2 DEF Remove, Mutate, IsPaired, Ledger!Forget
<1>3. ASSUME NEW now \in Stamp, Touch(p, d, now) PROVE Ledger!Refresh(d)
  <2> DEFINE r == [mem[d] EXCEPT !.seen = now]
  <2>1. mem[d] \in Record /\ mem[d] # Absent
    BY <1>3 DEF Touch, IsPaired, IInv, TypeOK, Store
  <2>2. r \in Record /\ r.token = mem[d].token
    BY <2>1 DEF Record
  <2>3. mem' = [mem EXCEPT ![d] = r] /\ UNCHANGED <<file, disk>>
    BY <1>3 DEF Touch, Mutate
  <2> HIDE DEF r
  <2> QED BY <2>1, <2>2, <2>3, LedgerDefs DEF Ledger!Refresh
<1>4. ASSUME NEW n \in Name, Rename(p, d, n) PROVE Ledger!Refresh(d)
  <2> DEFINE r == [mem[d] EXCEPT !.name = n]
  <2>1. mem[d] \in Record /\ mem[d] # Absent
    BY <1>4 DEF Rename, IsPaired, IInv, TypeOK, Store
  <2>2. r \in Record /\ r.token = mem[d].token
    BY <2>1 DEF Record
  <2>3. mem' = [mem EXCEPT ![d] = r] /\ UNCHANGED <<file, disk>>
    BY <1>4 DEF Rename, Mutate
  <2> HIDE DEF r
  <2> QED BY <2>1, <2>2, <2>3, LedgerDefs DEF Ledger!Refresh
<1> QED BY <1>1, <1>2, <1>3, <1>4

LEMMA StepRefines ==
  ASSUME IInv, [Next]_vars
  PROVE  [Ledger!Next]_(Ledger!vars)
<1>1. ASSUME NEW p \in Proc, NEW d \in Device,
             \/ \E n \in Name, t \in Token, now \in Stamp : Add(p, d, n, t, now)
             \/ Remove(p, d)
             \/ \E now \in Stamp : Touch(p, d, now)
             \/ \E n \in Name : Rename(p, d, n)
      PROVE  Ledger!Next
  BY <1>1, MutationsRefine DEF Ledger!Next
<1>2. ASSUME NEW p \in Proc, NEW d \in Device, RemoveUnknown(p, d)
      PROVE  UNCHANGED <<mem, file, disk>>
  BY <1>2 DEF RemoveUnknown
<1>3. ASSUME NEW p \in Proc, Step(p), ~RenameTemp(p)
      PROVE  UNCHANGED <<mem, file, disk>>
  BY <1>3 DEF Step, WriteTemp, SyncTemp, ReturnOk, ReturnError, Return
<1>4. ASSUME NEW p \in Proc, RenameTemp(p)
      PROVE  Ledger!Publish
  BY <1>4, RenameTempStep DEF Ledger!Publish
<1>5. CASE WriteBack \/ Crash \/ PowerLoss
  <2>1. WriteBack => Ledger!Settle
    BY WriteBackStep DEF Ledger!Settle
  <2>2. Crash => Ledger!Lose
    BY CrashStep, LedgerDefs DEF Ledger!Lose
  <2>3. PowerLoss => Ledger!FallBack
    BY PowerLossStep, LedgerDefs DEF Ledger!FallBack
  <2> QED BY <1>5, <2>1, <2>2, <2>3 DEF Ledger!Next
<1>6. CASE Boot \/ BootUnreadable
  BY <1>6, BootStep, LedgerDefs DEF Ledger!Lose, Ledger!Recall, Ledger!Next
<1>7. CASE UNCHANGED vars
  BY <1>7 DEF vars, Ledger!vars
<1> QED
  BY <1>1, <1>2, <1>3, <1>4, <1>5, <1>6, <1>7 DEF Next, Ledger!Next, Ledger!vars

(* The store implements the ledger, for every set of faults, the power     *)
(* loss that brings back an older trusted.json among them.                 *)
THEOREM StoreImplementsLedger == Spec => ImplementsLedger
<1>1. Init => Ledger!Init
  BY LedgerDefs DEF Init, Ledger!Init
<1>2. IInv /\ [Next]_vars => [Ledger!Next]_(Ledger!vars)
  BY StepRefines
<1> QED BY <1>1, <1>2, SpecIInv, PTL DEF Spec, ImplementsLedger, Ledger!Spec
=============================================================================
