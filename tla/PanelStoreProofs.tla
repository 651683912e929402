-------------------------- MODULE PanelStoreProofs --------------------------
(***************************************************************************)
(* Proofs about PanelStore, for every set of documents, every retention    *)
(* period, every cap and every number of audit entries: the store          *)
(* implements AtomicDoc, and neither forgets nor resurrects audit entries. *)
(***************************************************************************)
EXTENDS PanelStore, TLAPS

\* A process that serves requests has a document with a user or a server; a
\* request exists only while it serves, and knows what it will save.
ReqInv ==
    /\ phase = "serving" => db \in Writes
    /\ req # NoReq => phase = "serving"
    /\ req.next \in {"append", "save"} => req.doc \in Writes

\* What a store call in progress has already done.
CallInv ==
    /\ call.next = "snapshot" =>
            call.doc \in Writes /\ db = call.doc /\ phase \in {"startup", "serving"}
    /\ call.next = "import" => db = Nothing /\ file # Nothing
    /\ call.next \in {"import", "import_audit"} => phase \in {"init", "startup"}
    /\ call.next = "strip" => phase = "init"

\* What data.json still lists is in SQLite or was taken out on purpose -- or
\* nothing was moved yet.
FileInv ==
    \/ fileAudit \subseteq audit \cup gone
    \/ audit = {} /\ phase \in {"down", "init"} /\ call.next \notin {"snapshot", "strip"}

\* Neither table nor file holds a cleared entry, the table none that is about
\* to be confirmed as cleared, and no number is used twice.
ClearedInv ==
    /\ cleared \cap (audit \cup fileAudit) = {}
    /\ req.swept \cap audit = {}
    /\ audit \cup fileAudit \cup cleared \cup req.swept \subseteq 1..issued

IInv == TypeOK /\ ReqInv /\ CallInv /\ FileInv /\ NothingForgotten /\ ClearedInv

USE WritesAssumption, NoneAssumption, RetentionAssumption, BoundsAssumption

\* Pruning only removes entries (prune_audit).
LEMMA PrunedIsSubset ==
    ASSUME NEW entries, NEW days
    PROVE  Pruned(entries, days) \subseteq entries
BY DEF Pruned

\* What an append does to the log (append_audit): one new number, and whatever
\* leaves the log is accounted for.
LEMMA AppendKeepsLog ==
    ASSUME TypeOK, NEW entries \in SUBSET audit, NEW d, AppendTo(entries, d)
    PROVE  /\ issued \in Nat /\ issued' = issued + 1 /\ issued' \in 1..MaxEntry
           /\ audit' \subseteq audit \cup {issued'}
           /\ gone' \subseteq Entries
           /\ gone' \cup audit' = gone \cup audit \cup {issued'}
<1>1. issued \in 0..MaxEntry /\ issued' = issued + 1 /\ issued < MaxEntry
  BY DEF TypeOK, AppendTo
<1>2. issued \in Nat /\ issued' \in 1..MaxEntry
  BY <1>1
<1>3. audit' \subseteq entries \cup {issued'}
  BY PrunedIsSubset DEF AppendTo
<1>4. gone' = gone \cup ((audit \cup {issued'}) \ audit')
  BY DEF AppendTo
<1> QED
  BY <1>1, <1>2, <1>3, <1>4 DEF TypeOK, Entries

LEMMA InitIInv == Init => IInv
<1> SUFFICES ASSUME Init PROVE IInv
  OBVIOUS
<1>1. issued \in 0..MaxEntry /\ 1..issued \subseteq Entries /\ issued \in Nat
  BY DEF Init, Entries
<1>2. TypeOK
  BY <1>1 DEF Init, TypeOK, Docs, Blank, NoCall, NoReq, Entries
<1>3. ReqInv /\ CallInv
  BY DEF Init, ReqInv, CallInv, NoCall, NoReq
<1>4. FileInv
  BY DEF Init, FileInv, NoCall
<1>5. NothingForgotten /\ ClearedInv
  BY DEF Init, NothingForgotten, ClearedInv, NoReq
<1> QED
  BY <1>2, <1>3, <1>4, <1>5 DEF IInv

\* Steps that touch neither the log nor the number of entries.
LEMMA LogUnchanged ==
    ASSUME NothingForgotten, ClearedInv, UNCHANGED log, req'.swept \subseteq req.swept
    PROVE  NothingForgotten' /\ ClearedInv'
BY DEF NothingForgotten, ClearedInv, log

LEMMA BootSteps ==
    ASSUME IInv, Start \/ BootImport \/ BootAudit \/ BootNothing \/ LoadImports
    PROVE  IInv'
<1>1. UNCHANGED log /\ UNCHANGED req
  BY DEF Start, BootImport, BootAudit, BootNothing, LoadImports
<1>2. NothingForgotten' /\ ClearedInv'
  BY <1>1, LogUnchanged DEF IInv
<1>3. TypeOK'
  BY <1>1 DEF IInv, TypeOK, log, NoCall, Docs, Blank,
     Start, BootImport, BootAudit, BootNothing, LoadImports
<1>4. ReqInv'
  BY DEF IInv, ReqInv, Start, BootImport, BootAudit, BootNothing, LoadImports,
     NeedsImport, Blank, Bootstrapping
<1>5. CallInv'
  BY DEF IInv, TypeOK, ReqInv, CallInv, NoCall, NeedsImport, Blank, Bootstrapping,
     Start, BootImport, BootAudit, BootNothing, LoadImports
<1>6. FileInv'
  BY DEF IInv, FileInv, NoCall, log, Bootstrapping,
     Start, BootImport, BootAudit, BootNothing, LoadImports
<1> QED
  BY <1>2, <1>3, <1>4, <1>5, <1>6 DEF IInv

LEMMA ImportSteps ==
    ASSUME IInv, ImportDocument \/ ImportAudit \/ StripAudit
    PROVE  IInv'
<1>1. /\ UNCHANGED <<issued, horizon, cleared, gone, req, file>>
      /\ audit \subseteq audit' /\ audit' \subseteq audit \cup fileAudit
      /\ fileAudit' \subseteq fileAudit
      /\ phase \in {"init", "startup"}
  BY DEF IInv, CallInv, ImportDocument, ImportAudit, StripAudit, log
<1>2. TypeOK'
  BY <1>1 DEF IInv, TypeOK, NoCall, EndImport, log, ImportDocument, ImportAudit, StripAudit
<1>3. ReqInv'
  BY <1>1 DEF IInv, ReqInv, EndImport, ImportDocument, ImportAudit, StripAudit
<1>4. CallInv'
  BY <1>1 DEF IInv, TypeOK, CallInv, NoCall, EndImport, ImportDocument, ImportAudit, StripAudit
<1>5. FileInv'
  <2>1. CASE ImportDocument
    BY <1>1, <2>1 DEF IInv, TypeOK, CallInv, FileInv, EndImport, NoCall, log, ImportDocument
  <2>2. CASE ImportAudit
    BY <1>1, <2>2 DEF FileInv, ImportAudit
  <2>3. CASE StripAudit
    BY <1>1, <2>3 DEF IInv, FileInv, StripAudit
  <2> QED
    BY <2>1, <2>2, <2>3
<1>6. NothingForgotten'
  BY <1>1 DEF IInv, NothingForgotten, FileInv, log, ImportDocument, ImportAudit, StripAudit
<1>7. req.swept = {}
  BY <1>1 DEF IInv, ReqInv, NoReq
<1>8. ClearedInv'
  BY <1>1, <1>7 DEF IInv, ClearedInv
<1> QED
  BY <1>2, <1>3, <1>4, <1>5, <1>6, <1>8 DEF IInv

LEMMA StartupStep ==
    ASSUME IInv, Startup
    PROVE  IInv'
<1>1. /\ UNCHANGED <<file, fileAudit, issued, horizon, cleared, req>>
      /\ audit' \subseteq audit /\ gone' = gone \cup (audit \ audit')
      /\ phase = "startup" /\ call = NoCall /\ phase' \in {"startup", "serving"}
  BY PrunedIsSubset DEF Startup
<1>2. TypeOK'
  BY <1>1 DEF IInv, TypeOK, Startup, WriteDb, Docs
<1>3. ReqInv'
  BY <1>1 DEF IInv, TypeOK, ReqInv, Startup, WriteDb, Docs
<1>4. CallInv'
  BY <1>1 DEF IInv, CallInv, Startup, WriteDb, NoCall
<1>5. FileInv'
  BY <1>1 DEF IInv, FileInv
<1>6. NothingForgotten' /\ ClearedInv'
  BY <1>1 DEF IInv, NothingForgotten, ClearedInv
<1> QED
  BY <1>2, <1>3, <1>4, <1>5, <1>6 DEF IInv

LEMMA SaveSteps ==
    ASSUME IInv, SaveDocument \/ SaveRequest \/ SaveRejected
    PROVE  IInv'
<1>1. UNCHANGED log /\ phase = "serving" /\ UNCHANGED <<phase, file>>
  BY DEF SaveDocument, SaveRequest, SaveRejected, Idle
<1>2. req' = req \/ req' = [req EXCEPT !.next = "saving"] \/ req' = NoReq
  BY DEF SaveDocument, SaveRequest, SaveRejected
<1>3. req'.swept \subseteq req.swept
  BY <1>2 DEF IInv, TypeOK, NoReq
<1>4. NothingForgotten' /\ ClearedInv'
  BY <1>1, <1>3, LogUnchanged DEF IInv
<1>5. TypeOK'
  BY <1>1, <1>2 DEF IInv, TypeOK, ReqInv, log, NoReq, WriteDb, Docs,
     SaveDocument, SaveRequest, SaveRejected
<1>6. ReqInv'
  BY <1>1, <1>2 DEF IInv, TypeOK, ReqInv, NoReq, WriteDb, SaveDocument, SaveRequest, SaveRejected
<1>7. CallInv'
  BY <1>1 DEF IInv, ReqInv, CallInv, WriteDb, NoCall, SaveDocument, SaveRequest, SaveRejected
<1>8. FileInv'
  BY <1>1 DEF IInv, FileInv, log
<1> QED
  BY <1>4, <1>5, <1>6, <1>7, <1>8 DEF IInv

LEMMA SnapshotStep ==
    ASSUME IInv, Snapshot
    PROVE  IInv'
<1>1. /\ call.doc \in Writes /\ db = call.doc
      /\ phase \in {"startup", "serving"}
      /\ fileAudit \subseteq audit \cup gone
  BY DEF IInv, CallInv, FileInv, Snapshot
<1>2. req' \in {NoReq, [req EXCEPT !.next = "note"], req}
  BY DEF Snapshot
<1>3. TypeOK'
  BY <1>1, <1>2 DEF IInv, TypeOK, Snapshot, NoReq, NoCall, Docs
<1>4. ReqInv'
  BY <1>1, <1>2 DEF IInv, TypeOK, ReqInv, Snapshot, NoReq
<1>5. CallInv' /\ FileInv'
  BY DEF CallInv, FileInv, Snapshot, NoCall
<1>6. NothingForgotten'
  BY <1>1 DEF IInv, NothingForgotten, Snapshot
<1>7. req'.swept \subseteq req.swept
  BY <1>2 DEF IInv, TypeOK, NoReq
<1>8. ClearedInv'
  BY <1>7 DEF IInv, ClearedInv, Snapshot
<1> QED
  BY <1>3, <1>4, <1>5, <1>6, <1>8 DEF IInv

LEMMA FailureSteps ==
    ASSUME IInv, SnapshotFails \/ Crash
    PROVE  IInv'
<1>1. UNCHANGED log /\ UNCHANGED <<db, file>> /\ call' = NoCall /\ req' \in {req, NoReq}
  BY DEF SnapshotFails, Crash
<1>2. req'.swept \subseteq req.swept
  BY <1>1 DEF NoReq
<1>3. NothingForgotten' /\ ClearedInv'
  BY <1>1, <1>2, LogUnchanged DEF IInv
<1>4. TypeOK'
  BY <1>1 DEF IInv, TypeOK, log, NoCall, NoReq, SnapshotFails, Crash
<1>5. ReqInv'
  BY <1>1 DEF IInv, ReqInv, CallInv, NoReq, SnapshotFails, Crash
<1>6. CallInv'
  BY <1>1 DEF CallInv, NoCall
<1>7. FileInv'
  BY <1>1 DEF IInv, FileInv, log, NoCall, SnapshotFails, Crash
<1> QED
  BY <1>3, <1>4, <1>5, <1>6, <1>7 DEF IInv

LEMMA AppendSteps ==
    ASSUME IInv, AuditedEdit \/ SaveAuditSettings \/ NoteClearing \/ NoteRestore
    PROVE  IInv'
<1>1. PICK entries \in SUBSET audit, d \in Docs \cup {None} : AppendTo(entries, d)
  BY PrunedIsSubset DEF IInv, TypeOK, Docs, AuditedEdit, SaveAuditSettings, NoteClearing, NoteRestore
<1>2. /\ issued \in Nat /\ issued' = issued + 1 /\ issued' \in 1..MaxEntry
      /\ audit' \subseteq audit \cup {issued'}
      /\ gone' \subseteq Entries
      /\ gone' \cup audit' = gone \cup audit \cup {issued'}
  BY <1>1, AppendKeepsLog DEF IInv
<1>3. /\ UNCHANGED <<db, file, fileAudit, horizon, cleared, phase, call>>
      /\ phase = "serving" /\ call = NoCall
  BY DEF AuditedEdit, SaveAuditSettings, NoteClearing, NoteRestore, Idle
<1>4. /\ req' \in [next : {"none", "save"}, doc : Writes \cup {None}, swept : SUBSET Entries]
      /\ req'.swept \subseteq req.swept
      /\ req'.next = "save" => req'.doc \in Writes
  <2>1. CASE AuditedEdit \/ SaveAuditSettings
    BY <2>1 DEF NoReq, AuditedEdit, SaveAuditSettings
  <2>2. CASE NoteClearing
    BY <2>2 DEF IInv, TypeOK, ReqInv, NoteClearing
  <2>3. CASE NoteRestore
    BY <2>3 DEF NoReq, NoteRestore
  <2> QED
    BY <2>1, <2>2, <2>3
<1>5. TypeOK'
  <2>1. audit' \subseteq Entries /\ fileAudit' \subseteq Entries /\ cleared' \subseteq Entries
    BY <1>2, <1>3 DEF IInv, TypeOK, Entries
  <2>2. issued' \in 0..MaxEntry /\ horizon' \in 0..issued'
    BY <1>2, <1>3 DEF IInv, TypeOK
  <2>3. UNCHANGED answer
    BY DEF AuditedEdit, SaveAuditSettings, NoteClearing, NoteRestore
  <2> QED
    BY <1>2, <1>3, <1>4, <2>1, <2>2, <2>3 DEF IInv, TypeOK
<1>6. ReqInv' /\ CallInv'
  BY <1>3, <1>4 DEF IInv, ReqInv, CallInv
<1>7. FileInv'
  BY <1>2, <1>3 DEF IInv, FileInv
<1>8. NothingForgotten'
  BY <1>2, <1>3 DEF IInv, NothingForgotten
<1>9. ClearedInv'
  BY <1>2, <1>3, <1>4 DEF IInv, ClearedInv
<1> QED
  BY <1>5, <1>6, <1>7, <1>8, <1>9 DEF IInv

LEMMA ClearStep ==
    ASSUME IInv, ClearAuditLog
    PROVE  IInv'
<1> USE DEF ClearAuditLog, IInv
<1>1. TypeOK'
  BY DEF TypeOK, ReqInv, Idle
<1>2. ReqInv' /\ CallInv'
  BY DEF ReqInv, CallInv, Idle
<1>3. FileInv'
  BY DEF FileInv, Idle
<1>4. NothingForgotten' /\ ClearedInv'
  BY DEF NothingForgotten, ClearedInv
<1> QED
  BY <1>1, <1>2, <1>3, <1>4

LEMMA RestoreStep ==
    ASSUME IInv, RestoreBackup
    PROVE  IInv'
<1> USE DEF IInv
<1>1. PICK d \in Writes, entries \in SUBSET (1..issued) :
        /\ WriteDb(d)
        /\ audit' = entries
        /\ gone' = gone \cup (audit \ entries)
        /\ cleared' = cleared \ entries
        /\ req' = [NoReq EXCEPT !.next = "replacing", !.doc = d]
  BY DEF RestoreBackup
<1>2. /\ UNCHANGED <<file, fileAudit, issued, horizon, phase, answer>>
      /\ phase = "serving"
  BY DEF RestoreBackup, Idle
<1>3. 1..issued \subseteq Entries
  BY DEF TypeOK, Entries
<1>4. req' = [next |-> "replacing", doc |-> d, swept |-> {}]
  BY <1>1 DEF NoReq
<1>5. TypeOK'
  BY <1>1, <1>2, <1>3, <1>4 DEF TypeOK, WriteDb, Docs
<1>6. ReqInv' /\ CallInv'
  BY <1>1, <1>2, <1>4 DEF ReqInv, CallInv, WriteDb
<1>7. FileInv'
  BY <1>1, <1>2 DEF FileInv
<1>8. NothingForgotten'
  BY <1>1, <1>2 DEF NothingForgotten
<1>9. ClearedInv'
  <2>1. cleared' \cap (audit' \cup fileAudit') = {}
    BY <1>1, <1>2 DEF ClearedInv
  <2>2. req'.swept = {}
    BY <1>4
  <2>3. audit' \cup fileAudit' \cup cleared' \subseteq 1..issued'
    <3>1. fileAudit \cup cleared \subseteq 1..issued
      BY DEF ClearedInv
    <3> QED
      BY <1>1, <1>2, <3>1
  <2> QED
    BY <2>1, <2>2, <2>3 DEF ClearedInv
<1> QED
  BY <1>5, <1>6, <1>7, <1>8, <1>9

LEMMA PruneStep ==
    ASSUME IInv, PruneLog
    PROVE  IInv'
<1> USE DEF PruneLog, IInv
<1>1. Pruned(audit, Retention[db]) \subseteq audit
  BY PrunedIsSubset
<1>2. TypeOK'
  BY <1>1 DEF TypeOK
<1>3. ReqInv' /\ CallInv'
  BY DEF ReqInv, CallInv
<1>4. FileInv'
  BY DEF FileInv, Idle
<1>5. NothingForgotten' /\ ClearedInv'
  BY <1>1 DEF NothingForgotten, ClearedInv
<1> QED
  BY <1>2, <1>3, <1>4, <1>5

LEMMA QuietSteps ==
    ASSUME IInv, Age \/ UNCHANGED vars
    PROVE  IInv'
<1>1. /\ UNCHANGED <<db, file, audit, fileAudit, issued, cleared, gone, phase, call, req, answer>>
      /\ horizon' \in {issued, horizon}
  BY DEF Age, vars
<1>2. TypeOK'
  BY <1>1 DEF IInv, TypeOK
<1> QED
  BY <1>1, <1>2 DEF IInv, ReqInv, CallInv, FileInv, NothingForgotten, ClearedInv

LEMMA NextIInv == IInv /\ [Next]_vars => IInv'
<1> SUFFICES ASSUME IInv, [Next]_vars PROVE IInv'
  OBVIOUS
<1>1. CASE Start \/ BootImport \/ BootAudit \/ BootNothing \/ LoadImports
  BY <1>1, BootSteps
<1>2. CASE ImportDocument \/ ImportAudit \/ StripAudit
  BY <1>2, ImportSteps
<1>3. CASE Startup
  BY <1>3, StartupStep
<1>4. CASE SaveDocument \/ SaveRequest \/ SaveRejected
  BY <1>4, SaveSteps
<1>5. CASE Snapshot
  BY <1>5, SnapshotStep
<1>6. CASE SnapshotFails \/ Crash
  BY <1>6, FailureSteps
<1>7. CASE AuditedEdit \/ SaveAuditSettings \/ NoteClearing \/ NoteRestore
  BY <1>7, AppendSteps
<1>8. CASE ClearAuditLog
  BY <1>8, ClearStep
<1>9. CASE RestoreBackup
  BY <1>9, RestoreStep
<1>10. CASE Age \/ UNCHANGED vars
  BY <1>10, QuietSteps
<1>11. CASE PruneLog
  BY <1>11, PruneStep
<1> QED
  BY <1>1, <1>2, <1>3, <1>4, <1>5, <1>6, <1>7, <1>8, <1>9, <1>10, <1>11 DEF Next

\* The inductive invariant holds in every reachable state.
THEOREM StoreIInv == Spec => []IInv
<1>1. Init => IInv
  BY InitIInv
<1>2. IInv /\ [Next]_vars => IInv'
  BY NextIInv
<1> QED
  BY <1>1, <1>2, PTL DEF Spec

\* Type correctness of the store's state.
THEOREM StoreTypeCorrect == Spec => []TypeOK
<1>1. IInv => TypeOK
  BY DEF IInv
<1> QED
  BY <1>1, StoreIInv, PTL

\* The migration from data.json, crashes in the middle of it included, loses no
\* audit entry.
THEOREM AuditKept == Spec => []NothingForgotten
<1>1. IInv => NothingForgotten
  BY DEF IInv
<1> QED
  BY <1>1, StoreIInv, PTL

\* No restart brings a cleared audit entry back.
THEOREM ClearingKept == Spec => []ClearedStaysCleared
<1>1. IInv => ClearedStaysCleared
  BY DEF IInv, ClearedInv, ClearedStaysCleared
<1> QED
  BY <1>1, StoreIInv, PTL

-----------------------------------------------------------------------------
(* The refinement *)

pending == IF call.next = "snapshot" THEN call.doc ELSE None

LEMMA SavesAreCalls ==
    ASSUME IInv, SaveDocument \/ SaveRequest \/ RestoreBackup
    PROVE  Atomic!Call
<1>1. PICK d \in Writes : WriteDb(d)
  BY DEF IInv, ReqInv, SaveDocument, SaveRequest, RestoreBackup
<1>2. UNCHANGED answer /\ call = NoCall
  BY DEF SaveDocument, SaveRequest, RestoreBackup, Idle
<1>3. Effective' = d
  BY <1>1 DEF WriteDb, Effective, NeedsImport, Blank
<1> QED
  BY <1>1, <1>2, <1>3 DEF Atomic!Call, WriteDb, NoCall

LEMMA StartupIsCallOrStutter ==
    ASSUME IInv, Startup
    PROVE  Atomic!Call \/ UNCHANGED <<Effective, pending, answer>>
<1>1. CASE db' = db /\ call' = call
  BY <1>1 DEF Startup, Effective, NeedsImport, pending
<1>2. CASE \E d \in Writes : WriteDb(d)
  <2>1. PICK d \in Writes : WriteDb(d)
    BY <1>2
  <2>2. Effective' = d
    BY <2>1 DEF WriteDb, Effective, NeedsImport, Blank
  <2> QED
    BY <2>1, <2>2 DEF Atomic!Call, WriteDb, NoCall, Startup
<1> QED
  BY <1>1, <1>2 DEF Startup

LEMMA SnapshotReturns ==
    ASSUME IInv, Snapshot
    PROVE  Atomic!Return
<1>1. call.doc \in Writes /\ db = call.doc /\ call.doc # None
  BY DEF IInv, CallInv, Snapshot, Docs
<1>2. Effective' = call.doc
  BY <1>1 DEF Snapshot, Effective, NeedsImport, Blank
<1> QED
  BY <1>1, <1>2 DEF Atomic!Return, Snapshot, NoCall

LEMMA FailuresFail ==
    ASSUME IInv, SnapshotFails \/ Crash
    PROVE  Atomic!Fail \/ UNCHANGED <<Effective, pending, answer>>
<1>1. UNCHANGED <<db, file>> /\ call' = NoCall
  BY DEF SnapshotFails, Crash
<1>2. Effective' = Effective
  BY <1>1 DEF Effective, NeedsImport
<1>3. CASE call.next = "snapshot"
  <2>1. call.doc # None /\ answer' = "failed"
    BY <1>3 DEF IInv, CallInv, Docs, SnapshotFails, Crash
  <2> QED
    BY <1>1, <1>2, <1>3, <2>1 DEF Atomic!Fail, NoCall
<1>4. CASE call.next # "snapshot"
  BY <1>1, <1>2, <1>4 DEF SnapshotFails, Crash, NoCall, pending
<1> QED
  BY <1>3, <1>4

LEMMA ImportsStutter ==
    ASSUME IInv, LoadImports \/ ImportDocument
    PROVE  UNCHANGED <<Effective, pending, answer>>
<1>1. CASE LoadImports
  BY <1>1 DEF LoadImports, NeedsImport, Effective, Blank, NoCall, pending
<1>2. CASE ImportDocument
  BY <1>2 DEF IInv, CallInv, ImportDocument, NeedsImport, Effective, Blank, EndImport,
     NoCall, TypeOK, pending
<1> QED
  BY <1>1, <1>2

LEMMA OthersStutter ==
    ASSUME IInv,
           \/ Start \/ BootImport \/ BootAudit \/ BootNothing
           \/ ImportAudit \/ StripAudit
           \/ AuditedEdit \/ SaveAuditSettings \/ ClearAuditLog \/ NoteClearing
           \/ SaveRejected \/ NoteRestore \/ PruneLog \/ Age \/ UNCHANGED vars
    PROVE  UNCHANGED <<Effective, pending, answer>>
<1>1. UNCHANGED <<db, file, answer>>
  BY DEF Start, BootImport, BootAudit, BootNothing, ImportAudit, StripAudit, AuditedEdit,
     SaveAuditSettings, ClearAuditLog, NoteClearing, SaveRejected, NoteRestore, PruneLog,
     Age, vars
<1>2. UNCHANGED call \/ (call.next # "snapshot" /\ call'.next # "snapshot")
  <2>1. CASE BootImport \/ BootAudit
    BY <2>1 DEF BootImport, BootAudit, Bootstrapping, NoCall
  <2>2. CASE ImportAudit
    BY <2>2 DEF ImportAudit, EndImport, NoCall, IInv, TypeOK
  <2>3. CASE StripAudit
    BY <2>3 DEF StripAudit, EndImport, NoCall
  <2>4. CASE ~(BootImport \/ BootAudit \/ ImportAudit \/ StripAudit)
    BY <2>4 DEF Start, BootNothing, AuditedEdit, SaveAuditSettings, ClearAuditLog,
       NoteClearing, SaveRejected, NoteRestore, PruneLog, Age, vars
  <2> QED
    BY <2>1, <2>2, <2>3, <2>4
<1> QED
  BY <1>1, <1>2 DEF Effective, NeedsImport, pending

LEMMA StepRefines ==
    ASSUME IInv, [Next]_vars
    PROVE  [Atomic!Next]_<<Effective, pending, answer>>
BY SavesAreCalls, StartupIsCallOrStutter, SnapshotReturns, FailuresFail, ImportsStutter,
   OthersStutter DEF Next, Atomic!Next

\* The store implements AtomicDoc: two copies written one after the other, an
\* import, a crash and a restart behave as one document that only save_all
\* changes.
THEOREM StoreIsAtomic == Spec => AtomicSaves
<1>1. Init => Atomic!Init
  BY DEF Init, Atomic!Init, Effective, NeedsImport, Docs, Blank, NoCall
<1>2. IInv /\ [Next]_vars => [Atomic!Next]_<<Effective, pending, answer>>
  BY StepRefines
<1>3. Spec => []IInv
  BY StoreIInv
<1> QED
  BY <1>1, <1>2, <1>3, PTL DEF Spec, AtomicSaves, Atomic!Spec, pending
=============================================================================
