----------------------------- MODULE PanelStore -----------------------------
(***************************************************************************)
(* storage/store.py: the panel document in SQLite, its JSON snapshot, and  *)
(* the audit log, which lives in SQLite only.                              *)
(*                                                                         *)
(* Every SQL transaction and every os.replace of the snapshot is one step; *)
(* the process may die between any two.  Only the prune that follows an    *)
(* append is in the step of the append.  Store._lock makes a store call    *)
(* exclude the others, so at most one is in progress (variable call).      *)
(* An audited request makes its store calls without an await in between,   *)
(* so the event loop admits one at a time (variable req); the saves of     *)
(* worker threads may separate its calls.                                  *)
(*                                                                         *)
(* Audit entries are numbered in the order of their timestamps.  Time is   *)
(* one line: entries up to horizon are older than the retention period.    *)
(***************************************************************************)
EXTENDS Integers, FiniteSets

CONSTANTS
    Writes,    \* documents with a user or a server, which handlers save
    Bare,      \* a document with settings but no user and no server
    Nothing,   \* no rows at all; no file
    None,      \* no call, no request
    Retention, \* [Writes \cup {Bare, Nothing} -> Nat]: audit.retention_days
    Default,   \* the 30 days append_audit falls back to
    Cap,       \* MAX_AUDIT_ENTRIES
    MaxEntry   \* bound of the model: entries ever recorded

Blank == {Bare, Nothing}
Docs == Writes \cup Blank
Entries == 1..MaxEntry

\* Only an uploaded backup can be blank: the panel never deletes its last user.
ASSUME WritesAssumption == Writes \cap Blank = {} /\ Bare # Nothing
ASSUME NoneAssumption == None \notin Docs
ASSUME RetentionAssumption == Retention \in [Docs -> Nat] /\ Default \in Nat \ {0}
ASSUME BoundsAssumption == Cap \in Nat \ {0} /\ MaxEntry \in Nat

VARIABLES
    db,        \* the document in SQLite
    file,      \* the document in data.json
    audit,     \* audit entries in SQLite
    fileAudit, \* audit entries in data.json
    issued,    \* number of the last entry
    horizon,   \* entries up to this one are past the retention period
    phase,     \* of the process: down, starting (Store.init, then startup), serving
    call,      \* the store call in progress: its next transaction, and its document
    req,       \* the audited request in progress: its next store call
    answer,    \* how the last save_all ended
    cleared,   \* entries whose clearing was confirmed
    gone       \* entries taken out of the log on purpose

vars == <<db, file, audit, fileAudit, issued, horizon, phase, call, req,
          answer, cleared, gone>>
log == <<audit, fileAudit, issued, horizon, cleared, gone>>

NoCall == [next |-> "none", doc |-> None]
NoReq == [next |-> "none", doc |-> None, swept |-> {}]

TypeOK ==
    /\ db \in Docs /\ file \in Docs
    /\ audit \subseteq Entries /\ fileAudit \subseteq Entries
    /\ issued \in 0..MaxEntry /\ horizon \in 0..issued
    /\ phase \in {"down", "init", "startup", "serving"}
    /\ call \in [next : {"none", "snapshot", "import", "import_audit", "strip"},
                 doc : Writes \cup {None}]
    /\ req \in [next : {"none", "append", "save", "saving", "replacing", "note"},
                doc : Writes \cup {None}, swept : SUBSET Entries]
    /\ answer \in {"ok", "failed"}
    /\ cleared \subseteq Entries /\ gone \subseteq Entries

\* A new installation; an upgrade from the JSON-only releases; a restart; a
\* database that a blank backup emptied just before the process died.
Init ==
    /\ \/ db = Nothing /\ file = Nothing /\ issued = 0
       \/ db = Nothing /\ file \in Writes
       \/ db \in Writes /\ file = db
       \/ db = Bare /\ file \in Writes /\ issued = 0
    /\ issued \in 0..(MaxEntry - 2)
    /\ IF db = Nothing
       THEN audit = {} /\ fileAudit = 1..issued
       ELSE audit = 1..issued /\ fileAudit = {}
    /\ horizon = 0
    /\ phase = "down"
    /\ call = NoCall /\ req = NoReq
    /\ answer = "ok"
    /\ cleared = {} /\ gone = {}

-----------------------------------------------------------------------------
(* Helpers *)

\* prune_audit: entries past their age go unless days is 0, then the oldest
\* ones beyond the cap.
Pruned(entries, days) ==
    LET young == IF days > 0 THEN {e \in entries : e > horizon} ELSE entries
    IN  {e \in young : Cardinality({f \in young : f > e}) < Cap}

\* int(cfg.get('retention_days') or 30)
DaysToKeep(d) == IF Retention[d] = 0 THEN Default ELSE Retention[d]

\* append_audit(): the new entry is committed, then the log is pruned.
AppendTo(entries, d) ==
    /\ issued < MaxEntry
    /\ issued' = issued + 1
    /\ audit' = Pruned(entries \cup {issued'}, DaysToKeep(d))
    /\ gone' = gone \cup ((audit \cup {issued'}) \ audit')

\* load_all() falls back to the snapshot.
NeedsImport == db \in Blank /\ file # Nothing

Idle == phase = "serving" /\ call = NoCall

\* save_all(d), first half: the transaction of _write_to_db.
WriteDb(d) == db' = d /\ call' = [next |-> "snapshot", doc |-> d]

-----------------------------------------------------------------------------
(* Starting the process: Store.init() and _bootstrap_from_json_if_needed() *)

Start == phase = "down" /\ phase' = "init" /\ UNCHANGED <<db, file, log, call, req, answer>>

Bootstrapping == phase = "init" /\ call = NoCall

\* Mutant: the rows in SQLite are not looked at.
BootImportAlways ==
    /\ Bootstrapping
    /\ file # Nothing
    /\ call' = [NoCall EXCEPT !.next = "import"]
    /\ UNCHANGED <<db, file, log, phase, req, answer>>

\* The transaction that clears the tables has nothing to clear here.
BootImport ==
    /\ Bootstrapping
    /\ db = Nothing /\ file # Nothing
    /\ call' = [NoCall EXCEPT !.next = "import"]
    /\ UNCHANGED <<db, file, log, phase, req, answer>>

\* "Still import audit_log once if SQLite audit is empty."
BootAudit ==
    /\ Bootstrapping
    /\ db # Nothing /\ audit = {} /\ fileAudit # {}
    /\ call' = [NoCall EXCEPT !.next = "import_audit"]
    /\ UNCHANGED <<db, file, log, phase, req, answer>>

BootNothing ==
    /\ Bootstrapping
    /\ db = Nothing => file = Nothing
    /\ audit = {} => fileAudit = {}
    /\ phase' = "startup"
    /\ UNCHANGED <<db, file, log, call, req, answer>>

\* load_all() by the startup hook or by a handler; first _import_document
\* clears the tables.
LoadImports ==
    /\ phase \in {"startup", "serving"}
    /\ call = NoCall
    /\ NeedsImport
    /\ db' = Nothing
    /\ call' = [NoCall EXCEPT !.next = "import"]
    /\ UNCHANGED <<file, log, phase, req, answer>>

\* What the import does once nothing is left to import.
EndImport == call' = NoCall /\ phase' = IF phase = "init" THEN "startup" ELSE phase

\* Mutant: the entries are left in the file.
ImportDocumentOnly ==
    /\ call.next = "import"
    /\ db' = file
    /\ EndImport
    /\ UNCHANGED <<file, log, req, answer>>

ImportDocument ==
    /\ call.next = "import"
    /\ db' = file
    /\ IF fileAudit = {}
       THEN EndImport
       ELSE call' = [call EXCEPT !.next = "import_audit"] /\ UNCHANGED phase
    /\ UNCHANGED <<file, log, req, answer>>

ImportAudit ==
    /\ call.next = "import_audit"
    /\ audit' = audit \cup fileAudit
    /\ IF phase = "init"
       THEN call' = [call EXCEPT !.next = "strip"] /\ UNCHANGED phase
       ELSE EndImport
    /\ UNCHANGED <<db, file, fileAudit, issued, horizon, cleared, gone, req, answer>>

\* _strip_audit_from_json_file; a failure is only logged.
StripAudit ==
    /\ call.next = "strip"
    /\ fileAudit' \in {{}, fileAudit}
    /\ EndImport
    /\ UNCHANGED <<db, file, audit, issued, horizon, cleared, gone, req, answer>>

\* Mutant: an empty list of users is saved as it is.
StartupWithoutAdmin ==
    /\ phase = "startup" /\ call = NoCall /\ ~NeedsImport
    /\ audit' = Pruned(audit, Retention[db])
    /\ gone' = gone \cup (audit \ audit')
    /\ WriteDb(db)
    /\ UNCHANGED <<file, fileAudit, issued, horizon, cleared, req, answer, phase>>

\* The startup hook prunes the log, creates the first admin when there is no
\* user, migrates old fields, and saves when any of these changed something.
Startup ==
    /\ phase = "startup" /\ call = NoCall /\ ~NeedsImport
    /\ audit' = Pruned(audit, Retention[db])
    /\ gone' = gone \cup (audit \ audit')
    /\ UNCHANGED <<file, fileAudit, issued, horizon, cleared, req, answer>>
    /\ \/ /\ db \notin Blank /\ audit' = audit
          /\ phase' = "serving"
          /\ UNCHANGED <<db, call>>
       \/ /\ \E d \in Writes : WriteDb(d)
          /\ UNCHANGED phase

-----------------------------------------------------------------------------
(* Saving *)

\* save_data() of a handler that is not audited, or of a worker thread.
SaveDocument == \E d \in Writes :
    /\ Idle
    /\ WriteDb(d)
    /\ UNCHANGED <<file, log, phase, req, answer>>

\* Mutant: the entries in the old file are kept, like its unknown keys.
SnapshotKeepsAudit ==
    /\ call.next = "snapshot"
    /\ file' = call.doc
    /\ call' = NoCall
    /\ answer' = "ok"
    /\ phase' = "serving"
    /\ cleared' = IF req.next = "saving" THEN cleared \cup req.swept ELSE cleared
    /\ req' = CASE req.next = "saving" -> NoReq
                [] req.next = "replacing" -> [req EXCEPT !.next = "note"]
                [] OTHER -> req
    /\ UNCHANGED <<db, audit, fileAudit, issued, horizon, gone>>

\* _write_json_snapshot: the new file replaces the old one and has no entries.
Snapshot ==
    /\ call.next = "snapshot"
    /\ file' = call.doc
    /\ fileAudit' = {}
    /\ call' = NoCall
    /\ answer' = "ok"
    /\ phase' = "serving"
    /\ cleared' = IF req.next = "saving" THEN cleared \cup req.swept ELSE cleared
    /\ req' = CASE req.next = "saving" -> NoReq
                [] req.next = "replacing" -> [req EXCEPT !.next = "note"]
                [] OTHER -> req
    /\ UNCHANGED <<db, audit, issued, horizon, gone>>

\* The file cannot be written: save_all raises after SQLite has committed; at
\* startup that ends the process.
SnapshotFails ==
    /\ call.next = "snapshot"
    /\ call' = NoCall
    /\ answer' = "failed"
    /\ phase' = IF phase = "startup" THEN "down" ELSE phase
    /\ req' = IF req.next \in {"saving", "replacing"} THEN NoReq ELSE req
    /\ UNCHANGED <<db, file, log>>

-----------------------------------------------------------------------------
(* Audited requests *)

\* _audit(request, data, ...) and then save_data(data), of a handler that
\* leaves settings.audit alone.
AuditedEdit == \E d \in Writes :
    /\ Idle /\ req = NoReq
    /\ Retention[d] = Retention[db]
    /\ AppendTo(audit, d)
    /\ req' = [NoReq EXCEPT !.next = "save", !.doc = d]
    /\ UNCHANGED <<db, file, fileAudit, horizon, cleared, phase, call, answer>>

\* api_save_audit_settings prunes by the new settings before it appends.
SaveAuditSettings == \E d \in Writes :
    /\ Idle /\ req = NoReq
    /\ AppendTo(Pruned(audit, Retention[d]), d)
    /\ req' = [NoReq EXCEPT !.next = "save", !.doc = d]
    /\ UNCHANGED <<db, file, fileAudit, horizon, cleared, phase, call, answer>>

\* api_clear_audit_log: clear_audit, then append_audit, then save_data.
ClearAuditLog ==
    /\ Idle /\ req = NoReq
    /\ audit' = {}
    /\ gone' = gone \cup audit
    /\ req' = [next |-> "append", doc |-> db, swept |-> audit]
    /\ UNCHANGED <<db, file, fileAudit, issued, horizon, cleared, phase, call, answer>>

NoteClearing ==
    /\ Idle /\ req.next = "append"
    /\ AppendTo(audit, req.doc)
    /\ req' = [req EXCEPT !.next = "save"]
    /\ UNCHANGED <<db, file, fileAudit, horizon, cleared, phase, call, answer>>

SaveRequest ==
    /\ Idle /\ req.next = "save"
    /\ WriteDb(req.doc)
    /\ req' = [req EXCEPT !.next = "saving"]
    /\ UNCHANGED <<file, log, phase, answer>>

\* A unique column rejects a row: the transaction rolls back, the request
\* fails, and its audit entry stays.
SaveRejected ==
    /\ Idle /\ req.next = "save"
    /\ req' = NoReq
    /\ UNCHANGED <<db, file, log, phase, call, answer>>

\* api_backup_restore replaces the document, and the log with the uploaded one
\* when the upload has one; it notes the restore afterwards.
RestoreBackup == \E d \in Writes, entries \in SUBSET (1..issued) :
    /\ Idle /\ req = NoReq
    /\ WriteDb(d)
    /\ audit' = entries
    /\ gone' = gone \cup (audit \ entries)
    /\ cleared' = cleared \ entries
    /\ req' = [NoReq EXCEPT !.next = "replacing", !.doc = d]
    /\ UNCHANGED <<file, fileAudit, issued, horizon, phase, answer>>

NoteRestore ==
    /\ Idle /\ req.next = "note"
    /\ AppendTo(audit, db)
    /\ req' = NoReq
    /\ UNCHANGED <<db, file, fileAudit, horizon, cleared, phase, call, answer>>

\* The periodic_s3_backup task prunes by the stored settings every five minutes.
PruneLog ==
    /\ Idle /\ req = NoReq /\ ~NeedsImport
    /\ audit' = Pruned(audit, Retention[db])
    /\ gone' = gone \cup (audit \ audit')
    /\ UNCHANGED <<db, file, fileAudit, issued, horizon, cleared, phase, call, req, answer>>

-----------------------------------------------------------------------------
(* Time and failure *)

\* The retention period passes; everything recorded so far is now too old.
Age ==
    /\ horizon' = issued /\ horizon # issued
    /\ UNCHANGED <<db, file, audit, fileAudit, issued, cleared, gone, phase, call, req, answer>>

\* The process dies; the caller of a save in progress gets no answer.
Crash ==
    /\ phase # "down"
    /\ phase' = "down"
    /\ call' = NoCall /\ req' = NoReq
    /\ answer' = IF call.next = "snapshot" THEN "failed" ELSE answer
    /\ UNCHANGED <<db, file, log>>

Next ==
    \/ Start \/ BootImport \/ BootAudit \/ BootNothing
    \/ LoadImports \/ ImportDocument \/ ImportAudit \/ StripAudit \/ Startup
    \/ SaveDocument \/ Snapshot \/ SnapshotFails
    \/ AuditedEdit \/ SaveAuditSettings \/ ClearAuditLog \/ NoteClearing
    \/ SaveRequest \/ SaveRejected \/ RestoreBackup \/ NoteRestore
    \/ PruneLog \/ Age \/ Crash

Spec == Init /\ [][Next]_vars

-----------------------------------------------------------------------------
(* Properties *)

\* The document that the next load_all() returns.
Effective == IF NeedsImport THEN file ELSE db

Atomic == INSTANCE AtomicDoc WITH
    doc <- Effective,
    pending <- IF call.next = "snapshot" THEN call.doc ELSE None

\* Two copies of the document, written one after the other, behave as one
\* (save_all, load_all, _bootstrap_from_json_if_needed): a save that returned
\* is what every later load and every restart sees, a save that failed or died
\* is there or is not, and nothing else changes the document -- in particular
\* no start ever prefers a snapshot that lags behind.
AtomicSaves == Atomic!Spec

\* An entry leaves the audit log only because it was pruned, cleared or
\* replaced: the move from data.json to SQLite loses none, wherever the process
\* dies during it (_import_document, _import_audit, _strip_audit_from_json_file).
NothingForgotten == 1..issued \subseteq audit \cup fileAudit \cup gone

\* Entries whose clearing was confirmed do not come back from a leftover file
\* (api_clear_audit_log, _bootstrap_from_json_if_needed).
ClearedStaysCleared == audit \cap cleared = {}
=============================================================================
