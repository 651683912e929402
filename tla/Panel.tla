------------------------------- MODULE Panel --------------------------------
(***************************************************************************)
(* Who changes the panel document, and when.                               *)
(*                                                                         *)
(* The panel is one process.  Tasks are coroutines of its asyncio loop:    *)
(* between two awaits a task holds the loop and no other task runs.        *)
(* Threads are asyncio.to_thread workers (the bot's services and the RKN   *)
(* checks): they never hold the loop and never take DATA_LOCK, so they     *)
(* interleave with everything.  All of them change the document the same   *)
(* way: load_data() copies the whole document, the handler edits its copy, *)
(* save_data() replaces the whole document.  Single loads and saves are    *)
(* serialised by Store._lock and are single steps here.                    *)
(*                                                                         *)
(* DATA_LOCK needs no variable: every section it guards in the handlers    *)
(* modelled here has no await inside, so holding the loop already excludes *)
(* the other tasks, and threads do not take the lock.                      *)
(*                                                                         *)
(* Nor does anything lock a VPN server.  A handler that removes, disables  *)
(* or enables a peer reads what the server has (visit), and writes later:  *)
(* whatever another session did there in between is undone or lost.        *)
(***************************************************************************)
EXTENDS PanelDoc

CONSTANTS
    Tasks,      \* coroutines on the event loop
    Threads,    \* to_thread workers
    Free,       \* value of loop when no task is between two awaits
    Nowhere,    \* place of a peer that does not exist
    Scenes      \* set of [doc, spent, may]: a document the process may find at
                \* startup, the ids handed out before that it no longer
                \* holds, and the handlers each session runs from there

Sessions == Tasks \cup Threads

AllOps == {"codes", "tokens", "servers", "users", "toggle", "register",
           "bot_create", "bot_delete", "admin_create", "admin_append",
           "admin_remove", "write_back", "backup"}

Peer == [at : Servers \cup {Nowhere}, on : BOOLEAN]
NoPeer == [at |-> Nowhere, on |-> FALSE]

ASSUME SessionsAssumption ==
    /\ Tasks \cap Threads = {}
    /\ Free \notin Tasks
    /\ Nowhere \notin Servers
ASSUME ScenesAssumption ==
    \A x \in Scenes :
        /\ x.doc \in Doc /\ DocOK(x.doc)
        /\ x.spent \subseteq UserIds \cup ConnIds \cup Servers
        /\ x.may \in [Sessions -> SUBSET AllOps]

VARIABLES
    store,   \* the stored document
    peers,   \* [ConnIds -> Peer]: the VPN peers on the servers
    loop,    \* the task between two awaits, or Free
    pc,      \* [Sessions -> stage of the handler]
    data,    \* [Sessions -> the handler's own copy of the document]
    conn,    \* [Sessions -> the connection a handler creates or removes]
    left,    \* [Sessions -> connections whose peers are still to be visited]
    visit,   \* [Sessions -> the server it works on, and the peers it read there]
    issued,  \* every uuid, code and token handed out so far
    acked,   \* history of ends: tokens and connections whose end was confirmed,
             \* records taken out, and peers removed while another session was
             \* between reading and writing on the same server (raced)
    shown,   \* history: the client and position pairs the panel has listed
    may      \* [Sessions -> the handlers it runs in this behaviour]

vars == <<store, peers, loop, pc, data, conn, left, visit, issued, acked, shown, may>>

Stages == {"idle", "loaded", "adding", "appending", "added", "recording",
           "deleting", "removed", "dropping", "removing", "unlisting",
           "purging", "enabling", "disabling", "uploading"}

NoDoc == [servers |-> <<>>, users |-> {}, off |-> {}, codes |-> {},
          uses |-> [c \in Codes |-> 0], conns |-> {}, tokens |-> {}, sync |-> 1]
NoConn == [id |-> Nowhere, user |-> Nowhere, srv |-> 1]

\* What a handler works on: a record, or a client and a position.
Target == [id : ConnIds \cup {Nowhere}, user : UserIds \cup {Nowhere}, srv : Nat \ {0}]

Visit == [at : Servers \cup {Nowhere}, seen : SUBSET ConnIds]
NoVisit == [at |-> Nowhere, seen |-> {}]

Acks == [revoked : SUBSET Tokens, deleted : SUBSET ConnIds,
         dropped : SUBSET ConnIds, raced : SUBSET ConnIds]

WorkOK ==
    /\ store \in Doc
    /\ peers \in [ConnIds -> Peer]
    /\ loop \in Tasks \cup {Free}
    /\ pc \in [Sessions -> Stages]
    /\ data \in [Sessions -> Doc]
    /\ conn \in [Sessions -> Target]
    /\ left \in [Sessions -> SUBSET Conn]
    /\ visit \in [Sessions -> Visit]
    /\ issued \subseteq UserIds \cup ConnIds \cup Codes \cup Tokens \cup Servers
    /\ acked \in Acks

TypeOK == WorkOK /\ shown \subseteq ConnIds \X (Nat \ {0})

\* What the panel lists: its records, and the clients that the page of a
\* server finds there.
Pages ==
    {<<c.id, c.srv>> : c \in store.conns}
        \cup {q \in ConnIds \X DOMAIN store.servers :
                 peers[q[1]].at = store.servers[q[2]]}

Init ==
    /\ \E x \in Scenes :
          store = x.doc /\ issued = IdsOf(x.doc) \cup x.spent /\ may = x.may
    /\ peers = [i \in ConnIds |->
                  IF \E c \in store.conns : c.id = i /\ Within(store, c)
                  THEN [at |-> store.servers[(CHOOSE c \in store.conns : c.id = i).srv],
                        on |-> TRUE]
                  ELSE NoPeer]
    /\ loop = Free
    /\ pc = [s \in Sessions |-> "idle"]
    /\ data = [s \in Sessions |-> NoDoc]
    /\ conn = [s \in Sessions |-> NoConn]
    /\ left = [s \in Sessions |-> {}]
    /\ visit = [s \in Sessions |-> NoVisit]
    /\ acked = [revoked |-> {}, deleted |-> {}, dropped |-> {}, raced |-> {}]
    /\ shown = Pages

-----------------------------------------------------------------------------
(* The scheduler *)

CanRun(s) == s \in Threads \/ loop \in {Free, s}

\* A task keeps the loop until its next await; a thread never has it.
Hold(s) == loop' = IF s \in Tasks THEN s ELSE loop
Yield(s) == loop' = IF s \in Tasks THEN Free ELSE loop

Goto(s, stage) == pc' = [pc EXCEPT ![s] = stage]

Done(s) ==
    /\ Goto(s, "idle")
    /\ Yield(s)
    /\ data' = [data EXCEPT ![s] = NoDoc]
    /\ conn' = [conn EXCEPT ![s] = NoConn]
    /\ left' = [left EXCEPT ![s] = {}]
    /\ visit' = [visit EXCEPT ![s] = NoVisit]

\* save_data(d) as the last thing a handler does.
SaveAndReturn(s, d) == store' = d /\ Done(s)

\* Every handler starts with data = load_data().
Load(s) ==
    /\ pc[s] = "idle" /\ may[s] # {}
    /\ CanRun(s)
    /\ data' = [data EXCEPT ![s] = store]
    /\ Goto(s, "loaded")
    /\ Hold(s)
    /\ UNCHANGED <<store, peers, conn, left, visit, issued, acked>>

\* An early return: not found, forbidden, invalid code, already registered.
Refuse(s) ==
    /\ pc[s] = "loaded"
    /\ Done(s)
    /\ UNCHANGED <<store, peers, issued, acked>>

Ready(s, op) == pc[s] = "loaded" /\ op \in may[s]

-----------------------------------------------------------------------------
(* Handlers that load, edit and save without an await in between *)

CreateToken(h) == \E t \in Tokens \ issued :
    /\ Ready(h, "tokens")
    /\ SaveAndReturn(h, AddToken(data[h], t))
    /\ issued' = issued \cup {t}
    /\ UNCHANGED <<peers, acked>>

RevokeToken(h) == \E t \in data[h].tokens :
    /\ Ready(h, "tokens")
    /\ SaveAndReturn(h, DropToken(data[h], t))
    /\ acked' = [acked EXCEPT !.revoked = @ \cup {t}]
    /\ UNCHANGED <<peers, issued>>

\* The web endpoint, and the bot's /newcode on a worker thread.
CreateCode(s) == \E code \in Codes \ issued :
    /\ Ready(s, "codes")
    /\ SaveAndReturn(s, AddCode(data[s], code))
    /\ issued' = issued \cup {code}
    /\ UNCHANGED <<peers, acked>>

DeleteCode(h) == \E code \in data[h].codes :
    /\ Ready(h, "codes")
    /\ SaveAndReturn(h, DropCode(data[h], code))
    /\ UNCHANGED <<peers, issued, acked>>

\* Every entry gets a uuid of its own, a machine that is added again included.
ConnectServer(h) == \E s \in Servers \ issued :
    /\ Ready(h, "servers")
    /\ SaveAndReturn(h, AddServer(data[h], s))
    /\ issued' = issued \cup {s}
    /\ UNCHANGED <<peers, acked>>

RemoveServer(h) == \E i \in DOMAIN data[h].servers :
    /\ Ready(h, "servers")
    /\ SaveAndReturn(h, DeleteServer(data[h], i))
    /\ UNCHANGED <<peers, issued, acked>>

MoveServers(h) == \E order \in Orders(Len(data[h].servers)) :
    /\ Ready(h, "servers")
    /\ SaveAndReturn(h, ReorderServers(data[h], order))
    /\ UNCHANGED <<peers, issued, acked>>

\* Settings endpoints on the loop; record_bot_activity and run_rkn_checks on a
\* thread: they change only fields this model leaves out, and write the rest
\* of their copy back as they loaded it.
WriteBack(s) ==
    /\ Ready(s, "write_back")
    /\ SaveAndReturn(s, data[s])
    /\ UNCHANGED <<peers, issued, acked>>

\* register_user_with_code.
RegisterUser(w) == \E u \in UserIds \ issued, code \in Codes :
    /\ Ready(w, "register")
    /\ CodeValid(data[w], code)
    /\ SaveAndReturn(w, Register(data[w], u, code))
    /\ issued' = issued \cup {u}
    /\ UNCHANGED <<peers, acked>>

-----------------------------------------------------------------------------
(* Work on a server: its configuration is read, edited and written back over  *)
(* separate SSH commands, without a lock.                                     *)

\* The peers that work on server m: the sections of its configuration.
Working(m) == {i \in ConnIds : peers[i] = [at |-> m, on |-> TRUE]}

\* The configuration as it was read in visit v, without client i, copied back
\* over the file: peers removed since are back, peers appended since are lost.
Rewritten(v, i, gone) ==
    [j \in ConnIds |->
        IF j \in v.seen \ {i} THEN [at |-> v.at, on |-> TRUE]
        ELSE IF peers[j].at # v.at THEN peers[j]
        ELSE IF j = i THEN gone
        ELSE [peers[j] EXCEPT !.on = FALSE]]

\* The client that was found in the table of clients, appended.
Appended(v) ==
    [j \in ConnIds |-> IF j \in v.seen THEN [at |-> v.at, on |-> TRUE] ELSE peers[j]]

\* manager.remove_client and toggle_client begin with what the server has.
Enter(s, m, seen) == visit' = [visit EXCEPT ![s] = [at |-> m, seen |-> seen]]
Leave(s) ==
    /\ visit' = [visit EXCEPT ![s] = NoVisit]
    /\ conn' = [conn EXCEPT ![s] = NoConn]

\* The next connection of a user that is enabled, disabled or deleted.  A
\* position outside the list is skipped; so is, and logged, a server that
\* cannot be reached.  Enabling looks the client up in the table of clients.
VisitPeer(h) == \E c \in left[h], reached \in BOOLEAN :
    LET m == data[h].servers[c.srv]
        listed == {i \in {c.id} : peers[i].at = m}
    IN  /\ pc[h] \in {"enabling", "disabling", "purging"}
        /\ visit[h] = NoVisit
        /\ left' = [left EXCEPT ![h] = @ \ {c}]
        /\ IF reached /\ Within(data[h], c)
           THEN /\ Enter(h, m, IF pc[h] = "enabling" THEN listed ELSE Working(m))
                /\ conn' = [conn EXCEPT ![h] = c]
           ELSE UNCHANGED <<visit, conn>>
        /\ UNCHANGED <<store, peers, loop, pc, data, issued, acked>>

-----------------------------------------------------------------------------
(* A stale save: the copy is loaded, an await lets other tasks run, and the   *)
(* copy is written back.                                                      *)

\* run_scheduled_s3_backup, one at a time (_S3_BACKUP_LOCK), awaits the upload ...
StartBackup(h) ==
    /\ Ready(h, "backup")
    /\ \A g \in Tasks : pc[g] # "uploading"
    /\ Goto(h, "uploading")
    /\ Yield(h)
    /\ UNCHANGED <<store, peers, data, conn, left, visit, issued, acked>>

\* ... and _persist_backup_status saves the document it loaded before it.
PersistBackupStatus(h) ==
    /\ pc[h] = "uploading"
    /\ CanRun(h)
    /\ SaveAndReturn(h, data[h])
    /\ UNCHANGED <<peers, issued, acked>>

\* perform_toggle_user edits the copy first and then awaits one SSH session
\* per connection; without any it does not await.
StartToggle(h, u, on) ==
    LET visits == {c \in ConnsOf(data[h], u) : Within(data[h], c)}
    IN  /\ data' = [data EXCEPT ![h] = SetEnabled(@, u, on)]
        /\ left' = [left EXCEPT ![h] = visits]
        /\ Goto(h, IF on THEN "enabling" ELSE "disabling")
        /\ IF visits = {} THEN Hold(h) ELSE Yield(h)
        /\ UNCHANGED <<peers, conn, visit, issued, acked>>

ToggleUser(h) == \E u \in UserIdsOf(data[h]), on \in BOOLEAN :
    /\ Ready(h, "toggle")
    /\ StartToggle(h, u, on)
    /\ UNCHANGED store

\* api_update_user with a raised traffic limit saves the copy, then re-enables
\* a disabled user with the same copy.
RaiseLimit(h) == \E u \in UserIdsOf(data[h]) \cap data[h].off :
    /\ Ready(h, "toggle")
    /\ store' = data[h]
    /\ StartToggle(h, u, TRUE)

\* The write that ends a visit; the session may still break, which is logged
\* and skipped.  The SSH calls run on a thread and need no turn of the loop.
TogglePeer(h) ==
    /\ pc[h] \in {"enabling", "disabling"}
    /\ visit[h].at # Nowhere
    /\ peers' \in {peers, IF pc[h] = "enabling" THEN Appended(visit[h])
                           ELSE Rewritten(visit[h], conn[h].id, [at |-> visit[h].at, on |-> FALSE])}
    /\ Leave(h)
    /\ UNCHANGED <<store, loop, pc, data, left, issued, acked>>

SaveToggle(h) ==
    /\ pc[h] \in {"enabling", "disabling"}
    /\ left[h] = {} /\ visit[h] = NoVisit
    /\ CanRun(h)
    /\ SaveAndReturn(h, data[h])
    /\ UNCHANGED <<peers, issued, acked>>

-----------------------------------------------------------------------------
(* Creating a connection: check the copy, create the peer, then append        *)

\* The connection s is about to create for user u on the server at position i.
Begin(s, stage, u, i) == \E id \in ConnIds \ issued :
    /\ i \in DOMAIN data[s].servers
    /\ conn' = [conn EXCEPT ![s] = [id |-> id, user |-> u, srv |-> i]]
    /\ issued' = issued \cup {id}
    /\ Goto(s, stage)

\* create_user_connection, on a worker thread.
BotCreate(w) == \E u \in UserIdsOf(data[w]), i \in DOMAIN data[w].servers :
    /\ Ready(w, "bot_create")
    /\ Begin(w, "adding", u, i)
    /\ UNCHANGED <<store, peers, loop, data, left, visit, acked>>

\* api_add_user_connection awaits the SSH calls.
AdminCreate(h) == \E u \in UserIdsOf(data[h]), i \in DOMAIN data[h].servers :
    /\ Ready(h, "admin_create")
    /\ Begin(h, "adding", u, i)
    /\ Yield(h)
    /\ UNCHANGED <<store, peers, data, left, visit, acked>>

\* Mutant: the handler awaits the SSH calls, but appends to its first copy.
AdminAppendAwaits(h) == \E u \in UserIds \cap issued, i \in DOMAIN data[h].servers :
    /\ Ready(h, "admin_append")
    /\ Begin(h, "appending", u, i)
    /\ Yield(h)
    /\ UNCHANGED <<store, peers, data, left, visit, acked>>

\* api_add_connection blocks the loop instead, and appends to its first copy.
\* The user id comes with the request and is not looked up.
AdminAppend(h) == \E u \in UserIds \cap issued, i \in DOMAIN data[h].servers :
    /\ Ready(h, "admin_append")
    /\ Begin(h, "appending", u, i)
    /\ UNCHANGED <<store, peers, loop, data, left, visit, acked>>

\* api_add_user: the user is saved, and a connection may be created for it in
\* the same request, blocking the loop.
CreateUser(h) == \E u \in UserIds \ issued :
    LET d == AddUser(data[h], u, NoCode)
    IN  /\ Ready(h, "users")
        /\ SaveAndReturn(h, d)
        /\ issued' = issued \cup {u}
        /\ UNCHANGED <<peers, acked>>

CreateUserWithConnection(h) ==
    \E u \in UserIds \ issued, i \in DOMAIN data[h].servers, id \in ConnIds \ issued :
        LET d == AddUser(data[h], u, NoCode)
        IN  /\ Ready(h, "users")
            /\ store' = d
            /\ data' = [data EXCEPT ![h] = d]
            /\ conn' = [conn EXCEPT ![h] = [id |-> id, user |-> u, srv |-> i]]
            /\ issued' = issued \cup {u, id}
            /\ Goto(h, "adding")
            /\ UNCHANGED <<peers, loop, left, visit, acked>>

\* manager.add_client on the server the first copy shows at the position.
AddPeer(s) ==
    /\ pc[s] \in {"adding", "appending"}
    /\ peers' = [peers EXCEPT ![conn[s].id] =
                    [at |-> data[s].servers[conn[s].srv], on |-> TRUE]]
    /\ Goto(s, IF pc[s] = "adding" THEN "added" ELSE "recording")
    /\ UNCHANGED <<store, loop, data, conn, left, visit, issued, acked>>

\* Mutant: the first copy is written back after the SSH calls.
KeepFirstCopy(s) ==
    /\ pc[s] \in {"added", "removed"}
    /\ CanRun(s)
    /\ Goto(s, IF pc[s] = "added" THEN "recording" ELSE "dropping")
    /\ Hold(s)
    /\ UNCHANGED <<store, peers, data, conn, left, visit, issued, acked>>

\* "reload to avoid clobbering concurrent writes"
Reload(s) ==
    /\ pc[s] \in {"added", "removed"}
    /\ CanRun(s)
    /\ data' = [data EXCEPT ![s] = store]
    /\ Goto(s, IF pc[s] = "added" THEN "recording" ELSE "dropping")
    /\ Hold(s)
    /\ UNCHANGED <<store, peers, conn, left, visit, issued, acked>>

RecordConnection(s) ==
    /\ pc[s] = "recording"
    /\ SaveAndReturn(s, AddConn(data[s], conn[s]))
    /\ UNCHANGED <<peers, issued, acked>>

-----------------------------------------------------------------------------
(* Removing connections and users *)

\* Mutant: position 0 is taken for no position.
BotDeleteFalsy(w) == \E c \in data[w].conns :
    /\ Ready(w, "bot_delete")
    /\ conn' = [conn EXCEPT ![w] = c]
    /\ Goto(w, IF Within(data[w], c) /\ c.srv > 1 THEN "deleting" ELSE "removed")
    /\ UNCHANGED <<store, peers, loop, data, left, visit, issued, acked>>

\* delete_user_connection, on a worker thread.  A position outside the list
\* skips the server and only drops the record.
BotDelete(w) == \E c \in data[w].conns :
    /\ Ready(w, "bot_delete")
    /\ conn' = [conn EXCEPT ![w] = c]
    /\ Goto(w, IF Within(data[w], c) THEN "deleting" ELSE "removed")
    /\ UNCHANGED <<store, peers, loop, data, left, visit, issued, acked>>

\* api_remove_connection blocks the loop and filters its first copy.  The
\* client comes with the request and the position with its address, from
\* whatever page the caller looked at; no record is looked up.
AdminRemove(h) == \E q \in shown :
    /\ Ready(h, "admin_remove")
    /\ q[2] \in DOMAIN data[h].servers
    /\ conn' = [conn EXCEPT ![h] = [id |-> q[1], user |-> Nowhere, srv |-> q[2]]]
    /\ Goto(h, "removing")
    /\ UNCHANGED <<store, peers, loop, data, left, visit, issued, acked>>

\* remove_client, on the server the first copy shows at the position ...
ReadConfig(s) ==
    LET m == data[s].servers[conn[s].srv]
    IN  /\ pc[s] \in {"deleting", "removing"}
        /\ visit[s] = NoVisit
        /\ Enter(s, m, Working(m))
        /\ UNCHANGED <<store, peers, loop, pc, data, conn, left, issued, acked>>

\* ... finds nothing to remove, and says so to nobody, when the client is not
\* on that server.
RemovePeer(s) ==
    /\ pc[s] \in {"deleting", "removing"}
    /\ visit[s].at # Nowhere
    /\ peers' = Rewritten(visit[s], conn[s].id, NoPeer)
    /\ acked' = IF \E t \in Sessions \ {s} : visit[t].at = visit[s].at
                THEN [acked EXCEPT !.raced = @ \cup {conn[s].id}]
                ELSE acked
    /\ visit' = [visit EXCEPT ![s] = NoVisit]
    /\ Goto(s, IF pc[s] = "deleting" THEN "removed" ELSE "unlisting")
    /\ UNCHANGED <<store, loop, data, conn, left, issued>>

DropConnection(w) ==
    /\ pc[w] = "dropping"
    /\ SaveAndReturn(w, DropConn(data[w], conn[w].id))
    /\ acked' = [acked EXCEPT !.deleted = @ \cup {conn[w].id},
                              !.dropped = @ \cup {conn[w].id}]
    /\ UNCHANGED <<peers, issued>>

\* The filter matches the client id and the server position together, and
\* success is answered although no record matched.
Unlist(h) ==
    LET gone == {c \in data[h].conns : c.id = conn[h].id /\ c.srv = conn[h].srv}
    IN  /\ pc[h] = "unlisting"
        /\ SaveAndReturn(h, [data[h] EXCEPT !.conns = @ \ gone])
        /\ acked' = [acked EXCEPT !.deleted = @ \cup {conn[h].id},
                                  !.dropped = @ \cup {c.id : c \in gone}]
        /\ UNCHANGED <<peers, issued>>

\* api_delete_user blocks the loop while perform_delete_user visits the peers;
\* a server that cannot be reached is logged and skipped.
RemoveUser(h) == \E u \in UserIdsOf(data[h]) :
    /\ Ready(h, "users")
    /\ Cardinality(data[h].users) > 1
    /\ left' = [left EXCEPT ![h] = ConnsOf(data[h], u)]
    /\ data' = [data EXCEPT ![h] = DeleteUser(@, u)]
    /\ Goto(h, "purging")
    /\ UNCHANGED <<store, peers, loop, conn, visit, issued, acked>>

PurgePeer(h) ==
    /\ pc[h] = "purging"
    /\ visit[h].at # Nowhere
    /\ peers' \in {peers, Rewritten(visit[h], conn[h].id, NoPeer)}
    /\ Leave(h)
    /\ UNCHANGED <<store, loop, pc, data, left, issued, acked>>

SaveRemoval(h) ==
    /\ pc[h] = "purging"
    /\ left[h] = {} /\ visit[h] = NoVisit
    /\ SaveAndReturn(h, data[h])
    /\ UNCHANGED <<peers, issued, acked>>

-----------------------------------------------------------------------------
(* Failure and restart *)

\* Mutant: the handler starts over instead of giving up.
RemoteRetries(s) ==
    /\ pc[s] \in {"adding", "appending", "deleting", "removing"}
    /\ CanRun(s)
    /\ Goto(s, "loaded")
    /\ Hold(s)
    /\ visit' = [visit EXCEPT ![s] = NoVisit]
    /\ UNCHANGED <<store, peers, data, conn, left, issued, acked>>

\* ssh.connect or the manager raises: the handler answers with an error and
\* saves nothing more.
RemoteFails(s) ==
    /\ pc[s] \in {"adding", "appending", "deleting", "removing"}
    /\ CanRun(s)
    /\ Done(s)
    /\ UNCHANGED <<store, peers, issued, acked>>

\* The process dies and comes back: the document and the peers survive, every
\* handler is gone.
Restart ==
    /\ \E s \in Sessions : pc[s] # "idle"
    /\ loop' = Free
    /\ pc' = [s \in Sessions |-> "idle"]
    /\ data' = [s \in Sessions |-> NoDoc]
    /\ conn' = [s \in Sessions |-> NoConn]
    /\ left' = [s \in Sessions |-> {}]
    /\ visit' = [s \in Sessions |-> NoVisit]
    /\ UNCHANGED <<store, peers, issued, acked>>

Task(h) ==
    \/ CreateToken(h) \/ RevokeToken(h) \/ DeleteCode(h)
    \/ ConnectServer(h) \/ RemoveServer(h) \/ MoveServers(h)
    \/ StartBackup(h) \/ PersistBackupStatus(h)
    \/ ToggleUser(h) \/ RaiseLimit(h) \/ SaveToggle(h)
    \/ VisitPeer(h) \/ TogglePeer(h) \/ PurgePeer(h)
    \/ AdminCreate(h) \/ AdminAppend(h) \/ AdminRemove(h) \/ Unlist(h)
    \/ CreateUser(h) \/ CreateUserWithConnection(h)
    \/ RemoveUser(h) \/ SaveRemoval(h)

Thread(w) ==
    \/ RegisterUser(w) \/ BotCreate(w) \/ BotDelete(w) \/ DropConnection(w)

Either(s) ==
    \/ Load(s) \/ Refuse(s) \/ CreateCode(s) \/ WriteBack(s)
    \/ AddPeer(s) \/ Reload(s) \/ RecordConnection(s)
    \/ ReadConfig(s) \/ RemovePeer(s) \/ RemoteFails(s)

\* Every page that could be looked at was.
Observe == UNCHANGED may /\ shown' = shown \cup Pages'

Next ==
    /\ \/ \E h \in Tasks : Task(h)
       \/ \E w \in Threads : Thread(w)
       \/ \E s \in Sessions : Either(s)
       \/ Restart
    /\ Observe

Spec == Init /\ [][Next]_vars

\* A handler that has started keeps being scheduled: the loop's ready queue is
\* first in first out, threads are scheduled by the system, and every SSH call
\* ends or raises (SSHManager gives connect and every command a timeout).
Continue(s) ==
    /\ pc[s] # "idle"
    /\ \/ Either(s)
       \/ s \in Tasks /\ Task(s)
       \/ s \in Threads /\ Thread(s)
    /\ Observe

FairSpec == Spec /\ \A s \in Sessions : SF_vars(Continue(s))

-----------------------------------------------------------------------------
(* Properties *)

\* However saves interleave -- and some of them do overwrite each other -- the
\* panel never holds more users admitted by an invite code than the code
\* allows (invite_code_valid, register_user_with_code): the user and the spent
\* use travel in the same document.
AdmissionWithinQuota ==
    \A code \in Codes : MaxUses[code] > 0 =>
        Cardinality(Admitted(store, code)) <= MaxUses[code]

\* Editing the list of servers re-aims the positions of the connections:
\* api_delete_server and api_reorder_servers leave every connection that stays
\* on the server it was on, and drop exactly those of the deleted server; a
\* reorder keeps the sync target as well.
ListEditsKeepPlacement ==
    [][\A h \in Tasks :
         /\ RemoveServer(h) \/ MoveServers(h) => SamePlacement(data[h], store')
         /\ MoveServers(h) /\ data[h].sync \in DOMAIN data[h].servers =>
                store'.servers[store'.sync] = data[h].servers[data[h].sync]]_vars

\* Handlers that keep the loop from their load to their save.
KeepLoop == {"tokens", "servers", "users", "admin_append", "admin_remove"}

\* The record of a connection names the server its peer was made on, through
\* every deletion and reorder of servers, as long as connections are created
\* and removed by the handlers that block the loop (api_add_connection,
\* api_remove_connection, api_add_user).
RecordsMatchPeers ==
    (\A s \in Sessions : may[s] # {} => s \in Tasks /\ may[s] \subseteq KeepLoop) =>
    \A c \in store.conns :
        /\ Within(store, c)
        /\ peers[c.id].at \in {Nowhere, store.servers[c.srv]}

\* A connection reported as deleted leaves no working peer behind, and it does
\* not come back (delete_user_connection, api_remove_connection) -- unless
\* another session was between reading and writing the same configuration when
\* the peer was removed: nothing locks a server, so that session's older copy
\* brings the peer back.
DeletedPeersAreGone == \A id \in acked.deleted \ acked.raced : peers[id] = NoPeer

\* A token whose revocation was confirmed stays out of the document
\* (api_revoke_token).
RevokedStaysRevoked == acked.revoked \cap store.tokens = {}

\* A record that a confirmed deletion took out stays out of the document.  (A
\* deletion is also confirmed when the request named a position at which the
\* client is not, or not any more, and no record was taken out.)
DeletedStaysDeleted == \A c \in store.conns : c.id \notin acked.dropped

\* No handler waits for ever: the loop is released at every await and at every
\* return, and nobody waits for anything else.
EveryHandlerReturns == \A s \in Sessions : pc[s] # "idle" ~> pc[s] = "idle"
=============================================================================
