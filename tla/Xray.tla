-------------------------------- MODULE Xray --------------------------------
(***************************************************************************)
(* managers/xray_manager.py: the clients of one Xray container, as the     *)
(* panel's SSH sessions edit and list them and as the Amnezia app adds     *)
(* its own.                                                                *)
(*                                                                         *)
(* Two files hold them: server.json, which the process reads when it       *)
(* starts, and clientsTable.  Every operation reads a whole file, edits    *)
(* the copy and writes it back, and restarts the container for the first;  *)
(* nothing locks.  Listing is not only reading: get_clients, which the     *)
(* traffic loop calls on a thread in every cycle, upgrades an old          *)
(* server.json and imports clients the table lacks.                        *)
(*                                                                         *)
(* Files are read in the container while it runs and on the host           *)
(* otherwise, and written in both places: docker cp of an uploaded file    *)
(* into the container, then cp onto the host, so that a broken connection  *)
(* may leave the host's copy behind.  The upload is one step with docker   *)
(* cp.  The host's directory is mounted in the container ("bind"), only    *)
(* kept in step ("copy"), or not there ("none").  Commands that reach the  *)
(* server succeed.  Names, keys and statistics are left out.               *)
(***************************************************************************)
EXTENDS FiniteSets

CONSTANTS
    Ids,       \* client uuids
    Default,   \* the uuid of xray_uuid.key, which is never imported
    Sessions,  \* SSH sessions
    Listers,   \* the sessions of the traffic loop
    None,      \* no config, no request
    Scenes     \* installations and who works on them (Scene)

Edits == {"add", "enable", "disable", "remove"}
Ops == Edits \cup {"list", "raw"}

\* mail: the client has an email, without which it has no statistics.
Client == [id : Ids, mail : BOOLEAN]
\* stats: the blocks for statistics are there.
Conf == [clients : SUBSET Client, stats : BOOLEAN]
\* The table as the set of its clients: their names and marks, and a second
\* row of the same client, are left out.
Files == [conf : Conf \cup {None}, rows : SUBSET Ids]
Request == [op : Ops, id : Ids \cup {None}]

Scene == [mount : {"bind", "copy", "none"}, conf : Conf, rows : SUBSET Ids,
          may : [Sessions -> SUBSET Ops], app : SUBSET Ids,
          counted : BOOLEAN]   \* some user has a connection on this server

ASSUME XrayAssumption ==
    /\ Default \in Ids /\ Listers \subseteq Sessions
    /\ None \notin Ids \cup Conf \cup Request
    /\ Scenes \subseteq Scene

VARIABLES
    scene,   \* installation, workloads, and the ids the app may add
    inside,  \* the files in the container
    host,    \* the files on the host
    up,      \* the container runs
    running, \* the clients of the running process
    pc,      \* [Sessions -> its next command]
    req,     \* [Sessions -> the operation and its client]
    text,    \* [Sessions -> the server.json it is about to write]
    rows,    \* [Sessions -> the table it is about to write]
    issued,  \* ids handed out
    stale,   \* a session broke off between writing server.json and restarting
    behind   \* ids whose edit broke off before it reached the host's copy

files == <<inside, host>>
vars == <<scene, files, up, running, pc, req, text, rows, issued, stale, behind>>

\* Each is the next command: save and sync write server.json, write the
\* table.
Stages == {"idle", "read", "save", "sync", "stop", "start",
           "table", "write"}

TypeOK ==
    /\ scene \in Scenes
    /\ inside \in Files /\ inside.conf # None
    /\ host \in Files
    /\ up \in BOOLEAN /\ stale \in BOOLEAN
    /\ running \subseteq Ids /\ issued \subseteq Ids /\ behind \subseteq Ids
    /\ pc \in [Sessions -> Stages]
    /\ req \in [Sessions -> Request \cup {None}]
    /\ text \in [Sessions -> Conf \cup {None}]
    /\ rows \in [Sessions -> SUBSET Ids]

IdsOf(xs) == {x.id : x \in xs}

Init ==
    /\ scene \in Scenes
    /\ inside = [conf |-> scene.conf, rows |-> scene.rows]
    /\ host = IF scene.mount = "none" THEN [conf |-> None, rows |-> {}] ELSE inside
    /\ up = TRUE
    /\ running = IdsOf(scene.conf.clients)
    /\ pc = [s \in Sessions |-> "idle"]
    /\ req = [s \in Sessions |-> None]
    /\ text = [s \in Sessions |-> None]
    /\ rows = [s \in Sessions |-> {}]
    /\ issued = IdsOf(scene.conf.clients) \cup scene.rows
    /\ stale = FALSE
    /\ behind = {}

-----------------------------------------------------------------------------
(* The files *)

\* docker exec cat, or cat on the host when the container is down.
Seen == IF up \/ scene.mount = "bind" THEN inside ELSE host

\* docker cp: a mounted file is the host's as well.
ToContainer(fs) ==
    /\ inside' = fs
    /\ host' = IF scene.mount = "bind" THEN fs ELSE host

\* Mutant: only the container's copy is written.
ToNeither(fs) == UNCHANGED <<inside, host>>

\* cp onto the host, which fails when the directory is not there.
ToHost(fs) ==
    /\ host' = IF scene.mount = "none" THEN host ELSE fs
    /\ inside' = IF scene.mount = "bind" THEN fs ELSE inside

\* What the process reads when it starts.
Served == IdsOf(inside.conf.clients)

-----------------------------------------------------------------------------
(* What the operations make of what they read *)

IsOld(c) == ~c.stats \/ \E x \in c.clients : ~x.mail

\* _upgrade_config_for_stats
Upgraded(c) == [clients |-> {[x EXCEPT !.mail = TRUE] : x \in c.clients}, stats |-> TRUE]

\* add_client, toggle_client and remove_client on server.json; saving the raw
\* config leaves the clients alone.
Edited(c, r) ==
    CASE r.op \in {"add", "enable"} ->
           IF r.id \in IdsOf(c.clients) THEN c
           ELSE [c EXCEPT !.clients = @ \cup {[id |-> r.id, mail |-> TRUE]}]
      [] r.op \in {"disable", "remove"} ->
           [c EXCEPT !.clients = {x \in @ : x.id # r.id}]
      [] r.op = "list" -> Upgraded(c)
      [] r.op = "raw" -> c

\* Mutant: the table of a server that has one is taken to be complete.
TabledOnce(t, r, c) ==
    CASE r.op = "add" -> t \cup {r.id}
      [] r.op = "remove" -> t \ {r.id}
      [] r.op = "list" -> IF t = {} THEN IdsOf(c.clients) \ {Default} ELSE t
      [] OTHER -> t

\* Mutant: the request itself is stored.
TabledWhole(t, r, c) ==
    CASE r.op = "add" -> t \cup {r}
      [] r.op = "remove" -> t \ {r.id}
      [] r.op = "list" -> t \cup (IdsOf(c.clients) \ {Default})
      [] OTHER -> t

\* The same on clientsTable; a listing imports the clients it lacks.
Tabled(t, r, c) ==
    CASE r.op = "add" -> t \cup {r.id}
      [] r.op = "remove" -> t \ {r.id}
      [] r.op = "list" -> t \cup (IdsOf(c.clients) \ {Default})
      [] OTHER -> t

-----------------------------------------------------------------------------
(* The operations *)

Goto(s, stage) == pc' = [pc EXCEPT ![s] = stage]

Done(s) ==
    /\ Goto(s, "idle")
    /\ req' = [req EXCEPT ![s] = None]
    /\ text' = [text EXCEPT ![s] = None]
    /\ rows' = [rows EXCEPT ![s] = {}]

\* A new uuid, or any the pages have shown.
Begin(s, op, id) ==
    /\ pc[s] = "idle"
    /\ op \in scene.may[s]
    /\ CASE op = "add" -> id \in Ids \ (issued \cup {Default})
         [] op \in {"list", "raw"} -> id = None
         [] OTHER -> id \in issued
    /\ req' = [req EXCEPT ![s] = [op |-> op, id |-> id]]
    /\ issued' = issued \cup ({id} \ {None})
    /\ Goto(s, "read")
    /\ UNCHANGED <<scene, files, up, running, text, rows, stale, behind>>

\* _get_server_json; without one an edit raises and a listing is empty.
Read(s) ==
    /\ pc[s] = "read"
    /\ IF Seen.conf = None THEN Done(s)
       ELSE /\ text' = [text EXCEPT ![s] = Edited(Seen.conf, req[s])]
            /\ Goto(s, IF req[s].op # "list" \/ IsOld(Seen.conf) THEN "save" ELSE "table")
            /\ UNCHANGED <<req, rows>>
    /\ UNCHANGED <<scene, files, up, running, issued, stale, behind>>

\* _save_server_json
Save(s) ==
    /\ pc[s] = "save"
    /\ ToContainer([inside EXCEPT !.conf = text[s]])
    /\ Goto(s, "sync")
    /\ UNCHANGED <<scene, up, running, req, text, rows, issued, stale, behind>>

\* Mutant: an upgraded config is saved without a restart.
SyncOnly(s) ==
    /\ pc[s] = "sync"
    /\ ToHost([host EXCEPT !.conf = text[s]])
    /\ Goto(s, IF req[s].op = "list" THEN "table" ELSE "stop")
    /\ text' = [text EXCEPT ![s] = IF req[s].op = "list" THEN @ ELSE None]
    /\ behind' = {}
    /\ UNCHANGED <<scene, up, running, req, rows, issued, stale>>

Sync(s) ==
    /\ pc[s] = "sync"
    /\ ToHost([host EXCEPT !.conf = text[s]])
    /\ Goto(s, "stop")
    /\ text' = [text EXCEPT ![s] = IF req[s].op = "list" THEN @ ELSE None]
    /\ behind' = {}
    /\ UNCHANGED <<scene, up, running, req, rows, issued, stale>>

\* docker restart, which also starts a container that was stopped.
Stop(s) ==
    /\ pc[s] = "stop"
    /\ up' = FALSE
    /\ running' = {}
    /\ Goto(s, "start")
    /\ UNCHANGED <<scene, files, req, text, rows, issued, stale, behind>>

Start(s) ==
    /\ pc[s] = "start"
    /\ up' = TRUE
    /\ running' = Served
    /\ stale' = FALSE
    /\ IF req[s].op = "raw" THEN Done(s) ELSE Goto(s, "table") /\ UNCHANGED <<req, text, rows>>
    /\ UNCHANGED <<scene, files, issued, behind>>

\* _get_clients_table; a listing saves the table only if it has imported.
Table(s) ==
    /\ pc[s] = "table"
    /\ LET t == Tabled(Seen.rows, req[s], text[s])
       IN  IF req[s].op = "list" /\ t = Seen.rows THEN Done(s)
           ELSE /\ rows' = [rows EXCEPT ![s] = t]
                /\ Goto(s, "write")
                /\ UNCHANGED <<req, text>>
    /\ UNCHANGED <<scene, files, up, running, issued, stale, behind>>

\* _save_clients_table
Write(s) ==
    /\ pc[s] = "write"
    /\ inside' = [inside EXCEPT !.rows = rows[s]]
    /\ host' = IF scene.mount = "none" THEN host ELSE [host EXCEPT !.rows = rows[s]]
    /\ Done(s)
    /\ UNCHANGED <<scene, up, running, issued, stale, behind>>

-----------------------------------------------------------------------------
(* Failure, the administrator, the app *)

\* The connection breaks: the manager raises and the session ends.  A docker
\* restart that has begun ends by itself.
Break(s) ==
    /\ pc[s] \notin {"idle", "start"}
    /\ stale' = (stale \/ pc[s] \in {"sync", "stop"})
    /\ behind' = behind \cup (IF pc[s] = "sync" /\ scene.mount = "copy" THEN {req[s].id} \ {None} ELSE {})
    /\ Done(s)
    /\ UNCHANGED <<scene, files, up, running, issued>>

\* api_container_toggle
ToggleContainer ==
    /\ up' = ~up
    /\ running' = IF up THEN {} ELSE Served
    /\ stale' = (up /\ stale)
    /\ UNCHANGED <<scene, files, pc, req, text, rows, issued, behind>>

\* The Amnezia app adds a client of its own: it edits the files in the
\* container and restarts it.
AppAdds(id) ==
    /\ id \in scene.app \ issued
    /\ up
    /\ inside' = [inside EXCEPT !.conf.clients = @ \cup {[id |-> id, mail |-> FALSE]}]
    /\ host' = IF scene.mount = "bind" THEN inside' ELSE host
    /\ running' = IdsOf(inside'.conf.clients)
    /\ issued' = issued \cup {id}
    /\ stale' = FALSE
    /\ UNCHANGED <<scene, up, pc, req, text, rows, behind>>

Next ==
    \/ \E s \in Sessions :
         \/ \E op \in Ops, id \in Ids \cup {None} : Begin(s, op, id)
         \/ Read(s) \/ Save(s) \/ Sync(s) \/ Stop(s) \/ Start(s)
         \/ Table(s) \/ Write(s)
         \/ Break(s)
    \/ ToggleContainer
    \/ \E id \in Ids : AppAdds(id)

Spec == Init /\ [][Next]_vars

\* The traffic loop lists again and again, where some user has a connection on
\* the server: it skips the others.  The protocols it lists before this one
\* answer, and the connection does not break at the same command for ever.
FairSpec ==
    /\ Spec
    /\ \A s \in Listers :
         /\ WF_vars(scene.counted /\ Begin(s, "list", None))
         /\ SF_vars(Read(s)) /\ SF_vars(Save(s)) /\ SF_vars(Sync(s))
         /\ SF_vars(Stop(s)) /\ WF_vars(Start(s))
         /\ SF_vars(Table(s)) /\ SF_vars(Write(s))

-----------------------------------------------------------------------------
(* Properties *)

\* One session edits, the config needs no upgrade and the app is away.
Exclusive ==
    /\ scene.app = {} /\ ~IsOld(scene.conf)
    /\ \E e \in Sessions : \A s \in Sessions \ {e} : scene.may[s] \subseteq {"list"}

\* The clients are those of server.json but for the request's own and for those
\* whose edits were cut short.
OwnOnly(now, r) ==
    /\ \A id \in Ids \ ({r.id} \cup behind) : id \in now <=> id \in Served
    /\ r.op \in {"add", "enable"} => r.id \in now
    /\ r.op \in {"disable", "remove"} => r.id \notin now

\* A session that edits server.json alone puts in or takes out its own client
\* and no other, however listings and restarts fall in between, and whether it
\* reads the container's copy or the host's; a connection that broke between the
\* two copies costs or restores at most the clients whose edits it cut short.
EditsKeepOthers ==
    [][Exclusive => \A s \in Sessions : Save(s) => OwnOnly(Served', req[s])]_vars

\* Whoever writes server.json restarts the container after the last write, the
\* upgrade of a listing included: when nobody is between writing and restarting,
\* the process serves the clients of the file.  After a session that broke off
\* in between, nothing is promised until the next restart.
RunningIsCurrent ==
    up /\ ~stale /\ (\A s \in Sessions : pc[s] \notin {"sync", "stop", "start"}) => running = Served

\* A client in server.json that the panel does not know -- added by the app,
\* or by an operation that broke off -- is in its table at last, while the
\* container runs (get_clients), on a server the traffic loop lists.
EveryClientIsListed ==
    \A id \in Ids \ {Default} :
        scene.counted /\ id \in Served ~> id \in inside.rows \/ id \notin Served \/ ~up
=============================================================================
