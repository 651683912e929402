# Verification of awg_ui

awg_ui is a web panel, one Python process, that administers VPN servers over
SSH. This directory holds TLA+ models of its core logic, TLC configurations that
check them on small instances, and proofs checked by TLAPS for instances of any
size.

    tlc -config PanelTasks.cfg MCPanel.tla      # check one run
    tlapm PanelProofs.tla                       # check the proofs of a module

## 1. The system

| Part | State | Operations | Talks to |
|---|---|---|---|
| **Panel document** (`app.py`) | one dict: users, invite codes, tokens, servers (a *list*), connections (which name their server by *position*), settings | about fifty handlers that `load_data()` the whole dict, edit their copy and `save_data()` the whole dict | store, managers, bot |
| **Store** (`storage/store.py`) | the document in SQLite, a snapshot in `data.json`, a lock | `init`, bootstrap from JSON, `load_all`, `save_all`, snapshot | - |
| **Audit log** (`managers/audit_log.py`, store) | a table in SQLite | append, prune by age and cap, clear, import | store |
| **Background cycle** (`app.py`) | the document; counters on the servers | scrape traffic, charge it, reset, disable who is over a limit or expired, mass operations, Remnawave sync, S3 backup, audit prune | managers, store |
| **Monitors** (`app.py`, `managers/rkn_monitor.py`) | levels and counts in memory, a snapshot in the document | check every server on a thread, take the results over, alert | servers, a probe in Russia, the bot |
| **AmneziaWG, WireGuard managers** | a config, an interface and a clients table in a container | `add_client`, `toggle_client`, `remove_client`, statistics, install | SSH |
| **Xray manager** | `server.json` and clientsTable, in the container and on the host | the same, the raw editor; listing upgrades and imports | SSH |
| **Telemt manager** | `config.toml`, and the memory of the proxy | the same, `edit_client`; listing enforces quotas | SSH, an HTTP API in the container |
| **SSH manager** | one paramiko client | `connect`, `run_command`, with timeouts | servers |
| **Telegram bot** (`telegram_bot.py`) | update offset and dialogues, in memory | polling; register, create and delete connections; start and stop from the settings | Telegram; services of the panel, on `to_thread` workers |
| **Auth, pages, share links, captcha** | sessions | reads and rendering | document |

What makes it hard:

* *Whole-document saves.* Every writer replaces everything. A handler that
  awaits between its load and its save, and every `asyncio.to_thread` worker,
  can undo another writer. `DATA_LOCK` (app.py:235) is an asyncio lock: it does
  not exclude threads, and most handlers do not take it.
* *Positions as references.* `server_id` is an index into a list that is edited.
* *Two systems.* A peer on a VPN server and the record of it are changed one
  after the other, over a connection that may fail.
* *Two copies.* SQLite commits before `data.json` is replaced; on restart, and
  in `load_all`, one of the two is chosen. An Xray server has its files twice,
  a Telemt proxy its users in a file and in memory.
* *Results applied later.* Readings, check results and updates are taken over
  minutes after they were asked for: counters restart, servers leave the list,
  an admin starts the same check by hand, the bot is stopped.
* *Reading that writes.* Listing the clients of an Xray or Telemt server edits
  its files, in every background cycle, on a thread, without a lock.

PROJECT.json lists the components with their status, and under "hazards" the
places where these behaviours bite, with the properties that cover them.

## 2. The modules

| Module | What it is |
|---|---|
| `PanelDoc` | the document and the edits of the handlers, as pure operators |
| `Panel` | who runs the edits, on which copy, and when it is written back: tasks on the event loop, threads, SSH calls, failures, restart |
| `MCPanel` | small instances of `Panel` |
| `PanelProofs` | lemmas on what each edit preserves, and theorems about `Panel` |
| `AtomicDoc` | abstract: what a caller of the store may rely on |
| `PanelStore` | SQLite, snapshot, bootstrap, audit log, crashes |
| `MCPanelStore` | small instance of `PanelStore` |
| `PanelStoreProofs` | theorems about `PanelStore`, refinement of `AtomicDoc` included |
| `PeerSet` | abstract: what a protocol manager promises about a VPN server |
| `VpnServer` | the clients of one AmneziaWG or WireGuard container, as SSH sessions edit them |
| `MCVpnServer` | small instances of `VpnServer` |
| `VpnServerProofs` | theorems about `VpnServer`, refinement of `PeerSet` included |
| `Traffic` | the background cycle: readings, charges, limits, mass operations, Remnawave |
| `MCTraffic`, `TrafficProofs` | small instances of `Traffic`; its theorems |
| `TelegramBot` | polling, updates, dialogues, threads, start and stop of the bot |
| `MCTelegramBot`, `TelegramBotProofs` | small instances of `TelegramBot`; its theorems |
| `RknLevels` | how one check of a server comes to its level, as operators |
| `Monitors` | the TCP monitor and the RKN monitor, over `RknLevels` |
| `MCMonitors`, `MonitorsProofs` | small instances of `Monitors`; its theorems |
| `Xray` | the clients of one Xray container, in two files and two places |
| `MCXray`, `XrayProofs` | small instances of `Xray`; its theorems |
| `Telemt` | the users of one Telemt proxy, in its file and in its memory |
| `MCTelemt`, `TelemtProofs` | small instances of `Telemt`; its theorems |

Most modules take a constant `Scenes`: what one behaviour starts from and which
activities it contains, chosen in `Init` and kept. A scene is what makes a
workload explicit (which handlers run side by side, what may fail), and several
in one run let a property be checked against each of them. Definitions marked
"Mutant" are faults that the properties were tested against; no specification
uses them.

`Panel` treats a load and a save as single steps. That is what `PanelStore`
justifies: it implements `AtomicDoc`, in which a document changes in one step.

### Panel and the code

*Sessions* are running handlers: `Tasks` are coroutines, `Threads` are
`to_thread` workers. `loop` is the task that is between two awaits; while it is
set no other task moves, threads always may. `pc` says how far a handler is,
`data` is the dict it loaded, `conn` the connection it creates or removes, `left`
the connections whose peers it still has to visit, `visit` the server it is at
work on and the peers it read there. `store` is the saved document, `peers` the
peers really configured on servers. `issued`, `acked` and `shown` are history:
identifiers ever generated (uuids, random codes and tokens never repeat); the
ends that callers were told of, the records taken out, and the peers removed
while another session was at work on the same server (`raced`); and the pairs of
a client and a position that some page has listed.

| Actions | Code |
|---|---|
| `Load`, `Refuse`, `SaveAndReturn` | the first line, the early returns and the end of every handler |
| `CreateToken` .. `MoveServers`, `RegisterUser` | handlers without an await between load and save |
| `WriteBack` | handlers that edit only settings and other unmodelled fields, and still write everything back |
| `StartBackup`, `PersistBackupStatus` | `run_scheduled_s3_backup`; the upload is awaited between them |
| `ToggleUser`, `RaiseLimit`, `VisitPeer`, `TogglePeer`, `SaveToggle` | `perform_toggle_user` and its two callers |
| `BotCreate`, `AdminCreate`, then `AddPeer`, `Reload`, `RecordConnection` | creation with a reload after SSH (`create_user_connection`, `api_add_user_connection`, `api_add_user`) |
| `AdminAppend`, then `AddPeer`, `RecordConnection` | `api_add_connection`, which blocks the loop and keeps its first copy |
| `BotDelete`, `ReadConfig`, `RemovePeer`, `Reload`, `DropConnection` | `delete_user_connection` |
| `AdminRemove`, `ReadConfig`, `RemovePeer`, `Unlist` | `api_remove_connection` |
| `RemoveUser`, `VisitPeer`, `PurgePeer`, `SaveRemoval` | `api_delete_user` |
| `RemoteFails`, `Restart` | an SSH call raises; the process dies |

*Work on a server.* Removing, disabling and enabling a peer take two steps: what
the server has is read (`ReadConfig`, `VisitPeer`), and written back later
(`Rewritten`, `Appended`). Nothing locks a server, so sessions overlap there: a
config that is copied back brings back every peer that was read and removed
since, and loses every peer that was appended since. Upload and `docker cp` are one
step, and `AddPeer` is the one append of `add_client`; module `VpnServer` has the
commands one by one.

*Removal by an administrator.* `api_remove_connection` takes the client from the
body of the request and the position from its address, and compares them with
no record. `AdminRemove` therefore takes any pair in `shown`, whatever happened to
the list of servers since that page was rendered: the removal may run on
another machine, find nothing there, take out no record, and be confirmed.

`may`, taken from the scene, says which handlers each session runs in a
behaviour; `KeepLoop` names those that keep the loop from load to save.
Positions are one higher than in the code, because sequences start at 1.
`DATA_LOCK` needs no variable: the modelled sections it guards have no await in
them.

Left out of the document: secrets, names (the uniqueness checks on user names
and Telegram ids are `Refuse`), traffic counters, share links, UI settings.
Left out of the handlers: the branch of `api_add_user_connection` that adopts an
existing client; `api_toggle_connection`, which changes peers and no document; mass
operations and the Remnawave sync, which are module `Traffic`'s. Negative
positions, which several handlers do not reject, are left out.

### PanelStore and the code

Every SQL transaction and every `os.replace` is a step, and `Crash` may come
between any two. `call` is the store call in progress (`Store._lock` admits one)
and names its next transaction; `req` is the audited request whose store calls
worker threads may separate. `phase` is the process: down, in `Store.init`, in
the startup hook, serving.

| Actions | Code |
|---|---|
| `Start`, `BootImport`, `BootAudit`, `BootNothing` | `Store.init`, `_bootstrap_from_json_if_needed` |
| `LoadImports` | the fallback in `load_all` |
| `ImportDocument`, `ImportAudit`, `StripAudit` | `_import_document`, `_import_audit`, `_strip_audit_from_json_file`, a transaction each |
| `Startup` | the startup hook: prune, first admin, migrations, save |
| `SaveDocument`, `SaveRequest`, `Snapshot`, `SnapshotFails`, `SaveRejected` | `save_all`: `_write_to_db`, then `_write_json_snapshot`, and their failures |
| `AuditedEdit`, `SaveAuditSettings`, `ClearAuditLog`, `NoteClearing`, `RestoreBackup`, `NoteRestore`, `PruneLog` | the handlers that touch the audit log, and the periodic prune |
| `Age` | the retention period passes |

Audit entries are numbers in the order of their timestamps; age is one line,
`horizon`. Only one positive retention period is told from "no limit", which is
what the `or 30` of `append_audit` turns on. An append and the prune that
follows it are one step: a crash between them leaves entries for the next prune.

`WritesAssumption` says that callers save documents with a user or a server. The
panel never deletes its last user, so only an uploaded backup can break it. Such
a restore is not modelled: a crash before its snapshot would make `load_all`
take the emptied database for a missing one and import the older file. Unknown
keys that the snapshot carries over are left out.

### VpnServer and the code

`awg_manager.py` and `wireguard_manager.py` do the same with different commands;
`Kind` tells them apart where they differ, in the next address. `conf` is the
config file, a section being a key, an address and a place in the file; `live`
is what `syncconf` last loaded; `table` is clientsTable. `pc`, `req`, `text` and
`rows` are a running operation: its next command, its client, and what it read.
`may`, chosen once, says which operations each session performs in a behaviour.
`told`, `issued`, `removed`, `torn` and `refused` are history.

| Actions | Code |
|---|---|
| `AddClient`, `AppendSection`, `SyncConf`, `ReadTable`, `WriteTable`, `Return` | `add_client` |
| `EnableClient`, `LookUp` or `NotFound`, `AppendSection`, then as above | `toggle_client`, enabling |
| `DropClient`, `ReplaceConfig`, then as above | `toggle_client`, disabling, and `remove_client` |
| `Break` | the SSH connection breaks before a command |

Upload, `docker cp` and `rm` are one step, and commands that reach the server
succeed, but for one: `awg_manager.py` counts on after 254, and `wg syncconf`
refuses a file with an octet above 255 as a whole (`Loads`). The code ignores its
exit status, so that the interface keeps the peers it had while config and table
go on; `refused` are the clients whose operations it missed, until a config
loads again. Keys and texts that only the client's own config needs are left out.
A config may hold clients that the table does not list, as when the Amnezia app
made them.

`PeersActAsSet` says what `Panel` may rely on: sessions that append, or one that
rewrites alone, change a set of peers one at a time. Two sessions that rewrite
one config undo each other; they are outside `Exclusive`, which `PeersActAsSet`
and `RemovedStaysOut` assume, and `Panel` has them, as reads and writes of whole
configs that overlap.

### Traffic and the code

A task moves from one await to the next in one step; `pc` says where it is, and
`data`, `visit`, `got`, `page`, `todo` and `goal` what it carries: a copy of the
document, what it has still to visit, the updates of a cycle, the accounts it
fetched, the grouped work of a mass operation. `store` is the document, `peers`
and `up` the clients the servers know and those that work, `meter` their
counters, `day` the date. `moved`, what was really transferred, `owner`, `issued`
and `torn`, the connections nobody has brought in line with their user, are history.

| Actions | Code |
|---|---|
| `StartCycle`, `Scrape`, `ScrapeFails`, `ApplyUpdates` | `periodic_background_tasks`, `_scrape_server_traffic`: load, one session per server, which keeps what it read before an exception, then deltas, resets, limits and expiry on a fresh document |
| `StartMass`, `RemovePeer`, `TogglePeer`, `CreatePeer`, `RecordOp`, `BreakServer`, `FinishMass` | `perform_mass_operations`, one coroutine per server |
| `SyncNow`, `SyncDelete`, `FetchPages`, `FetchFails`, `SyncUsers` | `api_sync_now`, `api_sync_delete`, `sync_users_with_remnawave` |
| `ToggleUser`, `UpdateUser`, `EditPeer`, `SaveEdit` | `api_toggle_user`, `api_update_user`, with the awaited sessions of `perform_toggle_user` |
| `Flow`, `Restart`, `NextDay`, `AccountChanges` | the world: traffic, a container that restarts, the date, Remnawave |

Nothing in the code keeps two edits of administrators apart. A scene with the
activity "together" lets them overlap, and there a user may be charged twice for
the same bytes: an old copy is saved before a cycle loads it, a newer one before
that cycle applies its deltas. The other scenes have one edit at a time
(`MayEdit`), beside the cycle and everything else. The S3 backup and the save of
RKN addresses also write an old copy back, and `api_add_user_connection` may adopt a
client with the bytes it has; neither is in this module, and beside an edit
they charge twice as well.

The list of servers stands still (module `Panel` moves it), all pages of
Remnawave come in one answer, and accounts are not renamed.

### TelegramBot and the code

`sent` is the stream of updates and `confirmed` what Telegram has forgotten. A
*poller* is one run of `_run_bot`: `offset`, `rest` (of a batch) and `now` (the
update in hand) are its own; `task` names the one that `_bot_task` names. `jobs`
are the services at work on threads, which outlive the run that waits for them.
`pending` are the dialogues, `stops` the calls of `stop_bot` in progress.

| Actions | Code |
|---|---|
| `Send`, `Poll`, `PollLost` | users; `get_updates` and its lost answers |
| `Begin`, `Answer`, `Stamp`, `Call`, `Resume`, `Reply`, `Raise` | the loop of `_run_bot`, `_dispatch` and its handlers, from one await to the next |
| `Work` | `record_bot_activity` and the services of `bot_services`: a load, perhaps a server, a save |
| `Login`, `LoginFails`, `Closed` | the beginning and the end of a run |
| `SaveSettings`, `ToggleOn`, `ToggleOff`, `StopBegins`, `StopEnds`, `Restart` | `save_settings`, `api_telegram_toggle`, `stop_bot`, `launch_bot`, the startup hook |

What a service does on the VPN server is `Panel`'s matter; here it takes time
and may fail. Updates whose handler only shows something are one kind.

### Monitors, RknLevels and the code

`state` is what a monitor knows (level, failures in a row, what it told), `doc`
the list, the settings, the addresses and the snapshot in the document, `world`
the dump, the peers and the paths as they are. `checks` are the checks in
progress, of the loop and of an admin. The rest is history: `heard`, what the
last message said of a server; `unsaid`, the servers whose baseline was
something else, since a monitor that has no results yet takes over its first
ones without a message (`Prime`); `streak`, problems in a row as a counter of
its own; `cause`, servers a check really found blocked; `overlap`, servers where
two checks shared the echo; and `undone`, a snapshot lost to a save of an older
document.

| Actions | Code |
|---|---|
| `Begin`, `Connect` | `periodic_server_monitor`, `periodic_rkn_monitor`, the checks by hand |
| `ProbeBlind`, `StartEcho`, `CallProbe`, `ProbeFails`, `StopEcho` | `_probe_server_rkn` with `check_server_registry`, `check_server_handshakes`, `check_server_reachability` and its echo on the server, which may not listen; the probe may not send (activity "mute") |
| `SaveIps` | the save of new addresses at the end of `run_rkn_checks` |
| `Apply` | `_apply_monitor_probe`, `_apply_rkn_probe` and the snapshot |
| `EnsureLoaded`, `Restart` | `_ensure_rkn_loaded`, `_restore_rkn_snapshot` |
| `Edit`, `SetThreshold`, `Change`, `Mend` | the server list, the settings, the world; `Mend` ends the failures of checks |

`Scan` is `match_ips_in_dump`, a fold over the tokens of the dump in its order;
`ScanLevel` is the reference: what any token says of an address. The alerts of
one check are out before the next one ends, and whether Telegram delivers them is
not modelled.

### Xray and the code

`inside` and `host` are the two copies of `server.json` and the clients table;
the installation mounts one on the other, keeps them in step, or has no host
copy (`scene.mount`). `running` is what the process serves. `text` and `rows`
are what a session is about to write. `scene.counted` says that some user has a
connection on this server. `stale` and `behind` are history: a session broke off
between a write and the restart, and the clients whose edit broke off between
the two copies.

| Actions | Code |
|---|---|
| `Begin`, `Read`, `Save`, `Sync`, `Stop`, `Start`, `Table`, `Write` | `add_client`, `toggle_client`, `remove_client`, `get_clients`, and `api_server_config_save` (op "raw"), command by command; `Stop` and `Start` are `docker restart` |
| `Break` | the connection breaks and the manager raises |
| `ToggleContainer` | `api_container_toggle` |
| `AppAdds` | the Amnezia app adds a client of its own |

`server.json` is written by two commands: `Save` is the upload and the `docker
cp` into the container, `Sync` the `cp` onto the host. A connection that breaks
between them leaves the host's copy behind, from which the next edit beside a
stopped container starts. The table is written in one step.

Saving the raw config leaves the clients alone and writes what is there at its
`Read`. Names, marks and second rows of a client in the table, its two
file names, and statistics are left out.

### Telemt and the code

`file` is `config.toml` (a user's line is there, commented out or missing, and
has a quota); `live`, `limit` and `octets` are the memory of the process. The
API in the container answers or does not (`scene.api`; the comment of
`_build_proxy_link` says the image ships without curl); `untold` records that,
since the process last read the file, the DELETE of a removal or a listing got
lost, or a connection broke between the write and what tells the process of it.
The lost DELETE of `toggle_client` is not excused: the SIGHUP has to make up for it.
`scene.counted` is as in `Xray`.

| Actions | Code |
|---|---|
| `Begin`, `Read`, `Write`, `Call`, `Refresh` | `add_client`, `edit_client`, `toggle_client`, `set_public_host`: read the file, write it, call the API, send SIGHUP |
| `Delete`, then `Read`, `Write` | `remove_client`, which calls the API first and sends no signal |
| `Get`, `Survey`, then `Read`, `Write`, `Call` per user, `Refresh` | `get_clients`: who has used up a quota is disabled, and the container restarted |
| `Break`, `Traffic` | the connection breaks; users transfer |

`edit_client` is called with a secret, as the page does; without one it takes
the user's line away. Other limits, and names that are also keys of other
sections, are left out.

## 3. The runs

| Run | Question | Instance | Result |
|---|---|---|---|
| `panel_changes` | do stale saves ever over-admit by an invite code, and does a confirmed deletion leave no peer while the server list stands still, unless another session was at work on that server? | 1 task, 2 threads, a code with one use, 2 new users, 2 servers, 2 connections | holds |
| `panel_tasks` | do records, peers, tokens and positions stay right among handlers that keep the loop; does every handler return; does a record that was taken out stay out? | 2 tasks, 3 servers, 2 connections, 1 token | holds |
| `panel_revocation` | `RevokedStaysRevoked` with the S3 backup | 2 tasks, 1 token | **violated** |
| `panel_orphan` | `DeletedPeersAreGone` with edits of the server list | 2 tasks, 1 thread, 2 servers | **violated** |
| `panel_store` | do SQLite and snapshot act as one document, and does the log keep its entries? | 3 documents, cap 2, 4 entries | holds |
| `vpn_peers` | do the operations on a server act as on a set of peers, and leave its files in agreement? | 2 sessions, 2 clients, 3 lines; a fresh config, or one with a client at 254 | holds |
| `vpn_addresses` | are the addresses of the clients in a config distinct? | 1 session, 3 clients, 4 lines | **violated** |
| `traffic` | is nobody charged too much, does an account get one user, are disabled users cut off, do limits bite? | 8 scenes; 2 servers, 2 users, 2 connections, 2 days | holds |
| `telegram_bot` | is every update handled before it is forgotten, once per run, and at last; has a chat one account? | 9 scenes; 2 chats, 2 or 3 updates, 2 runs | holds |
| `monitors` | do alarms have a cause, are they firm, do the admins hear of an outage at last, and do memory, snapshot and admins agree? | 400 dumps and 8 scenes; 2 servers | holds |
| `xray` | do edits keep other clients through broken connections, does the process run the file, is every client listed at last? | 6 scenes; 3 ids, 2 sessions, each kind of installation | holds |
| `telemt` | is nobody served off the file, and does a quota bite? | 4 scenes; 2 users, 2 sessions, with and without API | holds |

Why the bounds are enough.

* *Panel.* A stale save needs two sessions and one identifier created or removed
  between them; a third session adds another victim of the same kind.
  Over-admission needs two users and one use. A wrong direction of the reorder
  shows only on permutations that are not their own inverse, hence three servers
  in `panel_tasks`.
* *PanelStore.* A cap of 2 with 4 entries lets the cap and the age limit each
  remove entries, and two entries may exist before the upgrade.
* *VpnServer.* A lost section needs two clients, a duplicate one a third line, and
  the end of the subnet is one client away from 254.
* *Traffic.* `MaxBytes` is 2, the limit 2: a counter that restarts once, a charge
  lost to one old copy and a limit reached exactly are all there. A server has one
connection, so that a scrape that fails reads it or does not; the theorems take
any part of the clients. The two days
  are around a new year inside one ISO week, so that the weekly reset crosses it.
  One name is enough for two users of one account; a second server lets one fail.
* *TelegramBot.* `MaxRuns` is 2: an update that comes again does so in a second run,
  beside the thread of the first. A scene sends 2 or 3 updates and switches the
  bot at most twice.
* *Monitors.* `MaxFails` is 2, the highest threshold in use. Addresses are ten
  numbers in blocks of four, with both servers in one block; all dumps of up to
  three of seven tokens are scanned.
* *Xray, Telemt.* An editor and a lister, or two editors, and one client that is
  not theirs. The uuid that is never imported is one of the three ids. Quotas are
  0 (none) or 1.

Sessions of one kind, and identifiers that no initial document mentions, are
symmetric in `Panel` and `VpnServer`; symmetry is off where liveness is checked.
Deadlock is checked except in `telegram_bot`, where updates and runs are
bounded, and `monitors`, where the scenes that only scan a dump do nothing else.

Some properties excuse steps that are known to break them, and say so by name:
`DeletedPeersAreGone` a removal that another session's rewrite overlapped
(`raced`); `FilesAgree` clients whose operation broke off (`torn`), and for the
interface those whose config it refused (`refused`); `NeverOvercharged` needs
readings that are there (a failed `wg show` reads zero, activity "blank") and
edits that do not overlap ("together"); `CutOffWhenAlone` excuses servers that
failed (`torn`) and accounts that were not active when first seen; `ToldIsHeard`
and `AlarmsAreFirm` end where an old document was saved over a snapshot
(`undone`), `ToldIsHeard` also leaves out baselines (`unsaid`),
`AlarmsHaveACause` servers where two checks shared an echo (`overlap`);
`OutagesAreReported` leaves out outages found by a baseline, and promises
nothing while checks fail as a whole; `RunningIsCurrent` excuses a connection
broken between write and restart (`stale`), `EditsKeepOthers` the clients whose
edits were cut between the two copies (`behind`), `NobodyServedOffFile` a DELETE
that was lost and connections that broke (`untold`). What is excused is not
checked: PROJECT.json says at each such hazard what no property covers.
`Exclusive`, in `VpnServer`, `Xray` and `Telemt`, is the price of managers that
lock nothing: two sessions that rewrite one file undo each other.

The three violations are in PROJECT.json under "findings":

* `panel_revocation`: the backup loads, awaits the upload, and saves its old
  copy. A token revoked in between works again, against the docstring of
  `api_revoke_token` ("can never be used again").
* `panel_orphan`: a connection is created or deleted by position while the list
  of servers changes. `remove_client` goes to another machine or nowhere, the
  record is dropped, success is reported, and the peer keeps working.
* `vpn_addresses`: the next address is the last one in the file plus one. A
  disabled client is not in the file, so that its address is given away before
  it is enabled again; and enabling appends the section of an old client, whose
  successor's address the next client then receives. Neither is "the next
  available IP".

`RevokedStaysRevoked` and `DeletedPeersAreGone` are thus not properties of the
whole panel. The passing runs show where they do hold, and each is as wide as
they go: without handlers that save across an await, and without edits of the
server list, respectively.

`AdmissionWithinQuota` does hold against every stale save. A save may undo a
registration, but it undoes the user and the spent use together, since both are
in one document. The property says nothing of users who are undone.

What some properties do not say. `DeletedStaysDeleted` is about records that a
deletion took out: `api_remove_connection` also confirms deletions that took
out none, and those records stay. `EveryHandlerReturns` is about handlers that
give up the loop and end; no lock is modelled, so it says nothing of deadlocks.
`NothingForgotten` counts whatever a purge takes out as pruned, and not whether
the purge was right to take it. `OneAccountPerChat` covers the bot's own
writers; the panel's endpoints and the Remnawave sync set `telegramId` without a
look at other users. `Answered` promises nothing while the bot is not running.
`CutOffWhenAlone` is about disabling; a connection that an administrator makes
for a disabled user works.

**Fairness.** Nothing is assumed about new requests, restarts, failures or the
world.

* `Panel`: strong fairness of the continuation of each started handler. asyncio's
  ready queue is first in first out, so a task that is ready again and again is
  run; threads are scheduled by the system; SSH calls end or raise, because
  `SSHManager` passes a timeout to `connect` and to every command.
* `Traffic`: weak fairness of the cycle, which sleeps and wakes for ever, and strong
  fairness of each server's scrape: a server is reached now and then.
* `TelegramBot`: weak fairness of the steps and polls of each run, of the threads
  and of the stops; a poll that is lost is followed by another.
* `Monitors`: weak fairness of the loop's check, whose threads end by timeouts.
* `Xray`: the traffic loop lists again and again (weak), and its connection does
  not break at the same command for ever (strong fairness of each command). It
  skips servers on which no user has a connection (app.py:2007), so this is
  assumed, and `EveryClientIsListed` promised, only where `counted`.
* `Telemt`: the same, `counted` included, where the lister's connection does not
  break at all: with breaks, a listing may for ever disable one user and never
  come to the next.

## 4. What is proved

For any sets of tasks, threads, servers, users, codes, tokens, connections,
chats, sessions and scenes, assuming only the named ASSUMEs of the modules (in
particular that every document found at startup satisfies `DocOK`, and that
tasks, threads, `Free` and `Nowhere` are distinct):

| Theorem | Statement |
|---|---|
| `SpecIInv`, `TypeCorrect` | the inductive invariant of `Panel`, and `[]TypeOK` |
| `AdmissionSafe` | `[]AdmissionWithinQuota` |
| `PlacementKept` | `ListEditsKeepPlacement`, for lists of any length |
| `RevocationHolds`, `DeletionHolds` | `FreshSaves` implies `[]RevokedStaysRevoked` and `[]DeletedStaysDeleted` |
| `RecordsHold` | `[]RecordsMatchPeers`, if the records name listed servers at the start |
| `DeletedPeersHold` | `Still` implies `[]DeletedPeersAreGone` |
| `StoreIInv`, `StoreTypeCorrect` | the inductive invariant of `PanelStore`, and `[]TypeOK` |
| `AuditKept` | `[]NothingForgotten` |
| `ClearingKept` | `[]ClearedStaysCleared` |
| `StoreIsAtomic` | `PanelStore` implements `AtomicDoc` |
| `VpnIInv`, `VpnTypeCorrect` | the inductive invariant of `VpnServer`, and `[]TypeOK` |
| `VpnActsAsSet` | `Exclusive` implies that `VpnServer` implements `PeerSet` |
| `VpnAddressesAscend` | `[]AddressesAscend`, for `Kind = "awg"` and configs that ascend at the start |
| `VpnFilesAgree` | `[]FilesAgree` |
| `VpnRemovedStaysOut` | `Exclusive` implies `[]RemovedStaysOut` |
| `TrafficTypeOK`, `TrafficOneUser` | `[]TypeOK` of `Traffic`, and `[]OneUserPerAccount` |
| `TrafficCutOffWhenAlone` | `[]CutOffWhenAlone` |
| `TrafficNeverOvercharged` | `[]NeverOvercharged`, for any number of connections and bytes |
| `BotTypeCorrect` | `[]TypeOK` of `TelegramBot` |
| `BotConfirmedWasHandled`, `BotEachRunOnce` | `[]ConfirmedWasHandled`, and `EachRunOnce` |
| `BotOneAccount` | `[]OneAccountPerChat` |
| `MonitorsToldIsHeard`, `MonitorsSnapshotIsCurrent` | `[]ToldIsHeard`, `[]SnapshotIsCurrent` |
| `MonitorsAlarmsAreFirm` | `AlarmsAreFirm` |
| `MonitorsTypeOK`, `MonitorsAlarmsHaveACause` | `[]TypeOK` of `Monitors`, and `[]AlarmsHaveACause` |
| `MonitorsScanFindsTheWorst` | `[]ScanFindsTheWorst`, for dumps of any length |
| `XrayTypeCorrect`, `XrayRunningIsCurrent` | `[]TypeOK` and `[]RunningIsCurrent` of `Xray` |
| `XrayEditsKeepOthers` | `EditsKeepOthers` |
| `TelemtIInv`, `TelemtNobodyServedOffFile` | the inductive invariant of `Telemt`, and `[]NobodyServedOffFile` |

*Panel.* The quota of the stored document is not inductive: a handler may hold
an old copy and save it. The invariant therefore says that the stored document
*and every copy in a handler's hands* satisfy `DocOK`: at most `uses` users were
admitted by each code, `uses` is within `max_uses`, identifiers are unique; and
that every identifier they mention was issued, so that a fresh one is new to all
of them. The lemmas at the head of `PanelProofs` show that each edit preserves
`DocOK` (the counting uses the cardinality theorems; the reorder needs that a
permutation of positions has an inverse), the later ones that each action keeps
the invariant. `PlacementKept` follows from the uniqueness of servers in the
copy.

Four properties do not hold of the whole panel, as the violation runs show for
two of them; each is proved of the largest part that keeps it. `FreshSaves` lets
any tasks run any handlers but the two that save what they loaded before an
await (`backup`, `toggle`): then the store and every copy that will be saved are
free of what was revoked or deleted, because whoever holds such a copy has the
loop (`FreshInv`). Drop the condition on `backup` and `panel_revocation` is the
counterexample; a thread breaks it likewise. What was deleted is, here, the
records that were taken out. `Still` forbids edits of the server list only, and
allows threads, stale saves and rewrites that overlap: then there is one
position for each id (`\E h : Homes(h)`), and every record, copy, page, visit
and handler that mentions an id agrees with it, and so does its peer. An id
whose deletion was confirmed is gone for good (`Gone`): it has no peer and no
session has read it, or its removal was raced. A peer that is removed while
nobody else is at work on its server is in no session's hands, which is why
later rewrites cannot bring it back; without `Still`, `panel_orphan`.
`RecordsMatchPeers` names its own condition, handlers in `KeepLoop`: one that is
under way is alone, and its copy lists the servers that are stored
(`SerialInv`).

*PanelStore.* The invariant (`IInv`) says what a call in progress has already
done (the document whose snapshot is pending is the one in SQLite; an import
finds an empty database and a file), and that what the file still lists is in
the table or was taken out on purpose, unless nothing was moved yet. The last
part is what makes `ClearedStaysCleared` hold although an empty table is imported
again: the clearing request saves, and its snapshot removes the entries
from the file before the caller is answered. For the refinement, the document
is the one the next `load_all` returns (`Effective`: the file when the database
is blank, else the database), and a save is pending while its snapshot is.

*VpnServer.* The invariant ties a session's command to its operation and, under
`Exclusive`, says that a session about to replace the config holds what the
config contains: whoever else is at work cannot have changed it, because a
workload that rewrites leaves nobody else one. Hence replacing takes out one
peer and no other. For the addresses, the text that a lone session holds
ascends, and the address it was given is still the next one; that a nonempty
config has a last section follows from the well-foundedness of `<` on the
naturals. The allocation of `wireguard_manager.py` starts again at 2 and does
not ascend. For the files (`LoneInv`), a session whose workload leaves the
others none finds what it read when it writes; table and interface agree with
the config about every client but the one in hand, the torn ones and, for the
interface, the refused ones, and about the one in hand they come into agreement
one command after another. A removed client is not enabled again, because
enabling has to find its row; `FilesAgree` needs no assumption, since `Alone` is
part of it, and `RemovedStaysOut` holds when `Exclusive` makes whoever removes
work alone.

*Traffic.* That a name has one user is not inductive for the stored document alone:
tasks save the copies they loaded before an await. The invariant (`TrInv`) says
it of the document and of every copy a task carries; a user is added only by
`SyncUsers`, which looks at the document it saves, without an await in between.

`CutOffWhenAlone` needs what a mass operation has still to do. `CutInv` calls a
connection cut off when its peer does not work or it is torn; whoever is disabled,
and is not about to be enabled, is cut off; whoever is about to be disabled is, or a
switch waits in the grouped work of the cycle; and no creation in that
work is for a user it switches. It rests on the types (`TypeInv`) and on `Owned`:
whose each connection is, in every copy and every piece of work that names it.

For `NeverOvercharged` a copy is not bad because it is old but because its parts
do not belong together. `CreditInv` says of the store and of every copy an edit
will save that it is *creditable* (`Credit`): to each connection of a user an
amount can be given that no delta will exceed, whichever reading the counter is
compared with, the copy's own, the store's, or one a cycle has taken over
already, so that these amounts and the user's total stay within what was moved.
A copy that is saved takes back readings and charges alike, and stays
creditable; while a cycle is out, the readings it took its deltas from count as
well (`Awaited`). Two edits that overlap can separate the two, which is how the
proof attempt found the scene "together". The amounts are summed over a set, and
the sum is a fold: that it splits, grows and is monotone is shown by taking a
least set for which it fails, since `<` on the naturals is well founded.

*TelegramBot.* Three invariants. `TInv` has the types of every run and job.
`OrderInv` orders a run: whatever lies before its offset was handled by some run
or is the update in hand, the rest of its batch lies from the offset on without
a gap, and it has ended nothing from there on. Hence an offset that is sent
confirms handled updates only, and no run goes back. `Accounts` says that the
store and every copy held by a thread, a stamp or a stop has one account per
chat, and that who registers a chat loaded a document without it: a save may
undo an account, never double it.

*Monitors.* `MInv` has what a check holds at each of its steps (`FormInv`), that
the snapshot says what the admins heard and counts no more problems than were
seen in a row, unless an old one came back or the baseline was silent
(`SnapInv`), and the two invariants themselves. `AlarmsAreFirm` follows step by
step from the counts. For `AlarmsHaveACause`, whatever says "blocked" (a row of
results, the memory, the snapshot, a copy that will be saved) says it of a
server that a check found blocked or where two checks shared the echo (`AInv`);
the echo that a check started is still on when its probe answers.
`ScanFindsTheWorst` is about a fold over the dump: what it computes for each
part of the dump is what any token of that part says, because a smallest part
for which this fails would contain a smaller one.

*Xray.* `RunningIsCurrent` is inductive given the types. For `EditsKeepOthers`,
`KeptInv` says that under `Exclusive` the host's `server.json` is missing or differs
from the container's only in clients whose edits were cut short or are about to
be copied (`HostNear`), that neither needs an upgrade, so that listings never
write, that whoever is about to save holds a text that changes what would be
served by his own edit and those, and that whoever is about to copy it to the
host holds what the container has.

*Telemt.* A listing writes only when a quota is spent, so that under `Exclusive`
one session writes, from the file that is still there (`EditInv`). Each of its
commands then brings file and process into step in the order of the operation:
who is disabled leaves the file first, who is removed the process first. Only a
DELETE that is lost, and a connection that breaks before the process is told,
leave them apart, and that is `untold`.

Every safety property of a passing run is thus stated by a theorem, those of the
part of the panel that keeps them under the conditions named above. Only
model-checked are the liveness properties: `EveryHandlerReturns`, `LimitsBite`,
`Answered`, `OutagesAreReported`, `EveryClientIsListed` and `QuotaBites`. They need
fairness and ENABLED, which the provers do not handle.

## 5. Not modelled

* DNS, AdGuard and SOCKS5 managers, installation of all protocols, and the SSH
  manager: remote scripts and a wrapper; the other modules have remote calls that
  succeed, fail or break off.
* S3 uploads and their retention: remote I/O; what is scheduled and saved around
  an upload is in `Panel`.
* Login, pages, share links, captcha, the probe service: a request that reads, or
  writes one value, and rendering.
* Migrations and the schema, translations, templates: data.
* Of modelled parts: the restore of a blank backup, negative positions, paging of
  Remnawave, renamed accounts, parsing of malformed dump tokens and of TOML,
  texts and menus of the bot. PROJECT.json gives what each component leaves out.

## 6. What remains

1. Paging of Remnawave in `Traffic`, where an account may slip between two pages,
   and two runs of the bot that poll at once, of which Telegram refuses one.
2. Xray as another implementation of `PeerSet`.
