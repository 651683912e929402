------------------------------ MODULE Monitors ------------------------------
(***************************************************************************)
(* The two monitors of app.py, which tell the admins what became of the    *)
(* servers.  A monitor checks every server on a worker thread, then takes  *)
(* the results over on the event loop, where it decides what to tell.      *)
(*                                                                         *)
(* "tcp": periodic_server_monitor connects to the SSH ports.  What it knows*)
(* is gone with the process.  "rkn": periodic_rkn_monitor looks servers up *)
(* in the dump of blocked addresses, at the handshakes of their peers, and *)
(* asks a probe in Russia to reach them; an admin may start the same check *)
(* by hand at any time.  What it knows is kept in the panel document.      *)
(* The first knows servers up and down: they are "ok" and "blocked" here.  *)
(*                                                                         *)
(* Servers have different hosts and one address each.  fails is compared   *)
(* with the threshold only, and counts to MaxFails.  Recoveries are        *)
(* announced too (notify_recovery, notify_clear), and what a check         *)
(* announces has reached the admins before the next check ends.            *)
(***************************************************************************)
EXTENDS RknLevels, FiniteSets

CONSTANTS
    Servers,
    Ip,        \* [Servers -> Ips]
    Scenes,    \* what each behaviour may contain: see Scene
    MaxFails   \* bound of the model

\* The world outside: the dump, peers, and paths that are cut.
World == [dump : Seq(Token), peers : SUBSET Peer,
          dark : SUBSET Servers, noudp : SUBSET Servers]

AllActs == {"check", "hand", "restart", "ssh", "raise", "mute", "ips", "offline",
            "settings"}
Scene == [kind : {"tcp", "rkn"}, worlds : SUBSET World, list : SUBSET Servers,
          moves : SUBSET Servers, acts : SUBSET AllActs, threshold : 1..MaxFails]
\* moves: the servers that are added and removed; threshold: the setting the
\* behaviour starts with.

ASSUME MonitorsAssumption ==
    /\ Ip \in [Servers -> Ips] /\ MaxFails \in Nat \ {0}
    /\ \A x \in Scenes : x \in Scene /\ x.worlds # {}

Known == [level : Levels, fails : 0..MaxFails, told : Levels]
New == [level |-> "ok", fails |-> 0, told |-> "ok"]
States == UNION {[on -> Known] : on \in SUBSET Servers}
Snap == [primed : BOOLEAN, state : States]
Nothing == [x \in {} |-> New]

\* The document: servers, those whose addresses are recorded, the snapshot, and
\* the fail_threshold of the monitor.
Doc == [list : SUBSET Servers, ips : SUBSET Servers, snap : Snap,
        threshold : 1..MaxFails]

Hands == {"loop", "hand"}

VARIABLES
    scene,
    may,     \* what may still happen
    world,
    doc,     \* the panel document
    file,    \* the dump on disk: a set of at most one
    primed, state,     \* _monitor_primed, _monitor_state; _rkn_primed, _rkn_state
    checks,  \* [Hands -> the check in progress]
    echo,    \* [Servers -> the echo process, and whether it logged the probe]
    heard,   \* what the last message said of a server that is watched
    unsaid,  \* servers whose baseline was not what the admins had heard
    streak,  \* problems in a row
    cause,   \* servers that a check really found blocked
    overlap, \* servers where two checks used the echo port at once
    undone   \* a check saved a copy whose snapshot was not the last one

memory == <<primed, state>>
ghosts == <<heard, unsaid, streak, cause, overlap, undone>>
vars == <<scene, may, world, doc, file, memory, checks, echo, ghosts>>

NoFile == {}
NoSnap == [primed |-> FALSE, state |-> Nothing]
Idle == [copy |-> [list |-> {}, ips |-> {}, snap |-> NoSnap, threshold |-> 1],
         index |-> [x \in {} |-> "ok"], left |-> {}, at |-> {},
         part |-> "ok", listens |-> TRUE, sent |-> TRUE, tcp |-> TRUE, found |-> {},
         rows |-> [x \in {} |-> "ok"], step |-> "idle"]
NoEcho == [on |-> FALSE, log |-> FALSE]

TypeOK ==
    /\ scene \in Scene /\ may \subseteq AllActs /\ world \in scene.worlds
    /\ doc \in Doc /\ file \in {NoFile} \cup {{w.dump} : w \in scene.worlds}
    /\ primed \in BOOLEAN /\ state \in States
    /\ \A h \in Hands : checks[h].left \subseteq Servers
    /\ \A h \in Hands : DOMAIN checks[h].rows \subseteq Servers
    /\ echo \in [Servers -> [on : BOOLEAN, log : BOOLEAN]]
    /\ heard \in [Servers -> Levels] /\ unsaid \subseteq Servers
    /\ streak \in [Servers -> 0..MaxFails]
    /\ cause \subseteq Servers /\ overlap \subseteq Servers /\ undone \in BOOLEAN

Told(s) == IF s \in DOMAIN state THEN state[s].told ELSE "ok"

-----------------------------------------------------------------------------
(* One check, on its thread *)

With(f, x, y) == [z \in DOMAIN f \cup {x} |-> IF z = x THEN y ELSE f[z]]

Watched(list) == {Ip[s] : s \in list}

\* ensure_dump_file: a file that is old is replaced by a download; when that
\* fails it is used as it is.
Dump ==
    /\ scene.kind = "rkn"
    /\ \/ file' = {world.dump}
       \/ (file # NoFile \/ "offline" \in may) /\ file' = file

\* Without a dump every address is clean.
Index(list) ==
    IF file' = NoFile THEN Idle.index
    ELSE Scan(CHOOSE d \in file' : TRUE, Watched(list))

\* The monitor's settings and the servers are loaded, the dump is scanned.
Begin(h) ==
    /\ checks[h].step = "idle"
    /\ (IF h = "loop" THEN "check" ELSE "hand") \in may
    /\ Dump \/ (scene.kind = "tcp" /\ UNCHANGED file)
    /\ checks' = [checks EXCEPT ![h] =
            [Idle EXCEPT !.copy = doc, !.left = doc.list, !.step = "probing",
                         !.index = Index(doc.list)]]
    /\ UNCHANGED <<scene, may, world, doc, memory, echo, ghosts>>

\* The row of a server is complete.
Row(h, s, level) ==
    checks' = [checks EXCEPT ![h].left = @ \ {s}, ![h].at = {},
                             ![h].step = "probing",
                             ![h].rows = With(@, s, level)]

\* get_servers_status: the SSH port answers or it does not.
Connect(h, s) ==
    /\ scene.kind = "tcp"
    /\ checks[h].step = "probing" /\ s \in checks[h].left
    /\ Row(h, s, IF s \in world.dark THEN "blocked" ELSE "ok")
    /\ cause' = cause \cup (world.dark \cap {s})
    /\ UNCHANGED <<scene, may, world, doc, file, memory, echo, heard, unsaid, streak, overlap, undone>>

Registry(h, s) == MatchIp(checks[h].index, Ip[s])

\* What the dump alone says of a server.
Listed(h, s) == IF Registry(h, s) = "blocked" THEN {s} ELSE {}

\* SSH fails, so only the dump was looked at; or the check as a whole raised,
\* and its row says "ok".
ProbeBlind(h, s) ==
    /\ scene.kind = "rkn"
    /\ checks[h].step = "probing" /\ s \in checks[h].left
    /\ \/ "ssh" \in may /\ Row(h, s, Registry(h, s))
       \/ "raise" \in may /\ Row(h, s, "ok")
    /\ cause' = cause \cup Listed(h, s)
    /\ UNCHANGED <<scene, may, world, doc, file, memory, echo, heard, unsaid, streak, overlap, undone>>

\* What may fail where echo and probe are, does so or not.
Works == {TRUE} \cup {b \in {FALSE} : "mute" \in may}

\* Handshakes; start_udp_echo ends an echo left by another check and its log,
\* and the check looks whether the new one listens.
StartEcho(h, s) == \E listens \in Works :
    /\ scene.kind = "rkn"
    /\ checks[h].step = "probing" /\ s \in checks[h].left
    /\ checks' = [checks EXCEPT ![h].at = {s}, ![h].step = "echo",
            ![h].found = @ \cup ((IF "ips" \in may THEN {s} ELSE {}) \ checks[h].copy.ips),
            ![h].listens = listens,
            ![h].part = Merged({Registry(h, s), HandshakeLevel(world.peers)})]
    /\ echo' = [echo EXCEPT ![s] = [on |-> listens, log |-> FALSE]]
    /\ cause' = cause \cup Listed(h, s)
    /\ overlap' = overlap \cup {t \in {s} : \E k \in Hands \ {h} : t \in checks[k].at}
    /\ UNCHANGED <<scene, may, world, doc, file, memory, heard, unsaid, streak, undone>>

\* call_ru_probe: a connection, and a datagram for whichever echo is there.
CallProbe(h, s) == \E sent \in Works :
    /\ checks[h].step = "echo" /\ checks[h].at = {s}
    /\ checks' = [checks EXCEPT ![h].step = "sent", ![h].sent = sent,
                                ![h].tcp = s \notin world.dark]
    /\ LET open == s \notin world.noudp \cup world.dark
       IN  /\ echo' = [echo EXCEPT ![s].log = @ \/ (sent /\ open /\ echo[s].on)]
           /\ cause' = cause \cup (IF open THEN {} ELSE {s})
    /\ UNCHANGED <<scene, may, world, doc, file, memory, heard, unsaid, streak, overlap, undone>>

\* The probe does not answer, or SSH breaks: the path counts as open.
ProbeFails(h, s) ==
    /\ "ssh" \in may
    /\ checks[h].step = "echo" /\ checks[h].at = {s}
    /\ Row(h, s, checks[h].part)
    /\ echo' = [echo EXCEPT ![s] = NoEcho]
    /\ UNCHANGED <<scene, may, world, doc, file, memory, ghosts>>

\* Mutant of EchoLog: the echo is stopped, and its log removed, before it is read.
EchoLogAfterStop(s) == FALSE

\* read_udp_echo_log
EchoLog(s) == echo[s].log

\* The log is read, then stop_udp_echo ends the echo, whosever it is.
StopEcho(h, s) ==
    /\ checks[h].step = "sent" /\ checks[h].at = {s}
    /\ Row(h, s, Merged({checks[h].part,
                         ReachLevel({checks[h].tcp}, checks[h].listens,
                                    checks[h].sent, EchoLog(s))}))
    /\ echo' = [echo EXCEPT ![s] = NoEcho]
    /\ UNCHANGED <<scene, may, world, doc, file, memory, ghosts>>

\* New addresses were found: the copy the check began with is saved as a whole.
SaveIps(h) ==
    /\ checks[h].step = "probing" /\ checks[h].left = {} /\ checks[h].found # {}
    /\ doc' = [checks[h].copy EXCEPT !.ips = @ \cup checks[h].found]
    /\ checks' = [checks EXCEPT ![h].found = {}]
    /\ undone' = (undone \/ checks[h].copy.snap # doc.snap)
    /\ UNCHANGED <<scene, may, world, file, memory, echo, heard, unsaid, streak, cause, overlap>>

-----------------------------------------------------------------------------
(* The results are taken over, on the event loop *)

\* Mutant of Bump: failures are counted on and on.
BumpOn(n) == n + 1

Bump(n) == IF n < MaxFails THEN n + 1 ELSE n

\* The first results are a baseline nobody is told of.
Prime(level, limit) ==
    [level |-> level, told |-> level,
     fails |-> IF scene.kind = "tcp" /\ level # "ok" THEN limit ELSE 0]

\* Mutants of Observe: any problem is told at once; a recovery is announced but
\* the warning is not taken back, so that it stands when the problem returns.
ObserveHasty(k, level, limit) ==
    [level |-> level, fails |-> IF level = "ok" THEN 0 ELSE limit, told |-> level]
ObserveKeepsTold(k, level, limit) ==
    IF level = "ok" THEN [New EXCEPT !.told = k.told]
    ELSE LET fails == Bump(k.fails)
         IN  [level |-> level, fails |-> fails,
              told |-> IF fails >= limit THEN level ELSE k.told]

\* A recovery is told at once, a problem when it was seen often enough, one that
\* is worse than what was told at once.
Observe(k, level, limit) ==
    IF level = "ok" THEN New
    ELSE LET worse == k.told # "ok" /\ Rank(level) > Rank(k.told)
             fails == IF worse THEN limit ELSE Bump(k.fails)
         IN  [level |-> level, fails |-> fails,
              told |-> IF fails >= limit THEN level ELSE k.told]

Entry(s) == IF s \in DOMAIN state THEN state[s] ELSE New

\* Servers that were not checked are forgotten.
After(rows, limit) ==
    [s \in DOMAIN rows |->
        IF primed THEN Observe(Entry(s), rows[s], limit) ELSE Prime(rows[s], limit)]

\* A message goes out: "up" or "clear" after a warning, "down" or the level.
Announces(s, level, limit) ==
    /\ primed
    /\ Entry(s).told # level
    /\ level = "ok" \/ Observe(Entry(s), level, limit).fails >= limit

\* Mutants of Persisted: the snapshot goes into the copy the check began with,
\* which is not saved; it is written without what was told.
PersistedInCopy(h, after) == doc
PersistedUntold(h, after) ==
    [doc EXCEPT !.snap =
        [primed |-> TRUE,
         state |-> [s \in DOMAIN after |-> [after[s] EXCEPT !.told = "ok"]]]]

\* _persist_rkn_snapshot, into a document loaded anew
Persisted(h, after) ==
    IF scene.kind = "tcp" THEN doc
    ELSE [doc EXCEPT !.snap = [primed |-> TRUE, state |-> after]]

Apply(h) ==
    /\ checks[h].step = "probing" /\ checks[h].left = {} /\ checks[h].found = {}
    /\ LET rows  == checks[h].rows
           after == After(rows, checks[h].copy.threshold)
       IN  /\ state' = after
           /\ primed' = TRUE
           /\ doc' = Persisted(h, after)
           /\ heard' = [s \in Servers |->
                    IF s \notin DOMAIN rows THEN "ok"
                    ELSE IF Announces(s, rows[s], checks[h].copy.threshold) THEN rows[s]
                    ELSE heard[s]]
           /\ unsaid' = {s \in DOMAIN rows :
                    IF primed
                    THEN s \in unsaid /\ ~Announces(s, rows[s], checks[h].copy.threshold)
                    ELSE rows[s] # heard[s]}
           /\ streak' = [s \in Servers |->
                    IF s \notin DOMAIN rows \/ rows[s] = "ok" THEN 0
                    ELSE Bump(streak[s])]
    /\ checks' = [checks EXCEPT ![h] = Idle]
    /\ UNCHANGED <<scene, may, world, file, echo, cause, overlap, undone>>

-----------------------------------------------------------------------------
(* Everything else *)

\* _ensure_rkn_loaded: a page is shown while there are no results.
EnsureLoaded ==
    /\ scene.kind = "rkn" /\ state = Nothing
    /\ state' = doc.snap.state
    /\ primed' = (primed \/ doc.snap.primed)
    /\ UNCHANGED <<scene, may, world, doc, file, checks, echo, ghosts>>

\* The process ends and starts again, in the model once; what an echo on a
\* server logged is void.
Restart ==
    /\ "restart" \in may /\ may' = may \ {"restart"}
    /\ checks' = [h \in Hands |-> Idle]
    /\ echo' = [s \in Servers |-> NoEcho]
    /\ IF scene.kind = "rkn"
       THEN state' = doc.snap.state /\ primed' = doc.snap.primed
       ELSE state' = Nothing /\ primed' = FALSE
    /\ UNCHANGED <<scene, world, doc, file, ghosts>>

Edit(s) ==
    /\ s \in scene.moves
    /\ doc' = IF s \in doc.list
              THEN [doc EXCEPT !.list = @ \ {s}, !.ips = @ \ {s}]
              ELSE [doc EXCEPT !.list = @ \cup {s}]
    /\ UNCHANGED <<scene, may, world, file, memory, checks, echo, ghosts>>

\* api_set_monitor_settings, api_set_rkn_monitor_settings
SetThreshold(n) ==
    /\ "settings" \in may /\ n # doc.threshold
    /\ doc' = [doc EXCEPT !.threshold = n]
    /\ UNCHANGED <<scene, may, world, file, memory, checks, echo, ghosts>>

\* Servers can be logged in to again, and checks stop raising.
Mend ==
    /\ may \cap {"ssh", "raise"} # {}
    /\ may' = may \ {"ssh", "raise"}
    /\ UNCHANGED <<scene, world, doc, file, memory, checks, echo, ghosts>>

Change(w) ==
    /\ w # world
    /\ world' = w
    /\ UNCHANGED <<scene, may, doc, file, memory, checks, echo, ghosts>>

Init ==
    /\ scene \in Scenes
    /\ may = scene.acts
    /\ world \in scene.worlds
    /\ doc = [list |-> scene.list, ips |-> {}, snap |-> NoSnap,
              threshold |-> scene.threshold]
    /\ file = NoFile
    /\ primed = FALSE /\ state = Nothing
    /\ checks = [h \in Hands |-> Idle]
    /\ echo = [s \in Servers |-> NoEcho]
    /\ heard = [s \in Servers |-> "ok"] /\ unsaid = {} /\ streak = [s \in Servers |-> 0]
    /\ cause = {} /\ overlap = {} /\ undone = FALSE

CheckStep(h) ==
    \/ Begin(h) \/ SaveIps(h) \/ Apply(h)
    \/ \E s \in Servers : Connect(h, s) \/ ProbeBlind(h, s) \/ StartEcho(h, s)
                            \/ CallProbe(h, s) \/ ProbeFails(h, s) \/ StopEcho(h, s)

Next ==
    \/ \E h \in Hands : CheckStep(h)
    \/ EnsureLoaded \/ Restart \/ Mend
    \/ \E s \in Servers : Edit(s)
    \/ \E n \in 1..MaxFails : SetThreshold(n)
    \/ \E w \in scene.worlds : Change(w)

Spec == Init /\ [][Next]_vars

\* The loop sleeps and checks again, its threads come to an end.
FairSpec == Spec /\ WF_vars(CheckStep("loop"))

-----------------------------------------------------------------------------
(* Properties *)

\* However the dump is ordered, one pass over it finds for each address the
\* worst that any of its tokens says.
ScanFindsTheWorst ==
    \A s \in scene.list :
        Scan(world.dump, Watched(scene.list))[Ip[s]] =
            ScanLevel({world.dump[i] : i \in DOMAIN world.dump},
                      Watched(scene.list), Ip[s])

\* What a monitor believes to have told is what its last message said, over
\* checks by hand, removed servers and a restart that takes the snapshot back
\* (_apply_rkn_probe, _ensure_rkn_loaded); but for servers whose baseline was
\* something else, until the next message about them.  It ends where a check
\* that found new addresses saved its copy over the snapshot of another check:
\* a restart or an empty list then loads the old one.
ToldIsHeard == primed /\ ~undone => \A s \in Servers \ unsaid : Told(s) = heard[s]

\* Between checks the document holds what the memory holds, although checks
\* save whole documents that they loaded long before.
SnapshotIsCurrent ==
    (scene.kind = "rkn" /\ primed /\ \A h \in Hands : checks[h].step = "idle")
        => doc.snap = [primed |-> primed, state |-> state]

\* Nobody is told "blocked" of a server that no check found blocked: the echo
\* of one check reaches the probe of the same check, unless two checks used
\* the port of that server at the same time.
AlarmsHaveACause ==
    \A s \in Servers : Told(s) = "blocked" => s \in cause \cup overlap

\* After the baseline, a server that was fine is reported only when as many
\* checks in a row found a problem as the setting said when the last of them
\* began; but for counts that an old snapshot brought back.
AlarmsAreFirm ==
    [][\A s \in Servers, h \in Hands :
          (/\ primed /\ ~undone /\ Told(s) = "ok" /\ Told(s)' # "ok"
           /\ checks'[h] # checks[h])
              => streak'[s] >= checks[h].copy.threshold]_vars

Out(s) == s \in doc.list /\ s \in world.dark

\* The baseline found the outage, and nobody is told.
InBaseline(s) == s \in unsaid /\ Told(s) = "blocked"

\* The admins hear of a server that is out of reach, unless it comes back first
\* (_apply_monitor_probe, _apply_rkn_probe).  Silent by design is an outage that
\* the baseline found, hence whatever begins before the first results, also
\* those after a restart that found no snapshot; and nothing is promised while
\* checks fail as a whole, or once one undid a snapshot.
OutagesAreReported ==
    "check" \in scene.acts =>
        \A s \in Servers :
            (/\ primed /\ Out(s) /\ ~InBaseline(s)
             /\ may \cap {"ssh", "raise"} = {} /\ ~undone)
                ~> (heard[s] = "blocked" \/ ~Out(s) \/ ~primed \/ undone)
=============================================================================
