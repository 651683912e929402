------------------------------- MODULE Telemt -------------------------------
(***************************************************************************)
(* managers/telemt_manager.py: the users of one Telemt proxy, in its       *)
(* config.toml and in its memory, as the panel's SSH sessions edit them.   *)
(*                                                                         *)
(* Every operation reads the whole file, edits the text and uploads it     *)
(* again; nothing locks.  The process learns of it through its HTTP API,   *)
(* by SIGHUP or by a restart of the container; the API is called with curl *)
(* inside the container, and where the image has none the calls are lost.  *)
(* Listing writes too: get_clients, which the traffic loop calls on a      *)
(* thread in every cycle, disables the users whose quota is spent.         *)
(*                                                                         *)
(* A user is a line of [access.users], commented out when disabled; of the *)
(* limits only the quota is modelled.  Secrets, links and names that are   *)
(* also keys of other sections are left out; api_edit_connection is called *)
(* with a secret, as the page does.  Commands that reach the server        *)
(* succeed.                                                                *)
(***************************************************************************)
EXTENDS Integers

CONSTANTS
    Names,     \* user names
    Sessions,  \* SSH sessions
    Listers,   \* the sessions of the traffic loop
    None,      \* no request
    MaxQuota,  \* bound of the model: quotas, in units of traffic
    Scenes     \* proxies and who works on them (Scene)

Edits == {"add", "edit", "enable", "disable", "remove", "domain"}
Ops == Edits \cup {"list"}

\* The file: who has a line, commented out or not, and a quota (0: none).
File == [users : [Names -> {"on", "off", "out"}], quota : [Names -> 0..MaxQuota]]
Request == [op : Ops, name : Names \cup {None}, quota : 0..MaxQuota]

Scene == [api : BOOLEAN, file : File, quotas : SUBSET (0..MaxQuota),
          may : [Sessions -> SUBSET Ops], breaks : SUBSET Sessions,
          counted : BOOLEAN]   \* some user has a connection on this server

ASSUME TelemtAssumption ==
    /\ None \notin Names \cup Request
    /\ MaxQuota \in Nat
    /\ Listers \subseteq Sessions
    /\ Scenes \subseteq Scene

VARIABLES
    scene,  \* the proxy, the quotas that are set, the workloads, and the
            \* sessions whose connection may break
    file,   \* config.toml
    live,   \* the users the process serves
    limit,  \* [Names -> 0..MaxQuota], the quotas in memory
    octets, \* [Names -> 0..MaxQuota], the traffic counted in memory
    pc,     \* [Sessions -> its next command, or "idle"]
    req,    \* [Sessions -> Request \cup {None}], the operation in progress
    text,   \* [Sessions -> File], the text it is about to write
    over,   \* [Sessions -> SUBSET Names], users whose quota was spent
    left,   \* [Sessions -> SUBSET Names], users a listing has yet to disable
    untold  \* the process missed that a user was taken out of the file

memory == <<live, limit, octets>>
vars == <<scene, file, memory, pc, req, text, over, left, untold>>

NoFile == [users |-> [n \in Names |-> "out"], quota |-> [n \in Names |-> 0]]

On(f) == {n \in Names : f.users[n] = "on"}

Init ==
    /\ scene \in Scenes
    /\ file = scene.file
    /\ live = On(file)
    /\ limit = file.quota
    /\ octets = [n \in Names |-> 0]
    /\ pc = [s \in Sessions |-> "idle"]
    /\ req = [s \in Sessions |-> None]
    /\ text = [s \in Sessions |-> NoFile]
    /\ over = [s \in Sessions |-> {}]
    /\ left = [s \in Sessions |-> {}]
    /\ untold = FALSE

-----------------------------------------------------------------------------
(* The file *)

\* _update_line_in_section on [access.users]: the line is written anew,
\* without the mark of a disabled user, and inserted if there is none.
Updated(f, n, q) == [users |-> [f.users EXCEPT ![n] = "on"],
                     quota |-> [f.quota EXCEPT ![n] = q]]

\* The lines of a user in every section, commented out or not.
Marked(f, n, mark) ==
    [f EXCEPT !.users[n] = IF @ = "out" THEN "out" ELSE mark]

\* What the operations make of the text they read.  A listing disables one
\* user after the other.
Edited(f, r, n) ==
    CASE r.op = "add" -> [users |-> [f.users EXCEPT ![n] = "on"],
                          quota |-> [f.quota EXCEPT ![n] = IF r.quota = 0 THEN @ ELSE r.quota]]
      [] r.op = "edit" -> Updated(f, n, r.quota)
      [] r.op = "enable" -> Marked(f, n, "on")
      [] r.op \in {"disable", "list"} -> Marked(f, n, "off")
      [] r.op = "remove" -> [users |-> [f.users EXCEPT ![n] = "out"],
                             quota |-> [f.quota EXCEPT ![n] = 0]]
      [] r.op = "domain" -> f

-----------------------------------------------------------------------------
(* The process *)

\* SIGHUP: the counters stay.
Reload ==
    /\ live' = On(file)
    /\ limit' = file.quota
    /\ octets' = [n \in Names |-> IF n \in live THEN octets[n] ELSE 0]

\* docker restart: they are gone.
RestartContainer ==
    /\ live' = On(file)
    /\ limit' = file.quota
    /\ octets' = [n \in Names |-> 0]

Added(n, q) ==
    /\ live' = live \cup {n}
    /\ limit' = IF n \in live THEN limit ELSE [limit EXCEPT ![n] = q]
    /\ UNCHANGED octets

Deleted(n) ==
    /\ live' = live \ {n}
    /\ octets' = [octets EXCEPT ![n] = 0]
    /\ UNCHANGED limit

\* POST, PATCH and DELETE /v1/users, as far as the API can be reached.  Nobody
\* is patched who is not served; f is the file just written.  A DELETE that is
\* lost is made up for by the SIGHUP where one follows.
Told(r, n, f) ==
    /\ CASE ~scene.api -> UNCHANGED memory
         [] scene.api /\ r.op = "add" -> Added(n, r.quota)
         [] scene.api /\ r.op = "edit" ->
              /\ limit' = IF n \in live THEN [limit EXCEPT ![n] = r.quota] ELSE limit
              /\ UNCHANGED <<live, octets>>
         [] scene.api /\ r.op = "enable" ->
              IF f.users[n] = "on" THEN Added(n, 0) ELSE UNCHANGED memory
         [] scene.api /\ r.op \in {"disable", "list", "remove"} -> Deleted(n)
    /\ untold' = (untold \/ (~scene.api /\ r.op \in {"list", "remove"}))

Traffic(n) ==
    /\ n \in live /\ octets[n] < MaxQuota
    /\ octets' = [octets EXCEPT ![n] = @ + 1]
    /\ UNCHANGED <<scene, file, live, limit, pc, req, text, over, left, untold>>

-----------------------------------------------------------------------------
(* The operations *)

Goto(s, stage) == pc' = [pc EXCEPT ![s] = stage]

Done(s) ==
    /\ Goto(s, "idle")
    /\ req' = [req EXCEPT ![s] = None]
    /\ text' = [text EXCEPT ![s] = NoFile]
    /\ over' = [over EXCEPT ![s] = {}]
    /\ left' = [left EXCEPT ![s] = {}]

\* The user a command is about.
Subject(s) == IF req[s].op = "list" THEN CHOOSE n \in left[s] : TRUE ELSE req[s].name

Listing == [op |-> "list", name |-> None, quota |-> 0]

Begin(s, r) ==
    /\ pc[s] = "idle"
    /\ r.op \in scene.may[s]
    /\ r.name = None <=> r.op \in {"add", "domain", "list"}
    /\ r.quota \in IF r.op \in {"add", "edit"} THEN scene.quotas ELSE {0}
    /\ req' = [req EXCEPT ![s] = r]
    /\ Goto(s, CASE r.op = "list" -> "get" [] r.op = "remove" -> "delete" [] OTHER -> "read")
    /\ UNCHANGED <<scene, file, memory, text, over, left, untold>>

\* Mutant: a quota counts as spent once it is exceeded.
SpentBeyond(n) == limit[n] > 0 /\ octets[n] > limit[n]

Spent(n) == limit[n] > 0 /\ octets[n] >= limit[n]

\* get_clients: GET /v1/users, then the file, then a toggle_client for every
\* user who is or gets disabled, if anybody gets.
Get(s) ==
    /\ pc[s] = "get"
    /\ over' = [over EXCEPT ![s] = IF scene.api THEN {n \in live : Spent(n)} ELSE {}]
    /\ Goto(s, "survey")
    /\ UNCHANGED <<scene, file, memory, req, text, left, untold>>

Survey(s) ==
    /\ pc[s] = "survey"
    /\ LET spent == over[s] \cap On(file)
       IN  IF spent = {} THEN Done(s)
           ELSE /\ left' = [left EXCEPT ![s] = spent \cup {n \in Names : file.users[n] = "off"}]
                /\ over' = [over EXCEPT ![s] = {}]
                /\ Goto(s, "read")
                /\ UNCHANGED <<req, text>>
    /\ UNCHANGED <<scene, file, memory, untold>>

\* remove_client tells the process first.
Delete(s) ==
    /\ pc[s] = "delete"
    /\ Told(req[s], req[s].name, file)
    /\ Goto(s, "read")
    /\ UNCHANGED <<scene, file, req, text, over, left>>

\* _get_server_config; add_client looks for a name that is not taken.
Read(s) ==
    /\ pc[s] = "read"
    /\ \E n \in IF req[s].op = "add" THEN {m \in Names : file.users[m] = "out"} ELSE {Subject(s)} :
         /\ text' = [text EXCEPT ![s] = Edited(file, req[s], n)]
         /\ req' = IF req[s].op = "add" THEN [req EXCEPT ![s].name = n] ELSE req
    /\ Goto(s, "write")
    /\ UNCHANGED <<scene, file, memory, over, left, untold>>

\* upload_file_sudo
Write(s) ==
    /\ pc[s] = "write"
    /\ file' = text[s]
    /\ CASE req[s].op = "remove" -> Done(s)
         [] req[s].op = "domain" -> Goto(s, "reload") /\ UNCHANGED <<req, text, over, left>>
         [] OTHER -> Goto(s, "call") /\ UNCHANGED <<req, text, over, left>>
    /\ UNCHANGED <<scene, memory, untold>>

\* Mutant: disabling leaves the process to the API alone.
CallOnly(s) ==
    /\ pc[s] = "call"
    /\ Told(req[s], Subject(s), text[s])
    /\ CASE req[s].op \in {"add", "edit", "disable"} -> Done(s)
         [] req[s].op = "enable" ->
              Goto(s, "reload") /\ UNCHANGED <<req, text, over, left>>
         [] req[s].op = "list" ->
              /\ left' = [left EXCEPT ![s] = @ \ {Subject(s)}]
              /\ Goto(s, IF left'[s] = {} THEN "restart" ELSE "read")
              /\ UNCHANGED <<req, text, over>>
    /\ UNCHANGED <<scene, file>>

Call(s) ==
    /\ pc[s] = "call"
    /\ Told(req[s], Subject(s), text[s])
    /\ CASE req[s].op \in {"add", "edit"} -> Done(s)
         [] req[s].op \in {"enable", "disable"} ->
              Goto(s, "reload") /\ UNCHANGED <<req, text, over, left>>
         [] req[s].op = "list" ->
              /\ left' = [left EXCEPT ![s] = @ \ {Subject(s)}]
              /\ Goto(s, IF left'[s] = {} THEN "restart" ELSE "read")
              /\ UNCHANGED <<req, text, over>>
    /\ UNCHANGED <<scene, file>>

\* docker kill -s HUP, or docker restart after a listing that disabled somebody.
Refresh(s) ==
    /\ \/ pc[s] = "reload" /\ Reload
       \/ pc[s] = "restart" /\ RestartContainer
    /\ Done(s)
    /\ untold' = FALSE
    /\ UNCHANGED <<scene, file>>

\* The connection breaks: the manager raises and the session ends.
Break(s) ==
    /\ pc[s] # "idle" /\ s \in scene.breaks
    /\ Done(s)
    /\ untold' = (untold \/ pc[s] \in {"call", "reload"})
    /\ UNCHANGED <<scene, file, memory>>

Step(s) ==
    \/ Get(s) \/ Survey(s) \/ Delete(s) \/ Read(s) \/ Write(s) \/ Call(s)
    \/ Refresh(s)

Next ==
    \/ \E s \in Sessions : (\E r \in Request : Begin(s, r)) \/ Step(s) \/ Break(s)
    \/ \E n \in Names : Traffic(n)

Spec == Init /\ [][Next]_vars

\* The traffic loop lists again and again, where some user has a connection on
\* the server: it skips the others.  The protocols it lists before this one
\* answer.
FairSpec ==
    /\ Spec
    /\ \A s \in Listers : WF_vars(scene.counted /\ Begin(s, Listing)) /\ WF_vars(Step(s))

-----------------------------------------------------------------------------
(* Properties *)

\* One session writes: the others list, and no quota makes them write.
Exclusive ==
    \E e \in Sessions : \A s \in Sessions \ {e} :
        \/ scene.may[s] = {}
        \/ /\ scene.may[s] = {"list"}
           /\ \A q \in scene.quotas : q = 0
           /\ \A n \in Names : scene.file.quota[n] = 0

\* Who was taken out of the file is not served: once an operation that works
\* alone has returned, the process serves nobody the file does not enable, with
\* and without an API that answers (toggle_client, remove_client, get_clients).
\* Excused until the process reads the file again: a removal that an API out of
\* reach did not hear of, and an operation whose connection broke.
NobodyServedOffFile ==
    Exclusive /\ ~untold /\ (\A s \in Sessions : pc[s] = "idle") => live \subseteq On(file)

\* A user whose quota is spent is disabled at last, or starts anew when the
\* process does, whatever else is edited, as long as the API answers and the
\* traffic loop lists the proxy (get_clients).
QuotaBites ==
    \A n \in Names :
        LET due == n \in live /\ n \in On(file) /\ limit[n] > 0 /\ octets[n] >= limit[n]
            listed == \E s \in Listers \ scene.breaks : scene.may[s] = {"list"}
        IN  scene.api /\ scene.counted /\ listed /\ due ~> ~due
=============================================================================
