------------------------------ MODULE Traffic -------------------------------
(***************************************************************************)
(* periodic_background_tasks (traffic, limits, Remnawave), the operations  *)
(* on many users it starts, and what may run beside it: the endpoints that *)
(* start the same synchronisation, and an administrator who edits a user   *)
(* while SSH sessions are awaited.                                         *)
(*                                                                         *)
(* Tasks interleave at awaits only, so that a step is what a task does     *)
(* from one await to the next.  No section under DATA_LOCK awaits.         *)
(*                                                                         *)
(* The list of servers stands still (module Panel moves it); a connection  *)
(* names its server for good (At).  A user and a Remnawave account are     *)
(* matched by name; renaming is left out, so that a name says which        *)
(* account it is.                                                          *)
(***************************************************************************)
EXTENDS Integers, FiniteSets, FiniteSetsExt

CONSTANTS
    Servers,   \* positions in the list of servers
    Ids,       \* uuids of users
    Names,     \* usernames
    Conns,     \* uuids of connections; also names the peer behind one
    At,        \* [Conns -> Servers]
    Target,    \* settings.sync.remnawave_server_id
    Cycle,     \* the background task
    Tasks,     \* coroutines, Cycle among them
    NoConn,    \* the peer of a creation that has not happened yet
    Strategy,  \* [Ids -> traffic_reset_strategy]
    Expires,   \* [Ids -> the day after which the subscription has expired]
    Week, Month, Year, \* [Days -> Nat]: the calendar
    Limits,    \* traffic limits an administrator sets; 0 for none
    Scenes,    \* set of [doc, may]: a document the process may find at startup,
               \* and the activities of a behaviour that starts with it
    MaxBytes   \* bound of the model: bytes a user transfers

\* together: users are edited by several requests at once.
Activities == {"traffic", "restart", "blank", "edit", "together", "remnawave", "now",
               "days"}

Days == DOMAIN Week
LastDay == Max(Days)

User == [id : Ids, name : Names, linked : BOOLEAN, on : BOOLEAN,
         limit : Limits, used : Nat, total : Nat, since : Days]
Conn == [id : Conns, user : Ids, last : Nat]
Doc == [users : SUBSET User, conns : SUBSET Conn]
NoDoc == [users |-> {}, conns |-> {}]

Update == [conn : Conns, delta : Nat, curr : Nat]
Op == [kind : {"remove", "toggle", "create"}, user : Ids,
       conn : Conns \cup {NoConn}, on : BOOLEAN, made : BOOLEAN]
Goal == [drop : SUBSET Ids, set : SUBSET (Ids \X BOOLEAN),
         next : {"remnawave", "users", "end"}]
NoGoal == [drop |-> {}, set |-> {}, next |-> "end"]
NoOps == [s \in Servers |-> {}]

ASSUME TrafficAssumption ==
    /\ At \in [Conns -> Servers] /\ Target \in Servers
    /\ Cycle \in Tasks /\ NoConn \notin Conns \cup Ids
    /\ Limits \subseteq Nat /\ 0 \in Limits /\ MaxBytes \in Nat
    /\ LastDay \in Nat \ {0} /\ Days = 1..LastDay
    /\ \A x \in Scenes :
        /\ x \in [doc : Doc, may : SUBSET Activities] /\ IsFiniteSet(x.doc.conns)
        /\ \A u, v \in x.doc.users : u.name = v.name \/ u.id = v.id => u = v
        /\ \A c, e \in x.doc.conns : c.id = e.id => c = e

VARIABLES
    store,    \* the stored document
    peers,    \* clients the servers know
    up,       \* clients whose peer works
    meter,    \* [Conns -> the transfer counter of the peer]
    accounts, \* [SUBSET Names -> status is ACTIVE]: what Remnawave answers
    day,
    may,      \* what goes on in this behaviour
    pc,       \* [Tasks -> stage]
    data,     \* [Tasks -> the copy of the document it holds]
    visit,    \* [Tasks -> servers or connections still to be visited]
    got,      \* [Tasks -> updates gathered so far]
    page,     \* [Tasks -> the accounts it fetched]
    todo,     \* [Tasks -> [Servers -> operations left]]
    goal,     \* [Tasks -> what perform_mass_operations was called with]
    owner,    \* [Conns -> who transfers over it]; NoConn before it exists
    moved,    \* [Ids -> bytes really transferred, those charged at startup included]
    issued,   \* ids of users given out so far
    torn      \* connections nobody has brought in line with their user: the last
              \* switching failed, or the user was disabled when they were made

world == <<accounts, day, may>>
servers == <<peers, up, meter>>
local == <<pc, data, visit, got, page, todo, goal>>
ghosts == <<owner, moved, issued, torn>>
vars == <<store, servers, world, local, ghosts>>

Stages == {"idle", "scrape", "fetch", "users", "mass", "editing"}

TypeOK ==
    /\ store \in Doc
    /\ up \subseteq peers /\ peers \subseteq Conns
    /\ meter \in [Conns -> Nat]
    /\ DOMAIN accounts \subseteq Names
    /\ day \in Days /\ may \in SUBSET Activities
    /\ pc \in [Tasks -> Stages]
    /\ data \in [Tasks -> Doc]
    /\ visit \in [Tasks -> SUBSET (Servers \cup Conns)]
    /\ got \in [Tasks -> SUBSET Update]
    /\ \A t \in Tasks : DOMAIN page[t] \subseteq Names
    /\ todo \in [Tasks -> [Servers -> SUBSET Op]]
    /\ goal \in [Tasks -> Goal]
    /\ owner \in [Conns -> Ids \cup {NoConn}] /\ moved \in [Ids -> Nat]
    /\ issued \subseteq Ids /\ torn \subseteq Conns

UserIdsOf(d) == {u.id : u \in d.users}
ConnsOf(d, id) == {c \in d.conns : c.user = id}

\* Mutant: only users linked before are found, not those of the same name.
NamedLinked(d, name) == {u \in d.users : u.linked /\ u.name = name}

\* The user of an account: by remnawave_uuid, or else by username.
Named(d, name) == {u \in d.users : u.name = name}

-----------------------------------------------------------------------------
(* Counting *)

\* Mutant: the counter is compared with nothing.
DeltaUnguarded(last, curr) == curr - last

\* _scrape_server_traffic: a counter that went back started from zero.
Delta(last, curr) == IF curr >= last THEN curr - last ELSE curr

\* reset_needed.  Isoweek and calendar year, whichever strategy asks for them.
ResetNeeded(strategy, last, now) ==
    CASE strategy = "daily" -> now > last
      [] strategy = "weekly" -> Week[now] # Week[last] \/ Year[now] # Year[last]
      [] strategy = "monthly" -> Month[now] # Month[last] \/ Year[now] # Year[last]
      [] OTHER -> FALSE

UpdatesOf(d, ups, id) == {x \in ups : \E c \in d.conns : c.id = x.conn /\ c.user = id}

Sum(ups) == MapThenSumSet(LAMBDA x : x.delta, ups)

\* Mutant: the reading is charged, but not remembered.
ChargedForgetful(d, ups) ==
    [d EXCEPT !.users =
        {LET mine == UpdatesOf(d, ups, u.id)
             sum == Sum(mine)
         IN  [u EXCEPT !.used = @ + sum, !.total = @ + sum] : u \in @}]

\* The loop over updates: readings are remembered; what a user's connections
\* add up to is charged to both counters, after a reset that is due.
Charged(d, ups) ==
    [users |->
        {LET mine == UpdatesOf(d, ups, u.id)
             sum == Sum(mine)
             reset == mine # {} /\ ResetNeeded(Strategy[u.id], u.since, day)
         IN  [u EXCEPT !.used = IF reset THEN sum ELSE @ + sum,
                       !.total = @ + sum,
                       !.since = IF reset THEN day ELSE @] : u \in d.users},
     conns |->
        {IF \E x \in ups : x.conn = c.id
         THEN [c EXCEPT !.last = (CHOOSE x \in ups : x.conn = c.id).curr]
         ELSE c : c \in d.conns}]

Over(u) == u.limit > 0 /\ u.used >= u.limit

\* Mutant: the limit may be used up, and is enforced only beyond it.
ToDisableBeyond(d, ups) ==
    {u.id : u \in {v \in d.users :
        /\ UpdatesOf(d, ups, v.id) # {}
        /\ v.on
        /\ (v.limit > 0 /\ v.used > v.limit) \/ day > Expires[v.id]}}

\* to_disable_uids: only users that have an update are looked at.
ToDisable(d, ups) ==
    {u.id : u \in {v \in d.users :
        /\ UpdatesOf(d, ups, v.id) # {}
        /\ v.on
        /\ Over(v) \/ day > Expires[v.id]}}

-----------------------------------------------------------------------------
(* perform_mass_operations *)

Todo(kind, id, c, on) ==
    [kind |-> kind, user |-> id, conn |-> c, on |-> on, made |-> FALSE]

\* Mutant: one connection of each user is switched.
GroupedOne(d, drop, set, create) ==
    [s \in Servers |->
        {Todo("remove", c.user, c.id, FALSE) :
            c \in {x \in d.conns : At[x.id] = s /\ x.user \in drop}}
        \cup {Todo("toggle", w[1], (CHOOSE c \in ConnsOf(d, w[1]) : TRUE).id, w[2]) :
            w \in {v \in set : ConnsOf(d, v[1]) # {}
                       /\ At[(CHOOSE c \in ConnsOf(d, v[1]) : TRUE).id] = s}}
        \cup {Todo("create", id, NoConn, TRUE) : id \in {i \in create : s = Target}}]

\* server_ops, from a document loaded in the same step.
Grouped(d, drop, set, create) ==
    [s \in Servers |->
        {Todo("remove", c.user, c.id, FALSE) :
            c \in {x \in d.conns : At[x.id] = s /\ x.user \in drop}}
        \cup {Todo("toggle", w[2][1], w[1].id, w[2][2]) :
            w \in {v \in d.conns \X set : At[v[1].id] = s /\ v[1].user = v[2][1]}}
        \cup {Todo("create", id, NoConn, TRUE) : id \in {i \in create : s = Target}}]

StartMass(t, d, drop, set, create, next) ==
    /\ todo' = [todo EXCEPT ![t] = Grouped(d, drop, set, create)]
    /\ goal' = [goal EXCEPT ![t] = [drop |-> drop, set |-> set, next |-> next]]
    /\ pc' = [pc EXCEPT ![t] = "mass"]

\* What a task does next: the second half of the cycle loads the document and
\* sends its first request; the others are done.
Continue(t, next, d) ==
    /\ pc' = [pc EXCEPT ![t] = CASE next = "remnawave" /\ "remnawave" \in may -> "fetch"
                                 [] next = "users" -> "users"
                                 [] OTHER -> "idle"]
    /\ data' = [data EXCEPT ![t] = IF next = "remnawave" THEN d ELSE NoDoc]

Rank(op) == CASE op.kind = "remove" -> 1 [] op.kind = "toggle" -> 2 [] OTHER -> 3

\* The operation run_server_ops is at: deletions, then switches, then creations.
Current(t, s, op) ==
    /\ pc[t] = "mass"
    /\ op \in todo[t][s]
    /\ \A o \in todo[t][s] : ~o.made /\ Rank(op) <= Rank(o)

Did(t, s, op, c) ==
    todo' = [todo EXCEPT ![t][s] = (@ \ {op}) \cup {[op EXCEPT !.conn = c, !.made = TRUE]}]

\* manager.remove_client on a worker thread.
RemovePeer(t, s) == \E op \in todo[t][s] :
    /\ Current(t, s, op) /\ op.kind = "remove"
    /\ peers' = peers \ {op.conn} /\ up' = up \ {op.conn}
    /\ Did(t, s, op, op.conn)
    /\ UNCHANGED <<store, meter, world, pc, data, visit, got, page, goal, ghosts>>

\* manager.toggle_client: enabling raises for a client the server does not
\* know; either way the peer starts to count from zero.
SwitchPeer(c, on) ==
    /\ on => c \in peers
    /\ up' = IF on THEN up \cup {c} ELSE up \ {c}
    /\ meter' = [meter EXCEPT ![c] = 0]
    /\ torn' = torn \ {c}
    /\ UNCHANGED <<peers, owner, moved, issued>>

TogglePeer(t, s) == \E op \in todo[t][s] :
    /\ Current(t, s, op) /\ op.kind = "toggle"
    /\ SwitchPeer(op.conn, op.on)
    /\ Did(t, s, op, op.conn)
    /\ UNCHANGED <<store, world, pc, data, visit, got, page, goal>>

NewPeer(c, id, s) ==
    /\ owner[c] = NoConn /\ At[c] = s
    /\ peers' = peers \cup {c} /\ up' = up \cup {c}
    /\ owner' = [owner EXCEPT ![c] = id]
    /\ torn' = torn \cup {x \in {c} : \E u \in store.users : u.id = id /\ ~u.on}
    /\ UNCHANGED <<meter, moved, issued>>

\* manager.add_client.
CreatePeer(t, s) == \E op \in todo[t][s], c \in Conns :
    /\ Current(t, s, op) /\ op.kind = "create"
    /\ NewPeer(c, op.user, s)
    /\ Did(t, s, op, c)
    /\ UNCHANGED <<store, world, pc, data, visit, got, page, goal>>

\* Back on the loop the document is loaded, edited and saved.  After a switch
\* it is saved as it was.
Recorded(d, op) ==
    CASE op.kind = "remove" -> [d EXCEPT !.conns = {c \in @ : c.id # op.conn}]
      [] op.kind = "create" ->
            [d EXCEPT !.conns = @ \cup {[id |-> op.conn, user |-> op.user, last |-> 0]}]
      [] OTHER -> d

RecordOp(t, s) == \E op \in todo[t][s] :
    /\ pc[t] = "mass" /\ op.made
    /\ store' = Recorded(store, op)
    /\ todo' = [todo EXCEPT ![t][s] = @ \ {op}]
    /\ UNCHANGED <<servers, world, pc, data, visit, got, page, goal, ghosts>>

\* An exception ends the work on this server, and is logged.
BreakServer(t, s) ==
    /\ pc[t] = "mass" /\ todo[t][s] # {}
    /\ torn' = torn \cup {op.conn : op \in {o \in todo[t][s] : o.kind = "toggle" /\ ~o.made}}
    /\ todo' = [todo EXCEPT ![t][s] = {}]
    /\ UNCHANGED <<store, servers, world, pc, data, visit, got, page, goal, owner, moved, issued>>

\* The final user-level clean-up, whatever the servers said.
Cleaned(d, g) ==
    [users |-> {IF \E on \in BOOLEAN : <<u.id, on>> \in g.set
                THEN [u EXCEPT !.on = <<u.id, TRUE>> \in g.set] ELSE u :
                    u \in {v \in d.users : v.id \notin g.drop}},
     conns |-> {c \in d.conns : c.user \notin g.drop}]

FinishMass(t) ==
    /\ pc[t] = "mass" /\ todo[t] = NoOps
    /\ store' = Cleaned(store, goal[t])
    /\ Continue(t, goal[t].next, store')
    /\ goal' = [goal EXCEPT ![t] = NoGoal]
    /\ UNCHANGED <<servers, world, visit, got, page, todo, ghosts>>

-----------------------------------------------------------------------------
(* The first half of the cycle: traffic and limits *)

StartCycle ==
    /\ pc[Cycle] = "idle"
    /\ pc' = [pc EXCEPT ![Cycle] = "scrape"]
    /\ data' = [data EXCEPT ![Cycle] = store]
    /\ visit' = [visit EXCEPT ![Cycle] = {At[c.id] : c \in store.conns}]
    /\ UNCHANGED <<store, servers, world, got, page, todo, goal, ghosts>>

\* get_clients: the clients the server knows, those switched off included.
ClientsOn(s) == {c \in peers : At[c] = s}

\* _wg_show: nothing, when the command fails; then every counter reads zero.
Blank == [c \in Conns |-> 0]

\* In the model it fails until somebody is charged too much.
Readings ==
    {meter} \cup {b \in {Blank} : "blank" \in may /\
                                \A u \in store.users : u.total <= MaxBytes}

\* _scrape_server_traffic, when it has read these clients.
ReadFrom(s, clients) == \E bytes \in Readings :
    /\ pc[Cycle] = "scrape" /\ s \in visit[Cycle]
    /\ visit' = [visit EXCEPT ![Cycle] = @ \ {s}]
    /\ got' = [got EXCEPT ![Cycle] = @ \cup
                {[conn |-> c.id, delta |-> Delta(c.last, bytes[c.id]), curr |-> bytes[c.id]] :
                    c \in {x \in data[Cycle].conns : x.id \in clients}}]
    /\ UNCHANGED <<store, servers, world, pc, data, page, todo, goal, ghosts>>

Scrape(s) == ReadFrom(s, ClientsOn(s))

\* An exception: what the protocols before it gave remains.
ScrapeFails(s) == \E clients \in SUBSET ClientsOn(s) : ReadFrom(s, clients)

\* The updates are applied to a document loaded now, and whoever is over the
\* limit or expired is disabled.
ApplyUpdates ==
    LET d == IF got[Cycle] = {} THEN store ELSE Charged(store, got[Cycle])
        out == ToDisable(d, got[Cycle])
    IN  /\ pc[Cycle] = "scrape" /\ visit[Cycle] = {}
        /\ store' = d
        /\ got' = [got EXCEPT ![Cycle] = {}]
        /\ IF out # {}
           THEN /\ StartMass(Cycle, d, {}, out \X {FALSE}, {}, "remnawave")
                /\ data' = [data EXCEPT ![Cycle] = NoDoc]
           ELSE Continue(Cycle, "remnawave", d) /\ UNCHANGED <<todo, goal>>
        /\ UNCHANGED <<servers, world, visit, page, ghosts>>

-----------------------------------------------------------------------------
(* The second half, also behind two endpoints: Remnawave *)

\* api_sync_now.
SyncNow(t) ==
    /\ pc[t] = "idle" /\ t # Cycle
    /\ {"remnawave", "now"} \subseteq may
    /\ pc' = [pc EXCEPT ![t] = "fetch"]
    /\ data' = [data EXCEPT ![t] = store]
    /\ UNCHANGED <<store, servers, world, visit, got, page, todo, goal, ghosts>>

\* api_sync_delete.
SyncDelete(t) ==
    LET linked == {u.id : u \in {v \in store.users : v.linked}}
    IN  /\ pc[t] = "idle" /\ t # Cycle
        /\ "now" \in may
        /\ linked # {}
        /\ StartMass(t, store, linked, {}, {}, "end")
        /\ UNCHANGED <<store, servers, world, data, visit, got, page, ghosts>>

\* The pages are there.  Whoever the copy from before the requests links to an
\* account that is gone is deleted first.
FetchPages(t) ==
    LET gone == {u.id : u \in {v \in data[t].users : v.linked /\ v.name \notin DOMAIN accounts}}
    IN  /\ pc[t] = "fetch"
        /\ page' = [page EXCEPT ![t] = accounts]
        /\ data' = [data EXCEPT ![t] = NoDoc]
        /\ IF gone # {}
           THEN StartMass(t, store, gone, {}, {}, "users")
           ELSE pc' = [pc EXCEPT ![t] = "users"] /\ UNCHANGED <<todo, goal>>
        /\ UNCHANGED <<store, servers, world, visit, got, ghosts>>

FetchFails(t) ==
    /\ pc[t] = "fetch"
    /\ pc' = [pc EXCEPT ![t] = "idle"]
    /\ data' = [data EXCEPT ![t] = NoDoc]
    /\ UNCHANGED <<store, servers, world, visit, got, page, todo, goal, ghosts>>

\* The loop over the accounts.  It reloads for each of them and never gives the
\* loop away, so that one step does it all: users are linked, missing ones
\* made, and whoever is not as active as the account is listed for a switch.
SyncUsers(t) ==
    LET there == DOMAIN page[t]
        new == {a \in there : Named(store, a) = {}}
        known == {u \in store.users : u.name \in there}
        set == {<<u.id, page[t][u.name]>> : u \in {v \in known : v.on # page[t][v.name]}}
    IN  \E f \in [new -> Ids \ issued] :
        /\ pc[t] = "users"
        /\ \A a, b \in new : f[a] = f[b] => a = b
        /\ store' = [store EXCEPT !.users =
                (@ \ known) \cup {[u EXCEPT !.linked = TRUE] : u \in known}
                \cup {[id |-> f[a], name |-> a, linked |-> TRUE, on |-> page[t][a],
                       limit |-> 0, used |-> 0, total |-> 0, since |-> day] : a \in new}]
        /\ issued' = issued \cup {f[a] : a \in new}
        /\ page' = [page EXCEPT ![t] = <<>>]
        /\ IF set # {} \/ new # {}
           THEN StartMass(t, store', {}, set, {f[a] : a \in new}, "end")
           ELSE pc' = [pc EXCEPT ![t] = "idle"] /\ UNCHANGED <<todo, goal>>
        /\ UNCHANGED <<servers, world, data, visit, got, owner, moved, torn>>

-----------------------------------------------------------------------------
(* An administrator edits a user *)

\* perform_toggle_user edits the copy and visits the connections one by one.
StartToggle(t, d, id, on) ==
    /\ data' = [data EXCEPT ![t] =
                    [d EXCEPT !.users = {IF u.id = id THEN [u EXCEPT !.on = on] ELSE u : u \in @}]]
    /\ visit' = [visit EXCEPT ![t] = {c.id : c \in ConnsOf(d, id)}]
    /\ pc' = [pc EXCEPT ![t] = "editing"]

\* Nothing in the code keeps two edits apart; scenes without "together" do.
MayEdit == "edit" \in may /\ ("together" \in may \/ \A r \in Tasks : pc[r] # "editing")

ToggleUser(t) == \E id \in UserIdsOf(store), on \in BOOLEAN :
    /\ pc[t] = "idle" /\ t # Cycle /\ MayEdit
    /\ StartToggle(t, store, id, on)
    /\ UNCHANGED <<store, servers, world, got, page, todo, goal, ghosts>>

\* api_update_user: a limit that leaves room enables the user again.
UpdateUser(t) == \E u \in store.users, limit \in Limits :
    LET v == [u EXCEPT !.limit = limit]
        d == [store EXCEPT !.users = (@ \ {u}) \cup {v}]
    IN  /\ pc[t] = "idle" /\ t # Cycle /\ MayEdit
        /\ store' = d
        /\ IF limit > 0 /\ v.used < limit /\ ~v.on
           THEN StartToggle(t, d, u.id, TRUE)
           ELSE UNCHANGED <<pc, data, visit>>
        /\ UNCHANGED <<servers, world, got, page, todo, goal, ghosts>>

EditPeer(t) == \E c \in visit[t] : \E u \in data[t].users :
    /\ pc[t] = "editing"
    /\ u.id = owner[c]
    /\ visit' = [visit EXCEPT ![t] = @ \ {c}]
    /\ \/ SwitchPeer(c, u.on)
       \/ torn' = torn \cup {c} /\ UNCHANGED <<servers, owner, moved, issued>>
    /\ UNCHANGED <<store, world, pc, data, got, page, todo, goal>>

\* The copy, as it was loaded but for the edit, replaces the document.
SaveEdit(t) ==
    /\ pc[t] = "editing" /\ visit[t] = {}
    /\ store' = data[t]
    /\ data' = [data EXCEPT ![t] = NoDoc]
    /\ pc' = [pc EXCEPT ![t] = "idle"]
    /\ UNCHANGED <<servers, world, visit, got, page, todo, goal, ghosts>>

-----------------------------------------------------------------------------
(* The world around the panel *)

Flow(c) ==
    /\ "traffic" \in may /\ c \in up
    /\ moved[owner[c]] < MaxBytes
    /\ meter' = [meter EXCEPT ![c] = @ + 1]
    /\ moved' = [moved EXCEPT ![owner[c]] = @ + 1]
    /\ UNCHANGED <<store, peers, up, world, local, owner, issued, torn>>

\* A container restarts: its peers count from zero.
Restart(s) ==
    /\ "restart" \in may
    /\ meter' = [c \in Conns |-> IF At[c] = s THEN 0 ELSE meter[c]]
    /\ UNCHANGED <<store, peers, up, world, local, ghosts>>

NextDay ==
    /\ "days" \in may /\ day < LastDay
    /\ day' = day + 1
    /\ UNCHANGED <<store, servers, accounts, may, local, ghosts>>

\* An account is made, changes its status, or goes.
AccountChanges ==
    /\ "remnawave" \in may
    /\ \E names \in SUBSET Names : accounts' \in [names -> BOOLEAN]
    /\ UNCHANGED <<store, servers, day, may, local, ghosts>>

-----------------------------------------------------------------------------

Init ==
    /\ \E x \in Scenes : store = x.doc /\ may = x.may
    /\ peers = {c.id : c \in store.conns}
    /\ up = {c.id : c \in {x \in store.conns :
                \E u \in store.users : u.id = x.user /\ u.on}}
    /\ meter = [c \in Conns |-> 0]
    /\ \E names \in SUBSET Names : accounts \in [names -> BOOLEAN]
    /\ day \in {d \in Days : \A e \in Days : d <= e}
    /\ "remnawave" \notin may => DOMAIN accounts = {}
    /\ pc = [t \in Tasks |-> "idle"]
    /\ data = [t \in Tasks |-> NoDoc]
    /\ visit = [t \in Tasks |-> {}]
    /\ got = [t \in Tasks |-> {}]
    /\ page = [t \in Tasks |-> <<>>]
    /\ todo = [t \in Tasks |-> NoOps]
    /\ goal = [t \in Tasks |-> NoGoal]
    /\ owner = [c \in Conns |-> IF c \in peers
                                THEN (CHOOSE x \in store.conns : x.id = c).user
                                ELSE NoConn]
    /\ moved = [id \in Ids |-> IF id \in UserIdsOf(store)
                                THEN (CHOOSE u \in store.users : u.id = id).total ELSE 0]
    /\ issued = UserIdsOf(store) \cup {c.user : c \in store.conns}
    /\ torn = {}

MassStep(t) ==
    \/ FinishMass(t)
    \/ \E s \in Servers : RemovePeer(t, s) \/ TogglePeer(t, s) \/ CreatePeer(t, s)
                          \/ RecordOp(t, s) \/ BreakServer(t, s)

SyncStep(t) == FetchPages(t) \/ FetchFails(t) \/ SyncUsers(t) \/ MassStep(t)

CycleStep ==
    \/ StartCycle \/ ApplyUpdates \/ SyncStep(Cycle)
    \/ \E s \in Servers : Scrape(s) \/ ScrapeFails(s)

RequestStep(t) ==
    \/ SyncNow(t) \/ SyncDelete(t) \/ (t # Cycle /\ SyncStep(t))
    \/ ToggleUser(t) \/ UpdateUser(t) \/ EditPeer(t) \/ SaveEdit(t)

World ==
    \/ \E c \in Conns : Flow(c)
    \/ \E s \in Servers : Restart(s)
    \/ NextDay \/ AccountChanges

Next == CycleStep \/ (\E t \in Tasks : RequestStep(t)) \/ World

Spec == Init /\ [][Next]_vars

\* The loop wakes the background task again and again, and every server is
\* reached in some cycle or other.
FairSpec ==
    /\ Spec
    /\ WF_vars(CycleStep)
    /\ \A s \in Servers : SF_vars(Scrape(s))

-----------------------------------------------------------------------------
(* Properties *)

\* A user is never charged more than was transferred: readings and charges are
\* kept in one document, so that a stale copy takes back both
\* (_scrape_server_traffic, periodic_background_tasks).  It needs readings that
\* are there: a failed `wg show` reads zero, and the next reading is charged as a
\* whole.  And it needs edits one at a time: of two copies the older may be saved
\* before a cycle that loads it, the newer before that cycle applies its deltas.
NeverOvercharged ==
    may \cap {"blank", "together"} = {} => \A u \in store.users : u.total <= moved[u.id]

\* However often the account is looked up by tasks that run at once, and
\* whatever stale copies are saved, it gets one user (sync_users_with_remnawave).
OneUserPerAccount ==
    \A u, v \in store.users : u.name = v.name => u = v

Quiet == \A t \in Tasks : pc[t] = "idle"

\* As long as nobody but the cycle switches users, one that is disabled has no
\* working peer, but for servers that failed, and for the peer made for an
\* account that was not ACTIVE when it was first seen
\* (perform_mass_operations, sync_users_with_remnawave).
CutOffWhenAlone ==
    "edit" \notin may /\ "now" \notin may /\ Quiet =>
        \A u \in store.users, c \in store.conns :
            c.user = u.id /\ ~u.on /\ c.id \notin torn => c.id \notin up

\* A user who has used up the limit or whose subscription has ended, and whose
\* connection's server is reached now and then, is disabled sooner or later
\* (to_disable_uids), whatever is saved meanwhile.
Due(id) ==
    /\ \E c \in store.conns : c.user = id /\ c.id \in peers
    /\ \E u \in store.users : u.id = id /\ u.on /\ (Over(u) \/ day > Expires[id])

LimitsBite == \A id \in Ids : Due(id) ~> ~Due(id)
=============================================================================
