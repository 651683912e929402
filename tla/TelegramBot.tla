---------------------------- MODULE TelegramBot -----------------------------
(***************************************************************************)
(* telegram_bot.py: a task polls Telegram for updates and handles them one *)
(* by one; the services that change the panel run on worker threads.       *)
(*                                                                         *)
(* Telegram keeps the stream of updates and forgets one when it is asked   *)
(* for a later one.  The offset lives in the task.  The settings pages     *)
(* start and stop the task, and the process may be restarted: a new task   *)
(* begins with offset 0, while a thread that the old one waited for goes   *)
(* on.  Conversations (_pending) live in the process.                      *)
(*                                                                         *)
(* Everybody loads the whole document and saves the whole document, the    *)
(* stamp of a user's last visit included, so a save may undo another one.  *)
(* Between two awaits a task holds the event loop; threads never do.       *)
(*                                                                         *)
(* Texts, menus, servers, names and codes are left out; what a service     *)
(* does on the VPN server is module Panel's, here it only takes time and   *)
(* may fail.  Updates whose handler only shows something are one kind.     *)
(***************************************************************************)
EXTENDS Integers, Sequences, FiniteSets

CONSTANTS
    Chats,      \* Telegram ids
    Ids,        \* uuids of users
    Conns,      \* uuids of connections
    None,
    Scenes,     \* what each behaviour may contain: see Scene
    MaxRuns     \* bound of the model: runs of _run_bot

Kinds == {"start", "link", "register", "text", "proto", "auto", "delok",
          "newcode", "look", "cfg", "status"}
Buttons == {"proto", "auto", "delok", "cfg", "status"}
AllFaults == {"login", "raise", "lost", "restart", "server", "code"}

Pollers == 1..MaxRuns

Msg == [chat : Chats, kind : Kinds, conn : Conns \cup {None}]

UserRec == [id : Ids, chat : Chats]
ConnRec == [id : Conns, user : Ids]
Doc == [users : SUBSET UserRec, conns : SUBSET ConnRec, on : BOOLEAN]
Blank == [users |-> {}, conns |-> {}, on |-> FALSE]

\* press: what chats send; faults: what may go wrong; bounds of the model: sends,
\* how many updates there are, and switches, how often the bot is switched.
Scene == [doc : Doc, chats : SUBSET Chats, press : SUBSET Kinds, sends : Nat,
          faults : SUBSET AllFaults, switches : Nat]

OneAccount(d) == \A u, v \in d.users : u.chat = v.chat => u = v

\* A service on a worker thread: who waits for it, and what it was given.
Works == {"register", "create", "delete", "touch", "config", "probe"}
Steps == {"called", "remote", "loaded", "done", "already", "refused"}
Job == [by : Pollers, do : Works, chat : Chats, user : Ids \cup {None},
        conn : Conns \cup {None}, step : Steps, copy : Doc]

\* A call of stop_bot; the toggle saves its old copy once it is over.
Stop == [of : Pollers \cup {None}, saves : BOOLEAN, copy : Doc]

ASSUME BotAssumption ==
    /\ None \notin Chats \cup Ids \cup Conns \cup Pollers
    /\ Scenes \subseteq Scene /\ \A x \in Scenes : OneAccount(x.doc)
    /\ MaxRuns \in Nat \ {0}

VARIABLES
    scene,
    sent,      \* the updates, in the order of their ids
    confirmed, \* Telegram forgot the updates up to here
    store,     \* the panel document
    pending,   \* [Chats -> what the bot waits for]
    task,      \* _bot_task: the poller it names, or None
    stops,     \* calls of stop_bot in progress
    pc,        \* [Pollers -> stage]
    offset,    \* [Pollers -> the offset of the next getUpdates]
    rest,      \* [Pollers -> updates of the batch still to be handled]
    now,       \* [Pollers -> the update it handles, or 0]
    todo,      \* [Pollers -> the service to call once a visit is stamped, if any]
    copy,      \* [Pollers -> the copy of a stamp in progress]
    jobs,      \* services on threads, those of stopped pollers included
    handled,   \* <<poller, update>>: the handler has ended by itself
    used,      \* uuids given out
    switched   \* how often the bot was switched on or off

telegram == <<sent, confirmed>>
doc == <<store, used>>
control == <<task, stops, switched>>
polling == <<pc, offset, rest, now, todo, copy, handled>>
vars == <<scene, telegram, doc, pending, control, polling, jobs>>

Stages == {"off", "login", "poll", "next", "answer", "stamp", "call",
           "wait", "reply", "closing", "done"}
Waits == {"none", "code", "name"}

TypeOK ==
    /\ scene \in Scenes
    /\ sent \in Seq(Msg) /\ Len(sent) <= scene.sends
    /\ confirmed \in 0..Len(sent)
    /\ store \in Doc
    /\ pending \in [Chats -> Waits]
    /\ task \in Pollers \cup {None}
    /\ stops \subseteq Stop
    /\ switched \in 0..scene.switches
    /\ pc \in [Pollers -> Stages]
    /\ offset \in [Pollers -> 0..(Len(sent) + 1)]
    /\ rest \in [Pollers -> SUBSET (1..Len(sent))]
    /\ now \in [Pollers -> 0..Len(sent)]
    /\ todo \in [Pollers -> SUBSET Job]
    /\ copy \in [Pollers -> Doc]
    /\ jobs \subseteq Job
    /\ handled \subseteq Pollers \X (1..Len(sent))
    /\ used \subseteq Ids \cup Conns

-----------------------------------------------------------------------------
(* The event loop *)

\* A poller between two awaits: no other coroutine runs.
Held == \E p \in Pollers : pc[p] \in {"next", "stamp"}

\* tg_bot.is_running
Running == task # None /\ pc[task] # "done"

Fresh == {p \in Pollers : pc[p] = "off"}
FirstFresh == CHOOSE p \in Fresh : \A q \in Fresh : p <= q

MsgOf(p) == sent[now[p]]

UsersOf(d, chat) == {u \in d.users : u.chat = chat}
Known(chat) == UsersOf(store, chat) # {}

-----------------------------------------------------------------------------
(* Telegram *)

\* Users press buttons they were shown: their own connections.
Send(m) ==
    /\ Len(sent) < scene.sends
    /\ m.chat \in scene.chats /\ m.kind \in scene.press
    /\ IF m.kind \in {"delok", "cfg"}
       THEN \E c \in store.conns, u \in UsersOf(store, m.chat) :
                c.id = m.conn /\ c.user = u.id
       ELSE m.conn = None
    /\ sent' = Append(sent, m)
    /\ UNCHANGED <<scene, confirmed, doc, pending, control, polling, jobs>>

Confirmed(p) == IF offset[p] > confirmed + 1 THEN offset[p] - 1 ELSE confirmed

\* The answer to getUpdates; an offset forgets what lies before it.
Poll(p) ==
    /\ pc[p] = "poll" /\ ~Held
    /\ confirmed' = Confirmed(p)
    /\ rest' = [rest EXCEPT ![p] = {n \in 1..Len(sent) : n > confirmed'}]
    /\ pc' = [pc EXCEPT ![p] = IF rest'[p] = {} THEN "poll" ELSE "next"]
    /\ UNCHANGED <<scene, sent, doc, pending, control, offset, now, todo, copy,
                   handled, jobs>>

\* The request arrived; the answer is lost or refused.  The loop asks again.
PollLost(p) ==
    /\ "lost" \in scene.faults
    /\ pc[p] = "poll" /\ ~Held
    /\ confirmed' = Confirmed(p)
    /\ UNCHANGED <<scene, sent, doc, pending, control, polling, jobs>>

-----------------------------------------------------------------------------
(* Handlers *)

\* Mutants of AfterUpdate: the offset stays at the update it has begun; it is
\* counted twice; it skips whatever else Telegram has.
AfterSame(p, n) == n
AfterTwice(p, n) == n + 2
AfterBatch(p, n) == Len(sent) + 1

\* offset = update["update_id"] + 1, before the update is handled
AfterUpdate(p, n) == n + 1

\* What the update is about, once it is handled at all: a service to call.
Asks(m, waits, known) ==
    CASE m.kind = "register" -> "register"
      [] m.kind = "link" -> IF known THEN "nothing" ELSE "register"
      [] m.kind = "text" /\ waits = "code" -> "register"
      [] m.kind = "text" /\ waits = "name" -> IF known THEN "create" ELSE "nothing"
      [] m.kind = "auto" -> IF known THEN "create" ELSE "nothing"
      [] m.kind = "delok" -> IF known THEN "delete" ELSE "nothing"
      [] m.kind = "newcode" -> IF known THEN "touch" ELSE "nothing"
      [] m.kind = "cfg" -> IF known THEN "config" ELSE "nothing"
      [] m.kind = "status" -> IF known THEN "probe" ELSE "nothing"
      [] OTHER -> "nothing"

\* Handlers that look the user up; a look-up stamps the visit of a known one.
LooksUp(m, waits) ==
    /\ m.kind \notin {"register", "proto"}
    /\ ~(m.kind = "text" /\ waits = "code")

\* _show_welcome_for_new: the next text of a stranger is taken for a code.
Welcomes(m, waits) ==
    \/ m.kind \in {"start", "look", "status"}
    \/ m.kind = "text" /\ waits = "none"

WaitsFor(m, waits, known) ==
    CASE m.kind = "proto" -> "name"
      [] ~known /\ Welcomes(m, waits) -> "code"
      [] m.kind \in {"start", "link", "auto"} -> "none"
      [] m.kind = "text" /\ waits = "name" -> "none"
      [] OTHER -> waits

Account(chat) == CHOOSE u \in UsersOf(store, chat) : TRUE

\* Mutant of UserFor: the record in place of its id.
WholeUserFor(chat) == Account(chat)

\* panel_user["id"]
UserFor(chat) == Account(chat).id

\* The service, for the account the look-up found.
Jobs(p, m, do) ==
    IF do = "nothing" THEN {}
    ELSE {[by |-> p, do |-> do, chat |-> m.chat,
           user |-> IF do = "register" THEN None ELSE UserFor(m.chat),
           conn |-> m.conn, step |-> "called", copy |-> Blank]}

\* The thread starts here; that of a new device, or of one's configuration, after
\* a message announced it.
Announced == {"create", "config"}

Calls(p, js) ==
    IF js = {} \/ \E j \in js : j.do \in Announced
    THEN /\ pc' = [pc EXCEPT ![p] = IF js = {} THEN "reply" ELSE "call"]
         /\ todo' = [todo EXCEPT ![p] = js]
         /\ UNCHANGED jobs
    ELSE /\ pc' = [pc EXCEPT ![p] = "wait"]
         /\ todo' = [todo EXCEPT ![p] = {}]
         /\ jobs' = jobs \cup js

\* _find_user found somebody: record_bot_activity loads the document.
StampFirst(p, js) ==
    /\ copy' = [copy EXCEPT ![p] = store]
    /\ pc' = [pc EXCEPT ![p] = "stamp"]
    /\ todo' = [todo EXCEPT ![p] = js]

\* _dispatch up to its first await (buttons: after the one that answers them).
Handle(p, m) ==
    LET waits == pending[m.chat]
        known == Known(m.chat)
        js    == Jobs(p, m, Asks(m, waits, known))
    IN  /\ pending' = [pending EXCEPT ![m.chat] = WaitsFor(m, waits, known)]
        /\ IF LooksUp(m, waits) /\ known
           THEN StampFirst(p, js) /\ UNCHANGED jobs
           ELSE Calls(p, js) /\ UNCHANGED copy

Begin(p) ==
    /\ pc[p] = "next"
    /\ \E n \in rest[p] :
        /\ \A k \in rest[p] : n <= k
        /\ now' = [now EXCEPT ![p] = n]
        /\ offset' = [offset EXCEPT ![p] = AfterUpdate(p, n)]
        /\ rest' = [rest EXCEPT ![p] = @ \ {n}]
        /\ IF sent[n].kind \in Buttons
           THEN /\ pc' = [pc EXCEPT ![p] = "answer"]
                /\ UNCHANGED <<pending, todo, copy, jobs>>
           ELSE Handle(p, sent[n])
    /\ UNCHANGED <<scene, telegram, doc, control, handled>>

\* answer_callback returned.
Answer(p) ==
    /\ pc[p] = "answer" /\ ~Held
    /\ Handle(p, MsgOf(p))
    /\ UNCHANGED <<scene, telegram, doc, control, offset, rest, now, handled>>

\* record_bot_activity saves the copy it loaded; threads may have saved since.
Stamp(p) ==
    /\ pc[p] = "stamp"
    /\ store' = copy[p]
    /\ copy' = [copy EXCEPT ![p] = Blank]
    /\ Calls(p, todo[p])
    /\ UNCHANGED <<scene, telegram, used, pending, control, offset, rest, now,
                   handled>>

\* The message that announces the service is sent: to_thread.
Call(p) ==
    /\ pc[p] = "call" /\ ~Held
    /\ pc' = [pc EXCEPT ![p] = "wait"]
    /\ jobs' = jobs \cup todo[p]
    /\ todo' = [todo EXCEPT ![p] = {}]
    /\ UNCHANGED <<scene, telegram, doc, pending, control, offset, rest, now,
                   copy, handled>>

\* The service returned.  A registration is followed by a stamp on a thread, a
\* removal by the list of connections, which looks the user up again.
Resume(p) ==
    /\ pc[p] = "wait" /\ ~Held
    /\ \E j \in jobs :
        /\ j.by = p /\ j.step \in {"done", "already", "refused"}
        /\ LET welcome == j.do = "delete" /\ ~Known(j.chat)
               over    == j.do = "register" /\ j.step # "refused"
           IN  pending' = [pending EXCEPT ![j.chat] =
                    IF welcome THEN "code" ELSE IF over THEN "none" ELSE @]
        /\ IF j.do = "register" /\ j.step = "done"
           THEN /\ jobs' = (jobs \ {j})
                             \cup {[j EXCEPT !.do = "touch", !.step = "called"]}
                /\ UNCHANGED <<pc, copy, todo>>
           ELSE /\ jobs' = jobs \ {j}
                /\ IF j.do = "delete" /\ Known(j.chat)
                   THEN StampFirst(p, {})
                   ELSE /\ pc' = [pc EXCEPT ![p] = "reply"]
                        /\ UNCHANGED <<copy, todo>>
    /\ UNCHANGED <<scene, telegram, doc, control, offset, rest, now, handled>>

\* _dispatch is over; the next update of the batch, or the next batch.
Over(p) ==
    /\ pc' = [pc EXCEPT ![p] = IF rest[p] = {} THEN "poll" ELSE "next"]
    /\ now' = [now EXCEPT ![p] = 0]
    /\ todo' = [todo EXCEPT ![p] = {}]
    /\ handled' = handled \cup {<<p, now[p]>>}
    /\ UNCHANGED <<scene, telegram, doc, pending, control, offset, rest, copy,
                   jobs>>

\* What is left of a handler only sends messages.
Reply(p) == pc[p] = "reply" /\ ~Held /\ Over(p)

\* A call of Telegram raises: the loop logs it and goes on.
Raise(p) ==
    /\ "raise" \in scene.faults
    /\ pc[p] \in {"answer", "call"} /\ ~Held
    /\ Over(p)

-----------------------------------------------------------------------------
(* Services, on threads *)

Turns(j, k) == jobs' = (jobs \ {j}) \cup {k}

\* A thread nobody waits for any more ends unseen.
Ends(j, step) ==
    jobs' = (jobs \ {j}) \cup
        IF pc[j.by] = "wait" THEN {[j EXCEPT !.step = step, !.copy = Blank]} ELSE {}

Loads(j, d) == Turns(j, [j EXCEPT !.step = "loaded", !.copy = d])

\* Mutant of Saved: the document is loaded again, and gets what is new.
SavedAnew(j) == [store EXCEPT !.users = @ \cup j.copy.users]

\* save_data: the copy, and nothing else.
Saved(j) == j.copy

Saves(j) ==
    /\ j.step = "loaded"
    /\ store' = Saved(j)
    /\ Ends(j, "done")
    /\ UNCHANGED used

\* register_user_with_code: the check and the new user are of one copy.
Register(j) ==
    \/ /\ j.step = "called"
       /\ IF Known(j.chat) THEN Ends(j, "already") /\ UNCHANGED doc
          ELSE \/ /\ "code" \in scene.faults \/ Ids \subseteq used
                  /\ Ends(j, "refused") /\ UNCHANGED doc
               \/ \E i \in Ids \ used :
                    /\ Loads(j, [store EXCEPT
                            !.users = @ \cup {[id |-> i, chat |-> j.chat]}])
                    /\ used' = used \cup {i}
                    /\ UNCHANGED store
    \/ Saves(j)

HasUser(d, i) == \E u \in d.users : u.id = i

\* create_user_connection: the peer is added, then a new copy takes the record.
Create(j) ==
    \/ /\ j.step = "called"
       /\ \/ \E c \in Conns \ used :
               /\ HasUser(store, j.user)
               /\ Turns(j, [j EXCEPT !.step = "remote", !.conn = c])
               /\ used' = used \cup {c}
          \/ /\ \/ ~HasUser(store, j.user)
                \/ "server" \in scene.faults \/ Conns \subseteq used
             /\ Ends(j, "refused") /\ UNCHANGED used
       /\ UNCHANGED store
    \/ /\ j.step = "remote"
       /\ Loads(j, [store EXCEPT !.conns = @ \cup {[id |-> j.conn, user |-> j.user]}])
       /\ UNCHANGED doc
    \/ Saves(j)

\* delete_user_connection: one's own only; the record outlives a failed removal.
Delete(j) ==
    \/ /\ j.step = "called"
       /\ IF [id |-> j.conn, user |-> j.user] \in store.conns
          THEN \/ Turns(j, [j EXCEPT !.step = "remote"])
               \/ "server" \in scene.faults /\ Ends(j, "refused")
          ELSE Ends(j, "refused")
       /\ UNCHANGED doc
    \/ /\ j.step = "remote"
       /\ Loads(j, [store EXCEPT !.conns = {c \in @ : c.id # j.conn}])
       /\ UNCHANGED doc
    \/ Saves(j)

\* record_bot_activity and create_invite_codes_for_bot: the users and the
\* connections are saved as they were loaded.
Touch(j) ==
    \/ j.step = "called" /\ Loads(j, store) /\ UNCHANGED doc
    \/ Saves(j)

\* get_client_config_for_connection, for a connection of one's own that is there;
\* get_servers_status: nothing changes.
Read(j) ==
    /\ j.step = "called"
    /\ \/ Ends(j, "done")
       \/ j.do = "config" /\ "server" \in scene.faults /\ Ends(j, "refused")
    /\ UNCHANGED doc

Work(j) ==
    /\ \/ j.do = "register" /\ Register(j)
       \/ j.do = "create" /\ Create(j)
       \/ j.do = "delete" /\ Delete(j)
       \/ j.do = "touch" /\ Touch(j)
       \/ j.do \in {"config", "probe"} /\ Read(j)
    /\ UNCHANGED <<scene, telegram, pending, control, polling>>

-----------------------------------------------------------------------------
(* Starting and stopping *)

Launches ==
    /\ Fresh # {}
    /\ pc' = [pc EXCEPT ![FirstFresh] = "login"]
    /\ task' = FirstFresh

\* Only the stage of p changes.
Moves(p, from, to) ==
    /\ pc[p] = from /\ ~Held
    /\ pc' = [pc EXCEPT ![p] = to]
    /\ UNCHANGED <<scene, telegram, doc, pending, control, offset, rest, now,
                   todo, copy, handled, jobs>>

\* getMe and the command menus.
Login(p) == Moves(p, "login", "poll")

\* getMe is refused, or raises: the run is over, and nobody starts another.
LoginFails(p) == "login" \in scene.faults /\ Moves(p, "login", "closing")

\* CancelledError at the await where p is; the thread it waits for goes on.
Cancelled(p) ==
    /\ pc' = [pc EXCEPT ![p] = "closing"]
    /\ rest' = [rest EXCEPT ![p] = {}]
    /\ now' = [now EXCEPT ![p] = 0]
    /\ todo' = [todo EXCEPT ![p] = {}]
    /\ jobs' = {j \in jobs : j.by = p => j.step \in {"called", "remote", "loaded"}}
    /\ UNCHANGED <<offset, copy, handled>>

\* The client is closed.
Closed(p) == Moves(p, "closing", "done")

Switched == switched < scene.switches /\ switched' = switched + 1

\* save_settings
SaveSettings(on) ==
    /\ Switched /\ ~Held
    /\ store' = [store EXCEPT !.on = on]
    /\ IF on /\ ~Running THEN Launches ELSE UNCHANGED <<pc, task>>
    /\ stops' = IF ~on /\ Running
                THEN stops \cup {[of |-> None, saves |-> FALSE, copy |-> Blank]}
                ELSE stops
    /\ UNCHANGED <<scene, telegram, used, pending, offset, rest, now, todo,
                   copy, handled, jobs>>

\* api_telegram_toggle
ToggleOn ==
    /\ Switched /\ ~Held
    /\ ~Running /\ Launches
    /\ store' = [store EXCEPT !.on = TRUE]
    /\ UNCHANGED <<scene, telegram, used, pending, stops, offset, rest,
                   now, todo, copy, handled, jobs>>

ToggleOff ==
    /\ Switched /\ ~Held
    /\ Running /\ Cancelled(task)
    /\ stops' = stops \cup {[of |-> task, saves |-> TRUE, copy |-> store]}
    /\ UNCHANGED <<scene, telegram, doc, pending, task>>

\* stop_bot that a task was created for.
StopBegins(s) ==
    /\ s.of = None /\ ~Held
    /\ IF Running
       THEN /\ Cancelled(task)
            /\ stops' = (stops \ {s}) \cup {[s EXCEPT !.of = task]}
       ELSE /\ stops' = stops \ {s}
            /\ UNCHANGED <<polling, jobs>>
    /\ UNCHANGED <<scene, telegram, doc, pending, task, switched>>

\* The task it awaited is over; the toggle saves the copy it began with.
StopEnds(s) ==
    /\ s.of # None /\ ~Held
    /\ pc[s.of] = "done"
    /\ task' = None
    /\ stops' = stops \ {s}
    /\ store' = IF s.saves THEN [s.copy EXCEPT !.on = FALSE] ELSE store
    /\ UNCHANGED <<scene, telegram, used, pending, switched, polling, jobs>>

\* The process ends, threads and conversations with it, and starts again.
Restart ==
    /\ "restart" \in scene.faults
    /\ store.on => Fresh # {}
    /\ pc' = [p \in Pollers |->
                IF pc[p] = "off"
                THEN IF store.on /\ p = FirstFresh THEN "login" ELSE "off"
                ELSE "done"]
    /\ task' = IF store.on THEN FirstFresh ELSE None
    /\ pending' = [c \in Chats |-> "none"]
    /\ jobs' = {} /\ stops' = {}
    /\ rest' = [p \in Pollers |-> {}] /\ now' = [p \in Pollers |-> 0]
    /\ todo' = [p \in Pollers |-> {}] /\ copy' = [p \in Pollers |-> Blank]
    /\ UNCHANGED <<scene, telegram, doc, switched, offset, handled>>

-----------------------------------------------------------------------------

\* The start-up with the bot enabled.
Init ==
    /\ scene \in Scenes
    /\ sent = << >> /\ confirmed = 0
    /\ store = scene.doc
    /\ used = {u.id : u \in store.users} \cup {c.id : c \in store.conns}
    /\ pending = [c \in Chats |-> "none"]
    /\ pc = [p \in Pollers |-> IF p = 1 /\ store.on THEN "login" ELSE "off"]
    /\ task = IF store.on THEN 1 ELSE None
    /\ stops = {} /\ switched = 0 /\ jobs = {} /\ handled = {}
    /\ offset = [p \in Pollers |-> 0] /\ now = [p \in Pollers |-> 0]
    /\ rest = [p \in Pollers |-> {}] /\ todo = [p \in Pollers |-> {}]
    /\ copy = [p \in Pollers |-> Blank]

BotStep(p) ==
    \/ Login(p) \/ LoginFails(p) \/ Closed(p)
    \/ Begin(p) \/ Answer(p) \/ Stamp(p) \/ Call(p) \/ Resume(p)
    \/ Reply(p) \/ Raise(p)

Next ==
    \/ \E m \in Msg : Send(m)
    \/ \E p \in Pollers : BotStep(p) \/ Poll(p) \/ PollLost(p)
    \/ \E j \in jobs : Work(j)
    \/ \E on \in BOOLEAN : SaveSettings(on)
    \/ ToggleOn \/ ToggleOff
    \/ \E s \in stops : StopBegins(s) \/ StopEnds(s)
    \/ Restart

Spec == Init /\ [][Next]_vars

\* The event loop and the threads run on; Telegram answers now and then.
Fairness ==
    /\ \A p \in Pollers : WF_vars(BotStep(p)) /\ WF_vars(Poll(p))
    /\ WF_vars(\E j \in jobs : Work(j))
    /\ WF_vars(\E s \in stops : StopBegins(s) \/ StopEnds(s))

FairSpec == Spec /\ Fairness

-----------------------------------------------------------------------------
(* Properties *)

\* Telegram forgets no update whose handler has not ended by itself in some run
\* of the bot, whatever is stopped, restarted or lost in between: getUpdates
\* never carries an offset beyond an update that is still being handled.
ConfirmedWasHandled ==
    \A n \in 1..confirmed : \E p \in Pollers : <<p, n>> \in handled

\* One run of the bot begins no update twice; what is handled again after a stop
\* or a restart is handled by another run.
EachRunOnce ==
    [][\A p \in Pollers :
          (now'[p] # now[p] /\ now'[p] # 0) => <<p, now'[p]>> \notin handled]_vars

\* A chat never has two accounts, although an orphaned thread and the thread of
\* a redelivered update may register it at the same time, and although every
\* save writes a whole and perhaps old document.
OneAccountPerChat == OneAccount(store)

MaxSends == CHOOSE n \in {x.sends : x \in Scenes} :
                \A x \in Scenes : x.sends <= n

\* An update that was sent is handled at last, or no bot is running.
Answered ==
    \A n \in 1..MaxSends :
        (n <= Len(sent)) ~> (~Running \/ \E p \in Pollers : <<p, n>> \in handled)
=============================================================================
