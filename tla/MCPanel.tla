------------------------------ MODULE MCPanel -------------------------------
(* Small instances of Panel: the documents a run may start from, and the     *)
(* handlers its sessions run.                                                *)
EXTENDS Panel, TLC

CONSTANTS s1, s2, s3, u0, c1

NewDoc == [NoDoc EXCEPT !.users = {[id |-> u0, via |-> NoCode]}]

\* Two servers, nobody connected yet; the sync target is either of them.
ServerDocs == {[NewDoc EXCEPT !.servers = <<s1, s2>>, !.sync = i] : i \in {1, 2}}

\* Two servers and one connection on the second; or every connection there,
\* those besides c1 of user v.
ConnectedDoc == [NewDoc EXCEPT !.servers = <<s1, s2>>,
                               !.conns = {[id |-> c1, user |-> u0, srv |-> 2]}]
SharedDoc(v) ==
    [ConnectedDoc EXCEPT
        !.users = @ \cup {[id |-> v, via |-> NoCode]},
        !.conns = @ \cup {[id |-> i, user |-> v, srv |-> 2] : i \in ConnIds \ {c1}}]

Run(ss, ops) == [s \in Sessions |-> IF s \in ss THEN ops ELSE {}]

Scene(d, ss, ops) == [doc |-> d, spent |-> {}, may |-> Run(ss, ops)]

\* The same with no more of these ids to hand out.
Spent(ids, scene) == [scene EXCEPT !.spent = ids]

\* Tasks and all threads over the accounts.  A task and a thread over the
\* connections, while the list of servers stands still: two clients of one
\* server removed and switched; connections created and deleted; users
\* created and deleted beside that.
ChangeScenes ==
    {Scene(NewDoc, Sessions, {"codes", "users", "register", "write_back", "backup"})}
    \cup UNION {
    {Spent(UserIds, Scene(SharedDoc(u0), Tasks \cup {w},
                          {"bot_delete", "admin_remove", "toggle"})),
     Spent(UserIds, Scene(ConnectedDoc, Tasks \cup {w},
                          {"bot_create", "admin_create", "admin_append",
                           "bot_delete", "admin_remove"})),
     Spent(UserIds, Scene(SharedDoc(u), Tasks \cup {w}, {"bot_delete", "users"})),
     Spent({u}, Scene(ConnectedDoc, Tasks \cup {w},
                      {"bot_create", "bot_delete", "users"}))} :
        w \in Threads, u \in UserIds \ {u0}}

\* Tasks that keep the loop from load to save: beside edits of the list of
\* servers, connections come and go, or tokens, or users; tokens beside new
\* connections; and tasks that await.
TaskScenes ==
    {Spent({s3}, Scene(ConnectedDoc, Tasks, KeepLoop \ {"tokens", "users"})),
     Spent(ConnIds, Scene(ConnectedDoc, Tasks, KeepLoop \ {"users", "admin_append"})),
     Spent({s3}, Scene(ConnectedDoc, Tasks, {"servers", "users"})),
     Scene(ConnectedDoc, Tasks, {"tokens", "admin_append"}),
     Scene(ConnectedDoc, Tasks, {"admin_create", "admin_remove", "users"})}

BackupScenes == {Scene(NewDoc, Tasks, {"tokens", "backup"})}

OrphanScenes ==
    {Scene(d, Sessions, {"servers", "admin_create", "bot_delete"}) : d \in ServerDocs}

\* Ids that no initial document mentions are interchangeable, and so are the
\* sessions of one kind.  Used only where no liveness is checked.
Interchangeable ==
    Permutations(Tasks) \cup Permutations(Threads)
        \cup Permutations(UserIds \ {u0}) \cup Permutations(ConnIds \ {c1})

OneUse == [c \in Codes |-> 1]
=============================================================================
