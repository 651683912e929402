----------------------------- MODULE XrayProofs -----------------------------
(***************************************************************************)
(* Theorems of Xray, for any ids, sessions, installations and workloads:   *)
(* its types, RunningIsCurrent, which is inductive as it stands, and       *)
(* EditsKeepOthers, which rests on how far the two copies of server.json   *)
(* and the text of a session differ while one session edits.               *)
(***************************************************************************)
EXTENDS Xray, TLAPS

\* What a session holds at each of its commands.
FormInv ==
    \A s \in Sessions :
        /\ pc[s] # "idle" => req[s] \in Request /\ (req[s].op \in Edits => req[s].id \in Ids)
        /\ pc[s] \in {"save", "sync"} => text[s] \in Conf
        /\ pc[s] \in {"stop", "start", "table"} /\ req[s].op = "list" => text[s] \in Conf

\* The host's copy: none, the container's own file, or one that lacks or still
\* has the clients of edits that were cut short or are about to be copied.
HostNear ==
    /\ scene.mount = "none" => host.conf = None
    /\ scene.mount = "bind" => host.conf = inside.conf
    /\ scene.mount = "copy" =>
         /\ host.conf \in Conf /\ ~IsOld(host.conf)
         /\ \A id \in Ids :
              \/ id \in behind
              \/ \E s \in Sessions : pc[s] = "sync" /\ id = req[s].id
              \/ id \in IdsOf(host.conf.clients) <=> id \in Served

\* While one session edits: the host's copy is near the container's, both are up
\* to date, who is about to save holds a text with his own edit only, and who is
\* about to copy it holds what the container has.
KeptInv ==
    Exclusive =>
        /\ HostNear
        /\ ~IsOld(inside.conf)
        /\ \A s \in Sessions :
             /\ pc[s] # "idle" => req[s].op \in scene.may[s]
             /\ pc[s] \in {"save", "sync"} => req[s].op # "list"
             /\ pc[s] = "save" =>
                  OwnOnly(IdsOf(text[s].clients), req[s]) /\ ~IsOld(text[s])
             /\ pc[s] = "sync" => text[s] = inside.conf

TInv == TypeOK /\ FormInv

-----------------------------------------------------------------------------
(* The operators *)

LEMMA EditedType ==
    ASSUME NEW c \in Conf, NEW r \in Request, r.op \in Edits => r.id \in Ids
    PROVE  Edited(c, r) \in Conf
<1>1. \A i \in Ids : [id |-> i, mail |-> TRUE] \in Client  BY DEF Client
<1>2. CASE r.op \in {"add", "enable"}
  <2>1. r.id \in Ids  BY <1>2 DEF Edits
  <2>2. c.clients \cup {[id |-> r.id, mail |-> TRUE]} \in SUBSET Client
      BY <1>1, <2>1 DEF Conf
  <2>3. Edited(c, r) \in {c, [c EXCEPT !.clients = @ \cup {[id |-> r.id, mail |-> TRUE]}]}
      BY <1>2 DEF Edited
  <2> QED  BY <2>2, <2>3 DEF Conf
<1>3. CASE r.op \in {"disable", "remove"}
  <2>1. Edited(c, r) = [c EXCEPT !.clients = {x \in @ : x.id # r.id}]  BY <1>3 DEF Edited
  <2> QED  BY <2>1 DEF Conf
<1>4. CASE r.op = "list"
  <2>1. {[x EXCEPT !.mail = TRUE] : x \in c.clients} \in SUBSET Client  BY DEF Conf, Client
  <2>2. Edited(c, r) = Upgraded(c)  BY <1>4 DEF Edited
  <2> QED  BY <2>1, <2>2 DEF Conf, Upgraded
<1>5. CASE r.op = "raw"  BY <1>5 DEF Edited
<1> QED  BY <1>2, <1>3, <1>4, <1>5 DEF Request, Ops, Edits

LEMMA TabledType ==
    ASSUME NEW t \in SUBSET Ids, NEW r \in Request, NEW c,
           r.op \in Edits => r.id \in Ids, r.op = "list" => c \in Conf
    PROVE  Tabled(t, r, c) \in SUBSET Ids
<1>1. CASE r.op = "add"  BY <1>1 DEF Tabled, Edits
<1>2. CASE r.op = "remove"  BY <1>2 DEF Tabled
<1>3. CASE r.op = "list"
  <2>1. IdsOf(c.clients) \in SUBSET Ids  BY <1>3 DEF IdsOf, Conf, Client
  <2> QED  BY <1>3, <2>1 DEF Tabled
<1>4. CASE r.op \notin {"add", "remove", "list"}  BY <1>4 DEF Tabled
<1> QED  BY <1>1, <1>2, <1>3, <1>4

LEMMA IdsOfOneMore ==
    ASSUME NEW xs, NEW i
    PROVE  IdsOf(xs \cup {[id |-> i, mail |-> TRUE]}) = IdsOf(xs) \cup {i}
<1> DEFINE new == [id |-> i, mail |-> TRUE]
<1>1. new.id = i  OBVIOUS
<1> HIDE DEF new
<1>2. \A j : j \in IdsOf(xs \cup {new}) <=> \E x \in xs \cup {new} : j = x.id  BY DEF IdsOf
<1>3. \A j : j \in IdsOf(xs) <=> \E x \in xs : j = x.id  BY DEF IdsOf
<1>4. IdsOf(xs \cup {new}) = IdsOf(xs) \cup {i}  BY <1>1, <1>2, <1>3
<1> QED  BY <1>4 DEF new

\* An edit touches its own client only.
LEMMA EditedIds ==
    ASSUME NEW c \in Conf, NEW r \in Request, r.op # "list"
    PROVE  IdsOf(Edited(c, r).clients) =
             CASE r.op \in {"add", "enable"} -> IdsOf(c.clients) \cup {r.id}
               [] r.op \in {"disable", "remove"} -> IdsOf(c.clients) \ {r.id}
               [] OTHER -> IdsOf(c.clients)
<1>1. CASE r.op \in {"add", "enable"}
  <2>1. CASE r.id \in IdsOf(c.clients)
    <3>1. Edited(c, r) = c  BY <1>1, <2>1 DEF Edited
    <3> QED  BY <1>1, <2>1, <3>1
  <2>2. CASE r.id \notin IdsOf(c.clients)
    <3>1. Edited(c, r).clients = c.clients \cup {[id |-> r.id, mail |-> TRUE]}
        BY <1>1, <2>2 DEF Edited, Conf
    <3>2. IdsOf(Edited(c, r).clients) = IdsOf(c.clients) \cup {r.id}
        BY <3>1, IdsOfOneMore
    <3> QED  BY <1>1, <3>2
  <2> QED  BY <2>1, <2>2
<1>2. CASE r.op \in {"disable", "remove"}
  <2>1. Edited(c, r).clients = {x \in c.clients : x.id # r.id}
      BY <1>2 DEF Edited, Conf
  <2>2. IdsOf({x \in c.clients : x.id # r.id}) = IdsOf(c.clients) \ {r.id}  BY DEF IdsOf
  <2> QED  BY <1>2, <2>1, <2>2
<1>3. CASE r.op = "raw"  BY <1>3 DEF Edited
<1> QED  BY <1>1, <1>2, <1>3 DEF Request, Ops, Edits

\* An edit leaves a config up to date.
LEMMA EditedFresh ==
    ASSUME NEW c \in Conf, NEW r \in Request, r.op # "list", ~IsOld(c)
    PROVE  ~IsOld(Edited(c, r))
<1>1. CASE r.op \in {"add", "enable"}
  <2>1. \/ Edited(c, r) = c
        \/ Edited(c, r) = [c EXCEPT !.clients = @ \cup {[id |-> r.id, mail |-> TRUE]}]
      BY <1>1 DEF Edited
  <2> QED  BY <2>1 DEF IsOld, Conf
<1>2. CASE r.op \in {"disable", "remove"}
  <2>1. Edited(c, r) = [c EXCEPT !.clients = {x \in @ : x.id # r.id}]  BY <1>2 DEF Edited
  <2> QED  BY <2>1 DEF IsOld, Conf
<1>3. CASE r.op = "raw"  BY <1>3 DEF Edited
<1> QED  BY <1>1, <1>2, <1>3 DEF Request, Ops, Edits

LEMMA SeenType ==
    ASSUME TypeOK
    PROVE  Seen \in Files
BY DEF TypeOK, Seen

LEMMA CopiesType ==
    ASSUME TypeOK, NEW fs \in Files, fs.conf # None
    PROVE  /\ ToContainer(fs) => inside' \in Files /\ inside'.conf # None /\ host' \in Files
           /\ ToHost(fs) => inside' \in Files /\ inside'.conf # None /\ host' \in Files
BY DEF TypeOK, ToContainer, ToHost

LEMMA ServedType ==
    ASSUME TypeOK
    PROVE  Served \subseteq Ids
<1>1. inside.conf \in Conf  BY DEF TypeOK, Files
<1> QED  BY <1>1 DEF Served, IdsOf, Conf, Client
-----------------------------------------------------------------------------
(* Types *)

LEMMA InitTypes == Init => TInv
<1> SUFFICES ASSUME Init PROVE TInv  OBVIOUS
<1> USE DEF Init
<1>1. scene \in Scene  BY XrayAssumption
<1>2. scene.conf \in Conf /\ scene.rows \in SUBSET Ids  BY <1>1 DEF Scene
<1>3. inside \in Files /\ inside.conf # None /\ host \in Files
    BY <1>2, XrayAssumption DEF Files
<1>4. IdsOf(scene.conf.clients) \subseteq Ids  BY <1>2 DEF IdsOf, Conf, Client
<1>5. TypeOK  BY <1>1, <1>2, <1>3, <1>4 DEF TypeOK, Stages
<1>6. FormInv  BY DEF FormInv
<1> QED  BY <1>5, <1>6 DEF TInv

LEMMA NextTypes == TInv /\ [Next]_vars => TInv'
<1> SUFFICES ASSUME TInv, [Next]_vars PROVE TInv'  OBVIOUS
<1>t. TypeOK /\ FormInv  BY DEF TInv
<1>u. /\ scene \in Scenes
      /\ inside \in Files /\ inside.conf # None /\ host \in Files
      /\ up \in BOOLEAN /\ stale \in BOOLEAN
      /\ running \subseteq Ids /\ issued \subseteq Ids /\ behind \subseteq Ids
      /\ pc \in [Sessions -> Stages]
      /\ req \in [Sessions -> Request \cup {None}]
      /\ text \in [Sessions -> Conf \cup {None}]
      /\ rows \in [Sessions -> SUBSET Ids]
    BY <1>t DEF TypeOK
<1>d. ASSUME NEW s \in Sessions, Done(s)
      PROVE  /\ pc' \in [Sessions -> Stages] /\ req' \in [Sessions -> Request \cup {None}]
             /\ text' \in [Sessions -> Conf \cup {None}] /\ rows' \in [Sessions -> SUBSET Ids]
             /\ FormInv'
    BY <1>d, <1>t, <1>u DEF Done, Goto, FormInv, Stages
<1>r. \A s \in Sessions : pc[s] # "idle" =>
         req[s] \in Request /\ (req[s].op \in Edits => req[s].id \in Ids)
    BY <1>t DEF FormInv
<1>s. Seen \in Files /\ Served \subseteq Ids  BY <1>t, SeenType, ServedType
<1>1. ASSUME NEW s \in Sessions, NEW op \in Ops, NEW id \in Ids \cup {None}, Begin(s, op, id)
      PROVE  TInv'
  <2>1. [op |-> op, id |-> id] \in Request  BY DEF Request
  <2>2. op \in Edits => id \in Ids  BY <1>1, <1>u DEF Begin, Edits
  <2>3. TypeOK'  BY <1>1, <1>u, <2>1 DEF Begin, Goto, TypeOK, Stages, files
  <2>4. FormInv'  BY <1>1, <1>t, <1>u, <2>1, <2>2 DEF Begin, Goto, FormInv
  <2> QED  BY <2>3, <2>4 DEF TInv
<1>2. ASSUME NEW s \in Sessions, Read(s) PROVE TInv'
  <2>1. CASE Seen.conf = None
    <3>1. Done(s)  BY <1>2, <2>1 DEF Read
    <3> QED  BY <1>2, <3>1, <1>d, <1>u DEF Read, TInv, TypeOK, files
  <2>2. CASE Seen.conf # None
    <3>1. Seen.conf \in Conf  BY <2>2, <1>s DEF Files
    <3>2. pc[s] = "read"  BY <1>2 DEF Read
    <3>3. Edited(Seen.conf, req[s]) \in Conf  BY <3>1, <3>2, <1>r, EditedType
    <3>4. TypeOK'  BY <1>2, <2>2, <3>3, <1>u DEF Read, Goto, TypeOK, Stages, files
    <3>5. FormInv'  BY <1>2, <2>2, <3>3, <1>t, <1>u DEF Read, Goto, FormInv
    <3> QED  BY <3>4, <3>5 DEF TInv
  <2> QED  BY <2>1, <2>2
<1>3. ASSUME NEW s \in Sessions, Save(s) PROVE TInv'
  <2>1. text[s] \in Conf  BY <1>3, <1>t DEF Save, FormInv
  <2>2. /\ [inside EXCEPT !.conf = text[s]] \in Files
        /\ [inside EXCEPT !.conf = text[s]].conf # None
      BY <2>1, <1>u, XrayAssumption DEF Files
  <2>3. inside' \in Files /\ inside'.conf # None /\ host' \in Files
      BY <1>3, <2>2, <1>t, CopiesType DEF Save
  <2>4. TypeOK'  BY <1>3, <2>3, <1>u DEF Save, Goto, TypeOK, Stages
  <2>5. FormInv'  BY <1>3, <2>1, <1>t, <1>u DEF Save, Goto, FormInv
  <2> QED  BY <2>4, <2>5 DEF TInv
<1>y. ASSUME NEW s \in Sessions, Sync(s) PROVE TInv'
  <2>1. text[s] \in Conf  BY <1>y, <1>t DEF Sync, FormInv
  <2>2. /\ [host EXCEPT !.conf = text[s]] \in Files
        /\ [host EXCEPT !.conf = text[s]].conf # None
      BY <2>1, <1>u, XrayAssumption DEF Files
  <2>3. inside' \in Files /\ inside'.conf # None /\ host' \in Files
      BY <1>y, <2>2, <1>t, CopiesType DEF Sync
  <2>4. TypeOK'  BY <1>y, <2>3, <1>u DEF Sync, Goto, TypeOK, Stages
  <2>5. FormInv'  BY <1>y, <2>1, <1>t, <1>u DEF Sync, Goto, FormInv
  <2> QED  BY <2>4, <2>5 DEF TInv
<1>4. ASSUME NEW s \in Sessions, Stop(s) PROVE TInv'
  <2>1. TypeOK'  BY <1>4, <1>u DEF Stop, Goto, TypeOK, Stages, files
  <2>2. FormInv'  BY <1>4, <1>t, <1>u DEF Stop, Goto, FormInv
  <2> QED  BY <2>1, <2>2 DEF TInv
<1>5. ASSUME NEW s \in Sessions, Start(s) PROVE TInv'
  <2>1. CASE req[s].op = "raw"
    <3>1. Done(s)  BY <1>5, <2>1 DEF Start
    <3> QED  BY <1>5, <3>1, <1>d, <1>u, <1>s DEF Start, TInv, TypeOK, files
  <2>2. CASE req[s].op # "raw"
    <3>1. TypeOK'  BY <1>5, <2>2, <1>u, <1>s DEF Start, Goto, TypeOK, Stages, files
    <3>2. FormInv'  BY <1>5, <2>2, <1>t, <1>u DEF Start, Goto, FormInv
    <3> QED  BY <3>1, <3>2 DEF TInv
  <2> QED  BY <2>1, <2>2
<1>6. ASSUME NEW s \in Sessions, Table(s) PROVE TInv'
  <2> DEFINE t == Tabled(Seen.rows, req[s], text[s])
  <2>1. CASE req[s].op = "list" /\ t = Seen.rows
    <3>1. Done(s)  BY <1>6, <2>1 DEF Table
    <3> QED  BY <1>6, <3>1, <1>d, <1>u DEF Table, TInv, TypeOK, files
  <2>2. CASE ~(req[s].op = "list" /\ t = Seen.rows)
    <3>1. pc[s] = "table"  BY <1>6 DEF Table
    <3>2. req[s].op = "list" => text[s] \in Conf  BY <3>1, <1>t DEF FormInv
    <3>3. Seen.rows \in SUBSET Ids  BY <1>s DEF Files
    <3>4. t \in SUBSET Ids  BY <3>1, <3>2, <3>3, <1>r, TabledType
    <3>5. rows' = [rows EXCEPT ![s] = t] /\ Goto(s, "write") /\ UNCHANGED <<req, text>>
        BY <1>6, <2>2 DEF Table
    <3> HIDE DEF t
    <3>6. TypeOK'  BY <1>6, <3>4, <3>5, <1>u DEF Table, Goto, TypeOK, Stages, files
    <3>7. FormInv'  BY <3>1, <3>5, <1>t, <1>u DEF Goto, FormInv
    <3> QED  BY <3>6, <3>7 DEF TInv
  <2> QED  BY <2>1, <2>2
<1>7. ASSUME NEW s \in Sessions, Write(s) PROVE TInv'
  <2>1. Done(s)  BY <1>7 DEF Write
  <2>2. rows[s] \in SUBSET Ids  BY <1>u
  <2>3. inside' \in Files /\ inside'.conf # None /\ host' \in Files
      BY <1>7, <1>u, <2>2 DEF Write, Files
  <2> QED  BY <1>7, <2>1, <2>3, <1>d, <1>u DEF Write, TInv, TypeOK
<1>8. ASSUME NEW s \in Sessions, Break(s) PROVE TInv'
  <2>1. Done(s)  BY <1>8 DEF Break
  <2>2. stale' \in BOOLEAN  BY <1>8, <1>u DEF Break
  <2>4. req[s] \in Request  BY <1>8, <1>r DEF Break
  <2>3. behind' \subseteq Ids  BY <1>8, <1>u, <2>4 DEF Break, Request
  <2> QED  BY <1>8, <2>1, <2>2, <2>3, <1>d, <1>u DEF Break, TInv, TypeOK, files
<1>9. ASSUME ToggleContainer PROVE TInv'
  <2>1. stale' \in BOOLEAN /\ up' \in BOOLEAN  BY <1>9, <1>u DEF ToggleContainer
  <2>2. TypeOK'  BY <1>9, <2>1, <1>u, <1>s DEF ToggleContainer, TypeOK, files
  <2>3. FormInv'  BY <1>9, <1>t DEF ToggleContainer, FormInv
  <2> QED  BY <2>2, <2>3 DEF TInv
<1>10. ASSUME NEW id \in Ids, AppAdds(id) PROVE TInv'
  <2>1. inside.conf \in Conf  BY <1>u DEF Files
  <2>2. [id |-> id, mail |-> FALSE] \in Client  BY DEF Client
  <2>3. inside' \in Files /\ inside'.conf \in Conf
      BY <1>10, <1>u, <2>1, <2>2 DEF AppAdds, Files, Conf
  <2>4. host' \in Files /\ inside'.conf # None
      BY <1>10, <1>u, <2>3, XrayAssumption DEF AppAdds
  <2>5. running' \subseteq Ids  BY <1>10, <2>3 DEF AppAdds, IdsOf, Conf, Client
  <2>6. TypeOK'  BY <1>10, <2>3, <2>4, <2>5, <1>u DEF AppAdds, TypeOK
  <2>7. FormInv'  BY <1>10, <1>t DEF AppAdds, FormInv
  <2> QED  BY <2>6, <2>7 DEF TInv
<1>11. ASSUME UNCHANGED vars PROVE TInv'
  BY <1>11, <1>t DEF vars, files, TInv, TypeOK, FormInv
<1> QED  BY <1>1, <1>2, <1>3, <1>y, <1>4, <1>5, <1>6, <1>7, <1>8, <1>9, <1>10, <1>11 DEF Next

\* The files, the sessions and the process never leave their types; in
\* particular the container always has a server.json.
THEOREM XrayTypeCorrect == Spec => []TypeOK
<1>1. TInv => TypeOK  BY DEF TInv
<1> QED  BY <1>1, InitTypes, NextTypes, PTL DEF Spec

LEMMA TypesHold == Spec => []TInv
BY InitTypes, NextTypes, PTL DEF Spec

-----------------------------------------------------------------------------
(* RunningIsCurrent *)

LEMMA InitCurrent == Init => RunningIsCurrent
BY DEF Init, RunningIsCurrent, Served

LEMMA NextCurrent == TypeOK /\ RunningIsCurrent /\ [Next]_vars => RunningIsCurrent'
<1> SUFFICES ASSUME TypeOK, RunningIsCurrent, [Next]_vars PROVE RunningIsCurrent'  OBVIOUS
<1>p. pc \in [Sessions -> Stages]  BY DEF TypeOK
<1>k. ASSUME inside'.conf = inside.conf PROVE Served' = Served  BY <1>k DEF Served
\* A step that leaves the process alone and ends between no write and restart.
<1>q. ASSUME NEW s \in Sessions, pc[s] \notin {"sync", "stop", "start"}, NEW stage,
             pc' = [pc EXCEPT ![s] = stage], UNCHANGED <<up, running, stale>>,
             inside'.conf = inside.conf
      PROVE  RunningIsCurrent'
  <2>1. \A x \in Sessions : pc[x] \in {"sync", "stop", "start"} => pc'[x] = pc[x]  BY <1>q, <1>p
  <2> QED  BY <1>q, <1>k, <2>1 DEF RunningIsCurrent
<1>1. ASSUME NEW s \in Sessions, NEW op \in Ops, NEW id \in Ids \cup {None}, Begin(s, op, id)
      PROVE  RunningIsCurrent'
  BY <1>1, <1>q DEF Begin, Goto, files
<1>2. ASSUME NEW s \in Sessions, Read(s) PROVE RunningIsCurrent'
  <2>1. \E stage : pc' = [pc EXCEPT ![s] = stage]  BY <1>2 DEF Read, Done, Goto
  <2> QED  BY <1>2, <2>1, <1>q DEF Read, files
<1>3. ASSUME NEW s \in Sessions, Save(s) PROVE RunningIsCurrent'
  <2>1. pc'[s] = "sync"  BY <1>3, <1>p DEF Save, Goto
  <2> QED  BY <2>1 DEF RunningIsCurrent
<1>y. ASSUME NEW s \in Sessions, Sync(s) PROVE RunningIsCurrent'
  <2>1. pc'[s] = "stop"  BY <1>y, <1>p DEF Sync, Goto
  <2> QED  BY <2>1 DEF RunningIsCurrent
<1>4. ASSUME NEW s \in Sessions, Stop(s) PROVE RunningIsCurrent'
  BY <1>4 DEF Stop, RunningIsCurrent
<1>5. ASSUME NEW s \in Sessions, Start(s) PROVE RunningIsCurrent'
  BY <1>5, <1>k DEF Start, RunningIsCurrent, files
<1>6. ASSUME NEW s \in Sessions, Table(s) PROVE RunningIsCurrent'
  <2>1. \E stage : pc' = [pc EXCEPT ![s] = stage]  BY <1>6 DEF Table, Done, Goto
  <2> QED  BY <1>6, <2>1, <1>q DEF Table, files
<1>7. ASSUME NEW s \in Sessions, Write(s) PROVE RunningIsCurrent'
  <2>1. pc' = [pc EXCEPT ![s] = "idle"]  BY <1>7 DEF Write, Done, Goto
  <2>2. inside'.conf = inside.conf  BY <1>7 DEF Write, TypeOK, Files
  <2> QED  BY <1>7, <2>1, <2>2, <1>q DEF Write
<1>8. ASSUME NEW s \in Sessions, Break(s) PROVE RunningIsCurrent'
  <2>1. pc' = [pc EXCEPT ![s] = "idle"]  BY <1>8 DEF Break, Done, Goto
  <2>2. CASE pc[s] \in {"sync", "stop"}  BY <1>8, <2>2 DEF Break, RunningIsCurrent
  <2>3. CASE pc[s] \notin {"sync", "stop"}
    <3>1. stale' = stale  BY <1>8, <2>3 DEF Break, TypeOK
    <3> QED  BY <1>8, <2>1, <2>3, <3>1, <1>q DEF Break, files
  <2> QED  BY <2>2, <2>3
<1>9. ASSUME ToggleContainer PROVE RunningIsCurrent'
  BY <1>9, <1>k DEF ToggleContainer, RunningIsCurrent, TypeOK, files
<1>10. ASSUME NEW id \in Ids, AppAdds(id) PROVE RunningIsCurrent'
  BY <1>10 DEF AppAdds, RunningIsCurrent, Served
<1>11. ASSUME UNCHANGED vars PROVE RunningIsCurrent'
  BY <1>11, <1>k DEF vars, files, RunningIsCurrent
<1> QED  BY <1>1, <1>2, <1>3, <1>y, <1>4, <1>5, <1>6, <1>7, <1>8, <1>9, <1>10, <1>11 DEF Next

\* Once nobody is between a write of server.json and its restart, the process
\* serves the clients of the file, unless a connection broke in between and
\* nothing has restarted the container since.
THEOREM XrayRunningIsCurrent == Spec => []RunningIsCurrent
<1>1. TInv => TypeOK  BY DEF TInv
<1> QED  BY <1>1, InitCurrent, NextCurrent, TypesHold, PTL DEF Spec

-----------------------------------------------------------------------------
(* EditsKeepOthers *)

LEMMA InitKept == Init => KeptInv
<1> SUFFICES ASSUME Init, Exclusive PROVE KeptInv  BY DEF KeptInv
<1>1. scene.conf \in Conf /\ inside.conf = scene.conf
    BY XrayAssumption DEF Init, Scene
<1>2. \A s \in Sessions : pc[s] = "idle"  BY DEF Init
<1>3. ~IsOld(inside.conf)  BY <1>1 DEF Exclusive, IsOld
<1>4. scene.mount = "none" => host.conf = None  BY DEF Init
<1>5. scene.mount # "none" => host.conf = inside.conf  BY DEF Init
<1>6. HostNear  BY <1>1, <1>3, <1>4, <1>5 DEF HostNear, Served
<1> QED  BY <1>2, <1>3, <1>6 DEF KeptInv

\* At most one session may edit.
LEMMA OneEditor ==
    ASSUME Exclusive, NEW s \in Sessions, NEW t \in Sessions,
           \E o \in scene.may[s] : o # "list", \E o \in scene.may[t] : o # "list"
    PROVE  s = t
BY DEF Exclusive

\* What an edit makes of a file that differs from the container's only in the
\* clients of edits that were cut short.
LEMMA EditedOwn ==
    ASSUME NEW c \in Conf, NEW r \in Request, r.op # "list",
           \A id \in Ids \ behind : id \in IdsOf(c.clients) <=> id \in Served
    PROVE  OwnOnly(IdsOf(Edited(c, r).clients), r)
<1> DEFINE now == IdsOf(Edited(c, r).clients)
<1>1. CASE r.op \in {"add", "enable"}
  <2>1. now = IdsOf(c.clients) \cup {r.id}  BY <1>1, EditedIds
  <2> QED  BY <1>1, <2>1 DEF OwnOnly
<1>2. CASE r.op \in {"disable", "remove"}
  <2>1. now = IdsOf(c.clients) \ {r.id}  BY <1>2, EditedIds
  <2> QED  BY <1>2, <2>1 DEF OwnOnly
<1>3. CASE r.op = "raw"
  <2>1. now = IdsOf(c.clients)  BY <1>3, EditedIds
  <2> QED  BY <1>3, <2>1 DEF OwnOnly
<1> QED  BY <1>1, <1>2, <1>3 DEF Request, Ops, Edits

LEMMA NextKept == TInv /\ KeptInv /\ [Next]_vars => KeptInv'
<1> SUFFICES ASSUME TInv, KeptInv, [Next]_vars, Exclusive' PROVE KeptInv'
    BY DEF KeptInv
<1>t. TypeOK /\ FormInv  BY DEF TInv
<1>p. /\ pc \in [Sessions -> Stages]
      /\ req \in [Sessions -> Request \cup {None}]
      /\ text \in [Sessions -> Conf \cup {None}]
      /\ inside \in Files /\ inside.conf \in Conf /\ host \in Files
      /\ scene \in Scene
    BY <1>t, XrayAssumption DEF TypeOK, Files
<1>m. scene.mount \in {"bind", "copy", "none"}  BY <1>p DEF Scene
<1>e. scene' = scene /\ Exclusive
  <2>1. scene' = scene
      BY DEF Next, vars, Begin, Read, Save, Sync, Stop, Start, Table, Write, Break,
             ToggleContainer, AppAdds
  <2> QED  BY <2>1 DEF Exclusive
<1>k. /\ HostNear
      /\ ~IsOld(inside.conf)
      /\ \A s \in Sessions :
           /\ pc[s] # "idle" => req[s].op \in scene.may[s]
           /\ pc[s] \in {"save", "sync"} => req[s].op # "list"
           /\ pc[s] = "save" => OwnOnly(IdsOf(text[s].clients), req[s]) /\ ~IsOld(text[s])
           /\ pc[s] = "sync" => text[s] = inside.conf
    BY <1>e DEF KeptInv
\* Only the editor comes to write.
<1>o. ASSUME NEW s \in Sessions, pc[s] # "idle", req[s].op # "list",
             NEW x \in Sessions, pc[x] \in {"save", "sync"}
      PROVE  x = s
  <2>1. req[s].op \in scene.may[s] /\ req[x].op \in scene.may[x] /\ req[x].op # "list"
      BY <1>o, <1>k
  <2> QED  BY <1>o, <2>1, <1>e, OneEditor
\* A step that leaves server.json alone, of a session that does not come from
\* copying it and does not come to write it, or comes to save its own edit.
<1>q. ASSUME NEW s \in Sessions,
             inside'.conf = inside.conf, host'.conf = host.conf, behind' = behind,
             \A x \in Sessions \ {s} :
                 pc'[x] = pc[x] /\ req'[x] = req[x] /\ text'[x] = text[x],
             pc[s] # "sync", pc'[s] # "sync",
             pc'[s] # "idle" => req'[s].op \in scene.may[s],
             pc'[s] = "save" =>
                 /\ req'[s].op # "list" /\ ~IsOld(text'[s])
                 /\ OwnOnly(IdsOf(text'[s].clients), req'[s])
      PROVE  KeptInv'
  <2>1. IsOld(inside.conf)' = IsOld(inside.conf) /\ Served' = Served
      BY <1>q DEF IsOld, Served
  <2>2. \A now, r : OwnOnly(now, r)' <=> OwnOnly(now, r)
      BY <1>q, <2>1 DEF OwnOnly
  <2>3. \A x \in Sessions :
           /\ pc'[x] # "idle" => req'[x].op \in scene.may[x]
           /\ pc'[x] \in {"save", "sync"} => req'[x].op # "list"
           /\ pc'[x] = "save" => OwnOnly(IdsOf(text'[x].clients), req'[x]) /\ ~IsOld(text'[x])
           /\ pc'[x] = "sync" => text'[x] = inside.conf
      BY <1>q, <1>k
  <2>4. HostNear'
    <3>1. \A x \in Sessions : pc[x] = "sync" => pc'[x] = "sync" /\ req'[x] = req[x]
        BY <1>q
    <3> QED  BY <1>k, <1>q, <1>e, <2>1, <3>1 DEF HostNear, IsOld
  <2>5. \A x \in Sessions : OwnOnly(IdsOf(text[x].clients), req[x])'
            <=> OwnOnly(IdsOf(text'[x].clients), req'[x])
      BY <2>1, <1>q DEF OwnOnly, IdsOf
  <2>6. \A x \in Sessions : IsOld(text[x])' <=> IsOld(text'[x])  BY DEF IsOld
  <2> QED  BY <1>q, <1>k, <1>e, <2>1, <2>3, <2>4, <2>5, <2>6 DEF KeptInv
<1>d. ASSUME NEW s \in Sessions, Done(s)
      PROVE  /\ pc'[s] = "idle"
             /\ \A x \in Sessions \ {s} :
                    pc'[x] = pc[x] /\ req'[x] = req[x] /\ text'[x] = text[x]
  BY <1>d, <1>p DEF Done, Goto
<1>1. ASSUME NEW s \in Sessions, NEW op \in Ops, NEW id \in Ids \cup {None}, Begin(s, op, id)
      PROVE  KeptInv'
  <2>1. /\ pc'[s] = "read" /\ pc[s] = "idle" /\ req'[s].op = op /\ op \in scene.may[s]
        /\ \A x \in Sessions \ {s} :
               pc'[x] = pc[x] /\ req'[x] = req[x] /\ text'[x] = text[x]
      BY <1>1, <1>p DEF Begin, Goto
  <2> QED  BY <1>1, <1>q, <2>1 DEF Begin, files
<1>2. ASSUME NEW s \in Sessions, Read(s) PROVE KeptInv'
  <2>0. /\ pc[s] = "read" /\ req[s].op \in scene.may[s] /\ req[s] \in Request
        /\ UNCHANGED <<inside, host, behind>>
      BY <1>2, <1>k, <1>t DEF Read, files, FormInv
  <2>1. CASE Seen.conf = None
    <3>1. Done(s)  BY <1>2, <2>1 DEF Read
    <3> QED  BY <2>0, <3>1, <1>d, <1>q
  <2>2. CASE Seen.conf # None
    <3>1. Seen.conf \in Conf /\ ~IsOld(Seen.conf)
        BY <2>2, <1>k, <1>p, <1>m DEF Seen, HostNear
    <3>2. /\ text' = [text EXCEPT ![s] = Edited(Seen.conf, req[s])]
          /\ pc' = [pc EXCEPT ![s] = IF req[s].op # "list" THEN "save" ELSE "table"]
          /\ req' = req
        BY <1>2, <2>2, <3>1 DEF Read, Goto
    <3>3. /\ text'[s] = Edited(Seen.conf, req[s]) /\ req'[s] = req[s]
          /\ pc'[s] = IF req[s].op # "list" THEN "save" ELSE "table"
          /\ \A x \in Sessions \ {s} :
                 pc'[x] = pc[x] /\ req'[x] = req[x] /\ text'[x] = text[x]
        BY <3>2, <1>p
    <3>4. CASE req[s].op = "list"
      <4>1. pc'[s] = "table"  BY <3>3, <3>4
      <4> QED  BY <2>0, <3>3, <4>1, <1>q
    <3>5. CASE req[s].op # "list"
      <4>1. \A x \in Sessions : pc[x] # "sync"
          BY <2>0, <3>5, <1>o
      <4>2. \A id \in Ids \ behind : id \in IdsOf(Seen.conf.clients) <=> id \in Served
        <5>1. CASE Seen = inside  BY <5>1 DEF Served
        <5>2. CASE Seen # inside
          <6>1. Seen = host /\ scene.mount = "copy"
              BY <2>2, <5>2, <1>m, <1>k DEF Seen, HostNear
          <6> QED  BY <6>1, <4>1, <1>k DEF HostNear
        <5> QED  BY <5>1, <5>2
      <4>3. OwnOnly(IdsOf(Edited(Seen.conf, req[s]).clients), req[s])
          BY <4>2, <3>1, <3>5, <2>0, EditedOwn
      <4>4. ~IsOld(Edited(Seen.conf, req[s]))  BY <3>1, <3>5, <2>0, EditedFresh
      <4>5. pc'[s] = "save"  BY <3>3, <3>5
      <4> QED  BY <2>0, <3>3, <3>5, <4>3, <4>4, <4>5, <1>q
    <3> QED  BY <3>4, <3>5
  <2> QED  BY <2>1, <2>2
<1>3. ASSUME NEW s \in Sessions, Save(s) PROVE KeptInv'
  <2>1. /\ pc[s] = "save" /\ req[s].op # "list" /\ text[s] \in Conf /\ ~IsOld(text[s])
        /\ OwnOnly(IdsOf(text[s].clients), req[s])
        /\ UNCHANGED <<req, text, behind>>
      BY <1>3, <1>k, <1>t DEF Save, FormInv
  <2>2. /\ inside'.conf = text[s]
        /\ host'.conf = IF scene.mount = "bind" THEN text[s] ELSE host.conf
      BY <1>3, <1>p DEF Save, ToContainer, Files
  <2>3. pc' = [pc EXCEPT ![s] = "sync"]  BY <1>3 DEF Save, Goto
  <2>4. \A x \in Sessions : pc[x] \in {"save", "sync"} => x = s  BY <2>1, <1>o
  <2>5. \A x \in Sessions :
           /\ pc'[x] # "idle" => req'[x].op \in scene.may[x]
           /\ pc'[x] \in {"save", "sync"} => req'[x].op # "list" /\ x = s
           /\ pc'[x] # "save"
      BY <2>1, <2>3, <2>4, <1>k, <1>p
  <2>6. ~IsOld(inside.conf)'  BY <2>1, <2>2
  <2>7. HostNear'
    <3>1. Served' = IdsOf(text[s].clients)  BY <2>2 DEF Served
    <3>2. pc'[s] = "sync" /\ req' = req /\ behind' = behind /\ scene' = scene
        BY <2>1, <2>3, <1>p, <1>e
    <3>3. ASSUME scene.mount = "copy", NEW id \in Ids, id \notin behind, id # req[s].id
          PROVE  id \in IdsOf(host.conf.clients) <=> id \in IdsOf(text[s].clients)
      <4>1. id \in IdsOf(host.conf.clients) <=> id \in Served
          BY <3>3, <1>k, <2>1, <2>4 DEF HostNear
      <4> QED  BY <3>3, <4>1, <2>1 DEF OwnOnly
    <3>4. scene.mount # "bind" => host'.conf = host.conf  BY <2>2
    <3>5. scene.mount = "copy" => host.conf \in Conf /\ ~IsOld(host.conf)
        BY <1>k DEF HostNear
    <3>6. scene.mount = "none" => host'.conf = None  BY <3>4, <1>k DEF HostNear
    <3>7. scene.mount = "copy" => ~IsOld(host.conf)'  BY <3>4, <3>5
    <3>8. scene.mount = "copy" => IdsOf(host.conf.clients)' = IdsOf(host.conf.clients)
        BY <3>4
    <3> QED  BY <2>2, <3>1, <3>2, <3>3, <3>4, <3>5, <3>6, <3>7, <3>8 DEF HostNear
  <2> QED  BY <2>1, <2>2, <2>5, <2>6, <2>7, <1>e DEF KeptInv
<1>y. ASSUME NEW s \in Sessions, Sync(s) PROVE KeptInv'
  <2>1. /\ pc[s] = "sync" /\ req[s].op # "list" /\ text[s] = inside.conf
        /\ req' = req /\ scene' = scene
      BY <1>y, <1>k, <1>e DEF Sync
  <2>2. /\ inside'.conf = inside.conf
        /\ host'.conf = IF scene.mount = "none" THEN host.conf ELSE inside.conf
      BY <1>y, <1>p, <2>1 DEF Sync, ToHost, Files
  <2>3. pc' = [pc EXCEPT ![s] = "stop"]  BY <1>y DEF Sync, Goto
  <2>4. \A x \in Sessions : pc[x] \in {"save", "sync"} => x = s  BY <2>1, <1>o
  <2>5. \A x \in Sessions :
           /\ pc'[x] # "idle" => req'[x].op \in scene.may[x]
           /\ pc'[x] \notin {"save", "sync"}
      BY <2>1, <2>3, <2>4, <1>k, <1>p
  <2>6. ~IsOld(inside.conf)'  BY <2>2, <1>k
  <2>7. HostNear'
    <3>1. scene.mount = "none" => host'.conf = None  BY <2>2, <1>k DEF HostNear
    <3>2. scene.mount # "none" => host'.conf = inside'.conf  BY <2>2
    <3>3. scene.mount # "none" => host'.conf \in Conf /\ ~IsOld(host.conf)'
        BY <2>2, <1>k, <1>p
    <3> QED  BY <2>1, <3>1, <3>2, <3>3 DEF HostNear, Served
  <2> QED  BY <2>1, <2>5, <2>6, <2>7 DEF KeptInv
<1>4. ASSUME NEW s \in Sessions, Stop(s) PROVE KeptInv'
  <2>1. /\ pc'[s] = "start" /\ req' = req /\ text' = text /\ pc[s] = "stop"
        /\ \A x \in Sessions \ {s} : pc'[x] = pc[x]
      BY <1>4, <1>p DEF Stop, Goto
  <2> QED  BY <1>4, <2>1, <1>k, <1>q DEF Stop, files
<1>5. ASSUME NEW s \in Sessions, Start(s) PROVE KeptInv'
  <2>0. pc[s] = "start" /\ UNCHANGED <<inside, host, behind>>  BY <1>5 DEF Start, files
  <2>1. CASE req[s].op = "raw"
    <3>1. Done(s)  BY <1>5, <2>1 DEF Start
    <3> QED  BY <2>0, <3>1, <1>d, <1>q
  <2>2. CASE req[s].op # "raw"
    <3>1. /\ pc'[s] = "table" /\ req' = req /\ text' = text
          /\ \A x \in Sessions \ {s} : pc'[x] = pc[x]
        BY <1>5, <2>2, <1>p DEF Start, Goto
    <3> QED  BY <2>0, <3>1, <1>k, <1>q
  <2> QED  BY <2>1, <2>2
<1>6. ASSUME NEW s \in Sessions, Table(s) PROVE KeptInv'
  <2>0. pc[s] = "table" /\ UNCHANGED <<inside, host, behind>>  BY <1>6 DEF Table, files
  <2>1. \/ Done(s)
        \/ Goto(s, "write") /\ UNCHANGED <<req, text>>
      BY <1>6 DEF Table
  <2>2. CASE Done(s)  BY <2>0, <2>2, <1>d, <1>q
  <2>3. CASE Goto(s, "write") /\ UNCHANGED <<req, text>>
    <3>1. /\ pc'[s] = "write" /\ req' = req /\ text' = text
          /\ \A x \in Sessions \ {s} : pc'[x] = pc[x]
        BY <2>3, <1>p DEF Goto
    <3> QED  BY <2>0, <3>1, <1>k, <1>q
  <2> QED  BY <2>1, <2>2, <2>3
<1>7. ASSUME NEW s \in Sessions, Write(s) PROVE KeptInv'
  <2>1. Done(s) /\ pc[s] = "write" /\ behind' = behind  BY <1>7 DEF Write
  <2>2. inside'.conf = inside.conf /\ host'.conf = host.conf
      BY <1>7, <1>p DEF Write, Files
  <2> QED  BY <2>1, <2>2, <1>d, <1>q
<1>8. ASSUME NEW s \in Sessions, Break(s) PROVE KeptInv'
  <2>1. Done(s) /\ UNCHANGED <<inside, host>>  BY <1>8 DEF Break, files
  <2>2. CASE pc[s] # "sync"
    <3>1. behind' = behind  BY <1>8, <2>2 DEF Break, TypeOK
    <3> QED  BY <2>1, <2>2, <3>1, <1>d, <1>q
  <2>3. CASE pc[s] = "sync"
    <3>1. req[s].op # "list"  BY <2>3, <1>k
    <3>2. \A x \in Sessions : pc[x] \in {"save", "sync"} => x = s  BY <2>3, <3>1, <1>o
    <3>3. \A x \in Sessions :
             /\ pc'[x] # "idle" => req'[x].op \in scene.may[x]
             /\ pc'[x] \notin {"save", "sync"}
        BY <2>1, <3>2, <1>d, <1>k
    <3>4. behind \subseteq behind'  BY <1>8 DEF Break
    <3>5. scene.mount = "copy" => \A id \in Ids : id = req[s].id => id \in behind'
        BY <1>8, <2>3, XrayAssumption DEF Break
    <3>6. HostNear'
      <4>1. \A id \in Ids : scene.mount = "copy" =>
                \/ id \in behind'
                \/ id \in IdsOf(host.conf.clients) <=> id \in Served
          BY <1>k, <3>2, <3>4, <3>5 DEF HostNear
      <4>2. Served' = Served /\ host' = host /\ inside' = inside /\ scene' = scene
          BY <2>1, <1>e DEF Served
      <4> QED  BY <1>k, <4>1, <4>2 DEF HostNear, IsOld
    <3>7. ~IsOld(inside.conf)'  BY <2>1, <1>k
    <3> QED  BY <3>3, <3>6, <3>7, <1>e DEF KeptInv
  <2> QED  BY <2>2, <2>3
<1>h. ASSUME UNCHANGED <<inside, host, pc, req, text, behind>> PROVE KeptInv'
  BY <1>h, <1>k, <1>e DEF KeptInv, HostNear, OwnOnly, Served, IsOld
<1>9. ASSUME ToggleContainer PROVE KeptInv'
  BY <1>9, <1>h DEF ToggleContainer, files
<1>10. ASSUME NEW id \in Ids, AppAdds(id) PROVE KeptInv'
  <2>1. id \notin scene.app  BY <1>e DEF Exclusive
  <2> QED  BY <1>10, <2>1 DEF AppAdds
<1>11. ASSUME UNCHANGED vars PROVE KeptInv'
  BY <1>11, <1>h DEF vars, files
<1> QED  BY <1>1, <1>2, <1>3, <1>y, <1>4, <1>5, <1>6, <1>7, <1>8, <1>9, <1>10, <1>11 DEF Next

LEMMA NextKeepsOthers ==
    TInv /\ KeptInv => (Exclusive => \A s \in Sessions : Save(s) => OwnOnly(Served', req[s]))
<1> SUFFICES ASSUME TInv, KeptInv, Exclusive, NEW s \in Sessions, Save(s)
             PROVE  OwnOnly(Served', req[s])
    OBVIOUS
<1>1. OwnOnly(IdsOf(text[s].clients), req[s])  BY DEF Save, KeptInv
<1>2. inside'.conf = text[s]  BY DEF Save, ToContainer, TInv, TypeOK, Files
<1> QED  BY <1>1, <1>2 DEF Served

\* While one session edits, each of its writes of server.json adds or takes out
\* its own client and no other but those whose edits a broken connection cut short
\* between the two copies: for any number of sessions that list, in every kind of
\* installation.
THEOREM XrayEditsKeepOthers == Spec => EditsKeepOthers
<1>1. TInv /\ KeptInv /\ [Next]_vars =>
        [Exclusive => \A s \in Sessions : Save(s) => OwnOnly(Served', req[s])]_vars
    BY NextKeepsOthers
<1>2. Spec => []KeptInv  BY InitKept, NextKept, TypesHold, PTL DEF Spec
<1> QED  BY <1>1, <1>2, TypesHold, PTL DEF Spec, EditsKeepOthers
=============================================================================
