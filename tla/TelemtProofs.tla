---------------------------- MODULE TelemtProofs ----------------------------
(***************************************************************************)
(* Proofs about Telemt, for any users, sessions, quotas and proxies: what  *)
(* the process serves when one session writes.                             *)
(*                                                                         *)
(* The argument.  A listing writes only when somebody's quota is spent;    *)
(* without quotas it never does, and the editor works alone.  The text it  *)
(* writes is then made from the file that is still there, so that each     *)
(* command brings file and process into step: who is disabled leaves the   *)
(* file first and the process next, who is removed the process first, who  *)
(* is added the file first.  A removal that is lost is counted (untold)    *)
(* until the process reads the whole file again; a disabling that is lost  *)
(* is made up for by the reload that follows.                              *)
(***************************************************************************)
EXTENDS Telemt, TLAPS

USE TelemtAssumption

Stages == {"idle", "get", "survey", "delete", "read", "write", "call", "reload", "restart"}

TypeInv ==
    /\ scene \in Scenes
    /\ file \in File
    /\ live \subseteq Names
    /\ limit \in [Names -> 0..MaxQuota] /\ octets \in [Names -> 0..MaxQuota]
    /\ pc \in [Sessions -> Stages]
    /\ req \in [Sessions -> Request \cup {None}]
    /\ text \in [Sessions -> File]
    /\ over \in [Sessions -> SUBSET Names] /\ left \in [Sessions -> SUBSET Names]

\* A session at work has a request of its workload; it knows the user it
\* works on from its second command on.
ReqInv ==
    \A s \in Sessions : pc[s] # "idle" =>
        /\ req[s] \in Request /\ req[s].op \in scene.may[s]
        /\ pc[s] \in {"get", "survey", "restart"} => req[s].op = "list"
        /\ pc[s] = "delete" => req[s].op = "remove"
        /\ pc[s] = "call" => req[s].op \notin {"remove", "domain"}
        /\ pc[s] = "reload" => req[s].op \in {"enable", "disable", "domain"}
        /\ req[s].op \in {"edit", "enable", "disable", "remove"} => req[s].name \in Names
        /\ req[s].op = "add" /\ pc[s] # "read" => req[s].name \in Names
        /\ req[s].op = "list" /\ pc[s] \in {"read", "write", "call"} => left[s] # {}

\* Where nobody sets a quota there is none.
Unlimited ==
    /\ \A q \in scene.quotas : q = 0
    /\ \A n \in Names : scene.file.quota[n] = 0
NoQuota == Unlimited =>
    /\ \A n \in Names : file.quota[n] = 0 /\ limit[n] = 0
    /\ \A s \in Sessions :
          /\ over[s] = {}
          /\ \A n \in Names : text[s].quota[n] = 0
          /\ req[s] # None => req[s].quota = 0

IInv == TypeInv /\ ReqInv /\ NoQuota

\* The session that writes, if one does.
Editor(e) == \A s \in Sessions \ {e} :
    scene.may[s] = {} \/ (scene.may[s] = {"list"} /\ Unlimited)

\* The editor writes what it made of the file that is still there ...
Holds(e) ==
    /\ pc[e] = "write" => text[e] = Edited(file, req[e], Subject(e))
    /\ pc[e] = "call" => text[e] = file /\ (req[e].op = "add" => Subject(e) \in On(file))

\* ... and the process is never ahead of it, but for the user the editor has
\* just taken out and is about to take from the process, by a call or, when that
\* is lost, by a reload; who is removed was
\* taken from the process before.
Behind(e) ==
    /\ pc[e] \in {"call", "reload"} /\ req[e].op \in {"disable", "list"} =>
          live \subseteq On(file) \cup {Subject(e)}
    /\ ~(pc[e] \in {"call", "reload"} /\ req[e].op \in {"disable", "list"}) =>
          live \subseteq On(file)
    /\ pc[e] \in {"read", "write"} /\ req[e].op = "remove" => req[e].name \notin live

EditInv == \A e \in Sessions : Editor(e) =>
    /\ \A s \in Sessions \ {e} : pc[s] \in {"idle", "get", "survey"}
    /\ Holds(e)
    /\ ~untold => Behind(e)

-----------------------------------------------------------------------------
(* What an edit makes of a file, and a call of the process *)

LEMMA MarkedFile ==
    ASSUME NEW f \in File, NEW n \in Names, NEW mark \in {"on", "off"}
    PROVE  /\ Marked(f, n, mark) \in File
           /\ Marked(f, n, mark).quota = f.quota
           /\ \A m \in Names \ {n} : Marked(f, n, mark).users[m] = f.users[m]
           /\ Marked(f, n, mark).users[n] \in {"out", mark}
           /\ f.users[n] = "on" => Marked(f, n, mark).users[n] = mark
<1> DEFINE u == [f.users EXCEPT ![n] = IF f.users[n] = "out" THEN "out" ELSE mark]
<1>1. f.users \in [Names -> {"on", "off", "out"}] /\ f.quota \in [Names -> 0..MaxQuota]
  BY DEF File
<1>2. f = [users |-> f.users, quota |-> f.quota]
  BY DEF File
<1>3. Marked(f, n, mark) = [users |-> u, quota |-> f.quota]
  BY <1>2 DEF Marked
<1>4. u \in [Names -> {"on", "off", "out"}] /\ \A m \in Names \ {n} : u[m] = f.users[m]
  BY <1>1
<1>5. u[n] \in {"out", mark} /\ (f.users[n] = "on" => u[n] = mark)
  BY <1>1
<1> HIDE DEF u
<1> QED
  BY <1>1, <1>3, <1>4, <1>5 DEF File

LEMMA EditedFile ==
    ASSUME NEW f \in File, NEW r \in Request, NEW n, r.op = "domain" \/ n \in Names
    PROVE  /\ Edited(f, r, n) \in File
           /\ (\A m \in Names : f.quota[m] = 0) /\ r.quota = 0 =>
                 \A m \in Names : Edited(f, r, n).quota[m] = 0
           /\ r.op \in {"add", "edit", "enable", "domain"} => On(f) \subseteq On(Edited(f, r, n))
           /\ r.op \in {"add", "edit"} => n \in On(Edited(f, r, n))
           /\ On(f) \ {n} \subseteq On(Edited(f, r, n))
<1>0. /\ f.users \in [Names -> {"on", "off", "out"}] /\ f.quota \in [Names -> 0..MaxQuota]
      /\ r.quota \in 0..MaxQuota
  BY DEF File, Request
<1>1. CASE r.op \in {"add", "edit"}
  <2>0. n \in Names
    BY <1>1
  <2>1. PICK q \in 0..MaxQuota :
           /\ Edited(f, r, n) = [users |-> [f.users EXCEPT ![n] = "on"],
                                 quota |-> [f.quota EXCEPT ![n] = q]]
           /\ f.quota[n] = 0 /\ r.quota = 0 => q = 0
    <3>1. CASE r.op = "add"
      BY <1>0, <2>0, <3>1 DEF Edited
    <3>2. CASE r.op = "edit"
      BY <1>0, <3>2 DEF Edited, Updated
    <3> QED
      BY <1>1, <3>1, <3>2
  <2> QED
    BY <1>0, <1>1, <2>0, <2>1 DEF File, On
<1>2. CASE r.op = "enable"
  <2>1. n \in Names /\ Edited(f, r, n) = Marked(f, n, "on")
    BY <1>2 DEF Edited
  <2>2. /\ Edited(f, r, n) \in File
        /\ Edited(f, r, n).quota = f.quota
        /\ \A m \in Names \ {n} : Edited(f, r, n).users[m] = f.users[m]
        /\ f.users[n] = "on" => Edited(f, r, n).users[n] = "on"
    <3>1. /\ Marked(f, n, "on") \in File
          /\ Marked(f, n, "on").quota = f.quota
          /\ \A m \in Names \ {n} : Marked(f, n, "on").users[m] = f.users[m]
          /\ f.users[n] = "on" => Marked(f, n, "on").users[n] = "on"
      BY <2>1, MarkedFile
    <3> QED
      BY <2>1, <3>1
  <2> QED
    BY <1>0, <1>2, <2>1, <2>2 DEF On
<1>3. CASE r.op \in {"disable", "list"}
  <2>1. n \in Names /\ Edited(f, r, n) = Marked(f, n, "off")
    BY <1>3 DEF Edited
  <2>2. /\ Edited(f, r, n) \in File
        /\ Edited(f, r, n).quota = f.quota
        /\ \A m \in Names \ {n} : Edited(f, r, n).users[m] = f.users[m]
        /\ f.users[n] = "on" => Edited(f, r, n).users[n] = "off"
    <3>1. /\ Marked(f, n, "off") \in File
          /\ Marked(f, n, "off").quota = f.quota
          /\ \A m \in Names \ {n} : Marked(f, n, "off").users[m] = f.users[m]
          /\ f.users[n] = "on" => Marked(f, n, "off").users[n] = "off"
      BY <2>1, MarkedFile
    <3> QED
      BY <2>1, <3>1
  <2> QED
    BY <1>0, <1>3, <2>1, <2>2 DEF On
<1>4. CASE r.op = "remove"
  <2>1. n \in Names /\ Edited(f, r, n) = [users |-> [f.users EXCEPT ![n] = "out"],
                                          quota |-> [f.quota EXCEPT ![n] = 0]]
    BY <1>4 DEF Edited
  <2> QED
    BY <1>0, <1>4, <2>1 DEF File, On
<1>5. CASE r.op = "domain"
  BY <1>5 DEF Edited
<1> QED
  BY <1>1, <1>2, <1>3, <1>4, <1>5 DEF Request, Ops, Edits

\* POST, PATCH and DELETE, with and without the API.
LEMMA ToldMemory ==
    ASSUME TypeInv, NEW r \in Request, r.op # "domain", NEW n \in Names, NEW f \in File,
           Told(r, n, f)
    PROVE  /\ live' \subseteq Names
           /\ limit' \in [Names -> 0..MaxQuota] /\ octets' \in [Names -> 0..MaxQuota]
           /\ (\A m \in Names : limit[m] = 0) /\ r.quota = 0 => \A m \in Names : limit'[m] = 0
           /\ untold \/ (~scene.api /\ r.op \in {"list", "remove"}) => untold'
           /\ ~scene.api => live' = live
           /\ live' \subseteq live \cup {n}
           /\ r.op = "edit" => live' = live
           /\ r.op = "enable" /\ f.users[n] # "on" => live' = live
           /\ scene.api /\ r.op \in {"disable", "list", "remove"} => live' = live \ {n}
<1>0. r.quota \in 0..MaxQuota /\ 0 \in 0..MaxQuota
  BY DEF Request
<1>1. untold \/ (~scene.api /\ r.op \in {"list", "remove"}) => untold'
  BY DEF Told
<1>2. CASE ~scene.api
  BY <1>0, <1>1, <1>2 DEF Told, memory, TypeInv
<1>3. CASE scene.api /\ r.op = "add"
  <2>1. Added(n, r.quota)
    BY <1>3 DEF Told
  <2> QED
    BY <1>0, <1>1, <1>3, <2>1 DEF Added, TypeInv
<1>4. CASE scene.api /\ r.op = "edit"
  BY <1>0, <1>1, <1>4 DEF Told, TypeInv
<1>5. CASE scene.api /\ r.op = "enable"
  <2>1. CASE f.users[n] = "on"
    <3>1. Added(n, 0)
      BY <1>5, <2>1 DEF Told
    <3> QED
      BY <1>0, <1>1, <1>5, <2>1, <3>1 DEF Added, TypeInv
  <2>2. CASE f.users[n] # "on"
    BY <1>1, <1>5, <2>2 DEF Told, memory, TypeInv
  <2> QED
    BY <2>1, <2>2
<1>6. CASE scene.api /\ r.op \in {"disable", "list", "remove"}
  <2>1. Deleted(n)
    BY <1>6 DEF Told
  <2> QED
    BY <1>0, <1>1, <1>6, <2>1 DEF Deleted, TypeInv
<1> QED
  BY <1>2, <1>3, <1>4, <1>5, <1>6 DEF Request, Ops, Edits

-----------------------------------------------------------------------------
(* Types, requests, quotas *)

LEMMA NoFileType == NoFile \in File /\ \A n \in Names : NoFile.quota[n] = 0
BY DEF NoFile, File

\* The user of a command that edits or calls.
LEMMA SubjectIsUser ==
    ASSUME IInv, NEW s \in Sessions,
           \/ pc[s] \in {"write", "call"}
           \/ pc[s] = "read" /\ req[s].op # "add",
           req[s].op # "domain"
    PROVE  Subject(s) \in Names /\ (req[s].op = "list" => Subject(s) \in left[s])
<1>1. CASE req[s].op = "list"
  <2>1. left[s] # {} /\ left[s] \subseteq Names
    BY <1>1 DEF IInv, ReqInv, TypeInv
  <2> QED
    BY <1>1, <2>1 DEF Subject
<1>2. CASE req[s].op # "list"
  <2>1. req[s] \in Request /\ req[s].op \in Edits
    BY <1>2 DEF IInv, ReqInv, Request, Ops
  <2> QED
    BY <1>2, <2>1 DEF Subject, IInv, ReqInv, Edits
<1> QED
  BY <1>1, <1>2

LEMMA InitIInv == Init => IInv
<1> SUFFICES ASSUME Init PROVE IInv
  OBVIOUS
<1>1. scene \in Scene /\ scene.file \in File /\ 0 \in 0..MaxQuota
  BY DEF Init, Scene
<1>2. file.quota \in [Names -> 0..MaxQuota] /\ On(file) \subseteq Names
  BY <1>1 DEF Init, File, On
<1>3. TypeInv
  BY <1>1, <1>2, NoFileType DEF Init, TypeInv, Stages
<1>4. ReqInv
  BY DEF Init, ReqInv
<1>5. NoQuota
  BY NoFileType DEF Init, NoQuota, Unlimited
<1> QED
  BY <1>3, <1>4, <1>5 DEF IInv

LEMMA BeginStep ==
    ASSUME IInv, NEW s \in Sessions, NEW r \in Request, Begin(s, r)
    PROVE  IInv'
<1>1. /\ r.op \in scene.may[s]
      /\ r.name = None <=> r.op \in {"add", "domain", "list"}
      /\ r.quota \in scene.quotas \cup {0}
      /\ req' = [req EXCEPT ![s] = r]
      /\ UNCHANGED <<scene, file, live, limit, octets, text, over, left, untold>>
  BY DEF Begin, memory
<1>2. PICK stage \in {"get", "delete", "read"} :
         /\ pc' = [pc EXCEPT ![s] = stage]
         /\ stage = "get" <=> r.op = "list"
         /\ stage = "delete" <=> r.op = "remove"
  BY DEF Begin, Goto
<1>3. TypeInv'
  BY <1>1, <1>2 DEF IInv, TypeInv, Stages
<1>4. ReqInv'
  <2>1. r.op \in {"edit", "enable", "disable", "remove"} => r.name \in Names
    BY <1>1 DEF Request
  <2> QED
    BY <1>1, <1>2, <2>1 DEF IInv, ReqInv, TypeInv
<1>5. NoQuota'
  BY <1>1 DEF IInv, NoQuota, Unlimited, TypeInv
<1> QED
  BY <1>3, <1>4, <1>5 DEF IInv

LEMMA DoneFacts ==
    ASSUME IInv, NEW s \in Sessions, Done(s), scene' = scene
    PROVE  /\ ReqInv'
           /\ pc' \in [Sessions -> Stages] /\ req' \in [Sessions -> Request \cup {None}]
           /\ text' \in [Sessions -> File]
           /\ over' \in [Sessions -> SUBSET Names] /\ left' \in [Sessions -> SUBSET Names]
           /\ Unlimited => \A t \in Sessions :
                 /\ over'[t] = {} /\ \A n \in Names : text'[t].quota[n] = 0
                 /\ req'[t] # None => req'[t].quota = 0
<1>1. /\ pc' = [pc EXCEPT ![s] = "idle"] /\ req' = [req EXCEPT ![s] = None]
      /\ text' = [text EXCEPT ![s] = NoFile]
      /\ over' = [over EXCEPT ![s] = {}] /\ left' = [left EXCEPT ![s] = {}]
  BY DEF Done, Goto
<1>2. ReqInv'
  BY <1>1 DEF IInv, ReqInv, TypeInv
<1>3. /\ pc' \in [Sessions -> Stages] /\ req' \in [Sessions -> Request \cup {None}]
      /\ text' \in [Sessions -> File]
      /\ over' \in [Sessions -> SUBSET Names] /\ left' \in [Sessions -> SUBSET Names]
  BY <1>1, NoFileType DEF IInv, TypeInv, Stages
<1>4. Unlimited => \A t \in Sessions :
         /\ over'[t] = {} /\ \A n \in Names : text'[t].quota[n] = 0
         /\ req'[t] # None => req'[t].quota = 0
  BY <1>1, NoFileType DEF IInv, TypeInv, NoQuota
<1> QED
  BY <1>2, <1>3, <1>4

LEMMA GetStep ==
    ASSUME IInv, NEW s \in Sessions, Get(s)
    PROVE  IInv'
<1>1. /\ pc[s] = "get" /\ pc' = [pc EXCEPT ![s] = "survey"]
      /\ UNCHANGED <<scene, file, live, limit, octets, req, text, left, untold>>
  BY DEF Get, Goto, memory
<1>2. PICK gone \in SUBSET live : over' = [over EXCEPT ![s] = gone] /\ \A n \in gone : Spent(n)
  <2> DEFINE gone == IF scene.api THEN {n \in live : Spent(n)} ELSE {}
  <2>1. over' = [over EXCEPT ![s] = gone]
    BY DEF Get
  <2>2. gone \in SUBSET live /\ \A n \in gone : Spent(n)
    OBVIOUS
  <2> HIDE DEF gone
  <2> QED
    BY <2>1, <2>2
<1>3. TypeInv'
  BY <1>1, <1>2 DEF IInv, TypeInv, Stages
<1>4. ReqInv'
  BY <1>1 DEF IInv, ReqInv, TypeInv
<1>5. Unlimited => gone = {}
  BY <1>2 DEF IInv, NoQuota, Spent, TypeInv
<1>6. NoQuota'
  BY <1>1, <1>2, <1>5 DEF IInv, NoQuota, Unlimited, TypeInv
<1> QED
  BY <1>3, <1>4, <1>6 DEF IInv

LEMMA SurveyStep ==
    ASSUME IInv, NEW s \in Sessions, Survey(s)
    PROVE  IInv'
<1>1. pc[s] = "survey" /\ UNCHANGED <<scene, file, live, limit, octets, untold>>
  BY DEF Survey, memory
<1>2. CASE over[s] \cap On(file) = {}
  <2>1. Done(s)
    BY <1>2 DEF Survey
  <2>2. TypeInv' /\ ReqInv'
    BY <1>1, <2>1, DoneFacts DEF IInv, TypeInv
  <2>3. NoQuota'
    BY <1>1, <2>1, DoneFacts DEF IInv, NoQuota, Unlimited
  <2> QED
    BY <2>2, <2>3 DEF IInv
<1>3. CASE over[s] \cap On(file) # {}
  <2>1. PICK todo : /\ todo = (over[s] \cap On(file)) \cup {n \in Names : file.users[n] = "off"}
                    /\ left' = [left EXCEPT ![s] = todo]
    BY <1>3 DEF Survey
  <2>2. /\ over' = [over EXCEPT ![s] = {}] /\ pc' = [pc EXCEPT ![s] = "read"]
        /\ UNCHANGED <<req, text>>
    BY <1>3 DEF Survey, Goto
  <2>3. todo \subseteq Names /\ todo # {} /\ req[s].op = "list"
    BY <1>1, <1>3, <2>1 DEF IInv, TypeInv, ReqInv
  <2>4. TypeInv'
    BY <1>1, <2>1, <2>2, <2>3 DEF IInv, TypeInv, Stages
  <2>5. ReqInv'
    BY <1>1, <2>1, <2>2, <2>3 DEF IInv, ReqInv, TypeInv
  <2>6. NoQuota'
    BY <1>1, <2>2 DEF IInv, NoQuota, Unlimited, TypeInv
  <2> QED
    BY <2>4, <2>5, <2>6 DEF IInv
<1> QED
  BY <1>2, <1>3

LEMMA DeleteStep ==
    ASSUME IInv, NEW s \in Sessions, Delete(s)
    PROVE  IInv'
<1>1. /\ pc[s] = "delete" /\ pc' = [pc EXCEPT ![s] = "read"]
      /\ UNCHANGED <<scene, file, req, text, over, left>>
      /\ Told(req[s], req[s].name, file)
  BY DEF Delete, Goto
<1>2. req[s] \in Request /\ req[s].op = "remove" /\ req[s].name \in Names
  BY <1>1 DEF IInv, ReqInv
<1>3. /\ live' \subseteq Names
      /\ limit' \in [Names -> 0..MaxQuota] /\ octets' \in [Names -> 0..MaxQuota]
      /\ (\A m \in Names : limit[m] = 0) /\ req[s].quota = 0 => \A m \in Names : limit'[m] = 0
  BY <1>1, <1>2, ToldMemory DEF IInv, TypeInv
<1>4. TypeInv'
  BY <1>1, <1>3 DEF IInv, TypeInv, Stages
<1>5. ReqInv'
  BY <1>1, <1>2 DEF IInv, ReqInv, TypeInv
<1>6. NoQuota'
  <2>1. req[s] # None
    BY <1>2
  <2> QED
    BY <1>1, <1>3, <2>1 DEF IInv, NoQuota, Unlimited
<1> QED
  BY <1>4, <1>5, <1>6 DEF IInv

LEMMA ReadStep ==
    ASSUME IInv, NEW s \in Sessions, Read(s)
    PROVE  IInv'
<1>1. /\ pc[s] = "read" /\ pc' = [pc EXCEPT ![s] = "write"]
      /\ UNCHANGED <<scene, file, live, limit, octets, over, left, untold>>
  BY DEF Read, Goto, memory
<1>2. PICK n : /\ n \in IF req[s].op = "add" THEN {m \in Names : file.users[m] = "out"} ELSE {Subject(s)}
               /\ text' = [text EXCEPT ![s] = Edited(file, req[s], n)]
               /\ req' = IF req[s].op = "add" THEN [req EXCEPT ![s].name = n] ELSE req
  BY DEF Read
<1>3. req[s] \in Request /\ req[s].op \in scene.may[s] /\ req[s] # None
  BY <1>1 DEF IInv, ReqInv
<1>4. req[s].op = "domain" \/ n \in Names
  BY <1>1, <1>2, SubjectIsUser
<1>5. /\ Edited(file, req[s], n) \in File
      /\ (\A m \in Names : file.quota[m] = 0) /\ req[s].quota = 0 =>
            \A m \in Names : Edited(file, req[s], n).quota[m] = 0
  <2>1. file \in File
    BY DEF IInv, TypeInv
  <2> QED
    BY <1>3, <1>4, <2>1, EditedFile
<1>6. /\ req'[s] \in Request /\ req'[s].op = req[s].op /\ req'[s].quota = req[s].quota
      /\ req[s].op = "add" => req'[s].name = n
      /\ req[s].op # "add" => req'[s] = req[s]
      /\ \A t \in Sessions \ {s} : req'[t] = req[t]
      /\ req' \in [Sessions -> Request \cup {None}]
  BY <1>2, <1>3, <1>4 DEF IInv, TypeInv, Request
<1>7. TypeInv'
  BY <1>1, <1>2, <1>5, <1>6 DEF IInv, TypeInv, Stages
<1>8. ReqInv'
  BY <1>1, <1>3, <1>4, <1>6 DEF IInv, ReqInv, TypeInv
<1>9. NoQuota'
  <2>1. Unlimited => \A t \in Sessions :
           /\ \A m \in Names : text'[t].quota[m] = 0
           /\ req'[t] # None => req'[t].quota = 0
    BY <1>2, <1>3, <1>5, <1>6 DEF IInv, NoQuota, TypeInv
  <2> QED
    BY <1>1, <2>1 DEF IInv, NoQuota, Unlimited
<1> QED
  BY <1>7, <1>8, <1>9 DEF IInv

LEMMA WriteStep ==
    ASSUME IInv, NEW s \in Sessions, Write(s)
    PROVE  IInv'
<1>1. pc[s] = "write" /\ file' = text[s] /\ UNCHANGED <<scene, live, limit, octets, untold>>
  BY DEF Write, memory
<1>2. req[s] \in Request /\ file' \in File
  BY <1>1 DEF IInv, ReqInv, TypeInv
<1>3. Unlimited => \A n \in Names : file'.quota[n] = 0 /\ limit'[n] = 0
  BY <1>1 DEF IInv, NoQuota
<1>4. CASE req[s].op = "remove"
  <2>1. Done(s)
    BY <1>4 DEF Write
  <2>2. TypeInv' /\ ReqInv'
    BY <1>1, <1>2, <2>1, DoneFacts DEF IInv, TypeInv
  <2>3. NoQuota'
    BY <1>1, <1>3, <2>1, DoneFacts DEF IInv, NoQuota, Unlimited
  <2> QED
    BY <2>2, <2>3 DEF IInv
<1>5. CASE req[s].op # "remove"
  <2>1. PICK stage \in {"call", "reload"} :
           /\ pc' = [pc EXCEPT ![s] = stage]
           /\ stage = "reload" <=> req[s].op = "domain"
    BY <1>5 DEF Write, Goto
  <2>2. UNCHANGED <<req, text, over, left>>
    BY <1>5 DEF Write
  <2>3. TypeInv'
    BY <1>1, <1>2, <2>1, <2>2 DEF IInv, TypeInv, Stages
  <2>4. ReqInv'
    BY <1>1, <1>5, <2>1, <2>2 DEF IInv, ReqInv, TypeInv
  <2>5. NoQuota'
    BY <1>1, <1>3, <2>2 DEF IInv, NoQuota, Unlimited
  <2> QED
    BY <2>3, <2>4, <2>5 DEF IInv
<1> QED
  BY <1>4, <1>5

\* How a call ends, by its operation.
LEMMA CallCases ==
    ASSUME IInv, NEW s \in Sessions, Call(s)
    PROVE  /\ pc[s] = "call" /\ UNCHANGED <<scene, file>>
           /\ Told(req[s], Subject(s), text[s])
           /\ req[s] \in Request /\ Subject(s) \in Names /\ text[s] \in File
           /\ \/ req[s].op \in {"add", "edit"} /\ Done(s)
              \/ /\ req[s].op \in {"enable", "disable"}
                 /\ pc' = [pc EXCEPT ![s] = "reload"] /\ UNCHANGED <<req, text, over, left>>
              \/ /\ req[s].op = "list"
                 /\ left' = [left EXCEPT ![s] = @ \ {Subject(s)}]
                 /\ \/ pc' = [pc EXCEPT ![s] = "restart"]
                    \/ pc' = [pc EXCEPT ![s] = "read"] /\ left'[s] # {}
                 /\ UNCHANGED <<req, text, over>>
<1>1. pc[s] = "call" /\ UNCHANGED <<scene, file>> /\ Told(req[s], Subject(s), text[s])
  BY DEF Call
<1>2. req[s] \in Request /\ req[s].op \in {"add", "edit", "enable", "disable", "list"}
  BY <1>1 DEF IInv, ReqInv, Request, Ops, Edits
<1>3. Subject(s) \in Names /\ text[s] \in File
  BY <1>1, <1>2, SubjectIsUser DEF IInv, TypeInv
<1>4. CASE req[s].op \in {"add", "edit"}
  BY <1>1, <1>2, <1>3, <1>4 DEF Call
<1>5. CASE req[s].op \in {"enable", "disable"}
  BY <1>1, <1>2, <1>3, <1>5 DEF Call, Goto
<1>6. CASE req[s].op = "list"
  BY <1>1, <1>2, <1>3, <1>6 DEF Call, Goto
<1> QED
  BY <1>2, <1>4, <1>5, <1>6

LEMMA CallStep ==
    ASSUME IInv, NEW s \in Sessions, Call(s)
    PROVE  IInv'
<1>1. /\ pc[s] = "call" /\ UNCHANGED <<scene, file>>
      /\ Told(req[s], Subject(s), text[s])
      /\ req[s] \in Request /\ Subject(s) \in Names /\ text[s] \in File /\ req[s].op # "domain"
  BY CallCases DEF IInv, ReqInv
<1>2. /\ live' \subseteq Names
      /\ limit' \in [Names -> 0..MaxQuota] /\ octets' \in [Names -> 0..MaxQuota]
      /\ (\A m \in Names : limit[m] = 0) /\ req[s].quota = 0 => \A m \in Names : limit'[m] = 0
  BY <1>1, ToldMemory DEF IInv
<1>3. Unlimited => \A n \in Names : file'.quota[n] = 0 /\ limit'[n] = 0
  BY <1>1, <1>2 DEF IInv, NoQuota
<1>4. CASE Done(s)
  <2>1. TypeInv' /\ ReqInv'
    BY <1>1, <1>2, <1>4, DoneFacts DEF IInv, TypeInv
  <2>2. NoQuota'
    BY <1>1, <1>3, <1>4, DoneFacts DEF IInv, NoQuota, Unlimited
  <2> QED
    BY <2>1, <2>2 DEF IInv
<1>5. CASE ~Done(s)
  <2>1. UNCHANGED <<req, text, over>>
    BY <1>5, CallCases
  <2>2. TypeInv'
    BY <1>1, <1>2, <1>5, <2>1, CallCases DEF IInv, TypeInv, Stages
  <2>3. ReqInv'
    BY <1>1, <1>5, <2>1, CallCases DEF IInv, ReqInv, TypeInv
  <2>4. NoQuota'
    BY <1>1, <1>3, <2>1 DEF IInv, NoQuota, Unlimited
  <2> QED
    BY <2>2, <2>3, <2>4 DEF IInv
<1> QED
  BY <1>4, <1>5

LEMMA RefreshStep ==
    ASSUME IInv, NEW s \in Sessions, Refresh(s)
    PROVE  IInv'
<1>1. UNCHANGED <<scene, file>> /\ Done(s) /\ live' = On(file) /\ limit' = file.quota
  BY DEF Refresh, Reload, RestartContainer
<1>2. octets' \in [Names -> 0..MaxQuota]
  BY DEF Refresh, Reload, RestartContainer, IInv, TypeInv
<1>3. limit' \in [Names -> 0..MaxQuota] /\ live' \subseteq Names
  BY <1>1 DEF IInv, TypeInv, File, On
<1>4. TypeInv' /\ ReqInv'
  BY <1>1, <1>2, <1>3, DoneFacts DEF IInv, TypeInv
<1>5. NoQuota'
  BY <1>1, DoneFacts DEF IInv, NoQuota, Unlimited
<1> QED
  BY <1>4, <1>5 DEF IInv

LEMMA BreakStep ==
    ASSUME IInv, NEW s \in Sessions, Break(s)
    PROVE  IInv'
<1>1. UNCHANGED <<scene, file, live, limit, octets>> /\ Done(s)
  BY DEF Break, memory
<1>2. TypeInv' /\ ReqInv'
  BY <1>1, DoneFacts DEF IInv, TypeInv
<1>3. NoQuota'
  BY <1>1, DoneFacts DEF IInv, NoQuota, Unlimited
<1> QED
  BY <1>2, <1>3 DEF IInv

LEMMA TrafficStep ==
    ASSUME IInv, NEW n \in Names, Traffic(n)
    PROVE  IInv'
<1>1. /\ UNCHANGED <<scene, file, live, limit, pc, req, text, over, left, untold>>
      /\ octets' \in [Names -> 0..MaxQuota]
  BY DEF Traffic, IInv, TypeInv
<1>2. TypeInv' /\ NoQuota'
  BY <1>1 DEF IInv, TypeInv, NoQuota, Unlimited
<1>3. ReqInv'
  BY <1>1 DEF IInv, ReqInv
<1> QED
  BY <1>2, <1>3 DEF IInv

LEMMA NextIInv == IInv /\ [Next]_vars => IInv'
<1> SUFFICES ASSUME IInv, [Next]_vars PROVE IInv'
  OBVIOUS
<1>1. CASE Next
  BY <1>1, BeginStep, GetStep, SurveyStep, DeleteStep, ReadStep, WriteStep, CallStep,
     RefreshStep, BreakStep, TrafficStep DEF Next, Step
<1>2. CASE UNCHANGED vars
  <2>1. TypeInv' /\ NoQuota'
    BY <1>2 DEF vars, memory, IInv, TypeInv, NoQuota, Unlimited
  <2>2. ReqInv'
    BY <1>2 DEF vars, IInv, ReqInv
  <2> QED
    BY <2>1, <2>2 DEF IInv
<1> QED
  BY <1>1, <1>2

\* In every reachable state files, requests and memory are well formed, and
\* where nobody sets a quota nobody has one.
THEOREM TelemtIInv == Spec => []IInv
BY InitIInv, NextIInv, PTL DEF Spec

-----------------------------------------------------------------------------
(* One session writes *)

\* The others list, find nobody whose quota is spent, and change nothing.
LEMMA ListersIdle ==
    ASSUME IInv, NEW e \in Sessions, Editor(e), NEW s \in Sessions \ {e},
           pc[s] \in {"idle", "get", "survey"},
           \/ \E r \in Request : Begin(s, r)
           \/ Step(s) \/ Break(s)
    PROVE  /\ pc'[s] \in {"idle", "get", "survey"}
           /\ UNCHANGED <<scene, file, live>> /\ (untold => untold')
           /\ \A t \in Sessions \ {s} :
                 pc'[t] = pc[t] /\ req'[t] = req[t] /\ text'[t] = text[t] /\ left'[t] = left[t]
<1>1. CASE \E r \in Request : Begin(s, r)
  <2>1. PICK r \in Request : Begin(s, r)
    BY <1>1
  <2>2. r.op = "list"
    BY <2>1 DEF Begin, Editor
  <2>3. /\ pc' = [pc EXCEPT ![s] = "get"] /\ req' = [req EXCEPT ![s] = r]
        /\ UNCHANGED <<scene, file, live, untold, text, left>>
    BY <2>1, <2>2 DEF Begin, Goto, memory
  <2> QED
    BY <2>3 DEF IInv, TypeInv
<1>2. CASE Get(s)
  <2>1. pc' = [pc EXCEPT ![s] = "survey"] /\ UNCHANGED <<scene, file, live, untold, req, text, left>>
    BY <1>2 DEF Get, Goto, memory
  <2> QED
    BY <2>1 DEF IInv, TypeInv
<1>3. CASE Survey(s)
  <2>1. over[s] = {}
    <3>1. req[s].op = "list" /\ req[s].op \in scene.may[s]
      BY <1>3 DEF Survey, IInv, ReqInv
    <3> QED
      BY <3>1 DEF Editor, IInv, NoQuota
  <2>2. Done(s) /\ UNCHANGED <<scene, file, live, untold>>
    BY <1>3, <2>1 DEF Survey, memory
  <2> QED
    BY <2>2 DEF Done, Goto, IInv, TypeInv
<1>4. CASE Break(s)
  <2>1. Done(s) /\ UNCHANGED <<scene, file, live>> /\ (untold => untold')
    BY <1>4 DEF Break, memory
  <2> QED
    BY <2>1 DEF Done, Goto, IInv, TypeInv
<1>5. CASE Delete(s) \/ Read(s) \/ Write(s) \/ Call(s) \/ Refresh(s)
  BY <1>5 DEF Delete, Read, Write, Call, Refresh
<1> QED
  BY <1>1, <1>2, <1>3, <1>4, <1>5 DEF Step

LEMMA OnOfFile == ASSUME NEW f \in File, NEW r \in Request, NEW n, r.op = "domain" \/ n \in Names
    PROVE  /\ r.op \in {"add", "edit", "enable", "domain"} => On(f) \subseteq On(Edited(f, r, n))
           /\ r.op \in {"add", "edit"} => n \in On(Edited(f, r, n))
           /\ On(f) \ {n} \subseteq On(Edited(f, r, n))
BY EditedFile

LEMMA EditorBegins ==
    ASSUME IInv, NEW e \in Sessions, ~untold => Behind(e), NEW r \in Request, Begin(e, r)
    PROVE  Holds(e)' /\ (~untold' => Behind(e)')
<1>1. /\ pc[e] = "idle" /\ pc'[e] \in {"get", "delete", "read"} /\ req'[e] = r
      /\ r.op = "remove" => pc'[e] = "delete"
      /\ UNCHANGED <<file, live, untold>>
  BY DEF Begin, Goto, memory, IInv, TypeInv
<1>2. ~untold' => live' \subseteq On(file')
  BY <1>1 DEF Behind
<1> QED
  BY <1>1, <1>2 DEF Holds, Behind

\* Commands that change neither the file nor the process.
LEMMA EditorReads ==
    ASSUME IInv, NEW e \in Sessions, ~untold => Behind(e), Get(e) \/ Survey(e) \/ Read(e)
    PROVE  Holds(e)' /\ (~untold' => Behind(e)')
<1>1. UNCHANGED <<file, live, untold>>
  BY DEF Get, Survey, Read, memory
<1>2. CASE Get(e) \/ Survey(e)
  <2>1. pc[e] \in {"get", "survey"} /\ req[e].op = "list"
    BY <1>2 DEF Get, Survey, IInv, ReqInv
  <2>2. /\ pc'[e] \in {"survey", "read", "idle"}
        /\ pc'[e] # "idle" => req'[e] = req[e]
    BY <1>2 DEF Get, Survey, Done, Goto, IInv, TypeInv
  <2>3. ~untold' => live' \subseteq On(file')
    BY <1>1, <2>1 DEF Behind
  <2> QED
    BY <2>1, <2>2, <2>3 DEF Holds, Behind
<1>3. CASE Read(e)
  <2>1. pc[e] = "read" /\ pc'[e] = "write" /\ left' = left
    BY <1>3 DEF Read, Goto, IInv, TypeInv
  <2>2. PICK n : /\ n \in IF req[e].op = "add" THEN {m \in Names : file.users[m] = "out"} ELSE {Subject(e)}
                 /\ text' = [text EXCEPT ![e] = Edited(file, req[e], n)]
                 /\ req' = IF req[e].op = "add" THEN [req EXCEPT ![e].name = n] ELSE req
    BY <1>3 DEF Read
  <2>3. req[e] \in Request
    BY <2>1 DEF IInv, ReqInv
  <2>4. text'[e] = Edited(file, req[e], n)
    BY <2>2 DEF IInv, TypeInv
  <2>5. CASE req[e].op = "add"
    <3>1. req'[e] = [req[e] EXCEPT !.name = n] /\ n \in Names
      BY <2>2, <2>5 DEF IInv, TypeInv
    <3>2. req'[e].op = "add" /\ req'[e].quota = req[e].quota /\ req'[e].name = n
      BY <2>3, <2>5, <3>1 DEF Request
    <3>3. Subject(e)' = n
      BY <3>2 DEF Subject
    <3>4. Edited(file, req'[e], n) = Edited(file, req[e], n)
      BY <2>5, <3>2 DEF Edited
    <3> QED
      BY <1>1, <2>1, <2>4, <2>5, <3>2, <3>3, <3>4 DEF Holds, Behind
  <2>6. CASE req[e].op # "add"
    <3>1. req' = req /\ n = Subject(e) /\ Subject(e)' = Subject(e)
      BY <2>1, <2>2, <2>6 DEF Subject
    <3> QED
      BY <1>1, <2>1, <2>4, <3>1 DEF Holds, Behind
  <2> QED
    BY <2>5, <2>6
<1> QED
  BY <1>2, <1>3

LEMMA EditorDeletes ==
    ASSUME IInv, NEW e \in Sessions, ~untold => Behind(e), Delete(e)
    PROVE  Holds(e)' /\ (~untold' => Behind(e)')
<1>1. /\ pc[e] = "delete" /\ pc'[e] = "read" /\ UNCHANGED <<file, req>>
      /\ Told(req[e], req[e].name, file)
  BY DEF Delete, Goto, IInv, TypeInv
<1>2. req[e] \in Request /\ req[e].op = "remove" /\ req[e].name \in Names
  BY <1>1 DEF IInv, ReqInv
<1>3. /\ untold \/ ~scene.api => untold'
      /\ scene.api => live' = live \ {req[e].name}
  BY <1>1, <1>2, ToldMemory DEF IInv, TypeInv
<1> QED
  BY <1>1, <1>2, <1>3 DEF Holds, Behind

LEMMA EditorWrites ==
    ASSUME IInv, NEW e \in Sessions, Holds(e), ~untold => Behind(e), Write(e)
    PROVE  Holds(e)' /\ (~untold' => Behind(e)')
<1>1. pc[e] = "write" /\ file' = text[e] /\ UNCHANGED <<live, untold>>
  BY DEF Write, memory
<1>2. req[e] \in Request /\ file \in File /\ text[e] = Edited(file, req[e], Subject(e))
  BY <1>1 DEF IInv, ReqInv, TypeInv, Holds
<1>3. req[e].op = "domain" \/ Subject(e) \in Names
  BY <1>1, SubjectIsUser
<1>4. /\ req[e].op \in {"add", "edit", "enable", "domain"} => On(file) \subseteq On(file')
      /\ req[e].op = "add" => Subject(e) \in On(file')
      /\ On(file) \ {Subject(e)} \subseteq On(file')
  BY <1>1, <1>2, <1>3, OnOfFile
<1>5. ~untold' => live \subseteq On(file)
  BY <1>1 DEF Behind
<1>6. CASE req[e].op = "remove"
  <2>1. pc'[e] = "idle"
    BY <1>6 DEF Write, Done, Goto, IInv, TypeInv
  <2>2. Subject(e) = req[e].name /\ (~untold' => req[e].name \notin live)
    BY <1>1, <1>6 DEF Subject, Behind
  <2> QED
    BY <1>1, <1>4, <1>5, <2>1, <2>2 DEF Holds, Behind
<1>7. CASE req[e].op = "domain"
  <2>1. pc'[e] = "reload"
    BY <1>7 DEF Write, Goto, IInv, TypeInv
  <2> QED
    BY <1>1, <1>4, <1>5, <1>7, <2>1 DEF Holds, Behind
<1>8. CASE req[e].op \notin {"remove", "domain"}
  <2>1. /\ pc'[e] = "call" /\ req' = req /\ text' = text /\ left' = left
    BY <1>8 DEF Write, Goto, IInv, TypeInv
  <2>2. Subject(e)' = Subject(e) /\ On(file)' = On(file')
    BY <2>1 DEF Subject, On
  <2>3. req[e].op \in {"add", "edit", "enable", "disable", "list"}
    BY <1>2, <1>8 DEF Request, Ops, Edits
  <2> QED
    BY <1>1, <1>4, <1>5, <2>1, <2>2, <2>3 DEF Holds, Behind
<1> QED
  BY <1>6, <1>7, <1>8

LEMMA EditorCalls ==
    ASSUME IInv, NEW e \in Sessions, Holds(e), ~untold => Behind(e), Call(e)
    PROVE  Holds(e)' /\ (~untold' => Behind(e)')
<1>1. /\ pc[e] = "call" /\ UNCHANGED <<scene, file>>
      /\ Told(req[e], Subject(e), text[e])
      /\ req[e] \in Request /\ Subject(e) \in Names /\ text[e] = file /\ file \in File
      /\ req[e].op \in {"add", "edit", "enable", "disable", "list"}
  BY CallCases DEF Holds
<1>2. /\ untold \/ (~scene.api /\ req[e].op = "list") => untold'
      /\ live' \subseteq live \cup {Subject(e)}
      /\ req[e].op = "edit" => live' = live
      /\ req[e].op = "enable" /\ file.users[Subject(e)] # "on" => live' = live
      /\ scene.api /\ req[e].op \in {"disable", "list"} => live' = live \ {Subject(e)}
      /\ ~scene.api => live' = live
  BY <1>1, ToldMemory DEF IInv
<1>3. /\ pc'[e] \in {"idle", "reload", "restart", "read"}
      /\ pc'[e] # "idle" => req'[e] = req[e]
      /\ req[e].op = "disable" => pc'[e] = "reload" /\ left'[e] = left[e]
      /\ pc'[e] = "reload" => req[e].op \in {"enable", "disable"}
  <2>1. CASE req[e].op \in {"add", "edit"}
    <3>1. Done(e)  BY <2>1 DEF Call
    <3> QED  BY <2>1, <3>1 DEF Done, Goto, IInv, TypeInv
  <2>2. CASE req[e].op \in {"enable", "disable"}
    <3>1. Goto(e, "reload") /\ UNCHANGED <<req, left>>  BY <2>2 DEF Call
    <3> QED  BY <2>2, <3>1 DEF Goto, IInv, TypeInv
  <2>3. CASE req[e].op = "list"
    <3>1. Goto(e, "restart") \/ Goto(e, "read")  BY <2>3 DEF Call
    <3>2. req' = req  BY <2>3 DEF Call
    <3> QED  BY <2>3, <3>1, <3>2 DEF Goto, IInv, TypeInv
  <2> QED  BY <1>1, <2>1, <2>2, <2>3
<1>4. req[e].op = "add" => Subject(e) \in On(file)
  BY <1>1 DEF Holds
<1>5. CASE req[e].op \in {"add", "edit", "enable"}
  <2>1. ~untold' => live' \subseteq On(file')
    BY <1>1, <1>2, <1>4, <1>5 DEF Behind, On
  <2> QED
    BY <1>1, <1>3, <1>5, <2>1 DEF Holds, Behind
<1>6. CASE req[e].op = "list"
  <2>1. ~untold' => live' \subseteq On(file')
    BY <1>1, <1>2, <1>6 DEF Behind
  <2> QED
    BY <1>1, <1>3, <1>6, <2>1 DEF Holds, Behind
<1>7. CASE req[e].op = "disable"
  <2>1. ~untold' => live' \subseteq On(file') \cup {Subject(e)}
    BY <1>1, <1>2, <1>7 DEF Behind
  <2>2. Subject(e)' = Subject(e) /\ On(file)' = On(file')
    BY <1>3, <1>7 DEF Subject, On
  <2> QED
    BY <1>1, <1>3, <1>7, <2>1, <2>2 DEF Holds, Behind
<1> QED
  BY <1>1, <1>5, <1>6, <1>7

LEMMA EditorEnds ==
    ASSUME IInv, NEW e \in Sessions, ~untold => Behind(e), Refresh(e) \/ Break(e)
    PROVE  Holds(e)' /\ (~untold' => Behind(e)')
<1>1. pc'[e] = "idle" /\ file' = file
  BY DEF Refresh, Break, Done, Goto, IInv, TypeInv
<1>2. ~untold' => live' \subseteq On(file)
  <2>1. CASE Refresh(e)
    BY <2>1 DEF Refresh, Reload, RestartContainer
  <2>2. CASE Break(e)
    BY <2>2 DEF Break, memory, Behind
  <2> QED
    BY <2>1, <2>2
<1> QED
  BY <1>1, <1>2 DEF Holds, Behind

\* What others do leaves the editor where it is.
LEMMA EditorWaits ==
    ASSUME NEW e \in Sessions, Holds(e), ~untold => Behind(e),
           UNCHANGED <<file, live>>, untold => untold',
           pc'[e] = pc[e], req'[e] = req[e], text'[e] = text[e], left'[e] = left[e]
    PROVE  Holds(e)' /\ (~untold' => Behind(e)')
<1>1. Subject(e)' = Subject(e) /\ On(file)' = On(file)
  BY DEF Subject, On
<1>2. Edited(file, req[e], Subject(e))' = Edited(file, req[e], Subject(e))
  BY <1>1 DEF Edited, Updated, Marked
<1> QED
  BY <1>1, <1>2 DEF Holds, Behind

LEMMA InitEditInv == Init => EditInv
BY DEF Init, EditInv, Holds, Behind

LEMMA NextEditInv == IInv /\ EditInv /\ [Next]_vars => EditInv'
<1> SUFFICES ASSUME IInv, EditInv, [Next]_vars, NEW e \in Sessions, Editor(e)'
             PROVE  /\ \A s \in Sessions \ {e} : pc'[s] \in {"idle", "get", "survey"}
                    /\ Holds(e)' /\ (~untold' => Behind(e)')
  BY DEF EditInv
<1>1. scene' = scene
  BY DEF Next, vars, Step, Begin, Get, Survey, Delete, Read, Write, Call, Refresh, Break, Traffic
<1>2. Editor(e)
  BY <1>1 DEF Editor, Unlimited
<1>3. /\ \A s \in Sessions \ {e} : pc[s] \in {"idle", "get", "survey"}
      /\ Holds(e) /\ (~untold => Behind(e))
  BY <1>2 DEF EditInv
<1>4. ASSUME NEW s \in Sessions, (\E r \in Request : Begin(s, r)) \/ Step(s) \/ Break(s), s # e
      PROVE  /\ \A t \in Sessions \ {e} : pc'[t] \in {"idle", "get", "survey"}
             /\ Holds(e)' /\ (~untold' => Behind(e)')
  <2>1. /\ pc'[s] \in {"idle", "get", "survey"}
        /\ UNCHANGED <<scene, file, live>> /\ (untold => untold')
        /\ \A t \in Sessions \ {s} :
              pc'[t] = pc[t] /\ req'[t] = req[t] /\ text'[t] = text[t] /\ left'[t] = left[t]
    BY <1>2, <1>3, <1>4, ListersIdle
  <2>2. Holds(e)' /\ (~untold' => Behind(e)')
    BY <1>3, <1>4, <2>1, EditorWaits
  <2> QED
    BY <1>3, <2>1, <2>2
<1>5. ASSUME (\E r \in Request : Begin(e, r)) \/ Step(e) \/ Break(e)
      PROVE  /\ \A t \in Sessions \ {e} : pc'[t] \in {"idle", "get", "survey"}
             /\ Holds(e)' /\ (~untold' => Behind(e)')
  <2>1. \A t \in Sessions \ {e} : pc'[t] = pc[t]
    <3>1. (\E r \in Request : Begin(e, r)) \/ Get(e) \/ Delete(e) \/ Read(e) =>
             \E stage : pc' = [pc EXCEPT ![e] = stage]
      BY DEF Begin, Get, Delete, Read, Goto
    <3>2. Survey(e) \/ Refresh(e) \/ Break(e) => \E stage : pc' = [pc EXCEPT ![e] = stage]
      BY DEF Survey, Refresh, Break, Done, Goto
    <3>3. Write(e) => \E stage : pc' = [pc EXCEPT ![e] = stage]
      BY DEF Write, Done, Goto
    <3>4. Call(e) => \E stage : pc' = [pc EXCEPT ![e] = stage]
      BY CallCases DEF Done, Goto
    <3> QED
      BY <1>5, <3>1, <3>2, <3>3, <3>4 DEF Step, IInv, TypeInv
  <2>2. Holds(e)' /\ (~untold' => Behind(e)')
    BY <1>3, <1>5, EditorBegins, EditorReads, EditorDeletes, EditorWrites, EditorCalls, EditorEnds
       DEF Step
  <2> QED
    BY <1>3, <2>1, <2>2
<1>6. CASE UNCHANGED vars \/ \E n \in Names : Traffic(n)
  <2>1. UNCHANGED <<file, live, untold, pc, req, text, left>>
    BY <1>6 DEF vars, memory, Traffic
  <2> QED
    BY <1>3, <2>1, EditorWaits
<1> QED
  BY <1>4, <1>5, <1>6 DEF Next

\* Once whoever edits a proxy alone has returned, the process serves nobody the
\* file does not enable, for any users, quotas and listings beside, but for lost
\* removals and broken connections since it last read the file.
THEOREM TelemtNobodyServedOffFile == Spec => []NobodyServedOffFile
<1>1. IInv /\ EditInv => NobodyServedOffFile
  <2> SUFFICES ASSUME EditInv, Exclusive, ~untold, \A s \in Sessions : pc[s] = "idle"
               PROVE  live \subseteq On(file)
    BY DEF NobodyServedOffFile
  <2>1. PICK e \in Sessions : Editor(e)
    BY DEF Exclusive, Editor, Unlimited
  <2> QED
    BY <2>1 DEF EditInv, Behind
<1> QED
  BY <1>1, InitIInv, NextIInv, InitEditInv, NextEditInv, PTL DEF Spec
=============================================================================
