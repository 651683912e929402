-------------------------- MODULE VpnServerProofs --------------------------
(***************************************************************************)
(* Proofs about VpnServer, for every set of clients and sessions, every    *)
(* config found and every address: the types, the refinement of PeerSet,   *)
(* the order of the addresses, and what one session that works alone       *)
(* leaves behind.                                                          *)
(***************************************************************************)
EXTENDS VpnServer, WellFoundedInduction, TLAPS

\* A session at work has a request that its workload contains, and stands at
\* a command of that operation.
ReqInv ==
    \A s \in Sessions :
        /\ pc[s] # "idle" =>
              /\ req[s] \in [op : Ops, key : issued, ip : Nat]
              /\ req[s].op \in may[s]
        /\ pc[s] = "lookup" => req[s].op = "enable"
        /\ pc[s] = "append" => req[s].op \in Appends
        /\ pc[s] = "replace" => req[s].op \in {"disable", "remove"}

\* No two sections share a place in the file.
OnePerLine(c) == \A p, q \in c : p.at = q.at => p = q
LinesInv == OnePerLine(conf) /\ \A s \in Sessions : OnePerLine(text[s])

\* A session about to replace the config holds what it contains.
TextInv == Exclusive => \A s \in Sessions : pc[s] = "replace" => text[s] = conf

IInv == TypeOK /\ ReqInv /\ LinesInv /\ TextInv

\* Every nonempty set of numbers has a least one.
LEMMA LeastExists ==
    ASSUME NEW T \in SUBSET Nat, T # {}
    PROVE  \E x \in T : \A y \in T : x <= y
<1> DEFINE Less == {s \in Nat \X Nat : s[1] < s[2]}
<1>1. IsWellFoundedOn(Less, Nat)
  BY NatLessThanWellFounded DEF OpToRel
<1>2. \E x \in T : \A y \in T : <<y, x>> \notin Less
  <2> HIDE DEF Less
  <2> QED
    BY <1>1, WFMin
<1>3. PICK x \in T : \A y \in T : <<y, x>> \notin Less
  BY <1>2
<1>4. ASSUME NEW y \in T PROVE x <= y
  <2>1. <<y, x>> \in Nat \X Nat /\ ~(y < x)
    BY <1>3
  <2> QED
    BY <2>1
<1> QED
  BY <1>4

USE KindAssumption, MaxLineAssumption, WorkloadsAssumption, ConfsAssumption

\* A config with sections has a last one (_get_used_ips()[-1]).
LEMMA LastExists ==
    ASSUME NEW c \in SUBSET Section, c # {}
    PROVE  Last(c) \in c /\ \A q \in c : q.at <= Last(c).at
<1> DEFINE T == {MaxLine - p.at : p \in c}
<1>1. \A q \in c : q.at \in 1..MaxLine
  BY DEF Section
<1>2. T \in SUBSET Nat /\ T # {}
  BY <1>1
<1>3. PICK x \in T : \A y \in T : x <= y
  <2> HIDE DEF T
  <2> QED
    BY <1>2, LeastExists
<1>4. PICK p \in c : x = MaxLine - p.at
  BY <1>3
<1>5. \A q \in c : q.at <= p.at
  <2> TAKE q \in c
  <2>1. MaxLine - p.at <= MaxLine - q.at
    BY <1>3, <1>4
  <2> QED
    BY <2>1, <1>1
<1> QED
  BY <1>4, <1>5 DEF Last

LEMMA LineType ==
    ASSUME NEW c \in SUBSET Section
    PROVE  /\ LastLine(c) \in 0..MaxLine /\ LastIp(c) \in Nat /\ NextIp(c) \in Nat
           /\ \A q \in c : q.at <= LastLine(c)
<1>1. LastLine(c) \in 0..MaxLine /\ LastIp(c) \in Nat /\ \A q \in c : q.at <= LastLine(c)
  BY LastExists DEF LastLine, LastIp, Section
<1> QED
  BY <1>1 DEF NextIp

-----------------------------------------------------------------------------
(* The inductive invariant *)

LEMMA InitIInv == Init => IInv
<1> SUFFICES ASSUME Init PROVE IInv
  OBVIOUS
<1>1. conf \subseteq Section /\ KeysOf(conf) \subseteq Keys
  BY DEF Init, KeysOf, Section
<1>2. TypeOK
  BY <1>1 DEF Init, TypeOK, Stages
<1> QED
  BY <1>2 DEF Init, IInv, ReqInv, LinesInv, OnePerLine, TextInv

\* Nobody else is at work while a session rewrites the config.
LEMMA RewritesAlone ==
    ASSUME IInv, Exclusive, NEW s \in Sessions, NEW t \in Sessions, s # t,
           pc[s] = "replace"
    PROVE  may[t] = {} /\ pc[t] = "idle"
<1>1. req[s].op \in may[s] /\ req[s].op \notin Appends /\ may \in Workloads
  BY DEF IInv, ReqInv, Appends, TypeOK
<1>2. may[t] = {}
  BY <1>1 DEF Exclusive
<1> QED
  BY <1>2 DEF IInv, ReqInv

\* Operations that start: a request of the workload, at its first command.
LEMMA BeginKeepsRequests ==
    ASSUME IInv, NEW s \in Sessions, NEW op \in Ops, NEW k \in issued', NEW ip \in Nat,
           NEW stage \in {"lookup", "append", "replace"}, Begin(s, op, k, ip, stage),
           op \in Appends <=> stage # "replace", stage = "lookup" => op = "enable",
           issued \subseteq issued', issued' \subseteq Keys, may' = may
    PROVE  /\ ReqInv'
           /\ pc' \in [Sessions -> Stages]
           /\ req' \in [Sessions -> [op : Ops, key : Keys, ip : Nat] \cup {None}]
<1>1. op \in Appends \/ op \in {"disable", "remove"}
  BY DEF Ops
<1> QED
  BY <1>1 DEF Begin, Goto, IInv, ReqInv, TypeOK, Stages, Appends

LEMMA AddClientStep ==
    ASSUME IInv, NEW s \in Sessions, AddClient(s)
    PROVE  IInv'
<1>1. PICK k \in Keys \ issued :
          /\ Begin(s, "add", k, NextIp(conf), "append")
          /\ issued' = issued \cup {k}
  BY DEF AddClient
<1>2. UNCHANGED <<conf, live, table, may, text, rows, told, removed, torn, refused>>
  BY DEF AddClient
<1>3. NextIp(conf) \in Nat
  BY LineType DEF IInv, TypeOK
<1>4. /\ ReqInv'
      /\ pc' \in [Sessions -> Stages]
      /\ req' \in [Sessions -> [op : Ops, key : Keys, ip : Nat] \cup {None}]
  <2>1. issued \subseteq Keys
    BY DEF IInv, TypeOK
  <2> QED
    BY <1>1, <1>2, <1>3, <2>1, BeginKeepsRequests DEF Ops, Appends
<1>5. TypeOK'
  BY <1>1, <1>2, <1>4 DEF IInv, TypeOK
<1>6. LinesInv'
  BY <1>2 DEF IInv, LinesInv, OnePerLine
<1>7. TextInv'
  BY <1>1, <1>2 DEF IInv, TextInv, TypeOK, Begin, Goto
<1> QED
  BY <1>4, <1>5, <1>6, <1>7 DEF IInv

LEMMA EnableClientStep ==
    ASSUME IInv, NEW s \in Sessions, EnableClient(s)
    PROVE  IInv'
<1>1. PICK k \in issued : Begin(s, "enable", k, 0, "lookup")
  BY DEF EnableClient
<1>2. UNCHANGED <<conf, live, table, may, text, rows, told, issued, removed, torn, refused>>
  BY DEF EnableClient
<1>3. /\ ReqInv'
      /\ pc' \in [Sessions -> Stages]
      /\ req' \in [Sessions -> [op : Ops, key : Keys, ip : Nat] \cup {None}]
  <2>1. issued \subseteq Keys
    BY DEF IInv, TypeOK
  <2> QED
    BY <1>1, <1>2, <2>1, BeginKeepsRequests DEF Ops, Appends
<1>4. TypeOK'
  BY <1>2, <1>3 DEF IInv, TypeOK
<1>5. LinesInv'
  BY <1>2 DEF IInv, LinesInv, OnePerLine
<1>6. TextInv'
  BY <1>1, <1>2 DEF IInv, TextInv, TypeOK, Begin, Goto
<1> QED
  BY <1>3, <1>4, <1>5, <1>6 DEF IInv

LEMMA DropClientStep ==
    ASSUME IInv, NEW s \in Sessions, DropClient(s)
    PROVE  IInv'
<1>1. PICK op \in {"disable", "remove"}, k \in issued : Begin(s, op, k, 0, "replace")
  BY DEF DropClient
<1>2. /\ text' = [text EXCEPT ![s] = conf]
      /\ UNCHANGED <<conf, live, table, may, rows, told, issued, removed, torn, refused>>
  BY DEF DropClient
<1>3. /\ ReqInv'
      /\ pc' \in [Sessions -> Stages]
      /\ req' \in [Sessions -> [op : Ops, key : Keys, ip : Nat] \cup {None}]
  <2>1. issued \subseteq Keys
    BY DEF IInv, TypeOK
  <2> QED
    BY <1>1, <1>2, <2>1, BeginKeepsRequests DEF Ops, Appends
<1>4. TypeOK'
  BY <1>2, <1>3 DEF IInv, TypeOK
<1>5. LinesInv'
  BY <1>2 DEF IInv, TypeOK, LinesInv, OnePerLine
<1>6. TextInv'
  BY <1>1, <1>2 DEF IInv, TextInv, TypeOK, Begin, Goto
<1> QED
  BY <1>3, <1>4, <1>5, <1>6 DEF IInv

LEMMA LookUpStep ==
    ASSUME IInv, NEW s \in Sessions, LookUp(s)
    PROVE  IInv'
<1>1. PICK r \in table : req' = [req EXCEPT ![s].ip = r.ip]
  BY DEF LookUp
<1>2. /\ pc[s] = "lookup" /\ pc' = [pc EXCEPT ![s] = "append"]
      /\ UNCHANGED <<conf, live, table, may, text, rows, told, issued, removed, torn, refused>>
  BY DEF LookUp, Goto
<1>3. r.ip \in Nat /\ issued \subseteq Keys
  BY DEF IInv, TypeOK, Row
<1>4. req[s] \in [op : Ops, key : issued, ip : Nat]
  BY <1>2 DEF IInv, ReqInv
<1>5. TypeOK'
  BY <1>1, <1>2, <1>3, <1>4 DEF IInv, TypeOK, Stages
<1>6. ReqInv'
  <2>1. req[s].op = "enable" /\ req[s].op \in may[s]
    BY <1>2 DEF IInv, ReqInv
  <2>2. /\ req'[s] \in [op : Ops, key : issued, ip : Nat]
        /\ req'[s].op = "enable"
    BY <1>1, <1>3, <1>4, <2>1 DEF IInv, TypeOK
  <2>3. pc'[s] = "append" /\ "enable" \in Appends
    BY <1>2 DEF IInv, TypeOK, Appends
  <2>4. \A t \in Sessions \ {s} : pc'[t] = pc[t] /\ req'[t] = req[t]
    BY <1>1, <1>2 DEF IInv, TypeOK
  <2> QED
    BY <1>2, <2>1, <2>2, <2>3, <2>4 DEF IInv, ReqInv
<1>7. LinesInv'
  BY <1>2 DEF IInv, LinesInv, OnePerLine
<1>8. TextInv'
  BY <1>2 DEF IInv, TextInv, TypeOK
<1> QED
  BY <1>5, <1>6, <1>7, <1>8 DEF IInv

LEMMA AppendSectionStep ==
    ASSUME IInv, NEW s \in Sessions, AppendSection(s)
    PROVE  IInv'
<1>1. /\ pc[s] = "append" /\ pc' = [pc EXCEPT ![s] = "sync"]
      /\ LastLine(conf) < MaxLine
      /\ conf' = conf \cup {[key |-> req[s].key, ip |-> req[s].ip, at |-> LastLine(conf) + 1]}
      /\ UNCHANGED <<live, table, may, req, text, rows, told, issued, removed, torn, refused>>
  BY DEF AppendSection, Appended, Goto
<1>2. /\ LastLine(conf) + 1 \in 1..MaxLine
      /\ \A q \in conf : q.at # LastLine(conf) + 1
  <2>1. /\ LastLine(conf) \in 0..MaxLine /\ \A q \in conf : q.at <= LastLine(conf)
        /\ \A q \in conf : q.at \in 1..MaxLine
    BY LineType DEF IInv, TypeOK, Section
  <2> QED
    BY <1>1, <2>1
<1>3. req[s] \in [op : Ops, key : issued, ip : Nat] /\ issued \subseteq Keys
  BY <1>1 DEF IInv, ReqInv, TypeOK
<1>4. TypeOK'
  BY <1>1, <1>2, <1>3 DEF IInv, TypeOK, Section, Stages
<1>5. ReqInv'
  BY <1>1 DEF IInv, TypeOK, ReqInv
<1>6. LinesInv'
  BY <1>1, <1>2 DEF IInv, LinesInv, OnePerLine
<1>7. TextInv'
  BY <1>1, RewritesAlone DEF IInv, TextInv, TypeOK
<1> QED
  BY <1>4, <1>5, <1>6, <1>7 DEF IInv

LEMMA ReplaceConfigStep ==
    ASSUME IInv, NEW s \in Sessions, ReplaceConfig(s)
    PROVE  IInv'
<1>1. /\ pc[s] = "replace" /\ pc' = [pc EXCEPT ![s] = "sync"]
      /\ conf' \subseteq text[s]
      /\ UNCHANGED <<live, table, may, req, text, rows, told, issued, removed, torn, refused>>
  BY DEF ReplaceConfig, Without, Goto
<1>2. TypeOK'
  BY <1>1 DEF IInv, TypeOK, Stages
<1>3. ReqInv'
  BY <1>1 DEF IInv, TypeOK, ReqInv
<1>4. LinesInv'
  BY <1>1 DEF IInv, LinesInv, OnePerLine
<1>5. TextInv'
  BY <1>1, RewritesAlone DEF IInv, TextInv, TypeOK
<1> QED
  BY <1>2, <1>3, <1>4, <1>5 DEF IInv

\* Editing a table yields a table (the end of add_client, toggle_client and
\* remove_client).
LEMMA EditedIsTable ==
    ASSUME NEW t \in SUBSET Row, NEW r \in [op : Ops, key : Keys, ip : Nat]
    PROVE  Edited(t, r) \subseteq Row
<1>1. CASE r.op = "add"
  <2>1. [key |-> r.key, ip |-> r.ip, on |-> TRUE] \in Row
    BY DEF Row
  <2> QED
    BY <1>1, <2>1 DEF Edited
<1>2. CASE r.op = "remove"
  BY <1>2 DEF Edited
<1>3. CASE r.op \notin {"add", "remove"}
  <2> DEFINE mark(x) == IF x.key = r.key THEN [x EXCEPT !.on = r.op = "enable"] ELSE x
  <2>1. Edited(t, r) = {mark(x) : x \in t}
    BY <1>3 DEF Edited
  <2>2. ASSUME NEW x \in t PROVE mark(x) \in Row
    <3>1. x \in Row
      OBVIOUS
    <3>2. \A b \in BOOLEAN : [x EXCEPT !.on = b] \in Row
      BY <3>1 DEF Row
    <3>3. (r.op = "enable") \in BOOLEAN
      OBVIOUS
    <3> QED
      BY <3>1, <3>2, <3>3
  <2> QED
    BY <2>1, <2>2
<1> QED
  BY <1>1, <1>2, <1>3

\* The table and the interface follow; the config and the requests stay.
LEMMA TableStep ==
    ASSUME IInv, NEW s \in Sessions, SyncConf(s) \/ ReadTable(s) \/ WriteTable(s)
    PROVE  IInv'
<1>1. /\ pc[s] \in {"sync", "read", "write"}
      /\ \E stage \in {"read", "write", "reply"} : pc' = [pc EXCEPT ![s] = stage]
      /\ UNCHANGED <<conf, may, req, text, told, issued, removed, torn>>
  BY DEF SyncConf, ReadTable, WriteTable, Goto
<1>2. live' \subseteq Keys
  BY DEF SyncConf, ReadTable, WriteTable, IInv, TypeOK, KeysOf, Section
<1>3. rows' \in [Sessions -> SUBSET Row]
  BY DEF SyncConf, ReadTable, WriteTable, IInv, TypeOK
<1>4. req[s] \in [op : Ops, key : issued, ip : Nat] /\ issued \subseteq Keys
  BY <1>1 DEF IInv, ReqInv, TypeOK
<1>5. table' \subseteq Row
  <2>1. Edited(rows[s], req[s]) \subseteq Row
    BY <1>4, EditedIsTable DEF IInv, TypeOK
  <2> QED
    BY <2>1 DEF SyncConf, ReadTable, WriteTable, IInv, TypeOK
<1>6. refused' \subseteq issued
  BY <1>4 DEF SyncConf, ReadTable, WriteTable, IInv, TypeOK
<1>7. TypeOK'
  <2>1. pc' \in [Sessions -> Stages]
    BY <1>1 DEF IInv, TypeOK, Stages
  <2> QED
    BY <1>1, <1>2, <1>3, <1>5, <1>6, <2>1 DEF IInv, TypeOK
<1>8. ReqInv'
  BY <1>1 DEF IInv, TypeOK, ReqInv
<1>9. LinesInv'
  BY <1>1 DEF IInv, LinesInv, OnePerLine
<1>10. TextInv'
  BY <1>1 DEF IInv, TextInv, TypeOK
<1> QED
  BY <1>7, <1>8, <1>9, <1>10 DEF IInv

\* An operation ends: with its answer, without its client, or broken off.
LEMMA EndStep ==
    ASSUME IInv, NEW s \in Sessions, Return(s) \/ NotFound(s) \/ Break(s)
    PROVE  IInv'
<1>1. /\ pc[s] # "idle" /\ pc' = [pc EXCEPT ![s] = "idle"]
      /\ req' = [req EXCEPT ![s] = None]
      /\ text' = [text EXCEPT ![s] = {}]
      /\ rows' = [rows EXCEPT ![s] = {}]
      /\ \E how \in {"ok", "failed"} : told' = [told EXCEPT ![s] = how]
      /\ UNCHANGED <<conf, live, table, may, issued, refused>>
  BY DEF Return, NotFound, Break, Leave, Goto
<1>2. req[s].key \in issued
  BY <1>1 DEF IInv, ReqInv
<1>3. removed' \subseteq issued /\ torn' \subseteq issued
  BY <1>2 DEF Return, NotFound, Break, IInv, TypeOK
<1>4. TypeOK'
  BY <1>1, <1>3 DEF IInv, TypeOK, Stages
<1>5. ReqInv'
  BY <1>1 DEF IInv, TypeOK, ReqInv
<1>6. LinesInv'
  BY <1>1 DEF IInv, TypeOK, LinesInv, OnePerLine
<1>7. TextInv'
  BY <1>1 DEF IInv, TextInv, TypeOK
<1> QED
  BY <1>4, <1>5, <1>6, <1>7 DEF IInv

LEMMA NextIInv == IInv /\ [Next]_vars => IInv'
<1> SUFFICES ASSUME IInv, [Next]_vars PROVE IInv'
  OBVIOUS
<1>1. CASE Next
  BY <1>1, AddClientStep, EnableClientStep, DropClientStep, LookUpStep, AppendSectionStep,
     ReplaceConfigStep, TableStep, EndStep DEF Next
<1>2. CASE UNCHANGED vars
  BY <1>2 DEF vars, IInv, TypeOK, ReqInv, LinesInv, OnePerLine, TextInv
<1> QED
  BY <1>1, <1>2

\* In every reachable state requests, sections and the texts that sessions hold
\* are what the code's order of commands makes them.
THEOREM VpnIInv == Spec => []IInv
BY InitIInv, NextIInv, PTL DEF Spec

\* The model never leaves its types: sections and rows stay well formed however
\* sessions interleave and connections break.
THEOREM VpnTypeCorrect == Spec => []TypeOK
<1>1. IInv => TypeOK
  BY DEF IInv
<1> QED
  BY <1>1, VpnIInv, PTL

-----------------------------------------------------------------------------
(* The refinement *)

USE NoneAssumption

Outcomes == <<KeysOf(conf), Requests, told>>

LEMMA InitMaps == Init => Abstract!Init
<1> SUFFICES ASSUME Init PROVE Abstract!Init
  OBVIOUS
<1>1. KeysOf(conf) \subseteq Keys
  BY DEF Init, KeysOf, Section
<1> QED
  BY <1>1 DEF Init, Abstract!Init, Requests

\* What PeerSet sees of a session's request.
Seen(r, stage) ==
    [op |-> r.op, key |-> r.key, done |-> stage \notin {"lookup", "append", "replace"}]

LEMMA SeenIsRequest ==
    ASSUME NEW r \in [op : Ops, key : Keys, ip : Nat], NEW stage
    PROVE  Seen(r, stage) \in Abstract!Request /\ Seen(r, stage) # None
<1>1. (stage \notin {"lookup", "append", "replace"}) \in BOOLEAN
  OBVIOUS
<1>2. Seen(r, stage) \in [op : Ops, key : Keys, done : BOOLEAN]
  BY <1>1 DEF Seen
<1> QED
  BY <1>2 DEF Abstract!Request, Ops, Appends

LEMMA SeenFields ==
    ASSUME NEW r, NEW stage
    PROVE  /\ Seen(r, stage).op = r.op /\ Seen(r, stage).key = r.key
           /\ stage \in {"lookup", "append", "replace"} => ~Seen(r, stage).done
           /\ stage \notin {"lookup", "append", "replace"} => Seen(r, stage).done
<1>1. Seen(r, stage).op = r.op /\ Seen(r, stage).key = r.key
  BY DEF Seen
<1>2. Seen(r, stage).done = (stage \notin {"lookup", "append", "replace"})
  BY Zenon DEF Seen
<1> QED
  BY <1>1, <1>2, Zenon

LEMMA RequestAt ==
    ASSUME IInv, NEW s \in Sessions, pc[s] # "idle"
    PROVE  /\ Requests[s] = Seen(req[s], pc[s])
           /\ Requests[s] # None
<1>1. req[s] \in [op : Ops, key : Keys, ip : Nat]
  BY DEF IInv, ReqInv, TypeOK
<1> QED
  BY <1>1, SeenIsRequest DEF Requests, Seen

LEMMA BeginMaps ==
    ASSUME IInv, IInv', NEW s \in Sessions,
           AddClient(s) \/ EnableClient(s) \/ DropClient(s)
    PROVE  Abstract!Begin(s)
<1>1. /\ pc[s] = "idle" /\ UNCHANGED <<conf, told>>
      /\ \E stage \in {"lookup", "append", "replace"} : pc' = [pc EXCEPT ![s] = stage]
      /\ \E r : req' = [req EXCEPT ![s] = r]
  BY DEF AddClient, EnableClient, DropClient, Begin, Goto
<1>2. pc'[s] \in {"lookup", "append", "replace"} /\ pc'[s] # "idle"
  BY <1>1 DEF IInv, TypeOK
<1>3. Requests'[s] \in Abstract!Request /\ ~Requests'[s].done
  <2>1. req'[s] \in [op : Ops, key : Keys, ip : Nat]
    BY <1>2 DEF IInv, ReqInv, TypeOK
  <2>2. Requests'[s] = Seen(req'[s], pc'[s])
    BY <1>2 DEF Requests, Seen
  <2> QED
    BY <1>2, <2>1, <2>2, SeenIsRequest, SeenFields
<1>4. Requests' = [Requests EXCEPT ![s] = Requests'[s]]
  <2>1. \A t \in Sessions \ {s} : pc'[t] = pc[t] /\ req'[t] = req[t]
    BY <1>1 DEF IInv, TypeOK
  <2>2. \A t \in Sessions \ {s} : Requests'[t] = Requests[t]
    BY <2>1 DEF Requests
  <2>3. /\ Requests = [t \in Sessions |-> Requests[t]]
        /\ Requests' = [t \in Sessions |-> Requests'[t]]
    BY DEF Requests
  <2> QED
    BY <2>2, <2>3
<1>5. Requests[s] = None
  BY <1>1 DEF Requests
<1> QED
  BY <1>1, <1>3, <1>4, <1>5 DEF Abstract!Begin

\* The echo >> of add_client and toggle_client adds its own peer and no other.
LEMMA AppendedKeys ==
    ASSUME NEW c, NEW k, NEW ip
    PROVE  KeysOf(Appended(c, k, ip)) = KeysOf(c) \cup {k}
<1> DEFINE new == [key |-> k, ip |-> ip, at |-> LastLine(c) + 1]
<1>1. Appended(c, k, ip) = c \cup {new} /\ new.key = k
  BY DEF Appended
<1> HIDE DEF new
<1> QED
  BY <1>1 DEF KeysOf

\* Appending adds the session's own peer; replacing takes it out, because the
\* text that is edited is what the config still contains.
LEMMA ApplyMaps ==
    ASSUME IInv, Exclusive, NEW s \in Sessions, AppendSection(s) \/ ReplaceConfig(s)
    PROVE  Abstract!Apply(s)
<1>1. /\ pc[s] \in {"append", "replace"} /\ pc' = [pc EXCEPT ![s] = "sync"]
      /\ UNCHANGED <<req, told>>
  BY DEF AppendSection, ReplaceConfig, Goto
<1>2. /\ Requests[s] # None /\ ~Requests[s].done
      /\ Requests[s].op = req[s].op /\ Requests[s].key = req[s].key
  <2>1. Requests[s] # None /\ Requests[s] = Seen(req[s], pc[s])
    BY <1>1, RequestAt
  <2> QED
    BY <1>1, <2>1, SeenFields
<1>3. Requests' = [Requests EXCEPT ![s].done = TRUE]
  BY <1>1 DEF Requests, IInv, TypeOK
<1>4. KeysOf(conf)' = IF Requests[s].op \in {"add", "enable"}
                     THEN KeysOf(conf) \cup {Requests[s].key}
                     ELSE KeysOf(conf) \ {Requests[s].key}
  <2>1. CASE AppendSection(s)
    <3>1. req[s].op \in {"add", "enable"}
      BY <2>1 DEF AppendSection, IInv, ReqInv, Appends
    <3>2. KeysOf(conf)' = KeysOf(conf) \cup {req[s].key}
      BY <2>1, AppendedKeys DEF AppendSection, KeysOf
    <3> QED
      BY <3>1, <3>2, <1>2
  <2>2. CASE ReplaceConfig(s)
    <3>1. req[s].op \notin {"add", "enable"} /\ text[s] = conf
      BY <2>2 DEF ReplaceConfig, IInv, ReqInv, TextInv
    <3> QED
      BY <2>2, <3>1, <1>2 DEF ReplaceConfig, Without, KeysOf
  <2> QED
    BY <2>1, <2>2
<1> QED
  BY <1>1, <1>2, <1>3, <1>4 DEF Abstract!Apply

LEMMA EndMaps ==
    ASSUME IInv, NEW s \in Sessions, Return(s) \/ NotFound(s) \/ Break(s)
    PROVE  Abstract!Succeed(s) \/ Abstract!Fail(s)
<1>1. /\ pc[s] # "idle" /\ pc' = [pc EXCEPT ![s] = "idle"]
      /\ req' = [req EXCEPT ![s] = None] /\ conf' = conf
      /\ \/ pc[s] = "reply" /\ told' = [told EXCEPT ![s] = "ok"]
         \/ told' = [told EXCEPT ![s] = "failed"]
  BY DEF Return, NotFound, Break, Leave, Goto
<1>2. Requests[s] # None /\ (pc[s] = "reply" => Requests[s].done)
  <2>1. Requests[s] # None /\ Requests[s] = Seen(req[s], pc[s])
    BY <1>1, RequestAt
  <2> QED
    BY <2>1, SeenFields
<1>3. Requests' = [Requests EXCEPT ![s] = None]
  BY <1>1 DEF Requests, IInv, TypeOK
<1>4. KeysOf(conf)' = KeysOf(conf)
  BY <1>1 DEF KeysOf
<1> QED
  BY <1>1, <1>2, <1>3, <1>4 DEF Abstract!Succeed, Abstract!Fail

LEMMA OthersStutter ==
    ASSUME IInv, NEW s \in Sessions,
           LookUp(s) \/ SyncConf(s) \/ ReadTable(s) \/ WriteTable(s)
    PROVE  UNCHANGED Outcomes
<1>1. CASE LookUp(s)
  <2>1. PICK r \in table : req' = [req EXCEPT ![s].ip = r.ip]
    BY <1>1 DEF LookUp
  <2>2. /\ pc[s] = "lookup" /\ pc' = [pc EXCEPT ![s] = "append"]
        /\ UNCHANGED <<conf, told>>
    BY <1>1 DEF LookUp, Goto
  <2>3. req[s] \in [op : Ops, key : issued, ip : Nat]
    BY <2>2 DEF IInv, ReqInv
  <2>4. Requests' = Requests
    BY <2>1, <2>2, <2>3 DEF Requests, IInv, TypeOK
  <2> QED
    BY <2>2, <2>4 DEF Outcomes, KeysOf
<1>2. CASE SyncConf(s) \/ ReadTable(s) \/ WriteTable(s)
  <2>1. /\ pc[s] \in {"sync", "read", "write"}
        /\ \E stage \in {"read", "write", "reply"} : pc' = [pc EXCEPT ![s] = stage]
        /\ UNCHANGED <<conf, req, told>>
    BY <1>2 DEF SyncConf, ReadTable, WriteTable, Goto
  <2>2. Requests' = Requests
    BY <2>1 DEF Requests, IInv, TypeOK
  <2> QED
    BY <2>1, <2>2 DEF Outcomes, KeysOf
<1> QED
  BY <1>1, <1>2

LEMMA StepMaps ==
    ASSUME IInv, IInv', Exclusive, [Next]_vars
    PROVE  [Abstract!Next]_Outcomes
<1>1. CASE UNCHANGED vars
  BY <1>1 DEF vars, Outcomes, KeysOf, Requests
<1>2. CASE Next
  BY <1>2, BeginMaps, ApplyMaps, EndMaps, OthersStutter DEF Next, Abstract!Next
<1> QED
  BY <1>1, <1>2

\* As long as nobody else is at work on a server while a session rewrites its
\* config, requests act on the set of peers one at a time: no peer is lost or
\* brought back by another's request, wherever connections break.
THEOREM VpnActsAsSet == ASSUME Exclusive PROVE Spec => PeersActAsSet
<1>1. Init => Abstract!Init
  BY InitMaps
<1>2. IInv /\ IInv' /\ [Next]_vars => [Abstract!Next]_Outcomes
  BY StepMaps
<1> QED
  BY <1>1, <1>2, VpnIInv, PTL DEF Spec, PeersActAsSet, Abstract!Spec, Outcomes

-----------------------------------------------------------------------------
(* The order of the addresses *)

Ascending(c) == \A p, q \in c : p.at < q.at => p.ip < q.ip

AddsAndRemoves == Alone /\ \A s \in Sessions : may[s] \subseteq {"add", "remove"}

\* What the one session read still holds, and the address it was given comes
\* next.
AscInv == AddsAndRemoves =>
    /\ Ascending(conf)
    /\ \A s \in Sessions :
          Ascending(text[s]) /\ (pc[s] = "append" => req[s].ip = NextIp(conf))

\* The address after the last one is greater than all in an ascending config.
LEMMA NextIpIsGreater ==
    ASSUME Kind = "awg", NEW c \in SUBSET Section, OnePerLine(c), Ascending(c)
    PROVE  \A q \in c : q.ip < NextIp(c)
<1> SUFFICES ASSUME NEW q \in c PROVE q.ip < NextIp(c)
  OBVIOUS
<1>1. Last(c) \in c /\ q.at <= Last(c).at
  BY LastExists
<1>2. /\ q.at \in 1..MaxLine /\ Last(c).at \in 1..MaxLine
      /\ q.ip \in Nat /\ Last(c).ip \in Nat
  BY <1>1 DEF Section
<1>3. q.ip <= Last(c).ip
  BY <1>1, <1>2 DEF OnePerLine, Ascending
<1>4. Last(c).ip < NextIp(c)
  BY <1>1, <1>2 DEF NextIp, LastIp
<1> QED
  BY <1>2, <1>3, <1>4, LineType

\* The one session at work is the only one that leaves idle.
LEMMA OthersIdle ==
    ASSUME IInv, Alone, NEW s \in Sessions, NEW t \in Sessions, s # t, pc[s] # "idle"
    PROVE  pc[t] = "idle"
<1>1. may[s] # {} /\ (pc[t] # "idle" => may[t] # {})
  BY DEF IInv, ReqInv
<1> QED
  BY <1>1 DEF Alone

LEMMA AppendAscends ==
    ASSUME IInv, AscInv, AddsAndRemoves, Kind = "awg", NEW s \in Sessions, AppendSection(s)
    PROVE  Ascending(conf')
<1>1. /\ pc[s] = "append" /\ req[s].ip = NextIp(conf) /\ Ascending(conf)
      /\ conf' = conf \cup {[key |-> req[s].key, ip |-> req[s].ip, at |-> LastLine(conf) + 1]}
  BY DEF AppendSection, Appended, AscInv
<1>2. \A q \in conf : q.ip < NextIp(conf)
  BY <1>1, NextIpIsGreater DEF IInv, TypeOK, LinesInv
<1>3. /\ \A q \in conf : q.at <= LastLine(conf) /\ q.at \in Nat
      /\ LastLine(conf) \in Nat
  BY LineType DEF IInv, TypeOK, Section
<1> QED
  BY <1>1, <1>2, <1>3 DEF Ascending

LEMMA NextAscInv ==
    ASSUME IInv, AscInv, Kind = "awg", [Next]_vars
    PROVE  AscInv'
<1> SUFFICES ASSUME AddsAndRemoves' PROVE
        /\ Ascending(conf')
        /\ \A t \in Sessions :
              Ascending(text'[t]) /\ (pc'[t] = "append" => req'[t].ip = NextIp(conf'))
  BY DEF AscInv, Ascending, NextIp, LastIp, Last
<1>1. may' = may
  BY DEF Next, vars, AddClient, EnableClient, DropClient, LookUp, NotFound, AppendSection,
     ReplaceConfig, SyncConf, ReadTable, WriteTable, Return, Break
<1>2. AddsAndRemoves
  BY <1>1 DEF AddsAndRemoves, Alone
<1>3. /\ Ascending(conf)
      /\ \A t \in Sessions :
            Ascending(text[t]) /\ (pc[t] = "append" => req[t].ip = NextIp(conf))
  BY <1>2 DEF AscInv
<1>4. ASSUME NEW s \in Sessions, AppendSection(s) \/ ReplaceConfig(s)
      PROVE  \A t \in Sessions : pc'[t] # "append"
  <2>1. pc[s] # "idle" /\ pc' = [pc EXCEPT ![s] = "sync"]
    BY <1>4 DEF AppendSection, ReplaceConfig, Goto
  <2> QED
    BY <2>1, <1>2, OthersIdle DEF AddsAndRemoves, IInv, TypeOK
<1>5. ASSUME NEW s \in Sessions, AppendSection(s)
      PROVE  Ascending(conf') /\ \A t \in Sessions : Ascending(text'[t])
  BY <1>5, <1>2, <1>3, AppendAscends DEF AppendSection
<1>6. ASSUME NEW s \in Sessions, ReplaceConfig(s)
      PROVE  Ascending(conf') /\ \A t \in Sessions : Ascending(text'[t])
  BY <1>6, <1>3 DEF ReplaceConfig, Without, Ascending
<1>7. ASSUME NEW s \in Sessions, AddClient(s)
      PROVE  /\ conf' = conf /\ text' = text
             /\ \A t \in Sessions : pc'[t] = "append" => req'[t].ip = NextIp(conf)
  BY <1>7, <1>3 DEF AddClient, Begin, Goto, IInv, TypeOK
<1>8. ASSUME NEW s \in Sessions, DropClient(s)
      PROVE  /\ conf' = conf /\ \A t \in Sessions : Ascending(text'[t])
             /\ \A t \in Sessions : pc'[t] = "append" => req'[t].ip = NextIp(conf)
  BY <1>8, <1>3 DEF DropClient, Begin, Goto, IInv, TypeOK
<1>9. ASSUME NEW s \in Sessions, EnableClient(s) \/ LookUp(s) \/ NotFound(s)
      PROVE  FALSE
  <2>1. EnableClient(s) => "enable" \in may[s]
    BY DEF EnableClient, Begin
  <2>2. pc[s] = "lookup" => "enable" \in may[s]
    BY DEF IInv, ReqInv
  <2> QED
    BY <1>9, <2>1, <2>2, <1>2 DEF AddsAndRemoves, LookUp, NotFound
<1>10. ASSUME NEW s \in Sessions,
              SyncConf(s) \/ ReadTable(s) \/ WriteTable(s) \/ Return(s) \/ Break(s)
       PROVE  /\ conf' = conf /\ \A t \in Sessions : Ascending(text'[t])
              /\ \A t \in Sessions : pc'[t] = "append" => req'[t].ip = NextIp(conf)
  <2>1. CASE SyncConf(s) \/ ReadTable(s) \/ WriteTable(s)
    BY <2>1, <1>3 DEF SyncConf, ReadTable, WriteTable, Goto, IInv, TypeOK
  <2>2. CASE Return(s) \/ Break(s)
    BY <2>2, <1>3 DEF Return, Break, Leave, Goto, IInv, TypeOK, Ascending
  <2> QED
    BY <1>10, <2>1, <2>2
<1>11. CASE UNCHANGED vars
  BY <1>11, <1>3 DEF vars
<1>12. CASE Next
  BY <1>12, <1>3, <1>4, <1>5, <1>6, <1>7, <1>8, <1>9, <1>10 DEF Next
<1> QED
  BY <1>11, <1>12

\* In an AmneziaWG config whose addresses ascend, a session that works alone and
\* only adds and removes clients never hands out an address in use, nor any
\* address that is not beyond all those in use.
THEOREM VpnAddressesAscend ==
    ASSUME Kind = "awg", \A c \in Confs : Ascending(c)
    PROVE  Spec => []AddressesAscend
<1>1. Init => AscInv
  BY DEF Init, AscInv, Ascending
<1>2. IInv /\ AscInv /\ [Next]_vars => AscInv'
  BY NextAscInv
<1>3. AscInv => AddressesAscend
  BY DEF AscInv, AddsAndRemoves, Ascending, AddressesAscend
<1> QED
  BY <1>1, <1>2, <1>3, VpnIInv, PTL DEF Spec
-----------------------------------------------------------------------------
(* A session that works alone *)

TableKeys(t) == {r.key : r \in t}

\* The tables name known clients only, and nobody's client is gone unless
\* somebody removes.
KnownInv ==
    /\ TableKeys(table) \subseteq issued
    /\ \A s \in Sessions : TableKeys(rows[s]) \subseteq issued
    /\ removed # {} => \E s \in Sessions : "remove" \in may[s]

\* What the session read is still there when it writes.
Holds(s) ==
    /\ pc[s] = "replace" => text[s] = conf
    /\ pc[s] = "write" => rows[s] = table

\* A removed client is in neither file, and the session does not bring it back:
\* to enable it, it would have had to find its row.
Gone(s) ==
    /\ RemovedStaysOut
    /\ pc[s] \notin {"idle", "lookup"} /\ req[s].op \in Appends => req[s].key \notin removed
    /\ pc[s] = "reply" /\ req[s].op = "remove" => req[s].key \notin TableKeys(table)

\* Table and interface say of a client what the config says; the interface, of
\* those that it was last told in a config it took.
RowsFit(k) == \A r \in table : r.key = k => (r.on <=> k \in KeysOf(conf))
LiveFits(k) == k \in refused \/ (k \in live <=> k \in KeysOf(conf))

\* They do, but for the client that is worked on and those whose last operation
\* broke off ...
OthersFit(s) ==
    \A k \in issued \ torn :
        pc[s] \in {"idle", "lookup"} \/ k # req[s].key => RowsFit(k) /\ LiveFits(k)

\* ... and what is worked on comes into agreement one command after another.
OwnFits(s) ==
    /\ pc[s] \in {"append", "sync", "read", "write"} /\ req[s].op = "add" =>
          req[s].key \notin TableKeys(table)
    /\ pc[s] \in {"sync", "read", "write", "reply"} =>
          (req[s].key \in KeysOf(conf) <=> req[s].op \in Appends)
    /\ pc[s] \in {"read", "write", "reply"} => LiveFits(req[s].key)
    /\ pc[s] = "reply" => RowsFit(req[s].key)

Lone(s) == \A t \in Sessions \ {s} : may[t] = {}
WorkInv(s) == Holds(s) /\ Gone(s) /\ OthersFit(s) /\ OwnFits(s)
LoneInv == \A s \in Sessions : Lone(s) => WorkInv(s)

\* Editing a table (the end of add_client, toggle_client and remove_client)
\* concerns the rows of one client.
LEMMA EditedRows ==
    ASSUME NEW t \in SUBSET Row, NEW r \in [op : Ops, key : Keys, ip : Nat],
           r.op = "add" => r.key \notin TableKeys(t)
    PROVE  /\ \A x \in Row : x.key # r.key => (x \in Edited(t, r) <=> x \in t)
           /\ \A x \in Edited(t, r) : x.key = r.key => (x.on <=> r.op \in Appends)
           /\ r.op = "remove" => r.key \notin TableKeys(Edited(t, r))
           /\ TableKeys(Edited(t, r)) \subseteq TableKeys(t) \cup {r.key}
           /\ r.op # "add" => TableKeys(Edited(t, r)) \subseteq TableKeys(t)
<1>1. CASE r.op = "add"
  <2> DEFINE new == [key |-> r.key, ip |-> r.ip, on |-> TRUE]
  <2>1. Edited(t, r) = t \cup {new} /\ new.key = r.key /\ new.on
    BY <1>1 DEF Edited
  <2>2. \A x \in t : x.key # r.key
    BY <1>1 DEF TableKeys
  <2> HIDE DEF new
  <2> QED
    BY <1>1, <2>1, <2>2 DEF TableKeys, Appends
<1>2. CASE r.op = "remove"
  <2>1. Edited(t, r) = {x \in t : x.key # r.key}
    BY <1>2 DEF Edited
  <2> QED
    BY <1>2, <2>1 DEF TableKeys
<1>3. CASE r.op \in {"enable", "disable"}
  <2> DEFINE mark(x) == IF x.key = r.key THEN [x EXCEPT !.on = r.op = "enable"] ELSE x
  <2>1. Edited(t, r) = {mark(x) : x \in t}
    BY <1>3 DEF Edited
  <2>2. ASSUME NEW x \in t
        PROVE  /\ mark(x).key = x.key
               /\ x.key # r.key => mark(x) = x
               /\ x.key = r.key => (mark(x).on <=> r.op \in Appends)
    <3>1. x \in Row
      OBVIOUS
    <3>2. \A v \in BOOLEAN : [x EXCEPT !.on = v].key = x.key /\ [x EXCEPT !.on = v].on = v
      BY <3>1 DEF Row
    <3>3. (r.op = "enable") \in BOOLEAN /\ ((r.op = "enable") <=> r.op \in Appends)
      BY <1>3 DEF Appends
    <3> QED
      BY <3>2, <3>3
  <2> HIDE DEF mark
  <2> QED
    BY <1>3, <2>1, <2>2 DEF TableKeys
<1> QED
  BY <1>1, <1>2, <1>3 DEF Ops, Appends

LEMMA NextKnownInv == IInv /\ KnownInv /\ [Next]_vars => KnownInv'
<1> SUFFICES ASSUME IInv, KnownInv, [Next]_vars PROVE KnownInv'
  OBVIOUS
<1>1. may' = may /\ issued \subseteq issued'
  BY DEF Next, vars, AddClient, EnableClient, DropClient, LookUp, NotFound, AppendSection,
     ReplaceConfig, SyncConf, ReadTable, WriteTable, Return, Break
<1>2. TableKeys(table') \subseteq issued'
  <2>1. ASSUME NEW s \in Sessions, WriteTable(s) PROVE TableKeys(table') \subseteq issued
    <3>1. /\ req[s] \in [op : Ops, key : issued, ip : Nat] /\ issued \subseteq Keys
          /\ TableKeys(rows[s]) \subseteq issued
      BY <2>1 DEF WriteTable, IInv, ReqInv, TypeOK, KnownInv
    <3>2. TableKeys(Edited(rows[s], req[s])) \subseteq TableKeys(rows[s]) \cup {req[s].key}
      <4>1. CASE req[s].op = "add"
        BY <4>1 DEF Edited, TableKeys
      <4>2. CASE req[s].op # "add"
        BY <3>1, <4>2, EditedRows DEF IInv, TypeOK
      <4> QED
        BY <4>1, <4>2
    <3> QED
      BY <2>1, <3>1, <3>2 DEF WriteTable
  <2>2. table' = table \/ \E s \in Sessions : WriteTable(s)
    BY DEF Next, vars, AddClient, EnableClient, DropClient, LookUp, NotFound, AppendSection,
       ReplaceConfig, SyncConf, ReadTable, Return, Break
  <2> QED
    BY <1>1, <2>1, <2>2 DEF KnownInv
<1>3. \A s \in Sessions : TableKeys(rows'[s]) \subseteq issued'
  <2>1. \/ rows' = rows
        \/ \E s \in Sessions : rows' = [rows EXCEPT ![s] = table] \/ rows' = [rows EXCEPT ![s] = {}]
    BY DEF Next, vars, AddClient, EnableClient, DropClient, LookUp, NotFound, AppendSection,
       ReplaceConfig, SyncConf, ReadTable, WriteTable, Return, Break, Leave
  <2>2. TableKeys({}) = {}
    BY DEF TableKeys
  <2>3. ASSUME NEW s \in Sessions
        PROVE  rows'[s] = rows[s] \/ rows'[s] = table \/ rows'[s] = {}
    BY <2>1 DEF IInv, TypeOK
  <2>4. TAKE s \in Sessions
  <2>5. TableKeys(rows[s]) \subseteq issued /\ TableKeys(table) \subseteq issued
    BY DEF KnownInv
  <2>6. CASE rows'[s] = rows[s]
    BY <1>1, <2>5, <2>6
  <2>7. CASE rows'[s] = table
    BY <1>1, <2>5, <2>7
  <2>8. CASE rows'[s] = {}
    BY <2>2, <2>8
  <2> QED
    BY <2>3, <2>6, <2>7, <2>8
<1>4. removed' # {} => \E s \in Sessions : "remove" \in may'[s]
  <2>1. removed' = removed \/ \E s \in Sessions : pc[s] = "reply" /\ req[s].op = "remove"
    BY DEF Next, vars, AddClient, EnableClient, DropClient, LookUp, NotFound, AppendSection,
       ReplaceConfig, SyncConf, ReadTable, WriteTable, Return, Break
  <2> QED
    BY <1>1, <2>1 DEF KnownInv, IInv, ReqInv
<1> QED
  BY <1>2, <1>3, <1>4 DEF KnownInv

\* Operations that start touch neither file.
LEMMA BeginWorks ==
    ASSUME IInv, KnownInv, NEW s \in Sessions, WorkInv(s),
           AddClient(s) \/ EnableClient(s) \/ DropClient(s)
    PROVE  WorkInv(s)'
<1>1. PICK k \in Keys : k \in issued' /\
          \/ /\ k \notin issued /\ issued' = issued \cup {k} /\ text' = text
             /\ pc'[s] = "append" /\ req'[s].op = "add" /\ req'[s].key = k
          \/ /\ issued' = issued /\ text' = text
             /\ pc'[s] = "lookup" /\ req'[s].op = "enable" /\ req'[s].key = k
          \/ /\ issued' = issued /\ text'[s] = conf
             /\ pc'[s] = "replace" /\ req'[s].op \in {"disable", "remove"} /\ req'[s].key = k
  <2>1. issued \subseteq Keys
    BY DEF IInv, TypeOK
  <2> QED
    BY <2>1 DEF AddClient, EnableClient, DropClient, Begin, Goto, IInv, TypeOK
<1>2. pc[s] = "idle" /\ UNCHANGED <<conf, live, table, removed, torn, refused>>
  BY DEF AddClient, EnableClient, DropClient, Begin
<1>3. Holds(s)'
  BY <1>1, <1>2 DEF Holds
<1>4. Gone(s)'
  <2>1. removed \subseteq issued
    BY DEF IInv, TypeOK
  <2> QED
    BY <1>1, <1>2, <2>1 DEF WorkInv, Gone, RemovedStaysOut, KeysOf, Appends
<1>5. OthersFit(s)'
  BY <1>1, <1>2 DEF WorkInv, OthersFit, RowsFit, LiveFits, KeysOf
<1>6. OwnFits(s)'
  BY <1>1, <1>2 DEF OwnFits, KnownInv, TableKeys
<1> QED
  BY <1>3, <1>4, <1>5, <1>6 DEF WorkInv

LEMMA LookUpWorks ==
    ASSUME IInv, NEW s \in Sessions, WorkInv(s), LookUp(s)
    PROVE  WorkInv(s)'
<1>1. /\ pc[s] = "lookup" /\ pc'[s] = "append"
      /\ req'[s].key = req[s].key /\ req'[s].op = req[s].op /\ req[s].op = "enable"
      /\ req[s].key \in TableKeys(table)
      /\ UNCHANGED <<conf, live, table, issued, removed, torn, refused>>
  BY DEF LookUp, Goto, IInv, ReqInv, TypeOK, TableKeys
<1>2. Holds(s)'
  BY <1>1 DEF Holds
<1>3. Gone(s)'
  BY <1>1 DEF WorkInv, Gone, RemovedStaysOut, KeysOf, TableKeys
<1>4. OthersFit(s)'
  BY <1>1 DEF WorkInv, OthersFit, RowsFit, LiveFits, KeysOf
<1>5. OwnFits(s)'
  BY <1>1 DEF OwnFits
<1> QED
  BY <1>2, <1>3, <1>4, <1>5 DEF WorkInv

\* The config changes by the client that is worked on.
LEMMA ConfigWorks ==
    ASSUME IInv, NEW s \in Sessions, WorkInv(s), AppendSection(s) \/ ReplaceConfig(s)
    PROVE  WorkInv(s)'
<1>1. /\ pc[s] \in {"append", "replace"} /\ pc'[s] = "sync"
      /\ pc[s] = "append" => req[s].op \in Appends
      /\ UNCHANGED <<live, table, req, issued, removed, torn, refused>>
  BY DEF AppendSection, ReplaceConfig, Goto, IInv, ReqInv, TypeOK
<1>2. /\ req[s].op \in Appends => KeysOf(conf') = KeysOf(conf) \cup {req[s].key}
      /\ req[s].op \notin Appends => KeysOf(conf') = KeysOf(conf) \ {req[s].key}
  <2>1. CASE AppendSection(s)
    BY <2>1, <1>1, AppendedKeys DEF AppendSection
  <2>2. CASE ReplaceConfig(s)
    <3>1. req[s].op \notin Appends /\ conf' = Without(conf, req[s].key)
      BY <2>2 DEF ReplaceConfig, IInv, ReqInv, WorkInv, Holds, Appends
    <3> QED
      BY <3>1 DEF Without, KeysOf
  <2> QED
    BY <2>1, <2>2
<1>3. Holds(s)'
  BY <1>1 DEF Holds
<1>4. Gone(s)'
  <2>1. removed \cap (KeysOf(conf') \cup TableKeys(table)) = {}
    BY <1>1, <1>2 DEF WorkInv, Gone, RemovedStaysOut, TableKeys
  <2> QED
    BY <1>1, <2>1 DEF WorkInv, Gone, RemovedStaysOut, KeysOf, TableKeys
<1>5. OthersFit(s)'
  <2>1. \A k \in issued \ torn : k # req[s].key =>
           /\ k \in KeysOf(conf') <=> k \in KeysOf(conf)
           /\ RowsFit(k) /\ LiveFits(k)
    BY <1>1, <1>2 DEF WorkInv, OthersFit
  <2> QED
    BY <1>1, <2>1 DEF OthersFit, RowsFit, LiveFits, KeysOf
<1>6. OwnFits(s)'
  <2>1. req[s].key \in KeysOf(conf') <=> req[s].op \in Appends
    BY <1>2
  <2>2. pc[s] = "replace" => req[s].op # "add"
    BY DEF IInv, ReqInv
  <2> QED
    BY <1>1, <2>1, <2>2 DEF WorkInv, OwnFits, KeysOf, TableKeys
<1> QED
  BY <1>3, <1>4, <1>5, <1>6 DEF WorkInv

\* Syncing and reading change no file.
LEMMA SyncWorks ==
    ASSUME IInv, NEW s \in Sessions, WorkInv(s), SyncConf(s) \/ ReadTable(s)
    PROVE  WorkInv(s)'
<1>1. /\ \/ /\ pc[s] = "sync" /\ pc'[s] = "read"
            /\ \/ live' = KeysOf(conf) /\ refused' = {}
               \/ live' = live /\ refused' = refused \cup {req[s].key}
         \/ /\ pc[s] = "read" /\ pc'[s] = "write" /\ rows'[s] = table
            /\ live' = live /\ refused' = refused
      /\ UNCHANGED <<conf, table, req, issued, removed, torn>>
  BY DEF SyncConf, ReadTable, Goto, IInv, TypeOK
<1>2. Holds(s)'
  BY <1>1 DEF Holds
<1>3. Gone(s)'
  BY <1>1 DEF WorkInv, Gone, RemovedStaysOut, KeysOf
<1>4. OthersFit(s)'
  BY <1>1 DEF WorkInv, OthersFit, RowsFit, LiveFits, KeysOf
<1>5. OwnFits(s)'
  BY <1>1 DEF WorkInv, OwnFits, LiveFits, KeysOf, TableKeys
<1> QED
  BY <1>2, <1>3, <1>4, <1>5 DEF WorkInv

LEMMA WriteWorks ==
    ASSUME IInv, NEW s \in Sessions, WorkInv(s), WriteTable(s)
    PROVE  WorkInv(s)'
<1>1. /\ pc[s] = "write" /\ pc'[s] = "reply"
      /\ UNCHANGED <<conf, live, req, issued, removed, torn, refused>>
      /\ table' = Edited(table, req[s])
  BY DEF WriteTable, Goto, IInv, TypeOK, WorkInv, Holds
<1>2. /\ table \subseteq Row /\ req[s] \in [op : Ops, key : Keys, ip : Nat]
      /\ req[s].op = "add" => req[s].key \notin TableKeys(table)
  BY <1>1 DEF IInv, TypeOK, ReqInv, WorkInv, OwnFits
<1>3. /\ \A x \in Row : x.key # req[s].key => (x \in table' <=> x \in table)
      /\ \A x \in table' : x.key = req[s].key => (x.on <=> req[s].op \in Appends)
      /\ req[s].op = "remove" => req[s].key \notin TableKeys(table')
      /\ TableKeys(table') \subseteq TableKeys(table) \cup {req[s].key}
      /\ req[s].op # "add" => TableKeys(table') \subseteq TableKeys(table)
  BY <1>1, <1>2, EditedRows
<1>4. table' \subseteq Row
  BY <1>1, <1>2, EditedIsTable
<1>5. Holds(s)'
  BY <1>1 DEF Holds
<1>6. Gone(s)'
  <2>1. req[s].op = "add" => req[s].key \notin removed
    BY <1>1 DEF WorkInv, Gone, Appends
  <2>2. removed \cap (KeysOf(conf) \cup TableKeys(table')) = {}
    BY <1>3, <2>1 DEF WorkInv, Gone, RemovedStaysOut, TableKeys
  <2> QED
    BY <1>1, <1>3, <2>2 DEF WorkInv, Gone, RemovedStaysOut, KeysOf, TableKeys
<1>7. OthersFit(s)'
  BY <1>1, <1>3, <1>4 DEF WorkInv, OthersFit, RowsFit, LiveFits, KeysOf
<1>8. OwnFits(s)'
  BY <1>1, <1>3 DEF WorkInv, OwnFits, RowsFit, LiveFits, KeysOf
<1> QED
  BY <1>5, <1>6, <1>7, <1>8 DEF WorkInv

\* An answered operation leaves its client in agreement; one that broke off
\* leaves it torn; one that found no client did nothing.
LEMMA EndWorks ==
    ASSUME IInv, NEW s \in Sessions, WorkInv(s), Return(s) \/ NotFound(s) \/ Break(s)
    PROVE  WorkInv(s)'
<1>1. /\ pc[s] # "idle" /\ pc'[s] = "idle"
      /\ UNCHANGED <<conf, live, table, issued, refused>>
      /\ \/ /\ pc[s] = "reply" /\ torn' = torn \ {req[s].key}
            /\ removed' = IF req[s].op = "remove" THEN removed \cup {req[s].key} ELSE removed
         \/ pc[s] = "lookup" /\ torn' = torn /\ removed' = removed
         \/ torn' = torn \cup {req[s].key} /\ removed' = removed
  BY DEF Return, NotFound, Break, Leave, Goto, IInv, TypeOK
<1>2. Holds(s)'
  BY <1>1 DEF Holds
<1>3. Gone(s)'
  <2>1. pc[s] = "reply" /\ req[s].op = "remove" =>
           req[s].key \notin KeysOf(conf) /\ req[s].key \notin TableKeys(table)
    BY DEF WorkInv, Gone, OwnFits, Appends
  <2>2. removed' \cap (KeysOf(conf) \cup TableKeys(table)) = {}
    BY <1>1, <2>1 DEF WorkInv, Gone, RemovedStaysOut, TableKeys
  <2> QED
    BY <1>1, <2>2 DEF Gone, RemovedStaysOut, KeysOf, TableKeys
<1>4. OthersFit(s)'
  <2>1. \A k \in issued \ torn' : RowsFit(k) /\ LiveFits(k)
    BY <1>1 DEF WorkInv, OthersFit, OwnFits
  <2> QED
    BY <1>1, <2>1 DEF OthersFit, RowsFit, LiveFits, KeysOf
<1>5. OwnFits(s)'
  BY <1>1 DEF OwnFits
<1> QED
  BY <1>2, <1>3, <1>4, <1>5 DEF WorkInv

LEMMA NextLoneInv == IInv /\ KnownInv /\ LoneInv /\ [Next]_vars => LoneInv'
<1> SUFFICES ASSUME IInv, KnownInv, LoneInv, [Next]_vars, NEW s \in Sessions, Lone(s)'
             PROVE  WorkInv(s)'
  BY DEF LoneInv
<1>1. may' = may
  BY DEF Next, vars, AddClient, EnableClient, DropClient, LookUp, NotFound, AppendSection,
     ReplaceConfig, SyncConf, ReadTable, WriteTable, Return, Break
<1>2. Lone(s) /\ WorkInv(s)
  BY <1>1 DEF Lone, LoneInv
<1>3. CASE UNCHANGED vars
  BY <1>2, <1>3 DEF vars, WorkInv, Holds, Gone, OthersFit, OwnFits, RowsFit, LiveFits,
     RemovedStaysOut, KeysOf, TableKeys
<1>4. CASE Next
  <2>1. PICK t \in Sessions :
           \/ AddClient(t) \/ EnableClient(t) \/ DropClient(t) \/ LookUp(t) \/ NotFound(t)
           \/ AppendSection(t) \/ ReplaceConfig(t) \/ SyncConf(t)
           \/ ReadTable(t) \/ WriteTable(t) \/ Return(t) \/ Break(t)
    BY <1>4 DEF Next
  <2>2. may[t] # {}
    <3>1. pc[t] # "idle" => may[t] # {}
      BY DEF IInv, ReqInv
    <3>2. pc[t] # "idle" \/ \E op \in Ops : op \in may[t]
      BY <2>1 DEF AddClient, EnableClient, DropClient, Begin, LookUp, NotFound, AppendSection,
         ReplaceConfig, SyncConf, ReadTable, WriteTable, Return, Break, Ops, Appends
    <3> QED
      BY <3>1, <3>2
  <2>3. t = s
    BY <1>2, <2>2 DEF Lone
  <2> QED
    BY <1>2, <2>1, <2>3, BeginWorks, LookUpWorks, ConfigWorks, SyncWorks, WriteWorks, EndWorks
<1> QED
  BY <1>3, <1>4

LEMMA VpnLoneInv == Spec => [](KnownInv /\ LoneInv)
<1>1. Init => KnownInv /\ LoneInv
  BY DEF Init, KnownInv, LoneInv, WorkInv, Holds, Gone, OthersFit, OwnFits, RowsFit, LiveFits,
     RemovedStaysOut, KeysOf, TableKeys
<1>2. IInv /\ KnownInv /\ LoneInv /\ [Next]_vars => (KnownInv /\ LoneInv)'
  BY NextKnownInv, NextLoneInv
<1> QED
  BY <1>1, <1>2, VpnIInv, PTL DEF Spec

\* Whoever works alone on a container leaves config, interface and table in
\* agreement about every client whose last operation did not break off,
\* whatever came before and wherever the connection broke; the interface, about
\* those of them that syncconf did not refuse together with an address beyond
\* 255, which it does until a config without one is loaded.
THEOREM VpnFilesAgree == Spec => []FilesAgree
<1>1. IInv /\ KnownInv /\ LoneInv => FilesAgree
  <2> SUFFICES ASSUME KnownInv, LoneInv, Alone, Quiet
               PROVE  /\ \A r \in table : r.key \notin torn => (r.on <=> r.key \in KeysOf(conf))
                      /\ \A k \in issued \ (torn \cup refused) :
                            k \in live <=> k \in KeysOf(conf)
    BY DEF FilesAgree
  <2>1. PICK s \in Sessions : Lone(s)
    BY DEF Alone, Lone
  <2>2. \A k \in issued \ torn : RowsFit(k) /\ LiveFits(k)
    BY <2>1 DEF LoneInv, WorkInv, OthersFit, Quiet
  <2>3. \A r \in table : r.key \in issued
    BY DEF KnownInv, TableKeys
  <2> QED
    BY <2>2, <2>3 DEF RowsFit, LiveFits
<1> QED
  BY <1>1, VpnIInv, VpnLoneInv, PTL

\* As long as nobody else is at work on a server while a session rewrites its
\* config, a confirmed removal is final: neither file names the client again.
THEOREM VpnRemovedStaysOut == ASSUME Exclusive PROVE Spec => []RemovedStaysOut
<1>1. IInv /\ KnownInv /\ LoneInv => RemovedStaysOut
  <2> SUFFICES ASSUME IInv, KnownInv, LoneInv, removed # {} PROVE RemovedStaysOut
    BY DEF RemovedStaysOut
  <2>1. PICK s \in Sessions : "remove" \in may[s]
    BY DEF KnownInv
  <2>2. ~(may[s] \subseteq Appends) /\ may \in Workloads
    BY <2>1 DEF Appends, IInv, TypeOK
  <2>3. Lone(s)
    BY <2>2 DEF Exclusive, Lone
  <2> QED
    BY <2>3 DEF LoneInv, WorkInv, Gone
<1> QED
  BY <1>1, VpnIInv, VpnLoneInv, PTL
=============================================================================
