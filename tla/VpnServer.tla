----------------------------- MODULE VpnServer ------------------------------
(***************************************************************************)
(* managers/awg_manager.py and managers/wireguard_manager.py: the peers of *)
(* one VPN container, as the panel's SSH sessions edit them.               *)
(*                                                                         *)
(* A container keeps two files and an interface: the WireGuard config, the *)
(* clientsTable, and what `syncconf` last loaded.  Every operation is a    *)
(* row of SSH commands, one step each here; the connection may break       *)
(* before any of them.  add_client and enabling append a section to the    *)
(* config (`>>`); remove_client and disabling read the file, drop the      *)
(* sections of the client and copy the rest back.  The table is always     *)
(* read, edited and copied back.                                           *)
(*                                                                         *)
(* Uploading to /tmp, docker cp and rm are one step.  Sessions share the    *)
(* file in /tmp, so that two that rewrite at once may also lose a text     *)
(* without the other's being wrong; the properties are about a session     *)
(* that rewrites alone.  Commands that reach the server succeed, but for    *)
(* syncconf, which refuses a file with an address that is none; the code   *)
(* ignores the exit status of all but the reads.                           *)
(***************************************************************************)
EXTENDS Integers, FiniteSets

CONSTANTS
    Keys,      \* public keys, which identify the clients
    Sessions,  \* SSH sessions
    None,      \* no request
    Kind,      \* "awg" or "wireguard": the two managers allocate differently
    Interface, \* last octet of the Address line in [Interface]
    Confs,     \* config files the panel may find
    Workloads, \* set of [Sessions -> SUBSET Ops]: who does what in a behaviour
    MaxLine    \* bound of the model: sections a file may have held

Appends == {"add", "enable"}
Ops == Appends \cup {"disable", "remove"}

\* A [Peer] section; at is its place in the file.
Section == [key : Keys, ip : Nat, at : 1..MaxLine]
Row == [key : Keys, ip : Nat, on : BOOLEAN]

ASSUME KindAssumption == Kind \in {"awg", "wireguard"} /\ Interface \in Nat
ASSUME MaxLineAssumption == MaxLine \in Nat
ASSUME WorkloadsAssumption == Workloads \subseteq [Sessions -> SUBSET Ops]
ASSUME ConfsAssumption ==
    \A c \in Confs :
        /\ c \subseteq Section /\ \A p, q \in c : p.at = q.at => p = q
        /\ \A p \in c : p.ip <= 255 \* the interface came up with it
ASSUME NoneAssumption ==
    None \notin [op : Ops, key : Keys, done : BOOLEAN]

VARIABLES
    conf,    \* the sections of the config file
    live,    \* keys of the peers on the interface
    table,   \* the rows of clientsTable
    may,     \* what each session does in this behaviour
    pc,      \* [Sessions -> its next command]
    req,     \* [Sessions -> operation, client and address it works on]
    text,    \* [Sessions -> the config it read]
    rows,    \* [Sessions -> the table it read]
    told,    \* [Sessions -> how its last operation ended]
    issued,  \* keys generated so far
    removed, \* keys whose removal was confirmed
    torn,    \* keys whose last operation broke off
    refused  \* keys of operations since syncconf last took the config

vars == <<conf, live, table, may, pc, req, text, rows, told, issued, removed, torn, refused>>

Stages == {"idle", "lookup", "append", "replace", "sync", "read", "write", "reply"}

TypeOK ==
    /\ conf \subseteq Section
    /\ live \subseteq Keys
    /\ table \subseteq Row
    /\ may \in Workloads
    /\ pc \in [Sessions -> Stages]
    /\ req \in [Sessions -> [op : Ops, key : Keys, ip : Nat] \cup {None}]
    /\ text \in [Sessions -> SUBSET Section]
    /\ rows \in [Sessions -> SUBSET Row]
    /\ told \in [Sessions -> {"none", "ok", "failed"}]
    /\ issued \subseteq Keys /\ removed \subseteq issued /\ torn \subseteq issued
    /\ refused \subseteq issued

-----------------------------------------------------------------------------
(* The config file *)

KeysOf(c) == {p.key : p \in c}

Last(c) == CHOOSE p \in c : \A q \in c : q.at <= p.at
LastLine(c) == IF c = {} THEN 0 ELSE Last(c).at

\* _get_used_ips()[-1]: the Address of the interface comes first in the file.
LastIp(c) == IF c = {} THEN Interface ELSE Last(c).ip

\* Mutant: the number of peers is taken for the last address.
NextIpByCount(c) == Interface + Cardinality(c) + 1

\* _get_next_ip.  Adding 3 or 2 at the end leaves the octet's range.
NextIp(c) ==
    LET last == LastIp(c)
    IN  CASE Kind = "awg" /\ last = 254 -> last + 3
          [] Kind = "awg" /\ last = 255 -> last + 2
          [] Kind = "wireguard" /\ last >= 254 -> 2
          [] OTHER -> last + 1

Appended(c, k, ip) == c \cup {[key |-> k, ip |-> ip, at |-> LastLine(c) + 1]}

\* Mutant: the sections that follow the client's go with it.
WithoutTail(c, k) == {p \in c : \A q \in c : q.key = k => p.at < q.at}

Without(c, k) == {p \in c : p.key # k}

-----------------------------------------------------------------------------
(* The clients table *)

\* Mutants: a disabled client stays marked as enabled; a removed client keeps
\* its row; a new row has no mark.
EditedAlwaysOn(t, r) ==
    CASE r.op = "add" -> t \cup {[key |-> r.key, ip |-> r.ip, on |-> TRUE]}
      [] r.op = "remove" -> {x \in t : x.key # r.key}
      [] OTHER -> {IF x.key = r.key THEN [x EXCEPT !.on = TRUE] ELSE x : x \in t}
EditedKeepsRow(t, r) ==
    CASE r.op = "add" -> t \cup {[key |-> r.key, ip |-> r.ip, on |-> TRUE]}
      [] OTHER -> {IF x.key = r.key THEN [x EXCEPT !.on = r.op = "enable"] ELSE x : x \in t}
EditedUnmarked(t, r) ==
    CASE r.op = "add" -> t \cup {[key |-> r.key, ip |-> r.ip]}
      [] r.op = "remove" -> {x \in t : x.key # r.key}
      [] OTHER -> {IF x.key = r.key THEN [x EXCEPT !.on = r.op = "enable"] ELSE x : x \in t}

Edited(t, r) ==
    CASE r.op = "add" -> t \cup {[key |-> r.key, ip |-> r.ip, on |-> TRUE]}
      [] r.op = "remove" -> {x \in t : x.key # r.key}
      [] OTHER -> {IF x.key = r.key THEN [x EXCEPT !.on = r.op = "enable"] ELSE x : x \in t}

-----------------------------------------------------------------------------
(* Operations *)

Init ==
    /\ conf \in Confs
    /\ live = KeysOf(conf)
    /\ table = {}
    /\ may \in Workloads
    /\ pc = [s \in Sessions |-> "idle"]
    /\ req = [s \in Sessions |-> None]
    /\ text = [s \in Sessions |-> {}]
    /\ rows = [s \in Sessions |-> {}]
    /\ told = [s \in Sessions |-> "none"]
    /\ issued = KeysOf(conf)
    /\ removed = {} /\ torn = {} /\ refused = {}

Goto(s, stage) == pc' = [pc EXCEPT ![s] = stage]

Begin(s, op, k, ip, stage) ==
    /\ pc[s] = "idle"
    /\ op \in may[s]
    /\ req' = [req EXCEPT ![s] = [op |-> op, key |-> k, ip |-> ip]]
    /\ Goto(s, stage)

\* add_client generates a key pair and reads the next address.
AddClient(s) == \E k \in Keys \ issued :
    /\ Begin(s, "add", k, NextIp(conf), "append")
    /\ issued' = issued \cup {k}
    /\ UNCHANGED <<conf, live, table, may, text, rows, told, removed, torn, refused>>

\* toggle_client(enable).  Nothing asks whether the client is enabled already.
EnableClient(s) == \E k \in issued :
    /\ Begin(s, "enable", k, 0, "lookup")
    /\ UNCHANGED <<conf, live, table, may, text, rows, told, issued, removed, torn, refused>>

\* It reads the address from the table ...
LookUp(s) == \E r \in table :
    /\ pc[s] = "lookup"
    /\ r.key = req[s].key
    /\ req' = [req EXCEPT ![s].ip = r.ip]
    /\ Goto(s, "append")
    /\ UNCHANGED <<conf, live, table, may, text, rows, told, issued, removed, torn, refused>>

\* toggle_client(disable) and remove_client read the config.
DropClient(s) == \E op \in {"disable", "remove"}, k \in issued :
    /\ Begin(s, op, k, 0, "replace")
    /\ text' = [text EXCEPT ![s] = conf]
    /\ UNCHANGED <<conf, live, table, may, rows, told, issued, removed, torn, refused>>

AppendSection(s) ==
    /\ pc[s] = "append"
    /\ LastLine(conf) < MaxLine
    /\ conf' = Appended(conf, req[s].key, req[s].ip)
    /\ Goto(s, "sync")
    /\ UNCHANGED <<live, table, may, req, text, rows, told, issued, removed, torn, refused>>

ReplaceConfig(s) ==
    /\ pc[s] = "replace"
    /\ conf' = Without(text[s], req[s].key)
    /\ Goto(s, "sync")
    /\ UNCHANGED <<live, table, may, req, text, rows, told, issued, removed, torn, refused>>

\* `wg syncconf` takes all of the file or, with an octet beyond 255, nothing.
Loads(c) == \A p \in c : p.ip <= 255

SyncConf(s) ==
    /\ pc[s] = "sync"
    /\ \/ Loads(conf) /\ live' = KeysOf(conf) /\ refused' = {}
       \/ ~Loads(conf) /\ live' = live /\ refused' = refused \cup {req[s].key}
    /\ Goto(s, "read")
    /\ UNCHANGED <<conf, table, may, req, text, rows, told, issued, removed, torn>>

\* _get_clients_table.
ReadTable(s) ==
    /\ pc[s] = "read"
    /\ rows' = [rows EXCEPT ![s] = table]
    /\ Goto(s, "write")
    /\ UNCHANGED <<conf, live, table, may, req, text, told, issued, removed, torn, refused>>

\* _save_clients_table.
WriteTable(s) ==
    /\ pc[s] = "write"
    /\ table' = Edited(rows[s], req[s])
    /\ Goto(s, "reply")
    /\ UNCHANGED <<conf, live, may, req, text, rows, told, issued, removed, torn, refused>>

Leave(s, how) ==
    /\ Goto(s, "idle")
    /\ req' = [req EXCEPT ![s] = None]
    /\ text' = [text EXCEPT ![s] = {}]
    /\ rows' = [rows EXCEPT ![s] = {}]
    /\ told' = [told EXCEPT ![s] = how]

\* The files in /tmp are removed, add_client reads what it needs for the
\* client's own config, and the operation returns.
Return(s) ==
    /\ pc[s] = "reply"
    /\ Leave(s, "ok")
    /\ removed' = IF req[s].op = "remove" THEN removed \cup {req[s].key} ELSE removed
    /\ torn' = torn \ {req[s].key}
    /\ UNCHANGED <<conf, live, table, may, issued, refused>>

\* ... and raises when the client is not there.
NotFound(s) ==
    /\ pc[s] = "lookup"
    /\ \A r \in table : r.key # req[s].key
    /\ Leave(s, "failed")
    /\ UNCHANGED <<conf, live, table, may, issued, removed, torn, refused>>

\* The SSH connection breaks, and the operation raises.
Break(s) ==
    /\ pc[s] # "idle"
    /\ Leave(s, "failed")
    /\ torn' = torn \cup {req[s].key}
    /\ UNCHANGED <<conf, live, table, may, issued, removed, refused>>

Next == \E s \in Sessions :
    \/ AddClient(s) \/ EnableClient(s) \/ DropClient(s) \/ LookUp(s) \/ NotFound(s)
    \/ AppendSection(s) \/ ReplaceConfig(s) \/ SyncConf(s)
    \/ ReadTable(s) \/ WriteTable(s) \/ Return(s) \/ Break(s)

Spec == Init /\ [][Next]_vars

-----------------------------------------------------------------------------
(* Properties *)

\* Nobody edits the config while a session rewrites it.
Exclusive ==
    \A w \in Workloads, s, t \in Sessions :
        s # t /\ ~(w[s] \subseteq Appends) => w[t] = {}

\* One session is at work in this behaviour.
Alone == \E s \in Sessions : \A t \in Sessions \ {s} : may[t] = {}

Requests ==
    [s \in Sessions |->
        IF pc[s] = "idle" THEN None
        ELSE [op |-> req[s].op, key |-> req[s].key,
              done |-> pc[s] \notin {"lookup", "append", "replace"}]]

Abstract == INSTANCE PeerSet WITH active <- KeysOf(conf), request <- Requests,
                                  answer <- told

\* Sessions that only append, or a session that works alone, treat the config
\* as a set of peers (add_client, toggle_client, remove_client): each request
\* touches its own peer only, and a confirmed one took effect, however often
\* others append in between and connections break.
PeersActAsSet == Abstract!Spec

Quiet == \A s \in Sessions : pc[s] = "idle"

\* Whoever works alone leaves config, interface and table in agreement, but for
\* clients whose last operation broke off -- and repeating it repairs them.  The
\* interface also misses what was done while the config held an address that is
\* none, 257 after 254 (_get_next_ip), until a config loads again.
FilesAgree ==
    Alone /\ Quiet =>
        /\ \A r \in table : r.key \notin torn => (r.on <=> r.key \in KeysOf(conf))
        /\ \A k \in issued \ (torn \cup refused) : k \in live <=> k \in KeysOf(conf)

\* A client whose removal was confirmed is gone from both files, so that no
\* later enabling finds it (remove_client, toggle_client).
RemovedStaysOut == removed \cap (KeysOf(conf) \cup {r.key : r \in table}) = {}

\* A session that works alone and only adds and removes hands out ever greater
\* addresses along the file (_get_next_ip), hence different ones.
AddressesAscend ==
    Alone /\ (\A s \in Sessions : may[s] \subseteq {"add", "remove"}) =>
        \A p, q \in conf : p.at < q.at => p.ip < q.ip

\* "Calculate the next available IP for a new client": no two clients in the
\* config have one address (_get_next_ip).
AddressesDiffer == \A p, q \in conf : p.key # q.key => p.ip # q.ip
=============================================================================
