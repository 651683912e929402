------------------------------ MODULE PanelDoc ------------------------------
(***************************************************************************)
(* The panel document -- the dict that load_data() returns and save_data() *)
(* replaces as a whole -- and what each handler does to the copy it loaded.*)
(* Everything here is a pure operator on one document: who runs them, on   *)
(* which copy and when the copy is written back is module Panel.           *)
(*                                                                         *)
(* Servers are addressed by position, as in the code: Conn.srv is          *)
(* user_connections[].server_id plus one, because sequences start at 1.    *)
(* Secrets, names, hosts, traffic counters and UI settings are left out.   *)
(***************************************************************************)
EXTENDS Integers, Sequences, FiniteSets

CONSTANTS
    Servers,   \* server entries (the uuid of each)
    UserIds,   \* uuids that panel users may receive
    ConnIds,   \* uuids of user_connections; also names the VPN peer behind one
    Codes,     \* invite codes
    Tokens,    \* ids of API tokens
    NoCode,    \* "invite_code" of a user that was not admitted by one
    MaxUses    \* [Codes -> Nat]: max_uses of each code, 0 for no limit

ASSUME MaxUsesAssumption == MaxUses \in [Codes -> Nat]
ASSUME NoCodeAssumption == NoCode \notin Codes

User == [id : UserIds, via : Codes \cup {NoCode}]
Conn == [id : ConnIds, user : UserIds, srv : Nat \ {0}]

Doc == [servers : Seq(Servers),
        users   : SUBSET User,
        off     : SUBSET UserIds,       \* users with enabled = False
        codes   : SUBSET Codes,
        uses    : [Codes -> Nat],
        conns   : SUBSET Conn,
        tokens  : SUBSET Tokens,
        sync    : Nat \ {0}]            \* settings.sync.remnawave_server_id

UserIdsOf(d) == {u.id : u \in d.users}
ConnsOf(d, u) == {c \in d.conns : c.user = u}
Admitted(d, code) == {u \in d.users : u.via = code}

\* Every id a document mentions, users that were deleted since excepted.
IdsOf(d) ==
    UserIdsOf(d) \cup {c.id : c \in d.conns} \cup d.codes \cup d.tokens
        \cup {u.via : u \in {x \in d.users : x.via # NoCode}}
        \cup {d.servers[k] : k \in DOMAIN d.servers}

-----------------------------------------------------------------------------
(* Users and invite codes *)

AddUser(d, u, code) == [d EXCEPT !.users = @ \cup {[id |-> u, via |-> code]}]

DeleteUser(d, u) ==
    [d EXCEPT !.users = {x \in @ : x.id # u},
              !.off   = @ \ {u},
              !.conns = {c \in @ : c.user # u}]

SetEnabled(d, u, on) ==
    [d EXCEPT !.off = IF on THEN @ \ {u} ELSE @ \cup {u}]

AddCode(d, code) == [d EXCEPT !.codes = @ \cup {code}, !.uses[code] = 0]

DropCode(d, code) == [d EXCEPT !.codes = @ \ {code}]

CodeValid(d, code) ==
    /\ code \in d.codes
    /\ MaxUses[code] = 0 \/ d.uses[code] < MaxUses[code]

\* Mutants of Register: the use is not spent; uses counts down.
RegisterFree(d, u, code) == AddUser(d, u, code)
RegisterCountsDown(d, u, code) ==
    [AddUser(d, u, code) EXCEPT !.uses[code] = @ - 1]

\* register_user_with_code: the user and the spent use are one edit of one copy.
Register(d, u, code) ==
    [AddUser(d, u, code) EXCEPT !.uses[code] = @ + 1]

-----------------------------------------------------------------------------
(* API tokens and connections *)

AddToken(d, t) == [d EXCEPT !.tokens = @ \cup {t}]
DropToken(d, t) == [d EXCEPT !.tokens = @ \ {t}]

AddConn(d, c) == [d EXCEPT !.conns = @ \cup {c}]
DropConn(d, id) == [d EXCEPT !.conns = {c \in @ : c.id # id}]

-----------------------------------------------------------------------------
(* The list of servers, and the positions that refer into it *)

AddServer(d, s) == [d EXCEPT !.servers = Append(@, s)]

Pop(seq, i) == [k \in 1..(Len(seq) - 1) |-> IF k < i THEN seq[k] ELSE seq[k + 1]]

\* Mutant: the positions behind the deleted entry are not moved up.
DeleteServerNoShift(d, i) ==
    [d EXCEPT !.servers = Pop(@, i),
              !.conns = {c \in @ : c.srv # i}]

DeleteServer(d, i) ==
    [d EXCEPT !.servers = Pop(@, i),
              !.conns = {[c EXCEPT !.srv = IF @ > i THEN @ - 1 ELSE @] :
                            c \in {x \in @ : x.srv # i}}]

\* The requested orders: every position occurs exactly once.
Orders(n) ==
    {o \in [1..n -> 1..n] :
        \A k \in 1..n : \E j \in 1..n : \A i \in 1..n : o[i] = k <=> i = j}

\* Mutant: the permutation is applied in the wrong direction.
RemapBackwards(order, old) ==
    IF old \in DOMAIN order THEN order[old] ELSE old

\* remap of api_reorder_servers: where the entry at position old lands; a
\* position outside the list is left as it is.
Remap(order, old) ==
    IF old \in DOMAIN order
    THEN CHOOSE new \in DOMAIN order : order[new] = old
    ELSE old

ReorderServers(d, order) ==
    [d EXCEPT !.servers = [k \in 1..Len(@) |-> @[order[k]]],
              !.conns = {[c EXCEPT !.srv = Remap(order, @)] : c \in @},
              !.sync = Remap(order, @)]

-----------------------------------------------------------------------------
(* What one document promises about itself *)

\* An invite code never admits more users than it may, and its counter covers
\* everybody it admitted.
QuotaOK(d) ==
    \A code \in Codes :
        /\ Cardinality(Admitted(d, code)) <= d.uses[code]
        /\ MaxUses[code] > 0 => d.uses[code] <= MaxUses[code]

\* Ids name at most one record.
IdsOK(d) ==
    /\ \A u, v \in d.users : u.id = v.id => u = v
    /\ \A c, e \in d.conns : c.id = e.id => c = e
    /\ \A j, k \in DOMAIN d.servers : d.servers[j] = d.servers[k] => j = k

DocOK(d) == IsFiniteSet(d.users) /\ QuotaOK(d) /\ IdsOK(d)

Within(d, c) == c.srv \in DOMAIN d.servers

\* Every connection of old that names a server keeps naming the same server in
\* new, and goes when its server goes.
SamePlacement(old, new) ==
    \A c \in old.conns : Within(old, c) =>
        LET s == old.servers[c.srv]
            kept == {e \in new.conns : e.id = c.id}
        IN  IF \E k \in DOMAIN new.servers : new.servers[k] = s
            THEN \E e \in kept : Within(new, e) /\ new.servers[e.srv] = s
            ELSE kept = {}
=============================================================================
