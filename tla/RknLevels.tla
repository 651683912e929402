----------------------------- MODULE RknLevels ------------------------------
(***************************************************************************)
(* rkn_monitor.py: how one check of a server comes to its level.           *)
(* Addresses are numbers, a /24 is a block of Block of them.  A token of   *)
(* the published dump is a range; "plain" tells an address from a network. *)
(***************************************************************************)
EXTENDS Integers, Sequences, SequencesExt

CONSTANTS
    Ips,    \* addresses in reach of the instance
    Block   \* addresses in a /24

ASSUME LevelsAssumption == Ips \subseteq Nat /\ Block \in Nat \ {0}

Levels == {"ok", "at_risk", "blocked"}
Rank(l) == CASE l = "ok" -> 0 [] l = "at_risk" -> 1 [] l = "blocked" -> 2

Worse(new, cur) == IF Rank(new) > Rank(cur) THEN new ELSE cur

\* merge_levels
Merged(ls) == CHOOSE l \in ls \cup {"ok"} : \A k \in ls : Rank(k) <= Rank(l)

Token == [lo : Ips, hi : Ips, plain : BOOLEAN]

Net(ip) == ip \div Block
Covers(t, ip) == t.lo <= ip /\ ip <= t.hi
Touches(t, ip) == Net(t.lo) <= Net(ip) /\ Net(ip) <= Net(t.hi)

\* A plain address of ours is taken for what it is and for nothing else: then
\* the addresses beside it are not looked at.
Hits(t, watched) == t.plain /\ t.lo \in watched

\* Mutant of ScanToken: a later neighbour takes a listed address back.
ScanTokenLast(levels, t) ==
    [ip \in DOMAIN levels |->
        IF Covers(t, ip) THEN "blocked"
        ELSE IF Touches(t, ip) /\ ~Hits(t, DOMAIN levels) THEN "at_risk"
        ELSE levels[ip]]

ScanToken(levels, t) ==
    [ip \in DOMAIN levels |->
        IF Covers(t, ip) THEN "blocked"
        ELSE IF Touches(t, ip) /\ ~Hits(t, DOMAIN levels)
             THEN Worse("at_risk", levels[ip])
             ELSE levels[ip]]

\* match_ips_in_dump: one pass, remembering only the addresses watched.
Scan(dump, watched) ==
    FoldLeft(ScanToken, [ip \in watched |-> "ok"], dump)

\* match_ip: an address that was not watched is clean.
MatchIp(index, ip) == IF ip \in DOMAIN index THEN index[ip] ELSE "ok"

\* What the level of a watched address should be, from the dump as a set.
ScanLevel(tokens, watched, ip) ==
    IF \E t \in tokens : Covers(t, ip) THEN "blocked"
    ELSE IF \E t \in tokens : Touches(t, ip) /\ ~Hits(t, watched) THEN "at_risk"
    ELSE "ok"

\* A peer as evaluate_handshake_symptom sees it.
Peer == [used : BOOLEAN, lifetime : BOOLEAN, age : {"none", "fresh", "stale"}]

\* Traffic since the interface came up, or ever, by the clients table.
HadTraffic(p) == p.used \/ p.lifetime

Recent(p) == p.age = "fresh"

\* Peers that once had traffic, none of them with a recent handshake.
Silent(peers) ==
    LET history == {p \in peers : HadTraffic(p)}
    IN  history # {} /\ \A p \in history : ~Recent(p)

HandshakeLevel(peers) == IF Silent(peers) THEN "at_risk" ELSE "ok"

\* check_server_reachability: tcp holds the results of the addresses of one
\* host, sent and received are the ends of the datagram.
ReachLevel(tcp, listening, sent, received) ==
    IF \/ tcp = {FALSE}
       \/ listening /\ sent /\ ~received
    THEN "blocked"
    ELSE IF \/ tcp = {TRUE, FALSE} \/ ~listening
            \/ ~sent /\ TRUE \in tcp
         THEN "at_risk" ELSE "ok"
=============================================================================
