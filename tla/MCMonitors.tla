---------------------------- MODULE MCMonitors -----------------------------
(* Small instances of Monitors. *)
EXTENDS Monitors

CONSTANTS s1, s2

\* Two servers in one block of four addresses, two more addresses beyond.
IpOf == [s \in Servers |-> IF s = s1 THEN 4 ELSE 5]

T(lo, hi, plain) == [lo |-> lo, hi |-> hi, plain |-> plain]

Tokens == {T(4, 4, TRUE), T(4, 4, FALSE), T(6, 6, TRUE), T(6, 7, FALSE),
           T(4, 5, FALSE), T(0, 3, FALSE), T(0, 9, FALSE)}

Dumps == UNION {[1..n -> Tokens] : n \in 0..3}

Used(age) == [used |-> TRUE, lifetime |-> FALSE, age |-> age]
Reset == [used |-> FALSE, lifetime |-> TRUE, age |-> "none"]

Fine == [dump |-> << >>, peers |-> {Used("fresh"), Reset}, dark |-> {}, noudp |-> {}]
Dumped == [Fine EXCEPT !.dump = <<T(4, 4, FALSE)>>]
Quiet == [Fine EXCEPT !.peers = {Used("stale"), Reset}]
Dark(ss) == [Fine EXCEPT !.dark = ss]
NoUdp == [Fine EXCEPT !.noudp = {s1}]

S(kind, worlds, list, moves, acts, n) ==
    [kind |-> kind, worlds |-> worlds, list |-> list, moves |-> moves,
     acts |-> acts, threshold |-> n]

AllScenes ==
    {S("rkn", {[Fine EXCEPT !.dump = d]}, {s1, s2}, {}, {}, 1) : d \in Dumps}
    \cup
    {S("tcp", {Fine, Dark({s1}), Dark({s1, s2})}, {s1}, {s2}, {"check", "restart"}, 2),
     S("rkn", {Fine, Dumped}, {s1}, {s1}, {"check", "restart", "ips", "offline"}, 2),
     S("rkn", {Quiet, Dumped}, {s1}, {}, {"check", "restart", "ips"}, 2),
     S("rkn", {Fine, Dark({s1})}, {s1}, {}, {"check", "hand", "ips"}, 2),
     S("rkn", {Fine, Dark({s1})}, {s1}, {}, {"check", "ips", "settings"}, 2),
     S("rkn", {Fine, NoUdp}, {s1}, {}, {"check", "hand"}, 1),
     S("rkn", {Fine, NoUdp, Dark({s1})}, {s1}, {}, {"check", "mute"}, 2),
     S("rkn", {Dark({s1})}, {s1}, {s1}, {"check", "hand", "restart", "ips"}, 2),
     S("rkn", {Quiet, Dark({s1})}, {s1, s2}, {}, {"check", "ssh", "raise", "restart"}, 2)}
=============================================================================
