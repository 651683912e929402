---------------------------- MODULE MCVpnServer -----------------------------
(* Small instances of VpnServer. *)
EXTENDS VpnServer, TLC

CONSTANTS a, b, k1

\* A fresh installation; a peer that the Amnezia app made, near the end of the
\* subnet.
FoundConfs == {{}, {[key |-> k1, ip |-> 254, at |-> 1]}}

FreshConf == {{}}

One(ops) == [s \in Sessions |-> IF s = a THEN ops ELSE {}]

\* One session does everything; one session adds and removes; several append.
Mixed == {One(Ops), One({"add", "remove"}), [s \in Sessions |-> Appends]}

AllByOne == {One(Ops)}
=============================================================================
