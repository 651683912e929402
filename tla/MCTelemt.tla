------------------------------ MODULE MCTelemt ------------------------------
(* Small instances of Telemt: proxies and workloads.                         *)
EXTENDS Telemt

CONSTANTS a, b, e, l

With(users, q) == [users |-> [n \in Names |-> IF n \in users THEN "on" ELSE "out"],
                   quota |-> [n \in Names |-> IF n \in users THEN q ELSE 0]]

Work(x, y) == [s \in Sessions |-> IF s = e THEN x ELSE y]

\* Without quotas beside a listing, with and without the API; quotas with a
\* single session; quotas with a listing beside.
MixedScenes ==
    {[api |-> x, file |-> With({a}, 0), quotas |-> {0}, may |-> Work(Edits, {"list"}),
      breaks |-> Sessions, counted |-> x] :
        x \in BOOLEAN}
    \cup
    {[api |-> TRUE, file |-> With({a}, 1), quotas |-> {0, 1}, may |-> Work(Ops, {}),
      breaks |-> Sessions, counted |-> FALSE],
     [api |-> TRUE, file |-> With({a, b}, 1), quotas |-> {1},
      may |-> Work({"edit", "enable", "remove"}, {"list"}), breaks |-> {e}, counted |-> TRUE]}
=============================================================================
