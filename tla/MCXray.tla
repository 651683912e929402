------------------------------- MODULE MCXray -------------------------------
(* Small instances of Xray: installations and workloads.                     *)
EXTENDS Xray

CONSTANTS d, a, b, e, l

Fresh == [clients |-> {[id |-> a, mail |-> TRUE]}, stats |-> TRUE]
Old == [clients |-> {[id |-> i, mail |-> FALSE] : i \in {d, a}}, stats |-> FALSE]

Small == [clients |-> {[id |-> a, mail |-> FALSE]}, stats |-> FALSE]

Work(ops) == [s \in Sessions |-> IF s = e THEN ops ELSE {"list"}]

\* A session edits while another lists, in each kind of installation; the same
\* on a config the panel has to upgrade, with the app beside them or a client
\* removed; two sessions that edit.
MixedScenes ==
    {[mount |-> m, conf |-> Fresh, rows |-> {a}, may |-> Work(Edits),
      app |-> {}, counted |-> m # "none"] : m \in {"bind", "none"}}
    \cup
    {[mount |-> "copy", conf |-> Fresh, rows |-> {a}, may |-> Work({"add", "disable"}),
      app |-> {}, counted |-> TRUE]}
    \cup
    {[mount |-> "bind", conf |-> Old, rows |-> {}, may |-> Work({"add", "raw"}),
      app |-> {b}, counted |-> TRUE],
     [mount |-> "copy", conf |-> Old, rows |-> {}, may |-> Work({}),
      app |-> {b}, counted |-> TRUE],
     [mount |-> "copy", conf |-> Small, rows |-> {}, may |-> Work({"remove"}),
      app |-> {}, counted |-> TRUE],
     [mount |-> "bind", conf |-> Fresh, rows |-> {a},
      may |-> [s \in Sessions |-> {"list", "disable", "enable"}],
      app |-> {}, counted |-> FALSE]}
=============================================================================
