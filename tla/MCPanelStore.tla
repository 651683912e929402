---------------------------- MODULE MCPanelStore ----------------------------
(* Small instance of PanelStore: one document keeps audit entries 30 days, *)
(* the others have no age limit. *)
EXTENDS PanelStore

CONSTANT d1

OneLimit == [d \in Docs |-> IF d = d1 THEN Default ELSE 0]
=============================================================================
