---------------------------- MODULE MCSaveGraph ----------------------------
(* Every page that persists a graph, one of them open in two tabs. *)
EXTENDS SaveGraph

CONSTANTS t1, t2

MCIds == 1..12
MCEntries == 1..2
MCPages == Products \ {"fx_forward"}
MCTabs == [p \in MCPages |-> IF p = "bond_fixed" THEN {t1, t2} ELSE {t1}]
=============================================================================
