------------------------ MODULE MCOpflexAgentManager ------------------------
(* Two hosts, one of them with two configuration files, and two domains. *)
EXTENDS OpflexAgentManager

MCFilesOf == [h \in Hosts |-> IF h = "h1" THEN {"a", "b"} ELSE {"a"}]
\* The file of the second host has no opflex.domain.
MCOriginal == [p \in Paths |-> IF p = <<"h2", "a">> THEN NoDomain ELSE "d1"]
============================================================================
