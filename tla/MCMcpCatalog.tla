---------------------------- MODULE MCMcpCatalog ----------------------------
(* McpCatalog for TLC: the name a is declared in both files and b in the      *)
(* project's; in version v1 the entry of a is invalid; the two projects offer *)
(* the tool t2 twice under one generated name.                                *)
EXTENDS McpCatalog

MCDeclared == [v \in Versions |-> {"a", "b"}]
MCParsed == [v \in Versions |-> IF v = "v1" THEN {"b"} ELSE {"a", "b"}]
MCOffers == [s \in {"user", "project"} \X Names |->
              IF s[2] = "b" THEN {"t2"} ELSE IF s[1] = "user" THEN {"t1"} ELSE {"t1", "t2"}]
=============================================================================
