------------------------------ MODULE MCMcpStack ------------------------------
(***************************************************************************)
(* Small instances of McpStack.                                             *)
(***************************************************************************)
EXTENDS McpStack

CONSTANTS x1, x2, s1, s2, o1

TwoProxies  == {x1, x2}
TwoSessions == {s1, s2}
OneOther    == {o1}
UsersOfTwo  == {s1, s2, o1}
=============================================================================
