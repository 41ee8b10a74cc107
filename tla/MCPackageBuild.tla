--------------------------- MODULE MCPackageBuild ---------------------------
(* A library and an application that depends on it.                         *)
EXTENDS PackageBuild

CONSTANTS lib, app

MCPkg == {lib, app}
MCOrder == <<lib, app>>
MCDeps == [p \in MCPkg |-> IF p = app THEN {lib} ELSE {}]

\* The library is made before the application.
ASSUME MCInOrder == InOrder
=============================================================================
