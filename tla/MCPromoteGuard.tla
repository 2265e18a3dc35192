---------------------------- MODULE MCPromoteGuard ----------------------------
(* Instances of PromoteGuard for TLC: the LinkedIn and the X publications     *)
(* repositories both have a pull request #79, and LinkedIn also has #80.       *)
EXTENDS PromoteGuard

MCPulls == {"linkedin79", "x79", "linkedin80"}
MCNumber == [p \in MCPulls |-> IF p = "linkedin80" THEN 80 ELSE 79]
===============================================================================
