---------------------------- MODULE MCSharedMemory ----------------------------
(* Instances for TLC of the two modules about the memory that all tasks of the  *)
(* process share: the set of pull requests in promotion and the slot of the    *)
(* research session.  Neither touches the other, so one run checks them one    *)
(* after the other: part names the module whose steps a behaviour takes.       *)
EXTENDS MCPromoteGuard, MCDraftBuild

VARIABLE part

sharedVars == <<part, guardVars, vars>>

SharedInit == part \in {"guard", "build"} /\ GuardInit /\ Init

SharedNext ==
    /\ UNCHANGED part
    /\ \/ part = "guard" /\ GuardNext /\ UNCHANGED vars
       \/ part = "build" /\ Next /\ UNCHANGED guardVars

\* The fairness of PromoteGuard, for the behaviours of its part.
SharedSpec ==
    /\ SharedInit /\ [][SharedNext]_sharedVars
    /\ \A w \in Wakes : /\ SF_guardVars(part = "guard" /\ Lock(w))
                        /\ WF_guardVars(part = "guard" /\ WakeStep(w))
===============================================================================
