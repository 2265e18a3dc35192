---------------------------- MODULE MCBatPipeline -----------------------------
(* Instances of BatPipeline for TLC.  GitHub numbers: the n-th pull request    *)
(* of the LinkedIn draft and of the X draft have the same number, as in two    *)
(* publications repositories that both have a #79.                             *)
EXTENDS BatPipeline, TLC

OneDraft == {"DRAFT"}
TwoDrafts == {"DRAFT", "TWEET"}

OneNumber == [d \in OneDraft |-> [i \in 1..MaxPulls |-> 78 + i]]
TwoNumber == [d \in TwoDrafts |-> [i \in 1..MaxPulls |-> 78 + i]]

Symmetric == Permutations(Tasks)
===============================================================================
