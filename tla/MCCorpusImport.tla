---------------------------- MODULE MCCorpusImport ----------------------------
(* Instances for TLC of CorpusImport: a post and a comment on it, which have   *)
(* one address.                                                                *)
EXTENDS CorpusImport

OneAddress == [i \in Entries |-> CHOOSE u \in Addresses : TRUE]
===============================================================================
