-------------------------------- MODULE BatGate --------------------------------
(***************************************************************************)
(* BAT as docs/principles.md promises it: nothing goes public before a     *)
(* publications pull request was approved.  The reviewer approves pull     *)
(* requests, an approved one may be merged, and a draft with a merged one  *)
(* may go public, once or (after a lost answer or a retry) again.          *)
(***************************************************************************)
EXTENDS Naturals

CONSTANTS Drafts,    \* DRAFT- and TWEET- ids
          Pulls      \* a draft's pull requests, in the order of opening

VARIABLES approved,  \* per draft, the pull requests with an approval
          merged,    \* per draft, the pull requests merged
          live       \* per draft, how many posts are public

gateVars == <<approved, merged, live>>

GateInit ==
    /\ approved = [d \in Drafts |-> {}]
    /\ merged = [d \in Drafts |-> {}]
    /\ live = [d \in Drafts |-> 0]

ApprovePull(d, i) ==
    /\ i \notin merged[d]
    /\ approved' = [approved EXCEPT ![d] = @ \cup {i}]
    /\ UNCHANGED <<merged, live>>

MergePull(d, i) ==
    /\ i \in approved[d] \ merged[d]
    /\ merged' = [merged EXCEPT ![d] = @ \cup {i}]
    /\ UNCHANGED <<approved, live>>

GoPublic(d) ==
    /\ merged[d] # {}
    /\ live' = [live EXCEPT ![d] = @ + 1]
    /\ UNCHANGED <<approved, merged>>

GateNext ==
    \/ \E d \in Drafts, i \in Pulls : ApprovePull(d, i) \/ MergePull(d, i)
    \/ \E d \in Drafts : GoPublic(d)

GateSpec == GateInit /\ [][GateNext]_gateVars
===============================================================================
