-------------------------------- MODULE OneShip --------------------------------
(***************************************************************************)
(* One ship as the publish gate counts on it: the steps Ship and Audit of  *)
(* BatPipeline.  A text goes out, with or without an answer that says so,  *)
(* or the ship ends without it; and the audit has an ok row only of a text *)
(* that went out and whose ship said so.                                   *)
(***************************************************************************)
VARIABLES stage,    \* "ship", "audit" (it went out well), "over"
          live,     \* whether the text is public
          audited   \* whether the audit has an ok row of production

oneVars == <<stage, live, audited>>

OneInit == stage = "ship" /\ live = FALSE /\ audited = FALSE

\* The text is public; an answer that is lost ends the ship.
GoesOut ==
    /\ stage = "ship"
    /\ live' = TRUE
    /\ stage' \in {"audit", "over"}
    /\ UNCHANGED audited

\* Refused, failed or in playground: nothing is public.
EndsUnsent ==
    /\ stage = "ship"
    /\ stage' = "over"
    /\ UNCHANGED <<live, audited>>

\* The row; an insert that fails is only logged.
WritesRow ==
    /\ stage = "audit"
    /\ stage' = "over"
    /\ audited' \in BOOLEAN
    /\ UNCHANGED live

OneNext == GoesOut \/ EndsUnsent \/ WritesRow

OneSpec == OneInit /\ [][OneNext]_oneVars
===============================================================================
