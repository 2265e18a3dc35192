----------------------------- MODULE MCDraftBuild -----------------------------
\* Instances of DraftBuild for TLC: LinkedIn drafts and one tweet.
EXTENDS DraftBuild

CONSTANTS draft1, draft2, tweet

SurfaceOf == [b \in Builds |-> IF b = tweet THEN "X" ELSE "LinkedIn"]
===============================================================================
