------------------------------ MODULE GithubFiles ------------------------------
(***************************************************************************)
(* The GitHub client below the publish gate: how the files of a pack       *)
(* (body.md, meta.toml) get onto branches, which pull requests carry them, *)
(* and how an approved pack is promoted.  BatPipeline takes each of these  *)
(* as one step or two; here every HTTP call is a step, and a job is the    *)
(* list of calls one function still has to make.                           *)
(*                                                                         *)
(* A body.md is the version of the text it was packed from, 0 is no file:  *)
(* the id header that every move rewrites is left out, and so is what is   *)
(* in a meta.toml, but not that it is written.                             *)
(***************************************************************************)
EXTENDS Naturals, Sequences

CONSTANTS GhJobs,     \* functions of the client running at once
          GhHeads,    \* kinds of head branches of this instance
          GhFaults,   \* which failures happen: call (refused), lost (took effect, answer lost)
          GhVersions, \* bound: versions of the text of one draft
          ShaRetryAttempts

ASSUME GhAssumption ==
    /\ GhHeads \subseteq {"post", "xpost", "draft", "tweet"}
    /\ GhFaults \subseteq {"call", "lost"}
    /\ GhVersions \in Nat \ {0}
    /\ ShaRetryAttempts \in Nat \ {0}

VARIABLES ghHead,    \* the kind of head branch this draft goes through
          ghOrgIsFork, \* the drafts owner is the org itself: no mirror
          ghTree,    \* body.md on every branch
          ghPull,    \* its pull request
          ghJob,     \* the running jobs
          ghPosted   \* versions that ever were the body on the publications branch

ghVars == <<ghHead, ghOrgIsFork, ghTree, ghPull, ghJob, ghPosted>>

-------------------------------------------------------------------------------
(* pack.rs: kinds of artefacts and the branches they live on. *)

\* DRAFT-x and POST-x, TWEET-x and XPOST-x are the same artefact before and after.
Legacy(h) == h \in {"draft", "tweet"}
OnX(h) == h \in {"xpost", "tweet"}
PostsBranch(h) == IF OnX(h) THEN "tweets" ELSE "posts"
BaseOf(h) == CASE h = "post" -> "posts" [] h = "xpost" -> "tweets"
               [] h = "draft" -> "drafts" [] h = "tweet" -> "drafts_tweet"


Branches == {"post", "draft", "xpost", "tweet", "posts", "tweets", "drafts",
             "drafts_tweet", "mirror"}
PackFiles == {"body", "meta"}

-------------------------------------------------------------------------------
(* The calls of each function, in their order. *)

Step(call, at, file) == [call |-> call, at |-> at, file |-> file]

PutFiles(at) == <<Step("put", at, "body"), Step("put", at, "meta")>>

OpenPrInto(h) ==
    <<Step("branch", h, "none")>> \o PutFiles(h)
      \o <<Step("create", h, "none"), Step("reviewer", h, "none")>>

\* Mutant: the mirror gets the body that was read before the merge.
MirrorAsRead(orgIsFork) == IF orgIsFork THEN <<>> ELSE PutFiles("mirror")

\* What the org mirror gets is read from the merged pull request.
SyncMirrorFromPr(orgIsFork) ==
    IF orgIsFork THEN <<>>
    ELSE <<Step("read", "post", "body"), Step("read", "post", "meta")>> \o PutFiles("mirror")

\* The body that is shipped is read before the merge.
PromotePost(orgIsFork) ==
    <<Step("first", "post", "body"), Step("merge", "post", "none")>> \o SyncMirrorFromPr(orgIsFork)

PromoteXpost ==
    <<Step("first", "xpost", "body"), Step("read", "xpost", "meta"), Step("merge", "xpost", "none")>>

\* Pull requests of the time before posts had their own: written, then merged.
PromoteLinkedInLegacy ==
    <<Step("first", "draft", "body"), Step("read", "draft", "meta")>>
      \o PutFiles("posts") \o <<Step("merge", "draft", "none")>>
PromoteTweetLegacy ==
    <<Step("first", "tweet", "body"), Step("read", "tweet", "meta")>>
      \o PutFiles("tweets") \o <<Step("merge", "tweet", "none")>>

PromotePr(h, orgIsFork) == CASE h = "post"  -> PromotePost(orgIsFork)
                             [] h = "xpost" -> PromoteXpost
                             [] h = "draft" -> PromoteLinkedInLegacy
                             [] h = "tweet" -> PromoteTweetLegacy

LoadPromoted(h) ==
    <<Step("tree", PostsBranch(h), "body")>>
      \o IF OnX(h) THEN <<Step("tree", "tweets", "meta")>> ELSE <<>>

SyncFromPosts(h, orgIsFork) ==
    IF OnX(h) \/ orgIsFork THEN <<>>
    ELSE <<Step("tree", "posts", "body"), Step("tree", "posts", "meta")>> \o PutFiles("mirror")

ClosePull(h) == <<Step("get", h, "none"), Step("close", h, "none")>>

-------------------------------------------------------------------------------
\* since: what others committed since the sha was read.
IdleJob == [todo |-> <<>>, read |-> FALSE, since |-> "nothing", tries |-> 0, rivals |-> 0,
            held |-> 0, end |-> "none"]

\* No pull request is opened for a legacy head any more; one may still be open.
GhInit ==
    /\ ghHead \in GhHeads
    /\ ghOrgIsFork \in IF OnX(ghHead) THEN {FALSE} ELSE BOOLEAN
    /\ ghTree = [b \in Branches |-> IF b = ghHead /\ Legacy(b) THEN 1 ELSE 0]
    /\ ghPull = [state |-> IF Legacy(ghHead) THEN "open" ELSE "none", body |-> 0]
    /\ ghJob = [j \in GhJobs |-> IdleJob]
    /\ ghPosted = {}

\* A job is a list of calls and the pack it writes.
StartJob(j, todo, pack) ==
    /\ ghJob[j].todo = <<>>
    /\ ghJob' = [ghJob EXCEPT ![j] = [IdleJob EXCEPT !.todo = todo, !.held = pack]]
    /\ UNCHANGED <<ghHead, ghOrgIsFork, ghTree, ghPull, ghPosted>>

\* /accept: the open pull request of the branch is updated, or one is opened.
AcceptPack(j) ==
    /\ ~Legacy(ghHead)
    /\ \E v \in 1..GhVersions :
        StartJob(j, IF ghPull.state = "open" THEN PutFiles(ghHead) ELSE OpenPrInto(ghHead),
                 v)

PromotePull(j) ==
    /\ ghPull.state # "none"
    /\ StartJob(j, PromotePr(ghHead, ghOrgIsFork), 0)

\* /retry_bat finds the promoted text and ships it, the mirror first.
RetryPromoted(j) ==
    StartJob(j, LoadPromoted(ghHead) \o SyncFromPosts(ghHead, ghOrgIsFork), 0)

CloseRowPull(j) ==
    ghPull.state # "none" /\ StartJob(j, ClosePull(ghHead), 0)

-------------------------------------------------------------------------------
Due(j, call) == ghJob[j].todo # <<>> /\ Head(ghJob[j].todo).call = call
JobBranch(j) == Head(ghJob[j].todo).at
FileOf(j) == Head(ghJob[j].todo).file

\* A job that is over keeps how it ended, until the next one starts.
JobEnds(j, how) == [IdleJob EXCEPT !.end = how, !.rivals = IF how = "outpaced" THEN ghJob[j].rivals ELSE 0]

\* The call is through; a job that writes starts each file afresh.
Done(j, r) ==
    IF Tail(r.todo) = <<>> THEN [IdleJob EXCEPT !.end = "ok"]
    ELSE [r EXCEPT !.todo = Tail(@), !.read = FALSE, !.since = "nothing", !.tries = 0, !.rivals = 0]
SetJob(j, r) == ghJob' = [ghJob EXCEPT ![j] = r]

\* The call ends the job: refused, or done and its answer lost.
CallRefused(j) == "call" \in GhFaults /\ SetJob(j, JobEnds(j, "failed"))
Through(j, r) == SetJob(j, r) \/ ("lost" \in GhFaults /\ SetJob(j, JobEnds(j, "failed")))

\* Whoever is in the middle of a put to this branch has one more rival; the sha it read
\* is stale when it was for this file.  f is "none" when a merge commits every file.
Outrun(b, f, r) ==
    IF r.todo # <<>> /\ Head(r.todo) \in {Step("put", b, g) : g \in PackFiles}
    THEN [r EXCEPT !.since = IF ~r.read THEN @ ELSE IF f \in {"none", Head(r.todo).file} THEN "file"
                             ELSE IF @ = "nothing" THEN "branch" ELSE @,
                   !.rivals = IF @ < ShaRetryAttempts THEN @ + 1 ELSE @]
    ELSE r
Committed(j, b, f, mine) ==
    \E r \in {mine} \cup (IF "lost" \in GhFaults THEN {JobEnds(j, "failed")} ELSE {}) :
        ghJob' = [k \in GhJobs |-> IF k = j THEN r ELSE Outrun(b, f, ghJob[k])]

Posted(tree) == ghPosted \cup ({tree[PostsBranch(ghHead)]} \ {0})

\* create_branch: from its base; a branch that is there is kept.
CreateBranch(j) ==
    /\ Due(j, "branch")
    /\ \/ CallRefused(j) /\ UNCHANGED ghTree
       \/ /\ ghTree' = [ghTree EXCEPT ![JobBranch(j)] = IF @ = 0 THEN ghTree[BaseOf(JobBranch(j))] ELSE @]
          /\ Through(j, Done(j, ghJob[j]))
    /\ UNCHANGED <<ghHead, ghOrgIsFork, ghPull, ghPosted>>

\* existing_file_sha, before every attempt of a put.
ExistingFileSha(j) ==
    /\ Due(j, "put") /\ ~ghJob[j].read
    /\ \/ CallRefused(j)
       \/ SetJob(j, [ghJob[j] EXCEPT !.read = TRUE, !.since = "nothing"])
    /\ UNCHANGED <<ghHead, ghOrgIsFork, ghTree, ghPull, ghPosted>>

\* GitHub takes a file only over the blob whose sha came with it, and may refuse it when
\* the branch has moved since; any other refusal ends the put at once.
WriteFile(j) ==
    /\ ghJob[j].since # "file"
    /\ ghTree' = IF FileOf(j) = "body" THEN [ghTree EXCEPT ![JobBranch(j)] = ghJob[j].held] ELSE ghTree
    /\ ghPosted' = Posted(ghTree')
    /\ Committed(j, JobBranch(j), FileOf(j), Done(j, ghJob[j]))
Conflict(j, retry) ==
    /\ ghJob[j].since # "nothing"
    /\ SetJob(j, IF ghJob[j].tries + 1 < ShaRetryAttempts THEN retry ELSE JobEnds(j, "outpaced"))
    /\ UNCHANGED <<ghTree, ghPosted>>

\* Mutant: the sha is read once for all attempts.
PutWithFirstSha(j) ==
    /\ Due(j, "put") /\ ghJob[j].read
    /\ \/ WriteFile(j)
       \/ Conflict(j, [ghJob[j] EXCEPT !.tries = @ + 1])
       \/ CallRefused(j) /\ UNCHANGED <<ghTree, ghPosted>>
    /\ UNCHANGED <<ghHead, ghOrgIsFork, ghPull>>

\* One attempt of put_file; a refusal over the sha is tried again from the sha on.
PutFile(j) ==
    /\ Due(j, "put") /\ ghJob[j].read
    /\ \/ WriteFile(j)
       \/ Conflict(j, [ghJob[j] EXCEPT !.tries = @ + 1, !.read = FALSE])
       \/ CallRefused(j) /\ UNCHANGED <<ghTree, ghPosted>>
    /\ UNCHANGED <<ghHead, ghOrgIsFork, ghPull>>

\* create_pull_same_repo; bound: a head branch has one pull request.
CreatePull(j) ==
    /\ Due(j, "create")
    /\ \/ (ghPull.state # "none" \/ "call" \in GhFaults)
             /\ SetJob(j, JobEnds(j, "failed")) /\ UNCHANGED ghPull
       \/ /\ ghPull.state = "none"
          /\ ghPull' = [ghPull EXCEPT !.state = "open"]
          /\ Through(j, Done(j, ghJob[j]))
    /\ UNCHANGED <<ghHead, ghOrgIsFork, ghTree, ghPosted>>

\* A request that is refused fails nothing.
RequestReviewer(j) ==
    /\ Due(j, "reviewer")
    /\ SetJob(j, Done(j, ghJob[j]))
    /\ UNCHANGED <<ghHead, ghOrgIsFork, ghTree, ghPull, ghPosted>>

\* The body of a pull request: of its head, or what was merged.
PullBody(h) == IF ghPull.state = "merged" THEN ghPull.body ELSE ghTree[h]

\* first_artefact_body_md: an error when no file of the pull request is a body.
FirstBody(j) ==
    /\ Due(j, "first")
    /\ \/ (PullBody(JobBranch(j)) = 0 \/ "call" \in GhFaults) /\ SetJob(j, JobEnds(j, "failed"))
       \/ /\ PullBody(JobBranch(j)) # 0
          /\ SetJob(j, Done(j, [ghJob[j] EXCEPT !.held = PullBody(JobBranch(j))]))
    /\ UNCHANGED <<ghHead, ghOrgIsFork, ghTree, ghPull, ghPosted>>

\* file_text_on_pr: a listing GitHub refuses is no file.  No meta.toml is an empty one,
\* no body an error.
Got(j, v) ==
    IF FileOf(j) = "meta" THEN Done(j, ghJob[j])
    ELSE IF v = 0 THEN JobEnds(j, "failed")
    ELSE Done(j, [ghJob[j] EXCEPT !.held = v])
ReadPullFile(j) ==
    /\ Due(j, "read")
    /\ \/ SetJob(j, Got(j, PullBody(JobBranch(j))))
       \/ "call" \in GhFaults /\ SetJob(j, Got(j, 0))
    /\ UNCHANGED <<ghHead, ghOrgIsFork, ghTree, ghPull, ghPosted>>

\* file_text_on_branch: only a missing file is no file.
ReadTreeFile(j) ==
    /\ Due(j, "tree")
    /\ SetJob(j, Got(j, ghTree[JobBranch(j)])) \/ CallRefused(j)
    /\ UNCHANGED <<ghHead, ghOrgIsFork, ghTree, ghPull, ghPosted>>

\* merge_pull_squash_on: what is merged already is a success.
MergePr(j) ==
    LET h == JobBranch(j) IN
    /\ Due(j, "merge")
    /\ \/ /\ ghPull.state = "merged"
          /\ SetJob(j, Done(j, ghJob[j]))
          /\ UNCHANGED <<ghTree, ghPull, ghPosted>>
       \/ /\ ghPull.state # "open" \/ "call" \in GhFaults
          /\ SetJob(j, JobEnds(j, "failed"))
          /\ UNCHANGED <<ghTree, ghPull, ghPosted>>
       \/ /\ ghPull.state = "open"
          /\ ghPull' = [state |-> "merged", body |-> ghTree[h]]
          /\ ghTree' = [ghTree EXCEPT ![BaseOf(h)] = ghTree[h]]
          /\ ghPosted' = Posted(ghTree')
          /\ Committed(j, BaseOf(h), "none", Done(j, ghJob[j]))
    /\ UNCHANGED <<ghHead, ghOrgIsFork>>

\* close_pull_on: looks first, and leaves what is closed or merged alone.
GetPull(j) ==
    /\ Due(j, "get")
    /\ \/ SetJob(j, IF ghPull.state = "open" THEN Done(j, ghJob[j]) ELSE JobEnds(j, "ok"))
       \/ CallRefused(j)
    /\ UNCHANGED <<ghHead, ghOrgIsFork, ghTree, ghPull, ghPosted>>
ClosePr(j) ==
    /\ Due(j, "close")
    /\ \/ CallRefused(j) /\ UNCHANGED ghPull
       \/ /\ ghPull' = [ghPull EXCEPT !.state = IF @ = "open" THEN "closed" ELSE @]
          /\ Through(j, Done(j, ghJob[j]))
    /\ UNCHANGED <<ghHead, ghOrgIsFork, ghTree, ghPosted>>

GhNext ==
    \E j \in GhJobs :
        \/ AcceptPack(j) \/ PromotePull(j) \/ RetryPromoted(j) \/ CloseRowPull(j)
        \/ CreateBranch(j) \/ ExistingFileSha(j) \/ PutFile(j) \/ CreatePull(j)
        \/ RequestReviewer(j) \/ FirstBody(j) \/ ReadPullFile(j) \/ ReadTreeFile(j)
        \/ MergePr(j) \/ GetPull(j) \/ ClosePr(j)

GhSpec == GhInit /\ [][GhNext]_ghVars

-------------------------------------------------------------------------------
(* Properties. *)

\* put_file: a put gives up over the sha only when others have committed to its branch
\* at least as often as it tried; one rival, however unlucky the moment, never costs it.
PutLosesOnlyToRivals ==
    \A j \in GhJobs : ghJob[j].end = "outpaced" => ghJob[j].rivals >= ShaRetryAttempts

\* sync_org_drafts_mirror_from_post_pr, sync_org_drafts_from_posts_branch: whatever is
\* pushed while a promotion runs, no file of the org mirror holds a text that was never
\* on the publications branch.
MirrorIsPosted == ghTree["mirror"] \in {0} \cup ghPosted

\* What a put and a mirror promise (put_file, sync_org_drafts_mirror_from_post_pr).
FilesInv == PutLosesOnlyToRivals /\ MirrorIsPosted
===============================================================================
