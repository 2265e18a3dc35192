------------------------------ MODULE BatPipeline ------------------------------
(***************************************************************************)
(* The publish gate of ITCy: draft rows in SQLite, Post / XPOST pull       *)
(* requests on GitHub, the posts branch, the publish audit, and the public *)
(* surfaces.  Every webhook wake and every Slack slash runs as a tokio     *)
(* task of its own; a task is a program whose steps are the stretches      *)
(* between two awaits, so tasks interleave at every GitHub, ship and LLM   *)
(* call and a restart kills them anywhere.                                 *)
(*                                                                         *)
(* A body is a version number: the n-th text ever written for the draft.   *)
(* 0 stands for "none" wherever a version or a pull-request index is.      *)
(***************************************************************************)
EXTENDS Naturals, Sequences, FiniteSets

CONSTANTS Drafts,       \* DRAFT- and TWEET- ids
          LinkedIn,     \* the drafts whose surface is LinkedIn; the rest are X
          Tasks,        \* concurrently running tasks of the process
          Number,       \* Number[d][i]: GitHub number of the i-th PR of d
          Ops,          \* which handlers are started in this instance
          Faults,       \* which failures happen in this instance
          MaxVersion,   \* bound: texts written per draft
          MaxPulls,     \* bound: pull requests opened per draft
          MaxShips,     \* bound: public posts per draft
          NoDraft,      \* the draft of an idle task
          NoRow,        \* no SQLite row
          NoKey         \* no pull-request number

AllOps == {"hook", "accept", "retry", "rework", "delete"}

\* crash: the process restarts.      lost: an HTTP call took effect, its answer is lost.
\* sqlite: a best-effort write fails. leak: a guard is dropped on a contended lock.
\* manual_merge, close: a person merges / closes a pull request in the GitHub UI.
AllFaults == {"crash", "lost", "sqlite", "leak", "manual_merge", "close"}

ASSUME PipelineAssumption ==
    /\ LinkedIn \subseteq Drafts
    /\ NoDraft \notin Drafts
    /\ Ops \subseteq AllOps
    /\ Faults \subseteq AllFaults
    /\ MaxVersion \in Nat \ {0}
    /\ MaxPulls \in Nat
    /\ MaxShips \in Nat
    /\ Number \in [Drafts -> [1..MaxPulls -> Nat]]
    /\ NoKey \notin Nat

VARIABLES row,      \* drafts table
          pulls,    \* pull requests per draft, oldest first
          posts,    \* body merged on the posts / tweets branch
          audited,  \* drafts with an `ok` row in publish_audit
          public,   \* what went out on company LinkedIn / X, oldest first
          written,  \* texts written so far
          task,     \* the running tasks
          inflight  \* bat_promote_inflight

vars == <<row, pulls, posts, audited, public, written, task, inflight>>

-------------------------------------------------------------------------------
Statuses == {"open", "accepted", "published"}
Versions == 0..MaxVersion
Shippers == {"hook", "accept", "retry", "reship"}

Row == [status : Statuses, body : 1..MaxVersion, pr : 0..MaxPulls]

ASSUME RowAssumption == NoRow \notin Row

\* `approvals` are the heads at which the BAT reviewer approved.
PullRequest == [state : {"open", "closed", "merged"},
                head : 1..MaxVersion,
                approvals : SUBSET (1..MaxVersion)]

Post == [body : 1..MaxVersion, by : Shippers, pull : 0..MaxPulls]

Pcs == {"idle", "cite", "resolve", "push", "create", "record", "recordpr",
        "load", "readiness", "read", "merge", "sync", "dedupe", "ship",
        "audit", "mark", "markopen", "write", "closepr", "drop"}

\* `pull` is the PR a task works on, `body` the text it holds, `pr` the PR
\* coordinates of the row it read.
Task == [op : AllOps \cup {"idle", "reship"}, pc : Pcs,
         draft : Drafts \cup {NoDraft},
         pull : 0..MaxPulls, body : Versions, pr : 0..MaxPulls]

Numbers == {Number[d][i] : d \in Drafts, i \in 1..MaxPulls}

IdleTask == [op |-> "idle", pc |-> "idle", draft |-> NoDraft,
             pull |-> 0, body |-> 0, pr |-> 0]

TypeOK ==
    /\ row \in [Drafts -> Row \cup {NoRow}]
    /\ pulls \in [Drafts -> Seq(PullRequest)]
    /\ posts \in [Drafts -> Versions]
    /\ audited \subseteq Drafts
    /\ public \in [Drafts -> Seq(Post)]
    /\ written \in [Drafts -> 1..MaxVersion]
    /\ task \in [Tasks -> Task]
    /\ inflight \subseteq Numbers
    /\ \A d \in Drafts : Len(pulls[d]) <= MaxPulls /\ Len(public[d]) <= MaxShips

\* A freshly built draft is open and has no pull request.
Init ==
    /\ row = [d \in Drafts |-> [status |-> "open", body |-> 1, pr |-> 0]]
    /\ pulls = [d \in Drafts |-> <<>>]
    /\ posts = [d \in Drafts |-> 0]
    /\ audited = {}
    /\ public = [d \in Drafts |-> <<>>]
    /\ written = [d \in Drafts |-> 1]
    /\ task = [t \in Tasks |-> IdleTask]
    /\ inflight = {}

-------------------------------------------------------------------------------
HasRow(d) == row[d] # NoRow
Approved(pr) == pr.approvals # {}
OpenPulls(d) == {i \in 1..Len(pulls[d]) : pulls[d][i].state = "open"}
SetState(d, i, state) == [pulls EXCEPT ![d][i].state = state]
KeyOf(t) == Number[task[t].draft][task[t].pull]

Start(t, fields) ==
    /\ task[t].op = "idle"
    /\ task' = [task EXCEPT ![t] = fields]

At(t, pc) == task[t].pc = pc
Goto(t, pc) == task' = [task EXCEPT ![t].pc = pc]

\* A handler returns.  A webhook wake drops its PrPromoteGuard on the way out;
\* the drop forgets the number when the lock is contended.
End(t) ==
    /\ task' = [task EXCEPT ![t] = IdleTask]
    /\ IF task[t].op = "hook"
         THEN \/ inflight' = inflight \ {KeyOf(t)}
              \/ "leak" \in Faults /\ UNCHANGED inflight
         ELSE UNCHANGED inflight

\* mark_status_from: the status moves only from the expected one.
Move(d, from, to) ==
    IF HasRow(d) /\ row[d].status = from
      THEN row' = [row EXCEPT ![d].status = to]
      ELSE UNCHANGED row

-------------------------------------------------------------------------------
\* Mutant: the wake does not ask whether the number is in flight.
HookStartUnguarded(t, d, i) ==
    /\ "hook" \in Ops
    /\ i \in 1..Len(pulls[d])
    /\ Start(t, [op |-> "hook", pc |-> "readiness", draft |-> d,
                 pull |-> i, body |-> 0, pr |-> 0])
    /\ inflight' = inflight \cup {Number[d][i]}
    /\ UNCHANGED <<row, pulls, posts, audited, public, written>>

\* Webhook wakes (hooks/github.rs).  GitHub may deliver, lose or repeat a wake
\* for any pull request at any time; a number already in flight is refused.
HookStart(t, d, i) ==
    /\ "hook" \in Ops
    /\ i \in 1..Len(pulls[d])
    /\ Number[d][i] \notin inflight
    /\ Start(t, [op |-> "hook", pc |-> "readiness", draft |-> d,
                 pull |-> i, body |-> 0, pr |-> 0])
    /\ inflight' = inflight \cup {Number[d][i]}
    /\ UNCHANGED <<row, pulls, posts, audited, public, written>>

\* Mutant: the reviews are read and not looked at.
ReadinessUnreviewed(t) ==
    /\ At(t, "readiness")
    /\ Goto(t, "read")
    /\ UNCHANGED <<row, pulls, posts, audited, public, written, inflight>>

\* Any review in state `approved` by the reviewer makes the PR ready, at
\* whatever head it was given; otherwise the handler answers and returns.
Readiness(t) ==
    /\ At(t, "readiness")
    /\ IF Approved(pulls[task[t].draft][task[t].pull])
         THEN Goto(t, "read") /\ UNCHANGED inflight
         ELSE End(t)
    /\ UNCHANGED <<row, pulls, posts, audited, public, written>>

\* first_artefact_body_md: the body that will be shipped is read before the merge.
ReadBody(t) ==
    /\ At(t, "read")
    /\ task' = [task EXCEPT ![t].body = pulls[task[t].draft][task[t].pull].head,
                            ![t].pc = "merge"]
    /\ UNCHANGED <<row, pulls, posts, audited, public, written, inflight>>

AfterMerge(t) ==
    IF task[t].draft \in LinkedIn THEN "sync"
    ELSE IF task[t].op = "hook" THEN "dedupe" ELSE "ship"

\* merge_pull_squash_on merges the head of the moment; "already merged" is ok,
\* a PR closed unmerged is an error.
Merge(t) ==
    LET d == task[t].draft
        i == task[t].pull
    IN /\ At(t, "merge")
       /\ pulls[d][i].state # "closed"
       /\ IF pulls[d][i].state = "open"
            THEN /\ pulls' = SetState(d, i, "merged")
                 /\ posts' = [posts EXCEPT ![d] = pulls[d][i].head]
            ELSE UNCHANGED <<pulls, posts>>
       /\ \/ Goto(t, AfterMerge(t)) /\ UNCHANGED inflight
          \/ "lost" \in Faults /\ End(t)
       /\ UNCHANGED <<row, audited, public, written>>

\* The org drafts mirror of a LinkedIn post is written; when that fails the
\* promotion fails although the pull request is merged (Fail).
SyncMirror(t) ==
    /\ At(t, "sync")
    /\ Goto(t, IF task[t].op = "hook" THEN "dedupe" ELSE "ship")
    /\ UNCHANGED <<row, pulls, posts, audited, public, written, inflight>>

\* Mutant: the branches of the dedupe are swapped.
DedupeInverted(t) ==
    /\ At(t, "dedupe")
    /\ Goto(t, IF task[t].draft \in audited THEN "ship" ELSE "mark")
    /\ UNCHANGED <<row, pulls, posts, audited, public, written, inflight>>

\* Mutant: the audit is not asked.
DedupeSkipped(t) ==
    /\ At(t, "dedupe")
    /\ Goto(t, "ship")
    /\ UNCHANGED <<row, pulls, posts, audited, public, written, inflight>>

\* existing_ok_ship_detail, in webhook wakes only.
Dedupe(t) ==
    /\ At(t, "dedupe")
    /\ Goto(t, IF task[t].draft \in audited THEN "mark" ELSE "ship")
    /\ UNCHANGED <<row, pulls, posts, audited, public, written, inflight>>

\* ship_company_post / ship_x_post reach the public surface.
Ship(t) ==
    LET d == task[t].draft
        post == [body |-> task[t].body, by |-> task[t].op, pull |-> task[t].pull]
    IN /\ At(t, "ship")
       /\ Len(public[d]) < MaxShips
       /\ public' = [public EXCEPT ![d] = Append(@, post)]
       /\ \/ Goto(t, "audit") /\ UNCHANGED inflight
          \/ "lost" \in Faults /\ End(t)
       /\ UNCHANGED <<row, pulls, posts, audited, written>>

\* The ok row of the audit; a failed insert is only logged.
Audit(t) ==
    /\ At(t, "audit")
    /\ \/ audited' = audited \cup {task[t].draft}
       \/ "sqlite" \in Faults /\ UNCHANGED audited
    /\ Goto(t, "mark")
    /\ UNCHANGED <<row, pulls, posts, public, written, inflight>>

MarkAccepted(t) ==
    /\ At(t, "mark")
    /\ \/ Move(task[t].draft, "accepted", "published")
       \/ "sqlite" \in Faults /\ UNCHANGED row
    /\ Goto(t, "markopen")
    /\ UNCHANGED <<pulls, posts, audited, public, written, inflight>>

MarkOpen(t) ==
    /\ At(t, "markopen")
    /\ \/ Move(task[t].draft, "open", "published")
       \/ "sqlite" \in Faults /\ UNCHANGED row
    /\ End(t)
    /\ UNCHANGED <<pulls, posts, audited, public, written>>

-------------------------------------------------------------------------------
\* /accept (accept_surface): load and gate.
AcceptLoad(t, d) ==
    /\ "accept" \in Ops
    /\ HasRow(d)
    /\ row[d].status \in {"open", "accepted"}
    /\ Start(t, [op |-> "accept", pc |-> "cite", draft |-> d,
                 pull |-> 0, body |-> row[d].body, pr |-> row[d].pr])
    /\ UNCHANGED <<row, pulls, posts, audited, public, written, inflight>>

\* Mutant: the row is marked before the pull request is looked for.
CiteMarksAccepted(t) ==
    /\ At(t, "cite")
    /\ Move(task[t].draft, "open", "accepted")
    /\ Goto(t, "resolve")
    /\ UNCHANGED <<pulls, posts, audited, public, written, inflight>>

\* require_ship_cite_reachable answers yes; no is Fail.
CiteReachable(t) ==
    /\ At(t, "cite")
    /\ Goto(t, "resolve")
    /\ UNCHANGED <<row, pulls, posts, audited, public, written, inflight>>

\* resolve_existing_pr: the coordinates of the row are trusted as they are;
\* without them an open PR with the draft's head branch is looked for.
Resolve(t) ==
    LET d == task[t].draft
        found == IF task[t].op = "accept" THEN "push" ELSE "recordpr"
    IN /\ At(t, "resolve")
       /\ \/ /\ task[t].pr # 0
             /\ task' = [task EXCEPT ![t].pull = task[t].pr, ![t].pc = found]
             /\ UNCHANGED inflight
          \/ /\ task[t].pr = 0
             /\ \E i \in OpenPulls(d) :
                   task' = [task EXCEPT ![t].pull = i, ![t].pc = found]
             /\ UNCHANGED inflight
          \/ /\ task[t].pr = 0
             /\ OpenPulls(d) = {}
             /\ IF task[t].op = "accept" THEN Goto(t, "create") /\ UNCHANGED inflight
                                         ELSE End(t)
       /\ UNCHANGED <<row, pulls, posts, audited, public, written>>

\* Files on the head branch of d: seen by its open pull request only.
BranchWrite(d, body) ==
    [i \in 1..Len(pulls[d]) |->
        IF pulls[d][i].state = "open" THEN [pulls[d][i] EXCEPT !.head = body]
                                      ELSE pulls[d][i]]

\* update_draft_pr_files
PushFiles(t) ==
    LET d == task[t].draft
    IN /\ At(t, "push")
       /\ pulls' = [pulls EXCEPT ![d] = BranchWrite(d, task[t].body)]
       /\ Goto(t, "record")
       /\ UNCHANGED <<row, posts, audited, public, written, inflight>>

\* open_pr_into: branch (an existing one is fine), files, then the pull request;
\* GitHub refuses a second open PR for the branch after the files are written.
CreatePull(t) ==
    LET d == task[t].draft
        pr == [state |-> "open", head |-> task[t].body, approvals |-> {}]
    IN /\ At(t, "create")
       /\ IF OpenPulls(d) # {}
            THEN pulls' = [pulls EXCEPT ![d] = BranchWrite(d, task[t].body)] /\ End(t)
            ELSE /\ Len(pulls[d]) < MaxPulls
                 /\ pulls' = [pulls EXCEPT ![d] = Append(@, pr)]
                 /\ \/ /\ task' = [task EXCEPT ![t].pull = Len(pulls[d]) + 1,
                                               ![t].pc = "record"]
                       /\ UNCHANGED inflight
                    \/ "lost" \in Faults /\ End(t)
       /\ UNCHANGED <<row, posts, audited, public, written>>

\* Mutant: the status moves from whatever it is.
RecordStatusAnyway(t) ==
    /\ At(t, "record")
    /\ IF HasRow(task[t].draft)
         THEN row' = [row EXCEPT ![task[t].draft].status = "accepted"]
         ELSE UNCHANGED row
    /\ Goto(t, "recordpr")
    /\ UNCHANGED <<pulls, posts, audited, public, written, inflight>>

\* mark_status(accepted): from open only; its result is ignored.
RecordStatus(t) ==
    /\ At(t, "record")
    /\ \/ Move(task[t].draft, "open", "accepted")
       \/ "sqlite" \in Faults /\ UNCHANGED row
    /\ Goto(t, "recordpr")
    /\ UNCHANGED <<pulls, posts, audited, public, written, inflight>>

\* set_fork_pr: no row, no effect.  Then promote_if_approved.
RecordPull(t) ==
    LET d == task[t].draft
    IN /\ At(t, "recordpr")
       /\ IF HasRow(d) THEN row' = [row EXCEPT ![d].pr = task[t].pull]
                       ELSE UNCHANGED row
       /\ Goto(t, "readiness")
       /\ UNCHANGED <<pulls, posts, audited, public, written, inflight>>

-------------------------------------------------------------------------------
\* Mutant: only an accepted row is shipped again.
RetryReshipAccepted(t, d) ==
    /\ "retry" \in Ops
    /\ posts[d] # 0
    /\ HasRow(d) /\ row[d].status = "accepted"
    /\ Start(t, [op |-> "reship", pc |-> "ship", draft |-> d,
                 pull |-> 0, body |-> posts[d], pr |-> 0])
    /\ UNCHANGED <<row, pulls, posts, audited, public, written, inflight>>

\* /retry_bat: what is already merged is shipped again, without looking at the
\* row, the audit or the reviews.
RetryReship(t, d) ==
    /\ "retry" \in Ops
    /\ posts[d] # 0
    /\ Start(t, [op |-> "reship", pc |-> "ship", draft |-> d,
                 pull |-> 0, body |-> posts[d], pr |-> 0])
    /\ UNCHANGED <<row, pulls, posts, audited, public, written, inflight>>

\* Nothing is merged: the row is loaded after the await on load_promoted.
RetryLoad(t, d) ==
    /\ "retry" \in Ops
    /\ posts[d] = 0
    /\ Start(t, [op |-> "retry", pc |-> "load", draft |-> d,
                 pull |-> 0, body |-> 0, pr |-> 0])
    /\ UNCHANGED <<row, pulls, posts, audited, public, written, inflight>>

\* Mutant: a row without coordinates is not worth looking for on GitHub.
RetryGateCoords(t) ==
    LET d == task[t].draft
    IN /\ At(t, "load")
       /\ IF HasRow(d) /\ row[d].status \in {"open", "accepted"} /\ row[d].pr # 0
            THEN /\ task' = [task EXCEPT ![t].pr = row[d].pr, ![t].pc = "resolve"]
                 /\ UNCHANGED inflight
            ELSE End(t)
       /\ UNCHANGED <<row, pulls, posts, audited, public, written>>

RetryGate(t) ==
    LET d == task[t].draft
    IN /\ At(t, "load")
       /\ IF HasRow(d) /\ row[d].status \in {"open", "accepted"}
            THEN /\ task' = [task EXCEPT ![t].pr = row[d].pr, ![t].pc = "resolve"]
                 /\ UNCHANGED inflight
            ELSE End(t)
       /\ UNCHANGED <<row, pulls, posts, audited, public, written>>

-------------------------------------------------------------------------------
\* /rework and /change_url: ensure_open_for_edit unlocks an accepted draft and
\* takes the snapshot whose coordinates the rewritten row will carry.
ReworkLoad(t, d) ==
    /\ "rework" \in Ops
    /\ HasRow(d)
    /\ row[d].status \in {"open", "accepted"}
    /\ row' = [row EXCEPT ![d].status = "open"]
    /\ Start(t, [op |-> "rework", pc |-> "write", draft |-> d,
                 pull |-> 0, body |-> 0, pr |-> row[d].pr])
    /\ UNCHANGED <<pulls, posts, audited, public, written, inflight>>

\* drafts_upsert.sql: everything is overwritten, status included; only missing
\* coordinates keep the stored ones.
Upsert(d, body, pr) ==
    LET stored == IF HasRow(d) THEN row[d].pr ELSE 0
    IN row' = [row EXCEPT ![d] = [status |-> "open", body |-> body,
                                  pr |-> IF pr # 0 THEN pr ELSE stored]]

\* The rewrite is ready and saved.
ReworkSave(t) ==
    LET d == task[t].draft
    IN /\ At(t, "write")
       /\ written[d] < MaxVersion
       /\ written' = [written EXCEPT ![d] = @ + 1]
       /\ Upsert(d, written[d] + 1, task[t].pr)
       /\ End(t)
       /\ UNCHANGED <<pulls, posts, audited, public>>

-------------------------------------------------------------------------------
\* /delete: the PR of a row that is not published is closed first.
DeleteLoad(t, d) ==
    /\ "delete" \in Ops
    /\ HasRow(d)
    /\ Start(t, [op |-> "delete",
                 pc |-> IF row[d].status = "published" \/ row[d].pr = 0
                          THEN "drop" ELSE "closepr",
                 draft |-> d, pull |-> row[d].pr, body |-> 0, pr |-> 0])
    /\ UNCHANGED <<row, pulls, posts, audited, public, written, inflight>>

\* close_pull_on: best effort, its failure is only reported.
ClosePull(t) ==
    LET d == task[t].draft
        i == task[t].pull
    IN /\ At(t, "closepr")
       /\ \/ /\ pulls[d][i].state = "open"
             /\ pulls' = SetState(d, i, "closed")
          \/ UNCHANGED pulls
       /\ Goto(t, "drop")
       /\ UNCHANGED <<row, posts, audited, public, written, inflight>>

DropRow(t) ==
    /\ At(t, "drop")
    /\ row' = [row EXCEPT ![task[t].draft] = NoRow]
    /\ End(t)
    /\ UNCHANGED <<pulls, posts, audited, public, written>>

-------------------------------------------------------------------------------
\* A handler gives up: an HTTP, LLM or publisher error before any effect, an
\* unreachable cite, a merge of a closed PR, a store that does not open.
Failing == {"cite", "resolve", "push", "create", "record", "recordpr", "load",
            "readiness", "read", "merge", "sync", "ship", "write"}

Fail(t) ==
    /\ task[t].pc \in Failing
    /\ End(t)
    /\ UNCHANGED <<row, pulls, posts, audited, public, written>>

\* The BAT reviewer approves the head of an open pull request.
Approve(d, i) ==
    /\ i \in OpenPulls(d)
    /\ pulls' = [pulls EXCEPT ![d][i].approvals = @ \cup {pulls[d][i].head}]
    /\ UNCHANGED <<row, posts, audited, public, written, task, inflight>>

\* A person closes, or merges without a review, in the GitHub UI.
CloseByHand(d, i) ==
    /\ "close" \in Faults
    /\ i \in OpenPulls(d)
    /\ pulls' = SetState(d, i, "closed")
    /\ UNCHANGED <<row, posts, audited, public, written, task, inflight>>

MergeByHand(d, i) ==
    /\ "manual_merge" \in Faults
    /\ i \in OpenPulls(d)
    /\ pulls' = SetState(d, i, "merged")
    /\ posts' = [posts EXCEPT ![d] = pulls[d][i].head]
    /\ UNCHANGED <<row, audited, public, written, task, inflight>>

\* The process restarts: every task is lost, SQLite and GitHub stay.
Crash ==
    /\ "crash" \in Faults
    /\ task' = [t \in Tasks |-> IdleTask]
    /\ inflight' = {}
    /\ UNCHANGED <<row, pulls, posts, audited, public, written>>

-------------------------------------------------------------------------------
Promote(t) ==
    \/ Readiness(t) \/ ReadBody(t) \/ Merge(t) \/ SyncMirror(t) \/ Dedupe(t)
    \/ Ship(t) \/ Audit(t) \/ MarkAccepted(t) \/ MarkOpen(t)

Submit(t) ==
    \/ CiteReachable(t) \/ Resolve(t) \/ PushFiles(t) \/ CreatePull(t)
    \/ RecordStatus(t) \/ RecordPull(t) \/ RetryGate(t)

Edit(t) == ReworkSave(t) \/ ClosePull(t) \/ DropRow(t)

TaskStep(t) == Promote(t) \/ Submit(t) \/ Edit(t) \/ Fail(t)

Command(t, d) ==
    \/ AcceptLoad(t, d) \/ RetryReship(t, d) \/ RetryLoad(t, d)
    \/ ReworkLoad(t, d) \/ DeleteLoad(t, d)

Github(d, i) == Approve(d, i) \/ CloseByHand(d, i) \/ MergeByHand(d, i)

Next ==
    \/ \E t \in Tasks, d \in Drafts : Command(t, d)
    \/ \E t \in Tasks, d \in Drafts, i \in 1..MaxPulls : HookStart(t, d, i)
    \/ \E t \in Tasks : TaskStep(t)
    \/ \E d \in Drafts, i \in 1..MaxPulls : Github(d, i)
    \/ Crash

Spec == Init /\ [][Next]_vars

\* For recovery: the operator runs /retry_bat again and again, GitHub and the
\* publisher answer every call (the code sets no timeout of its own), and none
\* of them refuses the same step for ever.
Retries(t) == task[t].op \in {"retry", "reship"}

RetryFairness ==
    /\ \A d \in Drafts :
          SF_vars(\E t \in Tasks : RetryReship(t, d) \/ RetryLoad(t, d))
    /\ \A t \in Tasks :
          /\ WF_vars(TaskStep(t))
          /\ SF_vars(Retries(t) /\ RetryGate(t))
          /\ SF_vars(Retries(t) /\ Resolve(t))
          /\ SF_vars(Retries(t) /\ RecordPull(t))
          /\ SF_vars(Retries(t) /\ Readiness(t))
          /\ SF_vars(Retries(t) /\ ReadBody(t))
          /\ SF_vars(Retries(t) /\ Merge(t))
          /\ SF_vars(Retries(t) /\ SyncMirror(t))
          /\ SF_vars(Retries(t) /\ Ship(t))

FairSpec == Spec /\ RetryFairness

-------------------------------------------------------------------------------
\* The text published for pull request i of d (0: read from the posts branch)
\* went through a merged pull request with an approval.
CameFromApproved(d, i) ==
    \E j \in 1..Len(pulls[d]) :
        /\ i \in {0, j}
        /\ pulls[d][j].state = "merged"
        /\ Approved(pulls[d][j])

\* The publish gate of docs/principles.md: whatever went out came from a merged
\* pull request with the reviewer's approval, by whichever handler, after
\* crashes, lost answers and edits.
OnlyApprovedPullsGoPublic ==
    \A d \in Drafts : \A k \in 1..Len(public[d]) :
        CameFromApproved(d, public[d][k].pull)

\* `published` in SQLite and `ok` in the audit are true: the text is out.
PublishedIsPublic ==
    \A d \in Drafts :
        d \in audited \/ (HasRow(d) /\ row[d].status = "published")
            => public[d] # <<>>

\* Webhook wakes ship one pull request once, however often GitHub repeats them
\* and however they overlap (no restart and no lost answer in between).
HookShipsPullOnce ==
    \A d \in Drafts : \A j, k \in 1..Len(public[d]) :
        /\ public[d][j].by = "hook" /\ public[d][k].by = "hook"
        /\ public[d][j].pull = public[d][k].pull
        => j = k

\* A draft that is a Post stays one, as long as it is neither edited nor deleted.
PublishedIsFinal ==
    [][\A d \in Drafts :
          HasRow(d) /\ row[d].status = "published"
            => row'[d] # NoRow /\ row'[d].status = "published"]_vars

\* `accepted` means that a pull request waits for BAT: one was opened, and the
\* coordinates of any row name a pull request of that draft.
AcceptedHasPull ==
    \A d \in Drafts : HasRow(d) =>
        /\ row[d].status = "accepted" => pulls[d] # <<>>
        /\ row[d].pr <= Len(pulls[d])

\* /retry_bat recovers "promote succeeded and ship failed": what was merged goes
\* out in the end, whatever happened to the task that merged it and to the row.
MergedGoesPublic == \A d \in Drafts : posts[d] # 0 ~> public[d] # <<>>

\* /retry_bat recovers a "missed webhook": an approved pull request goes out in
\* the end although no webhook is ever delivered.
ApprovedGoesPublic ==
    \A d \in Drafts :
        (\E i \in OpenPulls(d) : Approved(pulls[d][i])) ~> public[d] # <<>>

\* The doc comment of retry_bat: it promotes "an approved open PR, then the
\* webhook ships"; one pull request is not shipped by both.
RetryLeavesShippingToHook ==
    \A d \in Drafts : \A j, k \in 1..Len(public[d]) :
        public[d][j].by = "retry" => public[d][k].by # "hook"

\* The doc comment of ship_promoted_post, "Ships the promoted Post body": what a
\* promotion publishes is the body its merge put on the posts branch.
ShippedBodyIsMerged ==
    \A d \in Drafts : \A k \in 1..Len(public[d]) :
        LET post == public[d][k]
        IN post.pull # 0 => post.body = pulls[d][post.pull].head

-------------------------------------------------------------------------------
\* What the proofs need besides the properties: where a task stands says what
\* has been approved, merged and shipped by then.
PullIndex(t) == task[t].pull \in 1..Len(pulls[task[t].draft])

TaskInv(t) ==
    LET d == task[t].draft
        i == task[t].pull
    IN /\ task[t].pc = "idle" <=> task[t].op = "idle"
       /\ task[t].pc \in {"write", "closepr", "drop"}
             <=> task[t].op \in {"rework", "delete"}
       /\ task[t].pc # "idle" => d \in Drafts
       /\ task[t].pc # "idle" => task[t].pr <= Len(pulls[d])
       /\ task[t].op = "hook" => PullIndex(t)
       /\ task[t].op = "accept" => task[t].body # 0
       /\ task[t].pc \in {"push", "create", "merge", "sync", "dedupe", "ship"}
             => task[t].body # 0
       /\ task[t].pc \in {"push", "record", "recordpr", "readiness", "closepr"}
             => PullIndex(t)
       /\ task[t].pc \in {"read", "merge"} => PullIndex(t) /\ Approved(pulls[d][i])
       /\ task[t].pc \in {"sync", "dedupe", "ship"} => CameFromApproved(d, i)
       /\ task[t].pc \in {"audit", "mark", "markopen"} => public[d] # <<>>

\* The inductive invariant behind OnlyApprovedPullsGoPublic, PublishedIsPublic
\* and AcceptedHasPull, when nobody merges without a review.
GateInv ==
    /\ TypeOK
    /\ \A t \in Tasks : TaskInv(t)
    /\ \A d \in Drafts : \A i \in 1..Len(pulls[d]) :
          pulls[d][i].state = "merged" => Approved(pulls[d][i])
    /\ \A d \in Drafts : posts[d] # 0 => CameFromApproved(d, 0)
    /\ OnlyApprovedPullsGoPublic
    /\ PublishedIsPublic
    /\ AcceptedHasPull

\* The webhook wakes: each holds its own number, and what they shipped is in the
\* audit or about to be, so the audit tells the next wake of the pull request.
HookPcs == {"readiness", "read", "merge", "sync", "dedupe", "ship", "audit",
            "mark", "markopen"}

HookKeysInv ==
    \A t \in Tasks : task[t].op = "hook" =>
        /\ task[t].pc \in HookPcs
        /\ KeyOf(t) \in inflight
        /\ \A u \in Tasks \ {t} : task[u].op = "hook" => KeyOf(u) # KeyOf(t)

\* A hook's task at step pc for pull request i of d.
HookAt(t, pc, d, i) ==
    task[t].op = "hook" /\ task[t].pc = pc /\ task[t].draft = d /\ task[t].pull = i

HookPostsInv ==
    \A d \in Drafts : \A k \in 1..Len(public[d]) :
        public[d][k].by = "hook" =>
            /\ d \in audited \/ \E t \in Tasks : HookAt(t, "audit", d, public[d][k].pull)
            /\ \A t \in Tasks : ~HookAt(t, "ship", d, public[d][k].pull)

HookInv == HookKeysInv /\ HookPostsInv

-------------------------------------------------------------------------------
\* Seen from the reviewer, the pipeline is BatGate: approvals, merges of what
\* was approved, publications of what was merged.
approvedOf == [d \in Drafts |->
    {i \in 1..MaxPulls : i <= Len(pulls[d]) /\ Approved(pulls[d][i])}]
mergedOf == [d \in Drafts |->
    {i \in 1..MaxPulls : i <= Len(pulls[d]) /\ pulls[d][i].state = "merged"}]
liveOf == [d \in Drafts |-> Len(public[d])]

Gate == INSTANCE BatGate WITH
    Pulls <- 1..MaxPulls, approved <- approvedOf, merged <- mergedOf, live <- liveOf

GateSafety == Gate!GateSpec

\* The webhook wakes go through the key token of PromoteToken.
holderOf == [t \in Tasks |-> IF task[t].op = "hook" THEN KeyOf(t) ELSE NoKey]

Token == INSTANCE PromoteToken WITH
    Wakes <- Tasks, Keys <- Numbers, holder <- holderOf

TokenSafety == Token!TokenSpec
===============================================================================
