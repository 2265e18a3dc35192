--------------------------- MODULE BatPipelineProofs ---------------------------
(***************************************************************************)
(* Proofs about BatPipeline for any drafts, tasks, handlers, numbering and *)
(* bounds, and any faults except a merge by hand: the inductive invariant  *)
(* GateInv and the publish gate that follows from it.                      *)
(*                                                                         *)
(* And what the pipeline implements.  Under the refinement mapping of      *)
(* BatPipeline every step is a step of the publish gate BatGate or leaves  *)
(* it unchanged; the webhook wakes go through the key token of             *)
(* PromoteToken whatever fails, and, while the process neither restarts    *)
(* nor loses an answer or a write, they ship each pull request once.       *)
(* A draft that is a Post stays one until it is edited or dropped.         *)
(***************************************************************************)
EXTENDS BatPipeline, SequenceTheorems, TLAPS

\* Replacing one element of a sequence keeps its length and the other elements.
LEMMA ReplaceInSeq ==
    ASSUME NEW S, NEW s \in Seq(S), NEW i \in 1..Len(s), NEW x \in S
    PROVE  LET r == [s EXCEPT ![i] = x]
           IN /\ r \in Seq(S)
              /\ Len(r) = Len(s)
              /\ \A j \in 1..Len(s) : r[j] = IF j = i THEN x ELSE s[j]
  BY ExceptSeq

\* What every step does to the pull requests: none disappears, a merged one
\* stays merged and an approval stays.
Grows ==
    \A d \in Drafts :
        /\ Len(pulls[d]) <= Len(pulls'[d])
        /\ \A i \in 1..Len(pulls[d]) :
              /\ pulls[d][i].state = "merged" => pulls'[d][i].state = "merged"
              /\ Approved(pulls[d][i]) => Approved(pulls'[d][i])

StaysPublic == \A d \in Drafts : public[d] # <<>> => public'[d] # <<>>

\* Provenance, once established, is never lost.
LEMMA CameFromApprovedStable ==
    ASSUME TypeOK, TypeOK', Grows, NEW d \in Drafts, NEW i \in Nat,
           CameFromApproved(d, i)
    PROVE  CameFromApproved(d, i)'
<1>1. PICK j \in 1..Len(pulls[d]) :
        /\ i \in {0, j}
        /\ pulls[d][j].state = "merged"
        /\ Approved(pulls[d][j])
  BY DEF CameFromApproved
<1>2. j \in 1..Len(pulls'[d])
  BY DEF Grows, TypeOK
<1>3. pulls'[d][j].state = "merged" /\ Approved(pulls'[d][j])
  BY <1>1 DEF Grows
<1> QED
  BY <1>1, <1>2, <1>3 DEF CameFromApproved, Approved

\* A task that a step leaves alone keeps its part of the invariant.
LEMMA TaskInvStable ==
    ASSUME TypeOK, TypeOK', Grows, StaysPublic,
           NEW u \in Tasks, task'[u] = task[u], TaskInv(u)
    PROVE  TaskInv(u)'
<1> DEFINE d == task[u].draft
           i == task[u].pull
<1>1. task[u] \in Task /\ i \in Nat /\ task[u].pr \in Nat
  BY PipelineAssumption DEF TypeOK, Task
<1>2. CASE task[u].pc = "idle"
  BY <1>2, <1>1 DEF TaskInv, PullIndex
<1>3. CASE task[u].pc # "idle"
  <2>1. d \in Drafts
    BY <1>3 DEF TaskInv
  <2>2. Len(pulls[d]) \in Nat /\ Len(pulls'[d]) \in Nat
        /\ Len(pulls[d]) <= Len(pulls'[d])
    BY <2>1 DEF Grows, TypeOK
  <2>3. PullIndex(u) => PullIndex(u)' /\ (Approved(pulls[d][i]) => Approved(pulls'[d][i]))
    BY <2>1, <2>2, <1>1 DEF PullIndex, Grows
  <2>4. CameFromApproved(d, i) => CameFromApproved(d, i)'
    BY <1>1, <2>1, CameFromApprovedStable
  <2>5. public[d] # <<>> => public'[d] # <<>>
    BY <2>1 DEF StaysPublic
  <2> QED
    BY SMTT(30), <1>1, <2>1, <2>2, <2>3, <2>4, <2>5 DEF TaskInv
<1> QED
  BY <1>2, <1>3

\* A step of task t that changes nothing public, on GitHub or in the audit.
LEMMA QuietStep ==
    ASSUME GateInv, NEW t \in Tasks, NEW x \in Task,
           task' = [task EXCEPT ![t] = x], TaskInv(t)',
           UNCHANGED <<pulls, posts, audited, public>>,
           written' \in [Drafts -> 1..MaxVersion],
           inflight' \subseteq Numbers,
           row' \in [Drafts -> Row \cup {NoRow}],
           PublishedIsPublic', AcceptedHasPull'
    PROVE  GateInv'
<1>1. TypeOK'
  BY DEF GateInv, TypeOK
<1>2. Grows /\ StaysPublic
  BY DEF Grows, StaysPublic, GateInv, TypeOK, Approved
<1>3. ASSUME NEW u \in Tasks
      PROVE  TaskInv(u)'
  <2>1. CASE u = t
    BY <2>1
  <2>2. CASE u # t
    <3>1. task'[u] = task[u]
      BY <2>2 DEF GateInv, TypeOK
    <3> QED
      BY <1>1, <1>2, <3>1, TaskInvStable DEF GateInv
  <2> QED
    BY <2>1, <2>2
<1>4. \A d \in Drafts : \A i \in 1..Len(pulls'[d]) :
          pulls'[d][i].state = "merged" => Approved(pulls'[d][i])
  BY DEF GateInv, Approved
<1>5. \A d \in Drafts : posts'[d] # 0 => CameFromApproved(d, 0)'
  BY DEF GateInv, CameFromApproved, Approved
<1>6. OnlyApprovedPullsGoPublic'
  BY DEF GateInv, OnlyApprovedPullsGoPublic, CameFromApproved, Approved
<1> QED
  BY <1>1, <1>3, <1>4, <1>5, <1>6 DEF GateInv, Approved

\* A step that rewrites the pull requests of draft e: none is taken away, what
\* was merged or approved stays so, and what it merges was approved.
LEMMA PullStep ==
    ASSUME GateInv, NEW e \in Drafts, NEW s \in Seq(PullRequest),
           pulls' = [pulls EXCEPT ![e] = s],
           Len(pulls[e]) <= Len(s), Len(s) <= MaxPulls,
           \A i \in 1..Len(pulls[e]) :
               /\ pulls[e][i].state = "merged" => s[i].state = "merged"
               /\ Approved(pulls[e][i]) => Approved(s[i]),
           \A i \in 1..Len(s) : s[i].state = "merged" => Approved(s[i]),
           UNCHANGED <<row, audited, public, written>>,
           posts' \in [Drafts -> Versions],
           \A d \in Drafts : posts'[d] # posts[d] => CameFromApproved(d, 0)',
           task' \in [Tasks -> Task], inflight' \subseteq Numbers,
           \A u \in Tasks : task'[u] = task[u] \/ TaskInv(u)'
    PROVE  GateInv'
<1>1. TypeOK'
  BY DEF GateInv, TypeOK
<1>2. Grows /\ StaysPublic
  <2>1. StaysPublic
    BY DEF StaysPublic
  <2>2. ASSUME NEW d \in Drafts
        PROVE  /\ Len(pulls[d]) <= Len(pulls'[d])
               /\ \A i \in 1..Len(pulls[d]) :
                     /\ pulls[d][i].state = "merged" => pulls'[d][i].state = "merged"
                     /\ Approved(pulls[d][i]) => Approved(pulls'[d][i])
    <3>1. CASE d = e
      BY <3>1 DEF GateInv, TypeOK
    <3>2. CASE d # e
      BY <3>2 DEF GateInv, TypeOK
    <3> QED
      BY <3>1, <3>2
  <2> QED
    BY <2>1, <2>2 DEF Grows, Approved
<1>3. \A u \in Tasks : TaskInv(u)'
  BY <1>1, <1>2, TaskInvStable DEF GateInv
<1>4. \A d \in Drafts : \A i \in 1..Len(pulls'[d]) :
          pulls'[d][i].state = "merged" => Approved(pulls'[d][i])
  BY DEF GateInv, TypeOK, Approved
<1>5. \A d \in Drafts : posts'[d] # 0 => CameFromApproved(d, 0)'
  BY <1>1, <1>2, CameFromApprovedStable DEF GateInv
<1>6. OnlyApprovedPullsGoPublic'
  <2> SUFFICES ASSUME NEW d \in Drafts, NEW k \in 1..Len(public[d])
               PROVE  CameFromApproved(d, public[d][k].pull)'
    BY DEF OnlyApprovedPullsGoPublic
  <2>1. public[d][k].pull \in Nat
    <3>1. public[d] \in Seq(Post)
      BY DEF GateInv, TypeOK
    <3>2. public[d][k] \in Post
      BY <3>1
    <3> QED
      BY <3>2, PipelineAssumption DEF Post
  <2>2. PICK n \in Nat : n = public[d][k].pull
    BY <2>1
  <2>3. CameFromApproved(d, n)
    BY <2>2 DEF GateInv, OnlyApprovedPullsGoPublic
  <2>4. CameFromApproved(d, n)'
    BY <1>1, <1>2, <2>3, CameFromApprovedStable DEF GateInv
  <2>5. n = public'[d][k].pull
    BY <2>2
  <2> QED
    BY <2>4, <2>5 DEF CameFromApproved
<1>7. PublishedIsPublic'
  BY DEF GateInv, PublishedIsPublic, HasRow
<1>8. AcceptedHasPull'
  BY <1>1, <1>2 DEF GateInv, AcceptedHasPull, HasRow, TypeOK, Grows, Row
<1> QED
  BY <1>1, <1>3, <1>4, <1>5, <1>6, <1>7, <1>8 DEF GateInv, Approved

\* A step of task t that changes nothing but the task and the in-flight set.
LEMMA TaskOnlyStep ==
    ASSUME GateInv, NEW t \in Tasks, NEW x \in Task,
           task' = [task EXCEPT ![t] = x], TaskInv(t)',
           UNCHANGED <<row, pulls, posts, audited, public, written>>,
           inflight' \subseteq Numbers
    PROVE  GateInv'
<1>1. PublishedIsPublic'
  BY DEF GateInv, PublishedIsPublic, HasRow
<1>2. AcceptedHasPull'
  BY DEF GateInv, AcceptedHasPull, HasRow
<1>3. row' \in [Drafts -> Row \cup {NoRow}] /\ written' \in [Drafts -> 1..MaxVersion]
  BY DEF GateInv, TypeOK
<1> QED
  BY <1>1, <1>2, <1>3, QuietStep

\* A handler that returns leaves an idle task, whatever its guard's drop did.
LEMMA EndTask ==
    ASSUME GateInv, NEW t \in Tasks, End(t)
    PROVE  /\ IdleTask \in Task
           /\ task' = [task EXCEPT ![t] = IdleTask]
           /\ TaskInv(t)'
           /\ inflight' \subseteq Numbers
<1>1. IdleTask \in Task
  BY PipelineAssumption DEF IdleTask, Task, Pcs, Versions
<1>2. task' = [task EXCEPT ![t] = IdleTask] /\ inflight' \subseteq Numbers
  BY DEF End, GateInv, TypeOK
<1>3. task'[t] = IdleTask
  BY <1>2 DEF GateInv, TypeOK
<1>4. TaskInv(t)'
  BY <1>3 DEF TaskInv, IdleTask
<1> QED
  BY <1>1, <1>2, <1>4

\* A handler that returns without any effect of its own.
LEMMA EndOnlyStep ==
    ASSUME GateInv, NEW t \in Tasks, End(t),
           UNCHANGED <<row, pulls, posts, audited, public, written>>
    PROVE  GateInv'
  BY EndTask, TaskOnlyStep

\* What is known of a running task.
LEMMA RunningTask ==
    ASSUME GateInv, NEW t \in Tasks, task[t].pc # "idle"
    PROVE  /\ task[t] \in Task
           /\ task[t].draft \in Drafts
           /\ task[t].op # "idle"
           /\ task[t].pull \in 0..MaxPulls
           /\ task[t].pr \in 0..MaxPulls
           /\ pulls[task[t].draft] \in Seq(PullRequest)
           /\ Len(pulls[task[t].draft]) \in Nat
           /\ Len(pulls[task[t].draft]) <= MaxPulls
           /\ task[t].pr <= Len(pulls[task[t].draft])
           /\ TaskInv(t)
<1>1. task[t] \in Task /\ TaskInv(t)
  BY DEF GateInv, TypeOK
<1>2. task[t].draft \in Drafts /\ task[t].op # "idle"
      /\ task[t].pr <= Len(pulls[task[t].draft])
  BY <1>1 DEF TaskInv
<1>3. pulls[task[t].draft] \in Seq(PullRequest) /\ Len(pulls[task[t].draft]) <= MaxPulls
  BY <1>2 DEF GateInv, TypeOK
<1>4. task[t].pull \in 0..MaxPulls /\ task[t].pr \in 0..MaxPulls
  BY <1>1 DEF Task
<1> QED
  BY <1>1, <1>2, <1>3, <1>4

\* Moving on to another step keeps everything else of the task.
LEMMA GotoTask ==
    ASSUME GateInv, NEW t \in Tasks, NEW pc \in Pcs, Goto(t, pc)
    PROVE  /\ [task[t] EXCEPT !.pc = pc] \in Task
           /\ task' = [task EXCEPT ![t] = [task[t] EXCEPT !.pc = pc]]
           /\ task'[t].pc = pc
           /\ task'[t].op = task[t].op
           /\ task'[t].draft = task[t].draft
           /\ task'[t].pull = task[t].pull
           /\ task'[t].body = task[t].body
           /\ task'[t].pr = task[t].pr
           /\ task' \in [Tasks -> Task]
<1>1. task[t] \in Task /\ task \in [Tasks -> Task]
  BY DEF GateInv, TypeOK
<1>2. [task[t] EXCEPT !.pc = pc] \in Task
  BY <1>1 DEF Task
<1>3. task' = [task EXCEPT ![t] = [task[t] EXCEPT !.pc = pc]]
  BY <1>1 DEF Goto
<1>4. task' \in [Tasks -> Task]
  BY <1>1, <1>2, <1>3
<1> QED
  BY <1>1, <1>2, <1>3, <1>4 DEF Task

\* A step that only moves task t on.
LEMMA GotoOnlyStep ==
    ASSUME GateInv, NEW t \in Tasks, NEW pc \in Pcs, Goto(t, pc), TaskInv(t)',
           UNCHANGED <<row, pulls, posts, audited, public, written, inflight>>
    PROVE  GateInv'
  BY GotoTask, TaskOnlyStep DEF GateInv, TypeOK

\* Where a task may be moved to while pull requests and posts stay as they are.
LEMMA GotoKeepsTaskInv ==
    ASSUME GateInv, NEW t \in Tasks, NEW pc \in Pcs \ {"idle"}, Goto(t, pc),
           task[t].pc # "idle", UNCHANGED <<pulls, public>>,
           pc \in {"write", "closepr", "drop"} <=> task[t].op \in {"rework", "delete"},
           pc \in {"push", "record", "recordpr", "readiness", "closepr", "read", "merge"}
               => PullIndex(t),
           pc \in {"read", "merge"} => Approved(pulls[task[t].draft][task[t].pull]),
           pc \in {"sync", "dedupe", "ship"}
               => CameFromApproved(task[t].draft, task[t].pull),
           pc \in {"audit", "mark", "markopen"} => public[task[t].draft] # <<>>,
           pc \in {"push", "create", "merge", "sync", "dedupe", "ship"}
               => task[t].body # 0
    PROVE  TaskInv(t)'
<1>1. /\ task'[t].pc = pc
      /\ task'[t].op = task[t].op
      /\ task'[t].draft = task[t].draft
      /\ task'[t].pull = task[t].pull
      /\ task'[t].body = task[t].body
      /\ task'[t].pr = task[t].pr
  BY GotoTask
<1>2. PullIndex(t)' <=> PullIndex(t)
  BY <1>1 DEF PullIndex
<1>3. CameFromApproved(task[t].draft, task[t].pull)'
        <=> CameFromApproved(task[t].draft, task[t].pull)
  BY <1>1 DEF CameFromApproved, Approved
<1> QED
  BY <1>1, <1>2, <1>3, RunningTask DEF TaskInv, Approved

-------------------------------------------------------------------------------
\* The promotion steps preserve the invariant.
LEMMA ReadinessStep ==
    ASSUME GateInv, NEW t \in Tasks, Readiness(t)
    PROVE  GateInv'
<1> DEFINE d == task[t].draft
           i == task[t].pull
<1>1. CASE Approved(pulls[d][i])
  <2>1. Goto(t, "read") /\ inflight' = inflight
    BY <1>1 DEF Readiness
  <2>2. task[t].pc = "readiness"
    BY DEF Readiness, At
  <2>3. UNCHANGED <<row, pulls, posts, audited, public, written>>
    BY DEF Readiness
  <2>4. "read" \in Pcs
    BY DEF Pcs
  <2>5. TaskInv(t)'
    BY ZenonT(40), <1>1, <2>1, <2>2, <2>3, <2>4, GotoTask, RunningTask DEF TaskInv, PullIndex, Approved
  <2>6. inflight' \subseteq Numbers
    BY <2>1 DEF GateInv, TypeOK
  <2> QED
    BY <2>1, <2>3, <2>4, <2>5, <2>6, GotoTask, TaskOnlyStep
<1>2. CASE ~Approved(pulls[d][i])
  BY <1>2, EndOnlyStep DEF Readiness
<1> QED
  BY <1>1, <1>2

LEMMA ReadBodyStep ==
    ASSUME GateInv, NEW t \in Tasks, ReadBody(t)
    PROVE  GateInv'
<1> DEFINE d == task[t].draft
           i == task[t].pull
           x == [task[t] EXCEPT !.body = pulls[d][i].head, !.pc = "merge"]
<1>1. task[t].pc = "read"
  BY DEF ReadBody, At
<1>2. i \in 1..Len(pulls[d]) /\ Approved(pulls[d][i])
  BY <1>1, RunningTask DEF TaskInv, PullIndex
<1>3. pulls[d][i] \in PullRequest
  BY <1>1, <1>2, RunningTask
<1>4. x \in Task
  <2>1. pulls[d][i].head \in Versions
    BY <1>3, PipelineAssumption DEF PullRequest, Versions
  <2>2. task[t] \in Task
    BY <1>1, RunningTask
  <2> QED
    BY <2>1, <2>2 DEF Task, Pcs
<1>5. task' = [task EXCEPT ![t] = x] /\ task'[t] = x
  BY DEF ReadBody, GateInv, TypeOK
<1>6. /\ x.op = task[t].op /\ x.pc = "merge" /\ x.draft = d /\ x.pull = i
      /\ x.pr = task[t].pr /\ x.body # 0
  BY <1>1, <1>3, RunningTask DEF Task, PullRequest
<1>7. UNCHANGED <<row, pulls, posts, audited, public, written, inflight>>
  BY DEF ReadBody
<1>8. TaskInv(t)'
  BY ZenonT(40), <1>1, <1>2, <1>5, <1>6, <1>7, RunningTask DEF TaskInv, PullIndex, Approved
<1> QED
  BY <1>4, <1>5, <1>7, <1>8, TaskOnlyStep DEF GateInv, TypeOK

\* Merging an open pull request, or finding it merged: the task's pull request
\* is approved, so the posts branch gets an approved text.
LEMMA MergeStep ==
    ASSUME GateInv, NEW t \in Tasks, Merge(t)
    PROVE  GateInv'
<1>1. task[t].pc = "merge"
  BY DEF Merge, At
<1>0. PICK d \in Drafts, i \in Nat : d = task[t].draft /\ i = task[t].pull
  BY <1>1, RunningTask
<1> DEFINE pr == [pulls[d][i] EXCEPT !.state = "merged"]
           s == [pulls[d] EXCEPT ![i] = pr]
<1>2. i \in 1..Len(pulls[d]) /\ Approved(pulls[d][i])
  BY <1>0, <1>1, RunningTask DEF TaskInv, PullIndex
<1>3. pulls[d] \in Seq(PullRequest) /\ pulls[d][i] \in PullRequest
  BY <1>0, <1>1, <1>2, RunningTask
<1>4. AfterMerge(t) \in Pcs \cap {"sync", "dedupe", "ship"}
  BY DEF AfterMerge, Pcs
<1>5. \/ Goto(t, AfterMerge(t)) /\ UNCHANGED inflight
      \/ End(t)
  BY DEF Merge
<1>6. task' \in [Tasks -> Task] /\ inflight' \subseteq Numbers
  <2>1. CASE Goto(t, AfterMerge(t)) /\ UNCHANGED inflight
    BY <2>1, <1>4, GotoTask DEF GateInv, TypeOK
  <2>2. CASE End(t)
    BY <2>2, EndTask DEF GateInv, TypeOK
  <2> QED
    BY <1>5, <2>1, <2>2
<1>7. \A u \in Tasks : u # t => task'[u] = task[u]
  BY <1>5 DEF Goto, End, GateInv, TypeOK
<1>8. UNCHANGED <<row, audited, public, written>>
  BY DEF Merge
<1>9. CameFromApproved(d, i)' => TaskInv(t)'
  <2> SUFFICES ASSUME CameFromApproved(d, i)' PROVE TaskInv(t)'
    OBVIOUS
  <2>1. CASE Goto(t, AfterMerge(t))
    <3>1. Len(pulls'[d]) = Len(pulls[d])
      BY SMTT(30), <1>0, <1>2, <1>3 DEF Merge, SetState, GateInv, TypeOK
    <3>2. /\ task'[t].pc = AfterMerge(t)
          /\ task'[t].op = task[t].op
          /\ task'[t].draft = d
          /\ task'[t].pull = i
          /\ task'[t].body = task[t].body
          /\ task'[t].pr = task[t].pr
      BY <2>1, <1>0, <1>4, GotoTask
    <3>3. CameFromApproved(task[t].draft, task[t].pull)' /\ PullIndex(t)'
      BY <1>2, <3>1, <3>2 DEF CameFromApproved, PullIndex
    <3> QED
      BY <3>1, <3>2, <3>3, <1>0, <1>1, <1>4, RunningTask DEF TaskInv
  <2>2. CASE End(t)
    BY <2>2, EndTask
  <2> QED
    BY <1>5, <2>1, <2>2
<1>10. CASE pulls[d][i].state = "open"
  <2>1. pr \in PullRequest /\ pr.state = "merged" /\ pr.approvals = pulls[d][i].approvals
    BY <1>3 DEF PullRequest
  <2>2. /\ s \in Seq(PullRequest)
        /\ Len(s) = Len(pulls[d])
        /\ \A j \in 1..Len(pulls[d]) : s[j] = IF j = i THEN pr ELSE pulls[d][j]
    BY <1>2, <1>3, <2>1, ReplaceInSeq
  <2>3. pulls' = [pulls EXCEPT ![d] = s]
    BY <1>0, <1>10 DEF Merge, SetState
  <2>4. posts' = [posts EXCEPT ![d] = pulls[d][i].head]
    BY <1>0, <1>10 DEF Merge
  <2>5. pulls'[d] = s
    BY <1>2, <2>3 DEF GateInv, TypeOK
  <2>6. CameFromApproved(d, i)' /\ CameFromApproved(d, 0)'
    BY <1>2, <2>1, <2>2, <2>5 DEF CameFromApproved, Approved
  <2>7. posts' \in [Drafts -> Versions]
    BY <1>2, <1>3, <2>4 DEF GateInv, TypeOK, PullRequest, Versions
  <2>8. \A e \in Drafts : posts'[e] # posts[e] => CameFromApproved(e, 0)'
    BY <1>2, <2>4, <2>6 DEF GateInv, TypeOK
  <2>9. \A j \in 1..Len(pulls[d]) :
           /\ pulls[d][j].state = "merged" => s[j].state = "merged"
           /\ Approved(pulls[d][j]) => Approved(s[j])
    BY <2>1, <2>2 DEF Approved
  <2>10. \A j \in 1..Len(s) : s[j].state = "merged" => Approved(s[j])
    BY <1>2, <2>1, <2>2 DEF Approved, GateInv
  <2>11. Len(s) <= MaxPulls
    BY <1>2, <2>2 DEF GateInv, TypeOK
  <2>12. Len(pulls[d]) <= Len(s)
    BY <1>3, <2>2
  <2>13. \A u \in Tasks : task'[u] = task[u] \/ TaskInv(u)'
    BY <1>7, <1>9, <2>6
  <2> QED
    BY <1>2, <1>6, <1>8, <2>2, <2>3, <2>7, <2>8, <2>9, <2>10, <2>11, <2>12, <2>13,
       PullStep
<1>11. CASE pulls[d][i].state # "open"
  <2>1. UNCHANGED <<pulls, posts>> /\ pulls[d][i].state = "merged"
    BY <1>0, <1>3, <1>11 DEF Merge, PullRequest
  <2>2. CameFromApproved(d, i)'
    BY <1>2, <2>1 DEF CameFromApproved, Approved
  <2>3. CASE Goto(t, AfterMerge(t)) /\ UNCHANGED inflight
    BY <2>1, <2>2, <2>3, <1>4, <1>6, <1>8, <1>9, GotoTask, TaskOnlyStep
  <2>4. CASE End(t)
    BY <2>1, <2>4, <1>8, EndOnlyStep
  <2> QED
    BY <1>5, <2>3, <2>4
<1> QED
  BY <1>10, <1>11

LEMMA SyncMirrorStep ==
    ASSUME GateInv, NEW t \in Tasks, SyncMirror(t)
    PROVE  GateInv'
<1>1. PICK pc \in Pcs : pc \in {"dedupe", "ship"} /\ Goto(t, pc)
  BY DEF SyncMirror, Pcs
<1>2. UNCHANGED <<row, pulls, posts, audited, public, written, inflight>>
      /\ task[t].pc = "sync"
  BY DEF SyncMirror, At
<1>3. TaskInv(t)'
  BY <1>1, <1>2, GotoKeepsTaskInv, RunningTask DEF TaskInv
<1> QED
  BY <1>1, <1>2, <1>3, GotoOnlyStep

LEMMA DedupeStep ==
    ASSUME GateInv, NEW t \in Tasks, Dedupe(t)
    PROVE  GateInv'
<1>1. PICK pc \in Pcs : Goto(t, pc)
                       /\ \/ pc = "mark" /\ task[t].draft \in audited
                          \/ pc = "ship"
  BY DEF Dedupe, Pcs
<1>2. UNCHANGED <<row, pulls, posts, audited, public, written, inflight>>
      /\ task[t].pc = "dedupe"
  BY DEF Dedupe, At
<1>3. task[t].draft \in audited => public[task[t].draft] # <<>>
  BY <1>2, RunningTask DEF GateInv, PublishedIsPublic
<1>4. TaskInv(t)'
  BY <1>1, <1>2, <1>3, GotoKeepsTaskInv, RunningTask DEF TaskInv
<1> QED
  BY <1>1, <1>2, <1>4, GotoOnlyStep

\* What goes public here came from an approved, merged pull request: that is
\* what the step "ship" stands for.
LEMMA ShipStep ==
    ASSUME GateInv, NEW t \in Tasks, Ship(t)
    PROVE  GateInv'
<1>1. task[t].pc = "ship"
  BY DEF Ship, At
<1>2. PICK d \in Drafts, n \in 0..MaxPulls : d = task[t].draft /\ n = task[t].pull
  BY <1>1, RunningTask
<1> DEFINE post == [body |-> task[t].body, by |-> task[t].op, pull |-> n]
<1>3. CameFromApproved(d, n)
  BY <1>1, <1>2, RunningTask DEF TaskInv
<1>4. /\ Len(public[d]) < MaxShips
      /\ public' = [public EXCEPT ![d] = Append(public[d], post)]
      /\ UNCHANGED <<row, pulls, posts, audited, written>>
      /\ \/ Goto(t, "audit") /\ UNCHANGED inflight
         \/ End(t)
  BY <1>2 DEF Ship
<1>5. task[t].op \in Shippers
  BY <1>1, RunningTask DEF TaskInv, Task, AllOps, Shippers
<1>6. post \in Post /\ post.pull = n
  BY <1>1, <1>5, RunningTask DEF TaskInv, Task, Versions, Post
<1>7. /\ public[d] \in Seq(Post)
      /\ public'[d] = Append(public[d], post)
      /\ public'[d] # <<>>
      /\ \A e \in Drafts \ {d} : public'[e] = public[e]
  <2>1. public \in [Drafts -> Seq(Post)]
    BY DEF GateInv, TypeOK
  <2>2. public[d] \in Seq(Post) /\ public'[d] = Append(public[d], post)
    BY <1>4, <2>1
  <2>3. Append(public[d], post) # <<>>
    BY <1>6, <2>2
  <2> QED
    BY <1>4, <2>1, <2>2, <2>3
<1>8. TypeOK'
  <2>1. public' \in [Drafts -> Seq(Post)]
        /\ \A e \in Drafts : Len(public'[e]) <= MaxShips
    BY <1>4, <1>6, <1>7, PipelineAssumption DEF GateInv, TypeOK
  <2>2. task' \in [Tasks -> Task] /\ inflight' \subseteq Numbers
    <3>1. "audit" \in Pcs
      BY DEF Pcs
    <3>2. CASE Goto(t, "audit") /\ UNCHANGED inflight
      BY <3>1, <3>2, GotoTask DEF GateInv, TypeOK
    <3>3. CASE End(t)
      BY <3>3, EndTask DEF GateInv, TypeOK
    <3> QED
      BY <1>4, <3>2, <3>3
  <2> QED
    BY <1>4, <2>1, <2>2 DEF GateInv, TypeOK
<1>9. Grows /\ StaysPublic
  <2>1. Grows
    BY <1>4 DEF Grows, GateInv, TypeOK, Approved
  <2>2. StaysPublic
    BY <1>7 DEF StaysPublic
  <2> QED
    BY <2>1, <2>2
<1>10. \A u \in Tasks : TaskInv(u)'
  <2> SUFFICES ASSUME NEW u \in Tasks PROVE TaskInv(u)'
    OBVIOUS
  <2>1. CASE u # t
    <3>1. task'[u] = task[u]
      BY <1>4, <2>1 DEF Goto, End, GateInv, TypeOK
    <3> QED
      BY <3>1, <1>8, <1>9, TaskInvStable DEF GateInv
  <2>2. CASE u = t /\ End(t)
    BY <2>2, EndTask
  <2>3. CASE u = t /\ Goto(t, "audit")
    <3>1. /\ "audit" \in Pcs
          /\ task'[t].draft = d
          /\ public'[d] # <<>>
      BY <1>2, <1>7, <2>3, GotoTask DEF Pcs
    <3>2. PullIndex(t) => PullIndex(t)'
      BY <1>2, <1>4, <2>3, <3>1, GotoTask DEF PullIndex
    <3> QED
      BY ZenonT(40), <1>1, <1>2, <1>4, <2>3, <3>1, <3>2, GotoTask, RunningTask DEF TaskInv
  <2> QED
    BY <1>4, <2>1, <2>2, <2>3
<1>11. OnlyApprovedPullsGoPublic'
  <2> SUFFICES ASSUME NEW e \in Drafts, NEW k \in 1..Len(public'[e])
               PROVE  CameFromApproved(e, public[e][k].pull)'
    BY DEF OnlyApprovedPullsGoPublic
  <2>1. CASE e = d /\ k = Len(public[d]) + 1
    <3>1. public'[e][k].pull = n
      BY <2>1, <1>6, <1>7
    <3>2. CameFromApproved(d, n)'
      BY <1>3, <1>4 DEF CameFromApproved, Approved
    <3> QED
      BY <3>1, <3>2, <2>1 DEF CameFromApproved
  <2>2. CASE ~(e = d /\ k = Len(public[d]) + 1)
    <3>1. k \in 1..Len(public[e]) /\ public'[e][k] = public[e][k]
      BY SMTT(30), <2>2, <1>6, <1>7
    <3>2. CameFromApproved(e, public[e][k].pull)
      BY <3>1 DEF GateInv, OnlyApprovedPullsGoPublic
    <3> QED
      BY <3>1, <3>2, <1>4 DEF CameFromApproved, Approved
  <2> QED
    BY <2>1, <2>2
<1>12. PublishedIsPublic'
  BY <1>4, <1>9 DEF GateInv, PublishedIsPublic, StaysPublic, HasRow
<1> QED
  BY <1>4, <1>8, <1>10, <1>11, <1>12
  DEF GateInv, AcceptedHasPull, HasRow, CameFromApproved, Approved

\* Rewriting the row of draft d, to a row whose status is true.
LEMMA RowStep ==
    ASSUME GateInv, NEW d \in Drafts, NEW r \in Row \cup {NoRow},
           row' = [row EXCEPT ![d] = r],
           UNCHANGED <<pulls, public>>, audited' = audited,
           r # NoRow /\ r.status = "published" => public[d] # <<>>,
           r # NoRow /\ r.status = "accepted" => pulls[d] # <<>>,
           r # NoRow => r.pr <= Len(pulls[d])
    PROVE  /\ row' \in [Drafts -> Row \cup {NoRow}]
           /\ PublishedIsPublic'
           /\ AcceptedHasPull'
<1>1. row' \in [Drafts -> Row \cup {NoRow}] /\ row'[d] = r
      /\ \A e \in Drafts \ {d} : row'[e] = row[e]
  BY DEF GateInv, TypeOK
<1>2. PublishedIsPublic'
  BY <1>1 DEF GateInv, PublishedIsPublic, HasRow
<1>3. AcceptedHasPull'
  BY <1>1 DEF GateInv, AcceptedHasPull, HasRow
<1> QED
  BY <1>1, <1>2, <1>3

\* A guarded status change, or a best-effort one that failed.
LEMMA MoveStep ==
    ASSUME GateInv, NEW d \in Drafts, NEW from \in Statuses, NEW to \in Statuses,
           Move(d, from, to) \/ UNCHANGED row,
           UNCHANGED <<pulls, public>>, audited' = audited,
           to = "published" => public[d] # <<>>,
           to = "accepted" => pulls[d] # <<>>
    PROVE  /\ row' \in [Drafts -> Row \cup {NoRow}]
           /\ PublishedIsPublic'
           /\ AcceptedHasPull'
<1>1. CASE HasRow(d) /\ row[d].status = from /\ Move(d, from, to)
  <2> DEFINE r == [row[d] EXCEPT !.status = to]
  <2>1. row[d] \in Row
    BY <1>1 DEF GateInv, TypeOK, HasRow
  <2>2. r \in Row /\ r.status = to /\ r.pr = row[d].pr
    BY <2>1 DEF Row
  <2>3. row' = [row EXCEPT ![d] = r]
    BY <1>1 DEF Move
  <2>4. r.pr <= Len(pulls[d])
    BY <1>1, <2>2 DEF GateInv, AcceptedHasPull
  <2> QED
    BY <2>2, <2>3, <2>4, RowStep
<1>2. CASE UNCHANGED row
  BY <1>2 DEF GateInv, TypeOK, PublishedIsPublic, AcceptedHasPull, HasRow
<1> QED
  BY <1>1, <1>2 DEF Move

\* A best-effort audit row.
LEMMA AuditStep ==
    ASSUME GateInv, NEW t \in Tasks, Audit(t)
    PROVE  GateInv'
<1>1. /\ task[t].pc = "audit" /\ Goto(t, "mark") /\ "mark" \in Pcs
      /\ audited' \in {audited, audited \cup {task[t].draft}}
      /\ UNCHANGED <<row, pulls, posts, public, written, inflight>>
  BY DEF Audit, At, Pcs
<1>2. task[t].draft \in Drafts /\ public[task[t].draft] # <<>>
  BY <1>1, RunningTask DEF TaskInv
<1>3. TaskInv(t)'
  BY <1>1, <1>2, GotoKeepsTaskInv, RunningTask DEF TaskInv
<1>4. TypeOK'
  <2>1. task' \in [Tasks -> Task]
    BY <1>1, GotoTask
  <2>2. audited' \subseteq Drafts
    BY <1>1, <1>2 DEF GateInv, TypeOK
  <2> QED
    BY <1>1, <2>1, <2>2 DEF GateInv, TypeOK
<1>5. Grows /\ StaysPublic
  BY <1>1 DEF Grows, StaysPublic, GateInv, TypeOK, Approved
<1>6. \A u \in Tasks : TaskInv(u)'
  <2> SUFFICES ASSUME NEW u \in Tasks, u # t PROVE TaskInv(u)'
    BY <1>3
  <2>1. task'[u] = task[u]
    BY <1>1 DEF Goto, GateInv, TypeOK
  <2> QED
    BY <2>1, <1>4, <1>5, TaskInvStable DEF GateInv
<1>7. PublishedIsPublic'
  BY <1>1, <1>2 DEF GateInv, PublishedIsPublic, HasRow
<1>8. OnlyApprovedPullsGoPublic'
  BY <1>1 DEF GateInv, OnlyApprovedPullsGoPublic, CameFromApproved, Approved
<1> QED
  BY <1>1, <1>4, <1>6, <1>7, <1>8
  DEF GateInv, AcceptedHasPull, HasRow, CameFromApproved, Approved

LEMMA MarkStep ==
    ASSUME GateInv, NEW t \in Tasks, MarkAccepted(t) \/ MarkOpen(t)
    PROVE  GateInv'
<1> DEFINE d == task[t].draft
<1>1. /\ task[t].pc \in {"mark", "markopen"}
      /\ UNCHANGED <<pulls, posts, audited, public, written>>
  BY DEF MarkAccepted, MarkOpen, At
<1>2. d \in Drafts /\ public[d] # <<>>
  BY <1>1, RunningTask DEF TaskInv
<1>3. \/ Move(d, "accepted", "published")
      \/ Move(d, "open", "published")
      \/ UNCHANGED row
  BY DEF MarkAccepted, MarkOpen
<1>4. row' \in [Drafts -> Row \cup {NoRow}] /\ PublishedIsPublic' /\ AcceptedHasPull'
  BY <1>1, <1>2, <1>3, MoveStep DEF Statuses
<1>5. written' \in [Drafts -> 1..MaxVersion]
  BY <1>1 DEF GateInv, TypeOK
<1>6. CASE MarkAccepted(t)
  <2>1. Goto(t, "markopen") /\ "markopen" \in Pcs /\ inflight' \subseteq Numbers
    BY <1>6 DEF MarkAccepted, Pcs, GateInv, TypeOK
  <2>2. TaskInv(t)'
    BY <1>1, <1>2, <2>1, GotoKeepsTaskInv, RunningTask DEF TaskInv
  <2> QED
    BY <1>1, <1>4, <1>5, <2>1, <2>2, GotoTask, QuietStep
<1>7. CASE MarkOpen(t)
  BY <1>1, <1>4, <1>5, <1>7, EndTask, QuietStep DEF MarkOpen
<1> QED
  BY <1>6, <1>7

LEMMA PromoteKeepsInv ==
    ASSUME GateInv, NEW t \in Tasks, Promote(t)
    PROVE  GateInv'
  BY ReadinessStep, ReadBodyStep, MergeStep, SyncMirrorStep, DedupeStep, ShipStep,
     AuditStep, MarkStep DEF Promote

-------------------------------------------------------------------------------
\* The submit steps preserve the invariant.
LEMMA CiteReachableStep ==
    ASSUME GateInv, NEW t \in Tasks, CiteReachable(t)
    PROVE  GateInv'
<1>1. /\ task[t].pc = "cite" /\ Goto(t, "resolve") /\ "resolve" \in Pcs
      /\ UNCHANGED <<row, pulls, posts, audited, public, written, inflight>>
  BY DEF CiteReachable, At, Pcs
<1>2. TaskInv(t)'
  BY <1>1, GotoKeepsTaskInv, RunningTask DEF TaskInv
<1> QED
  BY <1>1, <1>2, GotoOnlyStep

\* Choosing pull request i of the draft and going on to step pc with it.
LEMMA PickPullStep ==
    ASSUME GateInv, NEW t \in Tasks, NEW n \in 1..MaxPulls, NEW pc \in Pcs,
           task[t].pc # "idle", task[t].op \notin {"rework", "delete"},
           n <= Len(pulls[task[t].draft]),
           pc \in {"push", "recordpr"}, pc = "push" => task[t].op = "accept",
           task' = [task EXCEPT ![t].pull = n, ![t].pc = pc],
           UNCHANGED <<row, pulls, posts, audited, public, written, inflight>>
    PROVE  GateInv'
<1> DEFINE x == [task[t] EXCEPT !.pull = n, !.pc = pc]
<1>1. task[t] \in Task /\ task \in [Tasks -> Task]
  BY DEF GateInv, TypeOK
<1>2. x \in Task /\ task' = [task EXCEPT ![t] = x] /\ task'[t] = x
  <2>1. n \in 0..MaxPulls
    BY PipelineAssumption
  <2>2. x \in Task
    BY <1>1, <2>1 DEF Task
  <2>3. task' = [task EXCEPT ![t] = x]
    BY <1>1
  <2> QED
    BY <1>1, <2>2, <2>3
<1>3. /\ x.pull = n /\ x.pc = pc /\ x.op = task[t].op /\ x.pr = task[t].pr
      /\ x.draft = task[t].draft /\ x.body = task[t].body
  BY <1>1 DEF Task
<1> HIDE DEF x
<1>4. PullIndex(t)'
  <2>1. task'[t].pull = n /\ task'[t].draft = task[t].draft
    BY <1>2, <1>3
  <2>2. n \in 1..Len(pulls[task[t].draft])
    BY RunningTask
  <2> QED
    BY <2>1, <2>2 DEF PullIndex
<1>5. TaskInv(t)'
  BY <1>2, <1>3, <1>4, RunningTask DEF TaskInv
<1> QED
  BY <1>2, <1>5, TaskOnlyStep DEF GateInv, TypeOK

LEMMA ResolveStep ==
    ASSUME GateInv, NEW t \in Tasks, Resolve(t)
    PROVE  GateInv'
<1> DEFINE d == task[t].draft
           found == IF task[t].op = "accept" THEN "push" ELSE "recordpr"
<1>1. /\ task[t].pc = "resolve" /\ found \in Pcs /\ "create" \in Pcs
      /\ found \in {"push", "recordpr"} /\ (found = "push" => task[t].op = "accept")
      /\ UNCHANGED <<row, pulls, posts, audited, public, written>>
  BY DEF Resolve, At, Pcs
<1>2. task[t].op \notin {"rework", "delete"}
  BY <1>1, RunningTask DEF TaskInv
<1>3. CASE /\ task[t].pr # 0
           /\ task' = [task EXCEPT ![t].pull = task[t].pr, ![t].pc = found]
           /\ UNCHANGED inflight
  <2>1. task[t].pr \in 1..MaxPulls /\ task[t].pr <= Len(pulls[d])
    BY <1>1, <1>3, RunningTask
  <2> QED
    BY <1>1, <1>2, <1>3, <2>1, PickPullStep
<1>4. CASE /\ \E i \in OpenPulls(d) :
                task' = [task EXCEPT ![t].pull = i, ![t].pc = found]
           /\ UNCHANGED inflight
  <2>1. PICK i \in OpenPulls(d) : task' = [task EXCEPT ![t].pull = i, ![t].pc = found]
    BY <1>4
  <2>2. i \in 1..MaxPulls /\ i <= Len(pulls[d])
    BY <1>1, RunningTask, PipelineAssumption DEF OpenPulls
  <2> QED
    BY <1>1, <1>2, <1>4, <2>1, <2>2, PickPullStep
<1>5. CASE task[t].op = "accept" /\ Goto(t, "create") /\ UNCHANGED inflight
  <2>1. TaskInv(t)'
    BY <1>1, <1>2, <1>5, GotoKeepsTaskInv, RunningTask DEF Pcs, TaskInv
  <2> QED
    BY <1>1, <1>5, <2>1, GotoOnlyStep
<1>6. CASE End(t)
  BY <1>1, <1>6, EndOnlyStep
<1> QED
  BY <1>3, <1>4, <1>5, <1>6 DEF Resolve

\* The branch of a draft is seen by its open pull request only.
LEMMA BranchWriteSeq ==
    ASSUME GateInv, NEW d \in Drafts, NEW body \in 1..MaxVersion
    PROVE  LET s == BranchWrite(d, body)
           IN /\ s \in Seq(PullRequest)
              /\ Len(s) = Len(pulls[d])
              /\ \A i \in 1..Len(pulls[d]) :
                    /\ s[i].state = pulls[d][i].state
                    /\ s[i].approvals = pulls[d][i].approvals
<1>1. pulls[d] \in Seq(PullRequest) /\ Len(pulls[d]) \in Nat
  BY DEF GateInv, TypeOK
<1>2. ASSUME NEW i \in 1..Len(pulls[d])
      PROVE  LET w == IF pulls[d][i].state = "open"
                        THEN [pulls[d][i] EXCEPT !.head = body] ELSE pulls[d][i]
             IN /\ w \in PullRequest
                /\ w.state = pulls[d][i].state
                /\ w.approvals = pulls[d][i].approvals
  <2>1. pulls[d][i] \in PullRequest
    BY <1>1
  <2> QED
    BY <2>1 DEF PullRequest
<1> QED
  BY <1>1, <1>2 DEF BranchWrite

\* A step of task t that writes the branch of its draft.
LEMMA WriteBranchStep ==
    ASSUME GateInv, NEW t \in Tasks, NEW d \in Drafts, NEW body \in 1..MaxVersion,
           pulls' = [pulls EXCEPT ![d] = BranchWrite(d, body)],
           UNCHANGED <<row, posts, audited, public, written>>,
           task' \in [Tasks -> Task], inflight' \subseteq Numbers,
           \A u \in Tasks : u # t => task'[u] = task[u],
           TaskInv(t)'
    PROVE  GateInv'
<1> DEFINE s == BranchWrite(d, body)
<1>1. /\ s \in Seq(PullRequest)
      /\ Len(s) = Len(pulls[d])
      /\ \A i \in 1..Len(pulls[d]) :
            /\ s[i].state = pulls[d][i].state
            /\ s[i].approvals = pulls[d][i].approvals
  BY BranchWriteSeq
<1>2. Len(pulls[d]) <= Len(s) /\ Len(s) <= MaxPulls
  BY <1>1 DEF GateInv, TypeOK
<1>3. \A i \in 1..Len(pulls[d]) :
         /\ pulls[d][i].state = "merged" => s[i].state = "merged"
         /\ Approved(pulls[d][i]) => Approved(s[i])
  BY <1>1 DEF Approved
<1>4. \A i \in 1..Len(s) : s[i].state = "merged" => Approved(s[i])
  BY <1>1 DEF Approved, GateInv
<1>5. posts' \in [Drafts -> Versions]
      /\ \A e \in Drafts : posts'[e] # posts[e] => CameFromApproved(e, 0)'
  BY DEF GateInv, TypeOK
<1>6. \A u \in Tasks : task'[u] = task[u] \/ TaskInv(u)'
  OBVIOUS
<1>7. pulls' = [pulls EXCEPT ![d] = s]
  OBVIOUS
<1> HIDE DEF s
<1> QED
  BY <1>1, <1>2, <1>3, <1>4, <1>5, <1>6, <1>7, PullStep

LEMMA PushFilesStep ==
    ASSUME GateInv, NEW t \in Tasks, PushFiles(t)
    PROVE  GateInv'
<1>1. PICK d \in Drafts, body \in 1..MaxVersion :
          d = task[t].draft /\ body = task[t].body
  BY RunningTask DEF PushFiles, At, TaskInv, Task, Versions
<1>2. /\ task[t].pc = "push" /\ Goto(t, "record") /\ "record" \in Pcs
      /\ pulls' = [pulls EXCEPT ![d] = BranchWrite(d, body)]
      /\ UNCHANGED <<row, posts, audited, public, written, inflight>>
  BY <1>1 DEF PushFiles, At, Pcs
<1>3. Len(pulls'[d]) = Len(pulls[d])
  BY <1>2, BranchWriteSeq DEF GateInv, TypeOK
<1>4. /\ task'[t].pc = "record" /\ task'[t].op = task[t].op
      /\ task'[t].draft = d /\ task'[t].pull = task[t].pull
      /\ task'[t].body = task[t].body /\ task'[t].pr = task[t].pr
  BY <1>1, <1>2, GotoTask
<1>5. PullIndex(t) /\ PullIndex(t)'
  BY <1>1, <1>2, <1>3, <1>4, RunningTask DEF TaskInv, PullIndex
<1>6. TaskInv(t)'
  BY <1>1, <1>2, <1>3, <1>4, <1>5, RunningTask DEF TaskInv
<1>7. task' \in [Tasks -> Task] /\ inflight' \subseteq Numbers
      /\ \A u \in Tasks : u # t => task'[u] = task[u]
  BY <1>2, GotoTask DEF GateInv, TypeOK, Goto
<1> QED
  BY <1>2, <1>6, <1>7, WriteBranchStep

\* A new pull request is open and unapproved.
LEMMA CreatePullStep ==
    ASSUME GateInv, NEW t \in Tasks, CreatePull(t)
    PROVE  GateInv'
<1>1. task[t].pc = "create"
  BY DEF CreatePull, At
<1>2. PICK d \in Drafts, body \in 1..MaxVersion :
          d = task[t].draft /\ body = task[t].body
  BY <1>1, RunningTask DEF TaskInv, Task, Versions
<1> DEFINE pr == [state |-> "open", head |-> body, approvals |-> {}]
           s == Append(pulls[d], pr)
           n == Len(pulls[d]) + 1
           x == [task[t] EXCEPT !.pull = n, !.pc = "record"]
<1>3. pulls[d] \in Seq(PullRequest) /\ Len(pulls[d]) \in Nat /\ Len(pulls[d]) <= MaxPulls
  BY DEF GateInv, TypeOK
<1>4. UNCHANGED <<row, posts, audited, public, written>>
  BY DEF CreatePull
<1>5. CASE OpenPulls(d) # {}
  <2>1. pulls' = [pulls EXCEPT ![d] = BranchWrite(d, body)] /\ End(t)
    BY <1>2, <1>5 DEF CreatePull
  <2>2. task' \in [Tasks -> Task] /\ inflight' \subseteq Numbers /\ TaskInv(t)'
        /\ \A u \in Tasks : u # t => task'[u] = task[u]
    BY <2>1, EndTask DEF GateInv, TypeOK
  <2> QED
    BY <1>4, <2>1, <2>2, WriteBranchStep
<1>6. CASE OpenPulls(d) = {}
  <2>1. /\ Len(pulls[d]) < MaxPulls
        /\ pulls' = [pulls EXCEPT ![d] = s]
        /\ \/ /\ task' = [task EXCEPT ![t].pull = n, ![t].pc = "record"]
              /\ UNCHANGED inflight
           \/ End(t)
    BY <1>2, <1>6 DEF CreatePull
  <2>2. pr \in PullRequest /\ pr.state = "open"
    BY DEF PullRequest
  <2>3. /\ s \in Seq(PullRequest)
        /\ Len(s) = Len(pulls[d]) + 1
        /\ \A i \in 1..Len(pulls[d]) : s[i] = pulls[d][i]
        /\ s[Len(s)] = pr
    BY <1>3, <2>2
  <2>4. Len(pulls[d]) <= Len(s) /\ Len(s) <= MaxPulls
    BY <1>3, <2>1, <2>3, PipelineAssumption
  <2>5. pulls'[d] = s
    BY <2>1 DEF GateInv, TypeOK
  <2>6. \A i \in 1..Len(pulls[d]) :
           /\ pulls[d][i].state = "merged" => s[i].state = "merged"
           /\ Approved(pulls[d][i]) => Approved(s[i])
    BY <2>3
  <2>7. \A i \in 1..Len(s) : s[i].state = "merged" => Approved(s[i])
    <3> SUFFICES ASSUME NEW i \in 1..Len(s), s[i].state = "merged"
                 PROVE  Approved(s[i])
      OBVIOUS
    <3>1. i \in 1..Len(pulls[d])
      BY <1>3, <2>2, <2>3
    <3> QED
      BY <3>1, <2>3 DEF GateInv
  <2>8. posts' \in [Drafts -> Versions]
        /\ \A e \in Drafts : posts'[e] # posts[e] => CameFromApproved(e, 0)'
    BY <1>4 DEF GateInv, TypeOK
  <2> HIDE DEF s
  <2>9. /\ task' \in [Tasks -> Task] /\ inflight' \subseteq Numbers
        /\ TaskInv(t)'
        /\ \A u \in Tasks : u # t => task'[u] = task[u]
    <3>1. CASE End(t)
      BY <3>1, EndTask DEF GateInv, TypeOK
    <3>2. CASE /\ task' = [task EXCEPT ![t].pull = n, ![t].pc = "record"]
               /\ UNCHANGED inflight
      <4>1. task[t] \in Task /\ task \in [Tasks -> Task] /\ n \in 0..MaxPulls
        BY <1>3, <2>1, PipelineAssumption DEF GateInv, TypeOK
      <4>2. x \in Task
        BY <4>1 DEF Task, Pcs
      <4>3. task' = [task EXCEPT ![t] = x]
        BY <3>2, <4>1
      <4>4. task'[t] = x
        BY <4>1, <4>3
      <4>5. /\ x.pull = n /\ x.pc = "record" /\ x.op = task[t].op
            /\ x.draft = d /\ x.body = body /\ x.pr = task[t].pr
        BY <1>2, <4>1 DEF Task
      <4> HIDE DEF x
      <4>6. PullIndex(t)'
        BY <1>3, <2>3, <2>5, <4>4, <4>5 DEF PullIndex
      <4>7. task[t].pr <= Len(pulls'[d])
        BY <1>1, <1>2, <1>3, <2>3, <2>5, RunningTask
      <4>8. task[t].op \notin {"idle", "rework", "delete"}
        BY <1>1, RunningTask DEF TaskInv
      <4>9. TaskInv(t)'
        BY <4>4, <4>5, <4>6, <4>7, <4>8 DEF TaskInv
      <4> QED
        BY <3>2, <4>1, <4>2, <4>3, <4>9 DEF GateInv, TypeOK
    <3> QED
      BY <2>1, <3>1, <3>2
  <2>10. \A u \in Tasks : task'[u] = task[u] \/ TaskInv(u)'
    BY <2>9
  <2> QED
    BY <1>4, <2>1, <2>3, <2>4, <2>6, <2>7, <2>8, <2>9, <2>10, PullStep
<1> QED
  BY <1>5, <1>6

LEMMA RecordStatusStep ==
    ASSUME GateInv, NEW t \in Tasks, RecordStatus(t)
    PROVE  GateInv'
<1> DEFINE d == task[t].draft
<1>1. /\ task[t].pc = "record" /\ Goto(t, "recordpr") /\ "recordpr" \in Pcs
      /\ Move(d, "open", "accepted") \/ UNCHANGED row
      /\ UNCHANGED <<pulls, posts, audited, public, written, inflight>>
  BY DEF RecordStatus, At, Pcs
<1>2. d \in Drafts /\ PullIndex(t) /\ pulls[d] # <<>>
  BY <1>1, RunningTask DEF TaskInv, PullIndex
<1>3. row' \in [Drafts -> Row \cup {NoRow}] /\ PublishedIsPublic' /\ AcceptedHasPull'
  BY <1>1, <1>2, MoveStep DEF Statuses
<1>4. TaskInv(t)'
  BY <1>1, <1>2, GotoKeepsTaskInv, RunningTask DEF TaskInv
<1> QED
  BY <1>1, <1>3, <1>4, GotoTask, QuietStep DEF GateInv, TypeOK

LEMMA RecordPullStep ==
    ASSUME GateInv, NEW t \in Tasks, RecordPull(t)
    PROVE  GateInv'
<1> DEFINE d == task[t].draft
           r == [row[d] EXCEPT !.pr = task[t].pull]
<1>1. /\ task[t].pc = "recordpr" /\ Goto(t, "readiness") /\ "readiness" \in Pcs
      /\ UNCHANGED <<pulls, posts, audited, public, written, inflight>>
  BY DEF RecordPull, At, Pcs
<1>2. d \in Drafts /\ PullIndex(t)
  BY <1>1, RunningTask DEF TaskInv
<1>3. row' \in [Drafts -> Row \cup {NoRow}] /\ PublishedIsPublic' /\ AcceptedHasPull'
  <2>1. CASE HasRow(d)
    <3>1. row[d] \in Row
      BY <1>2, <2>1 DEF HasRow, GateInv, TypeOK
    <3>2. r \in Row /\ r.status = row[d].status /\ r.pr = task[t].pull
      BY <1>1, <3>1, RunningTask DEF Row
    <3>3. row' = [row EXCEPT ![d] = r]
      BY <2>1 DEF RecordPull
    <3>4. r.pr <= Len(pulls[d])
      BY <1>2, <3>2 DEF PullIndex
    <3>5. /\ r.status = "published" => public[d] # <<>>
          /\ r.status = "accepted" => pulls[d] # <<>>
      BY <1>2, <2>1, <3>2 DEF GateInv, PublishedIsPublic, AcceptedHasPull
    <3> HIDE DEF r
    <3> QED
      BY <1>1, <1>2, <3>2, <3>3, <3>4, <3>5, RowStep
  <2>2. CASE ~HasRow(d)
    BY <1>1, <2>2 DEF RecordPull, GateInv, TypeOK, PublishedIsPublic, AcceptedHasPull,
       HasRow
  <2> QED
    BY <2>1, <2>2
<1>4. TaskInv(t)'
  BY <1>1, <1>2, GotoKeepsTaskInv, RunningTask DEF TaskInv
<1> QED
  BY <1>1, <1>3, <1>4, GotoTask, QuietStep DEF GateInv, TypeOK

LEMMA RetryGateStep ==
    ASSUME GateInv, NEW t \in Tasks, RetryGate(t)
    PROVE  GateInv'
<1> DEFINE d == task[t].draft
           x == [task[t] EXCEPT !.pr = row[d].pr, !.pc = "resolve"]
<1>1. /\ task[t].pc = "load"
      /\ UNCHANGED <<row, pulls, posts, audited, public, written>>
  BY DEF RetryGate, At
<1>2. CASE End(t)
  BY <1>1, <1>2, EndOnlyStep
<1>3. CASE /\ HasRow(d)
           /\ task' = [task EXCEPT ![t].pr = row[d].pr, ![t].pc = "resolve"]
           /\ UNCHANGED inflight
  <2>1. task[t] \in Task /\ task \in [Tasks -> Task] /\ d \in Drafts
    BY <1>1, RunningTask DEF GateInv, TypeOK
  <2>2. row[d] \in Row /\ row[d].pr \in 0..MaxPulls /\ row[d].pr <= Len(pulls[d])
    BY <1>3, <2>1 DEF GateInv, TypeOK, HasRow, AcceptedHasPull, Row
  <2>3. x \in Task
    BY <2>1, <2>2 DEF Task, Pcs
  <2>4. task' = [task EXCEPT ![t] = x]
    BY <1>3, <2>1
  <2>5. task'[t] = x
    BY <2>1, <2>4
  <2>6. /\ x.pc = "resolve" /\ x.pr = row[d].pr /\ x.op = task[t].op
        /\ x.draft = d /\ x.pull = task[t].pull /\ x.body = task[t].body
    BY <2>1 DEF Task
  <2> HIDE DEF x
  <2>7. PullIndex(t) => PullIndex(t)'
    BY <1>1, <2>5, <2>6 DEF PullIndex
  <2>8. TaskInv(t)'
    BY <1>1, <2>2, <2>5, <2>6, <2>7, RunningTask DEF TaskInv
  <2> QED
    BY <1>1, <1>3, <2>3, <2>4, <2>8, TaskOnlyStep DEF GateInv, TypeOK
<1> QED
  BY <1>2, <1>3 DEF RetryGate

LEMMA SubmitKeepsInv ==
    ASSUME GateInv, NEW t \in Tasks, Submit(t)
    PROVE  GateInv'
  BY CiteReachableStep, ResolveStep, PushFilesStep, CreatePullStep, RecordStatusStep,
     RecordPullStep, RetryGateStep DEF Submit

-------------------------------------------------------------------------------
\* Editing, deleting and giving up preserve the invariant.
LEMMA ReworkSaveStep ==
    ASSUME GateInv, NEW t \in Tasks, ReworkSave(t)
    PROVE  GateInv'
<1> DEFINE d == task[t].draft
           stored == IF HasRow(d) THEN row[d].pr ELSE 0
           r == [status |-> "open", body |-> written[d] + 1,
                 pr |-> IF task[t].pr # 0 THEN task[t].pr ELSE stored]
<1>1. /\ task[t].pc = "write" /\ End(t) /\ written[d] < MaxVersion
      /\ written' = [written EXCEPT ![d] = @ + 1]
      /\ row' = [row EXCEPT ![d] = r]
      /\ UNCHANGED <<pulls, posts, audited, public>>
  BY DEF ReworkSave, At, Upsert
<1>2. d \in Drafts /\ written[d] \in 1..MaxVersion
  BY <1>1, RunningTask DEF GateInv, TypeOK
<1>3. stored \in 0..MaxPulls /\ stored <= Len(pulls[d])
  <2>1. CASE HasRow(d)
    BY <1>2, <2>1 DEF GateInv, TypeOK, HasRow, AcceptedHasPull, Row
  <2>2. CASE ~HasRow(d)
    BY <1>1, <2>2, RunningTask, PipelineAssumption
  <2> QED
    BY <2>1, <2>2
<1>4. r \in Row /\ r.status = "open" /\ r.pr <= Len(pulls[d])
  BY <1>1, <1>2, <1>3, RunningTask, PipelineAssumption DEF Row, Statuses
<1> HIDE DEF r
<1>5. row' \in [Drafts -> Row \cup {NoRow}] /\ PublishedIsPublic' /\ AcceptedHasPull'
  BY <1>1, <1>2, <1>4, RowStep
<1>6. written' \in [Drafts -> 1..MaxVersion]
  BY <1>1, <1>2, PipelineAssumption DEF GateInv, TypeOK
<1> QED
  BY <1>1, <1>5, <1>6, EndTask, QuietStep

\* An open pull request is closed, by a handler or by a person.
LEMMA SetStateStep ==
    ASSUME GateInv, NEW d \in Drafts, NEW i \in OpenPulls(d),
           pulls' = SetState(d, i, "closed"),
           UNCHANGED <<row, posts, audited, public, written>>,
           task' \in [Tasks -> Task], inflight' \subseteq Numbers,
           \A u \in Tasks : task'[u] = task[u] \/ TaskInv(u)'
    PROVE  GateInv'
<1> DEFINE pr == [pulls[d][i] EXCEPT !.state = "closed"]
           s == [pulls[d] EXCEPT ![i] = pr]
<1>1. /\ pulls[d] \in Seq(PullRequest) /\ i \in 1..Len(pulls[d])
      /\ pulls[d][i] \in PullRequest /\ pulls[d][i].state = "open"
  BY DEF OpenPulls, GateInv, TypeOK
<1>2. pr \in PullRequest /\ pr.state = "closed" /\ pr.approvals = pulls[d][i].approvals
  BY <1>1 DEF PullRequest
<1>3. /\ s \in Seq(PullRequest)
      /\ Len(s) = Len(pulls[d])
      /\ \A j \in 1..Len(pulls[d]) : s[j] = IF j = i THEN pr ELSE pulls[d][j]
  BY <1>1, <1>2, ReplaceInSeq
<1>4. pulls' = [pulls EXCEPT ![d] = s]
  BY DEF SetState
<1> HIDE DEF s, pr
<1>5. \A j \in 1..Len(pulls[d]) :
         /\ pulls[d][j].state = "merged" => s[j].state = "merged"
         /\ Approved(pulls[d][j]) => Approved(s[j])
  BY <1>1, <1>2, <1>3 DEF Approved
<1>6. \A j \in 1..Len(s) : s[j].state = "merged" => Approved(s[j])
  BY <1>2, <1>3 DEF GateInv, Approved
<1>7. Len(pulls[d]) <= Len(s) /\ Len(s) <= MaxPulls
  BY <1>1, <1>3 DEF GateInv, TypeOK
<1>8. posts' \in [Drafts -> Versions]
      /\ \A e \in Drafts : posts'[e] # posts[e] => CameFromApproved(e, 0)'
  BY DEF GateInv, TypeOK
<1> QED
  BY <1>3, <1>4, <1>5, <1>6, <1>7, <1>8, PullStep

LEMMA ClosePullStep ==
    ASSUME GateInv, NEW t \in Tasks, ClosePull(t)
    PROVE  GateInv'
<1>1. PICK d \in Drafts, i \in Nat : d = task[t].draft /\ i = task[t].pull
  BY RunningTask DEF ClosePull, At
<1>2. /\ task[t].pc = "closepr" /\ Goto(t, "drop") /\ "drop" \in Pcs
      /\ UNCHANGED <<row, posts, audited, public, written, inflight>>
      /\ \/ pulls[d][i].state = "open" /\ pulls' = SetState(d, i, "closed")
         \/ UNCHANGED pulls
  BY <1>1 DEF ClosePull, At, Pcs
<1>3. i \in 1..Len(pulls[d]) /\ task[t].op \in {"rework", "delete"}
  BY <1>1, <1>2, RunningTask DEF TaskInv, PullIndex
<1>4. CASE UNCHANGED pulls
  <2>1. TaskInv(t)'
    BY <1>2, <1>3, <1>4, GotoKeepsTaskInv, RunningTask DEF TaskInv
  <2> QED
    BY <1>2, <1>4, <2>1, GotoOnlyStep
<1>5. CASE pulls[d][i].state = "open" /\ pulls' = SetState(d, i, "closed")
  <2>1. i \in OpenPulls(d)
    BY <1>3, <1>5 DEF OpenPulls
  <2>2. Len(pulls'[d]) = Len(pulls[d])
    BY <1>3, <1>5 DEF SetState, GateInv, TypeOK
  <2>3. TaskInv(t)'
    BY ZenonT(40), <1>1, <1>2, <1>3, <2>2, GotoTask, RunningTask DEF TaskInv
  <2>4. task' \in [Tasks -> Task] /\ \A u \in Tasks : u # t => task'[u] = task[u]
    BY <1>2, GotoTask DEF GateInv, TypeOK, Goto
  <2>5. \A u \in Tasks : task'[u] = task[u] \/ TaskInv(u)'
    BY <2>3, <2>4
  <2> QED
    BY <1>2, <1>5, <2>1, <2>4, <2>5, SetStateStep DEF GateInv, TypeOK
<1> QED
  BY <1>2, <1>4, <1>5

LEMMA DropRowStep ==
    ASSUME GateInv, NEW t \in Tasks, DropRow(t)
    PROVE  GateInv'
<1>1. /\ task[t].pc = "drop" /\ End(t)
      /\ row' = [row EXCEPT ![task[t].draft] = NoRow]
      /\ UNCHANGED <<pulls, posts, audited, public, written>>
  BY DEF DropRow, At
<1>2. row' \in [Drafts -> Row \cup {NoRow}] /\ PublishedIsPublic' /\ AcceptedHasPull'
  BY <1>1, RunningTask, RowStep
<1> QED
  BY <1>1, <1>2, EndTask, QuietStep DEF GateInv, TypeOK

LEMMA FailStep ==
    ASSUME GateInv, NEW t \in Tasks, Fail(t)
    PROVE  GateInv'
  BY EndOnlyStep DEF Fail

LEMMA TaskStepKeepsInv ==
    ASSUME GateInv, NEW t \in Tasks, TaskStep(t)
    PROVE  GateInv'
  BY PromoteKeepsInv, SubmitKeepsInv, ReworkSaveStep, ClosePullStep, DropRowStep,
     FailStep DEF TaskStep, Edit

-------------------------------------------------------------------------------
\* Commands, wakes, people and restarts preserve the invariant.

\* A task that starts with what its first step needs.
LEMMA StartTask ==
    ASSUME GateInv, NEW t \in Tasks, NEW x \in Task, Start(t, x),
           UNCHANGED <<pulls, public>>,
           x.op # "idle", x.draft \in Drafts, x.pr <= Len(pulls[x.draft]),
           x.pc \in {"cite", "ship", "load", "write", "drop", "closepr", "readiness"},
           x.pc \in {"write", "closepr", "drop"} <=> x.op \in {"rework", "delete"},
           x.op = "hook" \/ x.pc \in {"readiness", "closepr"}
               => x.pull \in 1..Len(pulls[x.draft]),
           x.op = "accept" \/ x.pc = "ship" => x.body # 0,
           x.pc = "ship" => CameFromApproved(x.draft, x.pull)
    PROVE  task' = [task EXCEPT ![t] = x] /\ TaskInv(t)'
<1>1. task' = [task EXCEPT ![t] = x] /\ task'[t] = x
  BY DEF Start, GateInv, TypeOK
<1>2. x.op = "hook" \/ x.pc \in {"readiness", "closepr"} => PullIndex(t)'
  BY <1>1 DEF PullIndex
<1>3. x.pc = "ship" => CameFromApproved(task[t].draft, task[t].pull)'
  BY <1>1 DEF CameFromApproved, Approved
<1> QED
  BY <1>1, <1>2, <1>3 DEF TaskInv

\* A command that starts and changes nothing else.
LEMMA CommandStart ==
    ASSUME GateInv, NEW t \in Tasks, NEW x \in Task, Start(t, x),
           UNCHANGED <<row, pulls, posts, audited, public, written, inflight>>,
           x.op # "idle", x.draft \in Drafts, x.pr <= Len(pulls[x.draft]),
           x.pc \in {"cite", "ship", "load", "drop", "closepr"},
           x.pc \in {"write", "closepr", "drop"} <=> x.op \in {"rework", "delete"},
           x.op # "hook",
           x.pc = "closepr" => x.pull \in 1..Len(pulls[x.draft]),
           x.op = "accept" \/ x.pc = "ship" => x.body # 0,
           x.pc = "ship" => CameFromApproved(x.draft, x.pull)
    PROVE  GateInv'
  BY StartTask, TaskOnlyStep DEF GateInv, TypeOK

\* A row that exists, and what the invariant says of it.
LEMMA StoredRow ==
    ASSUME GateInv, NEW d \in Drafts, HasRow(d)
    PROVE  /\ row[d] \in Row
           /\ row[d].status \in Statuses
           /\ row[d].body \in 1..MaxVersion /\ row[d].body \in Versions
           /\ row[d].pr \in 0..MaxPulls
           /\ row[d].pr <= Len(pulls[d])
<1>1. row[d] \in Row
  BY DEF GateInv, TypeOK, HasRow
<1>2. row[d].pr <= Len(pulls[d])
  BY DEF GateInv, AcceptedHasPull
<1> QED
  BY <1>1, <1>2, PipelineAssumption DEF Row, Versions

LEMMA AcceptLoadStep ==
    ASSUME GateInv, NEW t \in Tasks, NEW d \in Drafts, AcceptLoad(t, d)
    PROVE  GateInv'
<1> DEFINE x == [op |-> "accept", pc |-> "cite", draft |-> d,
                 pull |-> 0, body |-> row[d].body, pr |-> row[d].pr]
<1>1. /\ HasRow(d) /\ Start(t, x)
      /\ UNCHANGED <<row, pulls, posts, audited, public, written, inflight>>
  BY DEF AcceptLoad
<1>2. x \in Task /\ x.body # 0
  BY <1>1, StoredRow, PipelineAssumption DEF Task, Pcs, AllOps
<1> QED
  BY <1>1, <1>2, StoredRow, CommandStart

LEMMA RetryReshipStep ==
    ASSUME GateInv, NEW t \in Tasks, NEW d \in Drafts, RetryReship(t, d)
    PROVE  GateInv'
<1> DEFINE x == [op |-> "reship", pc |-> "ship", draft |-> d,
                 pull |-> 0, body |-> posts[d], pr |-> 0]
<1>1. /\ posts[d] # 0 /\ Start(t, x)
      /\ UNCHANGED <<row, pulls, posts, audited, public, written, inflight>>
  BY DEF RetryReship
<1>2. x \in Task
  BY PipelineAssumption DEF Task, Pcs, GateInv, TypeOK
<1>3. CameFromApproved(d, 0) /\ 0 <= Len(pulls[d])
  BY <1>1 DEF GateInv, TypeOK
<1> QED
  BY <1>1, <1>2, <1>3, CommandStart

LEMMA RetryLoadStep ==
    ASSUME GateInv, NEW t \in Tasks, NEW d \in Drafts, RetryLoad(t, d)
    PROVE  GateInv'
<1> DEFINE x == [op |-> "retry", pc |-> "load", draft |-> d,
                 pull |-> 0, body |-> 0, pr |-> 0]
<1>1. /\ Start(t, x)
      /\ UNCHANGED <<row, pulls, posts, audited, public, written, inflight>>
  BY DEF RetryLoad
<1>2. x \in Task
  BY PipelineAssumption DEF Task, Pcs, AllOps, Versions
<1>3. 0 <= Len(pulls[d])
  BY DEF GateInv, TypeOK
<1> QED
  BY <1>1, <1>2, <1>3, CommandStart

LEMMA DeleteLoadStep ==
    ASSUME GateInv, NEW t \in Tasks, NEW d \in Drafts, DeleteLoad(t, d)
    PROVE  GateInv'
<1> DEFINE pc == IF row[d].status = "published" \/ row[d].pr = 0
                   THEN "drop" ELSE "closepr"
           x == [op |-> "delete", pc |-> pc, draft |-> d,
                 pull |-> row[d].pr, body |-> 0, pr |-> 0]
<1>1. /\ HasRow(d) /\ Start(t, x)
      /\ UNCHANGED <<row, pulls, posts, audited, public, written, inflight>>
  BY DEF DeleteLoad
<1>2. x \in Task
  BY <1>1, StoredRow, PipelineAssumption DEF Task, Pcs, AllOps, Versions
<1>3. Len(pulls[d]) \in Nat
  BY DEF GateInv, TypeOK
<1>4. x.pc = "closepr" => x.pull \in 1..Len(pulls[d])
  BY <1>1, <1>3, StoredRow
<1> QED
  BY <1>1, <1>2, <1>3, <1>4, CommandStart

LEMMA ReworkLoadStep ==
    ASSUME GateInv, NEW t \in Tasks, NEW d \in Drafts, ReworkLoad(t, d)
    PROVE  GateInv'
<1> DEFINE x == [op |-> "rework", pc |-> "write", draft |-> d,
                 pull |-> 0, body |-> 0, pr |-> row[d].pr]
           r == [row[d] EXCEPT !.status = "open"]
<1>1. /\ HasRow(d) /\ Start(t, x)
      /\ row' = [row EXCEPT ![d] = r]
      /\ UNCHANGED <<pulls, posts, audited, public, written, inflight>>
  BY DEF ReworkLoad
<1>2. x \in Task
  BY <1>1, StoredRow, PipelineAssumption DEF Task, Pcs, AllOps, Versions
<1>3. task' = [task EXCEPT ![t] = x] /\ TaskInv(t)'
  BY <1>1, <1>2, StoredRow, StartTask
<1>4. r \in Row /\ r.status = "open" /\ r.pr <= Len(pulls[d])
  BY <1>1, StoredRow DEF Row, Statuses
<1> HIDE DEF r
<1>5. row' \in [Drafts -> Row \cup {NoRow}] /\ PublishedIsPublic' /\ AcceptedHasPull'
  BY <1>1, <1>4, RowStep
<1> HIDE DEF x
<1> QED
  BY <1>1, <1>2, <1>3, <1>5, QuietStep DEF GateInv, TypeOK

LEMMA HookStartStep ==
    ASSUME GateInv, NEW t \in Tasks, NEW d \in Drafts, NEW i \in 1..MaxPulls,
           HookStart(t, d, i)
    PROVE  GateInv'
<1> DEFINE x == [op |-> "hook", pc |-> "readiness", draft |-> d,
                 pull |-> i, body |-> 0, pr |-> 0]
<1>1. /\ i \in 1..Len(pulls[d]) /\ Start(t, x)
      /\ inflight' = inflight \cup {Number[d][i]}
      /\ UNCHANGED <<row, pulls, posts, audited, public, written>>
  BY DEF HookStart
<1>2. x \in Task /\ 0 <= Len(pulls[d])
  BY PipelineAssumption DEF Task, Pcs, AllOps, Versions, GateInv, TypeOK
<1>3. x.op = "hook" /\ x.pc = "readiness" /\ x.draft = d /\ x.pull = i /\ x.pr = 0
  OBVIOUS
<1>4. inflight' \subseteq Numbers
  <2>1. Number[d][i] \in Numbers
    BY DEF Numbers
  <2>2. inflight \subseteq Numbers
    BY DEF GateInv, TypeOK
  <2> QED
    BY <1>1, <2>1, <2>2
<1> HIDE DEF x
<1>5. task' = [task EXCEPT ![t] = x] /\ TaskInv(t)'
  BY <1>1, <1>2, <1>3, StartTask
<1> QED
  BY <1>1, <1>2, <1>4, <1>5, TaskOnlyStep

LEMMA CommandKeepsInv ==
    ASSUME GateInv, NEW t \in Tasks, NEW d \in Drafts, Command(t, d)
    PROVE  GateInv'
  BY AcceptLoadStep, RetryReshipStep, RetryLoadStep, ReworkLoadStep, DeleteLoadStep
     DEF Command

LEMMA ApproveStep ==
    ASSUME GateInv, NEW d \in Drafts, NEW i \in 1..MaxPulls, Approve(d, i)
    PROVE  GateInv'
<1> DEFINE pr == [pulls[d][i] EXCEPT !.approvals = @ \cup {pulls[d][i].head}]
           s == [pulls[d] EXCEPT ![i] = pr]
<1>1. /\ pulls[d] \in Seq(PullRequest) /\ i \in 1..Len(pulls[d])
      /\ pulls[d][i] \in PullRequest /\ pulls[d][i].state = "open"
  BY DEF Approve, OpenPulls, GateInv, TypeOK
<1>2. pr \in PullRequest /\ pr.state = "open"
      /\ (Approved(pulls[d][i]) => Approved(pr))
  BY <1>1 DEF PullRequest, Approved
<1>3. /\ s \in Seq(PullRequest)
      /\ Len(s) = Len(pulls[d])
      /\ \A j \in 1..Len(pulls[d]) : s[j] = IF j = i THEN pr ELSE pulls[d][j]
  BY <1>1, <1>2, ReplaceInSeq
<1>4. /\ pulls' = [pulls EXCEPT ![d] = s]
      /\ UNCHANGED <<row, posts, audited, public, written, task, inflight>>
  BY DEF Approve
<1> HIDE DEF s, pr
<1>5. \A j \in 1..Len(pulls[d]) :
         /\ pulls[d][j].state = "merged" => s[j].state = "merged"
         /\ Approved(pulls[d][j]) => Approved(s[j])
  BY <1>1, <1>2, <1>3
<1>6. \A j \in 1..Len(s) : s[j].state = "merged" => Approved(s[j])
  BY <1>2, <1>3 DEF GateInv
<1>7. Len(pulls[d]) <= Len(s) /\ Len(s) <= MaxPulls
  BY <1>1, <1>3 DEF GateInv, TypeOK
<1>8. posts' \in [Drafts -> Versions]
      /\ \A e \in Drafts : posts'[e] # posts[e] => CameFromApproved(e, 0)'
  BY <1>4 DEF GateInv, TypeOK
<1>9. task' \in [Tasks -> Task] /\ inflight' \subseteq Numbers
  BY <1>4 DEF GateInv, TypeOK
<1> QED
  BY <1>3, <1>4, <1>5, <1>6, <1>7, <1>8, <1>9, PullStep

LEMMA CloseByHandStep ==
    ASSUME GateInv, NEW d \in Drafts, NEW i \in 1..MaxPulls, CloseByHand(d, i)
    PROVE  GateInv'
  BY SetStateStep DEF CloseByHand, GateInv, TypeOK

LEMMA CrashStep ==
    ASSUME GateInv, Crash
    PROVE  GateInv'
<1>1. /\ task' = [t \in Tasks |-> IdleTask] /\ inflight' = {}
      /\ UNCHANGED <<row, pulls, posts, audited, public, written>>
  BY DEF Crash
<1>2. IdleTask \in Task
  BY PipelineAssumption DEF IdleTask, Task, Pcs, Versions
<1>3. TypeOK'
  BY <1>1, <1>2 DEF GateInv, TypeOK
<1>4. \A t \in Tasks : TaskInv(t)'
  BY <1>1 DEF TaskInv, IdleTask
<1> QED
  BY <1>1, <1>3, <1>4 DEF GateInv, Approved, CameFromApproved, OnlyApprovedPullsGoPublic,
     PublishedIsPublic, AcceptedHasPull, HasRow

LEMMA StutterStep ==
    ASSUME GateInv, UNCHANGED vars
    PROVE  GateInv'
<1>1. UNCHANGED <<row, pulls, posts, audited, public, written, task, inflight>>
  BY DEF vars
<1>2. \A t \in Tasks : TaskInv(t)'
  BY <1>1 DEF GateInv, TaskInv, PullIndex, CameFromApproved, Approved
<1> QED
  BY ZenonT(40), <1>1, <1>2 DEF GateInv, TypeOK, Approved, CameFromApproved,
     OnlyApprovedPullsGoPublic, PublishedIsPublic, AcceptedHasPull, HasRow

-------------------------------------------------------------------------------
\* The invariant holds initially.
LEMMA InitKeepsInv ==
    ASSUME Init
    PROVE  GateInv
<1>1. IdleTask \in Task
  BY PipelineAssumption DEF IdleTask, Task, Pcs, Versions
<1>2. TypeOK
  BY <1>1, PipelineAssumption DEF Init, TypeOK, Row, Statuses, Versions
<1>3. \A t \in Tasks : TaskInv(t)
  BY DEF Init, TaskInv, IdleTask
<1>4. \A d \in Drafts : pulls[d] = <<>> /\ public[d] = <<>> /\ posts[d] = 0
      /\ Len(pulls[d]) = 0 /\ Len(public[d]) = 0
  BY DEF Init
<1>5. OnlyApprovedPullsGoPublic
  BY <1>4 DEF OnlyApprovedPullsGoPublic
<1>6. PublishedIsPublic
  BY DEF Init, PublishedIsPublic, HasRow
<1>7. AcceptedHasPull
  BY <1>4 DEF Init, AcceptedHasPull, HasRow
<1> QED
  BY <1>2, <1>3, <1>4, <1>5, <1>6, <1>7 DEF GateInv

\* Where nobody merges by hand, every step keeps the invariant.
LEMMA NextKeepsInv ==
    ASSUME "manual_merge" \notin Faults, GateInv, [Next]_vars
    PROVE  GateInv'
<1>1. CASE \E t \in Tasks, d \in Drafts : Command(t, d)
  BY <1>1, CommandKeepsInv
<1>2. CASE \E t \in Tasks, d \in Drafts, i \in 1..MaxPulls : HookStart(t, d, i)
  BY <1>2, HookStartStep
<1>3. CASE \E t \in Tasks : TaskStep(t)
  BY <1>3, TaskStepKeepsInv
<1>4. CASE \E d \in Drafts, i \in 1..MaxPulls : Github(d, i)
  BY <1>4, ApproveStep, CloseByHandStep DEF Github, MergeByHand
<1>5. CASE Crash
  BY <1>5, CrashStep
<1>6. CASE UNCHANGED vars
  BY <1>6, StutterStep
<1> QED
  BY <1>1, <1>2, <1>3, <1>4, <1>5, <1>6 DEF Next

\* The gate holds in every reachable state, whatever crashes, answers get lost,
\* edits race and pull requests are closed, unless a person merges by hand.
THEOREM GateInvHolds ==
    ASSUME "manual_merge" \notin Faults
    PROVE  Spec => []GateInv
<1>1. Init => GateInv
  BY InitKeepsInv
<1>2. GateInv /\ [Next]_vars => GateInv'
  BY NextKeepsInv
<1> QED
  BY <1>1, <1>2, PTL DEF Spec

\* Types, for every instance without merges by hand.
THEOREM TypesHold ==
    ASSUME "manual_merge" \notin Faults
    PROVE  Spec => []TypeOK
<1>1. GateInv => TypeOK
  BY DEF GateInv
<1> QED
  BY <1>1, GateInvHolds, PTL

\* docs/principles.md: nothing goes out before a publications pull request was
\* approved, whichever of the webhook, /accept and /retry_bat ships it.
THEOREM GateHolds ==
    ASSUME "manual_merge" \notin Faults
    PROVE  Spec => []OnlyApprovedPullsGoPublic
<1>1. GateInv => OnlyApprovedPullsGoPublic
  BY DEF GateInv
<1> QED
  BY <1>1, GateInvHolds, PTL

\* `published` rows and `ok` audit rows never run ahead of the publisher.
THEOREM PublishedHolds ==
    ASSUME "manual_merge" \notin Faults
    PROVE  Spec => []PublishedIsPublic
<1>1. GateInv => PublishedIsPublic
  BY DEF GateInv
<1> QED
  BY <1>1, GateInvHolds, PTL

\* `accepted` rows and recorded coordinates never run ahead of GitHub.
THEOREM AcceptedHolds ==
    ASSUME "manual_merge" \notin Faults
    PROVE  Spec => []AcceptedHasPull
<1>1. GateInv => AcceptedHasPull
  BY DEF GateInv
<1> QED
  BY <1>1, GateInvHolds, PTL

-------------------------------------------------------------------------------
(* The publish gate *)

\* Steps that touch neither a pull request nor the public surface are invisible.
LEMMA InvisibleStep ==
    ASSUME UNCHANGED <<pulls, public>>
    PROVE  UNCHANGED Gate!gateVars
  BY DEF Gate!gateVars, approvedOf, mergedOf, liveOf, Approved

\* So are steps that only rewrite heads, open or close pull requests of e.
LEMMA UnreviewedStep ==
    ASSUME GateInv, NEW e \in Drafts, NEW s, pulls' = [pulls EXCEPT ![e] = s],
           public' = public,
           \A i \in 1..MaxPulls :
               /\ (i <= Len(s) /\ Approved(s[i]))
                    <=> (i <= Len(pulls[e]) /\ Approved(pulls[e][i]))
               /\ (i <= Len(s) /\ s[i].state = "merged")
                    <=> (i <= Len(pulls[e]) /\ pulls[e][i].state = "merged")
    PROVE  UNCHANGED Gate!gateVars
<1>1. pulls'[e] = s /\ \A d \in Drafts \ {e} : pulls'[d] = pulls[d]
  BY DEF GateInv, TypeOK
<1>2. ASSUME NEW d \in Drafts
      PROVE  /\ {i \in 1..MaxPulls : i <= Len(pulls'[d]) /\ Approved(pulls'[d][i])}
                  = {i \in 1..MaxPulls : i <= Len(pulls[d]) /\ Approved(pulls[d][i])}
             /\ {i \in 1..MaxPulls : i <= Len(pulls'[d]) /\ pulls'[d][i].state = "merged"}
                  = {i \in 1..MaxPulls : i <= Len(pulls[d]) /\ pulls[d][i].state = "merged"}
  <2>1. CASE d = e
    BY <1>1, <2>1
  <2>2. CASE d # e
    BY <1>1, <2>2
  <2> QED
    BY <2>1, <2>2
<1>3. approvedOf' = approvedOf
  BY <1>2 DEF approvedOf, Approved
<1>4. mergedOf' = mergedOf
  BY <1>2 DEF mergedOf
<1> QED
  BY <1>3, <1>4 DEF Gate!gateVars, liveOf

LEMMA BranchWriteInvisible ==
    ASSUME GateInv, NEW d \in Drafts, NEW body \in 1..MaxVersion,
           pulls' = [pulls EXCEPT ![d] = BranchWrite(d, body)], public' = public
    PROVE  UNCHANGED Gate!gateVars
<1> DEFINE s == BranchWrite(d, body)
<1>1. /\ Len(s) = Len(pulls[d]) /\ Len(pulls[d]) \in Nat
      /\ \A i \in 1..Len(pulls[d]) :
            /\ s[i].state = pulls[d][i].state
            /\ s[i].approvals = pulls[d][i].approvals
  BY BranchWriteSeq DEF GateInv, TypeOK
<1>2. pulls' = [pulls EXCEPT ![d] = s]
  OBVIOUS
<1> HIDE DEF s
<1>3. \A i \in 1..MaxPulls :
         /\ (i <= Len(s) /\ Approved(s[i]))
              <=> (i <= Len(pulls[d]) /\ Approved(pulls[d][i]))
         /\ (i <= Len(s) /\ s[i].state = "merged")
              <=> (i <= Len(pulls[d]) /\ pulls[d][i].state = "merged")
  BY <1>1 DEF Approved
<1> QED
  BY <1>2, <1>3, UnreviewedStep

LEMMA CloseInvisible ==
    ASSUME GateInv, NEW d \in Drafts, NEW i \in OpenPulls(d),
           pulls' = SetState(d, i, "closed"), public' = public
    PROVE  UNCHANGED Gate!gateVars
<1> DEFINE pr == [pulls[d][i] EXCEPT !.state = "closed"]
           s == [pulls[d] EXCEPT ![i] = pr]
<1>1. /\ pulls[d] \in Seq(PullRequest) /\ i \in 1..Len(pulls[d])
      /\ pulls[d][i] \in PullRequest /\ pulls[d][i].state = "open"
  BY DEF OpenPulls, GateInv, TypeOK
<1>2. pr \in PullRequest /\ pr.state = "closed" /\ pr.approvals = pulls[d][i].approvals
  BY <1>1 DEF PullRequest
<1>3. /\ Len(s) = Len(pulls[d])
      /\ \A j \in 1..Len(pulls[d]) : s[j] = IF j = i THEN pr ELSE pulls[d][j]
  BY <1>1, <1>2, ReplaceInSeq
<1>4. pulls' = [pulls EXCEPT ![d] = s]
  BY DEF SetState
<1> HIDE DEF s, pr
<1>5. \A j \in 1..MaxPulls :
         /\ (j <= Len(s) /\ Approved(s[j]))
              <=> (j <= Len(pulls[d]) /\ Approved(pulls[d][j]))
         /\ (j <= Len(s) /\ s[j].state = "merged")
              <=> (j <= Len(pulls[d]) /\ pulls[d][j].state = "merged")
  BY <1>1, <1>2, <1>3 DEF Approved
<1> QED
  BY <1>4, <1>5, UnreviewedStep

\* Opening a pull request, or finding that GitHub refuses a second open one.
LEMMA CreateInvisible ==
    ASSUME GateInv, NEW t \in Tasks, CreatePull(t)
    PROVE  UNCHANGED Gate!gateVars
<1>1. PICK d \in Drafts, body \in 1..MaxVersion :
          d = task[t].draft /\ body = task[t].body
  BY RunningTask DEF CreatePull, At, TaskInv, Task, Versions
<1> DEFINE pr == [state |-> "open", head |-> body, approvals |-> {}]
           s == Append(pulls[d], pr)
<1>2. public' = public
  BY DEF CreatePull
<1>3. CASE OpenPulls(d) # {}
  BY <1>1, <1>2, <1>3, BranchWriteInvisible DEF CreatePull
<1>4. CASE OpenPulls(d) = {}
  <2>1. pulls' = [pulls EXCEPT ![d] = s]
    BY <1>1, <1>4 DEF CreatePull
  <2>2. pulls[d] \in Seq(PullRequest) /\ Len(pulls[d]) \in Nat
        /\ ~Approved(pr) /\ pr.state # "merged"
    BY DEF GateInv, TypeOK, Approved
  <2>3. /\ Len(s) = Len(pulls[d]) + 1
        /\ \A i \in 1..Len(pulls[d]) : s[i] = pulls[d][i]
        /\ s[Len(s)] = pr
    BY <2>2
  <2> HIDE DEF s, pr
  <2>4. ASSUME NEW i \in 1..MaxPulls
        PROVE  /\ (i <= Len(s) /\ Approved(s[i]))
                    <=> (i <= Len(pulls[d]) /\ Approved(pulls[d][i]))
               /\ (i <= Len(s) /\ s[i].state = "merged")
                    <=> (i <= Len(pulls[d]) /\ pulls[d][i].state = "merged")
    <3>1. CASE i <= Len(pulls[d])
      BY <2>2, <2>3, <3>1
    <3>2. CASE i > Len(pulls[d])
      BY <2>2, <2>3, <3>2, PipelineAssumption
    <3> QED
      BY <2>2, <3>1, <3>2
  <2> QED
    BY <1>2, <2>1, <2>4, UnreviewedStep
<1> QED
  BY <1>3, <1>4

\* One merged, or newly approved, pull request: the other drafts and the other
\* pull requests of its draft look the same.
LEMMA OnePullChanges ==
    ASSUME GateInv, NEW d \in Drafts, NEW i \in 1..Len(pulls[d]), NEW pr \in PullRequest,
           pulls' = [pulls EXCEPT ![d][i] = pr]
    PROVE  \A e \in Drafts, j \in Nat :
              /\ Len(pulls'[e]) = Len(pulls[e])
              /\ j \in 1..Len(pulls[e]) =>
                   pulls'[e][j] = IF e = d /\ j = i THEN pr ELSE pulls[e][j]
<1> DEFINE s == [pulls[d] EXCEPT ![i] = pr]
<1>1. pulls \in [Drafts -> Seq(PullRequest)] /\ pulls[d] \in Seq(PullRequest)
  BY DEF GateInv, TypeOK
<1>2. /\ Len(s) = Len(pulls[d])
      /\ \A j \in 1..Len(pulls[d]) : s[j] = IF j = i THEN pr ELSE pulls[d][j]
  BY <1>1, ReplaceInSeq
<1>3. pulls' = [pulls EXCEPT ![d] = s]
  OBVIOUS
<1> HIDE DEF s
<1> QED
  BY <1>1, <1>2, <1>3

LEMMA MergeVisible ==
    ASSUME GateInv, NEW t \in Tasks, Merge(t)
    PROVE  [Gate!GateNext]_(Gate!gateVars)
<1>1. PICK d \in Drafts, i \in Nat : d = task[t].draft /\ i = task[t].pull
  BY RunningTask DEF Merge, At
<1> DEFINE pr == [pulls[d][i] EXCEPT !.state = "merged"]
<1>2. i \in 1..Len(pulls[d]) /\ Approved(pulls[d][i])
  BY <1>1, RunningTask DEF Merge, At, TaskInv, PullIndex
<1>3. public' = public
  BY DEF Merge
<1>4. CASE pulls[d][i].state # "open"
  <2>1. UNCHANGED pulls
    BY <1>1, <1>4 DEF Merge
  <2> QED
    BY <1>3, <2>1, InvisibleStep
<1>5. CASE pulls[d][i].state = "open"
  <2>1. pulls' = [pulls EXCEPT ![d][i] = pr]
    BY <1>1, <1>5 DEF Merge, SetState
  <2>2. pulls[d] \in Seq(PullRequest) /\ Len(pulls[d]) \in Nat /\ i \in 1..MaxPulls
    BY <1>2, PipelineAssumption DEF GateInv, TypeOK
  <2>3. pr \in PullRequest /\ pr.state = "merged" /\ pr.approvals = pulls[d][i].approvals
    <3>1. pulls[d][i] \in PullRequest
      BY <1>2, <2>2
    <3> QED
      BY <3>1 DEF PullRequest
  <2> HIDE DEF pr
  <2>4. \A e \in Drafts, j \in Nat :
           /\ Len(pulls'[e]) = Len(pulls[e])
           /\ j \in 1..Len(pulls[e]) =>
                pulls'[e][j] = IF e = d /\ j = i THEN pr ELSE pulls[e][j]
    BY ZenonT(40), <1>2, <2>1, <2>3, OnePullChanges
  <2>5. approvedOf' = approvedOf
    <3>1. ASSUME NEW e \in Drafts
          PROVE  {j \in 1..MaxPulls : j <= Len(pulls'[e]) /\ Approved(pulls'[e][j])}
                   = {j \in 1..MaxPulls : j <= Len(pulls[e]) /\ Approved(pulls[e][j])}
      BY <2>2, <2>3, <2>4 DEF Approved
    <3> QED
      BY <3>1 DEF approvedOf, Approved
  <2>6. mergedOf' = [mergedOf EXCEPT ![d] = @ \cup {i}]
    <3>1. ASSUME NEW e \in Drafts
          PROVE  {j \in 1..MaxPulls : j <= Len(pulls'[e]) /\ pulls'[e][j].state = "merged"}
                   = {j \in 1..MaxPulls : j <= Len(pulls[e]) /\ pulls[e][j].state = "merged"}
                       \cup (IF e = d THEN {i} ELSE {})
      BY <1>2, <2>2, <2>3, <2>4
    <3> QED
      BY <3>1 DEF mergedOf
  <2>7. i \in approvedOf[d] \ mergedOf[d]
    BY <1>2, <1>5, <2>2 DEF approvedOf, mergedOf
  <2>8. Gate!MergePull(d, i)
    BY <1>3, <2>5, <2>6, <2>7 DEF Gate!MergePull, liveOf
  <2> QED
    BY <2>2, <2>8 DEF Gate!GateNext
<1> QED
  BY <1>4, <1>5

LEMMA ApproveVisible ==
    ASSUME GateInv, NEW d \in Drafts, NEW i \in 1..MaxPulls, Approve(d, i)
    PROVE  [Gate!GateNext]_(Gate!gateVars)
<1> DEFINE pr == [pulls[d][i] EXCEPT !.approvals = @ \cup {pulls[d][i].head}]
<1>1. /\ i \in 1..Len(pulls[d]) /\ pulls[d][i].state = "open"
      /\ pulls' = [pulls EXCEPT ![d][i] = pr] /\ public' = public
  BY DEF Approve, OpenPulls
<1>2. pulls[d] \in Seq(PullRequest) /\ Len(pulls[d]) \in Nat
      /\ pulls[d][i] \in PullRequest
  BY <1>1 DEF GateInv, TypeOK
<1>3. pr \in PullRequest /\ pr.state = "open" /\ Approved(pr)
  BY <1>1, <1>2 DEF PullRequest, Approved
<1> HIDE DEF pr
<1>4. \A e \in Drafts, j \in Nat :
         /\ Len(pulls'[e]) = Len(pulls[e])
         /\ j \in 1..Len(pulls[e]) =>
              pulls'[e][j] = IF e = d /\ j = i THEN pr ELSE pulls[e][j]
  <2>1. i \in 1..Len(pulls[d]) /\ pr \in PullRequest
    BY <1>1, <1>3
  <2>2. pulls' = [pulls EXCEPT ![d][i] = pr]
    BY <1>1
  <2> QED
    BY ZenonT(40), <2>1, <2>2, OnePullChanges
<1>5. approvedOf' = [approvedOf EXCEPT ![d] = @ \cup {i}]
  <2>1. ASSUME NEW e \in Drafts
        PROVE  {j \in 1..MaxPulls : j <= Len(pulls'[e]) /\ Approved(pulls'[e][j])}
                 = {j \in 1..MaxPulls : j <= Len(pulls[e]) /\ Approved(pulls[e][j])}
                     \cup (IF e = d THEN {i} ELSE {})
    BY <1>1, <1>2, <1>3, <1>4
  <2> QED
    BY <2>1 DEF approvedOf, Approved
<1>6. mergedOf' = mergedOf
  <2>1. ASSUME NEW e \in Drafts
        PROVE  {j \in 1..MaxPulls : j <= Len(pulls'[e]) /\ pulls'[e][j].state = "merged"}
                 = {j \in 1..MaxPulls : j <= Len(pulls[e]) /\ pulls[e][j].state = "merged"}
    BY <1>1, <1>2, <1>3, <1>4
  <2> QED
    BY <2>1 DEF mergedOf
<1>7. i \notin mergedOf[d]
  BY <1>1 DEF mergedOf
<1>8. Gate!ApprovePull(d, i)
  BY <1>1, <1>5, <1>6, <1>7 DEF Gate!ApprovePull, liveOf
<1> QED
  BY <1>8 DEF Gate!GateNext

LEMMA ShipVisible ==
    ASSUME GateInv, NEW t \in Tasks, Ship(t)
    PROVE  [Gate!GateNext]_(Gate!gateVars)
<1>1. PICK d \in Drafts, i \in Nat : d = task[t].draft /\ i = task[t].pull
  BY RunningTask DEF Ship, At
<1> DEFINE post == [body |-> task[t].body, by |-> task[t].op, pull |-> task[t].pull]
<1>2. UNCHANGED pulls /\ public' = [public EXCEPT ![d] = Append(@, post)]
  BY <1>1 DEF Ship
<1>3. CameFromApproved(d, i)
  BY <1>1, RunningTask DEF Ship, At, TaskInv
<1>4. mergedOf[d] # {}
  <2>1. PICK j \in 1..Len(pulls[d]) : pulls[d][j].state = "merged"
    BY <1>3 DEF CameFromApproved
  <2>2. Len(pulls[d]) \in Nat /\ Len(pulls[d]) <= MaxPulls
    BY DEF GateInv, TypeOK
  <2>3. j \in 1..MaxPulls /\ j <= Len(pulls[d])
    BY <2>2, PipelineAssumption
  <2> QED
    BY <2>1, <2>3 DEF mergedOf
<1>5. liveOf' = [liveOf EXCEPT ![d] = @ + 1]
  <2>1. ASSUME NEW e \in Drafts
        PROVE  Len(public'[e]) = IF e = d THEN Len(public[d]) + 1 ELSE Len(public[e])
    <3>1. public \in [Drafts -> Seq(Post)] /\ public[d] \in Seq(Post)
      BY DEF GateInv, TypeOK
    <3>2. public'[e] = IF e = d THEN Append(public[d], post) ELSE public[e]
      BY <1>2, <3>1
    <3>3. Len(Append(public[d], post)) = Len(public[d]) + 1
      <4>1. public[d] \in Seq(Post \cup {post})
        BY <3>1
      <4> QED
        BY <4>1
    <3> QED
      BY <3>2, <3>3
  <2> QED
    BY <2>1 DEF liveOf
<1>6. UNCHANGED <<approvedOf, mergedOf>>
  BY <1>2 DEF approvedOf, mergedOf, Approved
<1>7. Gate!GoPublic(d)
  BY <1>4, <1>5, <1>6 DEF Gate!GoPublic
<1> QED
  BY <1>7 DEF Gate!GateNext

-------------------------------------------------------------------------------
LEMMA PromoteRefined ==
    ASSUME GateInv, NEW t \in Tasks, Promote(t)
    PROVE  [Gate!GateNext]_(Gate!gateVars)
<1>1. CASE Merge(t)
  BY <1>1, MergeVisible
<1>2. CASE Ship(t)
  BY <1>2, ShipVisible
<1>3. CASE ~Merge(t) /\ ~Ship(t)
  BY <1>3, InvisibleStep DEF Promote, Readiness, ReadBody, SyncMirror, Dedupe, Audit,
     MarkAccepted, MarkOpen
<1> QED
  BY <1>1, <1>2, <1>3

LEMMA SubmitRefined ==
    ASSUME GateInv, NEW t \in Tasks, Submit(t)
    PROVE  [Gate!GateNext]_(Gate!gateVars)
<1>1. CASE PushFiles(t)
  <2>1. PICK d \in Drafts, body \in 1..MaxVersion :
            d = task[t].draft /\ body = task[t].body
    BY <1>1, RunningTask DEF PushFiles, At, TaskInv, Task, Versions
  <2> QED
    BY <1>1, <2>1, BranchWriteInvisible DEF PushFiles
<1>2. CASE CreatePull(t)
  BY <1>2, CreateInvisible
<1>3. CASE ~PushFiles(t) /\ ~CreatePull(t)
  BY <1>3, InvisibleStep DEF Submit, CiteReachable, Resolve, RecordStatus, RecordPull,
     RetryGate
<1> QED
  BY <1>1, <1>2, <1>3

LEMMA EditRefined ==
    ASSUME GateInv, NEW t \in Tasks, Edit(t)
    PROVE  [Gate!GateNext]_(Gate!gateVars)
<1>1. CASE ClosePull(t)
  <2>1. PICK d \in Drafts, i \in Nat : d = task[t].draft /\ i = task[t].pull
    BY <1>1, RunningTask DEF ClosePull, At
  <2>2. i \in 1..Len(pulls[d])
    BY <1>1, <2>1, RunningTask DEF ClosePull, At, TaskInv, PullIndex
  <2>3. public' = public /\ (UNCHANGED pulls \/
          (i \in OpenPulls(d) /\ pulls' = SetState(d, i, "closed")))
    BY <1>1, <2>1, <2>2 DEF ClosePull, OpenPulls
  <2> QED
    BY <2>3, InvisibleStep, CloseInvisible
<1>2. CASE ReworkSave(t) \/ DropRow(t)
  BY <1>2, InvisibleStep DEF ReworkSave, DropRow
<1> QED
  BY <1>1, <1>2 DEF Edit

\* Every step of the pipeline is a step of the gate or invisible to it.
LEMMA NextRefined ==
    ASSUME "manual_merge" \notin Faults, GateInv, [Next]_vars
    PROVE  [Gate!GateNext]_(Gate!gateVars)
<1>1. CASE \E t \in Tasks, d \in Drafts : Command(t, d)
  BY <1>1, InvisibleStep DEF Command, AcceptLoad, RetryReship, RetryLoad, ReworkLoad,
     DeleteLoad
<1>2. CASE \E t \in Tasks, d \in Drafts, i \in 1..MaxPulls : HookStart(t, d, i)
  BY <1>2, InvisibleStep DEF HookStart
<1>3. CASE \E t \in Tasks : TaskStep(t)
  <2>1. PICK t \in Tasks : TaskStep(t)
    BY <1>3
  <2>2. CASE Fail(t)
    BY <2>2, InvisibleStep DEF Fail
  <2> QED
    BY <2>1, <2>2, PromoteRefined, SubmitRefined, EditRefined DEF TaskStep
<1>4. CASE \E d \in Drafts, i \in 1..MaxPulls : Github(d, i)
  BY <1>4, ApproveVisible, CloseInvisible DEF Github, CloseByHand, MergeByHand
<1>5. CASE Crash \/ UNCHANGED vars
  BY <1>5, InvisibleStep DEF Crash, vars
<1> QED
  BY <1>1, <1>2, <1>3, <1>4, <1>5 DEF Next

LEMMA InitRefined ==
    ASSUME Init
    PROVE  Gate!GateInit
<1>1. \A d \in Drafts : pulls[d] = <<>> /\ public[d] = <<>>
  BY DEF Init
<1>2. \A d \in Drafts : Len(pulls[d]) = 0 /\ Len(public[d]) = 0
  BY <1>1
<1>3. \A d \in Drafts, i \in 1..MaxPulls : ~(i <= Len(pulls[d]))
  BY <1>2, PipelineAssumption
<1> QED
  BY <1>2, <1>3 DEF Gate!GateInit, approvedOf, mergedOf, liveOf

\* The pipeline keeps the promise of docs/principles.md, stated without rows,
\* tasks, audits or webhooks: approve, then merge, then go public.
THEOREM GateRefined ==
    ASSUME "manual_merge" \notin Faults
    PROVE  Spec => GateSafety
<1>1. Init => Gate!GateInit
  BY InitRefined
<1>2. GateInv /\ [Next]_vars => [Gate!GateNext]_(Gate!gateVars)
  BY NextRefined
<1> QED
  BY <1>1, <1>2, GateInvHolds, PTL DEF Spec, GateSafety, Gate!GateSpec

-------------------------------------------------------------------------------
(* Webhook wakes *)

\* The number a hook promotes under.
LEMMA HookKey ==
    ASSUME GateInv, NEW t \in Tasks, task[t].op = "hook"
    PROVE  /\ task[t].draft \in Drafts
           /\ task[t].pull \in 1..MaxPulls
           /\ KeyOf(t) = Number[task[t].draft][task[t].pull]
           /\ KeyOf(t) \in Numbers
           /\ KeyOf(t) \in Nat /\ KeyOf(t) # NoKey
<1>1. task[t].pc # "idle"
  BY DEF GateInv, TaskInv
<1>2. task[t].draft \in Drafts /\ task[t].pull \in 1..MaxPulls
  <2>1. task[t].pull \in 1..Len(pulls[task[t].draft])
    BY <1>1, RunningTask DEF TaskInv, PullIndex
  <2> QED
    BY <1>1, <2>1, RunningTask, PipelineAssumption
<1>3. Number[task[t].draft][task[t].pull] \in Numbers
  BY <1>2 DEF Numbers
<1>4. Number[task[t].draft][task[t].pull] \in Nat
  BY <1>2, PipelineAssumption
<1> QED
  BY <1>2, <1>3, <1>4, PipelineAssumption DEF KeyOf

\* A task keeps its command, its draft and (a hook) its pull request until it ends.
Continues(t) ==
    /\ inflight' = inflight
    /\ task'[t].op = task[t].op
    /\ task'[t].draft = task[t].draft
    /\ task[t].op = "hook" => task'[t].pull = task[t].pull /\ task'[t].pc \in HookPcs

LEMMA GotoContinues ==
    ASSUME GateInv, NEW t \in Tasks, NEW pc \in Pcs, Goto(t, pc), inflight' = inflight,
           task[t].op = "hook" => pc \in HookPcs
    PROVE  Continues(t)
  BY GotoTask DEF Continues

LEMMA PromoteMoves ==
    ASSUME GateInv, HookKeysInv, NEW t \in Tasks, Promote(t)
    PROVE  End(t) \/ Continues(t)
<1>1. CASE ReadBody(t)
  BY <1>1 DEF ReadBody, Continues, HookPcs, GateInv, TypeOK, Task
<1>2. CASE ~ReadBody(t)
  <2>1. AfterMerge(t) \in Pcs \cap HookPcs
    BY DEF AfterMerge, Pcs, HookPcs
  <2>2. \/ End(t)
        \/ \E pc \in Pcs \cap HookPcs : Goto(t, pc) /\ inflight' = inflight
    <3>1. {"read", "dedupe", "ship", "mark", "audit", "markopen"} \subseteq Pcs \cap HookPcs
      BY DEF Pcs, HookPcs
    <3> QED
      BY <1>2, <2>1, <3>1 DEF Promote, Readiness, Merge, SyncMirror, Dedupe, Ship, Audit,
         MarkAccepted, MarkOpen
  <2> QED
    BY <2>2, GotoContinues
<1> QED
  BY <1>1, <1>2

\* The steps of the commands are not steps of a hook.
LEMMA CommandMoves ==
    ASSUME GateInv, HookKeysInv, NEW t \in Tasks, Submit(t) \/ Edit(t)
    PROVE  task[t].op # "hook" /\ (End(t) \/ Continues(t))
<1>1. task[t].pc \notin HookPcs
  BY DEF Submit, CiteReachable, Resolve, PushFiles, CreatePull, RecordStatus, RecordPull,
     RetryGate, Edit, ReworkSave, ClosePull, DropRow, At, HookPcs
<1>2. task[t].op # "hook"
  BY <1>1 DEF HookKeysInv
<1>3. task[t] \in Task /\ task \in [Tasks -> Task]
  BY DEF GateInv, TypeOK
<1>4. CASE Submit(t)
  <2>1. CASE Resolve(t)
    <3>1. "create" \in Pcs
      BY DEF Pcs
    <3>2. CASE End(t) \/ (Goto(t, "create") /\ UNCHANGED inflight)
      BY <1>2, <3>1, <3>2, GotoContinues
    <3>3. CASE \E n, pc : /\ task' = [task EXCEPT ![t].pull = n, ![t].pc = pc]
                          /\ UNCHANGED inflight
      BY <1>2, <1>3, <3>3 DEF Continues, Task
    <3> QED
      BY <2>1, <3>2, <3>3 DEF Resolve
  <2>2. CASE CreatePull(t)
    BY <1>2, <1>3, <2>2 DEF CreatePull, Continues, Task
  <2>3. CASE RetryGate(t)
    BY <1>2, <1>3, <2>3 DEF RetryGate, Continues, Task
  <2>4. CASE CiteReachable(t) \/ PushFiles(t) \/ RecordStatus(t) \/ RecordPull(t)
    <3>1. {"resolve", "record", "recordpr", "readiness"} \subseteq Pcs
      BY DEF Pcs
    <3>2. \E pc \in Pcs : Goto(t, pc) /\ inflight' = inflight
      BY <2>4, <3>1 DEF CiteReachable, PushFiles, RecordStatus, RecordPull
    <3> QED
      BY <1>2, <3>2, GotoContinues
  <2> QED
    BY <1>4, <2>1, <2>2, <2>3, <2>4 DEF Submit
<1>5. CASE Edit(t)
  BY <1>2, <1>3, <1>5 DEF Edit, ReworkSave, ClosePull, DropRow, Goto, Continues, Task
<1> QED
  BY <1>2, <1>4, <1>5

LEMMA OthersStay ==
    ASSUME GateInv, NEW t \in Tasks, TaskStep(t)
    PROVE  \A u \in Tasks \ {t} : task'[u] = task[u]
  BY DEF TaskStep, Promote, Readiness, ReadBody, Merge, SyncMirror, Dedupe, Ship, Audit,
     MarkAccepted, MarkOpen, Submit, CiteReachable, Resolve, PushFiles, CreatePull,
     RecordStatus, RecordPull, RetryGate, Edit, ReworkSave, ClosePull, DropRow, Fail,
     Goto, End, GateInv, TypeOK

LEMMA TaskMoves ==
    ASSUME GateInv, HookKeysInv, NEW t \in Tasks, TaskStep(t)
    PROVE  /\ \A u \in Tasks \ {t} : task'[u] = task[u]
           /\ End(t) \/ Continues(t)
  BY OthersStay, PromoteMoves, CommandMoves DEF TaskStep, Fail

\* A command that starts is no hook and leaves the in-flight set alone.
LEMMA CommandStarts ==
    ASSUME GateInv, NEW t \in Tasks, NEW d \in Drafts, Command(t, d)
    PROVE  /\ \A u \in Tasks \ {t} : task'[u] = task[u]
           /\ task[t].op = "idle" /\ task'[t].op # "hook" /\ inflight' = inflight
  BY DEF Command, AcceptLoad, RetryReship, RetryLoad, ReworkLoad, DeleteLoad, Start,
     GateInv, TypeOK

-------------------------------------------------------------------------------
\* Every hook holds its own number.
LEMMA KeysTaskStep ==
    ASSUME GateInv, HookKeysInv, NEW t \in Tasks, TaskStep(t)
    PROVE  HookKeysInv'
<1>1. \A u \in Tasks \ {t} : task'[u] = task[u]
  BY TaskMoves
<1>2. CASE End(t)
  <2>1. task'[t].op = "idle"
    BY <1>2 DEF End, IdleTask, GateInv, TypeOK
  <2>2. \A u \in Tasks : task[u].op = "hook" /\ u # t => KeyOf(u) \in inflight'
    BY <1>2 DEF End, HookKeysInv
  <2> QED
    BY <1>1, <2>1, <2>2 DEF HookKeysInv, KeyOf
<1>3. CASE Continues(t)
  BY SMTT(30), <1>1, <1>3 DEF Continues, HookKeysInv, KeyOf
<1> QED
  BY <1>2, <1>3, TaskMoves

LEMMA KeysHookStart ==
    ASSUME GateInv, HookKeysInv, NEW t \in Tasks, NEW d \in Drafts,
           NEW i \in 1..MaxPulls, HookStart(t, d, i)
    PROVE  HookKeysInv'
<1>1. /\ task[t].op = "idle"
      /\ task'[t].op = "hook" /\ task'[t].pc = "readiness"
      /\ task'[t].draft = d /\ task'[t].pull = i
      /\ \A u \in Tasks \ {t} : task'[u] = task[u]
      /\ Number[d][i] \notin inflight
      /\ inflight' = inflight \cup {Number[d][i]}
  BY DEF HookStart, Start, GateInv, TypeOK
<1>2. \A u \in Tasks : task[u].op = "hook" => KeyOf(u) # Number[d][i]
  BY <1>1 DEF HookKeysInv
<1> QED
  BY <1>1, <1>2 DEF HookKeysInv, KeyOf, HookPcs

LEMMA KeysStep ==
    ASSUME GateInv, HookKeysInv, [Next]_vars
    PROVE  HookKeysInv'
<1>1. ASSUME NEW t \in Tasks, NEW d \in Drafts, Command(t, d)
      PROVE  HookKeysInv'
  BY <1>1, CommandStarts DEF HookKeysInv, KeyOf
<1>2. CASE \E d \in Drafts, i \in 1..MaxPulls : Github(d, i)
  BY <1>2 DEF Github, Approve, CloseByHand, MergeByHand, HookKeysInv, KeyOf
<1>3. CASE Crash
  BY <1>3 DEF Crash, IdleTask, HookKeysInv
<1>4. CASE UNCHANGED vars
  BY <1>4 DEF vars, HookKeysInv, KeyOf
<1> QED
  BY <1>1, <1>2, <1>3, <1>4, KeysTaskStep, KeysHookStart DEF Next

LEMMA KeysInit ==
    ASSUME Init
    PROVE  HookKeysInv
  BY DEF Init, IdleTask, HookKeysInv

LEMMA KeysHold ==
    ASSUME "manual_merge" \notin Faults
    PROVE  Spec => []HookKeysInv
<1>1. Init => HookKeysInv
  BY KeysInit
<1>2. GateInv /\ HookKeysInv /\ [Next]_vars => HookKeysInv'
  BY KeysStep
<1> QED
  BY <1>1, <1>2, GateInvHolds, PTL DEF Spec

-------------------------------------------------------------------------------
\* The wakes of the pipeline go through PromoteToken.
LEMMA TokenTaskStep ==
    ASSUME GateInv, HookKeysInv, NEW t \in Tasks, TaskStep(t)
    PROVE  [Token!TokenNext]_(Token!tokenVars)
<1>1. \A u \in Tasks \ {t} : task'[u] = task[u]
  BY TaskMoves
<1>2. CASE Continues(t) \/ (End(t) /\ task[t].op # "hook")
  <2>1. \A u \in Tasks : /\ task'[u].op = "hook" <=> task[u].op = "hook"
                         /\ task[u].op = "hook" => task'[u].draft = task[u].draft
                                                   /\ task'[u].pull = task[u].pull
    <3>1. task[t].op = "hook" => Continues(t)
      BY <1>2
    <3>2. task[t].op # "hook" => task'[t].op # "hook"
      BY <1>2 DEF Continues, End, IdleTask, GateInv, TypeOK
    <3> QED
      BY <1>1, <3>1, <3>2 DEF Continues
  <2>2. holderOf' = holderOf
    BY <2>1 DEF holderOf, KeyOf
  <2> QED
    BY <1>2, <2>2 DEF Token!tokenVars, Continues, End
<1>3. CASE End(t) /\ task[t].op = "hook"
  <2>1. task'[t].op = "idle"
    BY <1>3 DEF End, IdleTask, GateInv, TypeOK
  <2>2. holderOf' = [holderOf EXCEPT ![t] = NoKey] /\ holderOf[t] = KeyOf(t)
    BY <1>1, <1>3, <2>1 DEF holderOf, KeyOf
  <2>3. Token!Release(t) \/ Token!Leak(t)
    BY <1>3, <2>2, HookKey DEF End, Token!Release, Token!Leak
  <2> QED
    BY <2>3 DEF Token!TokenNext
<1> QED
  BY <1>2, <1>3, TaskMoves

LEMMA TokenHookStart ==
    ASSUME GateInv, NEW t \in Tasks, NEW d \in Drafts, NEW i \in 1..MaxPulls,
           HookStart(t, d, i)
    PROVE  [Token!TokenNext]_(Token!tokenVars)
<1> DEFINE k == Number[d][i]
<1>1. /\ task[t].op = "idle" /\ task'[t].op = "hook"
      /\ task'[t].draft = d /\ task'[t].pull = i
      /\ \A u \in Tasks \ {t} : task'[u] = task[u]
      /\ k \notin inflight /\ inflight' = inflight \cup {k}
  BY DEF HookStart, Start, GateInv, TypeOK
<1>2. holderOf' = [holderOf EXCEPT ![t] = k] /\ holderOf[t] = NoKey
  BY <1>1 DEF holderOf, KeyOf
<1>3. k \in Numbers
  BY DEF Numbers
<1>4. Token!Acquire(t, k)
  BY <1>1, <1>2 DEF Token!Acquire
<1> QED
  BY <1>3, <1>4 DEF Token!TokenNext

LEMMA TokenStep ==
    ASSUME GateInv, HookKeysInv, [Next]_vars
    PROVE  [Token!TokenNext]_(Token!tokenVars)
<1>1. ASSUME NEW t \in Tasks, NEW d \in Drafts, Command(t, d)
      PROVE  UNCHANGED Token!tokenVars
  <2>1. holderOf' = holderOf
    BY <1>1, CommandStarts DEF holderOf, KeyOf
  <2> QED
    BY <1>1, <2>1, CommandStarts DEF Token!tokenVars
<1>2. CASE \E d \in Drafts, i \in 1..MaxPulls : Github(d, i)
  BY <1>2 DEF Github, Approve, CloseByHand, MergeByHand, holderOf, KeyOf, Token!tokenVars
<1>3. CASE Crash
  BY <1>3 DEF Crash, IdleTask, holderOf, Token!TokenNext, Token!Restart
<1>4. CASE UNCHANGED vars
  BY <1>4 DEF vars, holderOf, KeyOf, Token!tokenVars
<1> QED
  BY <1>1, <1>2, <1>3, <1>4, TokenTaskStep, TokenHookStart DEF Next

\* At most one webhook wake per pull-request number is ever promoting, in spite
\* of crashes, lost answers, forgotten numbers and edits.
THEOREM HooksUseToken ==
    ASSUME "manual_merge" \notin Faults
    PROVE  Spec => TokenSafety
<1>1. Init => Token!TokenInit
  BY DEF Init, IdleTask, holderOf, Token!TokenInit
<1>2. GateInv /\ HookKeysInv /\ [Next]_vars => [Token!TokenNext]_(Token!tokenVars)
  BY TokenStep
<1> QED
  BY <1>1, <1>2, GateInvHolds, KeysHold, PTL DEF Spec, TokenSafety, Token!TokenSpec

-------------------------------------------------------------------------------
\* From here on the process neither restarts nor loses an answer or a write.
Undisturbed == Faults \cap {"crash", "lost", "sqlite", "manual_merge"} = {}

\* What the shipping of hooks looks like from a step that does not ship.
LEMMA PostsQuietStep ==
    ASSUME HookPostsInv, UNCHANGED <<public, audited>>, NEW t \in Tasks,
           \A u \in Tasks \ {t} : task'[u] = task[u],
           ~(task[t].op = "hook" /\ task[t].pc = "audit"),
           ~(task'[t].op = "hook" /\ task'[t].pc = "ship")
    PROVE  HookPostsInv'
<1> SUFFICES ASSUME NEW d \in Drafts, NEW k \in 1..Len(public[d]),
                    public[d][k].by = "hook"
             PROVE  /\ d \in audited \/ \E u \in Tasks :
                          HookAt(u, "audit", d, public[d][k].pull)'
                    /\ \A u \in Tasks : ~HookAt(u, "ship", d, public[d][k].pull)'
  BY DEF HookPostsInv, HookAt
<1>1. d \in audited \/ \E u \in Tasks : HookAt(u, "audit", d, public[d][k].pull)
  BY DEF HookPostsInv
<1>2. \A u \in Tasks : ~HookAt(u, "ship", d, public[d][k].pull)
  BY DEF HookPostsInv
<1>3. d \in audited \/ \E u \in Tasks : HookAt(u, "audit", d, public[d][k].pull)'
  BY <1>1 DEF HookAt
<1>4. ASSUME NEW u \in Tasks
      PROVE  ~HookAt(u, "ship", d, public[d][k].pull)'
  <2>1. CASE u = t
    BY <2>1 DEF HookAt
  <2>2. CASE u # t
    BY <1>2, <2>2 DEF HookAt
  <2> QED
    BY <2>1, <2>2
<1> QED
  BY <1>3, <1>4

\* The audit row is written: the draft's posts are accounted for.
LEMMA PostsAudit ==
    ASSUME Undisturbed, GateInv, HookPostsInv, NEW t \in Tasks, Audit(t)
    PROVE  HookPostsInv'
<1>1. /\ audited' = audited \cup {task[t].draft} /\ public' = public
      /\ task[t].pc = "audit"
      /\ Goto(t, "mark") /\ "mark" \in Pcs
  BY DEF Undisturbed, Audit, At, Pcs
<1>2. /\ task'[t].pc = "mark"
      /\ \A u \in Tasks \ {t} : task'[u] = task[u]
  BY <1>1, GotoTask DEF Goto, GateInv, TypeOK
<1> SUFFICES ASSUME NEW d \in Drafts, NEW k \in 1..Len(public[d]),
                    public[d][k].by = "hook"
             PROVE  /\ d \in audited' \/ \E u \in Tasks :
                          HookAt(u, "audit", d, public[d][k].pull)'
                    /\ \A u \in Tasks : ~HookAt(u, "ship", d, public[d][k].pull)'
  BY <1>1 DEF HookPostsInv, HookAt
<1>3. PICK n : n = public[d][k].pull
  OBVIOUS
<1>4. \A u \in Tasks : ~HookAt(u, "ship", d, n)'
  BY <1>2, <1>3 DEF HookPostsInv, HookAt
<1>5. CASE d \in audited
  BY <1>1, <1>3, <1>4, <1>5 DEF HookAt
<1>6. CASE \E u \in Tasks : HookAt(u, "audit", d, n)
  <2>1. PICK u \in Tasks : HookAt(u, "audit", d, n)
    BY <1>6
  <2>2. u = t => d \in audited'
    BY <1>1, <2>1 DEF HookAt
  <2>3. u # t => HookAt(u, "audit", d, n)'
    BY <1>2, <2>1 DEF HookAt
  <2> QED
    BY <1>1, <1>3, <1>4, <2>2, <2>3 DEF HookAt
<1> QED
  BY <1>3, <1>5, <1>6 DEF HookPostsInv

\* A hook at the dedupe goes on to ship only a pull request no hook shipped: a
\* post that is not in the audit yet belongs to a hook holding another number.
LEMMA PostsDedupe ==
    ASSUME GateInv, HookKeysInv, HookPostsInv, NEW t \in Tasks, Dedupe(t)
    PROVE  HookPostsInv'
<1>1. /\ UNCHANGED <<public, audited>> /\ task[t].pc = "dedupe"
      /\ Goto(t, IF task[t].draft \in audited THEN "mark" ELSE "ship")
      /\ {"mark", "ship"} \subseteq Pcs
  BY DEF Dedupe, At, Pcs
<1>2. /\ \A u \in Tasks \ {t} : task'[u] = task[u]
      /\ task'[t].op = task[t].op /\ task'[t].draft = task[t].draft
      /\ task'[t].pull = task[t].pull
      /\ task'[t].pc = IF task[t].draft \in audited THEN "mark" ELSE "ship"
  BY <1>1, GotoTask DEF Goto, GateInv, TypeOK
<1> SUFFICES ASSUME NEW d \in Drafts, NEW k \in 1..Len(public[d]),
                    public[d][k].by = "hook"
             PROVE  /\ d \in audited \/ \E u \in Tasks :
                          HookAt(u, "audit", d, public[d][k].pull)'
                    /\ \A u \in Tasks : ~HookAt(u, "ship", d, public[d][k].pull)'
  BY <1>1 DEF HookPostsInv, HookAt
<1>3. PICK n : n = public[d][k].pull
  OBVIOUS
<1>4. d \in audited \/ \E u \in Tasks : HookAt(u, "audit", d, n)
  BY <1>3 DEF HookPostsInv
<1>5. d \in audited \/ \E u \in Tasks : HookAt(u, "audit", d, n)'
  BY <1>1, <1>2, <1>4 DEF HookAt
<1>6. ASSUME NEW u \in Tasks, HookAt(u, "ship", d, n)'
      PROVE  FALSE
  <2>1. u = t
    BY <1>2, <1>3, <1>6 DEF HookPostsInv, HookAt
  <2>2. /\ task[t].op = "hook" /\ task[t].draft = d /\ task[t].pull = n
        /\ d \notin audited
    BY <1>2, <1>6, <2>1 DEF HookAt
  <2>3. PICK v \in Tasks : HookAt(v, "audit", d, n)
    BY <1>4, <2>2
  <2>4. v # t
    BY <1>1, <2>3 DEF HookAt
  <2>5. KeyOf(v) = KeyOf(t)
    BY <2>2, <2>3 DEF HookAt, KeyOf
  <2> QED
    BY <2>2, <2>3, <2>4, <2>5 DEF HookKeysInv, HookAt
<1> QED
  BY <1>1, <1>3, <1>5, <1>6 DEF HookAt

\* A post of hook t: no hook shipped its pull request before, none is about to.
LEMMA PostsShip ==
    ASSUME Undisturbed, GateInv, HookKeysInv, HookPostsInv, HookShipsPullOnce,
           NEW t \in Tasks, Ship(t)
    PROVE  HookPostsInv' /\ HookShipsPullOnce'
<1>1. PICK e \in Drafts : e = task[t].draft
  BY RunningTask DEF Ship, At
<1> DEFINE post == [body |-> task[t].body, by |-> task[t].op, pull |-> task[t].pull]
           q == Append(public[e], post)
<1>2. /\ task[t].pc = "ship" /\ audited' = audited
      /\ public' = [public EXCEPT ![e] = q]
      /\ Goto(t, "audit") /\ "audit" \in Pcs
  BY <1>1 DEF Undisturbed, Ship, At, Pcs
<1>3. /\ \A u \in Tasks \ {t} : task'[u] = task[u]
      /\ task'[t].op = task[t].op /\ task'[t].draft = e
      /\ task'[t].pull = task[t].pull /\ task'[t].pc = "audit"
  BY <1>1, <1>2, GotoTask DEF Goto, GateInv, TypeOK
<1>4. /\ public[e] \in Seq(Post) /\ Len(public[e]) \in Nat
      /\ public'[e] = q /\ \A d \in Drafts \ {e} : public'[d] = public[d]
  BY <1>2 DEF GateInv, TypeOK
<1>5. /\ Len(q) = Len(public[e]) + 1
      /\ \A k \in 1..Len(public[e]) : q[k] = public[e][k]
      /\ q[Len(q)] = post
  <2>1. public[e] \in Seq(Post \cup {post})
    BY <1>4
  <2> QED
    BY <2>1
<1>6. post.by = task[t].op /\ post.pull = task[t].pull
  OBVIOUS
<1> HIDE DEF q, post
<1>7. ASSUME NEW k \in 1..Len(public[e]), public[e][k].by = "hook",
             task[t].op = "hook"
      PROVE  public[e][k].pull # task[t].pull
  BY <1>1, <1>2, <1>7 DEF HookPostsInv, HookAt
<1>8. HookShipsPullOnce'
  <2> SUFFICES ASSUME NEW d \in Drafts, NEW j \in 1..Len(public'[d]),
                      NEW k \in 1..Len(public'[d]),
                      public'[d][j].by = "hook", public'[d][k].by = "hook",
                      public'[d][j].pull = public'[d][k].pull
               PROVE  j = k
    BY DEF HookShipsPullOnce
  <2>1. CASE d # e
    BY <1>4, <2>1 DEF HookShipsPullOnce
  <2>2. CASE d = e
    <3>1. j \in 1..Len(public[e]) /\ k \in 1..Len(public[e]) => j = k
      BY <1>4, <1>5, <2>2 DEF HookShipsPullOnce
    <3>2. j \in 1..Len(public[e]) \/ j = Len(q)
      BY <1>4, <1>5, <2>2
    <3>3. k \in 1..Len(public[e]) \/ k = Len(q)
      BY <1>4, <1>5, <2>2
    <3>4. ~(j \in 1..Len(public[e]) /\ k = Len(q))
      BY <1>4, <1>5, <1>6, <1>7, <2>2
    <3>5. ~(k \in 1..Len(public[e]) /\ j = Len(q))
      BY <1>4, <1>5, <1>6, <1>7, <2>2
    <3> QED
      BY <3>1, <3>2, <3>3, <3>4, <3>5
  <2> QED
    BY <2>1, <2>2
<1>9. HookPostsInv'
  <2> SUFFICES ASSUME NEW d \in Drafts, NEW k \in 1..Len(public'[d]), NEW n,
                      n = public'[d][k].pull, public'[d][k].by = "hook"
               PROVE  /\ d \in audited \/ \E u \in Tasks : HookAt(u, "audit", d, n)'
                      /\ \A u \in Tasks : ~HookAt(u, "ship", d, n)'
    BY <1>2 DEF HookPostsInv, HookAt
  <2>1. CASE d # e \/ k \in 1..Len(public[e])
    <3>1. k \in 1..Len(public[d]) /\ public[d][k] = public'[d][k]
      BY <1>4, <1>5, <2>1
    <3>2. /\ d \in audited \/ \E u \in Tasks : HookAt(u, "audit", d, n)
          /\ \A u \in Tasks : ~HookAt(u, "ship", d, n)
      BY <3>1 DEF HookPostsInv
    <3> QED
      BY <1>2, <1>3, <3>2 DEF HookAt
  <2>2. CASE d = e /\ k \notin 1..Len(public[e])
    <3>1. k = Len(q) /\ task[t].op = "hook" /\ n = task[t].pull
      BY <1>4, <1>5, <1>6, <2>2
    <3>2. HookAt(t, "audit", d, n)'
      BY <1>3, <2>2, <3>1 DEF HookAt
    <3>3. ASSUME NEW u \in Tasks, HookAt(u, "ship", d, n)'
          PROVE  FALSE
      <4>1. u # t /\ task[u].op = "hook" /\ KeyOf(u) = KeyOf(t)
        BY <1>1, <1>3, <2>2, <3>1, <3>3 DEF HookAt, KeyOf
      <4> QED
        BY <3>1, <4>1 DEF HookKeysInv
    <3> QED
      BY <3>2, <3>3
  <2> QED
    BY <2>1, <2>2
<1> QED
  BY <1>8, <1>9

LEMMA PostsTaskStep ==
    ASSUME Undisturbed, GateInv, HookKeysInv, HookPostsInv, HookShipsPullOnce,
           NEW t \in Tasks, TaskStep(t)
    PROVE  HookPostsInv' /\ HookShipsPullOnce'
<1>1. CASE Ship(t)
  BY <1>1, PostsShip
<1>2. CASE ~Ship(t)
  <2>1. public' = public
    BY <1>2 DEF TaskStep, Promote, Readiness, ReadBody, Merge, SyncMirror, Dedupe, Audit,
       MarkAccepted, MarkOpen, Submit, CiteReachable, Resolve, PushFiles, CreatePull,
       RecordStatus, RecordPull, RetryGate, Edit, ReworkSave, ClosePull, DropRow, Fail
  <2>2. HookShipsPullOnce'
    BY <2>1 DEF HookShipsPullOnce
  <2>3. CASE Audit(t)
    BY <2>2, <2>3, PostsAudit
  <2>4. CASE Dedupe(t)
    BY <2>2, <2>4, PostsDedupe
  <2>5. CASE ~Audit(t) /\ ~Dedupe(t)
    <3>1. audited' = audited
      BY <1>2, <2>5 DEF TaskStep, Promote, Readiness, ReadBody, Merge, SyncMirror,
         MarkAccepted, MarkOpen, Submit, CiteReachable, Resolve, PushFiles, CreatePull,
         RecordStatus, RecordPull, RetryGate, Edit, ReworkSave, ClosePull, DropRow, Fail
    <3>2. task[t].pc # "audit"
      BY <1>2, <2>5 DEF TaskStep, Promote, Readiness, ReadBody, Merge, SyncMirror,
         MarkAccepted, MarkOpen, Submit, CiteReachable, Resolve, PushFiles, CreatePull,
         RecordStatus, RecordPull, RetryGate, Edit, ReworkSave, ClosePull, DropRow, Fail,
         Failing, At
    <3>3. ~(task'[t].op = "hook" /\ task'[t].pc = "ship")
      <4>1. CASE End(t)
        BY <4>1 DEF End, IdleTask, GateInv, TypeOK
      <4>2. CASE Submit(t) \/ Edit(t)
        BY <4>2, CommandMoves, <4>1 DEF Continues
      <4>3. CASE ReadBody(t)
        BY <4>3 DEF ReadBody, GateInv, TypeOK, Task
      <4>4. CASE /\ Promote(t) /\ ~End(t) /\ ~ReadBody(t)
        <5>1. \E pc \in Pcs : Goto(t, pc) /\ (task[t].op = "hook" => pc # "ship")
          <6>1. {"read", "sync", "dedupe", "ship", "markopen"} \subseteq Pcs
            BY DEF Pcs
          <6> QED
            BY <1>2, <2>5, <4>4, <6>1 DEF Promote, Readiness, Merge, SyncMirror,
               AfterMerge, MarkAccepted, MarkOpen
        <5> QED
          BY <5>1, GotoTask
      <4> QED
        BY <4>1, <4>2, <4>3, <4>4 DEF TaskStep, Fail
    <3> QED
      BY <2>1, <2>2, <3>1, <3>2, <3>3, TaskMoves, PostsQuietStep
  <2> QED
    BY <2>3, <2>4, <2>5
<1> QED
  BY <1>1, <1>2

LEMMA PostsStep ==
    ASSUME Undisturbed, GateInv, HookKeysInv, HookPostsInv, HookShipsPullOnce, [Next]_vars
    PROVE  HookPostsInv' /\ HookShipsPullOnce'
<1>1. ASSUME NEW t \in Tasks, NEW d \in Drafts, Command(t, d)
      PROVE  HookPostsInv' /\ HookShipsPullOnce'
  <2>1. UNCHANGED <<public, audited>>
    BY <1>1 DEF Command, AcceptLoad, RetryReship, RetryLoad, ReworkLoad, DeleteLoad
  <2>2. HookPostsInv'
    BY <1>1, <2>1, CommandStarts, PostsQuietStep
  <2> QED
    BY <2>1, <2>2 DEF HookShipsPullOnce
<1>2. ASSUME NEW t \in Tasks, NEW d \in Drafts, NEW i \in 1..MaxPulls,
             HookStart(t, d, i)
      PROVE  HookPostsInv' /\ HookShipsPullOnce'
  <2>1. /\ UNCHANGED <<public, audited>> /\ task[t].op = "idle"
        /\ task'[t].pc = "readiness"
        /\ \A u \in Tasks \ {t} : task'[u] = task[u]
    BY <1>2 DEF HookStart, Start, GateInv, TypeOK
  <2>2. HookPostsInv'
    BY <2>1, PostsQuietStep
  <2> QED
    BY <2>1, <2>2 DEF HookShipsPullOnce
<1>3. CASE \E d \in Drafts, i \in 1..MaxPulls : Github(d, i)
  BY <1>3 DEF Github, Approve, CloseByHand, MergeByHand, HookPostsInv, HookAt,
     HookShipsPullOnce
<1>4. CASE Crash
  BY <1>4 DEF Crash, Undisturbed
<1>5. CASE UNCHANGED vars
  BY <1>5 DEF vars, HookPostsInv, HookAt, HookShipsPullOnce
<1> QED
  BY <1>1, <1>2, <1>3, <1>4, <1>5, PostsTaskStep DEF Next

LEMMA PostsInit ==
    ASSUME Init
    PROVE  HookPostsInv /\ HookShipsPullOnce
<1>1. \A d \in Drafts : Len(public[d]) = 0
  BY DEF Init
<1> QED
  BY <1>1 DEF HookPostsInv, HookShipsPullOnce

\* While the process neither restarts nor loses an answer or a write, webhook
\* wakes publish each pull request once, next to any commands and edits.
THEOREM HooksShipOnce ==
    ASSUME Undisturbed
    PROVE  Spec => []HookShipsPullOnce
<1>1. Init => HookPostsInv /\ HookShipsPullOnce
  BY PostsInit
<1>2. /\ GateInv /\ HookKeysInv /\ HookPostsInv /\ HookShipsPullOnce
      /\ [Next]_vars
      => HookPostsInv' /\ HookShipsPullOnce'
  BY PostsStep
<1>3. "manual_merge" \notin Faults
  BY DEF Undisturbed
<1> QED
  BY <1>1, <1>2, <1>3, GateInvHolds, KeysHold, PTL DEF Spec

\* The invariant behind it, as the runs check it.
THEOREM HookInvHolds ==
    ASSUME Undisturbed
    PROVE  Spec => []HookInv
<1>1. Init => HookPostsInv /\ HookShipsPullOnce
  BY PostsInit
<1>2. /\ GateInv /\ HookKeysInv /\ HookPostsInv /\ HookShipsPullOnce
      /\ [Next]_vars
      => HookPostsInv' /\ HookShipsPullOnce'
  BY PostsStep
<1>3. "manual_merge" \notin Faults
  BY DEF Undisturbed
<1>4. HookInv <=> HookKeysInv /\ HookPostsInv
  BY DEF HookInv
<1> QED
  BY <1>1, <1>2, <1>3, <1>4, GateInvHolds, KeysHold, PTL DEF Spec

-------------------------------------------------------------------------------
\* A post stays a post.
IsPublished(d) == HasRow(d) /\ row[d].status = "published"

\* The two steps that take a row away from its post: a rewrite is saved over it, or it is dropped.
TakesBack(t, d) == task[t].draft = d /\ (ReworkSave(t) \/ DropRow(t))

\* A status that moves from another one moves nothing here.
LEMMA MoveSparesPublished ==
    ASSUME GateInv, NEW d \in Drafts, IsPublished(d), NEW e \in Drafts,
           NEW from \in {"open", "accepted"}, NEW to, Move(e, from, to)
    PROVE  row'[d] = row[d]
<1>1. CASE e = d
  BY <1>1 DEF Move, IsPublished
<1>2. CASE e # d
  BY <1>2 DEF Move, GateInv, TypeOK
<1> QED
  BY <1>1, <1>2

\* The coordinates of a pull request are the only thing written to a published row in passing.
LEMMA RecordPullSparesPublished ==
    ASSUME GateInv, NEW d \in Drafts, IsPublished(d), NEW t \in Tasks, RecordPull(t)
    PROVE  IsPublished(d)'
<1> DEFINE e == task[t].draft
           r == [row[d] EXCEPT !.pr = task[t].pull]
<1>1. task[t].pc = "recordpr"
  BY DEF RecordPull, At
<1>2. e \in Drafts /\ task[t].pull \in 0..MaxPulls
  BY <1>1, RunningTask
<1>3. CASE e # d \/ row' = row
  <2>1. row'[d] = row[d]
    BY <1>2, <1>3 DEF RecordPull, GateInv, TypeOK
  <2> QED
    BY <2>1 DEF IsPublished, HasRow
<1>4. CASE e = d /\ row' # row
  <2>1. row'[d] = r
    BY <1>4 DEF RecordPull, GateInv, TypeOK
  <2>2. row[d] \in Row /\ row[d].status = "published"
    BY StoredRow DEF IsPublished
  <2>3. r \in Row /\ r.status = "published"
    BY <1>2, <2>2 DEF Row
  <2> QED
    BY <2>1, <2>3, RowAssumption DEF IsPublished, HasRow
<1> QED
  BY <1>3, <1>4

LEMMA TaskStepSparesPublished ==
    ASSUME GateInv, NEW d \in Drafts, IsPublished(d), NEW t \in Tasks, TaskStep(t)
    PROVE  IsPublished(d)' \/ TakesBack(t, d)
<1>1. task[t].pc # "idle"
  BY DEF TaskStep, Promote, Readiness, ReadBody, Merge, SyncMirror, Dedupe, Ship, Audit,
     MarkAccepted, MarkOpen, Submit, CiteReachable, Resolve, PushFiles, CreatePull,
     RecordStatus, RecordPull, RetryGate, Edit, ReworkSave, ClosePull, DropRow, Fail,
     Failing, At
<1>2. task[t].draft \in Drafts
  BY <1>1, RunningTask
<1>3. CASE row' = row
  BY <1>3 DEF IsPublished, HasRow
<1>4. CASE MarkAccepted(t) \/ MarkOpen(t) \/ RecordStatus(t)
  <2>1. row' = row \/ \E from \in {"open", "accepted"}, to \in Statuses :
                          Move(task[t].draft, from, to)
    BY <1>4 DEF MarkAccepted, MarkOpen, RecordStatus, Statuses
  <2>2. row'[d] = row[d]
    BY <1>2, <2>1, MoveSparesPublished
  <2> QED
    BY <2>2 DEF IsPublished, HasRow
<1>5. CASE RecordPull(t)
  BY <1>5, RecordPullSparesPublished
<1>6. CASE ReworkSave(t) \/ DropRow(t)
  <2>1. CASE task[t].draft = d
    BY <1>6, <2>1 DEF TakesBack
  <2>2. CASE task[t].draft # d
    <3>1. row'[d] = row[d]
      BY <1>2, <1>6, <2>2 DEF ReworkSave, Upsert, DropRow, GateInv, TypeOK
    <3> QED
      BY <3>1 DEF IsPublished, HasRow
  <2> QED
    BY <2>1, <2>2
<1>7. \/ row' = row \/ MarkAccepted(t) \/ MarkOpen(t) \/ RecordStatus(t) \/ RecordPull(t)
      \/ ReworkSave(t) \/ DropRow(t)
  BY DEF TaskStep, Promote, Readiness, ReadBody, Merge, SyncMirror, Dedupe, Ship, Audit,
     Submit, CiteReachable, Resolve, PushFiles, CreatePull, RetryGate, Edit, ClosePull, Fail
<1> QED
  BY <1>3, <1>4, <1>5, <1>6, <1>7

LEMMA CommandSparesPublished ==
    ASSUME GateInv, NEW d \in Drafts, IsPublished(d), NEW t \in Tasks, NEW e \in Drafts,
           Command(t, e)
    PROVE  IsPublished(d)'
<1>1. row'[d] = row[d]
  <2>1. CASE ReworkLoad(t, e)
    <3>1. e # d
      BY <2>1 DEF ReworkLoad, IsPublished
    <3> QED
      BY <2>1, <3>1 DEF ReworkLoad, GateInv, TypeOK
  <2>2. CASE ~ReworkLoad(t, e)
    BY <2>2 DEF Command, AcceptLoad, RetryReship, RetryLoad, DeleteLoad
  <2> QED
    BY <2>1, <2>2
<1> QED
  BY <1>1 DEF IsPublished, HasRow

\* Whatever runs beside it, only a saved rewrite or a deletion of the draft takes it back.
LEMMA PublishedStep ==
    ASSUME GateInv, [Next]_vars, NEW d \in Drafts, IsPublished(d)
    PROVE  IsPublished(d)' \/ \E t \in Tasks : TakesBack(t, d)
<1>1. CASE \E t \in Tasks, e \in Drafts : Command(t, e)
  BY <1>1, CommandSparesPublished
<1>2. CASE \E t \in Tasks : TaskStep(t)
  BY <1>2, TaskStepSparesPublished
<1>3. CASE \/ \E t \in Tasks, e \in Drafts, i \in 1..MaxPulls : HookStart(t, e, i)
           \/ \E e \in Drafts, i \in 1..MaxPulls : Github(e, i)
           \/ Crash \/ UNCHANGED vars
  <2>1. row' = row
    BY <1>3 DEF HookStart, Github, Approve, CloseByHand, MergeByHand, Crash, vars
  <2> QED
    BY <2>1 DEF IsPublished, HasRow
<1> QED
  BY <1>1, <1>2, <1>3 DEF Next

\* mark_status_from, drafts_upsert.sql: a draft that is a Post stays one against every wake,
\* command, crash and failure, until a rewrite of that draft is saved or the draft is dropped.
THEOREM OnlyEditsTakeBack ==
    ASSUME "manual_merge" \notin Faults
    PROVE  Spec => [][\A d \in Drafts :
                         IsPublished(d) => IsPublished(d)' \/ \E t \in Tasks : TakesBack(t, d)]_vars
<1>1. GateInv /\ [Next]_vars
        => [\A d \in Drafts :
               IsPublished(d) => IsPublished(d)' \/ \E t \in Tasks : TakesBack(t, d)]_vars
  BY PublishedStep
<1> QED
  BY <1>1, GateInvHolds, PTL DEF Spec

\* Where nobody reworks or deletes, no task is about to.
NothingEdited == \A t \in Tasks : task[t].op \notin {"rework", "delete"}

LEMMA NothingEditedStep ==
    ASSUME Ops \cap {"rework", "delete"} = {}, GateInv, HookKeysInv, NothingEdited, [Next]_vars
    PROVE  NothingEdited'
<1>1. ASSUME NEW t \in Tasks, NEW d \in Drafts, Command(t, d)
      PROVE  NothingEdited'
  <2>1. task'[t].op \in {"accept", "reship", "retry"}
    BY <1>1 DEF Command, AcceptLoad, RetryReship, RetryLoad, ReworkLoad, DeleteLoad, Start,
       GateInv, TypeOK
  <2> QED
    BY <1>1, <2>1, CommandStarts DEF NothingEdited
<1>2. ASSUME NEW t \in Tasks, NEW d \in Drafts, NEW i \in 1..MaxPulls, HookStart(t, d, i)
      PROVE  NothingEdited'
  BY <1>2 DEF HookStart, Start, NothingEdited, GateInv, TypeOK
<1>3. ASSUME NEW t \in Tasks, TaskStep(t)
      PROVE  NothingEdited'
  <2>1. task'[t].op \in {task[t].op, "idle"}
    BY <1>3, TaskMoves DEF End, IdleTask, Continues, GateInv, TypeOK
  <2> QED
    BY <1>3, <2>1, TaskMoves DEF NothingEdited
<1>4. CASE \E d \in Drafts, i \in 1..MaxPulls : Github(d, i)
  BY <1>4 DEF Github, Approve, CloseByHand, MergeByHand, NothingEdited
<1>5. CASE Crash
  BY <1>5 DEF Crash, IdleTask, NothingEdited
<1>6. CASE UNCHANGED vars
  BY <1>6 DEF vars, NothingEdited
<1> QED
  BY <1>1, <1>2, <1>3, <1>4, <1>5, <1>6 DEF Next

\* A draft that is a Post stays one, as long as it is neither edited nor deleted, for any number of
\* wakes, submits and retries and whatever crashes, fails or gets lost.
THEOREM PublishedStaysFinal ==
    ASSUME "manual_merge" \notin Faults, Ops \cap {"rework", "delete"} = {}
    PROVE  Spec => PublishedIsFinal
<1>1. Init => NothingEdited
  BY DEF Init, IdleTask, NothingEdited
<1>2. GateInv /\ HookKeysInv /\ NothingEdited /\ [Next]_vars => NothingEdited'
  BY NothingEditedStep
<1>3. GateInv /\ NothingEdited => \A t \in Tasks : task[t].pc \notin {"write", "drop"}
  BY DEF GateInv, TaskInv, NothingEdited
<1>4. \A t \in Tasks, d \in Drafts : TakesBack(t, d) => task[t].pc \in {"write", "drop"}
  BY DEF TakesBack, ReworkSave, DropRow, At
<1>5. GateInv /\ NothingEdited /\ [Next]_vars
        => [\A d \in Drafts :
               HasRow(d) /\ row[d].status = "published"
                 => row'[d] # NoRow /\ row'[d].status = "published"]_vars
  BY <1>3, <1>4, PublishedStep DEF IsPublished, HasRow
<1> QED
  BY <1>1, <1>2, <1>5, GateInvHolds, KeysHold, PTL DEF Spec, PublishedIsFinal
===============================================================================
