----------------------------- MODULE ServiceProofs -----------------------------
(***************************************************************************)
(* Proofs about three services beside the gate.                            *)
(*                                                                         *)
(* Replies: what a saved reply looks like, and that a reply which no two   *)
(* commands worked on at once and whose ship was recorded goes out once,   *)
(* with the text of its row.                                               *)
(*                                                                         *)
(* Completions: CallsInv says of every call which slots failed before the  *)
(* one it is at, and how many results its last turn is still owed.         *)
(*                                                                         *)
(* Builds, for any number of commands, whatever overlaps, fails, restarts  *)
(* and is edited meanwhile: a build that no session was left open for and  *)
(* that runs alone works under its own id from its stub to its text        *)
(* (UndisturbedInv), hence the two action properties about it; and no late *)
(* failure reaches a row with a text.                                      *)
(***************************************************************************)
EXTENDS ReplyShip, LlmRouter, DraftBuild, FiniteSetTheorems, TLAPS

-------------------------------------------------------------------------------
(* Replies *)

\* A step moves at most the command t.
OnlyMoves(t) ==
    /\ replyTask' \in [ReplyTasks -> ReplyCommand]
    /\ \A u \in ReplyTasks \ {t} : replyTask'[u] = replyTask[u]

\* ... and leaves what it does to a reply as it is, or ends a rework.
Quiet(t) ==
    /\ OnlyMoves(t)
    /\ replyTask[t].pc # "mark" /\ replyTask'[t].op # "accept"
    /\ replyTask'[t].op = "rework" =>
           replyTask[t].op = "rework" /\ replyTask'[t].id = replyTask[t].id

\* A command that goes to another step keeps its operation, id and text.
LEMMA GotoMoves ==
    ASSUME ReplyInv, NEW t \in ReplyTasks, NEW pc \in {"fetch", "browser", "write", "save", "mark"},
           ReplyGoto(t, pc)
    PROVE  /\ OnlyMoves(t)
           /\ replyTask'[t] = [replyTask[t] EXCEPT !.pc = pc]
           /\ replyTask'[t].op = replyTask[t].op /\ replyTask'[t].id = replyTask[t].id
           /\ replyTask'[t].text = replyTask[t].text /\ replyTask'[t].pc = pc
<1>1. replyTask[t] \in ReplyCommand /\ pc \in UNION {ReplyPcs[op] : op \in DOMAIN ReplyPcs}
  BY DEF ReplyInv, ReplyPcs
<1>2. [replyTask[t] EXCEPT !.pc = pc] \in ReplyCommand
  BY <1>1 DEF ReplyCommand
<1>3. replyTask' = [replyTask EXCEPT ![t] = [replyTask[t] EXCEPT !.pc = pc]]
  BY DEF ReplyGoto
<1> QED
  BY <1>1, <1>2, <1>3 DEF ReplyInv, OnlyMoves, ReplyCommand

\* A command that ends is an idle one.
LEMMA LeaveMoves ==
    ASSUME ReplyInv, NEW t \in ReplyTasks, Leave(t)
    PROVE  /\ OnlyMoves(t)
           /\ replyTask'[t].op = "none" /\ replyTask'[t].pc = "idle"
           /\ CommandInv(t)'
<1>1. IdleReply \in ReplyCommand
  BY ReplyAssumption DEF IdleReply, Command, ReplyId, ReplyCommand, ReplyPcs
<1>2. replyTask' = [replyTask EXCEPT ![t] = IdleReply]
  BY DEF Leave
<1>3. OnlyMoves(t) /\ replyTask'[t] = IdleReply
  BY <1>1, <1>2 DEF ReplyInv, OnlyMoves
<1> QED
  BY <1>3 DEF IdleReply, Command, CommandInv, ReplyPcs

\* A command that is set whole is that command.
LEMMA BecomesCommand ==
    ASSUME ReplyInv, NEW t \in ReplyTasks, NEW op, NEW pc, NEW i, NEW mode, NEW x,
           Command(op, pc, i, mode, x) \in ReplyCommand,
           replyTask' = [replyTask EXCEPT ![t] = Command(op, pc, i, mode, x)]
    PROVE  /\ OnlyMoves(t)
           /\ replyTask'[t].op = op /\ replyTask'[t].pc = pc /\ replyTask'[t].id = i
           /\ replyTask'[t].text = x
<1>1. OnlyMoves(t) /\ replyTask'[t] = Command(op, pc, i, mode, x)
  BY DEF ReplyInv, OnlyMoves
<1> QED
  BY <1>1 DEF Command

\* A text is written into the command that asked for it.
LEMMA WrittenMoves ==
    ASSUME ReplyInv, NEW t \in ReplyTasks, NEW pc \in {"read", "upsert"}, NEW x \in Text,
           Written(t, pc, x)
    PROVE  /\ OnlyMoves(t)
           /\ replyTask'[t].op = replyTask[t].op /\ replyTask'[t].id = replyTask[t].id
           /\ replyTask'[t].text = x /\ replyTask'[t].pc = pc
<1> DEFINE op == replyTask[t].op
           i == replyTask[t].id
<1>1. replyTask[t] \in ReplyCommand
  BY DEF ReplyInv
<1>2. replyTask' = [replyTask EXCEPT ![t] = Command(op, pc, i, "none", x)]
  BY DEF Written
<1>3. Command(op, pc, i, "none", x) \in ReplyCommand
  BY <1>1 DEF Command, ReplyCommand, ReplyPcs
<1>4. op = replyTask[t].op /\ i = replyTask[t].id
  OBVIOUS
<1> HIDE DEF op, i
<1>5. /\ OnlyMoves(t)
      /\ replyTask'[t].op = op /\ replyTask'[t].id = i
      /\ replyTask'[t].text = x /\ replyTask'[t].pc = pc
  BY ZenonT(40), <1>2, <1>3, BecomesCommand
<1> QED
  BY <1>4, <1>5

\* Asking the model once more changes the count of tries only.
LEMMA TriesMoves ==
    ASSUME ReplyInv, NEW t \in ReplyTasks, replyTask' = [replyTask EXCEPT ![t].tries = 1]
    PROVE  /\ OnlyMoves(t)
           /\ replyTask'[t] = [replyTask[t] EXCEPT !.tries = 1]
           /\ replyTask'[t].op = replyTask[t].op /\ replyTask'[t].id = replyTask[t].id
           /\ replyTask'[t].pc = replyTask[t].pc /\ replyTask'[t].text = replyTask[t].text
<1>1. replyTask[t] \in ReplyCommand
  BY DEF ReplyInv
<1>2. [replyTask[t] EXCEPT !.tries = 1] \in ReplyCommand
  BY <1>1 DEF ReplyCommand
<1> QED
  BY <1>1, <1>2 DEF ReplyInv, OnlyMoves, ReplyCommand

\* What stays true of the rows and of every reply in a quiet step.
LEMMA QuietStep ==
    ASSUME ReplyInv, NEW t \in ReplyTasks, Quiet(t), CommandInv(t)',
           replySeq' \in [ReplySurfaces -> 0..MaxReplies],
           UNCHANGED <<replies, sent, disturbed>>
    PROVE  ReplyInv'
<1>1. \A u \in ReplyTasks : CommandInv(u)'
  <2> SUFFICES ASSUME NEW u \in ReplyTasks, u # t PROVE CommandInv(u)'
    OBVIOUS
  <2> QED
    BY DEF Quiet, OnlyMoves, CommandInv, ReplyInv
<1>2. \A u \in ReplyTasks : \A i : WorksOn(u, i)' => WorksOn(u, i)
  BY DEF WorksOn, Quiet, OnlyMoves
<1>3. replyTask'[t].op = "rework" => replyTask'[t].pc # "mark"
  BY DEF CommandInv, ReplyPcs
<1>4. ASSUME NEW i \in ReplyIds \ disturbed PROVE LoneReplyInv(i)'
  <2>1. LoneReplyInv(i)
    BY <1>4 DEF ReplyInv
  <2>2. \A u \in ReplyTasks : WorksOn(u, i)' =>
           /\ sent'[i] # <<>> => replyTask'[u].pc = "mark"
           /\ replyTask'[u].op = "accept" =>
                  replies'[i] = [status |-> "open", text |-> replyTask'[u].text]
           /\ replyTask'[u].pc = "mark" /\ i.surface \in Live => sent'[i] = <<replyTask'[u].text>>
    <3> SUFFICES ASSUME NEW u \in ReplyTasks, WorksOn(u, i)'
                 PROVE  /\ sent'[i] # <<>> => replyTask'[u].pc = "mark"
                        /\ replyTask'[u].op = "accept" =>
                               replies'[i] = [status |-> "open", text |-> replyTask'[u].text]
                        /\ replyTask'[u].pc = "mark" /\ i.surface \in Live =>
                               sent'[i] = <<replyTask'[u].text>>
      OBVIOUS
    <3>1. WorksOn(u, i)
      BY <1>2
    <3>2. CASE u = t
      <4>1. replyTask'[t].op = "rework" /\ replyTask[t].pc # "mark"
        BY <3>2 DEF Quiet, WorksOn
      <4>2. sent[i] = <<>>
        BY <2>1, <3>1, <3>2, <4>1 DEF LoneReplyInv
      <4> QED
        BY <1>3, <3>2, <4>1, <4>2
    <3>3. CASE u # t
      BY <2>1, <3>1, <3>3 DEF LoneReplyInv, Quiet, OnlyMoves
    <3> QED
      BY <3>2, <3>3
  <2>3. ASSUME NEW u \in ReplyTasks, WorksOn(u, i), replyTask[u].pc = "mark"
        PROVE  WorksOn(u, i)' /\ replyTask'[u].pc = "mark"
    BY <2>3 DEF WorksOn, Quiet, OnlyMoves
  <2> QED
    BY <1>2, <2>1, <2>2, <2>3 DEF LoneReplyInv
<1>5. replyTask' \in [ReplyTasks -> ReplyCommand]
  BY DEF Quiet, OnlyMoves
<1> QED
  BY <1>1, <1>4, <1>5 DEF ReplyInv, SavedReplyIsChecked

\* The commands that write a text.
LEMMA AnsweredKeeps ==
    ASSUME ReplyInv, NEW t \in ReplyTasks, replyTask[t].op = "create", replyTask[t].pc = "write",
           NEW y \in Text, ~OverLimit(replyTask[t].id.surface, y), Answered(t, y),
           UNCHANGED <<replySeq, replies, sent, disturbed>>
    PROVE  ReplyInv'
<1>1. CASE Written(t, "read", y) /\ ~EchoesParent(y)
  <2>1. Quiet(t) /\ CommandInv(t)'
    BY <1>1, WrittenMoves DEF Quiet, CommandInv, ReplyPcs, ReplyInv
  <2> QED
    BY <2>1, QuietStep DEF ReplyInv
<1>2. CASE replyTask' = [replyTask EXCEPT ![t].tries = 1]
  <2>1. Quiet(t) /\ CommandInv(t)'
    BY <1>2, TriesMoves DEF Quiet, CommandInv, ReplyPcs, ReplyInv
  <2> QED
    BY <2>1, QuietStep DEF ReplyInv
<1>3. CASE Leave(t)
  <2>1. Quiet(t)
    BY <1>3, LeaveMoves DEF Quiet
  <2> QED
    BY <1>3, <2>1, LeaveMoves, QuietStep DEF ReplyInv
<1> QED
  BY <1>1, <1>2, <1>3 DEF Answered

\* A command that ends before its ship leaves everything else as it is.
LEMMA LeavingKeeps ==
    ASSUME ReplyInv, NEW t \in ReplyTasks, replyTask[t].pc # "mark", Leave(t),
           replySeq' = replySeq, UNCHANGED <<replies, sent, disturbed>>
    PROVE  ReplyInv'
<1>1. Quiet(t)
  BY LeaveMoves DEF Quiet
<1> QED
  BY <1>1, LeaveMoves, QuietStep DEF ReplyInv

\* The fetches of a new reply.
LEMMA FetchingKeeps ==
    ASSUME ReplyInv, NEW t \in ReplyTasks, replyTask[t].op = "create",
           replyTask[t].pc \in {"fetch", "browser"},
           NEW pc \in {"write", "browser"}, ReplyGoto(t, pc),
           UNCHANGED <<replySeq, replies, sent, disturbed>>
    PROVE  ReplyInv'
<1>1. OnlyMoves(t) /\ replyTask'[t].op = "create" /\ replyTask'[t].id = replyTask[t].id
      /\ replyTask'[t].pc = pc
  BY GotoMoves
<1>2. replyTask[t].id \in ReplyIds
  BY DEF ReplyInv, CommandInv
<1>3. Quiet(t) /\ CommandInv(t)'
  BY <1>1, <1>2 DEF Quiet, CommandInv, ReplyPcs
<1> QED
  BY <1>3, QuietStep DEF ReplyInv

\* The clean-ups of a text give a text.
LEMMA EmojiText ==
    ASSUME NEW x \in Text
    PROVE  EnsureOneEmoji(x) \in Text /\ ScrubBanned(x) \in Text
  BY DEF EnsureOneEmoji, ScrubBanned, Text

\* The steps of a new reply before its row is written.
LEMMA CreateKeeps ==
    ASSUME ReplyInv, NEW t \in ReplyTasks,
           \/ \E s \in ReplySurfaces : CreateReply(t, s)
           \/ ReadComment(t) \/ LookupStatus(t) \/ BraveStatus(t)
           \/ WriteCommentReply(t) \/ WriteTweetReply(t) \/ ReadReplySeq(t) \/ BumpReplySeq(t)
    PROVE  ReplyInv'
<1>1. ASSUME NEW s \in ReplySurfaces, CreateReply(t, s) PROVE ReplyInv'
  <2>1. /\ ReplyId(s, 0) \in ReplyIds
        /\ Command("create", "fetch", ReplyId(s, 0), "none", NoReplyText) \in ReplyCommand
    BY ReplyAssumption DEF Command, ReplyCommand, ReplyPcs, ReplyIds, ReplyId
  <2>2. replyTask' =
            [replyTask EXCEPT ![t] = Command("create", "fetch", ReplyId(s, 0), "none", NoReplyText)]
    BY <1>1 DEF CreateReply
  <2>3. OnlyMoves(t) /\ replyTask'[t].op = "create" /\ replyTask'[t].pc = "fetch"
        /\ replyTask'[t].id = ReplyId(s, 0)
    BY <2>1, <2>2, BecomesCommand
  <2>4. Quiet(t) /\ CommandInv(t)'
    BY <1>1, <2>1, <2>3 DEF Quiet, CommandInv, ReplyPcs, CreateReply
  <2> QED
    BY <1>1, <2>4, QuietStep DEF ReplyInv, CreateReply
<1>2. CASE ReadComment(t)
  BY <1>2, FetchingKeeps, LeavingKeeps DEF ReadComment, ReplyAt
<1>3. CASE LookupStatus(t)
  BY <1>3, FetchingKeeps DEF LookupStatus, ReplyAt
<1>4. CASE BraveStatus(t)
  BY <1>4, FetchingKeeps, LeavingKeeps DEF BraveStatus, ReplyAt
<1>5. CASE WriteCommentReply(t)
  <2>1. CASE Leave(t)
    BY <1>5, <2>1, LeavingKeeps DEF WriteCommentReply, ReplyAt
  <2>2. ASSUME NEW x \in RawTexts, Answered(t, EnsureOneEmoji(x)) PROVE ReplyInv'
    <3>1. EnsureOneEmoji(x) \in Text
      BY EmojiText, ReplyAssumption
    <3> QED
      BY <1>5, <2>2, <3>1, AnsweredKeeps DEF WriteCommentReply, ReplyAt, OverLimit
  <2> QED
    BY <1>5, <2>1, <2>2 DEF WriteCommentReply
<1>6. CASE WriteTweetReply(t)
  <2>1. CASE Leave(t)
    BY <1>6, <2>1, LeavingKeeps DEF WriteTweetReply, ReplyAt
  <2>2. ASSUME NEW x \in RawTexts, ~OverLimit("x", EnsureOneEmoji(x)),
               Answered(t, EnsureOneEmoji(x))
        PROVE ReplyInv'
    <3>1. EnsureOneEmoji(x) \in Text
      BY EmojiText, ReplyAssumption
    <3> QED
      BY <1>6, <2>2, <3>1, AnsweredKeeps DEF WriteTweetReply, ReplyAt
  <2> QED
    BY <1>6, <2>1, <2>2 DEF WriteTweetReply
<1>7. CASE ReadReplySeq(t)
  <2>1. CASE Leave(t)
    BY <1>7, <2>1, LeavingKeeps DEF ReadReplySeq, ReplyAt
  <2>2. CASE ~Leave(t)
    <3> DEFINE s == replyTask[t].id.surface
               i == ReplyId(s, replySeq[s] + 1)
    <3>1. /\ replySeq[s] < MaxReplies
          /\ replyTask' =
                 [replyTask EXCEPT ![t] = Command("create", "bump", i, "none", replyTask[t].text)]
      BY <1>7, <2>2 DEF ReadReplySeq
    <3>2. replyTask[t] \in ReplyCommand /\ s \in ReplySurfaces /\ CommandInv(t)
      <4>1. replyTask[t].op = "create" /\ CommandInv(t) /\ replyTask[t] \in ReplyCommand
        BY <1>7 DEF ReadReplySeq, ReplyAt, ReplyInv
      <4>2. replyTask[t].id \in ReplyIds
        BY <4>1 DEF CommandInv
      <4> QED
        BY <4>1, <4>2 DEF ReplyIds
    <3>3. replySeq[s] + 1 \in 1..MaxReplies
      <4>1. replySeq[s] \in 0..MaxReplies
        BY <3>2 DEF ReplyInv
      <4> QED
        BY <3>1, <4>1, ReplyAssumption
    <3>4. i \in ReplyIds /\ i.n \in 1..MaxReplies /\ i.surface = s
      BY <3>2, <3>3 DEF ReplyIds, ReplyId
    <3>5. Command("create", "bump", i, "none", replyTask[t].text) \in ReplyCommand
      BY <3>2, <3>4, ReplyAssumption DEF Command, ReplyCommand, ReplyPcs, ReplyIds
    <3> DEFINE x == replyTask[t].text
    <3>6. x = replyTask[t].text
      OBVIOUS
    <3> HIDE DEF i, x
    <3>7. Command("create", "bump", i, "none", x) \in ReplyCommand
      BY <3>5, <3>6
    <3>8. replyTask' = [replyTask EXCEPT ![t] = Command("create", "bump", i, "none", x)]
      BY <3>1, <3>6
    <3>9. OnlyMoves(t) /\ replyTask'[t].op = "create" /\ replyTask'[t].pc = "bump" /\ replyTask'[t].id = i
          /\ replyTask'[t].text = x
      BY <3>7, <3>8, BecomesCommand
    <3>10. Quiet(t)
      BY <1>7, <3>9 DEF Quiet, ReadReplySeq, ReplyAt
    <3>11. CommandInv(t)'
      BY <1>7, <3>2, <3>4, <3>6, <3>9 DEF CommandInv, ReplyPcs, ReadReplySeq, ReplyAt
    <3> QED
      BY <1>7, <3>10, <3>11, QuietStep DEF ReplyInv, ReadReplySeq
  <2> QED
    BY <2>1, <2>2
<1>8. CASE BumpReplySeq(t)
  <2>1. CASE Leave(t) /\ UNCHANGED replySeq
    BY <1>8, <2>1, LeavingKeeps DEF BumpReplySeq, ReplyAt
  <2>2. CASE /\ replySeq' = [replySeq EXCEPT ![replyTask[t].id.surface] = replyTask[t].id.n]
             /\ ReplyGoto(t, "save")
    <3>1. replyTask[t].id \in ReplyIds /\ replyTask[t].id.n \in 1..MaxReplies
      BY <1>8 DEF BumpReplySeq, ReplyAt, ReplyInv, CommandInv
    <3>2. replySeq' \in [ReplySurfaces -> 0..MaxReplies]
      BY <2>2, <3>1 DEF ReplyInv, ReplyIds
    <3>3. OnlyMoves(t) /\ replyTask'[t].op = "create" /\ replyTask'[t].id = replyTask[t].id
          /\ replyTask'[t].pc = "save" /\ replyTask'[t].text = replyTask[t].text
      BY <1>8, <2>2, GotoMoves DEF BumpReplySeq, ReplyAt
    <3>4. CommandInv(t)
      BY DEF ReplyInv
    <3>5. Quiet(t)
      BY <1>8, <3>3 DEF Quiet, BumpReplySeq, ReplyAt
    <3>6. CommandInv(t)'
      BY <1>8, <3>1, <3>3, <3>4 DEF CommandInv, ReplyPcs, BumpReplySeq, ReplyAt
    <3> QED
      BY <1>8, <3>2, <3>5, <3>6, QuietStep DEF BumpReplySeq
  <2> QED
    BY <1>8, <2>1, <2>2 DEF BumpReplySeq
<1> QED
  BY <1>1, <1>2, <1>3, <1>4, <1>5, <1>6, <1>7, <1>8

\* The steps of a rework before its row is written.
LEMMA RewriteKeeps ==
    ASSUME ReplyInv, NEW t \in ReplyTasks, ReplaceReply(t) \/ RewriteReply(t)
    PROVE  ReplyInv'
<1>1. /\ replyTask[t].op = "rework" /\ replyTask[t].pc = "rewrite"
      /\ UNCHANGED <<replySeq, replies, sent, disturbed>>
  BY DEF ReplaceReply, RewriteReply, ReplyAt
<1>2. replyTask[t].id \in ReplyIds
  BY <1>1 DEF ReplyInv, CommandInv
<1>3. CASE Leave(t)
  BY <1>1, <1>3, LeavingKeeps
<1>4. ASSUME NEW y \in Text, Written(t, "upsert", y), ~EchoesParent(y),
             ~OverLimit(replyTask[t].id.surface, y)
      PROVE  ReplyInv'
  <2>1. OnlyMoves(t) /\ replyTask'[t].op = replyTask[t].op /\ replyTask'[t].id = replyTask[t].id
        /\ replyTask'[t].text = y /\ replyTask'[t].pc = "upsert"
    BY <1>4, WrittenMoves
  <2>2. Quiet(t) /\ CommandInv(t)'
    BY <1>1, <1>2, <1>4, <2>1 DEF Quiet, CommandInv, ReplyPcs
  <2> QED
    BY <1>1, <2>2, QuietStep DEF ReplyInv
<1>5. CASE replyTask' = [replyTask EXCEPT ![t].tries = 1]
  <2>1. OnlyMoves(t) /\ replyTask'[t].op = replyTask[t].op /\ replyTask'[t].id = replyTask[t].id
        /\ replyTask'[t].text = replyTask[t].text /\ replyTask'[t].pc = replyTask[t].pc
    BY <1>5, TriesMoves
  <2>2. Quiet(t) /\ CommandInv(t)'
    BY <1>1, <1>2, <2>1 DEF Quiet, CommandInv, ReplyPcs
  <2> QED
    BY <1>1, <2>2, QuietStep DEF ReplyInv
<1>6. \A x \in RawTexts : /\ EnsureOneEmoji(x) \in Text
                          /\ EnsureOneEmoji(ScrubBanned(EnsureOneEmoji(x))) \in Text
  BY EmojiText, ReplyAssumption
<1>7. CASE ReplaceReply(t)
  BY <1>3, <1>4, <1>6, <1>7 DEF ReplaceReply
<1>8. CASE RewriteReply(t)
  BY <1>3, <1>4, <1>5, <1>6, <1>8 DEF RewriteReply
<1> QED
  BY <1>7, <1>8

\* Of a step that touches one reply, only that reply has to be looked at.
LEMMA OneReplyStep ==
    ASSUME ReplyInv, NEW i \in ReplyIds,
           replyTask' \in [ReplyTasks -> ReplyCommand], \A u \in ReplyTasks : CommandInv(u)',
           \A u \in ReplyTasks, j \in ReplyIds \ {i} :
               /\ WorksOn(u, j)' <=> WorksOn(u, j)
               /\ WorksOn(u, j) => replyTask'[u] = replyTask[u],
           replySeq' = replySeq,
           replies' \in [ReplyIds -> ReplyRow \cup {NoReply}], sent' \in [ReplyIds -> Seq(Text)],
           \A j \in ReplyIds \ {i} : replies'[j] = replies[j] /\ sent'[j] = sent[j],
           replies'[i] # NoReply =>
               ~EchoesParent(replies'[i].text) /\ ~OverLimit(i.surface, replies'[i].text),
           disturbed \subseteq disturbed', disturbed' \subseteq disturbed \cup {i},
           i \notin disturbed' => LoneReplyInv(i)'
    PROVE  ReplyInv'
<1>1. ASSUME NEW j \in ReplyIds \ {i}, j \notin disturbed' PROVE LoneReplyInv(j)'
  <2>1. LoneReplyInv(j)
    BY <1>1 DEF ReplyInv
  <2>2. replies'[j] = replies[j] /\ sent'[j] = sent[j]
    BY <1>1
  <2>3. \A u \in ReplyTasks : /\ WorksOn(u, j)' <=> WorksOn(u, j)
                              /\ WorksOn(u, j) => replyTask'[u] = replyTask[u]
    BY <1>1
  <2>4. \A u, v \in ReplyTasks : WorksOn(u, j)' /\ WorksOn(v, j)' => u = v
    BY <2>1, <2>3 DEF LoneReplyInv
  <2>5. ASSUME NEW u \in ReplyTasks, WorksOn(u, j)'
        PROVE  /\ sent'[j] # <<>> => replyTask'[u].pc = "mark"
               /\ replyTask'[u].op = "accept" =>
                      replies'[j] = [status |-> "open", text |-> replyTask'[u].text]
               /\ replyTask'[u].pc = "mark" /\ j.surface \in Live =>
                      sent'[j] = <<replyTask'[u].text>>
    BY <2>1, <2>2, <2>3, <2>5 DEF LoneReplyInv
  <2>6. Len(sent'[j]) <= 1
    BY <2>1, <2>2 DEF LoneReplyInv
  <2>7. replies'[j] # NoReply /\ replies'[j].status = "open" /\ sent'[j] # <<>> =>
            \E u \in ReplyTasks : WorksOn(u, j)' /\ replyTask'[u].pc = "mark"
    BY <2>1, <2>2, <2>3 DEF LoneReplyInv
  <2>8. replies'[j] # NoReply /\ replies'[j].status = "published" /\ j.surface \in Live =>
            sent'[j] = <<replies'[j].text>>
    BY <2>1, <2>2 DEF LoneReplyInv
  <2> QED
    BY <2>4, <2>5, <2>6, <2>7, <2>8 DEF LoneReplyInv
<1>2. SavedReplyIsChecked'
  <2> SUFFICES ASSUME NEW j \in ReplyIds, j # i, replies'[j] # NoReply
               PROVE  ~EchoesParent(replies'[j].text) /\ ~OverLimit(j.surface, replies'[j].text)
    BY DEF SavedReplyIsChecked
  <2> QED
    BY DEF ReplyInv, SavedReplyIsChecked
<1>3. \A j \in ReplyIds \ disturbed' : LoneReplyInv(j)'
  BY <1>1
<1>4. replySeq' \in [ReplySurfaces -> 0..MaxReplies] /\ disturbed' \subseteq ReplyIds
  BY DEF ReplyInv
<1> QED
  BY <1>2, <1>3, <1>4 DEF ReplyInv

\* The same for a step of the command t.
LEMMA CommandStep ==
    ASSUME ReplyInv, NEW t \in ReplyTasks, NEW i \in ReplyIds,
           OnlyMoves(t), CommandInv(t)',
           \A j \in ReplyIds \ {i} : ~WorksOn(t, j) /\ ~WorksOn(t, j)',
           replySeq' = replySeq,
           replies' \in [ReplyIds -> ReplyRow \cup {NoReply}], sent' \in [ReplyIds -> Seq(Text)],
           \A j \in ReplyIds \ {i} : replies'[j] = replies[j] /\ sent'[j] = sent[j],
           replies'[i] # NoReply =>
               ~EchoesParent(replies'[i].text) /\ ~OverLimit(i.surface, replies'[i].text),
           disturbed \subseteq disturbed', disturbed' \subseteq disturbed \cup {i},
           i \notin disturbed' => LoneReplyInv(i)'
    PROVE  ReplyInv'
<1>1. \A u \in ReplyTasks : CommandInv(u)'
  <2> SUFFICES ASSUME NEW u \in ReplyTasks, u # t PROVE CommandInv(u)'
    OBVIOUS
  <2> QED
    BY DEF OnlyMoves, CommandInv, ReplyInv
<1>2. \A u \in ReplyTasks, j \in ReplyIds \ {i} :
          /\ WorksOn(u, j)' <=> WorksOn(u, j)
          /\ WorksOn(u, j) => replyTask'[u] = replyTask[u]
  <2> SUFFICES ASSUME NEW u \in ReplyTasks, NEW j \in ReplyIds \ {i}
               PROVE  /\ WorksOn(u, j)' <=> WorksOn(u, j)
                      /\ WorksOn(u, j) => replyTask'[u] = replyTask[u]
    OBVIOUS
  <2>1. CASE u = t
    BY <2>1
  <2>2. CASE u # t
    BY <2>2 DEF OnlyMoves, WorksOn
  <2> QED
    BY <2>1, <2>2
<1>3. replyTask' \in [ReplyTasks -> ReplyCommand]
  BY DEF OnlyMoves
<1> QED
  BY <1>1, <1>2, <1>3, OneReplyStep

\* Who works on a reply is a running command.
LEMMA WorkerStarted ==
    ASSUME ReplyInv, NEW u \in ReplyTasks, NEW i \in ReplyIds, WorksOn(u, i)
    PROVE  Started(u, i)
  BY SMTT(30) DEF WorksOn, Started, ReplyInv, CommandInv, ReplyPcs

\* A reply nobody disturbed is nobody else's when a command takes it, and an open one
\* has not gone out.
LEMMA TakenAlone ==
    ASSUME ReplyInv, NEW t \in ReplyTasks, NEW i \in ReplyIds, ~WorksOn(t, i),
           i \notin disturbed, i \notin Crowded(t, i)
    PROVE  /\ \A u \in ReplyTasks : ~WorksOn(u, i)
           /\ replies[i] # NoReply /\ replies[i].status = "open" => sent[i] = <<>>
<1>1. \A u \in ReplyTasks : ~WorksOn(u, i)
  BY WorkerStarted DEF Crowded
<1> QED
  BY <1>1 DEF ReplyInv, LoneReplyInv

\* What a command did to reply i ends when it leaves.
LEMMA LeftAlone ==
    ASSUME ReplyInv, NEW t \in ReplyTasks, NEW i \in ReplyIds, WorksOn(t, i), Leave(t),
           i \notin disturbed
    PROVE  \A u \in ReplyTasks : ~WorksOn(u, i)'
<1>1. OnlyMoves(t) /\ replyTask'[t].op = "none"
  BY LeaveMoves
<1>2. \A u \in ReplyTasks \ {t} : ~WorksOn(u, i)
  BY DEF ReplyInv, LoneReplyInv
<1> QED
  BY <1>1, <1>2 DEF WorksOn, OnlyMoves

\* The text of the command opens the row.
LEMMA SaveOpenKeeps ==
    ASSUME ReplyInv, NEW t \in ReplyTasks, SaveOpenReply(t)
    PROVE  ReplyInv'
<1>1. /\ replyTask[t].op = "create" /\ replyTask[t].pc = "save" /\ Leave(t)
      /\ replySeq' = replySeq /\ sent' = sent
  BY DEF SaveOpenReply, ReplyAt
<1> PICK i \in ReplyIds : i = replyTask[t].id
  BY <1>1 DEF ReplyInv, CommandInv
<1> PICK written : written = [status |-> "open", text |-> replyTask[t].text]
  OBVIOUS
<1>2. CASE UNCHANGED <<replies, disturbed>>
  BY <1>1, <1>2, LeavingKeeps
<1>3. CASE /\ replies' = [replies EXCEPT ![i] = written]
           /\ disturbed' = disturbed \cup Crowded(t, i)
                  \cup (IF replies[i] # NoReply \/ sent[i] # <<>> THEN {i} ELSE {})
  <2>1. /\ i \in ReplyIds /\ replyTask[t].text \in Text
        /\ ~EchoesParent(replyTask[t].text) /\ ~OverLimit(i.surface, replyTask[t].text)
    BY <1>1 DEF ReplyInv, CommandInv
  <2>2. OnlyMoves(t) /\ CommandInv(t)' /\ replyTask'[t].op = "none"
    BY <1>1, LeaveMoves
  <2>3. \A j : ~WorksOn(t, j) /\ ~WorksOn(t, j)'
    BY <1>1, <2>2 DEF WorksOn
  <2>4. written \in ReplyRow /\ replies \in [ReplyIds -> ReplyRow \cup {NoReply}]
    BY <2>1 DEF ReplyRow, ReplyInv
  <2>5. replies' \in [ReplyIds -> ReplyRow \cup {NoReply}] /\ replies'[i] = written
        /\ \A j \in ReplyIds \ {i} : replies'[j] = replies[j]
    BY <1>3, <2>1, <2>4
  <2>6. disturbed \subseteq disturbed' /\ disturbed' \subseteq disturbed \cup {i}
    BY <1>3 DEF Crowded
  <2>7. ASSUME i \notin disturbed' PROVE LoneReplyInv(i)'
    <3>1. i \notin disturbed /\ i \notin Crowded(t, i) /\ sent[i] = <<>>
      BY <1>3, <2>7
    <3>2. \A u \in ReplyTasks : ~WorksOn(u, i)
      BY <2>1, <2>3, <3>1, TakenAlone
    <3>3. \A u \in ReplyTasks : ~WorksOn(u, i)'
      BY <2>2, <2>3, <3>2 DEF OnlyMoves, WorksOn
    <3>4. sent'[i] = <<>> /\ Len(sent'[i]) <= 1 /\ replies'[i].status = "open"
      BY <1>1, <2>5, <3>1
    <3> QED
      BY <3>3, <3>4 DEF LoneReplyInv
  <2>8. sent' \in [ReplyIds -> Seq(Text)]
    BY <1>1 DEF ReplyInv
  <2>9. ~EchoesParent(replies'[i].text) /\ ~OverLimit(i.surface, replies'[i].text)
    BY <2>1, <2>5
  <2> QED
    BY <1>1, <2>2, <2>3, <2>5, <2>6, <2>7, <2>8, <2>9, CommandStep
<1> QED
  BY <1>2, <1>3 DEF SaveOpenReply

\* An id of a reply is one a command may have.
LEMMA IdsOfCommands ==
    ReplyIds \subseteq [surface : {"linkedin", "x"}, n : 0..MaxReplies]
  BY ReplyAssumption DEF ReplyIds

\* /rework and /accept take an open reply.
LEMMA TakeKeeps ==
    ASSUME ReplyInv, NEW t \in ReplyTasks, NEW i \in ReplyIds, replyTask[t].pc = "idle",
           replies[i] # NoReply, replies[i].status = "open",
           OnlyMoves(t), CommandInv(t)', replyTask'[t].id = i,
           \/ replyTask'[t].op = "rework"
           \/ replyTask'[t].op = "accept" /\ replyTask'[t].text = replies[i].text,
           replyTask'[t].pc # "mark",
           disturbed' = disturbed \cup Crowded(t, i),
           UNCHANGED <<replySeq, replies, sent>>
    PROVE  ReplyInv'
<1>1. \A j : ~WorksOn(t, j)
  <2>1. replyTask[t] \in ReplyCommand /\ CommandInv(t)
    BY DEF ReplyInv
  <2>2. replyTask[t].op \notin {"rework", "accept"}
    BY <2>1 DEF CommandInv, ReplyPcs
  <2> QED
    BY <2>2 DEF WorksOn
<1>2. \A j \in ReplyIds \ {i} : ~WorksOn(t, j)'
  BY DEF WorksOn
<1>3. disturbed \subseteq disturbed' /\ disturbed' \subseteq disturbed \cup {i}
  BY DEF Crowded
<1>4. replies[i] \in ReplyRow
  BY DEF ReplyInv
<1>5. ASSUME i \notin disturbed' PROVE LoneReplyInv(i)'
  <2>1. \A u \in ReplyTasks : ~WorksOn(u, i)
    BY <1>1, <1>5, TakenAlone
  <2>2. sent[i] = <<>>
    BY <1>1, <1>5, TakenAlone
  <2>3. \A u \in ReplyTasks : WorksOn(u, i)' => u = t
    BY <2>1 DEF OnlyMoves, WorksOn
  <2>4. replies[i] = [status |-> "open", text |-> replies[i].text]
    BY <1>4 DEF ReplyRow
  <2> QED
    BY <2>2, <2>3, <2>4 DEF LoneReplyInv
<1>6. /\ replies' \in [ReplyIds -> ReplyRow \cup {NoReply}] /\ sent' \in [ReplyIds -> Seq(Text)]
      /\ ~EchoesParent(replies'[i].text) /\ ~OverLimit(i.surface, replies'[i].text)
  BY DEF ReplyInv, SavedReplyIsChecked
<1> QED
  BY <1>1, <1>2, <1>3, <1>5, <1>6, CommandStep

\* The two ways to take a reply.
LEMMA ReworkAndAcceptKeep ==
    ASSUME ReplyInv, NEW t \in ReplyTasks, NEW i \in ReplyIds,
           \/ \E m \in {"replace", "refresh", "instruction"} : ReworkReply(t, i, m)
           \/ AcceptReply(t, i)
    PROVE  ReplyInv'
<1>1. ASSUME NEW m \in {"replace", "refresh", "instruction"}, ReworkReply(t, i, m)
      PROVE  ReplyInv'
  <2>1. Command("rework", "rewrite", i, m, NoReplyText) \in ReplyCommand
    BY IdsOfCommands DEF Command, ReplyCommand, ReplyPcs
  <2>2. replyTask' = [replyTask EXCEPT ![t] = Command("rework", "rewrite", i, m, NoReplyText)]
    BY <1>1 DEF ReworkReply
  <2>3. OnlyMoves(t) /\ replyTask'[t].op = "rework" /\ replyTask'[t].pc = "rewrite"
        /\ replyTask'[t].id = i
    BY <2>1, <2>2, BecomesCommand
  <2>4. CommandInv(t)'
    BY <2>3 DEF CommandInv, ReplyPcs
  <2> QED
    BY <1>1, <2>3, <2>4, TakeKeeps DEF ReworkReply
<1>2. ASSUME AcceptReply(t, i) PROVE ReplyInv'
  <2> DEFINE x == replies[i].text
  <2>1. replies[i] \in ReplyRow
    BY <1>2 DEF AcceptReply, ReplyInv
  <2>2. x \in Text
    BY <2>1 DEF ReplyRow
  <2>3. replyTask' = [replyTask EXCEPT ![t] = Command("accept", "ship", i, "none", x)]
    BY <1>2 DEF AcceptReply
  <2>4. x = replies[i].text
    OBVIOUS
  <2> HIDE DEF x
  <2>5. Command("accept", "ship", i, "none", x) \in ReplyCommand
    BY <2>2, IdsOfCommands DEF Command, ReplyCommand, ReplyPcs
  <2>6. OnlyMoves(t) /\ replyTask'[t].op = "accept" /\ replyTask'[t].pc = "ship"
        /\ replyTask'[t].id = i /\ replyTask'[t].text = x
    BY <2>3, <2>5, BecomesCommand
  <2>7. CommandInv(t)'
    BY <2>2, <2>6 DEF CommandInv, ReplyPcs
  <2> QED
    BY <1>2, <2>4, <2>6, <2>7, TakeKeeps DEF AcceptReply
<1> QED
  BY <1>1, <1>2

\* What a worker knows of a reply nobody disturbed.
LEMMA WorkerKnows ==
    ASSUME ReplyInv, NEW t \in ReplyTasks, NEW i \in ReplyIds, WorksOn(t, i), i \notin disturbed
    PROVE  /\ \A u \in ReplyTasks : WorksOn(u, i) => u = t
           /\ replyTask[t].pc # "mark" => sent[i] = <<>>
           /\ replyTask[t].op = "accept" =>
                  replies[i] = [status |-> "open", text |-> replyTask[t].text]
           /\ replyTask[t].pc = "mark" /\ i.surface \in Live => sent[i] = <<replyTask[t].text>>
           /\ Len(sent[i]) <= 1
  BY DEF ReplyInv, LoneReplyInv

\* The row is written whole by a rework.
LEMMA SaveReworkedKeeps ==
    ASSUME ReplyInv, NEW t \in ReplyTasks, SaveReworkedReply(t)
    PROVE  ReplyInv'
<1>1. /\ replyTask[t].op = "rework" /\ replyTask[t].pc = "upsert" /\ Leave(t)
      /\ UNCHANGED <<replySeq, sent, disturbed>>
  BY DEF SaveReworkedReply, ReplyAt
<1> PICK i \in ReplyIds : i = replyTask[t].id
  BY <1>1 DEF ReplyInv, CommandInv
<1> PICK written : written = [status |-> "open", text |-> replyTask[t].text]
  OBVIOUS
<1>2. CASE UNCHANGED replies
  BY <1>1, <1>2, LeavingKeeps
<1>3. CASE replies' = [replies EXCEPT ![i] = written]
  <2>1. /\ replyTask[t].text \in Text
        /\ ~EchoesParent(replyTask[t].text) /\ ~OverLimit(i.surface, replyTask[t].text)
    BY <1>1 DEF ReplyInv, CommandInv
  <2>2. OnlyMoves(t) /\ CommandInv(t)' /\ replyTask'[t].op = "none"
    BY <1>1, LeaveMoves
  <2>3. \A j \in ReplyIds \ {i} : ~WorksOn(t, j) /\ ~WorksOn(t, j)'
    BY <2>2 DEF WorksOn
  <2>4. written \in ReplyRow /\ replies \in [ReplyIds -> ReplyRow \cup {NoReply}]
    BY <2>1 DEF ReplyRow, ReplyInv
  <2>5. replies' \in [ReplyIds -> ReplyRow \cup {NoReply}] /\ replies'[i] = written
        /\ \A j \in ReplyIds \ {i} : replies'[j] = replies[j]
    BY <1>3, <2>4
  <2>6. ASSUME i \notin disturbed' PROVE LoneReplyInv(i)'
    <3>1. WorksOn(t, i) /\ i \notin disturbed
      BY <1>1, <2>6 DEF WorksOn
    <3>2. sent[i] = <<>>
      BY <1>1, <3>1, WorkerKnows
    <3>3. \A u \in ReplyTasks : ~WorksOn(u, i)'
      BY <1>1, <3>1, LeftAlone
    <3>4. sent'[i] = <<>> /\ Len(sent'[i]) <= 1 /\ replies'[i].status = "open"
      BY <1>1, <2>5, <3>2
    <3> QED
      BY <3>3, <3>4 DEF LoneReplyInv
  <2>7. sent' \in [ReplyIds -> Seq(Text)]
    BY <1>1 DEF ReplyInv
  <2>8. ~EchoesParent(replies'[i].text) /\ ~OverLimit(i.surface, replies'[i].text)
    BY <2>1, <2>5
  <2> QED
    BY <1>1, <2>2, <2>3, <2>5, <2>6, <2>7, <2>8, CommandStep
<1> QED
  BY <1>2, <1>3 DEF SaveReworkedReply

\* A call that reaches its surface, one that does not, and one whose answer is lost.
LEMMA ShipKeeps ==
    ASSUME ReplyInv, NEW t \in ReplyTasks, ShipXReply(t) \/ ShipLinkedInReply(t)
    PROVE  ReplyInv'
<1>1. /\ replyTask[t].op = "accept" /\ replyTask[t].pc = "ship" /\ Call(t)
      /\ UNCHANGED <<replySeq, replies>>
  BY DEF ShipXReply, ShipLinkedInReply, ReplyAt
<1> PICK i \in ReplyIds : i = replyTask[t].id
  BY <1>1 DEF ReplyInv, CommandInv
<1> PICK x \in Text : x = replyTask[t].text
  BY <1>1 DEF ReplyInv, CommandInv
<1>2. WorksOn(t, i) /\ \A j \in ReplyIds \ {i} : ~WorksOn(t, j)
  BY <1>1 DEF WorksOn
<1>3. /\ replies' \in [ReplyIds -> ReplyRow \cup {NoReply}]
      /\ replies'[i] # NoReply =>
             ~EchoesParent(replies'[i].text) /\ ~OverLimit(i.surface, replies'[i].text)
  BY <1>1 DEF ReplyInv, SavedReplyIsChecked
<1>4. Append(sent[i], x) \in Seq(Text) /\ sent \in [ReplyIds -> Seq(Text)]
  BY DEF ReplyInv
<1>5. ASSUME ReplyGoto(t, "mark"), UNCHANGED disturbed,
             \/ i.surface \in Live /\ sent' = [sent EXCEPT ![i] = Append(sent[i], x)]
             \/ i.surface \notin Live /\ sent' = sent
      PROVE  ReplyInv'
  <2>1. OnlyMoves(t) /\ replyTask'[t].op = "accept" /\ replyTask'[t].id = i
        /\ replyTask'[t].text = x /\ replyTask'[t].pc = "mark"
    BY <1>1, <1>5, GotoMoves
  <2>2. CommandInv(t)'
    BY <2>1 DEF CommandInv, ReplyPcs
  <2>3. \A j \in ReplyIds \ {i} : ~WorksOn(t, j)'
    BY <2>1 DEF WorksOn
  <2>4. sent' \in [ReplyIds -> Seq(Text)] /\ \A j \in ReplyIds \ {i} : sent'[j] = sent[j]
    BY <1>4, <1>5
  <2>5. ASSUME i \notin disturbed' PROVE LoneReplyInv(i)'
    <3>1. /\ \A u \in ReplyTasks : WorksOn(u, i) => u = t
          /\ sent[i] = <<>> /\ replies[i] = [status |-> "open", text |-> x]
      BY <1>1, <1>2, <1>5, <2>5, WorkerKnows
    <3>2. \A u \in ReplyTasks : WorksOn(u, i)' => u = t
      BY <2>1, <3>1 DEF OnlyMoves, WorksOn
    <3>3. WorksOn(t, i)'
      BY <2>1 DEF WorksOn
    <3>4. IF i.surface \in Live THEN sent'[i] = <<x>> ELSE sent'[i] = <<>>
      <4>1. CASE i.surface \in Live
        <5>1. sent'[i] = Append(sent[i], x)
          BY <1>4, <1>5, <4>1
        <5>2. Append(<<>>, x) = <<x>>
          OBVIOUS
        <5> QED
          BY <3>1, <4>1, <5>1, <5>2
      <4>2. CASE i.surface \notin Live
        BY <1>5, <3>1, <4>2
      <4> QED
        BY <4>1, <4>2
    <3>5. Len(sent'[i]) <= 1
      <4>1. Len(<<x>>) <= 1 /\ Len(<<>>) <= 1
        OBVIOUS
      <4>2. sent'[i] = <<x>> \/ sent'[i] = <<>>
        BY <3>4
      <4> QED
        BY <4>1, <4>2, Zenon
    <3>6. replies'[i] = [status |-> "open", text |-> x]
      BY <1>1, <3>1
    <3> QED
      BY <2>1, <3>2, <3>3, <3>4, <3>5, <3>6 DEF LoneReplyInv
  <2> QED
    BY <1>1, <1>2, <1>3, <1>5, <2>1, <2>2, <2>3, <2>4, <2>5, CommandStep
<1>6. CASE Leave(t) /\ UNCHANGED <<sent, disturbed>>
  BY <1>1, <1>6, LeavingKeeps
<1>7. ASSUME Leave(t), sent' = [sent EXCEPT ![i] = Append(sent[i], x)],
             disturbed' = disturbed \cup {i}
      PROVE  ReplyInv'
  <2>1. OnlyMoves(t) /\ CommandInv(t)' /\ replyTask'[t].op = "none"
    BY <1>7, LeaveMoves
  <2>2. \A j \in ReplyIds \ {i} : ~WorksOn(t, j)'
    BY <2>1 DEF WorksOn
  <2>3. sent' \in [ReplyIds -> Seq(Text)] /\ \A j \in ReplyIds \ {i} : sent'[j] = sent[j]
    BY <1>4, <1>7
  <2> QED
    BY <1>1, <1>2, <1>3, <1>7, <2>1, <2>2, <2>3, CommandStep
<1> QED
  BY <1>1, <1>5, <1>6, <1>7 DEF Call

\* The row that is marked has the text that went out.
LEMMA MarkKeeps ==
    ASSUME ReplyInv, NEW t \in ReplyTasks, MarkReply(t)
    PROVE  ReplyInv'
<1>1. /\ replyTask[t].op = "accept" /\ replyTask[t].pc = "mark" /\ Leave(t)
      /\ UNCHANGED <<replySeq, sent>>
  BY DEF MarkReply, ReplyAt
<1> PICK i \in ReplyIds : i = replyTask[t].id
  BY <1>1 DEF ReplyInv, CommandInv
<1>2. WorksOn(t, i) /\ \A j \in ReplyIds \ {i} : ~WorksOn(t, j)
  BY <1>1 DEF WorksOn
<1>3. OnlyMoves(t) /\ CommandInv(t)' /\ replyTask'[t].op = "none"
  BY <1>1, LeaveMoves
<1>4. \A j \in ReplyIds \ {i} : ~WorksOn(t, j)'
  BY <1>3 DEF WorksOn
<1>5. sent' \in [ReplyIds -> Seq(Text)] /\ \A j \in ReplyIds \ {i} : sent'[j] = sent[j]
  BY <1>1 DEF ReplyInv
<1>6. replies \in [ReplyIds -> ReplyRow \cup {NoReply}]
      /\ (replies[i] # NoReply =>
             ~EchoesParent(replies[i].text) /\ ~OverLimit(i.surface, replies[i].text))
  BY DEF ReplyInv, SavedReplyIsChecked
<1>7. CASE UNCHANGED replies /\ disturbed' = disturbed \cup {i}
  BY <1>1, <1>2, <1>3, <1>4, <1>5, <1>6, <1>7, CommandStep
<1>8. CASE /\ replies' = IF replies[i] # NoReply /\ replies[i].status = "open"
                         THEN [replies EXCEPT ![i].status = "published"] ELSE replies
           /\ UNCHANGED disturbed
  <2>1. /\ replies' \in [ReplyIds -> ReplyRow \cup {NoReply}]
        /\ \A j \in ReplyIds \ {i} : replies'[j] = replies[j]
        /\ replies'[i] # NoReply => replies[i] # NoReply /\ replies'[i].text = replies[i].text
        /\ replies[i] # NoReply /\ replies[i].status = "open" =>
               replies'[i].status = "published"
    <3>1. CASE replies[i] # NoReply /\ replies[i].status = "open"
      <4>1. replies[i] \in ReplyRow
        BY <1>6, <3>1
      <4>2. /\ [replies[i] EXCEPT !.status = "published"] \in ReplyRow
            /\ [replies[i] EXCEPT !.status = "published"].text = replies[i].text
            /\ [replies[i] EXCEPT !.status = "published"].status = "published"
        BY <4>1 DEF ReplyRow
      <4>3. replies' = [replies EXCEPT ![i] = [replies[i] EXCEPT !.status = "published"]]
        BY <1>8, <3>1
      <4> QED
        BY <1>6, <3>1, <4>2, <4>3
    <3>2. CASE ~(replies[i] # NoReply /\ replies[i].status = "open")
      BY <1>6, <1>8, <3>2
    <3> QED
      BY <3>1, <3>2
  <2>2. ASSUME i \notin disturbed' PROVE LoneReplyInv(i)'
    <3>1. i \notin disturbed
      BY <1>8, <2>2
    <3>2. \A u \in ReplyTasks : ~WorksOn(u, i)'
      BY <1>1, <1>2, <3>1, LeftAlone
    <3>3. /\ replies[i] = [status |-> "open", text |-> replyTask[t].text]
          /\ i.surface \in Live => sent[i] = <<replyTask[t].text>>
          /\ Len(sent[i]) <= 1
      BY <1>1, <1>2, <3>1, WorkerKnows
    <3>4. replies[i] # NoReply
      BY <3>3, ReplyAssumption, <1>1 DEF ReplyInv, CommandInv
    <3>5. sent'[i] = sent[i]
      BY <1>1
    <3>6. replies'[i].status = "published" /\ (replies'[i] # NoReply => replies'[i].text = replyTask[t].text)
      BY <2>1, <3>3, <3>4
    <3> QED
      BY <3>2, <3>3, <3>5, <3>6 DEF LoneReplyInv
  <2> QED
    BY <1>1, <1>2, <1>3, <1>4, <1>5, <1>6, <1>8, <2>1, <2>2, CommandStep
<1> QED
  BY <1>7, <1>8 DEF MarkReply

\* A deleted row that a command works on is a disturbed one.
LEMMA DeleteKeeps ==
    ASSUME ReplyInv, NEW i \in ReplyIds, DeleteReply(i)
    PROVE  ReplyInv'
<1>1. /\ replies' = [replies EXCEPT ![i] = NoReply]
      /\ disturbed' = disturbed \cup (IF \E t \in ReplyTasks : Started(t, i) THEN {i} ELSE {})
      /\ UNCHANGED <<replySeq, replyTask, sent>>
  BY DEF DeleteReply
<1>2. /\ replies' \in [ReplyIds -> ReplyRow \cup {NoReply}] /\ replies'[i] = NoReply
      /\ \A j \in ReplyIds \ {i} : replies'[j] = replies[j] /\ sent'[j] = sent[j]
      /\ sent' \in [ReplyIds -> Seq(Text)]
  BY <1>1 DEF ReplyInv
<1>3. /\ replyTask' \in [ReplyTasks -> ReplyCommand]
      /\ \A u \in ReplyTasks : CommandInv(u)'
      /\ \A u \in ReplyTasks, j \in ReplyIds : WorksOn(u, j)' <=> WorksOn(u, j)
  BY <1>1 DEF ReplyInv, CommandInv, WorksOn
<1>4. ASSUME i \notin disturbed' PROVE LoneReplyInv(i)'
  <2>1. i \notin disturbed /\ \A u \in ReplyTasks : ~Started(u, i)
    BY <1>1, <1>4
  <2>2. \A u \in ReplyTasks : ~WorksOn(u, i)'
    BY <1>3, <2>1, WorkerStarted
  <2>3. Len(sent'[i]) <= 1
    BY <1>1, <2>1 DEF ReplyInv, LoneReplyInv
  <2> QED
    BY <1>2, <2>2, <2>3 DEF LoneReplyInv
<1>5. disturbed \subseteq disturbed' /\ disturbed' \subseteq disturbed \cup {i}
  BY <1>1
<1> QED
  BY <1>1, <1>2, <1>3, <1>4, <1>5, OneReplyStep

\* A crash between the ship and the mark leaves a disturbed reply.
LEMMA CrashKeeps ==
    ASSUME ReplyInv, ReplyCrash
    PROVE  ReplyInv'
<1>1. /\ disturbed' = disturbed \cup
             {replyTask[t].id : t \in {u \in ReplyTasks : ReplyAt(u, "accept", "mark")}}
      /\ replyTask' = [t \in ReplyTasks |-> IdleReply]
      /\ UNCHANGED <<replySeq, replies, sent>>
  BY DEF ReplyCrash
<1>2. IdleReply \in ReplyCommand
  BY ReplyAssumption DEF IdleReply, Command, ReplyId, ReplyCommand, ReplyPcs
<1>3. \A u \in ReplyTasks : replyTask'[u].op = "none" /\ replyTask'[u].pc = "idle"
  BY <1>1 DEF IdleReply, Command
<1>4. replyTask' \in [ReplyTasks -> ReplyCommand] /\ \A u \in ReplyTasks : CommandInv(u)'
  BY <1>1, <1>2, <1>3 DEF CommandInv, ReplyPcs
<1>5. disturbed' \subseteq ReplyIds
  BY <1>1 DEF ReplyInv, CommandInv, ReplyAt
<1>6. ASSUME NEW i \in ReplyIds \ disturbed' PROVE LoneReplyInv(i)'
  <2>1. i \notin disturbed /\ LoneReplyInv(i)
    BY <1>1, <1>6 DEF ReplyInv
  <2>2. \A u \in ReplyTasks : ~(WorksOn(u, i) /\ replyTask[u].pc = "mark")
    <3> SUFFICES ASSUME NEW u \in ReplyTasks, WorksOn(u, i), replyTask[u].pc = "mark" PROVE FALSE
      OBVIOUS
    <3>1. replyTask[u].op = "accept"
      BY DEF ReplyInv, CommandInv, ReplyPcs, WorksOn
    <3> QED
      BY <1>1, <1>6, <3>1 DEF ReplyAt, WorksOn
  <2>3. \A u \in ReplyTasks : ~WorksOn(u, i)'
    BY <1>3 DEF WorksOn
  <2>4. replies'[i] = replies[i] /\ sent'[i] = sent[i]
    BY <1>1
  <2> QED
    BY <2>1, <2>2, <2>3, <2>4 DEF LoneReplyInv
<1> QED
  BY <1>1, <1>4, <1>5, <1>6 DEF ReplyInv, SavedReplyIsChecked

\* The invariant holds at the start,
LEMMA ReplyInitInv == ReplyInit => ReplyInv
<1> SUFFICES ASSUME ReplyInit PROVE ReplyInv
  OBVIOUS
<1>1. IdleReply \in ReplyCommand
  BY ReplyAssumption DEF IdleReply, Command, ReplyId, ReplyCommand, ReplyPcs
<1>2. \A t \in ReplyTasks : replyTask[t].op = "none" /\ replyTask[t].pc = "idle"
  BY DEF ReplyInit, IdleReply, Command
<1>3. \A t \in ReplyTasks : CommandInv(t)
  BY <1>2 DEF CommandInv, ReplyPcs
<1>4. \A i \in ReplyIds : replies[i] = NoReply /\ sent[i] = <<>>
  BY DEF ReplyInit
<1>5. \A i \in ReplyIds : LoneReplyInv(i)
  BY <1>2, <1>4 DEF LoneReplyInv, WorksOn
<1>6. replySeq \in [ReplySurfaces -> 0..MaxReplies]
  BY ReplyAssumption DEF ReplyInit
<1> QED
  BY <1>1, <1>3, <1>4, <1>5, <1>6 DEF ReplyInit, ReplyInv, SavedReplyIsChecked

\* and every step keeps it.
LEMMA ReplyStepInv == ReplyInv /\ [ReplyNext]_replyVars => ReplyInv'
<1> SUFFICES ASSUME ReplyInv, [ReplyNext]_replyVars PROVE ReplyInv'
  OBVIOUS
<1>1. ASSUME NEW t \in ReplyTasks, ReplyStep(t) PROVE ReplyInv'
  BY <1>1, CreateKeeps, SaveOpenKeeps, ReworkAndAcceptKeep, RewriteKeeps, SaveReworkedKeeps,
     ShipKeeps, MarkKeeps DEF ReplyStep
<1>2. ASSUME NEW i \in ReplyIds, DeleteReply(i) PROVE ReplyInv'
  BY <1>2, DeleteKeeps
<1>3. CASE ReplyCrash
  BY <1>3, CrashKeeps
<1>4. CASE UNCHANGED replyVars
  BY <1>4 DEF replyVars, ReplyInv, SavedReplyIsChecked, CommandInv, LoneReplyInv, WorksOn
<1> QED
  BY <1>1, <1>2, <1>3, <1>4 DEF ReplyNext

\* Whatever the model answers, the commands interleave and fail like: the types, the
\* checks every saved text has passed, and what holds of the replies nobody disturbed.
THEOREM ReplyInvHolds == ReplySpec => []ReplyInv
  BY ReplyInitInv, ReplyStepInv, PTL DEF ReplySpec

\* No saved reply repeats what it answers, and none on X is over the limit: the writers,
\* the two modes of a rework and the scrub all end in the checks.
THEOREM SavedReplyIsCheckedHolds == ReplySpec => []SavedReplyIsChecked
<1>1. ReplyInv => SavedReplyIsChecked
  BY DEF ReplyInv
<1> QED
  BY <1>1, ReplyInvHolds, PTL

\* A reply goes out at most once, as long as no two commands work on it at once and its
\* ship is recorded: the status of the row is all that stands between two ships.
THEOREM ReplyShipsOnceHolds == ReplySpec => []ReplyShipsOnce
<1>1. ReplyInv => ReplyShipsOnce
  BY DEF ReplyInv, ReplyShipsOnce, LoneReplyInv
<1> QED
  BY <1>1, ReplyInvHolds, PTL

\* Such a reply, once published on a live surface, is there with the text of its row:
\* no rework got between the text that was shipped and the row that was marked.
THEOREM PublishedReplyWentOutHolds == ReplySpec => []PublishedReplyWentOut
<1>1. ReplyInv => PublishedReplyWentOut
  BY DEF ReplyInv, PublishedReplyWentOut, LoneReplyInv
<1> QED
  BY <1>1, ReplyInvHolds, PTL

-------------------------------------------------------------------------------
(* Completions of the models *)

\* What a call remembers.
Calls == [pc : {"idle", "next", "chat", "tools", "answered", "failed"}, task : LlmTasks, tools : BOOLEAN,
          slot : Nat, rounds : Nat, convo : Seq(Nat), owed : Nat, retried : BOOLEAN, failed : SUBSET Nat]

\* Results of the last turn are owed; every result stands behind the turn that asked for it.
Owing(convo, n) ==
    /\ \A k \in Turns(convo) : k + convo[k] <= Len(convo) + n
    /\ \A k \in Turns(convo) : \A j \in 1..convo[k] : k + j \in DOMAIN convo => convo[k + j] = 0
    /\ \A k \in DOMAIN convo \ Turns(convo) : \E t \in Turns(convo) : k \in (t + 1)..(t + convo[t])
    /\ n > 0 => \E t \in Turns(convo) : t + convo[t] = Len(convo) + n

Asked(conf, r) ==
    /\ r.slot > 0
    /\ r.failed = 1..(r.slot - 1)
    /\ Chain(conf, r.task)[r.slot].provider \in Pool(conf)

Fine(conf, r) ==
    /\ r \in Calls
    /\ r.rounds <= MaxRounds
    /\ IsFiniteSet(Turns(r.convo)) /\ Cardinality(Turns(r.convo)) = r.rounds
    /\ r.pc = "next" => r.failed = 1..r.slot
    /\ r.pc \in {"chat", "tools", "answered"} => Asked(conf, r)
    /\ r.pc \in {"chat", "answered"} => Owing(r.convo, 0)
    /\ r.pc = "tools" => r.owed > 0 /\ Owing(r.convo, r.owed)

CallsInv ==
    /\ llmCall \in [LlmCalls -> Calls]
    /\ \A i \in LlmCalls : Fine(llmConf, llmCall[i])

-------------------------------------------------------------------------------
(* Conversations *)

LEMMA ConvoAppended ==
    ASSUME NEW convo \in Seq(Nat), NEW n \in Nat, NEW more, more = Append(convo, n)
    PROVE  /\ more \in Seq(Nat) /\ Len(more) = Len(convo) + 1 /\ more[Len(convo) + 1] = n
           /\ DOMAIN more = 1..(Len(convo) + 1) /\ DOMAIN convo = 1..Len(convo) /\ Len(convo) \in Nat
           /\ \A k \in 1..Len(convo) : more[k] = convo[k]
           /\ \A k \in DOMAIN convo : convo[k] \in Nat
  OBVIOUS

\* A turn that calls n tools is owed n results.
LEMMA TurnAppended ==
    ASSUME NEW convo \in Seq(Nat), NEW n \in Nat \ {0}, Owing(convo, 0),
           IsFiniteSet(Turns(convo))
    PROVE  /\ Owing(Append(convo, n), n)
           /\ IsFiniteSet(Turns(Append(convo, n)))
           /\ Cardinality(Turns(Append(convo, n))) = Cardinality(Turns(convo)) + 1
<1>1. PICK more, len : more = Append(convo, n) /\ len = Len(convo)
  OBVIOUS
<1>2. /\ more \in Seq(Nat) /\ Len(more) = len + 1 /\ more[len + 1] = n
      /\ DOMAIN more = 1..(len + 1) /\ DOMAIN convo = 1..len /\ len \in Nat
      /\ \A k \in 1..len : more[k] = convo[k]
      /\ \A k \in DOMAIN convo : convo[k] \in Nat
  BY <1>1, ConvoAppended
<1>3. Turns(more) = Turns(convo) \cup {len + 1} /\ len + 1 \notin Turns(convo) /\ Turns(convo) \subseteq 1..len
  BY <1>2 DEF Turns
<1>4. IsFiniteSet(Turns(more)) /\ Cardinality(Turns(more)) = Cardinality(Turns(convo)) + 1
  BY <1>3, FS_AddElement
<1>5. \A k \in Turns(more) : k + more[k] <= Len(more) + n
  <2> TAKE k \in Turns(more)
  <2>1. CASE k = len + 1
    BY <1>2, <2>1
  <2>2. CASE k \in Turns(convo)
    <3>1. k + convo[k] <= len + 0
      BY <1>1, <2>2 DEF Owing
    <3>2. more[k] = convo[k] /\ k \in Nat /\ convo[k] \in Nat
      BY <1>2, <1>3, <2>2
    <3> QED
      BY <1>2, <3>1, <3>2
  <2> QED
    BY <1>3, <2>1, <2>2
<1>6. \A k \in Turns(more) : \A j \in 1..more[k] : k + j \in DOMAIN more => more[k + j] = 0
  <2> TAKE k \in Turns(more)
  <2> TAKE j \in 1..more[k]
  <2>1. CASE k = len + 1
    <3>1. more[k] = n
      BY <1>2, <2>1
    <3>2. j \in 1..n
      BY <3>1
    <3>3. k + j \notin 1..(len + 1)
      BY <1>2, <2>1, <3>2
    <3> QED
      BY <1>2, <3>3
  <2>2. CASE k \in Turns(convo)
    <3>1. more[k] = convo[k] /\ k \in Nat /\ convo[k] \in Nat
      BY <1>2, <1>3, <2>2
    <3>2. k + convo[k] <= len + 0
      BY <1>1, <2>2 DEF Owing
    <3>3. k + j \in DOMAIN convo
      BY <1>2, <1>3, <2>2, <3>1, <3>2
    <3>4. convo[k + j] = 0
      BY <2>2, <3>1, <3>3 DEF Owing
    <3> QED
      BY <1>2, <3>3, <3>4
  <2> QED
    BY <1>3, <2>1, <2>2
<1>7. \A k \in DOMAIN more \ Turns(more) : \E t \in Turns(more) : k \in (t + 1)..(t + more[t])
  <2> TAKE k \in DOMAIN more \ Turns(more)
  <2>1. k \in DOMAIN convo \ Turns(convo)
    BY <1>2, <1>3
  <2>2. PICK t \in Turns(convo) : k \in (t + 1)..(t + convo[t])
    BY <2>1 DEF Owing
  <2> QED
    BY <1>2, <1>3, <2>2
<1>8. \E t \in Turns(more) : t + more[t] = Len(more) + n
  BY <1>2, <1>3
<1> QED
  BY <1>1, <1>4, <1>5, <1>6, <1>7, <1>8 DEF Owing

\* A result that is put after it is one less.
LEMMA ResultAppended ==
    ASSUME NEW convo \in Seq(Nat), NEW n \in Nat \ {0}, Owing(convo, n)
    PROVE  /\ Owing(Append(convo, 0), n - 1)
           /\ Turns(Append(convo, 0)) = Turns(convo)
<1>1. PICK more, len : more = Append(convo, 0) /\ len = Len(convo)
  OBVIOUS
<1>2. /\ more \in Seq(Nat) /\ Len(more) = len + 1 /\ more[len + 1] = 0
      /\ DOMAIN more = 1..(len + 1) /\ DOMAIN convo = 1..len /\ len \in Nat
      /\ \A k \in 1..len : more[k] = convo[k]
      /\ \A k \in DOMAIN convo : convo[k] \in Nat
  BY <1>1, ConvoAppended
<1>3. Turns(more) = Turns(convo) /\ Turns(convo) \subseteq 1..len
  BY <1>2 DEF Turns
<1>4. \A k \in Turns(more) : more[k] = convo[k] /\ k \in Nat /\ convo[k] \in Nat /\ k <= len
  BY <1>2, <1>3
<1>5. \A k \in Turns(more) : k + more[k] <= Len(more) + (n - 1)
  <2> TAKE k \in Turns(more)
  <2>1. k + convo[k] <= len + n
    BY <1>1, <1>3 DEF Owing
  <2> QED
    BY <1>2, <1>4, <2>1
<1>6. \A k \in Turns(more) : \A j \in 1..more[k] : k + j \in DOMAIN more => more[k + j] = 0
  <2> TAKE k \in Turns(more)
  <2> TAKE j \in 1..more[k]
  <2>1. CASE k + j = len + 1
    BY <1>2, <2>1
  <2>2. CASE k + j # len + 1
    <3>1. k + j \in DOMAIN more => k + j \in DOMAIN convo
      BY <1>2, <2>2
    <3>2. k + j \in DOMAIN convo => convo[k + j] = 0
      BY <1>3, <1>4 DEF Owing
    <3> QED
      BY <1>2, <3>1, <3>2
  <2> QED
    BY <2>1, <2>2
<1>7. PICK last \in Turns(convo) : last + convo[last] = len + n
  BY <1>1 DEF Owing
<1>8. \A k \in DOMAIN more \ Turns(more) : \E t \in Turns(more) : k \in (t + 1)..(t + more[t])
  <2> TAKE k \in DOMAIN more \ Turns(more)
  <2>1. CASE k = len + 1
    <3>1. more[last] = convo[last] /\ last \in Nat /\ last <= len /\ last \in Turns(more)
      BY <1>3, <1>4, <1>7
    <3>2. last + more[last] = len + n
      BY <1>7, <3>1
    <3>3. k \in (last + 1)..(last + more[last])
      BY <1>2, <2>1, <3>1, <3>2
    <3> QED
      BY <3>1, <3>3
  <2>2. CASE k # len + 1
    <3>1. k \in DOMAIN convo \ Turns(convo)
      BY <1>2, <1>3, <2>2
    <3>2. PICK t \in Turns(convo) : k \in (t + 1)..(t + convo[t])
      BY <3>1 DEF Owing
    <3> QED
      BY <1>3, <1>4, <3>2
  <2> QED
    BY <2>1, <2>2
<1>9. \E t \in Turns(more) : t + more[t] = Len(more) + (n - 1)
  BY <1>2, <1>3, <1>4, <1>7
<1> QED
  BY <1>1, <1>3, <1>5, <1>6, <1>8, <1>9 DEF Owing

\* When none is owed, the conversation may be sent.
LEMMA NothingOwed == ASSUME NEW convo \in Seq(Nat), Owing(convo, 0) PROVE Paired(convo)
<1>1. DOMAIN convo = 1..Len(convo) /\ Len(convo) \in Nat /\ \A k \in DOMAIN convo : convo[k] \in Nat
  OBVIOUS
<1>2. ASSUME NEW k \in Turns(convo), NEW j \in 1..convo[k]
      PROVE  k + j \in DOMAIN convo /\ convo[k + j] = 0
  <2>1. k \in DOMAIN convo
    BY DEF Turns
  <2>2. k + convo[k] <= Len(convo) + 0
    BY DEF Owing
  <2>3. k + j \in DOMAIN convo
    BY <1>1, <2>1, <2>2
  <2> QED
    BY <2>3 DEF Owing
<1> QED
  BY <1>2 DEF Owing, Paired

LEMMA NoTurns ==
    ASSUME NEW convo, convo = <<>>
    PROVE  /\ convo \in Seq(Nat) /\ Owing(convo, 0)
           /\ IsFiniteSet(Turns(convo)) /\ Cardinality(Turns(convo)) = 0
<1>1. DOMAIN convo = {} /\ Turns(convo) = {}
  BY DEF Turns
<1>2. convo \in Seq(Nat)
  OBVIOUS
<1> QED
  BY <1>1, <1>2, FS_EmptySet DEF Owing

-------------------------------------------------------------------------------
(* Completions *)

LEMMA SetFine ==
    ASSUME CallsInv, NEW i \in LlmCalls, NEW r, Fine(llmConf, r), Set(i, r), llmConf' = llmConf
    PROVE  CallsInv'
<1>1. r \in Calls
  BY DEF Fine
<1>2. llmCall' \in [LlmCalls -> Calls] /\ \A j \in LlmCalls : llmCall'[j] = IF j = i THEN r ELSE llmCall[j]
  BY <1>1 DEF Set, CallsInv
<1> QED
  BY <1>2 DEF CallsInv

\* A call that has said nothing yet.
LEMMA FreshFine ==
    ASSUME NEW conf, NEW task \in LlmTasks, NEW tools \in BOOLEAN, NEW slot \in Nat, NEW failed \in SUBSET Nat,
           NEW pc \in {"next", "failed", "chat"}, NEW r, r = CallAt(pc, task, tools, slot, failed),
           pc = "next" => failed = 1..slot,
           pc = "chat" => slot > 0 /\ failed = 1..(slot - 1) /\ Chain(conf, task)[slot].provider \in Pool(conf)
    PROVE  Fine(conf, r)
<1>1. /\ r.pc = pc /\ r.task = task /\ r.tools = tools /\ r.slot = slot /\ r.failed = failed
      /\ r.rounds = 0 /\ r.convo = <<>> /\ r.owed = 0
  BY DEF CallAt
<1>2. /\ r.convo \in Seq(Nat) /\ Owing(r.convo, 0)
      /\ IsFiniteSet(Turns(r.convo)) /\ Cardinality(Turns(r.convo)) = 0
  BY <1>1, NoTurns
<1>3. r \in Calls
  <2>1. <<>> \in Seq(Nat)
    OBVIOUS
  <2> QED
    BY <2>1 DEF CallAt, Calls
<1>4. 0 <= MaxRounds
  BY LlmBounds
<1>5. r.pc = "chat" => Asked(conf, r)
  BY <1>1 DEF Asked
<1> QED
  BY <1>1, <1>2, <1>3, <1>4, <1>5 DEF Fine

LEMMA LlmStart == LlmInit => CallsInv
<1> SUFFICES ASSUME LlmInit PROVE CallsInv
  OBVIOUS
<1>1. Silent.convo = <<>> /\ Silent.rounds = 0 /\ Silent.pc = "idle"
  BY DEF Silent, CallAt
<1>2. PICK convo : convo = Silent.convo
  OBVIOUS
<1>3. /\ convo \in Seq(Nat) /\ IsFiniteSet(Turns(convo)) /\ Cardinality(Turns(convo)) = 0
  BY <1>1, <1>2, NoTurns
<1>4. Silent \in Calls
  BY <1>2, <1>3 DEF Silent, CallAt, Calls, LlmTasks
<1>5. 0 <= MaxRounds
  BY LlmBounds
<1>6. Fine(llmConf, Silent)
  BY <1>1, <1>2, <1>3, <1>4, <1>5 DEF Fine
<1> QED
  BY <1>4, <1>6 DEF LlmInit, CallsInv

\* A slot that fails is added to those that did.
LEMMA SlotFailed ==
    ASSUME CallsInv, NEW i \in LlmCalls, llmCall[i].pc = "chat", SlotFails(i), llmConf' = llmConf
    PROVE  CallsInv'
<1>1. PICK r, next : r = llmCall[i] /\ next = [r EXCEPT !.pc = "next", !.failed = @ \cup {r.slot}]
  OBVIOUS
<1>2. Fine(llmConf, r) /\ r \in Calls /\ Asked(llmConf, r)
  BY <1>1 DEF CallsInv, Fine
<1>3. /\ next.pc = "next" /\ next.failed = r.failed \cup {r.slot} /\ next.slot = r.slot
      /\ next.rounds = r.rounds /\ next.convo = r.convo
  BY <1>1, <1>2 DEF Calls
<1>4. next \in Calls
  BY <1>1, <1>2 DEF Calls
<1>5. next.failed = 1..next.slot
  <2>1. r.failed = 1..(r.slot - 1) /\ r.slot \in Nat /\ r.slot > 0
    BY <1>2 DEF Asked, Calls
  <2> QED
    BY <1>3, <2>1
<1>6. Fine(llmConf, next)
  BY <1>2, <1>3, <1>4, <1>5 DEF Fine
<1>7. Set(i, next)
  BY <1>1 DEF SlotFails
<1> QED
  BY <1>6, <1>7, SetFine

\* A change of a call that leaves its slot and its conversation.
LEMMA SameTalk ==
    ASSUME CallsInv, NEW i \in LlmCalls, NEW r, r \in Calls, Set(i, r), llmConf' = llmConf,
           llmCall[i].pc = "chat", r.pc \in {"chat", "answered"},
           \A f \in {"task", "slot", "rounds", "convo", "failed"} : r[f] = llmCall[i][f]
    PROVE  CallsInv'
<1>1. PICK old : old = llmCall[i]
  OBVIOUS
<1>2. Fine(llmConf, old) /\ old.pc = "chat"
  BY <1>1 DEF CallsInv
<1>3. /\ r.task = old.task /\ r.slot = old.slot /\ r.rounds = old.rounds /\ r.convo = old.convo
      /\ r.failed = old.failed
  BY <1>1
<1>4. Fine(llmConf, r)
  BY <1>2, <1>3 DEF Fine, Asked
<1> QED
  BY <1>4, SetFine

LEMMA CompleteFine ==
    ASSUME CallsInv, NEW i \in LlmCalls, NEW t \in LlmTasks, NEW tools \in BOOLEAN, Complete(i, t, tools)
    PROVE  CallsInv'
<1>1. PICK pc, r : /\ pc = (IF Pool(llmConf) = {} \/ Chain(llmConf, t) = <<>> THEN "failed" ELSE "next")
                   /\ r = CallAt(pc, t, tools, 0, {})
  OBVIOUS
<1>2. Set(i, r) /\ llmConf' = llmConf
  BY <1>1 DEF Complete
<1>3. r = CallAt(pc, t, tools, 0, {})
  BY <1>1
<1>4. pc \in {"next", "failed"}
  BY <1>1
<1>5. {} = 1..0 /\ {} \in SUBSET Nat /\ 0 \in Nat
  OBVIOUS
<1>6. Fine(llmConf, r)
  BY <1>3, <1>4, <1>5, FreshFine
<1> QED
  BY <1>2, <1>6, SetFine

LEMMA NextSlotFine ==
    ASSUME CallsInv, NEW i \in LlmCalls, NextSlot(i)
    PROVE  CallsInv'
<1>1. PICK r : r = llmCall[i]
  OBVIOUS
<1>2. Fine(llmConf, r) /\ r \in Calls /\ r.pc = "next" /\ r.failed = 1..r.slot /\ llmConf' = llmConf
  BY <1>1 DEF CallsInv, Fine, NextSlot
<1>3. r.slot \in Nat /\ r.task \in LlmTasks /\ r.tools \in BOOLEAN
  BY <1>2 DEF Calls
<1>4. PICK out, chat, pass : /\ out = [r EXCEPT !.pc = "failed"]
                             /\ chat = CallAt("chat", r.task, r.tools, r.slot + 1, r.failed)
                             /\ pass = [r EXCEPT !.slot = @ + 1, !.failed = @ \cup {r.slot + 1}]
  OBVIOUS
<1>5. \/ Set(i, out)
      \/ Chain(llmConf, r.task)[r.slot + 1].provider \in Pool(llmConf) /\ Set(i, chat)
      \/ Set(i, pass)
  BY <1>1, <1>4 DEF NextSlot, Route
<1>6. CASE Set(i, out)
  <2>1. out \in Calls /\ out.pc = "failed" /\ out.rounds = r.rounds /\ out.convo = r.convo
    BY <1>2, <1>4 DEF Calls
  <2>2. Fine(llmConf, out)
    BY <1>2, <2>1 DEF Fine
  <2> QED
    BY <1>2, <1>6, <2>2, SetFine
<1>7. CASE Chain(llmConf, r.task)[r.slot + 1].provider \in Pool(llmConf) /\ Set(i, chat)
  <2>1. PICK task, tools, slot, failed : task = r.task /\ tools = r.tools /\ slot = r.slot + 1 /\ failed = r.failed
    OBVIOUS
  <2>2. chat = CallAt("chat", task, tools, slot, failed)
    BY <1>4, <2>1
  <2>3. slot \in Nat /\ slot > 0 /\ failed = 1..(slot - 1) /\ failed \in SUBSET Nat
    BY <1>2, <1>3, <2>1
  <2>4. task \in LlmTasks /\ tools \in BOOLEAN
    BY <1>3, <2>1
  <2>5. Chain(llmConf, task)[slot].provider \in Pool(llmConf)
    BY <1>7, <2>1
  <2>6. Fine(llmConf, chat)
    BY <2>2, <2>3, <2>4, <2>5, FreshFine
  <2> QED
    BY <1>2, <1>7, <2>6, SetFine
<1>8. CASE Set(i, pass)
  <2>1. /\ pass.pc = "next" /\ pass.rounds = r.rounds /\ pass.convo = r.convo
        /\ pass.slot = r.slot + 1 /\ pass.failed = r.failed \cup {r.slot + 1}
    BY <1>2, <1>4 DEF Calls
  <2>2. pass \in Calls
    <3>1. r.slot + 1 \in Nat /\ r.failed \cup {r.slot + 1} \in SUBSET Nat
      BY <1>2, <1>3 DEF Calls
    <3>2. PICK slot, failed : slot = r.slot + 1 /\ failed = r.failed \cup {r.slot + 1}
      OBVIOUS
    <3>3. pass = [r EXCEPT !.slot = slot, !.failed = failed]
      BY <1>2, <1>4, <3>2 DEF Calls
    <3> QED
      BY <1>2, <3>1, <3>2, <3>3 DEF Calls
  <2>3. pass.failed = 1..pass.slot
    BY <1>2, <1>3, <2>1
  <2>4. Fine(llmConf, pass)
    BY <1>2, <2>1, <2>2, <2>3 DEF Fine
  <2> QED
    BY <1>2, <1>8, <2>4, SetFine
<1> QED
  BY <1>5, <1>6, <1>7, <1>8

LEMMA AnswerFine ==
    ASSUME CallsInv, NEW i \in LlmCalls, Answer(i)
    PROVE  CallsInv'
<1>1. PICK r, done : r = llmCall[i] /\ done = [r EXCEPT !.pc = "answered"]
  OBVIOUS
<1>2. llmCall[i].pc = "chat" /\ llmConf' = llmConf /\ (SlotFails(i) \/ Set(i, done))
  BY <1>1 DEF Answer
<1>3. CASE SlotFails(i)
  BY <1>2, <1>3, SlotFailed
<1>4. CASE Set(i, done)
  <2>1. r \in Calls
    BY <1>1 DEF CallsInv
  <2>2. done \in Calls /\ done.pc = "answered"
    BY <1>1, <2>1 DEF Calls
  <2>3. \A f \in {"task", "slot", "rounds", "convo", "failed"} : done[f] = llmCall[i][f]
    BY <1>1, <2>1 DEF Calls
  <2> QED
    BY <1>2, <1>4, <2>2, <2>3, SameTalk
<1> QED
  BY <1>2, <1>3, <1>4

LEMMA CudaFine ==
    ASSUME CallsInv, NEW i \in LlmCalls, CudaDeath(i)
    PROVE  CallsInv'
<1>1. PICK r, again : r = llmCall[i] /\ again = [r EXCEPT !.retried = TRUE]
  OBVIOUS
<1>2. llmCall[i].pc = "chat" /\ llmConf' = llmConf /\ (SlotFails(i) \/ Set(i, again))
  BY <1>1 DEF CudaDeath
<1>3. CASE SlotFails(i)
  BY <1>2, <1>3, SlotFailed
<1>4. CASE Set(i, again)
  <2>1. r \in Calls
    BY <1>1 DEF CallsInv
  <2>2. again \in Calls /\ again.pc = "chat"
    BY <1>1, <1>2, <2>1 DEF Calls
  <2>3. \A f \in {"task", "slot", "rounds", "convo", "failed"} : again[f] = llmCall[i][f]
    BY <1>1, <2>1 DEF Calls
  <2> QED
    BY <1>2, <1>4, <2>2, <2>3, SameTalk
<1> QED
  BY <1>2, <1>3, <1>4

LEMMA CallToolsFine ==
    ASSUME CallsInv, NEW i \in LlmCalls, CallTools(i)
    PROVE  CallsInv'
<1>1. PICK r : r = llmCall[i]
  OBVIOUS
<1>2. /\ Fine(llmConf, r) /\ r \in Calls /\ r.pc = "chat" /\ r.rounds < MaxRounds /\ llmConf' = llmConf
      /\ Owing(r.convo, 0) /\ Asked(llmConf, r)
  BY <1>1 DEF CallsInv, Fine, CallTools, Offered
<1>3. PICK n \in 1..MaxToolCalls :
          Set(i, [r EXCEPT !.pc = "tools", !.convo = Append(@, n), !.owed = n,
                           !.rounds = @ + 1, !.retried = FALSE])
  BY <1>1 DEF CallTools
<1>4. PICK convo, new : /\ convo = Append(r.convo, n)
                        /\ new = [r EXCEPT !.pc = "tools", !.convo = convo, !.owed = n,
                                           !.rounds = r.rounds + 1, !.retried = FALSE]
  OBVIOUS
<1>5. Set(i, new)
  BY <1>2, <1>3, <1>4 DEF Calls
<1>6. n \in Nat \ {0}
  BY LlmBounds
<1>7. r.convo \in Seq(Nat) /\ r.rounds \in Nat
  BY <1>2 DEF Calls
<1>8. /\ Owing(convo, n) /\ IsFiniteSet(Turns(convo)) /\ Cardinality(Turns(convo)) = r.rounds + 1
  BY <1>2, <1>4, <1>6, <1>7, TurnAppended DEF Fine
<1>9. convo \in Seq(Nat)
  BY <1>4, <1>6, <1>7, ConvoAppended
<1>10. /\ new.pc = "tools" /\ new.convo = convo /\ new.owed = n /\ new.rounds = r.rounds + 1
       /\ new.slot = r.slot /\ new.task = r.task /\ new.failed = r.failed
  BY <1>2, <1>4 DEF Calls
<1>11. new \in Calls
  <2>1. PICK rounds \in Nat : rounds = r.rounds + 1
    BY <1>7
  <2>2. new = [r EXCEPT !.pc = "tools", !.convo = convo, !.owed = n, !.rounds = rounds, !.retried = FALSE]
    BY <1>4, <2>1
  <2>3. n \in Nat
    BY <1>6
  <2> QED
    BY <1>2, <1>9, <2>1, <2>2, <2>3 DEF Calls
<1>12. new.rounds <= MaxRounds
  BY <1>2, <1>7, <1>10, LlmBounds
<1>13. Asked(llmConf, new)
  BY <1>2, <1>10 DEF Asked
<1>14. Fine(llmConf, new)
  BY <1>6, <1>8, <1>10, <1>11, <1>12, <1>13 DEF Fine
<1> QED
  BY <1>2, <1>5, <1>14, SetFine

LEMMA ToolResultFine ==
    ASSUME CallsInv, NEW i \in LlmCalls, AppendToolResult(i)
    PROVE  CallsInv'
<1>1. PICK r : r = llmCall[i]
  OBVIOUS
<1>2. /\ Fine(llmConf, r) /\ r \in Calls /\ r.pc = "tools" /\ r.owed > 0 /\ llmConf' = llmConf
      /\ Owing(r.convo, r.owed) /\ Asked(llmConf, r)
  BY <1>1 DEF CallsInv, Fine, AppendToolResult
<1>3. PICK convo, pc, new : /\ convo = Append(r.convo, 0)
                            /\ pc = (IF r.owed = 1 THEN "chat" ELSE "tools")
                            /\ new = [r EXCEPT !.convo = convo, !.owed = r.owed - 1, !.pc = pc]
  OBVIOUS
<1>4. Set(i, new)
  BY <1>1, <1>2, <1>3 DEF AppendToolResult, Calls
<1>5. r.convo \in Seq(Nat) /\ r.owed \in Nat \ {0}
  BY <1>2 DEF Calls
<1>6. Owing(convo, r.owed - 1) /\ Turns(convo) = Turns(r.convo)
  BY <1>2, <1>3, <1>5, ResultAppended
<1>7. convo \in Seq(Nat)
  BY <1>3, <1>5, ConvoAppended
<1>8. /\ new.pc = pc /\ new.convo = convo /\ new.owed = r.owed - 1 /\ new.rounds = r.rounds
      /\ new.slot = r.slot /\ new.task = r.task /\ new.failed = r.failed
  BY <1>2, <1>3 DEF Calls
<1>9. pc \in {"chat", "tools"}
  BY <1>3
<1>10. new \in Calls
  <2>1. r.owed - 1 \in Nat
    BY <1>5
  <2> QED
    BY <1>2, <1>3, <1>7, <1>9, <2>1 DEF Calls
<1>11. Asked(llmConf, new)
  BY <1>2, <1>8 DEF Asked
<1>12. new.pc = "chat" => new.owed = 0
  BY <1>3, <1>5, <1>8
<1>13. new.pc = "tools" => new.owed > 0
  BY <1>3, <1>5, <1>8
<1>14. Fine(llmConf, new)
  <2>1. new.pc = "chat" => Owing(new.convo, 0)
    BY <1>6, <1>8, <1>12
  <2>2. new.pc = "tools" => new.owed > 0 /\ Owing(new.convo, new.owed)
    BY <1>6, <1>8, <1>13
  <2>3. new.pc \in {"chat", "tools"}
    BY <1>8, <1>9
  <2>4. new.rounds <= MaxRounds /\ IsFiniteSet(Turns(new.convo)) /\ Cardinality(Turns(new.convo)) = new.rounds
    BY <1>2, <1>6, <1>8 DEF Fine
  <2> QED
    BY <1>10, <1>11, <2>1, <2>2, <2>3, <2>4 DEF Fine
<1> QED
  BY <1>2, <1>4, <1>14, SetFine

LEMMA LlmSteps == CallsInv /\ [LlmNext]_llmVars => CallsInv'
<1> SUFFICES ASSUME CallsInv, [LlmNext]_llmVars PROVE CallsInv'
  OBVIOUS
<1>1. ASSUME UNCHANGED <<llmConf, llmCall>> PROVE CallsInv'
  BY <1>1 DEF CallsInv
<1>2. CASE WarmModel
  BY <1>1, <1>2 DEF WarmModel
<1>3. ASSUME NEW i \in LlmCalls, NEW t \in LlmTasks, NEW tools \in BOOLEAN, Complete(i, t, tools) PROVE CallsInv'
  BY <1>3, CompleteFine
<1>4. ASSUME NEW i \in LlmCalls, LlmStep(i) PROVE CallsInv'
  <2>1. CASE NextSlot(i)
    BY <2>1, NextSlotFine
  <2>2. CASE Answer(i)
    BY <2>2, AnswerFine
  <2>3. CASE ChatFails(i)
    BY <2>3, SlotFailed DEF ChatFails
  <2>4. CASE CudaDeath(i)
    BY <2>4, CudaFine
  <2>5. CASE CallTools(i)
    BY <2>5, CallToolsFine
  <2>6. CASE AppendToolResult(i)
    BY <2>6, ToolResultFine
  <2> QED
    BY <1>4, <2>1, <2>2, <2>3, <2>4, <2>5, <2>6 DEF LlmStep
<1>5. CASE UNCHANGED llmVars
  BY <1>1, <1>5 DEF llmVars
<1> QED
  BY <1>2, <1>3, <1>4, <1>5 DEF LlmNext

LEMMA CallsAreFine == CallsInv => LlmInv
<1> SUFFICES ASSUME CallsInv, NEW i \in LlmCalls, llmCall[i].pc \in {"chat", "tools", "answered"}
             PROVE  /\ Here(i).provider \in Pool(llmConf)
                    /\ llmConf.cutover => Here(i).provider # "github"
                    /\ llmCall[i].failed = 1..(llmCall[i].slot - 1)
                    /\ llmCall[i].pc # "tools" => Paired(llmCall[i].convo)
                    /\ Cardinality(Turns(llmCall[i].convo)) = llmCall[i].rounds
                    /\ llmCall[i].rounds <= MaxRounds
  BY DEF LlmInv
<1>1. Fine(llmConf, llmCall[i]) /\ Asked(llmConf, llmCall[i])
  BY DEF CallsInv, Fine
<1>2. Here(i).provider \in Pool(llmConf)
  BY <1>1 DEF Asked, Here, Route
<1>3. \A p \in Pool(llmConf) : llmConf.cutover => p # "github"
  BY DEF Pool
<1>4. llmCall[i].convo \in Seq(Nat)
  BY DEF CallsInv, Calls
<1>5. llmCall[i].pc # "tools" => Paired(llmCall[i].convo)
  BY <1>1, <1>4, NothingOwed DEF Fine
<1> QED
  BY <1>1, <1>2, <1>3, <1>5 DEF Fine, Asked

\* Over every environment, route and number of tools: a provider that is asked is in the pool, every
\* slot before it failed or could not be asked, and the conversation it gets is its own and well formed
\* (complete_with_tools, chat_with_tools).
THEOREM LlmSafe == LlmSpec => []LlmInv
BY LlmStart, LlmSteps, CallsAreFine, PTL DEF LlmSpec

--------------------------------------------------------------------------------
(* Builds *)

LocalsOK == build \in [Builds -> Build]

\* Only build b moved, and its locals became these.
Becomes(b, locals) ==
    /\ build' \in [Builds -> Build]
    /\ build'[b] = locals
    /\ \A c \in Builds \ {b} : build'[c] = build[c]

LEMMA IdleIsBuild ==
    ASSUME BuildAssumption, NEW b \in Builds, NEW pc \in Pcs
    PROVE  Idle(b, pc) \in Build
<1>1. Surface[b] \in Surfaces /\ 0 \in 0..MaxOrd /\ "stub" \in Returns
  BY DEF BuildAssumption, Returns
<1> QED
  BY <1>1 DEF Idle, Build

LEMMA GotoBecomes ==
    ASSUME LocalsOK, NEW b \in Builds, NEW pc \in Pcs, Goto(b, pc)
    PROVE  Becomes(b, [build[b] EXCEPT !.pc = pc])
<1>1. build \in [Builds -> Build]
  BY DEF LocalsOK
<1>2. [build[b] EXCEPT !.pc = pc] \in Build
  BY <1>1 DEF Build
<1> QED
  BY <1>1, <1>2 DEF Goto, Becomes

LEMMA EndBecomes ==
    ASSUME BuildAssumption, LocalsOK, NEW b \in Builds, NEW pc \in Pcs, End(b, pc)
    PROVE  Becomes(b, Idle(b, pc))
  BY IdleIsBuild DEF LocalsOK, End, Becomes

LEMMA AllocatedBecomes ==
    ASSUME BuildAssumption, LocalsOK, NEW b \in Builds, NEW id \in Ids, Allocated(b, id)
    PROVE  Becomes(b, [Idle(b, build[b].then) EXCEPT !.own = build[b].own, !.work = id])
<1>1. build[b].then \in Pcs /\ build[b].own \in Ids \cup {NoId}
  BY DEF LocalsOK, Build, Returns, Pcs
<1>2. Idle(b, build[b].then) \in Build
  BY <1>1, IdleIsBuild
<1>3. [Idle(b, build[b].then) EXCEPT !.own = build[b].own, !.work = id] \in Build
  BY <1>1, <1>2 DEF Build
<1> QED
  BY <1>3 DEF LocalsOK, Allocated, Becomes

-------------------------------------------------------------------------------
\* The types, one build's step at a time.
RowsOK == row \in [Ids -> Row \cup {NoRow}]
SeqOK == seq \in [Surfaces -> 0..MaxOrd]
SessionOK == session \in Ids \cup {NoId}

LEMMA IdsOfOrdinals ==
    ASSUME BuildAssumption, NEW s \in Surfaces, NEW n \in 0..MaxOrd
    PROVE  [surface |-> s, n |-> n] \in Ids
  BY DEF Ids

LEMMA AllocationSteps ==
    ASSUME BuildAssumption, TypeOK, NEW b \in Builds, ReadSeq(b) \/ WriteSeq(b)
    PROVE  /\ SeqOK' /\ UNCHANGED <<session, row, undisturbed>>
           /\ \/ /\ At(b, "alloc")
                 /\ \E n \in 0..MaxOrd :
                       Becomes(b, [build[b] EXCEPT !.seen = n, !.pc = "bump"])
              \/ \E id \in Ids :
                    Becomes(b, [Idle(b, build[b].then) EXCEPT
                                   !.own = build[b].own, !.work = id])
<1> DEFINE s == build[b].from
<1>1. LocalsOK /\ SeqOK /\ s \in Surfaces /\ build[b].seen \in 0..MaxOrd
  BY DEF TypeOK, LocalsOK, SeqOK, Build
<1>2. UNCHANGED <<session, row, undisturbed>>
  BY DEF ReadSeq, WriteSeq
<1>3. ASSUME FallbackId(b)
      PROVE  SeqOK' /\ \E id \in Ids :
                Becomes(b, [Idle(b, build[b].then) EXCEPT !.own = build[b].own, !.work = id])
  <2>1. UnknownId(s) \in Ids
    BY <1>1, IdsOfOrdinals DEF UnknownId, BuildAssumption
  <2> QED
    BY <1>1, <1>3, <2>1, AllocatedBecomes DEF FallbackId, SeqOK
<1>4. CASE ReadSeq(b)
  <2>1. CASE FallbackId(b)
    BY <1>2, <1>3, <2>1
  <2>2. CASE ~FallbackId(b)
    <3>1. /\ At(b, "alloc") /\ UNCHANGED seq
          /\ build' = [build EXCEPT ![b].seen = seq[s], ![b].pc = "bump"]
      BY <1>4, <2>2 DEF ReadSeq
    <3>2. seq[s] \in 0..MaxOrd /\ "bump" \in Pcs
      BY <1>1 DEF SeqOK, Pcs
    <3>3. build \in [Builds -> Build]
      BY <1>1 DEF LocalsOK
    <3>4. [build[b] EXCEPT !.seen = seq[s], !.pc = "bump"] \in Build
      BY <3>2, <3>3 DEF Build
    <3>5. Becomes(b, [build[b] EXCEPT !.seen = seq[s], !.pc = "bump"])
      BY <3>1, <3>3, <3>4 DEF Becomes
    <3> QED
      BY <1>1, <1>2, <3>1, <3>2, <3>5 DEF SeqOK
  <2> QED
    BY <2>1, <2>2
<1>5. CASE WriteSeq(b)
  <2>1. CASE FallbackId(b)
    BY <1>2, <1>3, <2>1
  <2>2. CASE ~FallbackId(b)
    <3> DEFINE next == build[b].seen + 1
    <3>1. /\ next <= MaxOrd /\ seq' = [seq EXCEPT ![s] = next]
          /\ Allocated(b, [surface |-> s, n |-> next])
      BY <1>5, <2>2 DEF WriteSeq
    <3>2. next \in 0..MaxOrd
      BY <1>1, <3>1 DEF BuildAssumption
    <3>3. [surface |-> s, n |-> next] \in Ids
      BY <1>1, <3>2, IdsOfOrdinals
    <3> QED
      BY <1>1, <1>2, <3>1, <3>2, <3>3, AllocatedBecomes DEF SeqOK
  <2> QED
    BY <2>1, <2>2
<1> QED
  BY <1>4, <1>5

\* A step that only reads the shared state, or writes one row or the session.
CalmStep == UNCHANGED <<seq, undisturbed>> /\ SessionOK' /\ RowsOK'

\* Every other step moves one build to a pc it names.
LEMMA StepBecomes ==
    ASSUME BuildAssumption, TypeOK, NEW b \in Builds,
           Step(b), ~ReadSeq(b), ~WriteSeq(b)
    PROVE  CalmStep /\ \E locals \in Build : Becomes(b, locals)
<1>1. /\ LocalsOK /\ RowsOK /\ SessionOK
      /\ build[b].work \in Ids \cup {NoId} /\ build[b].own \in Ids \cup {NoId}
      /\ build[b] \in Build
  BY DEF TypeOK, LocalsOK, RowsOK, SessionOK, Build
<1>2. ASSUME NEW pc \in Pcs
      PROVE  [build[b] EXCEPT !.pc = pc] \in Build /\ Idle(b, pc) \in Build
  BY <1>1, IdleIsBuild DEF Build
<1>3. ASSUME NEW pc \in Pcs, Goto(b, pc) \/ End(b, pc)
      PROVE  \E locals \in Build : Becomes(b, locals)
  BY <1>1, <1>2, <1>3, GotoBecomes, EndBecomes
<1>4. ASSUME NEW id, NEW r \in Row \cup {NoRow}
      PROVE  [row EXCEPT ![id] = r] \in [Ids -> Row \cup {NoRow}]
  BY <1>1 DEF RowsOK
<1>5. /\ [status |-> "building", text |-> NoText] \in Row
      /\ [status |-> "open", text |-> b] \in Row
  BY DEF Row, Statuses
<1>6. CASE Stub(b)
  <2>1. build' = [build EXCEPT ![b].own = build[b].work, ![b].pc = "begin"]
    BY <1>6 DEF Stub
  <2>2. [build[b] EXCEPT !.own = build[b].work, !.pc = "begin"] \in Build
    BY <1>1 DEF Build, Pcs
  <2>3. Becomes(b, [build[b] EXCEPT !.own = build[b].work, !.pc = "begin"])
    BY <1>1, <2>1, <2>2 DEF LocalsOK, Becomes
  <2>4. CalmStep
    BY <1>1, <1>4, <1>5, <1>6 DEF Stub, CalmStep, RowsOK, SessionOK
  <2> QED
    BY <2>2, <2>3, <2>4
<1>7. CASE BeginCheck(b)
  <2>1. \E pc \in Pcs : Goto(b, pc)
    BY <1>7 DEF BeginCheck, AfterBegin, Pcs
  <2> QED
    BY <1>1, <1>3, <1>7, <2>1 DEF BeginCheck, CalmStep, RowsOK, SessionOK
<1>8. CASE BeginOpen(b)
  <2>1. \E pc \in Pcs : Goto(b, pc)
    BY <1>8 DEF BeginOpen, AfterBegin, Pcs
  <2> QED
    BY <1>1, <1>3, <1>8, <2>1 DEF BeginOpen, CalmStep, RowsOK, SessionOK
<1>9. CASE SessionId(b)
  <2> DEFINE next == AfterSessionId(build[b].pc)
             kept == [build[b] EXCEPT !.work = session, !.pc = next]
             fresh == [build[b] EXCEPT !.from = "LinkedIn", !.pc = "alloc", !.then = next]
  <2>1. next \in Returns /\ next \in Pcs
    BY DEF AfterSessionId, Returns, Pcs
  <2>2. "LinkedIn" \in Surfaces /\ "alloc" \in Pcs /\ session \in Ids \cup {NoId}
    BY <1>1 DEF Surfaces, Pcs, SessionOK
  <2>3. kept \in Build
    BY <1>1, <2>1, <2>2 DEF Build
  <2>4. fresh \in Build
    BY <1>1, <2>1, <2>2 DEF Build
  <2>5. Becomes(b, kept) \/ Becomes(b, fresh)
    BY <1>1, <1>9, <2>3, <2>4 DEF SessionId, LocalsOK, Becomes
  <2> QED
    BY <1>1, <1>9, <2>3, <2>4, <2>5 DEF SessionId, CalmStep, RowsOK, SessionOK
<1>10. CASE Load(b)
  <2>1. \E pc \in Pcs : Goto(b, pc)
    BY <1>10 DEF Load, Pcs
  <2> QED
    BY <1>1, <1>3, <1>10, <2>1 DEF Load, CalmStep, RowsOK, SessionOK
<1>11. CASE Checkpoint(b)
  <2>1. \E pc \in Pcs : Goto(b, pc)
    BY <1>11 DEF Checkpoint, Pcs
  <2>2. CalmStep
    BY <1>1, <1>4, <1>5, <1>11 DEF Checkpoint, CalmStep, RowsOK, SessionOK
  <2> QED
    BY <1>3, <2>1, <2>2
<1>12. CASE Write(b) \/ ModelFails(b) \/ Refuse(b) \/ EndSession(b)
  <2>1. \E pc \in Pcs : Goto(b, pc)
    BY <1>12 DEF Write, ModelFails, Refuse, EndSession, Pcs
  <2>2. CalmStep
    BY <1>1, <1>12 DEF Write, ModelFails, Refuse, EndSession, CalmStep, RowsOK, SessionOK
  <2> QED
    BY <1>3, <2>1, <2>2
<1>13. CASE Persist(b)
  <2>1. \E pc \in Pcs : End(b, pc)
    BY <1>13 DEF Persist, Pcs, Ended
  <2>2. CalmStep
    BY <1>1, <1>4, <1>5, <1>13 DEF Persist, CalmStep, RowsOK, SessionOK
  <2> QED
    BY <1>3, <2>1, <2>2
<1>14. CASE Abandon(b)
  <2>1. \E pc \in Pcs : End(b, pc)
    BY <1>14 DEF Abandon, Pcs, Ended
  <2>2. CalmStep
    BY <1>1, <1>4, <1>14 DEF Abandon, CalmStep, RowsOK, SessionOK
  <2> QED
    BY <1>3, <2>1, <2>2
<1>15. CASE FailMark(b)
  <2> DEFINE id == build[b].own
  <2>1. \E pc \in Pcs : End(b, pc)
    BY <1>15 DEF FailMark, Pcs, Ended
  <2>2. row' = row \/ (HasStatus(id, "building") /\ row' = [row EXCEPT ![id].status = "failed"])
    BY <1>15 DEF FailMark
  <2>3. RowsOK'
    BY <1>1, <2>2 DEF RowsOK, HasStatus, HasRow, Row, Statuses
  <2>4. CalmStep
    BY <1>1, <1>15, <2>3 DEF FailMark, CalmStep, SessionOK
  <2> QED
    BY <1>3, <2>1, <2>4
<1> QED
  BY <1>6, <1>7, <1>8, <1>9, <1>10, <1>11, <1>12, <1>13, <1>14, <1>15 DEF Step

LEMMA StepKeepsTypes ==
    ASSUME BuildAssumption, TypeOK, NEW b \in Builds, Step(b)
    PROVE  /\ TypeOK' /\ undisturbed' = undisturbed
           /\ \A c \in Builds \ {b} : build'[c] = build[c]
<1>1. /\ LocalsOK /\ build[b].then \in Pcs /\ build[b].own \in Ids \cup {NoId}
      /\ build[b] \in Build
  BY DEF TypeOK, LocalsOK, Build, Returns, Pcs
<1>2. CASE ReadSeq(b) \/ WriteSeq(b)
  <2>1. SeqOK' /\ UNCHANGED <<session, row, undisturbed>>
    BY <1>2, AllocationSteps
  <2>2. \E locals : Becomes(b, locals)
    BY <1>2, AllocationSteps
  <2> QED
    BY <2>1, <2>2 DEF TypeOK, SeqOK, Becomes
<1>3. CASE ~ReadSeq(b) /\ ~WriteSeq(b)
  <2>1. CalmStep /\ \E locals \in Build : Becomes(b, locals)
    BY <1>3, StepBecomes
  <2> QED
    BY <2>1 DEF TypeOK, CalmStep, SessionOK, RowsOK, Becomes
<1> QED
  BY <1>2, <1>3

LEMMA StepIsActive ==
    ASSUME NEW b \in Builds, Step(b)
    PROVE  Active(b)
<1> USE DEF Active, At, Ended
<1>1. CASE ReadSeq(b) \/ WriteSeq(b) \/ Stub(b) \/ BeginCheck(b) \/ BeginOpen(b)
  BY <1>1 DEF ReadSeq, WriteSeq, Stub, BeginCheck, BeginOpen
<1>2. CASE SessionId(b) \/ Load(b) \/ Checkpoint(b) \/ Write(b) \/ ModelFails(b)
  BY <1>2 DEF SessionId, Load, Checkpoint, Write, ModelFails
<1>3. CASE Refuse(b) \/ EndSession(b) \/ Persist(b) \/ Abandon(b) \/ FailMark(b)
  BY <1>3 DEF Refuse, EndSession, Persist, Abandon, FailMark
<1> QED
  BY <1>1, <1>2, <1>3 DEF Step

-------------------------------------------------------------------------------
\* The part of UndisturbedInv that speaks of the build alone.
KeepsId(b) ==
    /\ build[b].pc \in Opening => session = NoId
    /\ build[b].pc \in {"alloc", "bump"} => build[b].then = "stub"
    /\ At(b, "stub") => build[b].work \in Ids
    /\ build[b].pc \in Running => session = build[b].own
    /\ build[b].pc \in {"begin", "open", "finish", "fail"} \cup Running
          => build[b].own \in Ids /\ build[b].work = build[b].own
    /\ ~At(b, "loadopen")

\* The stub fixes the id; every later step works under it.
LEMMA AloneStepKeepsId ==
    ASSUME BuildAssumption, TypeOK, NEW b \in Builds, Active(b), KeepsId(b), Step(b)
    PROVE  KeepsId(b)' \/ ~Active(b)'
<1>1. /\ LocalsOK /\ NoId \notin Ids
      /\ build[b] \in Build /\ build[b].work \in Ids \cup {NoId}
  BY DEF TypeOK, LocalsOK, Build, BuildAssumption
<1>2. ASSUME NEW pc \in Pcs, Goto(b, pc)
      PROVE  /\ build'[b].pc = pc /\ build'[b].own = build[b].own
             /\ build'[b].work = build[b].work /\ build'[b].then = build[b].then
  <2>1. Becomes(b, [build[b] EXCEPT !.pc = pc])
    BY <1>1, <1>2, GotoBecomes
  <2> QED
    BY <1>1, <2>1 DEF Becomes, Build
<1> USE DEF KeepsId, Opening, Running, At
<1>3. CASE ReadSeq(b) \/ WriteSeq(b)
  <2>1. UNCHANGED <<session, row, undisturbed>> /\ build[b].then = "stub" /\ session = NoId
    BY <1>3, AllocationSteps DEF ReadSeq, WriteSeq
  <2>2. CASE \E n \in 0..MaxOrd : Becomes(b, [build[b] EXCEPT !.seen = n, !.pc = "bump"])
    BY <1>1, <2>1, <2>2 DEF Becomes, Build
  <2>3. CASE \E id \in Ids : Becomes(b, [Idle(b, build[b].then) EXCEPT
                                             !.own = build[b].own, !.work = id])
    BY <1>1, <2>1, <2>3 DEF Becomes, Idle
  <2> QED
    BY <1>3, <2>2, <2>3, AllocationSteps
<1>4. CASE Stub(b)
  BY <1>1, <1>4 DEF Stub, LocalsOK, Build
<1>5. CASE BeginCheck(b)
  <2>1. UNCHANGED session
    BY <1>5 DEF BeginCheck
  <2>2. \E pc \in {"open", "loadid", "load"} :
          /\ Goto(b, pc) /\ pc \in Pcs
          /\ pc = "open" => At(b, "begin") /\ session = NoId
          /\ pc = "loadid" => session # NoId
          /\ pc = "load" => At(b, "loadbegin")
    BY <1>1, <1>5 DEF BeginCheck, AfterBegin, Pcs
  <2> QED
    BY <1>1, <1>2, <1>5, <2>1, <2>2 DEF BeginCheck
<1>6. CASE BeginOpen(b)
  <2>1. session' = build[b].work /\ Goto(b, "loadid") /\ "loadid" \in Pcs
    BY <1>6 DEF BeginOpen, AfterBegin, Pcs
  <2> QED
    BY <1>2, <1>6, <2>1 DEF BeginOpen
<1>7. CASE SessionId(b)
  <2>1. session = build[b].own /\ session # NoId /\ session' = session
    BY <1>1, <1>7 DEF SessionId
  <2>2. \E pc \in {"loadbegin", "checkpoint", "end"} :
          build' = [build EXCEPT ![b].work = session, ![b].pc = pc]
    BY <1>7, <2>1 DEF SessionId, AfterSessionId
  <2> QED
    BY <1>1, <1>7, <2>1, <2>2 DEF SessionId, LocalsOK, Build
<1>8. CASE Load(b)
  <2>1. session' = session /\ \E pc \in {"write", "chkid"} : Goto(b, pc) /\ pc \in Pcs
    BY <1>8 DEF Load, Pcs
  <2> QED
    BY <1>2, <1>8, <2>1 DEF Load
<1>9. CASE Checkpoint(b)
  <2>1. session' = session /\ Goto(b, "write") /\ "write" \in Pcs
    BY <1>9 DEF Checkpoint, Pcs
  <2> QED
    BY <1>2, <1>9, <2>1 DEF Checkpoint
<1>10. CASE Write(b)
  <2>1. session' = session /\ Goto(b, "resolveid") /\ "resolveid" \in Pcs
    BY <1>10 DEF Write, Pcs
  <2> QED
    BY <1>2, <1>10, <2>1 DEF Write
<1>11. CASE ModelFails(b) \/ Refuse(b)
  <2>1. Goto(b, "fail") /\ "fail" \in Pcs /\ build[b].pc \in {"load", "write", "finish"}
    BY <1>11 DEF ModelFails, Refuse, Pcs
  <2> QED
    BY <1>2, <2>1
<1>12. CASE EndSession(b)
  <2>1. Goto(b, "finish") /\ "finish" \in Pcs
    BY <1>12 DEF EndSession, Pcs
  <2> QED
    BY <1>2, <1>12, <2>1 DEF EndSession
<1>13. CASE Persist(b) \/ Abandon(b) \/ FailMark(b)
  <2>1. PICK pc \in Ended : End(b, pc)
    BY <1>13 DEF Persist, Abandon, FailMark, Ended
  <2>2. Becomes(b, Idle(b, pc))
    BY <1>1, <2>1, EndBecomes DEF Pcs
  <2>3. build'[b].pc \in Ended
    BY <2>1, <2>2 DEF Becomes, Idle
  <2> QED
    BY <2>3 DEF Active
<1> QED
  BY <1>3, <1>4, <1>5, <1>6, <1>7, <1>8, <1>9, <1>10, <1>11, <1>12, <1>13 DEF Step

-------------------------------------------------------------------------------
\* BuildInv, step by step.
LEMMA StepKeepsInv ==
    ASSUME BuildAssumption, BuildInv, NEW b \in Builds, Step(b)
    PROVE  BuildInv'
<1>1. /\ TypeOK /\ TypeOK' /\ undisturbed' = undisturbed /\ Active(b)
      /\ \A c \in Builds \ {b} : build'[c] = build[c]
  BY StepKeepsTypes, StepIsActive DEF BuildInv
<1>2. build'[b].pc # "new"
  <2>1. /\ LocalsOK /\ build[b].then \in Returns
    BY <1>1 DEF TypeOK, LocalsOK, Build
  <2>2. CASE ReadSeq(b) \/ WriteSeq(b)
    <3>1. CASE \E n \in 0..MaxOrd : Becomes(b, [build[b] EXCEPT !.seen = n, !.pc = "bump"])
      BY <2>1, <3>1 DEF Becomes, LocalsOK, Build
    <3>2. CASE \E id \in Ids : Becomes(b, [Idle(b, build[b].then) EXCEPT
                                               !.own = build[b].own, !.work = id])
      BY <2>1, <3>2 DEF Becomes, Idle, Returns
    <3> QED
      BY <1>1, <2>2, <3>1, <3>2, AllocationSteps
  <2>3. ASSUME NEW pc \in Pcs \ {"new"}, Goto(b, pc) \/ End(b, pc)
        PROVE  build'[b].pc # "new"
    <3>1. Becomes(b, [build[b] EXCEPT !.pc = pc]) \/ Becomes(b, Idle(b, pc))
      BY <2>1, <2>3, GotoBecomes, EndBecomes
    <3> QED
      BY <2>1, <3>1 DEF Becomes, Idle, LocalsOK, Build
  <2>4. CASE Stub(b) \/ BeginCheck(b) \/ BeginOpen(b) \/ SessionId(b)
    BY <2>1, <2>4 DEF Stub, BeginCheck, BeginOpen, SessionId, Goto, AfterBegin,
                      AfterSessionId, LocalsOK, Build
  <2>5. CASE \/ Load(b) \/ Checkpoint(b) \/ Write(b) \/ ModelFails(b) \/ Refuse(b)
             \/ EndSession(b) \/ Persist(b) \/ Abandon(b) \/ FailMark(b)
    <3>1. \E pc \in Pcs \ {"new"} : Goto(b, pc) \/ End(b, pc)
      BY <2>5 DEF Load, Checkpoint, Write, ModelFails, Refuse, EndSession, Persist,
                  Abandon, FailMark, Pcs, Ended
    <3> QED
      BY <2>3, <3>1
  <2> QED
    BY <2>2, <2>4, <2>5 DEF Step
<1>3. NewInv'
  BY <1>1, <1>2 DEF BuildInv, NewInv, At
<1>4. UndisturbedInv'
  <2> SUFFICES ASSUME NEW c \in Builds, RunsAlone(c)'
               PROVE  KeepsId(c)' /\ \A d \in Builds \ {c} : ~Active(d)'
    BY DEF UndisturbedInv, KeepsId
  <2>1. CASE c = b
    <3>1. RunsAlone(b) /\ KeepsId(b) /\ \A d \in Builds \ {b} : ~Active(d)
      BY <1>1, <2>1 DEF RunsAlone, BuildInv, UndisturbedInv, KeepsId
    <3>2. KeepsId(b)'
      BY <1>1, <2>1, <3>1, AloneStepKeepsId DEF RunsAlone
    <3> QED
      BY <1>1, <2>1, <3>1, <3>2 DEF Active
  <2>2. CASE c # b
    <3>1. RunsAlone(c)
      BY <1>1, <2>2 DEF RunsAlone, Active
    <3> QED
      BY <1>1, <2>2, <3>1 DEF BuildInv, UndisturbedInv
  <2> QED
    BY <2>1, <2>2
<1> QED
  BY <1>1, <1>3, <1>4 DEF BuildInv

LEMMA InvInit ==
    ASSUME BuildAssumption, Init
    PROVE  BuildInv
<1>1. "new" \in Pcs /\ \A b \in Builds : Idle(b, "new") \in Build
  BY IdleIsBuild DEF Pcs
<1>2. TypeOK
  BY <1>1 DEF Init, TypeOK, BuildAssumption
<1>3. NewInv /\ \A b \in Builds : ~RunsAlone(b)
  BY DEF Init, NewInv, RunsAlone, Idle, BuildAssumption
<1> QED
  BY <1>2, <1>3 DEF BuildInv, UndisturbedInv

LEMMA StartKeepsInv ==
    ASSUME BuildAssumption, BuildInv, NEW b \in Builds, Start(b)
    PROVE  BuildInv'
<1>1. /\ LocalsOK /\ At(b, "new") /\ build[b].then = "stub" /\ "alloc" \in Pcs
      /\ Goto(b, "alloc") /\ UNCHANGED <<seq, session, row>>
      /\ undisturbed' = IF session = NoId /\ \A c \in Builds : ~Active(c)
                          THEN b ELSE NoBuild
  BY DEF Start, BuildInv, NewInv, TypeOK, LocalsOK, Pcs
<1>2. Becomes(b, [build[b] EXCEPT !.pc = "alloc"])
  BY <1>1, GotoBecomes
<1>3. build'[b].pc = "alloc" /\ build'[b].then = "stub"
  BY <1>1, <1>2 DEF Becomes, LocalsOK, Build
<1>4. TypeOK' /\ NewInv'
  BY <1>1, <1>2, <1>3 DEF BuildInv, TypeOK, NewInv, Becomes, At
<1>5. ASSUME NEW c \in Builds, RunsAlone(c)'
      PROVE  KeepsId(c)' /\ \A d \in Builds \ {c} : ~Active(d)'
  <2>1. c = b /\ session' = NoId /\ \A d \in Builds : ~Active(d)
    BY <1>1, <1>5 DEF RunsAlone, BuildAssumption
  <2>2. \A d \in Builds \ {c} : ~Active(d)'
    BY <1>2, <2>1 DEF Becomes, Active
  <2> QED
    BY <1>3, <2>1, <2>2 DEF KeepsId, Opening, Running, At
<1> QED
  BY <1>4, <1>5 DEF BuildInv, UndisturbedInv, KeepsId

\* Accept, Delete and Restart leave no build running under another id.
LEMMA OutsideKeepsInv ==
    ASSUME BuildAssumption, BuildInv, (\E id \in Ids : Accept(id) \/ Delete(id)) \/ Restart
    PROVE  BuildInv'
<1>1. CASE \E id \in Ids : Accept(id) \/ Delete(id)
  <2>1. PICK id \in Ids : Accept(id) \/ Delete(id)
    BY <1>1
  <2>2. UNCHANGED <<seq, session, build, undisturbed>>
    BY <2>1 DEF Accept, Delete
  <2>3. row' \in [Ids -> Row \cup {NoRow}]
    BY <2>1 DEF Accept, Delete, HasStatus, HasRow, BuildInv, TypeOK, Row, Statuses
  <2> QED
    BY <2>2, <2>3 DEF BuildInv, TypeOK, NewInv, UndisturbedInv, RunsAlone, Active, At
<1>2. CASE Restart
  <2>1. \A b \in Builds : build'[b] = IF Active(b) THEN Idle(b, "ended") ELSE build[b]
    BY <1>2 DEF Restart
  <2>2. "ended" \in Pcs /\ \A b \in Builds : Idle(b, "ended") \in Build
    BY IdleIsBuild DEF Pcs, Ended
  <2>3. row' \in [Ids -> Row \cup {NoRow}]
    BY <1>2 DEF Restart, HasStatus, HasRow, BuildInv, TypeOK, Row, Statuses
  <2>4. TypeOK'
    BY <1>2, <2>1, <2>2, <2>3 DEF Restart, BuildInv, TypeOK
  <2>5. ASSUME NEW b \in Builds
        PROVE  ~Active(b)' /\ (At(b, "new")' => build'[b].then = "stub")
    <3>1. CASE Active(b)
      <4>1. build'[b] = Idle(b, "ended")
        BY <2>1, <3>1
      <4>2. build'[b].pc = "ended"
        BY <4>1 DEF Idle
      <4> QED
        BY <4>2 DEF Active, Ended, At
    <3>2. CASE ~Active(b)
      BY <2>1, <3>2 DEF BuildInv, NewInv, Active, Ended, At
    <3> QED
      BY <3>1, <3>2
  <2>6. NewInv'
    BY <2>5 DEF NewInv
  <2> QED
    BY <2>4, <2>5, <2>6 DEF BuildInv, UndisturbedInv, RunsAlone
<1> QED
  BY <1>1, <1>2

LEMMA NextKeepsInv ==
    ASSUME BuildAssumption, BuildInv, [Next]_vars
    PROVE  BuildInv'
<1>1. CASE UNCHANGED vars
  BY <1>1 DEF vars, BuildInv, TypeOK, NewInv, UndisturbedInv, RunsAlone, Active, At
<1>2. CASE Next
  BY <1>2, StartKeepsInv, StepKeepsInv, OutsideKeepsInv DEF Next
<1> QED
  BY <1>1, <1>2

\* The types, and that an undisturbed build works under its own id: the
\* session it runs in is the one the slash opened (begin_research_session).
THEOREM BuildInvHolds == Spec => []BuildInv
<1>1. Init => BuildInv
  BY InvInit, BuildAssumption
<1>2. BuildInv /\ [Next]_vars => BuildInv'
  BY NextKeepsInv, BuildAssumption
<1> QED
  BY <1>1, <1>2, PTL DEF Spec

-------------------------------------------------------------------------------
\* Only these steps write a row, each the row it names.
RowWritten(b) ==
    \/ Stub(b) /\ \A id \in Ids \ {build[b].work} : row'[id] = row[id]
    \/ Checkpoint(b) /\ \A id \in Ids \ {build[b].work} : row'[id] = row[id]
    \/ Persist(b) /\ \A id \in Ids \ {build[b].work} : row'[id] = row[id]
    \/ Abandon(b) /\ \A id \in Ids \ {build[b].own} : row'[id] = row[id]
    \/ FailMark(b) /\ \A id \in Ids \ {build[b].own} : row'[id] = row[id]
    \/ row' = row

LEMMA StepWritesOneRow ==
    ASSUME TypeOK, NEW b \in Builds, Step(b)
    PROVE  RowWritten(b)
<1> USE DEF RowWritten
<1>1. CASE ReadSeq(b) \/ WriteSeq(b) \/ BeginCheck(b) \/ BeginOpen(b) \/ SessionId(b)
  BY <1>1 DEF ReadSeq, WriteSeq, BeginCheck, BeginOpen, SessionId
<1>2. CASE Load(b) \/ Write(b) \/ ModelFails(b) \/ Refuse(b) \/ EndSession(b)
  BY <1>2 DEF Load, Write, ModelFails, Refuse, EndSession
<1>3. CASE Stub(b)
  BY <1>3 DEF Stub, TypeOK
<1>4. CASE Checkpoint(b)
  BY <1>4 DEF Checkpoint, TypeOK
<1>5. CASE Persist(b)
  BY <1>5 DEF Persist, TypeOK
<1>6. CASE Abandon(b)
  BY <1>6 DEF Abandon, TypeOK
<1>7. CASE FailMark(b)
  BY <1>7 DEF FailMark, TypeOK
<1> QED
  BY <1>1, <1>2, <1>3, <1>4, <1>5, <1>6, <1>7 DEF Step

\* A build that runs alone, in a session nobody left open, touches no other
\* row than its own: checkpoint_building_pack and persist_grounded_draft resolve
\* the id from the session, the slash marks or deletes its own.
THEOREM WritesOnlyItsRowHolds == Spec => WritesOnlyItsRow
<1> DEFINE Others(b) ==
      RunsAlone(b) /\ Step(b)
        => \A id \in Ids \ {build[b].own, build'[b].own} : row'[id] = row[id]
<1>1. ASSUME BuildInv, NEW b \in Builds
      PROVE  Others(b)
  <2> SUFFICES ASSUME RunsAlone(b), Step(b),
                      NEW id \in Ids \ {build[b].own, build'[b].own}
               PROVE  row'[id] = row[id]
    OBVIOUS
  <2>1. TypeOK /\ KeepsId(b)
    BY <1>1 DEF BuildInv, UndisturbedInv, KeepsId
  <2>2. RowWritten(b)
    BY <2>1, StepWritesOneRow
  <2>3. Stub(b) => build'[b].own = build[b].work
    BY <2>1 DEF Stub, TypeOK, Build
  <2>4. Checkpoint(b) \/ Persist(b) => build[b].work = build[b].own
    BY <2>1 DEF Checkpoint, Persist, KeepsId, At, Running
  <2> QED
    BY <2>2, <2>3, <2>4 DEF RowWritten
<1>2. BuildInv => [\A b \in Builds : Others(b)]_vars
  BY <1>1
<1> QED
  BY <1>2, BuildInvHolds, PTL DEF WritesOnlyItsRow

\* A late failure, of whichever build, never fails a row that holds a text:
\* mark_status_from and fail_all_building move `building` rows only.
THEOREM LateFailureSparesTextHolds == Spec => LateFailureSparesText
<1> DEFINE Spared == \A id \in Ids :
             HasStatus(id, "open") \/ HasStatus(id, "accepted")
               => row'[id] = NoRow \/ row'[id].status # "failed"
<1>1. ASSUME BuildInv, Next
      PROVE  Spared
  <2> SUFFICES ASSUME NEW id \in Ids, HasRow(id), row[id].status \in {"open", "accepted"}
               PROVE  row'[id] = NoRow \/ row'[id].status # "failed"
    BY DEF HasStatus
  <2>0. TypeOK
    BY <1>1 DEF BuildInv
  <2>1. CASE row' = row
    BY <2>1
  <2>2. ASSUME NEW b \in Builds, Step(b), row' # row
        PROVE  row'[id] = NoRow \/ row'[id].status # "failed"
    <3>1. CASE Stub(b) \/ Checkpoint(b)
      BY <2>0, <2>2, <3>1 DEF Stub, Checkpoint, TypeOK
    <3>2. CASE Persist(b) \/ Abandon(b)
      BY <2>0, <2>2, <3>2 DEF Persist, Abandon, TypeOK
    <3>3. CASE FailMark(b)
      BY <2>0, <2>2, <3>3 DEF FailMark, HasStatus, TypeOK
    <3> QED
      BY <2>0, <2>2, <3>1, <3>2, <3>3, StepWritesOneRow DEF RowWritten
  <2>3. CASE \E b \in Builds : Start(b)
    BY <2>1, <2>3 DEF Start
  <2>4. CASE \E i \in Ids : Accept(i) \/ Delete(i)
    <3>1. PICK i \in Ids : Accept(i) \/ Delete(i)
      BY <2>4
    <3>2. CASE i = id
      <4>1. row[id] \in Row
        BY <2>0 DEF TypeOK, HasRow
      <4> QED
        BY <2>0, <3>1, <3>2, <4>1 DEF Accept, Delete, TypeOK, Row
    <3>3. CASE i # id
      BY <2>0, <3>1, <3>3 DEF Accept, Delete, TypeOK
    <3> QED
      BY <3>2, <3>3
  <2>5. CASE Restart
    BY <2>0, <2>5 DEF Restart, HasStatus, TypeOK
  <2> QED
    BY <1>1, <2>1, <2>2, <2>3, <2>4, <2>5 DEF Next
<1>2. BuildInv /\ [Next]_vars => [Spared]_vars
  BY <1>1
<1> QED
  BY <1>2, BuildInvHolds, PTL DEF Spec, LateFailureSparesText

\* What an undisturbed build reports is in its row: the text it reports is
\* there, open; after a reported failure the row is gone or not `building`.
THEOREM EndsWithItsTextHolds == Spec => EndsWithItsText
<1> DEFINE Ends(b) ==
      RunsAlone(b) =>
        /\ build'[b].pc = "done"
             => row'[build[b].own] = [status |-> "open", text |-> b]
        /\ build'[b].pc = "failed"
             => \/ row'[build[b].own] = NoRow
                \/ row'[build[b].own].status # "building"
<1>1. ASSUME BuildInv, Next, NEW b \in Builds, RunsAlone(b),
             build'[b].pc \in {"done", "failed"}
      PROVE  Step(b)
  <2>1. TypeOK /\ Active(b) /\ \A c \in Builds \ {b} : ~Active(c)
    BY <1>1 DEF BuildInv, UndisturbedInv, RunsAlone
  <2>2. build'[b] # build[b]
    BY <1>1, <2>1 DEF Active, Ended
  <2>3. CASE \E c \in Builds : Start(c)
    <3>1. PICK c \in Builds : At(c, "new") /\ Goto(c, "alloc")
      BY <2>3 DEF Start
    <3>2. c # b
      BY <2>1, <3>1 DEF Active, At
    <3> QED
      BY <2>1, <2>2, <3>1, <3>2 DEF Goto, TypeOK
  <2>4. CASE \E c \in Builds : Step(c)
    BY <2>1, <2>4, StepIsActive
  <2>5. CASE \E id \in Ids : Accept(id) \/ Delete(id)
    BY <2>2, <2>5 DEF Accept, Delete
  <2>6. CASE Restart
    <3>1. build'[b] = Idle(b, "ended")
      BY <2>1, <2>6 DEF Restart
    <3>2. build'[b].pc = "ended"
      BY <3>1 DEF Idle
    <3> QED
      BY <1>1, <3>2
  <2> QED
    BY <1>1, <2>3, <2>4, <2>5, <2>6 DEF Next
<1>2. ASSUME BuildInv, Next, NEW b \in Builds
      PROVE  Ends(b)
  <2> SUFFICES ASSUME RunsAlone(b), build'[b].pc \in {"done", "failed"}
               PROVE  /\ build'[b].pc = "done"
                           => row'[build[b].own] = [status |-> "open", text |-> b]
                      /\ build'[b].pc = "failed"
                           => \/ row'[build[b].own] = NoRow
                              \/ row'[build[b].own].status # "building"
    OBVIOUS
  <2>1. Step(b) /\ TypeOK /\ LocalsOK /\ KeepsId(b)
    BY <1>1, <1>2 DEF BuildInv, UndisturbedInv, KeepsId, TypeOK, LocalsOK
  <2>2. ASSUME NEW pc \in Pcs \ {"done", "failed"}, Goto(b, pc)
        PROVE  FALSE
    <3>1. Becomes(b, [build[b] EXCEPT !.pc = pc])
      BY <2>1, <2>2, GotoBecomes
    <3> QED
      BY <2>1, <2>2, <3>1 DEF Becomes, LocalsOK, Build
  <2>3. ASSUME NEW pc \in Pcs, End(b, pc)
        PROVE  build'[b].pc = pc
    <3>1. Becomes(b, Idle(b, pc))
      BY <2>1, <2>3, EndBecomes, BuildAssumption
    <3> QED
      BY <3>1 DEF Becomes, Idle
  <2>4. CASE ReadSeq(b) \/ WriteSeq(b)
    <3>1. CASE \E n \in 0..MaxOrd : Becomes(b, [build[b] EXCEPT !.seen = n, !.pc = "bump"])
      BY <2>1, <3>1 DEF Becomes, LocalsOK, Build
    <3>2. CASE \E id \in Ids : Becomes(b, [Idle(b, build[b].then) EXCEPT
                                               !.own = build[b].own, !.work = id])
      BY <2>1, <2>4, <3>2 DEF Becomes, Idle, KeepsId, ReadSeq, WriteSeq, At
    <3> QED
      BY <2>1, <2>4, <3>1, <3>2, AllocationSteps, BuildAssumption
  <2>5. CASE Stub(b) \/ BeginCheck(b) \/ BeginOpen(b) \/ SessionId(b)
    BY <2>1, <2>5 DEF Stub, BeginCheck, BeginOpen, SessionId, Goto, AfterBegin,
                      AfterSessionId, LocalsOK, Build
  <2>6. CASE \/ Load(b) \/ Checkpoint(b) \/ Write(b) \/ ModelFails(b) \/ Refuse(b)
             \/ EndSession(b)
    <3>1. \E pc \in Pcs \ {"done", "failed"} : Goto(b, pc)
      BY <2>6 DEF Load, Checkpoint, Write, ModelFails, Refuse, EndSession, Pcs
    <3> QED
      BY <2>2, <3>1
  <2>7. CASE Persist(b)
    <3>1. build[b].work \in Ids /\ build[b].work = build[b].own
      BY <2>1, <2>7 DEF Persist, KeepsId, At
    <3>2. CASE End(b, "done") /\ row' = [row EXCEPT ![build[b].work] =
                                          [status |-> "open", text |-> b]]
      BY <2>1, <2>3, <3>1, <3>2 DEF TypeOK, Pcs, Ended
    <3>3. CASE End(b, "ended")
      BY <2>3, <3>3 DEF Pcs, Ended
    <3> QED
      BY <2>7, <3>2, <3>3 DEF Persist
  <2>8. CASE Abandon(b)
    <3>1. build[b].own \in Ids
      BY <2>1, <2>8 DEF Abandon, KeepsId, At
    <3>2. CASE End(b, "failed") /\ row' = [row EXCEPT ![build[b].own] = NoRow]
      BY <2>1, <2>3, <3>1, <3>2 DEF TypeOK, Pcs, Ended
    <3>3. CASE End(b, "ended")
      BY <2>3, <3>3 DEF Pcs, Ended
    <3> QED
      BY <2>8, <3>2, <3>3 DEF Abandon
  <2>9. CASE FailMark(b)
    <3> DEFINE id == build[b].own
    <3>1. id \in Ids
      BY <2>1, <2>9 DEF FailMark, KeepsId, At
    <3>2. CASE End(b, "failed") /\ row' = IF HasStatus(id, "building")
                         THEN [row EXCEPT ![id].status = "failed"] ELSE row
      <4>1. build'[b].pc = "failed"
        BY <2>3, <3>2 DEF Pcs, Ended
      <4>2. row'[id] = NoRow \/ row'[id].status # "building"
        BY <2>1, <3>1, <3>2 DEF TypeOK, HasStatus, HasRow, Row
      <4> QED
        BY <4>1, <4>2
    <3>3. CASE End(b, "ended")
      BY <2>3, <3>3 DEF Pcs, Ended
    <3> QED
      BY <2>9, <3>2, <3>3 DEF FailMark
  <2> QED
    BY <2>1, <2>4, <2>5, <2>6, <2>7, <2>8, <2>9 DEF Step
<1>3. BuildInv /\ [Next]_vars => [\A b \in Builds : Ends(b)]_vars
  BY <1>2
<1> QED
  BY <1>3, BuildInvHolds, PTL DEF Spec, EndsWithItsText
================================================================================
