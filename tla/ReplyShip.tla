------------------------------- MODULE ReplyShip -------------------------------
(***************************************************************************)
(* Reply drafts: /reply_comment reads a LinkedIn comment or a tweet, lets  *)
(* the model write an answer and saves it under CREPLY-n or XREPLY-n;      *)
(* /rework rewrites it and /accept ships it at once, without a pull        *)
(* request.  Nothing but the status of the row stands between two ships.   *)
(*                                                                         *)
(* A text is what the checks of the code look at: which words it has (its  *)
(* own, those of the parent, those the operator banned, the banned ones    *)
(* with other white space), its size and its emoji.                        *)
(***************************************************************************)
EXTENDS Naturals, Sequences, FiniteSets

CONSTANTS ReplyTasks,   \* slash commands running at once
          ReplySurfaces,     \* "linkedin" (CREPLY), "x" (XREPLY)
          Live,         \* surfaces in production mode; the others answer a notice
          RawTexts,     \* what the model or the operator may write
          ReplyFaults,  \* which failures happen in this instance
          MaxReplies,   \* bound: ids of one surface
          MaxSends,     \* bound: ships of one reply
          NoReply, NoReplyText

Words == {"own", "parent", "old", "respaced"}
Text == [words : SUBSET Words, size : {"few", "fits", "long"}, emoji : 0..1]

\* call: a fetch, a model call or a ship fails.  lost: a ship reaches the surface
\* and its answer is an error.  sqlite: a statement fails.  crash: a restart.
AllReplyFaults == {"call", "lost", "sqlite", "crash"}

ReplyIds == [surface : ReplySurfaces, n : 0..MaxReplies]

ASSUME ReplyAssumption ==
    /\ ReplySurfaces \subseteq {"linkedin", "x"}
    /\ Live \subseteq ReplySurfaces
    /\ RawTexts \subseteq Text
    /\ ReplyFaults \subseteq AllReplyFaults
    /\ MaxReplies \in Nat
    /\ MaxSends \in Nat
    /\ NoReply \notin [status : {"open", "published"}, text : Text]
    /\ NoReplyText \notin Text

VARIABLES replySeq,    \* reply_code_seq
          replies,     \* the rows of the drafts table with a reply id
          replyTask,   \* the running slash commands
          sent,        \* the texts that reached the surface, per reply
          disturbed    \* history: replies two commands worked on at once, or whose
                       \* ship was not recorded

replyVars == <<replySeq, replies, replyTask, sent, disturbed>>

Command(op, pc, i, mode, x) ==
    [op |-> op, pc |-> pc, id |-> i, mode |-> mode, text |-> x, tries |-> 0]
ReplyId(s, k) == [surface |-> s, n |-> k]
IdleReply == Command("none", "idle", ReplyId("x", 0), "none", NoReplyText)

ReplyInit ==
    /\ replySeq = [s \in ReplySurfaces |-> 0]
    /\ replies = [i \in ReplyIds |-> NoReply]
    /\ replyTask = [t \in ReplyTasks |-> IdleReply]
    /\ sent = [i \in ReplyIds |-> <<>>]
    /\ disturbed = {}

-------------------------------------------------------------------------------
Fails(kind) == kind \in ReplyFaults

ReplyAt(t, op, pc) == replyTask[t].op = op /\ replyTask[t].pc = pc
ReplyGoto(t, pc) == replyTask' = [replyTask EXCEPT ![t].pc = pc]
Leave(t) == replyTask' = [replyTask EXCEPT ![t] = IdleReply]

Written(t, pc, x) ==
    replyTask' = [replyTask EXCEPT ![t] = Command(@.op, pc, @.id, "none", x)]

Started(t, i) == replyTask[t].pc # "idle" /\ replyTask[t].id = i
\* Ids the command of t shares with another running command.
Crowded(t, i) == IF \E u \in ReplyTasks \ {t} : Started(u, i) THEN {i} ELSE {}

\* What the code makes of a text.
EnsureOneEmoji(x) == [x EXCEPT !.emoji = 1]
Empty(x) == x.words = {} /\ x.emoji = 0
EchoesParent(x) == x.words # {} /\ x.words \subseteq {"parent"}
CopiesBan(x) == x.words \cap {"old", "respaced"} # {}
ScrubBanned(x) == [x EXCEPT !.words = @ \ {"old"}]
OverLimit(s, x) == s = "x" /\ x.size = "long"

-------------------------------------------------------------------------------
\* /reply_comment <url>: the URL tells the surface; a URL that is no comment or
\* status ends the command at once.
CreateReply(t, s) ==
    /\ replyTask[t].pc = "idle"
    /\ replyTask' = [replyTask EXCEPT ![t] =
           Command("create", "fetch", ReplyId(s, 0), "none", NoReplyText)]
    /\ UNCHANGED <<replySeq, replies, sent, disturbed>>

\* A LinkedIn comment: its page over Tor, the comment isolated in it.
ReadComment(t) ==
    /\ ReplyAt(t, "create", "fetch") /\ replyTask[t].id.surface = "linkedin"
    /\ ReplyGoto(t, "write") \/ (Fails("call") /\ Leave(t))
    /\ UNCHANGED <<replySeq, replies, sent, disturbed>>

\* A tweet: by bearer, and when that misses by the browser.
LookupStatus(t) ==
    /\ ReplyAt(t, "create", "fetch") /\ replyTask[t].id.surface = "x"
    /\ ReplyGoto(t, "write") \/ (Fails("call") /\ ReplyGoto(t, "browser"))
    /\ UNCHANGED <<replySeq, replies, sent, disturbed>>

BraveStatus(t) ==
    /\ ReplyAt(t, "create", "browser")
    /\ ReplyGoto(t, "write") \/ (Fails("call") /\ Leave(t))
    /\ UNCHANGED <<replySeq, replies, sent, disturbed>>

\* Mutant: the second echo is taken.
AnsweredTwice(t, y) ==
    IF ~EchoesParent(y) \/ replyTask[t].tries = 1
    THEN Written(t, "read", y)
    ELSE replyTask' = [replyTask EXCEPT ![t].tries = 1]

\* An echo of the parent is asked for again once.
Answered(t, y) ==
    IF ~EchoesParent(y)
    THEN Written(t, "read", y)
    ELSE IF replyTask[t].tries = 0
         THEN replyTask' = [replyTask EXCEPT ![t].tries = 1]
         ELSE Leave(t)

\* The writer for LinkedIn: an empty answer is an error, length is not looked at.
WriteCommentReply(t) ==
    /\ ReplyAt(t, "create", "write") /\ replyTask[t].id.surface = "linkedin"
    /\ \/ \E x \in RawTexts : IF Empty(x) THEN Leave(t) ELSE Answered(t, EnsureOneEmoji(x))
       \/ Fails("call") /\ Leave(t)
    /\ UNCHANGED <<replySeq, replies, sent, disturbed>>

\* The writer for X: an answer over the limit is an error as well.
WriteTweetReply(t) ==
    /\ ReplyAt(t, "create", "write") /\ replyTask[t].id.surface = "x"
    /\ \/ \E x \in RawTexts :
             IF Empty(x) \/ OverLimit("x", EnsureOneEmoji(x)) THEN Leave(t)
             ELSE Answered(t, EnsureOneEmoji(x))
       \/ Fails("call") /\ Leave(t)
    /\ UNCHANGED <<replySeq, replies, sent, disturbed>>

\* The id is taken after the text is there, by a SELECT and an UPDATE.
ReadReplySeq(t) ==
    /\ ReplyAt(t, "create", "read")
    /\ \/ replySeq[replyTask[t].id.surface] < MaxReplies
          /\ replyTask' = [replyTask EXCEPT ![t] =
                 Command("create", "bump", ReplyId(@.id.surface, replySeq[@.id.surface] + 1), "none", @.text)]
       \/ Fails("sqlite") /\ Leave(t)
    /\ UNCHANGED <<replySeq, replies, sent, disturbed>>

BumpReplySeq(t) ==
    /\ ReplyAt(t, "create", "bump")
    /\ \/ replySeq' = [replySeq EXCEPT ![replyTask[t].id.surface] = replyTask[t].id.n]
          /\ ReplyGoto(t, "save")
       \/ Fails("sqlite") /\ Leave(t) /\ UNCHANGED replySeq
    /\ UNCHANGED <<replies, sent, disturbed>>

SaveOpenReply(t) ==
    LET i == replyTask[t].id IN
    /\ ReplyAt(t, "create", "save")
    /\ \/ /\ replies' = [replies EXCEPT ![i] = [status |-> "open", text |-> replyTask[t].text]]
          /\ disturbed' = disturbed \cup Crowded(t, i)
                 \cup (IF replies[i] # NoReply \/ sent[i] # <<>> THEN {i} ELSE {})
       \/ Fails("sqlite") /\ UNCHANGED <<replies, disturbed>>
    /\ Leave(t)
    /\ UNCHANGED <<replySeq, sent>>

-------------------------------------------------------------------------------
\* /rework <id>: only an open reply; the text of the instruction tells the mode.
ReworkReply(t, i, mode) ==
    /\ replyTask[t].pc = "idle"
    /\ replies[i] # NoReply /\ replies[i].status = "open"
    /\ replyTask' = [replyTask EXCEPT ![t] =
           Command("rework", "rewrite", i, mode, NoReplyText)]
    /\ disturbed' = disturbed \cup Crowded(t, i)
    /\ UNCHANGED <<replySeq, replies, sent>>

\* The operator pasted the text: banned phrases are cut out of it, then it is checked.
ReplaceReply(t) ==
    LET s == replyTask[t].id.surface IN
    /\ ReplyAt(t, "rework", "rewrite") /\ replyTask[t].mode = "replace"
    /\ \E x \in RawTexts :
          LET y == EnsureOneEmoji(ScrubBanned(EnsureOneEmoji(x))) IN
          IF Empty(y) \/ CopiesBan(y) \/ EchoesParent(y) \/ OverLimit(s, y)
          THEN Leave(t)
          ELSE Written(t, "upsert", y)
    /\ UNCHANGED <<replySeq, replies, sent, disturbed>>

\* The model rewrites it: one more try if it copied a banned phrase, and an
\* instruction must not leave a stub.  The router refuses an empty answer.
RewriteReply(t) ==
    LET s == replyTask[t].id.surface
        r == replyTask[t] IN
    /\ ReplyAt(t, "rework", "rewrite") /\ r.mode \in {"refresh", "instruction"}
    /\ \/ \E x \in RawTexts :
             LET y == EnsureOneEmoji(x) IN
             IF ~Empty(x) /\ CopiesBan(y) /\ r.tries = 0
             THEN replyTask' = [replyTask EXCEPT ![t].tries = 1]
             ELSE IF \/ Empty(x) \/ CopiesBan(y) \/ EchoesParent(y) \/ OverLimit(s, y)
                     \/ r.mode = "instruction" /\ y.size = "few"
                  THEN Leave(t)
                  ELSE Written(t, "upsert", y)
       \/ Fails("call") /\ Leave(t)
    /\ UNCHANGED <<replySeq, replies, sent, disturbed>>

\* The row is written whole, as an open one, whatever became of it meanwhile.
SaveReworkedReply(t) ==
    LET i == replyTask[t].id IN
    /\ ReplyAt(t, "rework", "upsert")
    /\ \/ replies' = [replies EXCEPT ![i] = [status |-> "open", text |-> replyTask[t].text]]
       \/ Fails("sqlite") /\ UNCHANGED replies
    /\ Leave(t)
    /\ UNCHANGED <<replySeq, sent, disturbed>>

-------------------------------------------------------------------------------
\* Mutant: a published reply is accepted again.
AcceptAnyReply(t, i) ==
    /\ replyTask[t].pc = "idle"
    /\ replies[i] # NoReply
    /\ ~OverLimit(i.surface, replies[i].text)
    /\ replyTask' = [replyTask EXCEPT ![t] =
           Command("accept", "ship", i, "none", replies[i].text)]
    /\ disturbed' = disturbed \cup Crowded(t, i)
    /\ UNCHANGED <<replySeq, replies, sent>>

\* /accept <id>: an open reply whose text is within the limit is on its way.
AcceptReply(t, i) ==
    /\ replyTask[t].pc = "idle"
    /\ replies[i] # NoReply /\ replies[i].status = "open"
    /\ ~OverLimit(i.surface, replies[i].text)
    /\ replyTask' = [replyTask EXCEPT ![t] =
           Command("accept", "ship", i, "none", replies[i].text)]
    /\ disturbed' = disturbed \cup Crowded(t, i)
    /\ UNCHANGED <<replySeq, replies, sent>>

\* Mutant: the row is marked whatever the surface answers.
ShipAndMark(t) ==
    /\ ReplyAt(t, "accept", "ship") /\ replyTask[t].id.surface = "x"
    /\ ReplyGoto(t, "mark")
    /\ UNCHANGED <<replySeq, replies, sent, disturbed>>

\* A call to a live surface: it arrives, it does not, or it does and the answer is an
\* error.  A surface in playground mode gets nothing, and the command goes on as if it
\* had.
Call(t) ==
    LET i == replyTask[t].id
        Reach == /\ Len(sent[i]) < MaxSends
                 /\ sent' = [sent EXCEPT ![i] = Append(@, replyTask[t].text)]
    IN
    \/ i.surface \in Live /\ Reach /\ ReplyGoto(t, "mark") /\ UNCHANGED disturbed
    \/ i.surface \notin Live /\ ReplyGoto(t, "mark") /\ UNCHANGED <<sent, disturbed>>
    \/ i.surface \in Live /\ Fails("call") /\ Leave(t) /\ UNCHANGED <<sent, disturbed>>
    \/ i.surface \in Live /\ Fails("lost") /\ Reach /\ Leave(t)
       /\ disturbed' = disturbed \cup {i}

\* A thread reply by ship_x_post; the limit is asked for once more before.
ShipXReply(t) ==
    /\ ReplyAt(t, "accept", "ship") /\ replyTask[t].id.surface = "x"
    /\ Call(t)
    /\ UNCHANGED <<replySeq, replies>>

\* reply_to_comment of the LinkedIn MCP.
ShipLinkedInReply(t) ==
    /\ ReplyAt(t, "accept", "ship") /\ replyTask[t].id.surface = "linkedin"
    /\ Call(t)
    /\ UNCHANGED <<replySeq, replies>>

\* An open row becomes published; whether it did is not looked at.
MarkReply(t) ==
    LET i == replyTask[t].id IN
    /\ ReplyAt(t, "accept", "mark")
    /\ \/ /\ replies' = IF replies[i] # NoReply /\ replies[i].status = "open"
                        THEN [replies EXCEPT ![i].status = "published"] ELSE replies
          /\ UNCHANGED disturbed
       \/ Fails("sqlite") /\ UNCHANGED replies /\ disturbed' = disturbed \cup {i}
    /\ Leave(t)
    /\ UNCHANGED <<replySeq, sent>>

\* /delete <id>: a reply has no pull request to close.
DeleteReply(i) ==
    /\ replies[i] # NoReply
    /\ replies' = [replies EXCEPT ![i] = NoReply]
    /\ disturbed' = disturbed \cup
           (IF \E t \in ReplyTasks : Started(t, i) THEN {i} ELSE {})
    /\ UNCHANGED <<replySeq, replyTask, sent>>

ReplyCrash ==
    /\ Fails("crash")
    /\ \E t \in ReplyTasks : replyTask[t].pc # "idle"
    /\ disturbed' = disturbed \cup {replyTask[t].id : t \in {u \in ReplyTasks : ReplyAt(u, "accept", "mark")}}
    /\ replyTask' = [t \in ReplyTasks |-> IdleReply]
    /\ UNCHANGED <<replySeq, replies, sent>>

-------------------------------------------------------------------------------
ReplyStep(t) ==
    \/ \E s \in ReplySurfaces : CreateReply(t, s)
    \/ ReadComment(t) \/ LookupStatus(t) \/ BraveStatus(t)
    \/ WriteCommentReply(t) \/ WriteTweetReply(t) \/ ReadReplySeq(t) \/ BumpReplySeq(t) \/ SaveOpenReply(t)
    \/ \E i \in ReplyIds, m \in {"replace", "refresh", "instruction"} : ReworkReply(t, i, m)
    \/ ReplaceReply(t) \/ RewriteReply(t) \/ SaveReworkedReply(t)
    \/ \E i \in ReplyIds : AcceptReply(t, i)
    \/ ShipXReply(t) \/ ShipLinkedInReply(t) \/ MarkReply(t)

ReplyNext ==
    \/ \E t \in ReplyTasks : ReplyStep(t)
    \/ \E i \in ReplyIds : DeleteReply(i)
    \/ ReplyCrash

ReplySpec == ReplyInit /\ [][ReplyNext]_replyVars

-------------------------------------------------------------------------------
(* Properties. *)

ReplyRow == [status : {"open", "published"}, text : Text]

\* save_open_reply and rework_reply_comment: whatever the model answers, no saved
\* reply paraphrases its parent, and no saved reply to a tweet is over the limit.
SavedReplyIsChecked ==
    \A i \in ReplyIds : replies[i] # NoReply =>
        ~EchoesParent(replies[i].text) /\ ~OverLimit(i.surface, replies[i].text)

ReplyPcs == [none |-> {"idle"},
             create |-> {"fetch", "browser", "write", "read", "bump", "save"},
             rework |-> {"rewrite", "upsert"}, accept |-> {"ship", "mark"}]
ReplyCommand == [op : DOMAIN ReplyPcs, pc : UNION {ReplyPcs[op] : op \in DOMAIN ReplyPcs},
                 id : [surface : {"linkedin", "x"}, n : 0..MaxReplies],
                 mode : {"none", "replace", "refresh", "instruction"},
                 text : Text \cup {NoReplyText}, tries : 0..1]

\* Where a command is, and the text it is about to save or to ship.
CommandInv(t) ==
    LET r == replyTask[t] IN
    /\ r.pc \in ReplyPcs[r.op]
    /\ r.op # "none" => r.id \in ReplyIds
    /\ r.op = "create" /\ r.pc \in {"bump", "save"} => r.id.n \in 1..MaxReplies
    /\ r.pc \in {"read", "bump", "save", "upsert"} =>
           r.text \in Text /\ ~EchoesParent(r.text) /\ ~OverLimit(r.id.surface, r.text)
    /\ r.op = "accept" => r.text \in Text

\* /rework or /accept of reply i.
WorksOn(t, i) == replyTask[t].op \in {"rework", "accept"} /\ replyTask[t].id = i

\* A reply nobody disturbed has at most one command, which has the text of the row and
\* has not shipped it unless it is about to mark it; and an open row whose text is out
\* has a command about to mark it.
LoneReplyInv(i) ==
    /\ \A t, u \in ReplyTasks : WorksOn(t, i) /\ WorksOn(u, i) => t = u
    /\ \A t \in ReplyTasks : WorksOn(t, i) =>
           /\ sent[i] # <<>> => replyTask[t].pc = "mark"
           /\ replyTask[t].op = "accept" => replies[i] = [status |-> "open", text |-> replyTask[t].text]
           /\ replyTask[t].pc = "mark" /\ i.surface \in Live => sent[i] = <<replyTask[t].text>>
    /\ Len(sent[i]) <= 1
    /\ replies[i] # NoReply /\ replies[i].status = "open" /\ sent[i] # <<>> =>
           \E t \in ReplyTasks : WorksOn(t, i) /\ replyTask[t].pc = "mark"
    /\ replies[i] # NoReply /\ replies[i].status = "published" /\ i.surface \in Live =>
           sent[i] = <<replies[i].text>>

\* Types, the texts that are saved, and the parts on which the other properties rest.
ReplyInv ==
    /\ replySeq \in [ReplySurfaces -> 0..MaxReplies]
    /\ replies \in [ReplyIds -> ReplyRow \cup {NoReply}]
    /\ replyTask \in [ReplyTasks -> ReplyCommand]
    /\ sent \in [ReplyIds -> Seq(Text)]
    /\ disturbed \subseteq ReplyIds
    /\ SavedReplyIsChecked
    /\ \A t \in ReplyTasks : CommandInv(t)
    /\ \A i \in ReplyIds \ disturbed : LoneReplyInv(i)

\* accept_reply_comment (sources/reply_comment.rs): a reply goes out at most once as
\* long as no two commands work on it at once and its ship is recorded.
ReplyShipsOnce == \A i \in ReplyIds \ disturbed : Len(sent[i]) <= 1

\* A published reply on a live surface is there with the text of its row.
PublishedReplyWentOut ==
    \A i \in ReplyIds \ disturbed :
        replies[i] # NoReply /\ replies[i].status = "published" /\ i.surface \in Live
            => sent[i] = <<replies[i].text>>

\* "replacement draft emptied after scrub" (sources/reply_comment.rs:434): a reply
\* without a word is refused.
ReplyHasWords == \A i \in ReplyIds : replies[i] # NoReply => replies[i].text.words # {}
===============================================================================
