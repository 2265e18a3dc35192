----------------------------- MODULE SlackRuntime -----------------------------
(***************************************************************************)
(* The Slack operator surface: one socket to Slack, on which messages and  *)
(* slash commands arrive; each is acknowledged, then handled by a task of  *)
(* its own that posts to the channel.  An envelope whose acknowledgement   *)
(* Slack did not get is delivered again.                                   *)
(*                                                                         *)
(* A message is its kind: what the parsers make of its text.               *)
(***************************************************************************)
EXTENDS Naturals, Sequences, SequencesExt

CONSTANTS SlackMessages,  \* messages operators write
          SlackScripts,   \* what their texts are, per behaviour
          SlackSends,     \* bound: deliveries of one message
          PostAttempts,   \* RATE_LIMIT_MAX_ATTEMPTS
          LinkFaults,     \* bound: times the socket is lost
          SlackFaults     \* subset of {"post", "ratelimit", "answer", "sqlite", "crash"}

\* joined: someone joins; bot: a post of a bot; away: another channel; paste: a pasted
\* draft; usage: a slash that does not parse; help: a text command; look: a slash that is
\* answered without an acknowledgement (/help, /status_itcy, /list, /show of a row); slash:
\* another command without a batch; propose: items of a digest; digest: /daily_digest; where: a question
\* about a draft; chat: any other text; inject: a command that comes over HTTP.
SlackKinds == {"joined", "bot", "away", "paste", "usage", "help", "look", "slash", "propose",
               "digest", "where", "chat", "inject"}
DraftStates == {"missing", "building", "open", "accepted", "published", "failed"}

ASSUME SlackAssumption ==
    /\ SlackScripts \subseteq [SlackMessages -> SlackKinds]
    /\ SlackSends \in Nat \ {0} /\ PostAttempts \in Nat \ {0} /\ LinkFaults \in Nat

VARIABLES slkKind,    \* the kind of each message
          slkLink,    \* "down" | "url" | "up": the socket
          slkDrops,   \* times it was lost
          slkWaits,   \* messages Slack has no acknowledgement of
          slkSent,    \* deliveries of each message so far
          slkTask,    \* the task of each delivery
          slkShown,   \* what each delivery made visible, in order
          slkTurns    \* the conversation memory of the channel

slkVars == <<slkKind, slkLink, slkDrops, slkWaits, slkSent, slkTask, slkShown, slkTurns>>

Deliveries == SlackMessages \X (1..SlackSends)
KindOf(d) == slkKind[d[1]]

NoTask == [pc |-> "none", posts |-> <<>>, tries |-> 0, built |-> {}, deaf |-> FALSE]

SlackInit ==
    /\ slkKind \in SlackScripts
    /\ slkLink = "down" /\ slkDrops = 0
    /\ slkWaits = {} /\ slkSent = [m \in SlackMessages |-> 0]
    /\ slkTask = [d \in Deliveries |-> NoTask]
    /\ slkShown = [d \in Deliveries |-> <<>>]
    /\ slkTurns = <<>>

-------------------------------------------------------------------------------
(* The socket: run_socket_mode_loop *)

WriteMessage(m) ==
    /\ slkSent[m] = 0 /\ m \notin slkWaits /\ slkKind[m] # "inject"
    /\ slkWaits' = slkWaits \cup {m}
    /\ UNCHANGED <<slkKind, slkLink, slkDrops, slkSent, slkTask, slkShown, slkTurns>>

LinkLost ==
    /\ slkDrops < LinkFaults
    /\ slkLink' = "down" /\ slkDrops' = slkDrops + 1

SlackRest == <<slkKind, slkWaits, slkSent, slkTask, slkShown, slkTurns>>

\* Mutant: an error on the way to the socket ends the loop.
ConnectOrEnd ==
    /\ slkLink \in {"down", "url"}
    /\ \/ slkLink' = (IF slkLink = "down" THEN "url" ELSE "up") /\ UNCHANGED slkDrops
       \/ slkDrops < LinkFaults /\ slkLink' = "ended" /\ slkDrops' = slkDrops + 1
    /\ UNCHANGED SlackRest

\* apps.connections.open, then the websocket; any error, and it starts again after 5 s.
Connect ==
    /\ slkLink \in {"down", "url"}
    /\ \/ slkLink' = (IF slkLink = "down" THEN "url" ELSE "up") /\ UNCHANGED slkDrops
       \/ LinkLost
    /\ UNCHANGED SlackRest

\* disconnect, Close, or an error of the websocket.
Disconnect == slkLink = "up" /\ LinkLost /\ UNCHANGED SlackRest

\* What handle_event does first with an event of this kind.
FreshTask(k) ==
    CASE k = "joined" -> [NoTask EXCEPT !.pc = "say", !.posts = <<"welcome">>]
      [] k = "usage" -> [NoTask EXCEPT !.pc = "say", !.posts = <<"usage">>]
      [] k \in {"slash", "propose", "digest"} -> [NoTask EXCEPT !.pc = "ack", !.posts = <<"ack">>]
      [] k \in {"help", "look", "where", "chat", "inject"} -> [NoTask EXCEPT !.pc = "work"]
      [] OTHER -> [NoTask EXCEPT !.pc = "done"]  \* bot, away and paste are not answered

\* An envelope is acknowledged before it is handled; when the acknowledgement cannot be
\* sent the loop reconnects and does not handle it.  An acknowledgement that was sent can
\* be lost on the way.
Receive(m) ==
    /\ slkLink = "up" /\ m \in slkWaits
    /\ \/ /\ slkSent[m] < SlackSends
          /\ slkSent' = [slkSent EXCEPT ![m] = @ + 1]
          /\ slkTask' = [slkTask EXCEPT ![<<m, slkSent[m] + 1>>] = FreshTask(slkKind[m])]
          /\ \/ slkWaits' = slkWaits \ {m} /\ UNCHANGED <<slkLink, slkDrops>>
             \/ LinkLost /\ slkSent[m] + 1 < SlackSends /\ UNCHANGED slkWaits
       \/ LinkLost /\ UNCHANGED <<slkWaits, slkSent, slkTask>>
    /\ UNCHANGED <<slkKind, slkShown, slkTurns>>

\* POST /e2e/message and /entrypoint/slash: the same command, its answer returned.
Inject(m) ==
    /\ slkKind[m] = "inject" /\ slkSent[m] = 0
    /\ slkSent' = [slkSent EXCEPT ![m] = 1]
    /\ slkTask' = [slkTask EXCEPT ![<<m, 1>>] = FreshTask("inject")]
    /\ UNCHANGED <<slkKind, slkLink, slkDrops, slkWaits, slkShown, slkTurns>>

-------------------------------------------------------------------------------
(* Posting: post_message_ex, post_thread *)

SetTask(d, r) == slkTask' = [slkTask EXCEPT ![d] = r]
Show(d, what) == slkShown' = [slkShown EXCEPT ![d] = Append(@, what)]

\* A turn that cannot be stored is only warned of.
Remember(d, role) == \/ slkTurns' = Append(slkTurns, <<role, d>>)
                     \/ "sqlite" \in SlackFaults /\ UNCHANGED slkTurns

\* The task after its posts: all of them are visible, or one was an error.
AfterPosts(d, r, ok) ==
    LET next == [r EXCEPT !.posts = <<>>, !.tries = 0] IN
    CASE r.pc = "ack" -> [next EXCEPT !.pc = "work"]
      [] r.pc = "thread" /\ ~ok -> [next EXCEPT !.pc = "fallback", !.posts = <<"summary">>]
      [] r.pc = "digest" /\ ~ok -> [next EXCEPT !.pc = "say", !.posts = <<"digest failed">>]
      [] r.pc = "reply" /\ ok /\ KindOf(d) \in {"chat", "where"} -> [next EXCEPT !.pc = "remember"]
      [] OTHER -> [next EXCEPT !.pc = "done", !.deaf = ~ok]

\* Mutant: an item that cannot be posted is skipped.
PostOrSkip(d) ==
    LET r == slkTask[d]
        rest == [r EXCEPT !.posts = Tail(@), !.tries = 0]
        gone == IF rest.posts = <<>> THEN AfterPosts(d, r, TRUE) ELSE rest IN
    /\ r.posts # <<>>
    /\ \/ Show(d, Head(r.posts)) /\ SetTask(d, gone)
       \/ "post" \in SlackFaults /\ SetTask(d, gone) /\ UNCHANGED slkShown
    /\ UNCHANGED <<slkKind, slkLink, slkDrops, slkWaits, slkSent, slkTurns>>

\* One call of chat.postMessage.  A rate limit is waited out, a limited number of times;
\* a post can be visible although its answer is an error.  The first error ends a thread.
PostNext(d) ==
    LET r == slkTask[d]
        rest == [r EXCEPT !.posts = Tail(@), !.tries = 0] IN
    /\ r.posts # <<>>
    /\ \/ /\ Show(d, Head(r.posts))
          /\ SetTask(d, IF rest.posts = <<>> THEN AfterPosts(d, r, TRUE) ELSE rest)
       \/ /\ "answer" \in SlackFaults
          /\ Show(d, Head(r.posts)) /\ SetTask(d, AfterPosts(d, r, FALSE))
       \/ /\ "ratelimit" \in SlackFaults /\ r.tries + 1 < PostAttempts
          /\ SetTask(d, [r EXCEPT !.tries = @ + 1]) /\ UNCHANGED slkShown
       \/ /\ \/ "post" \in SlackFaults
             \/ "ratelimit" \in SlackFaults /\ r.tries + 1 = PostAttempts
          /\ SetTask(d, AfterPosts(d, r, FALSE)) /\ UNCHANGED slkShown
    /\ UNCHANGED <<slkKind, slkLink, slkDrops, slkWaits, slkSent, slkTurns>>

-------------------------------------------------------------------------------
(* The work between the acknowledgement and the answer *)

\* The items of a batch with the grey bars between them.
ThreadOf(items) ==
    <<"header">> \o (IF items = {} THEN <<>>
                     ELSE IF items = {"item1"} THEN <<"item1">>
                     ELSE <<"item1", "bar", "item2">>)

\* An overview, then a thread for each lane that has items.
DigestOf(lanes) ==
    <<"overview">> \o (IF "press" \in lanes THEN <<"press", "item1">> ELSE <<>>)
                   \o (IF "twitter" \in lanes THEN <<"twitter", "item2">> ELSE <<>>)

\* operator_draft_status_reply: what the operator is told to do next.
StatusAnswer(s) == CASE s = "open" -> "rework, change_url or accept"
                     [] s = "accepted" -> "retry_bat"
                     [] s \in {"missing", "failed", "building"} -> "draft_about"
                     [] s = "published" -> "nothing"

\* A batch that fails is an error to post; a batch without items posts nothing, not
\* even its header.
WorkPropose(d) ==
    \/ SetTask(d, [slkTask[d] EXCEPT !.pc = "say", !.posts = <<"error">>])
    \/ \E items \in {{}, {"item1"}, {"item1", "item2"}} :
          SetTask(d, IF items = {} THEN [slkTask[d] EXCEPT !.pc = "done"]
                     ELSE [slkTask[d] EXCEPT !.pc = "thread", !.built = items,
                                             !.posts = ThreadOf(items)])

\* The digest goes to its own channel; without one, or when it cannot be built, the
\* answer is here.
WorkDigest(d) ==
    \/ SetTask(d, [slkTask[d] EXCEPT !.pc = "say", !.posts = <<"digest or error">>])
    \/ \E lanes \in SUBSET {"press", "twitter"} :
          SetTask(d, [slkTask[d] EXCEPT !.pc = "digest", !.posts = DigestOf(lanes)])

\* A text command is answered even with an empty reply; a slash with an empty reply
\* is not.  What comes over HTTP is a command or a text for the model.
Work(d) ==
    /\ slkTask[d].pc = "work"
    /\ LET r == slkTask[d]
           say(t) == SetTask(d, [r EXCEPT !.pc = "reply", !.posts = <<t>>])
       IN CASE KindOf(d) = "propose" -> WorkPropose(d) /\ UNCHANGED <<slkShown, slkTurns>>
            [] KindOf(d) = "digest" -> WorkDigest(d) /\ UNCHANGED <<slkShown, slkTurns>>
            [] KindOf(d) \in {"look", "slash"} -> /\ say("reply") \/ SetTask(d, [r EXCEPT !.pc = "done"])
                                                  /\ UNCHANGED <<slkShown, slkTurns>>
            [] KindOf(d) = "help" -> say("reply") /\ UNCHANGED <<slkShown, slkTurns>>
            [] KindOf(d) = "chat" -> say("reply") /\ Remember(d, "user") /\ UNCHANGED slkShown
            [] KindOf(d) = "where" -> /\ \E s \in DraftStates : say(StatusAnswer(s))
                                      /\ Remember(d, "user") /\ UNCHANGED slkShown
            [] OTHER -> /\ UNCHANGED slkShown
                        /\ \/ SetTask(d, [r EXCEPT !.pc = "return"]) /\ UNCHANGED slkTurns
                           \/ SetTask(d, [r EXCEPT !.pc = "remember"]) /\ Remember(d, "user")
    /\ UNCHANGED <<slkKind, slkLink, slkDrops, slkWaits, slkSent>>

\* Mutant: both turns are stored once the model has answered.
RememberEarly(d) ==
    /\ \/ slkTask[d].pc = "remember" /\ SetTask(d, [slkTask[d] EXCEPT !.pc = "done"])
                                    /\ UNCHANGED slkTurns
       \/ /\ slkTask[d].pc = "reply" /\ <<"assistant", d>> \notin ToSet(slkTurns)
          /\ slkTurns' = Append(slkTurns, <<"assistant", d>>) /\ UNCHANGED slkTask
    /\ UNCHANGED <<slkKind, slkLink, slkDrops, slkWaits, slkSent, slkShown>>

\* The turn of the assistant is stored after its post.
RememberReply(d) ==
    /\ slkTask[d].pc = "remember"
    /\ SetTask(d, [slkTask[d] EXCEPT !.pc = IF KindOf(d) = "inject" THEN "return" ELSE "done"])
    /\ Remember(d, "assistant")
    /\ UNCHANGED <<slkKind, slkLink, slkDrops, slkWaits, slkSent, slkShown>>

\* The answer of a command that came over HTTP.
ReturnReply(d) ==
    /\ slkTask[d].pc = "return"
    /\ SetTask(d, [slkTask[d] EXCEPT !.pc = "done"])
    /\ Show(d, "summary")
    /\ UNCHANGED <<slkKind, slkLink, slkDrops, slkWaits, slkSent, slkTurns>>

\* The program ends and is started again: its tasks are gone, their messages stay
\* acknowledged.
SlackCrash ==
    /\ "crash" \in SlackFaults /\ LinkLost
    /\ slkTask' = [d \in Deliveries |->
                      IF slkTask[d].pc \in {"none", "done"} THEN slkTask[d]
                      ELSE [slkTask[d] EXCEPT !.pc = "died", !.posts = <<>>]]
    /\ UNCHANGED <<slkKind, slkWaits, slkSent, slkShown, slkTurns>>

SlackTask(d) == PostNext(d) \/ Work(d) \/ RememberReply(d) \/ ReturnReply(d)

SlackNext ==
    \/ \E m \in SlackMessages : WriteMessage(m) \/ Receive(m) \/ Inject(m)
    \/ Connect \/ Disconnect \/ SlackCrash
    \/ \E d \in Deliveries : SlackTask(d)

\* Slack delivers what it has no acknowledgement of, the loop reconnects for ever, and a
\* task that was started is run.
SlackFairness ==
    /\ WF_slkVars(Connect)
    /\ \A m \in SlackMessages : WF_slkVars(Receive(m))
    /\ \A d \in Deliveries : WF_slkVars(SlackTask(d))

SlackSpec == SlackInit /\ [][SlackNext]_slkVars /\ SlackFairness

-------------------------------------------------------------------------------
ShownBy(d) == ToSet(slkShown[d])

\* handler.rs 274-287, api.rs 202-220: the drafts a batch built are in the store under new
\* ids, which only its posts tell the operator.  When the task is over, every one of
\* them is visible, in the thread or in the summary that replaces a broken thread, unless
\* the summary too was refused.
ProposedDraftsAreShown ==
    \A d \in Deliveries :
        slkTask[d].pc = "done" /\ KindOf(d) = "propose" /\ ~slkTask[d].deaf =>
            "summary" \in ShownBy(d) \/ slkTask[d].built \subseteq ShownBy(d)

\* memory.rs, handler.rs 391-403: the memory the model is given says of the assistant only
\* what stood in the channel (or is about to be returned over HTTP), once for each delivery.
MemoryWasSaid ==
    \A d \in Deliveries :
        LET said == {k \in DOMAIN slkTurns : slkTurns[k] = <<"assistant", d>>} IN
        /\ said # {} => slkShown[d] # <<>> \/ KindOf(d) = "inject"
        /\ \A j, k \in said : j = k

\* What the operator sees of a batch and the model of the channel (handler.rs, memory.rs).
SlackInv == ProposedDraftsAreShown /\ MemoryWasSaid

\* socket.rs 101-205: a message Slack holds is taken by a task in the end, through any
\* number of lost sockets and restarts.
MessagesAreTaken ==
    \A m \in SlackMessages : m \in slkWaits ~> m \notin slkWaits /\ slkSent[m] > 0
===============================================================================
