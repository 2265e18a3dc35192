---------------------------- MODULE OperatorProofs ----------------------------
(***************************************************************************)
(* What operators are told is what was done.                               *)
(*                                                                         *)
(* Slack: SlkInv ties, for every delivery, what its task still posts, what *)
(* is visible and what the memory of the channel has of it (TaskFine).     *)
(* The dialog: DlgInv says that every printed line fits the row and status *)
(* of the answer (LineFits), that the answer shows the options of the row, *)
(* and that a link is changed on an open row.  That a fitting line is read *)
(* as its own command (FittingLineWorks) needs the least number of a set   *)
(* of places and the join of several lines: both are shown by way of the   *)
(* least counterexample (LeastNatural).                                    *)
(***************************************************************************)
EXTENDS SlackRuntime, OperatorDialog, ListProofs

-------------------------------------------------------------------------------
(* Slack *)

\* Where a task posts, and where it has not told the memory of its answer yet.
Posting == {"say", "ack", "thread", "fallback", "digest", "reply"}
Unremembered == Posting \cup {"none", "work", "remember"}
Posts == {"welcome", "usage", "ack", "summary", "header", "item1", "item2", "bar", "overview",
          "press", "twitter", "error", "digest failed", "digest or error", "reply",
          "rework, change_url or accept", "retry_bat", "draft_about", "nothing"}
TaskRecs == [pc : Unremembered \cup {"return", "done", "died"}, posts : Seq(Posts), tries : Nat, built : SUBSET Posts, deaf : BOOLEAN]

Said(d) == {k \in DOMAIN slkTurns : slkTurns[k] = <<"assistant", d>>}

\* The kinds of messages a task works on.
WorkKinds == {"help", "look", "slash", "propose", "digest", "where", "chat", "inject"}

\* What is visible of a task, what it still posts and what the memory has of it go together.
TaskFine(r, kind, shown, said) ==
    /\ r \in TaskRecs
    /\ shown \in Seq(Posts)
    /\ r.posts # <<>> => r.pc \in Posting
    /\ r.pc \in {"ack", "work"} => kind \in WorkKinds
    /\ r.pc = "remember" => shown # <<>> \/ kind = "inject"
    /\ r.pc = "thread" => r.built \subseteq ToSet(shown) \cup ToSet(r.posts)
    /\ r.pc = "fallback" => "summary" \in ToSet(r.posts) /\ Tail(r.posts) = <<>>
    /\ r.pc = "done" /\ kind = "propose" /\ ~r.deaf =>
           "summary" \in ToSet(shown) \/ r.built \subseteq ToSet(shown)
    /\ r.pc \notin {"thread", "fallback", "done", "died"} => r.built = {}
    /\ r.pc \in Unremembered => said = {}
    /\ said # {} => shown # <<>> \/ kind = "inject"
    /\ \A j, k \in said : j = k

SlkInv ==
    /\ slkSent \in [SlackMessages -> Nat]
    /\ slkTask \in [Deliveries -> TaskRecs]
    /\ slkShown \in [Deliveries -> Seq(Posts)]
    /\ slkTurns \in Seq({"user", "assistant"} \X Deliveries)
    /\ \A d \in Deliveries : TaskFine(slkTask[d], KindOf(d), slkShown[d], Said(d))
    /\ \A d \in Deliveries : d[2] > slkSent[d[1]] => slkTask[d].pc = "none"

-------------------------------------------------------------------------------
LEMMA Nothing == ASSUME NEW S PROVE <<>> \in Seq(S) /\ Len(<<>>) = 0 /\ ToSet(<<>>) = {}
  BY DEF ToSet

LEMMA OnePost == ASSUME NEW S, NEW a \in S
                 PROVE  <<a>> \in Seq(S) /\ <<a>> # <<>> /\ ToSet(<<a>>) = {a} /\ Tail(<<a>>) = <<>>
<1>1. <<a>> \in Seq(S) /\ Len(<<a>>) = 1 /\ <<a>>[1] = a
  OBVIOUS
<1>2. ToSet(<<a>>) = {a}
  BY <1>1 DEF ToSet
<1>3. Tail(<<a>>) = <<>>
  OBVIOUS
<1> QED
  BY <1>1, <1>2, <1>3

LEMMA Appended ==
    ASSUME NEW S, NEW s \in Seq(S), NEW a \in S
    PROVE  /\ Append(s, a) \in Seq(S) /\ Append(s, a) # <<>>
           /\ ToSet(Append(s, a)) = ToSet(s) \cup {a}
<1>1. /\ Append(s, a) \in Seq(S) /\ Len(Append(s, a)) = Len(s) + 1
      /\ DOMAIN Append(s, a) = 1..(Len(s) + 1) /\ DOMAIN s = 1..Len(s) /\ Len(s) \in Nat
      /\ Append(s, a)[Len(s) + 1] = a /\ \A k \in 1..Len(s) : Append(s, a)[k] = s[k]
  OBVIOUS
<1> PICK t : t = Append(s, a) OBVIOUS
<1>2. ToSet(t) = ToSet(s) \cup {a}
  BY <1>1 DEF ToSet
<1> QED
  BY <1>1, <1>2

LEMMA HeadAndTail ==
    ASSUME NEW S, NEW s \in Seq(S), s # <<>>
    PROVE  /\ Head(s) \in S /\ Tail(s) \in Seq(S)
           /\ ToSet(s) = {Head(s)} \cup ToSet(Tail(s))
<1>1. /\ Len(s) \in Nat /\ Len(s) >= 1 /\ DOMAIN s = 1..Len(s) /\ Head(s) = s[1] /\ Head(s) \in S
      /\ Tail(s) \in Seq(S) /\ DOMAIN Tail(s) = 1..(Len(s) - 1)
      /\ \A k \in 1..(Len(s) - 1) : Tail(s)[k] = s[k + 1]
  OBVIOUS
<1> PICK t : t = Tail(s) OBVIOUS
<1>2. ToSet(s) \subseteq {Head(s)} \cup ToSet(t)
  <2> SUFFICES ASSUME NEW k \in DOMAIN s PROVE s[k] \in {Head(s)} \cup ToSet(t)
    BY DEF ToSet
  <2>1. CASE k = 1
    BY <2>1, <1>1
  <2>2. CASE k # 1
    <3>1. k - 1 \in DOMAIN t /\ t[k - 1] = s[k]
      BY <2>2, <1>1
    <3> QED
      BY <3>1 DEF ToSet
  <2> QED
    BY <2>1, <2>2
<1>3. {Head(s)} \cup ToSet(t) \subseteq ToSet(s)
  <2>1. 1 \in DOMAIN s
    BY <1>1
  <2>2. \A k \in DOMAIN t : k + 1 \in DOMAIN s /\ t[k] = s[k + 1]
    BY <1>1
  <2> QED
    BY <1>1, <2>1, <2>2 DEF ToSet
<1> QED
  BY <1>1, <1>2, <1>3

LEMMA IdleTask ==
    NoTask \in TaskRecs /\ NoTask.pc = "none" /\ NoTask.posts = <<>> /\ NoTask.built = {} /\ NoTask.deaf = FALSE
<1>1. <<>> \in Seq(Posts)
  BY Nothing
<1>2. NoTask \in TaskRecs
  <2> PICK e : e = <<>>
    OBVIOUS
  <2>1. NoTask = [pc |-> "none", posts |-> e, tries |-> 0, built |-> {}, deaf |-> FALSE]
    BY DEF NoTask
  <2>2. e \in Seq(Posts) /\ {} \in SUBSET Posts /\ 0 \in Nat
    BY <1>1
  <2> QED
    BY <2>1, <2>2 DEF TaskRecs, Unremembered, Posting
<1>3. NoTask.pc = "none" /\ NoTask.posts = <<>>
  BY DEF NoTask
<1>4. NoTask.built = {} /\ NoTask.deaf = FALSE
  BY DEF NoTask
<1> QED
  BY <1>2, <1>3, <1>4

\* A task that has built nothing and told the memory nothing.
LEMMA PlainFine ==
    ASSUME NEW r \in TaskRecs, NEW kind, NEW shown \in Seq(Posts),
           r.built = {}, r.pc \notin {"thread", "fallback"}, r.posts # <<>> => r.pc \in Posting,
           r.pc \in {"ack", "work"} => kind \in WorkKinds,
           r.pc = "remember" => shown # <<>> \/ kind = "inject"
    PROVE  TaskFine(r, kind, shown, {})
  BY DEF TaskFine

LEMMA SlkInitInv == SlackInit => SlkInv
<1> SUFFICES ASSUME SlackInit
             PROVE  SlkInv
  OBVIOUS
<1>1. slkSent \in [SlackMessages -> Nat]
  BY DEF SlackInit
<1>2. slkTask \in [Deliveries -> TaskRecs]
  BY IdleTask DEF SlackInit
<1>3. slkShown \in [Deliveries -> Seq(Posts)]
  <2>1. <<>> \in Seq(Posts)
    BY Nothing
  <2> QED
    BY <2>1 DEF SlackInit
<1>4. slkTurns \in Seq({"user", "assistant"} \X Deliveries)
  <2> PICK S : S = {"user", "assistant"} \X Deliveries
    OBVIOUS
  <2>1. <<>> \in Seq(S)
    BY Nothing
  <2> QED
    BY <2>1 DEF SlackInit
<1>5. ASSUME NEW d \in Deliveries
      PROVE  TaskFine(slkTask[d], KindOf(d), slkShown[d], Said(d))
  <2>1. slkTask[d] = NoTask /\ slkTurns = <<>>
    BY DEF SlackInit
  <2>2. Said(d) = {}
    BY <2>1 DEF Said
  <2>3. slkShown[d] \in Seq(Posts)
    BY <1>3
  <2>4. TaskFine(NoTask, KindOf(d), slkShown[d], {})
    BY <2>3, IdleTask, PlainFine
  <2> QED
    BY <2>1, <2>2, <2>4
<1>6. \A d \in Deliveries : slkTask[d].pc = "none"
  BY IdleTask DEF SlackInit
<1> QED
  BY <1>1, <1>2, <1>3, <1>4, <1>5, <1>6 DEF SlkInv

\* A new turn is a turn of its delivery alone.
LEMMA TurnAdded ==
    ASSUME slkTurns \in Seq({"user", "assistant"} \X Deliveries), NEW d \in Deliveries,
           NEW role \in {"user", "assistant"}, slkTurns' = Append(slkTurns, <<role, d>>)
    PROVE  /\ slkTurns' \in Seq({"user", "assistant"} \X Deliveries)
           /\ \A e \in Deliveries : e # d \/ role = "user" => Said(e)' = Said(e)
           /\ role = "assistant" /\ Said(d) = {} => Said(d)' = {Len(slkTurns) + 1}
<1> PICK S : S = {"user", "assistant"} \X Deliveries
  OBVIOUS
<1> PICK a : a = <<role, d>>
  OBVIOUS
<1>1. slkTurns \in Seq(S) /\ a \in S
  OBVIOUS
<1>2. slkTurns' \in Seq(S)
  BY <1>1
<1>3. /\ Len(slkTurns) \in Nat /\ DOMAIN slkTurns = 1..Len(slkTurns)
      /\ DOMAIN slkTurns' = 1..(Len(slkTurns) + 1)
      /\ slkTurns'[Len(slkTurns) + 1] = a
      /\ \A k \in 1..Len(slkTurns) : slkTurns'[k] = slkTurns[k]
  BY <1>1
<1>4. ASSUME NEW e \in Deliveries, <<"assistant", e>> # a
      PROVE  Said(e)' = Said(e)
  <2> PICK b : b = <<"assistant", e>>
    OBVIOUS
  <2>1. {k \in DOMAIN slkTurns' : slkTurns'[k] = b} = {k \in DOMAIN slkTurns : slkTurns[k] = b}
    BY <1>3, <1>4
  <2> QED
    BY <2>1 DEF Said
<1>5. ASSUME role = "assistant", Said(d) = {}
      PROVE  Said(d)' = {Len(slkTurns) + 1}
  <2>1. a = <<"assistant", d>>
    BY <1>5
  <2>4. {k \in DOMAIN slkTurns : slkTurns[k] = a} = {}
    BY <1>5, <2>1 DEF Said
  <2>2. \A k \in 1..Len(slkTurns) : slkTurns[k] # a
    BY <1>3, <2>4
  <2>3. {k \in DOMAIN slkTurns' : slkTurns'[k] = a} = {Len(slkTurns) + 1}
    <3>1. ASSUME NEW k \in DOMAIN slkTurns', slkTurns'[k] = a
          PROVE  k = Len(slkTurns) + 1
      BY <1>3, <2>2, <3>1
    <3>2. Len(slkTurns) + 1 \in DOMAIN slkTurns'
      BY <1>3
    <3> QED
      BY <1>3, <3>1, <3>2
  <2> QED
    BY <2>1, <2>3 DEF Said
<1>6. \A e \in Deliveries : e # d \/ role = "user" => <<"assistant", e>> # a
  OBVIOUS
<1> QED
  BY <1>2, <1>4, <1>5, <1>6

TaskPcs == Unremembered \cup {"return", "done", "died"}

\* A task that moves on, one with new posts, and one that is over.
Moved(r, pc) == [r EXCEPT !.pc = pc]
MovedPosting(r, pc, posts) == [r EXCEPT !.pc = pc, !.posts = posts]
Reposted(r, posts) == [r EXCEPT !.posts = posts, !.tries = 0]
Ended(r, deaf) == [r EXCEPT !.pc = "done", !.deaf = deaf]

LEMMA MovedTask ==
    ASSUME NEW r \in TaskRecs, NEW pc \in TaskPcs, NEW e, e = Moved(r, pc)
    PROVE  /\ e \in TaskRecs /\ e.pc = pc /\ e.posts = r.posts
           /\ e.built = r.built /\ e.deaf = r.deaf
<1>1. e \in TaskRecs
  BY DEF TaskRecs, Moved, TaskPcs
<1>2. e.pc = pc /\ e.posts = r.posts
  BY DEF TaskRecs, Moved
<1>3. e.built = r.built /\ e.deaf = r.deaf
  BY DEF TaskRecs, Moved
<1> QED
  BY <1>1, <1>2, <1>3

LEMMA MovedTaskPosting ==
    ASSUME NEW r \in TaskRecs, NEW pc \in TaskPcs, NEW posts \in Seq(Posts), NEW e,
           e = MovedPosting(r, pc, posts)
    PROVE  /\ e \in TaskRecs /\ e.pc = pc /\ e.posts = posts
           /\ e.built = r.built /\ e.deaf = r.deaf
<1>1. e \in TaskRecs
  BY DEF TaskRecs, MovedPosting, TaskPcs
<1>2. e.pc = pc /\ e.posts = posts
  BY DEF TaskRecs, MovedPosting
<1>3. e.built = r.built /\ e.deaf = r.deaf
  BY DEF TaskRecs, MovedPosting
<1> QED
  BY <1>1, <1>2, <1>3

LEMMA PostedTask ==
    ASSUME NEW r \in TaskRecs, NEW posts \in Seq(Posts), NEW e,
           e = Reposted(r, posts)
    PROVE  /\ e \in TaskRecs /\ e.pc = r.pc /\ e.posts = posts
           /\ e.built = r.built /\ e.deaf = r.deaf
<1>1. e \in TaskRecs
  BY DEF TaskRecs, Reposted
<1>2. e.pc = r.pc /\ e.posts = posts
  BY DEF TaskRecs, Reposted
<1>3. e.built = r.built /\ e.deaf = r.deaf
  BY DEF TaskRecs, Reposted
<1> QED
  BY <1>1, <1>2, <1>3

LEMMA DoneTask ==
    ASSUME NEW r \in TaskRecs, NEW deaf \in BOOLEAN, NEW e,
           e = Ended(r, deaf)
    PROVE  /\ e \in TaskRecs /\ e.pc = "done" /\ e.posts = r.posts
           /\ e.built = r.built /\ e.deaf = deaf
<1>1. e \in TaskRecs
  BY DEF TaskRecs, Ended
<1>2. e.pc = "done" /\ e.posts = r.posts
  BY DEF TaskRecs, Ended
<1>3. e.built = r.built /\ e.deaf = deaf
  BY DEF TaskRecs, Ended
<1> QED
  BY <1>1, <1>2, <1>3

\* The posts of a task are over: all of them are visible, or one was an error.
LEMMA AfterPostsFine ==
    ASSUME NEW d, NEW r, NEW shown, NEW said, TaskFine(r, KindOf(d), shown, said), r.posts # <<>>,
           NEW shown2 \in Seq(Posts), ToSet(r.posts) \cup ToSet(shown) \subseteq ToSet(shown2),
           shown2 # <<>>
    PROVE  TaskFine(AfterPosts(d, r, TRUE), KindOf(d), shown2, said)
<1>1. r \in TaskRecs /\ r.pc \in Posting /\ said = {}
  BY DEF TaskFine, Unremembered
<1>2. PICK none \in Seq(Posts) : none = <<>>
  BY Nothing
<1>3. PICK n : n = Reposted(r, none)
  OBVIOUS
<1>4. n \in TaskRecs /\ n.pc = r.pc /\ n.posts = none /\ n.built = r.built /\ n.deaf = r.deaf
  BY <1>1, <1>3, PostedTask
<1>5. CASE r.pc = "ack"
  <2>1. PICK e : e = Moved(n, "work")
    OBVIOUS
  <2>2. "work" \in TaskPcs
    BY DEF TaskPcs, Unremembered
  <2>3. /\ e \in TaskRecs /\ e.pc = "work" /\ e.posts = n.posts
        /\ e.built = n.built /\ e.deaf = n.deaf
    BY <1>4, <2>1, <2>2, MovedTask
  <2>4. r.built = {} /\ KindOf(d) \in WorkKinds
    BY <1>5 DEF TaskFine
  <2>5. TaskFine(e, KindOf(d), shown2, {})
    BY <1>2, <1>4, <2>3, <2>4, PlainFine
  <2> QED
    BY <1>1, <1>2, <1>3, <1>5, <2>1, <2>5 DEF AfterPosts, Reposted, Moved, MovedPosting, Ended
<1>6. CASE r.pc = "reply" /\ KindOf(d) \in {"chat", "where"}
  <2>1. PICK e : e = Moved(n, "remember")
    OBVIOUS
  <2>2. "remember" \in TaskPcs
    BY DEF TaskPcs, Unremembered
  <2>3. /\ e \in TaskRecs /\ e.pc = "remember" /\ e.posts = n.posts
        /\ e.built = n.built /\ e.deaf = n.deaf
    BY <1>4, <2>1, <2>2, MovedTask
  <2>4. r.built = {}
    BY <1>6 DEF TaskFine
  <2>5. TaskFine(e, KindOf(d), shown2, {})
    BY <1>2, <1>4, <2>3, <2>4, PlainFine
  <2> QED
    BY <1>1, <1>2, <1>3, <1>6, <2>1, <2>5 DEF AfterPosts, Reposted, Moved, MovedPosting, Ended
<1>7. CASE r.pc # "ack" /\ ~(r.pc = "reply" /\ KindOf(d) \in {"chat", "where"})
  <2>1. PICK e : e = Ended(n, FALSE)
    OBVIOUS
  <2>2. /\ e \in TaskRecs /\ e.pc = "done" /\ e.posts = n.posts
        /\ e.built = n.built /\ e.deaf = FALSE
    BY <1>4, <2>1, DoneTask
  <2>3. "summary" \in ToSet(shown2) \/ r.built \subseteq ToSet(shown2)
    BY <1>1 DEF TaskFine, Posting
  <2>4. TaskFine(e, KindOf(d), shown2, {})
    BY <1>2, <1>4, <2>2, <2>3 DEF TaskFine, Unremembered, Posting
  <2> QED
    BY <1>1, <1>2, <1>3, <1>7, <2>1, <2>4 DEF AfterPosts, Reposted, Moved, MovedPosting, Ended
<1> QED
  BY <1>5, <1>6, <1>7

LEMMA AfterErrorFine ==
    ASSUME NEW d, NEW r, NEW shown, NEW said, TaskFine(r, KindOf(d), shown, said), r.posts # <<>>,
           NEW shown2 \in Seq(Posts)
    PROVE  TaskFine(AfterPosts(d, r, FALSE), KindOf(d), shown2, said)
<1>1. r \in TaskRecs /\ r.pc \in Posting /\ said = {}
  BY DEF TaskFine, Unremembered
<1>2. PICK none \in Seq(Posts) : none = <<>>
  BY Nothing
<1>3. PICK n : n = Reposted(r, none)
  OBVIOUS
<1>4. n \in TaskRecs /\ n.pc = r.pc /\ n.posts = none /\ n.built = r.built /\ n.deaf = r.deaf
  BY <1>1, <1>3, PostedTask
<1>5. CASE r.pc = "ack"
  <2>1. PICK e : e = Moved(n, "work")
    OBVIOUS
  <2>2. "work" \in TaskPcs
    BY DEF TaskPcs, Unremembered
  <2>3. /\ e \in TaskRecs /\ e.pc = "work" /\ e.posts = n.posts
        /\ e.built = n.built /\ e.deaf = n.deaf
    BY <1>4, <2>1, <2>2, MovedTask
  <2>4. r.built = {} /\ KindOf(d) \in WorkKinds
    BY <1>5 DEF TaskFine
  <2>5. TaskFine(e, KindOf(d), shown2, {})
    BY <1>2, <1>4, <2>3, <2>4, PlainFine
  <2> QED
    BY <1>1, <1>2, <1>3, <1>5, <2>1, <2>5 DEF AfterPosts, Reposted, Moved, MovedPosting, Ended
<1>6. CASE r.pc = "thread"
  <2>1. PICK one : one = <<"summary">>
    OBVIOUS
  <2>2. PICK word \in Posts : word = "summary"
    BY DEF Posts
  <2>3. one \in Seq(Posts) /\ one # <<>> /\ ToSet(one) = {word} /\ Tail(one) = <<>>
    <3>1. one = <<word>>
      BY <2>1, <2>2
    <3> QED
      BY <2>2, <3>1, OnePost
  <2>4. PICK e : e = MovedPosting(n, "fallback", one)
    OBVIOUS
  <2>5. "fallback" \in TaskPcs
    BY DEF TaskPcs, Unremembered, Posting
  <2>6. /\ e \in TaskRecs /\ e.pc = "fallback" /\ e.posts = one
        /\ e.built = n.built /\ e.deaf = n.deaf
    BY <1>4, <2>3, <2>4, <2>5, MovedTaskPosting
  <2>7. TaskFine(e, KindOf(d), shown2, {})
    BY <2>2, <2>3, <2>6 DEF TaskFine, Posting
  <2> QED
    BY <1>1, <1>2, <1>3, <1>6, <2>1, <2>4, <2>7 DEF AfterPosts, Reposted, Moved, MovedPosting, Ended
<1>7. CASE r.pc = "digest"
  <2>1. PICK one : one = <<"digest failed">>
    OBVIOUS
  <2>2. PICK word \in Posts : word = "digest failed"
    BY DEF Posts
  <2>3. one \in Seq(Posts)
    <3>1. one = <<word>>
      BY <2>1, <2>2
    <3> QED
      BY <2>2, <3>1, OnePost
  <2>4. PICK e : e = MovedPosting(n, "say", one)
    OBVIOUS
  <2>5. "say" \in TaskPcs
    BY DEF TaskPcs, Unremembered, Posting
  <2>6. /\ e \in TaskRecs /\ e.pc = "say" /\ e.posts = one
        /\ e.built = n.built /\ e.deaf = n.deaf
    BY <1>4, <2>3, <2>4, <2>5, MovedTaskPosting
  <2>7. r.built = {}
    BY <1>7 DEF TaskFine
  <2>8. TaskFine(e, KindOf(d), shown2, {})
    BY <1>4, <2>6, <2>7, PlainFine DEF Posting
  <2> QED
    BY <1>1, <1>2, <1>3, <1>7, <2>1, <2>4, <2>8 DEF AfterPosts, Reposted, Moved, MovedPosting, Ended
<1>8. CASE r.pc \notin {"ack", "thread", "digest"}
  <2>1. PICK e : e = Ended(n, TRUE)
    OBVIOUS
  <2>2. /\ e \in TaskRecs /\ e.pc = "done" /\ e.posts = n.posts
        /\ e.built = n.built /\ e.deaf = TRUE
    BY ZenonT(40), <1>4, <2>1, DoneTask
  <2>3. TaskFine(e, KindOf(d), shown2, {})
    BY <1>2, <1>4, <2>2 DEF TaskFine, Unremembered, Posting
  <2> QED
    BY <1>1, <1>2, <1>3, <1>8, <2>1, <2>3 DEF AfterPosts, Reposted, Moved, MovedPosting, Ended
<1> QED
  BY <1>5, <1>6, <1>7, <1>8

\* What a step of the task of delivery d does to the whole, once its own record is known to be
\* fine: no other delivery is touched.
LEMMA TaskStep ==
    ASSUME SlkInv, NEW d \in Deliveries, NEW e, NEW shown,
           slkKind' = slkKind, slkSent' \in [SlackMessages -> Nat],
           \A c \in Deliveries : c # d /\ c[2] > slkSent'[c[1]] => c[2] > slkSent[c[1]],
           ~(d[2] > slkSent'[d[1]]),
           slkTask' = [slkTask EXCEPT ![d] = e], slkShown' = [slkShown EXCEPT ![d] = shown],
           slkTurns' \in Seq({"user", "assistant"} \X Deliveries),
           \A c \in Deliveries \ {d} : Said(c)' = Said(c),
           TaskFine(e, KindOf(d), shown, Said(d)')
    PROVE  SlkInv'
<1>1. /\ slkTask \in [Deliveries -> TaskRecs] /\ slkShown \in [Deliveries -> Seq(Posts)]
      /\ \A c \in Deliveries : TaskFine(slkTask[c], KindOf(c), slkShown[c], Said(c))
      /\ \A c \in Deliveries : c[2] > slkSent[c[1]] => slkTask[c].pc = "none"
  BY DEF SlkInv
<1>2. e \in TaskRecs /\ shown \in Seq(Posts)
  BY DEF TaskFine
<1>3. slkTask' \in [Deliveries -> TaskRecs] /\ slkShown' \in [Deliveries -> Seq(Posts)]
  BY <1>1, <1>2
<1>4. \A c \in Deliveries : KindOf(c)' = KindOf(c)
  BY DEF KindOf
<1>5. slkTask'[d] = e /\ slkShown'[d] = shown
  BY <1>1
<1>6. \A c \in Deliveries \ {d} : slkTask'[c] = slkTask[c] /\ slkShown'[c] = slkShown[c]
  BY <1>1
<1>7. ASSUME NEW c \in Deliveries
      PROVE  TaskFine(slkTask'[c], KindOf(c)', slkShown'[c], Said(c)')
  <2>1. CASE c = d
    BY <2>1, <1>4, <1>5
  <2>2. CASE c # d
    BY <2>2, <1>1, <1>4, <1>6
  <2> QED
    BY <2>1, <2>2
<1>8. ASSUME NEW c \in Deliveries, c[2] > slkSent'[c[1]]
      PROVE  slkTask'[c].pc = "none"
  BY <1>8, <1>1, <1>6
<1> QED
  BY <1>3, <1>7, <1>8 DEF SlkInv

\* A task that was started takes a step, without a turn for the memory.
LEMMA RunStep ==
    ASSUME SlkInv, NEW d \in Deliveries, NEW e, NEW shown, slkTask[d].pc # "none",
           UNCHANGED <<slkKind, slkSent, slkTurns>>,
           slkTask' = [slkTask EXCEPT ![d] = e], slkShown' = [slkShown EXCEPT ![d] = shown],
           TaskFine(e, KindOf(d), shown, Said(d))
    PROVE  SlkInv'
<1>1. \A c \in Deliveries : Said(c)' = Said(c)
  BY DEF Said
<1>2. slkSent' \in [SlackMessages -> Nat] /\ slkTurns' \in Seq({"user", "assistant"} \X Deliveries)
  BY DEF SlkInv
<1>3. ~(d[2] > slkSent'[d[1]])
  BY DEF SlkInv
<1> QED
  BY <1>1, <1>2, <1>3, TaskStep

\* It shows nothing.
LEMMA SilentStep ==
    ASSUME SlkInv, NEW d \in Deliveries, NEW e, slkTask[d].pc # "none",
           UNCHANGED <<slkKind, slkSent, slkTurns, slkShown>>, SetTask(d, e),
           TaskFine(e, KindOf(d), slkShown[d], Said(d))
    PROVE  SlkInv'
<1>1. slkShown' = [slkShown EXCEPT ![d] = slkShown[d]]
  BY DEF SlkInv
<1>2. slkTask' = [slkTask EXCEPT ![d] = e]
  BY DEF SetTask
<1> QED
  BY <1>1, <1>2, RunStep

LEMMA TaskIsFine ==
    ASSUME SlkInv, NEW d \in Deliveries
    PROVE  /\ TaskFine(slkTask[d], KindOf(d), slkShown[d], Said(d))
           /\ slkTask[d] \in TaskRecs /\ slkShown[d] \in Seq(Posts)
           /\ slkTask[d].posts \in Seq(Posts)
  BY DEF SlkInv, TaskRecs

LEMMA PostNextInv == ASSUME SlkInv, NEW d \in Deliveries, PostNext(d) PROVE SlkInv'
<1>1. PICK r : r = slkTask[d]
  OBVIOUS
<1>2. /\ TaskFine(r, KindOf(d), slkShown[d], Said(d)) /\ r \in TaskRecs
      /\ slkShown[d] \in Seq(Posts) /\ r.posts \in Seq(Posts) /\ r.posts # <<>>
  BY <1>1, TaskIsFine DEF PostNext
<1>3. r.pc \in Posting /\ slkTask[d].pc # "none" /\ Said(d) = {}
  BY <1>1, <1>2 DEF TaskFine, Posting, Unremembered
<1>4. PICK h, t, shown : h = Head(r.posts) /\ t = Tail(r.posts) /\ shown = Append(slkShown[d], h)
  OBVIOUS
<1>5. /\ h \in Posts /\ t \in Seq(Posts) /\ ToSet(r.posts) = {h} \cup ToSet(t)
      /\ shown \in Seq(Posts) /\ shown # <<>> /\ ToSet(shown) = ToSet(slkShown[d]) \cup {h}
  BY <1>2, <1>4, HeadAndTail, Appended
<1>6. PICK rest : rest = Reposted(r, t)
  OBVIOUS
<1>7. rest \in TaskRecs /\ rest.pc = r.pc /\ rest.posts = t /\ rest.built = r.built /\ rest.deaf = r.deaf
  <2>1. r \in TaskRecs /\ t \in Seq(Posts)
    BY <1>2, <1>5
  <2> QED
    BY <2>1, <1>6, PostedTask
<1>8. UNCHANGED <<slkKind, slkSent, slkTurns>>
  BY DEF PostNext
<1>9. CASE Show(d, h) /\ SetTask(d, IF rest.posts = <<>> THEN AfterPosts(d, r, TRUE) ELSE rest)
  <2>1. PICK e : e = IF rest.posts = <<>> THEN AfterPosts(d, r, TRUE) ELSE rest
    OBVIOUS
  <2>2. TaskFine(e, KindOf(d), shown, Said(d))
    <3>1. CASE t = <<>>
      <4>1. ToSet(t) = {}
        BY <3>1, Nothing
      <4>2. ToSet(r.posts) \cup ToSet(slkShown[d]) \subseteq ToSet(shown)
        BY <1>5, <4>1
      <4> QED
        BY <1>2, <1>5, <1>7, <2>1, <3>1, <4>2, AfterPostsFine
    <3>2. CASE t # <<>>
      <4>1. r.pc # "fallback"
        BY <1>2, <1>4, <3>2 DEF TaskFine
      <4>2. rest.pc = "thread" => rest.built \subseteq ToSet(shown) \cup ToSet(rest.posts)
        BY <1>2, <1>5, <1>7 DEF TaskFine
      <4>3. rest.pc # "thread" => rest.built = {}
        BY <1>2, <1>3, <1>7, <4>1 DEF TaskFine, Posting
      <4>5. rest.pc = "ack" => KindOf(d) \in WorkKinds
        BY <1>2, <1>7 DEF TaskFine
      <4>4. TaskFine(rest, KindOf(d), shown, {})
        BY <1>3, <1>5, <1>7, <4>1, <4>2, <4>3, <4>5 DEF TaskFine, Posting
      <4> QED
        BY <1>3, <1>7, <2>1, <3>2, <4>4
    <3> QED
      BY <3>1, <3>2
  <2>3. slkShown' = [slkShown EXCEPT ![d] = shown]
    BY <1>4, <1>9 DEF Show, SlkInv
  <2> QED
    BY <1>3, <1>8, <1>9, <2>1, <2>2, <2>3, RunStep DEF SetTask
<1>10. CASE Show(d, h) /\ SetTask(d, AfterPosts(d, r, FALSE))
  <2>1. TaskFine(AfterPosts(d, r, FALSE), KindOf(d), shown, Said(d))
    BY <1>2, <1>5, AfterErrorFine
  <2>2. slkShown' = [slkShown EXCEPT ![d] = shown]
    BY <1>4, <1>10 DEF Show, SlkInv
  <2> QED
    BY <1>3, <1>8, <1>10, <2>1, <2>2, RunStep DEF SetTask
<1>11. CASE SetTask(d, [r EXCEPT !.tries = @ + 1]) /\ UNCHANGED slkShown
  <2>1. PICK n \in Nat : n = r.tries + 1
    BY <1>2 DEF TaskRecs
  <2>2. PICK e : e = [r EXCEPT !.tries = n]
    OBVIOUS
  <2>3. e \in TaskRecs
    BY <1>2, <2>2 DEF TaskRecs
  <2>4. e.pc = r.pc /\ e.posts = r.posts
    BY <1>2, <2>2 DEF TaskRecs
  <2>5. e.built = r.built /\ e.deaf = r.deaf
    BY <1>2, <2>2 DEF TaskRecs
  <2>6. [r EXCEPT !.tries = @ + 1] = e
    BY <1>2, <2>1, <2>2 DEF TaskRecs
  <2>7. TaskFine(e, KindOf(d), slkShown[d], Said(d))
    BY <1>2, <2>3, <2>4, <2>5 DEF TaskFine
  <2> QED
    BY <1>3, <1>8, <1>11, <2>6, <2>7, SilentStep
<1>12. CASE SetTask(d, AfterPosts(d, r, FALSE)) /\ UNCHANGED slkShown
  <2>1. TaskFine(AfterPosts(d, r, FALSE), KindOf(d), slkShown[d], Said(d))
    BY <1>2, AfterErrorFine
  <2> QED
    BY <1>3, <1>8, <1>12, <2>1, SilentStep
<1> QED
  <2>1. rest = [r EXCEPT !.posts = Tail(@), !.tries = 0]
    BY <1>4, <1>6, <1>2 DEF Reposted, TaskRecs
  <2> QED
    BY <1>1, <1>4, <1>9, <1>10, <1>11, <1>12, <2>1 DEF PostNext

\* A task that works has shown at most its acknowledgement, and built nothing yet.
LEMMA AtWork ==
    ASSUME SlkInv, NEW d \in Deliveries, slkTask[d].pc = "work"
    PROVE  /\ slkTask[d] \in TaskRecs /\ slkTask[d].pc # "none" /\ slkTask[d].built = {}
           /\ slkTask[d].posts = <<>> /\ Said(d) = {} /\ slkShown[d] \in Seq(Posts)
           /\ KindOf(d) \in WorkKinds
  BY TaskIsFine DEF TaskFine, Posting, Unremembered

\* Lists of posts.
LEMMA Joined2 ==
    ASSUME NEW S, NEW s \in Seq(S), NEW t \in Seq(S)
    PROVE  s \o t \in Seq(S) /\ ToSet(s \o t) = ToSet(s) \cup ToSet(t)
<1>1. /\ s \o t \in Seq(S) /\ Len(s \o t) = Len(s) + Len(t) /\ Len(s) \in Nat /\ Len(t) \in Nat
      /\ DOMAIN (s \o t) = 1..(Len(s) + Len(t)) /\ DOMAIN s = 1..Len(s) /\ DOMAIN t = 1..Len(t)
      /\ \A k \in 1..Len(s) : (s \o t)[k] = s[k]
      /\ \A k \in 1..Len(t) : (s \o t)[Len(s) + k] = t[k]
  OBVIOUS
<1> PICK u : u = s \o t OBVIOUS
<1>2. ToSet(u) \subseteq ToSet(s) \cup ToSet(t)
  <2> SUFFICES ASSUME NEW k \in DOMAIN u PROVE u[k] \in ToSet(s) \cup ToSet(t)
    BY DEF ToSet
  <2>1. CASE k \in 1..Len(s)
    BY <2>1, <1>1 DEF ToSet
  <2>2. CASE k \notin 1..Len(s)
    <3>1. k - Len(s) \in 1..Len(t) /\ Len(s) + (k - Len(s)) = k
      BY <2>2, <1>1
    <3>2. u[k] = t[k - Len(s)]
      BY <1>1, <3>1
    <3> QED
      BY <3>1, <3>2, <1>1 DEF ToSet
  <2> QED
    BY <2>1, <2>2
<1>3. ToSet(s) \subseteq ToSet(u)
  BY <1>1 DEF ToSet
<1>4. ToSet(t) \subseteq ToSet(u)
  <2> SUFFICES ASSUME NEW k \in DOMAIN t PROVE t[k] \in ToSet(u)
    BY DEF ToSet
  <2>1. Len(s) + k \in DOMAIN u /\ u[Len(s) + k] = t[k]
    BY <1>1
  <2>2. \A i \in DOMAIN u : u[i] \in ToSet(u)
    BY DEF ToSet
  <2> QED
    BY <2>1, <2>2
<1> QED
  BY <1>1, <1>2, <1>3, <1>4

LEMMA TwoPosts ==
    ASSUME NEW S, NEW a \in S, NEW b \in S
    PROVE  <<a, b>> \in Seq(S)
  OBVIOUS

LEMMA ThreePosts ==
    ASSUME NEW S, NEW a \in S, NEW b \in S, NEW c \in S
    PROVE  <<a, b, c>> \in Seq(S) /\ {a, c} \subseteq ToSet(<<a, b, c>>)
<1>1. <<a, b, c>> \in Seq(S) /\ DOMAIN <<a, b, c>> = 1..3
  OBVIOUS
<1>2. <<a, b, c>>[1] = a /\ <<a, b, c>>[3] = c
  OBVIOUS
<1>3. 1 \in 1..3 /\ 3 \in 1..3
  OBVIOUS
<1> QED
  BY <1>1, <1>2, <1>3 DEF ToSet

\* The thread of a batch has all its items.
LEMMA ThreadHasItems ==
    ASSUME NEW items \in {{"item1"}, {"item1", "item2"}}
    PROVE  ThreadOf(items) \in Seq(Posts) /\ items \subseteq ToSet(ThreadOf(items))
<1>1. PICK a \in Posts : a = "header"
  BY DEF Posts
<1>2. PICK b \in Posts : b = "item1"
  BY DEF Posts
<1>3. PICK c \in Posts : c = "bar"
  BY DEF Posts
<1>4. PICK e \in Posts : e = "item2"
  BY DEF Posts
<1>5. items # {} /\ (items = {b} \/ items = {b, e})
  BY <1>2, <1>4
<1>6. PICK s, one, three : s = <<a>> /\ one = <<b>> /\ three = <<b, c, e>>
  OBVIOUS
<1>7. ThreadOf(items) = s \o (IF items = {b} THEN one ELSE three)
  BY <1>1, <1>2, <1>3, <1>4, <1>5, <1>6 DEF ThreadOf
<1>8. s \in Seq(Posts) /\ one \in Seq(Posts) /\ ToSet(one) = {b}
  BY <1>6, OnePost
<1>9. three \in Seq(Posts) /\ {b, e} \subseteq ToSet(three)
  BY <1>6, ThreePosts
<1>10. /\ s \o one \in Seq(Posts) /\ ToSet(s \o one) = ToSet(s) \cup ToSet(one)
       /\ s \o three \in Seq(Posts) /\ ToSet(s \o three) = ToSet(s) \cup ToSet(three)
  BY <1>8, <1>9, Joined2
<1>11. CASE items = {b}
  BY <1>7, <1>8, <1>10, <1>11
<1>12. CASE items # {b}
  BY <1>5, <1>7, <1>9, <1>10, <1>12
<1> QED
  BY <1>11, <1>12

LEMMA DigestPosts ==
    ASSUME NEW lanes
    PROVE  DigestOf(lanes) \in Seq(Posts)
<1>1. PICK a \in Posts : a = "overview"
  BY DEF Posts
<1>2. PICK b \in Posts : b = "press"
  BY DEF Posts
<1>3. PICK c \in Posts : c = "item1"
  BY DEF Posts
<1>4. PICK e \in Posts : e = "twitter"
  BY DEF Posts
<1>5. PICK f \in Posts : f = "item2"
  BY DEF Posts
<1>6. <<a>> \in Seq(Posts) /\ <<b, c>> \in Seq(Posts) /\ <<e, f>> \in Seq(Posts) /\ <<>> \in Seq(Posts)
  BY OnePost, TwoPosts, Nothing
<1>7. PICK s \in Seq(Posts), t \in Seq(Posts) :
          /\ s = IF "press" \in lanes THEN <<b, c>> ELSE <<>>
          /\ t = IF "twitter" \in lanes THEN <<e, f>> ELSE <<>>
  BY <1>6
<1>8. DigestOf(lanes) = <<a>> \o s \o t
  BY <1>1, <1>2, <1>3, <1>4, <1>5, <1>7 DEF DigestOf
<1>9. <<a>> \o s \in Seq(Posts)
  BY <1>6, Joined2
<1> QED
  BY <1>7, <1>8, <1>9, Joined2

\* The end of a piece of work: the turn of the user may be stored, nothing is shown yet.
LEMMA WorkStep ==
    ASSUME SlkInv, NEW d \in Deliveries, NEW e, slkTask[d].pc = "work",
           UNCHANGED <<slkKind, slkSent, slkShown>>, SetTask(d, e),
           UNCHANGED slkTurns \/ Remember(d, "user"),
           TaskFine(e, KindOf(d), slkShown[d], {})
    PROVE  SlkInv'
<1>1. slkTask[d].pc # "none" /\ Said(d) = {}
  BY AtWork
<1>2. CASE UNCHANGED slkTurns
  BY <1>1, <1>2, SilentStep
<1>3. CASE slkTurns' = Append(slkTurns, <<"user", d>>)
  <2>1. /\ slkTurns' \in Seq({"user", "assistant"} \X Deliveries)
        /\ \A c \in Deliveries : Said(c)' = Said(c)
    BY <1>3, TurnAdded DEF SlkInv
  <2>2. slkSent' \in [SlackMessages -> Nat] /\ ~(d[2] > slkSent'[d[1]])
    BY <1>1 DEF SlkInv
  <2> PICK shown : shown = slkShown[d]
    OBVIOUS
  <2>3. slkShown' = [slkShown EXCEPT ![d] = shown]
    BY DEF SlkInv
  <2>4. slkTask' = [slkTask EXCEPT ![d] = e]
    BY DEF SetTask
  <2>5. \A c \in Deliveries : c # d /\ c[2] > slkSent'[c[1]] => c[2] > slkSent[c[1]]
    OBVIOUS
  <2>6. TaskFine(e, KindOf(d), shown, Said(d)')
    BY <1>1, <2>1
  <2> QED
    BY <2>1, <2>2, <2>3, <2>4, <2>5, <2>6, TaskStep
<1> QED
  BY <1>2, <1>3 DEF Remember

\* A task at work that is done, and one that has something to say.
LEMMA DoneFromWork ==
    ASSUME SlkInv, NEW d \in Deliveries, slkTask[d].pc = "work", NEW pc \in {"done", "return"}
    PROVE  TaskFine([slkTask[d] EXCEPT !.pc = pc], KindOf(d), slkShown[d], {})
<1>1. PICK r : r = slkTask[d]
  OBVIOUS
<1>2. r \in TaskRecs /\ r.posts = <<>> /\ r.built = {} /\ slkShown[d] \in Seq(Posts)
  BY <1>1, AtWork
<1>3. PICK e : e = Moved(r, pc)
  OBVIOUS
<1>4. pc \in TaskPcs
  BY DEF TaskPcs
<1>5. e \in TaskRecs /\ e.pc = pc /\ e.posts = r.posts /\ e.built = r.built
  BY <1>2, <1>3, <1>4, MovedTask
<1>6. TaskFine(e, KindOf(d), slkShown[d], {})
  BY <1>2, <1>5, PlainFine
<1> QED
  BY <1>1, <1>3, <1>6 DEF Moved

LEMMA SaysFromWork ==
    ASSUME SlkInv, NEW d \in Deliveries, slkTask[d].pc = "work", NEW pc \in {"say", "reply", "digest"},
           NEW posts \in Seq(Posts)
    PROVE  TaskFine([slkTask[d] EXCEPT !.pc = pc, !.posts = posts], KindOf(d), slkShown[d], {})
<1>1. PICK r : r = slkTask[d]
  OBVIOUS
<1>2. r \in TaskRecs /\ r.built = {} /\ slkShown[d] \in Seq(Posts)
  BY <1>1, AtWork
<1>3. PICK e : e = MovedPosting(r, pc, posts)
  OBVIOUS
<1>4. pc \in TaskPcs /\ pc \in Posting
  BY DEF TaskPcs, Unremembered, Posting
<1>5. e \in TaskRecs /\ e.pc = pc /\ e.posts = posts /\ e.built = r.built
  BY <1>2, <1>3, <1>4, MovedTaskPosting
<1>6. TaskFine(e, KindOf(d), slkShown[d], {})
  BY <1>2, <1>4, <1>5, PlainFine
<1> QED
  BY <1>1, <1>3, <1>6 DEF MovedPosting

LEMMA SaysOneFromWork ==
    ASSUME SlkInv, NEW d \in Deliveries, slkTask[d].pc = "work", NEW pc \in {"say", "reply"},
           NEW post \in Posts
    PROVE  TaskFine([slkTask[d] EXCEPT !.pc = pc, !.posts = <<post>>], KindOf(d), slkShown[d], {})
<1>1. PICK one : one = <<post>>
  OBVIOUS
<1>2. one \in Seq(Posts)
  BY <1>1, OnePost
<1>3. TaskFine([slkTask[d] EXCEPT !.pc = pc, !.posts = one], KindOf(d), slkShown[d], {})
  BY <1>2, SaysFromWork
<1> QED
  BY <1>1, <1>3

LEMMA WorkProposeInv ==
    ASSUME SlkInv, NEW d \in Deliveries, slkTask[d].pc = "work", WorkPropose(d),
           UNCHANGED <<slkKind, slkSent, slkShown, slkTurns>>
    PROVE  SlkInv'
<1>1. CASE SetTask(d, [slkTask[d] EXCEPT !.pc = "say", !.posts = <<"error">>])
  <2>1. PICK post \in Posts : post = "error"
    BY DEF Posts
  <2>2. TaskFine([slkTask[d] EXCEPT !.pc = "say", !.posts = <<post>>], KindOf(d), slkShown[d], {})
    BY SaysOneFromWork
  <2> QED
    BY <1>1, <2>1, <2>2, WorkStep
<1>2. CASE SetTask(d, [slkTask[d] EXCEPT !.pc = "done"])
  <2>1. TaskFine([slkTask[d] EXCEPT !.pc = "done"], KindOf(d), slkShown[d], {})
    BY DoneFromWork
  <2> QED
    BY <1>2, <2>1, WorkStep
<1>3. ASSUME NEW items \in {{"item1"}, {"item1", "item2"}},
             SetTask(d, [slkTask[d] EXCEPT !.pc = "thread", !.built = items,
                                           !.posts = ThreadOf(items)])
      PROVE  SlkInv'
  <2>1. PICK posts \in Seq(Posts) : posts = ThreadOf(items) /\ items \subseteq ToSet(posts)
    BY ThreadHasItems
  <2>2. PICK r : r = slkTask[d]
    OBVIOUS
  <2>3. r \in TaskRecs /\ slkShown[d] \in Seq(Posts)
    BY <2>2, AtWork
  <2>4. items \in SUBSET Posts
    BY DEF Posts
  <2>5. PICK e : e = [r EXCEPT !.pc = "thread", !.built = items, !.posts = posts]
    OBVIOUS
  <2>6. e \in TaskRecs
    BY <2>3, <2>4, <2>5 DEF TaskRecs, Unremembered, Posting
  <2>7. e.pc = "thread" /\ e.built = items /\ e.posts = posts
    BY <2>3, <2>5 DEF TaskRecs
  <2>8. TaskFine(e, KindOf(d), slkShown[d], {})
    BY <2>1, <2>3, <2>6, <2>7 DEF TaskFine, Posting
  <2> QED
    BY <1>3, <2>1, <2>2, <2>5, <2>8, WorkStep
<1>4. PICK items \in {{}, {"item1"}, {"item1", "item2"}} :
          \/ SetTask(d, [slkTask[d] EXCEPT !.pc = "say", !.posts = <<"error">>])
          \/ SetTask(d, IF items = {} THEN [slkTask[d] EXCEPT !.pc = "done"]
                        ELSE [slkTask[d] EXCEPT !.pc = "thread", !.built = items,
                                                !.posts = ThreadOf(items)])
  BY DEF WorkPropose
<1> QED
  BY <1>1, <1>2, <1>3, <1>4

LEMMA WorkDigestInv ==
    ASSUME SlkInv, NEW d \in Deliveries, slkTask[d].pc = "work", WorkDigest(d),
           UNCHANGED <<slkKind, slkSent, slkShown, slkTurns>>
    PROVE  SlkInv'
<1>1. CASE SetTask(d, [slkTask[d] EXCEPT !.pc = "say", !.posts = <<"digest or error">>])
  <2>1. PICK post \in Posts : post = "digest or error"
    BY DEF Posts
  <2>2. TaskFine([slkTask[d] EXCEPT !.pc = "say", !.posts = <<post>>], KindOf(d), slkShown[d], {})
    BY SaysOneFromWork
  <2> QED
    BY <1>1, <2>1, <2>2, WorkStep
<1>2. ASSUME NEW lanes, SetTask(d, [slkTask[d] EXCEPT !.pc = "digest", !.posts = DigestOf(lanes)])
      PROVE  SlkInv'
  <2>1. DigestOf(lanes) \in Seq(Posts)
    BY DigestPosts
  <2>2. TaskFine([slkTask[d] EXCEPT !.pc = "digest", !.posts = DigestOf(lanes)],
                 KindOf(d), slkShown[d], {})
    BY <2>1, SaysFromWork
  <2> QED
    BY <1>2, <2>2, WorkStep
<1> QED
  BY <1>1, <1>2 DEF WorkDigest

LEMMA StatusPosts == ASSUME NEW s \in DraftStates PROVE StatusAnswer(s) \in Posts
  BY DEF DraftStates, StatusAnswer, Posts

LEMMA WorkInv == ASSUME SlkInv, NEW d \in Deliveries, Work(d) PROVE SlkInv'
<1>1. slkTask[d].pc = "work" /\ UNCHANGED <<slkKind, slkSent>>
  BY DEF Work
<1>2. PICK reply \in Posts : reply = "reply"
  BY DEF Posts
<1>3. ASSUME NEW t \in Posts, UNCHANGED slkShown, UNCHANGED slkTurns \/ Remember(d, "user"),
             SetTask(d, [slkTask[d] EXCEPT !.pc = "reply", !.posts = <<t>>])
      PROVE  SlkInv'
  <2>1. TaskFine([slkTask[d] EXCEPT !.pc = "reply", !.posts = <<t>>], KindOf(d), slkShown[d], {})
    BY <1>1, SaysOneFromWork
  <2> QED
    BY <1>1, <1>3, <2>1, WorkStep
<1>4. CASE KindOf(d) = "propose"
  BY <1>1, <1>4, WorkProposeInv DEF Work
<1>5. CASE KindOf(d) = "digest"
  BY <1>1, <1>5, WorkDigestInv DEF Work
<1>6. ASSUME UNCHANGED <<slkShown, slkTurns>>, NEW pc \in {"done", "return"},
             SetTask(d, [slkTask[d] EXCEPT !.pc = pc])
      PROVE  SlkInv'
  <2>1. TaskFine([slkTask[d] EXCEPT !.pc = pc], KindOf(d), slkShown[d], {})
    BY <1>1, DoneFromWork
  <2> QED
    BY <1>1, <1>6, <2>1, WorkStep
<1>7. CASE KindOf(d) \in {"look", "slash"}
  <2>1. UNCHANGED <<slkShown, slkTurns>>
    BY <1>7 DEF Work
  <2>2. \/ SetTask(d, [slkTask[d] EXCEPT !.pc = "reply", !.posts = <<"reply">>])
        \/ SetTask(d, [slkTask[d] EXCEPT !.pc = "done"])
    BY <1>7 DEF Work
  <2> QED
    BY <1>2, <1>3, <1>6, <2>1, <2>2
<1>8. CASE KindOf(d) = "help"
  BY <1>2, <1>3, <1>8 DEF Work
<1>9. CASE KindOf(d) = "chat"
  BY <1>2, <1>3, <1>9 DEF Work
<1>10. CASE KindOf(d) = "where"
  <2>1. PICK s \in DraftStates :
            SetTask(d, [slkTask[d] EXCEPT !.pc = "reply", !.posts = <<StatusAnswer(s)>>])
    BY <1>10 DEF Work
  <2>2. Remember(d, "user") /\ UNCHANGED slkShown
    BY <1>10 DEF Work
  <2> QED
    BY <1>3, <2>1, <2>2, StatusPosts
<1>11. CASE KindOf(d) \notin {"propose", "digest", "look", "slash", "help", "chat", "where"}
  <2>1. UNCHANGED slkShown
    BY <1>11 DEF Work
  <2>2. \/ SetTask(d, [slkTask[d] EXCEPT !.pc = "return"]) /\ UNCHANGED slkTurns
        \/ SetTask(d, [slkTask[d] EXCEPT !.pc = "remember"]) /\ Remember(d, "user")
    BY <1>11 DEF Work
  <2>3. CASE SetTask(d, [slkTask[d] EXCEPT !.pc = "remember"]) /\ Remember(d, "user")
    <3>1. PICK r, e : r = slkTask[d] /\ e = Moved(r, "remember")
      OBVIOUS
    <3>2. /\ r \in TaskRecs /\ r.posts = <<>> /\ r.built = {} /\ slkShown[d] \in Seq(Posts)
          /\ KindOf(d) \in WorkKinds
      BY <1>1, <3>1, AtWork
    <3>3. "remember" \in TaskPcs
      BY DEF TaskPcs, Unremembered
    <3>4. e \in TaskRecs /\ e.pc = "remember" /\ e.posts = r.posts /\ e.built = r.built
      BY <3>1, <3>2, <3>3, MovedTask
    <3>5. KindOf(d) = "inject"
      BY <1>11, <3>2 DEF WorkKinds
    <3>6. TaskFine(e, KindOf(d), slkShown[d], {})
      BY <3>2, <3>4, <3>5, PlainFine
    <3>7. SetTask(d, e)
      BY <2>3, <3>1 DEF Moved
    <3> QED
      BY <1>1, <2>1, <2>3, <3>6, <3>7, WorkStep
  <2> QED
    BY <1>6, <2>1, <2>2, <2>3
<1> QED
  BY <1>4, <1>5, <1>7, <1>8, <1>9, <1>10, <1>11

LEMMA RememberReplyInv == ASSUME SlkInv, NEW d \in Deliveries, RememberReply(d) PROVE SlkInv'
<1>1. PICK r, pc : /\ r = slkTask[d] /\ r.pc = "remember"
                   /\ pc = IF KindOf(d) = "inject" THEN "return" ELSE "done"
  BY DEF RememberReply
<1>2. /\ TaskFine(r, KindOf(d), slkShown[d], Said(d)) /\ r \in TaskRecs /\ slkShown[d] \in Seq(Posts)
      /\ slkTask[d].pc # "none"
  BY <1>1, TaskIsFine
<1>3. /\ r.posts = <<>> /\ r.built = {} /\ Said(d) = {}
      /\ slkShown[d] # <<>> \/ KindOf(d) = "inject"
  BY <1>1, <1>2 DEF TaskFine, Posting, Unremembered
<1>4. PICK e : e = Moved(r, pc)
  OBVIOUS
<1>5. pc \in TaskPcs
  BY <1>1 DEF TaskPcs
<1>6. e \in TaskRecs /\ e.pc = pc /\ e.posts = r.posts /\ e.built = r.built
  BY <1>2, <1>4, <1>5, MovedTask
<1>7. SetTask(d, e) /\ UNCHANGED <<slkKind, slkSent, slkShown>>
  BY <1>1, <1>4 DEF RememberReply, Moved
<1>8. ASSUME NEW said, said = {} \/ \E k : said = {k}
      PROVE  TaskFine(e, KindOf(d), slkShown[d], said)
  BY <1>1, <1>2, <1>3, <1>6, <1>8 DEF TaskFine, Unremembered, Posting
<1>9. CASE UNCHANGED slkTurns
  BY <1>2, <1>3, <1>7, <1>8, <1>9, SilentStep
<1>10. CASE slkTurns' = Append(slkTurns, <<"assistant", d>>)
  <2>1. /\ slkTurns' \in Seq({"user", "assistant"} \X Deliveries)
        /\ \A c \in Deliveries \ {d} : Said(c)' = Said(c)
        /\ Said(d)' = {Len(slkTurns) + 1}
    BY <1>3, <1>10, TurnAdded DEF SlkInv
  <2>2. slkSent' \in [SlackMessages -> Nat] /\ ~(d[2] > slkSent'[d[1]])
    BY <1>2, <1>7 DEF SlkInv
  <2> PICK shown : shown = slkShown[d]
    OBVIOUS
  <2>3. slkShown' = [slkShown EXCEPT ![d] = shown]
    BY <1>7 DEF SlkInv
  <2>4. slkTask' = [slkTask EXCEPT ![d] = e]
    BY <1>7 DEF SetTask
  <2>5. \A c \in Deliveries : c # d /\ c[2] > slkSent'[c[1]] => c[2] > slkSent[c[1]]
    BY <1>7
  <2>6. TaskFine(e, KindOf(d), shown, Said(d)')
    BY <1>8, <2>1
  <2>7. slkKind' = slkKind
    BY <1>7
  <2> QED
    BY <2>1, <2>2, <2>3, <2>4, <2>5, <2>6, <2>7, TaskStep
<1> QED
  BY <1>9, <1>10 DEF RememberReply, Remember

LEMMA ReturnReplyInv == ASSUME SlkInv, NEW d \in Deliveries, ReturnReply(d) PROVE SlkInv'
<1>1. PICK r : r = slkTask[d] /\ r.pc = "return"
  BY DEF ReturnReply
<1>2. /\ TaskFine(r, KindOf(d), slkShown[d], Said(d)) /\ r \in TaskRecs /\ slkShown[d] \in Seq(Posts)
      /\ slkTask[d].pc # "none"
  BY <1>1, TaskIsFine
<1>3. r.posts = <<>> /\ r.built = {} /\ \A j, k \in Said(d) : j = k
  BY <1>1, <1>2 DEF TaskFine, Posting
<1>4. PICK e : e = Moved(r, "done")
  OBVIOUS
<1>5. "done" \in TaskPcs
  BY DEF TaskPcs
<1>6. e \in TaskRecs /\ e.pc = "done" /\ e.posts = r.posts /\ e.built = r.built
  BY <1>2, <1>4, <1>5, MovedTask
<1>7. PICK word \in Posts : word = "summary"
  BY DEF Posts
<1>8. PICK shown : shown = Append(slkShown[d], word)
  OBVIOUS
<1>9. shown \in Seq(Posts) /\ shown # <<>>
  BY <1>2, <1>8, Appended
<1>10. TaskFine(e, KindOf(d), shown, Said(d))
  BY <1>1, <1>3, <1>6, <1>9 DEF TaskFine, Unremembered, Posting
<1>11. slkTask' = [slkTask EXCEPT ![d] = e] /\ slkShown' = [slkShown EXCEPT ![d] = shown]
  BY <1>1, <1>4, <1>7, <1>8 DEF ReturnReply, SetTask, Show, Moved, SlkInv
<1> QED
  BY <1>2, <1>10, <1>11, RunStep DEF ReturnReply

\* A fresh task has built nothing; only what it works on reaches the work.
LEMMA FreshFine ==
    ASSUME NEW kind, NEW shown \in Seq(Posts)
    PROVE  TaskFine(FreshTask(kind), kind, shown, {}) /\ FreshTask(kind) \in TaskRecs
<1>1. PICK idle : idle = NoTask
  OBVIOUS
<1>2. idle \in TaskRecs /\ idle.posts = <<>> /\ idle.built = {}
  BY <1>1, IdleTask
<1>3. ASSUME NEW pc \in {"say", "ack"}, NEW post \in Posts, pc = "ack" => kind \in WorkKinds
      PROVE  /\ TaskFine(MovedPosting(idle, pc, <<post>>), kind, shown, {})
             /\ MovedPosting(idle, pc, <<post>>) \in TaskRecs
  <2>1. PICK one : one = <<post>>
    OBVIOUS
  <2>2. one \in Seq(Posts)
    BY <2>1, OnePost
  <2>3. pc \in TaskPcs /\ pc \in Posting
    BY DEF TaskPcs, Unremembered, Posting
  <2>4. PICK e : e = MovedPosting(idle, pc, one)
    OBVIOUS
  <2>5. e \in TaskRecs /\ e.pc = pc /\ e.posts = one /\ e.built = idle.built
    BY <1>2, <2>2, <2>3, <2>4, MovedTaskPosting
  <2>6. TaskFine(e, kind, shown, {})
    BY <1>2, <1>3, <2>3, <2>5, PlainFine
  <2> QED
    BY <2>1, <2>4, <2>5, <2>6
<1>4. ASSUME NEW pc \in {"work", "done"}, pc = "work" => kind \in WorkKinds
      PROVE  TaskFine(Moved(idle, pc), kind, shown, {}) /\ Moved(idle, pc) \in TaskRecs
  <2>1. pc \in TaskPcs
    BY DEF TaskPcs, Unremembered
  <2>2. PICK e : e = Moved(idle, pc)
    OBVIOUS
  <2>3. e \in TaskRecs /\ e.pc = pc /\ e.posts = idle.posts /\ e.built = idle.built
    BY <1>2, <2>1, <2>2, MovedTask
  <2>4. TaskFine(e, kind, shown, {})
    BY <1>2, <1>4, <2>3, PlainFine
  <2> QED
    BY <2>2, <2>3, <2>4
<1>5. PICK pc, post : \/ /\ pc \in {"say", "ack"} /\ post \in Posts
                         /\ pc = "ack" => kind \in WorkKinds
                         /\ FreshTask(kind) = MovedPosting(idle, pc, <<post>>)
                      \/ /\ pc \in {"work", "done"}
                         /\ pc = "work" => kind \in WorkKinds
                         /\ FreshTask(kind) = Moved(idle, pc)
  <2>1. CASE kind = "joined"
    <3>1. FreshTask(kind) = MovedPosting(idle, "say", <<"welcome">>) /\ "welcome" \in Posts
      BY <1>1, <2>1 DEF FreshTask, MovedPosting, Posts
    <3> QED
      BY <3>1
  <2>2. CASE kind = "usage"
    <3>1. FreshTask(kind) = MovedPosting(idle, "say", <<"usage">>) /\ "usage" \in Posts
      BY <1>1, <2>2 DEF FreshTask, MovedPosting, Posts
    <3> QED
      BY <3>1
  <2>3. CASE kind \in {"slash", "propose", "digest"}
    <3>1. FreshTask(kind) = MovedPosting(idle, "ack", <<"ack">>) /\ "ack" \in Posts
      BY <1>1, <2>3 DEF FreshTask, MovedPosting, Posts
    <3>2. kind \in WorkKinds
      BY <2>3 DEF WorkKinds
    <3> QED
      BY <3>1, <3>2
  <2>4. CASE kind \in {"help", "look", "where", "chat", "inject"}
    <3>1. FreshTask(kind) = Moved(idle, "work")
      BY <1>1, <2>4 DEF FreshTask, Moved
    <3>2. kind \in WorkKinds
      BY <2>4 DEF WorkKinds
    <3> QED
      BY <3>1, <3>2
  <2>5. CASE kind \notin {"joined", "usage", "slash", "propose", "digest", "help", "look", "where", "chat",
                          "inject"}
    <3>1. FreshTask(kind) = Moved(idle, "done")
      BY <1>1, <2>5 DEF FreshTask, Moved
    <3> QED
      BY <3>1
  <2> QED
    BY <2>1, <2>2, <2>3, <2>4, <2>5
<1>6. CASE /\ pc \in {"say", "ack"} /\ post \in Posts
           /\ pc = "ack" => kind \in WorkKinds
           /\ FreshTask(kind) = MovedPosting(idle, pc, <<post>>)
  <2>1. /\ TaskFine(MovedPosting(idle, pc, <<post>>), kind, shown, {})
        /\ MovedPosting(idle, pc, <<post>>) \in TaskRecs
    BY <1>3, <1>6
  <2> QED
    BY <1>6, <2>1
<1>7. CASE /\ pc \in {"work", "done"}
           /\ pc = "work" => kind \in WorkKinds
           /\ FreshTask(kind) = Moved(idle, pc)
  <2>1. TaskFine(Moved(idle, pc), kind, shown, {}) /\ Moved(idle, pc) \in TaskRecs
    BY <1>4, <1>7
  <2> QED
    BY <1>7, <2>1
<1> QED
  BY <1>5, <1>6, <1>7

\* A message is handed to a task of its own; nothing of that delivery was there before.
LEMMA StartsTask ==
    ASSUME SlkInv, NEW m \in SlackMessages, slkSent[m] < SlackSends,
           slkSent' = [slkSent EXCEPT ![m] = slkSent[m] + 1],
           slkTask' = [slkTask EXCEPT ![<<m, slkSent[m] + 1>>] = FreshTask(slkKind[m])],
           UNCHANGED <<slkKind, slkShown, slkTurns>>
    PROVE  SlkInv'
<1>1. slkSent \in [SlackMessages -> Nat] /\ slkShown \in [Deliveries -> Seq(Posts)]
  BY DEF SlkInv
<1>2. PICK d : d = <<m, slkSent[m] + 1>>
  OBVIOUS
<1>3. d \in Deliveries /\ d[1] = m /\ d[2] = slkSent[m] + 1
  BY <1>1, <1>2, SlackAssumption DEF Deliveries
<1>4. slkTask[d].pc = "none"
  <2>1. d[2] > slkSent[d[1]]
    BY <1>1, <1>3
  <2> QED
    BY <1>3, <2>1 DEF SlkInv
<1>5. Said(d) = {}
  BY <1>3, <1>4, TaskIsFine DEF TaskFine, Unremembered
<1>6. PICK e, shown : e = FreshTask(slkKind[m]) /\ shown = slkShown[d]
  OBVIOUS
<1>7. TaskFine(e, KindOf(d), shown, {})
  BY <1>1, <1>3, <1>6, FreshFine DEF KindOf
<1>8. \A c \in Deliveries : Said(c)' = Said(c)
  BY DEF Said
<1>9. TaskFine(e, KindOf(d), shown, Said(d)')
  BY <1>3, <1>5, <1>7, <1>8
<1>10. slkSent' \in [SlackMessages -> Nat] /\ slkTurns' \in Seq({"user", "assistant"} \X Deliveries)
  BY <1>1 DEF SlkInv
<1>11. ASSUME NEW c \in Deliveries, c # d, c[2] > slkSent'[c[1]]
       PROVE  c[2] > slkSent[c[1]]
  <2>1. c[1] \in SlackMessages /\ c[2] \in Nat
    BY SlackAssumption DEF Deliveries
  <2>2. slkSent'[c[1]] >= slkSent[c[1]]
    BY <1>1, <2>1
  <2> QED
    BY <1>1, <1>10, <1>11, <2>1, <2>2
<1>12. ~(d[2] > slkSent'[d[1]])
  BY <1>1, <1>3
<1>13. slkTask' = [slkTask EXCEPT ![d] = e] /\ slkShown' = [slkShown EXCEPT ![d] = shown]
  BY <1>1, <1>2, <1>6
<1>14. slkKind' = slkKind
  OBVIOUS
<1>15. \A c \in Deliveries : c # d /\ c[2] > slkSent'[c[1]] => c[2] > slkSent[c[1]]
  BY <1>11
<1>16. \A c \in Deliveries \ {d} : Said(c)' = Said(c)
  BY <1>8
<1>17. d \in Deliveries
  BY <1>3
<1>18. slkTask' = [slkTask EXCEPT ![d] = e]
  BY <1>13
<1>19. slkShown' = [slkShown EXCEPT ![d] = shown]
  BY <1>13
<1> QED
  BY <1>9, <1>10, <1>12, <1>14, <1>15, <1>16, <1>17, <1>18, <1>19, TaskStep

LEMMA ReceiveInv == ASSUME SlkInv, NEW m \in SlackMessages, Receive(m) PROVE SlkInv'
<1>1. CASE slkSent[m] < SlackSends /\ slkSent' = [slkSent EXCEPT ![m] = @ + 1]
           /\ slkTask' = [slkTask EXCEPT ![<<m, slkSent[m] + 1>>] = FreshTask(slkKind[m])]
  <2>1. slkSent' = [slkSent EXCEPT ![m] = slkSent[m] + 1]
    BY <1>1
  <2> QED
    BY <1>1, <2>1, StartsTask DEF Receive
<1>2. CASE UNCHANGED <<slkSent, slkTask>>
  BY <1>2 DEF Receive, SlkInv, KindOf, Said
<1> QED
  BY <1>1, <1>2 DEF Receive

LEMMA InjectInv == ASSUME SlkInv, NEW m \in SlackMessages, Inject(m) PROVE SlkInv'
<1>1. slkSent[m] = 0 /\ slkKind[m] = "inject" /\ 0 < SlackSends
  BY SlackAssumption DEF Inject
<1>2. slkSent' = [slkSent EXCEPT ![m] = slkSent[m] + 1]
  BY <1>1 DEF Inject
<1>3. slkTask' = [slkTask EXCEPT ![<<m, slkSent[m] + 1>>] = FreshTask(slkKind[m])]
  <2>1. slkTask' = [slkTask EXCEPT ![<<m, 1>>] = FreshTask("inject")]
    BY DEF Inject
  <2>2. slkSent[m] + 1 = 1
    BY <1>1
  <2> QED
    BY <1>1, <2>1, <2>2
<1> QED
  BY <1>1, <1>2, <1>3, StartsTask DEF Inject

\* The tasks of a program that ends are gone, whatever they were doing.
LEMMA SlackCrashInv == ASSUME SlkInv, SlackCrash PROVE SlkInv'
<1>1. /\ slkTask \in [Deliveries -> TaskRecs] /\ slkShown \in [Deliveries -> Seq(Posts)]
      /\ \A c \in Deliveries : TaskFine(slkTask[c], KindOf(c), slkShown[c], Said(c))
      /\ \A c \in Deliveries : c[2] > slkSent[c[1]] => slkTask[c].pc = "none"
  BY DEF SlkInv
<1>2. UNCHANGED <<slkKind, slkSent, slkShown, slkTurns>>
  BY DEF SlackCrash
<1>3. PICK none \in Seq(Posts) : none = <<>>
  BY Nothing
<1>4. \A d \in Deliveries : slkTask'[d] = IF slkTask[d].pc \in {"none", "done"} THEN slkTask[d]
                                           ELSE MovedPosting(slkTask[d], "died", none)
  BY <1>3 DEF SlackCrash, MovedPosting
<1>5. slkTask' = [d \in Deliveries |-> slkTask'[d]]
  BY DEF SlackCrash
<1>6. ASSUME NEW d \in Deliveries
      PROVE  /\ TaskFine(slkTask'[d], KindOf(d), slkShown[d], Said(d))
             /\ slkTask[d].pc = "none" => slkTask'[d].pc = "none"
  <2>1. CASE slkTask[d].pc \in {"none", "done"}
    BY <1>1, <1>4, <2>1
  <2>2. CASE slkTask[d].pc \notin {"none", "done"}
    <3>1. PICK r, e : r = slkTask[d] /\ e = MovedPosting(r, "died", none)
      OBVIOUS
    <3>2. "died" \in TaskPcs /\ r \in TaskRecs /\ TaskFine(r, KindOf(d), slkShown[d], Said(d))
      BY <1>1, <3>1 DEF TaskPcs
    <3>3. e \in TaskRecs /\ e.pc = "died" /\ e.posts = none
      <4>1. r \in TaskRecs /\ "died" \in TaskPcs /\ none \in Seq(Posts)
        BY <1>3, <3>2
      <4>2. e = MovedPosting(r, "died", none)
        BY <3>1
      <4> QED
        BY <4>1, <4>2, MovedTaskPosting
    <3>4. TaskFine(e, KindOf(d), slkShown[d], Said(d))
      BY <1>3, <3>2, <3>3 DEF TaskFine, Unremembered, Posting
    <3> QED
      BY <1>4, <2>2, <3>1, <3>4
  <2> QED
    BY <2>1, <2>2
<1>7. \A d \in Deliveries : slkTask'[d] \in TaskRecs
  BY <1>6 DEF TaskFine
<1>8. slkTask' \in [Deliveries -> TaskRecs]
  BY <1>5, <1>7
<1>9. \A d \in Deliveries : KindOf(d)' = KindOf(d) /\ Said(d)' = Said(d)
  BY <1>2 DEF KindOf, Said
<1>10. /\ slkSent' \in [SlackMessages -> Nat] /\ slkShown' \in [Deliveries -> Seq(Posts)]
       /\ slkTurns' \in Seq({"user", "assistant"} \X Deliveries)
  BY <1>2 DEF SlkInv
<1>11. \A d \in Deliveries : d[2] > slkSent'[d[1]] => slkTask'[d].pc = "none"
  BY <1>1, <1>2, <1>6
<1>12. \A d \in Deliveries : TaskFine(slkTask'[d], KindOf(d)', slkShown'[d], Said(d)')
  BY <1>2, <1>6, <1>9
<1> QED
  BY <1>8, <1>10, <1>11, <1>12 DEF SlkInv

LEMMA SlkNextInv == SlkInv /\ [SlackNext]_slkVars => SlkInv'
<1> SUFFICES ASSUME SlkInv, [SlackNext]_slkVars
             PROVE  SlkInv'
  OBVIOUS
<1>1. CASE UNCHANGED <<slkKind, slkSent, slkTask, slkShown, slkTurns>>
  BY <1>1 DEF SlkInv, KindOf, Said
<1>2. ASSUME NEW m \in SlackMessages, WriteMessage(m) \/ Receive(m) \/ Inject(m)
      PROVE  SlkInv'
  BY <1>1, <1>2, ReceiveInv, InjectInv DEF WriteMessage
<1>3. CASE Connect \/ Disconnect
  BY <1>1, <1>3 DEF Connect, Disconnect, SlackRest
<1>4. ASSUME NEW d \in Deliveries, SlackTask(d)
      PROVE  SlkInv'
  BY <1>4, PostNextInv, WorkInv, RememberReplyInv, ReturnReplyInv DEF SlackTask
<1> QED
  BY <1>1, <1>2, <1>3, <1>4, SlackCrashInv DEF SlackNext, slkVars

\* handler.rs, api.rs, memory.rs: with any number of messages, deliveries, lost sockets, refused
\* posts and restarts, a batch that is over has shown every draft it built unless the summary too
\* was refused, and the memory of a channel says of the assistant only what stood there, once.
THEOREM SlackSafe == SlackSpec => []SlackInv
<1>1. SlkInv => SlackInv
  <2> SUFFICES ASSUME SlkInv
               PROVE  SlackInv
    OBVIOUS
  <2>1. ProposedDraftsAreShown
    BY DEF SlkInv, TaskFine, ProposedDraftsAreShown, ShownBy
  <2>2. MemoryWasSaid
    BY DEF SlkInv, TaskFine, MemoryWasSaid, Said
  <2> QED
    BY <2>1, <2>2 DEF SlackInv
<1> QED
  BY <1>1, SlkInitInv, SlkNextInv, PTL DEF SlackSpec

-------------------------------------------------------------------------------
(* The dialog: least numbers, lists and their parts *)

\* The least member of a set of numbers is one of them.
LEMMA MinOf ==
    ASSUME NEW T, T \subseteq Nat, T # {}
    PROVE  Min(T) \in T /\ \A n \in T : Min(T) <= n
  BY LeastNatural DEF Min

LEMMA Flattened ==
    ASSUME NEW S, NEW seqs \in Seq(Seq(S))
    PROVE  FlattenSeq(seqs) \in Seq(S)
<1> DEFINE Joins(n, f) == 
     /\ f \in [1..n -> Seq(S)] 
     /\ \A i \in 1..n : f[i] = IF i = 1 THEN seqs[i] ELSE f[i - 1] \o seqs[i]
<1>1. \A n \in 1..Len(seqs) : \E f : Joins(n, f)
  <2> DEFINE bad == {n \in 1..Len(seqs) : ~\E f : Joins(n, f)}
  <2> SUFFICES ASSUME bad # {} PROVE FALSE
    OBVIOUS
  <2>1. bad \subseteq Nat
    OBVIOUS
  <2>2. PICK n \in bad : \A k \in bad : n <= k
    BY <2>1, LeastNatural
  <2>3. CASE n = 1
    <3>1. Joins(1, [i \in 1..1 |-> seqs[i]])
      OBVIOUS
    <3> QED
      BY <2>2, <2>3, <3>1
  <2>4. CASE n # 1
    <3>1. n - 1 \in 1..Len(seqs) /\ n - 1 \notin bad
      <4>1. n \in 1..Len(seqs) /\ n - 1 \in 1..Len(seqs) /\ ~(n <= n - 1)
        BY <2>2, <2>4
      <4> HIDE DEF bad
      <4> QED
        BY <2>2, <4>1
    <3>2. PICK f : Joins(n - 1, f)
      BY <3>1
    <3>3. PICK g : g = [i \in 1..n |-> IF i = n THEN f[n - 1] \o seqs[n] ELSE f[i]]
      OBVIOUS
    <3>4. f[n - 1] \o seqs[n] \in Seq(S)
      BY <3>1, <3>2
    <3>5. g \in [1..n -> Seq(S)]
      BY <3>1, <3>2, <3>3, <3>4
    <3>6. ASSUME NEW i \in 1..n
          PROVE  g[i] = IF i = 1 THEN seqs[i] ELSE g[i - 1] \o seqs[i]
      <4>1. CASE i = n
        <5>1. i # 1 /\ g[i] = f[n - 1] \o seqs[n]
          BY <2>4, <3>3, <4>1
        <5>2. n - 1 \in 1..n /\ n - 1 # n
          BY <3>1
        <5>3. g[n - 1] = f[n - 1]
          BY <3>3, <5>2
        <5> QED
          BY <4>1, <5>1, <5>3
      <4>2. CASE i # n
        <5>1. i \in 1..(n - 1) /\ g[i] = f[i]
          BY <3>3, <4>2
        <5>2. CASE i = 1
          BY <3>2, <5>1, <5>2
        <5>3. CASE i # 1
          <6>1. i - 1 \in 1..n /\ i - 1 # n
            BY <5>3
          <6>2. g[i - 1] = f[i - 1]
            BY <3>3, <6>1
          <6>3. f[i] = f[i - 1] \o seqs[i]
            BY <3>2, <5>1, <5>3
          <6> QED
            BY <5>1, <5>3, <6>2, <6>3
        <5> QED
          BY <5>2, <5>3
      <4> QED
        BY <4>1, <4>2
    <3> QED
      BY <2>2, <3>5, <3>6
  <2> QED
    BY <2>3, <2>4
<1>2. CASE Len(seqs) = 0
  BY <1>2 DEF FlattenSeq
<1>3. CASE Len(seqs) # 0
  <2> DEFINE flatten == CHOOSE f : f = [i \in 1..Len(seqs) |-> IF i = 1 THEN seqs[i] ELSE f[i - 1] \o seqs[i]]
  <2>1. FlattenSeq(seqs) = flatten[Len(seqs)]
    BY <1>3 DEF FlattenSeq
  <2>2. PICK made : Joins(Len(seqs), made)
    <3>1. Len(seqs) \in 1..Len(seqs)
      BY <1>3
    <3> HIDE DEF Joins
    <3> QED
      BY <1>1, <3>1
  <2>3. made = [i \in 1..Len(seqs) |-> IF i = 1 THEN seqs[i] ELSE made[i - 1] \o seqs[i]]
    BY <2>2
  <2>4. flatten = [i \in 1..Len(seqs) |-> IF i = 1 THEN seqs[i] ELSE flatten[i - 1] \o seqs[i]]
    BY <2>3
  <2>5. PICK f : f = flatten /\ f = [i \in 1..Len(seqs) |-> IF i = 1 THEN seqs[i] ELSE f[i - 1] \o seqs[i]]
    BY <2>4
  <2> DEFINE odd == {i \in 1..Len(seqs) : f[i] \notin Seq(S)}
  <2>6. odd = {}
    <3> SUFFICES ASSUME odd # {} PROVE FALSE
      OBVIOUS
    <3>1. odd \subseteq Nat
      OBVIOUS
    <3>2. PICK i \in odd : \A k \in odd : i <= k
      BY <3>1, LeastNatural
    <3>3. i \in 1..Len(seqs) /\ f[i] \notin Seq(S) /\ seqs[i] \in Seq(S)
      BY <3>2
    <3>4. i # 1
      BY <2>5, <3>3
    <3>5. i - 1 \in 1..Len(seqs) /\ ~(i <= i - 1)
      BY <3>3, <3>4
    <3>6. f[i - 1] \in Seq(S)
      BY <3>2, <3>5
    <3>7. f[i] = f[i - 1] \o seqs[i]
      BY <2>5, <3>3, <3>4
    <3> QED
      BY <3>3, <3>6, <3>7
  <2>7. Len(seqs) \in 1..Len(seqs)
    BY <1>3
  <2> QED
    BY <2>1, <2>5, <2>6, <2>7
<1> QED
  BY <1>2, <1>3

-------------------------------------------------------------------------------
RetryIds == {"DRAFT", "TWEET", "POST", "XPOST"}

LEMMA MinOfOne == ASSUME NEW n \in Nat PROVE Min({n}) = n
<1>1. Min({n}) \in {n}
  BY MinOf
<1> QED
  BY <1>1

LEMMA Tokens ==
    ASSUME NEW t, NEW s
    PROVE  Tok(t, s).t = t /\ Tok(t, s).s = s
  BY DEF Tok

LEMMA OneTok == ASSUME NEW a PROVE Len(<<a>>) = 1 /\ <<a>>[1] = a /\ DOMAIN <<a>> = {1} /\ <<a>> # <<>>
  OBVIOUS

LEMMA TwoToks ==
    ASSUME NEW a, NEW b, NEW toks, toks = <<a, b>>
    PROVE  /\ Len(toks) = 2 /\ DOMAIN toks = {1, 2} /\ toks[1] = a /\ toks[2] = b
           /\ After(toks, 1) = <<b>>
<1>1. toks \in Seq({a, b}) /\ Len(toks) = 2 /\ toks[2] = b
  OBVIOUS
<1>2. /\ SubSeq(toks, 2, 2) \in Seq({a, b}) /\ Len(SubSeq(toks, 2, 2)) = 1
      /\ SubSeq(toks, 2, 2)[1] = b
  BY <1>1, SubSeqProperties
<1>3. SubSeq(toks, 2, 2) = <<b>>
  <2>1. PICK rest : rest = SubSeq(toks, 2, 2)
    OBVIOUS
  <2>2. PICK listed : listed = <<b>>
    OBVIOUS
  <2>3. listed \in Seq({a, b}) /\ Len(listed) = 1 /\ listed[1] = b
    BY <2>2
  <2>4. \A i \in 1..Len(rest) : rest[i] = listed[i]
    BY <1>2, <2>1, <2>3
  <2>5. rest = listed
    BY <1>2, <2>1, <2>3, <2>4, SeqEqual
  <2> QED
    BY <2>1, <2>2, <2>5
<1> QED
  BY <1>1, <1>3 DEF After

LEMMA ThreeToks ==
    ASSUME NEW a, NEW b, NEW c, NEW toks, toks = <<a, b, c>>
    PROVE  /\ Len(toks) = 3 /\ DOMAIN toks = {1, 2, 3} /\ toks[1] = a /\ toks[2] = b /\ toks[3] = c
           /\ After(toks, 1) = <<b, c>>
<1>1. toks \in Seq({a, b, c}) /\ Len(toks) = 3 /\ toks[2] = b /\ toks[3] = c
  OBVIOUS
<1>2. /\ SubSeq(toks, 2, 3) \in Seq({a, b, c}) /\ Len(SubSeq(toks, 2, 3)) = 2
      /\ SubSeq(toks, 2, 3)[1] = b /\ SubSeq(toks, 2, 3)[2] = c
  BY <1>1, SubSeqProperties
<1>3. SubSeq(toks, 2, 3) = <<b, c>>
  <2>1. PICK rest : rest = SubSeq(toks, 2, 3)
    OBVIOUS
  <2>2. PICK listed : listed = <<b, c>>
    OBVIOUS
  <2>3. listed \in Seq({a, b, c}) /\ Len(listed) = 2 /\ listed[1] = b /\ listed[2] = c
    BY <2>2
  <2>4. \A i \in 1..Len(rest) : rest[i] = listed[i]
    BY <1>2, <2>1, <2>3
  <2>5. rest = listed
    BY <1>2, <2>1, <2>3, <2>4, SeqEqual
  <2> QED
    BY <2>1, <2>2, <2>5
<1> QED
  BY <1>1, <1>3 DEF After

LEMMA FourToks ==
    ASSUME NEW a, NEW b, NEW c, NEW d, NEW toks, toks = <<a, b, c, d>>
    PROVE  /\ Len(toks) = 4 /\ DOMAIN toks = {1, 2, 3, 4} /\ toks[1] = a /\ toks[2] = b /\ toks[3] = c /\ toks[4] = d
           /\ After(toks, 1) = <<b, c, d>>
<1>1. toks \in Seq({a, b, c, d}) /\ Len(toks) = 4 /\ toks[2] = b /\ toks[3] = c /\ toks[4] = d
  OBVIOUS
<1>2. /\ SubSeq(toks, 2, 4) \in Seq({a, b, c, d}) /\ Len(SubSeq(toks, 2, 4)) = 3
      /\ SubSeq(toks, 2, 4)[1] = b /\ SubSeq(toks, 2, 4)[2] = c /\ SubSeq(toks, 2, 4)[3] = d
  BY <1>1, SubSeqProperties
<1>3. SubSeq(toks, 2, 4) = <<b, c, d>>
  <2>1. PICK rest : rest = SubSeq(toks, 2, 4)
    OBVIOUS
  <2>2. PICK listed : listed = <<b, c, d>>
    OBVIOUS
  <2>3. listed \in Seq({a, b, c, d}) /\ Len(listed) = 3 /\ listed[1] = b /\ listed[2] = c /\ listed[3] = d
    BY <2>2
  <2>4. \A i \in 1..Len(rest) : rest[i] = listed[i]
    BY <1>2, <2>1, <2>3
  <2>5. rest = listed
    BY <1>2, <2>1, <2>3, <2>4, SeqEqual
  <2> QED
    BY <2>1, <2>2, <2>5
<1> QED
  BY <1>1, <1>3 DEF After

\* A line of a command and an id is read as that command with that id as its only argument.
LEMMA LineRead ==
    ASSUME NEW name \in {"accept", "retry_bat", "show", "delete"}, NEW id
    PROVE  Classify(Line(name, id)) = ParseSlash(name, <<IdTok(id)>>)
<1>1. PICK toks, a, b : toks = <<a, b>> /\ a = CmdTok(name) /\ b = IdTok(id)
  OBVIOUS
<1>2. a.t = "cmd" /\ a.s = name /\ b.t = "id" /\ b.s = id
  BY <1>1, Tokens DEF CmdTok, IdTok
<1>3. /\ Len(toks) = 2 /\ DOMAIN toks = {1, 2} /\ toks[1] = a /\ toks[2] = b
      /\ After(toks, 1) = <<b>>
  BY <1>1, TwoToks
<1>4. {k \in DOMAIN toks : /\ toks[k].t = "cmd" /\ toks[k].s \in KnownSlash
                           /\ ~UsageChrome(toks[k].s, After(toks, k))} = {1}
  BY <1>2, <1>3 DEF KnownSlash, UsageChrome
<1>5. InlineSlash(toks) = 1
  BY <1>4, MinOfOne DEF InlineSlash
<1>6. Classify(toks) = ParseSlash(name, <<b>>)
  BY <1>2, <1>3, <1>5 DEF Classify
<1> QED
  BY <1>1, <1>6 DEF Line

LEMMA IdRead ==
    ASSUME NEW id, NEW prefixes, id \in prefixes
    PROVE  /\ IdsAt(<<IdTok(id)>>, prefixes) = {1}
           /\ <<IdTok(id)>>[Min({1})].s = id
<1>1. PICK toks, b : toks = <<b>> /\ b = IdTok(id)
  OBVIOUS
<1>2. b.t = "id" /\ b.s = id
  BY <1>1, Tokens DEF IdTok
<1>3. DOMAIN toks = {1} /\ toks[1] = b
  BY <1>1, OneTok
<1>4. IdsAt(toks, prefixes) = {1} /\ toks[Min({1})].s = id
  BY <1>2, <1>3, MinOfOne DEF IdsAt
<1> QED
  BY <1>1, <1>4

LEMMA AcceptRead ==
    ASSUME NEW id \in RowPrefixes
    PROVE  Classify(Line("accept", id)) = Cmd("accept", <<id>>, Word)
<1>1. Classify(Line("accept", id)) = ParseSlash("accept", <<IdTok(id)>>)
  BY LineRead
<1>2. ParseSlash("accept", <<IdTok(id)>>) = ParseLifecycle("accept", <<IdTok(id)>>)
  BY DEF ParseSlash
<1> QED
  BY <1>1, <1>2, IdRead DEF ParseLifecycle

LEMMA RetryRead ==
    ASSUME NEW id \in RetryIds
    PROVE  Classify(Line("retry_bat", id)) = Cmd("retry_bat", <<id>>, Word)
<1>1. Classify(Line("retry_bat", id)) = ParseSlash("retry_bat", <<IdTok(id)>>)
  BY LineRead
<1>2. ParseSlash("retry_bat", <<IdTok(id)>>) = ParseRetry(<<IdTok(id)>>)
  BY DEF ParseSlash
<1> QED
  BY <1>1, <1>2, IdRead DEF ParseRetry, RetryOf, RetryIds

LEMMA IdCollected ==
    ASSUME NEW id, NEW prefixes, id \in prefixes
    PROVE  CollectIds(<<IdTok(id)>>, prefixes) = <<id>>
<1>1. PICK toks : toks = <<IdTok(id)>>
  OBVIOUS
<1>2. IdsAt(toks, prefixes) = {1} /\ toks[1].s = id
  BY <1>1, IdRead, MinOfOne
<1>3. FirstPlaces(toks, prefixes) = {1}
  BY <1>2 DEF FirstPlaces
<1>4. Cardinality({1}) = 1
  BY FS_Singleton
<1>5. Min({1, MaxSavedIds}) = 1
  <2>1. {1, MaxSavedIds} \subseteq Nat /\ MaxSavedIds >= 1
    BY DialogAssumption
  <2>2. Min({1, MaxSavedIds}) \in {1, MaxSavedIds} /\ Min({1, MaxSavedIds}) <= 1
    BY <2>1, MinOf
  <2> QED
    BY <2>1, <2>2
<1>6. Nth({1}, 1) = 1
  <2>1. {j \in {1} : j < 1} = {}
    OBVIOUS
  <2>2. Cardinality({j \in {1} : j < 1}) = 1 - 1
    BY <2>1, FS_EmptySet
  <2> QED
    BY <2>2 DEF Nth
<1>7. CollectIds(toks, prefixes) = [n \in 1..1 |-> toks[Nth({1}, n)].s]
  BY <1>3, <1>4, <1>5 DEF CollectIds
<1>8. CollectIds(toks, prefixes) = [n \in 1..1 |-> id]
  BY <1>2, <1>6, <1>7
<1>9. [n \in 1..1 |-> id] = <<id>>
  OBVIOUS
<1> QED
  BY <1>1, <1>8, <1>9

LEMMA ShowDeleteRead ==
    ASSUME NEW name \in {"show", "delete"}, NEW id \in RowPrefixes \cup {"POST", "XPOST"}
    PROVE  Classify(Line(name, id)) = Cmd(name, <<id>>, Word)
<1>1. Classify(Line(name, id)) = ParseSlash(name, <<IdTok(id)>>)
  BY LineRead
<1>2. ParseSlash(name, <<IdTok(id)>>) = ParseShowDelete(name, <<IdTok(id)>>)
  BY DEF ParseSlash
<1>3. PICK prefixes : prefixes = RowPrefixes \cup {"POST", "XPOST"} \cup IF name = "show" THEN {"DIGEST"} ELSE {}
  OBVIOUS
<1>4. CollectIds(<<IdTok(id)>>, prefixes) = <<id>>
  BY <1>3, IdCollected
<1>5. <<id>> # <<>>
  BY OneTok
<1> QED
  BY <1>1, <1>2, <1>3, <1>4, <1>5 DEF ParseShowDelete

LEMMA ReworkRead ==
    ASSUME NEW id
    PROVE  Classify(ReworkLine(id)) = Freeform /\ HasTok(ReworkLine(id), "angle")
<1>1. PICK toks, a, b, c, d : toks = <<a, b, c, d>> /\ a = CmdTok("rework") /\ b = IdTok(id) /\ c = Angle /\ d = Instructions
  OBVIOUS
<1>2. a.t = "cmd" /\ a.s = "rework" /\ b.t = "id" /\ c.t = "angle" /\ d.t = "instructions"
  BY <1>1, Tokens DEF CmdTok, IdTok, Angle, Instructions
<1>3. /\ Len(toks) = 4 /\ DOMAIN toks = {1, 2, 3, 4} /\ toks[1] = a /\ toks[2] = b /\ toks[3] = c /\ toks[4] = d
      /\ After(toks, 1) = <<b, c, d>>
  BY <1>1, FourToks
<1>4. UsageChrome("rework", <<b, c, d>>)
  <2>1. PICK args : args = <<b, c, d>>
    OBVIOUS
  <2>2. DOMAIN args = {1, 2, 3} /\ args[2] = c /\ args[3] = d
    BY <2>1, ThreeToks
  <2> QED
    BY <1>2, <2>1, <2>2 DEF UsageChrome, HasTok
<1>5. {k \in DOMAIN toks : /\ toks[k].t = "cmd" /\ toks[k].s \in KnownSlash
                           /\ ~UsageChrome(toks[k].s, After(toks, k))} = {}
  BY <1>2, <1>3, <1>4
<1>6. InlineSlash(toks) = 0
  BY <1>5 DEF InlineSlash
<1>7. Classify(toks) = Freeform
  BY <1>2, <1>3, <1>6 DEF Classify
<1>8. HasTok(toks, "angle")
  BY <1>2, <1>3 DEF HasTok
<1> QED
  BY <1>1, <1>7, <1>8 DEF ReworkLine

LEMMA PlaceholderRead ==
    ASSUME NEW name \in {"show", "delete"}
    PROVE  Classify(Placeholder(name)) = Usage /\ HasTok(Placeholder(name), "angle")
<1>1. PICK toks, a, b, c : toks = <<a, b, c>> /\ a = CmdTok(name) /\ b = Angle /\ c = Word
  OBVIOUS
<1>2. a.t = "cmd" /\ a.s = name /\ b.t = "angle" /\ c.t = "word"
  BY <1>1, Tokens DEF CmdTok, Angle, Word
<1>3. /\ Len(toks) = 3 /\ DOMAIN toks = {1, 2, 3} /\ toks[1] = a /\ toks[2] = b /\ toks[3] = c
      /\ After(toks, 1) = <<b, c>>
  BY <1>1, ThreeToks
<1>4. {k \in DOMAIN toks : /\ toks[k].t = "cmd" /\ toks[k].s \in KnownSlash
                           /\ ~UsageChrome(toks[k].s, After(toks, k))} = {1}
  BY <1>2, <1>3 DEF KnownSlash, UsageChrome
<1>5. InlineSlash(toks) = 1
  BY <1>4, MinOfOne DEF InlineSlash
<1>6. PICK args : args = <<b, c>>
  OBVIOUS
<1>7. Classify(toks) = ParseShowDelete(name, args)
  BY <1>2, <1>3, <1>5, <1>6 DEF Classify, ParseSlash
<1>8. ASSUME NEW prefixes PROVE CollectIds(args, prefixes) = <<>>
  <2>1. DOMAIN args = {1, 2} /\ args[1] = b /\ args[2] = c
    BY <1>6, TwoToks
  <2>2. FirstPlaces(args, prefixes) = {}
    BY <1>2, <2>1 DEF FirstPlaces, IdsAt
  <2>3. Min({0, MaxSavedIds}) = 0
    <3>1. {0, MaxSavedIds} \subseteq Nat
      BY DialogAssumption
    <3>2. Min({0, MaxSavedIds}) \in {0, MaxSavedIds} /\ Min({0, MaxSavedIds}) <= 0
      BY <3>1, MinOf
    <3> QED
      BY <3>1, <3>2
  <2>4. CollectIds(args, prefixes) = [n \in 1..0 |-> args[Nth({}, n)].s]
    BY <2>2, <2>3, FS_EmptySet DEF CollectIds
  <2> QED
    BY <2>4
<1>9. HasTok(toks, "angle")
  BY <1>2, <1>3 DEF HasTok
<1> QED
  BY <1>1, <1>7, <1>8, <1>9 DEF ParseShowDelete, Placeholder

LEMMA ChangeRead ==
    ASSUME NEW id \in RowPrefixes, id \notin ReplyPrefixes
    PROVE  Classify(ChangeLine(id)) = Cmd("change_url", <<id>>, NumTok(1))
<1>1. PICK toks, a, b, c : toks = <<a, b, c>> /\ a = CmdTok("change_url") /\ b = IdTok(id) /\ c = NumTok(1)
  OBVIOUS
<1>2. a.t = "cmd" /\ a.s = "change_url" /\ b.t = "id" /\ b.s = id /\ c.t = "num"
  BY <1>1, Tokens DEF CmdTok, IdTok, NumTok
<1>3. /\ Len(toks) = 3 /\ DOMAIN toks = {1, 2, 3} /\ toks[1] = a /\ toks[2] = b /\ toks[3] = c
      /\ After(toks, 1) = <<b, c>>
  BY <1>1, ThreeToks
<1>4. PICK args : args = <<b, c>>
  OBVIOUS
<1>5. Len(args) = 2 /\ DOMAIN args = {1, 2} /\ args[1] = b /\ args[2] = c /\ After(args, 1) = <<c>>
  BY <1>4, TwoToks
<1>6. ~UsageChrome("change_url", args)
  <2>1. UrlChoices.t = "angle"
    BY Tokens DEF UrlChoices
  <2>2. UrlChoices # b /\ UrlChoices # c
    BY <1>2, <2>1
  <2>3. ToSet(args) = {b, c}
    BY <1>5 DEF ToSet
  <2> QED
    BY <2>2, <2>3 DEF UsageChrome
<1>7. {k \in DOMAIN toks : /\ toks[k].t = "cmd" /\ toks[k].s \in KnownSlash
                           /\ ~UsageChrome(toks[k].s, After(toks, k))} = {1}
  BY <1>2, <1>3, <1>4, <1>6 DEF KnownSlash
<1>8. InlineSlash(toks) = 1
  BY <1>7, MinOfOne DEF InlineSlash
<1>9. Classify(toks) = ParseSlash("change_url", args)
  BY <1>2, <1>3, <1>4, <1>8 DEF Classify
<1>10. ParseSlash("change_url", args) = ParseLifecycle("change_url", args)
  BY DEF ParseSlash
<1>11. IdsAt(args, RowPrefixes) = {1} /\ Min({1}) = 1
  BY <1>2, <1>5, MinOfOne DEF IdsAt
<1>12. <<c>> # <<>> /\ <<c>>[1] = c
  BY OneTok
<1>13. ParseLifecycle("change_url", args) = Cmd("change_url", <<id>>, c)
  BY <1>2, <1>5, <1>11, <1>12 DEF ParseLifecycle
<1> QED
  BY <1>1, <1>9, <1>10, <1>13 DEF ChangeLine

-------------------------------------------------------------------------------
IsRow(r) ==
    /\ r = [pre |-> r.pre, there |-> r.there, status |-> r.status, link |-> r.link, options |-> r.options]
    /\ r.pre \in {"DRAFT", "TWEET", "CREPLY"} /\ r.status \in RowStatuses /\ IsList(r.options)

\* A line that an answer about a row of this kind and status prints.
LineFits(line, pre, status) ==
    LET id == DisplayId(pre, status)
    IN \/ line = ReworkLine(id)
       \/ line = ChangeLine(id) /\ pre \notin ReplyPrefixes /\ status \in {"building", "open", "accepted"}
       \/ line = Line("accept", id) /\ \/ status \in {"building", "open"}
                                       \/ pre \notin ReplyPrefixes /\ status = "accepted"
       \/ line \in {Line("show", id), Line("delete", id)}
       \/ line \in {Placeholder("show"), Placeholder("delete")}
       \/ \E given \in RetryIds : /\ line = Line("retry_bat", given) /\ StoreId(given) = pre
                                  /\ status \in {"open", "accepted", "published"}

AllFit(lines, pre, status) ==
    IsList(lines) /\ \A k \in DOMAIN lines : IsList(lines[k]) /\ LineFits(lines[k], pre, status)

DlgInv ==
    /\ IsRow(dlgRow)
    /\ AllFit(dlgScreen.lines, dlgRow.pre, dlgScreen.status)
    /\ dlgScreen.options = dlgRow.options
    /\ dlgDone.op = "change_url" /\ dlgDone.ok => dlgRow.status = "open"

\* The step of NumbersPickWhatIsShown.
NumberPicked ==
    dlgDone'.op = "change_url" /\ dlgDone'.ok /\ dlgDone'.arg.t = "num"
            /\ dlgDone'.arg.n \in DOMAIN dlgScreen.options
        => dlgRow'.link = dlgScreen.options[dlgDone'.arg.n]

LEMMA SeqIsList == ASSUME NEW S, NEW s \in Seq(S) PROVE IsList(s)
  BY DEF IsList, ToSet

LEMMA LinesAreSeqs ==
    ASSUME NEW name, NEW id
    PROVE  /\ IsList(Line(name, id)) /\ IsList(ReworkLine(id)) /\ IsList(ChangeLine(id))
           /\ IsList(Placeholder(name))
<1>1. \A a, b, c, d : /\ <<a, b>> \in Seq({a, b}) /\ <<a, b, c>> \in Seq({a, b, c})
                      /\ <<a, b, c, d>> \in Seq({a, b, c, d})
  OBVIOUS
<1>2. \A a, b, c, d : IsList(<<a, b>>) /\ IsList(<<a, b, c>>) /\ IsList(<<a, b, c, d>>)
  BY <1>1, SeqIsList
<1> QED
  BY <1>2 DEF Line, ReworkLine, ChangeLine, Placeholder

LEMMA NoneFits == ASSUME NEW pre, NEW status PROVE AllFit(<<>>, pre, status)
<1>1. <<>> \in Seq({}) /\ DOMAIN <<>> = {}
  OBVIOUS
<1> QED
  BY <1>1, SeqIsList DEF AllFit

LEMMA OneFits ==
    ASSUME NEW a, NEW pre, NEW status, IsList(a), LineFits(a, pre, status)
    PROVE  AllFit(<<a>>, pre, status)
<1>1. <<a>> \in Seq({a}) /\ DOMAIN <<a>> = {1} /\ <<a>>[1] = a
  OBVIOUS
<1> QED
  BY <1>1, SeqIsList DEF AllFit

LEMMA TwoFit ==
    ASSUME NEW a, NEW b, NEW pre, NEW status,
           \A l \in {a, b} : IsList(l) /\ LineFits(l, pre, status)
    PROVE  AllFit(<<a, b>>, pre, status)
<1>1. <<a, b>> \in Seq({a, b}) /\ \A k \in DOMAIN <<a, b>> : <<a, b>>[k] \in {a, b}
  OBVIOUS
<1> QED
  BY <1>1, SeqIsList DEF AllFit

LEMMA ThreeFit ==
    ASSUME NEW a, NEW b, NEW c, NEW pre, NEW status,
           \A l \in {a, b, c} : IsList(l) /\ LineFits(l, pre, status)
    PROVE  AllFit(<<a, b, c>>, pre, status)
<1>1. <<a, b, c>> \in Seq({a, b, c}) /\ \A k \in DOMAIN <<a, b, c>> : <<a, b, c>>[k] \in {a, b, c}
  OBVIOUS
<1> QED
  BY <1>1, SeqIsList DEF AllFit

LEMMA FourFit ==
    ASSUME NEW a, NEW b, NEW c, NEW d, NEW pre, NEW status,
           \A l \in {a, b, c, d} : IsList(l) /\ LineFits(l, pre, status)
    PROVE  AllFit(<<a, b, c, d>>, pre, status)
<1>1. <<a, b, c, d>> \in Seq({a, b, c, d}) /\ \A k \in DOMAIN <<a, b, c, d>> : <<a, b, c, d>>[k] \in {a, b, c, d}
  OBVIOUS
<1> QED
  BY <1>1, SeqIsList DEF AllFit

\* The lines of an answer about a row fit the row.
LEMMA HintsFit ==
    ASSUME NEW pre \in {"DRAFT", "TWEET", "CREPLY"}, NEW status \in RowStatuses
    PROVE  AllFit(HintsOf(pre, status), pre, status)
<1>1. PICK id : id = DisplayId(pre, status)
  OBVIOUS
<1>2. \A name : IsList(Line(name, id)) /\ IsList(ReworkLine(id)) /\ IsList(ChangeLine(id))
  BY LinesAreSeqs
<1>3. LineFits(ReworkLine(id), pre, status) /\ LineFits(Line("show", id), pre, status)
      /\ LineFits(Line("delete", id), pre, status)
  BY <1>1 DEF LineFits
<1>4. CASE pre = "CREPLY"
  <2>1. HintsOf(pre, status) = ReplyNextHints(id, status)
    BY <1>1, <1>4 DEF HintsOf, ReplyPrefixes
  <2>2. CASE status \in {"open", "building"}
    <3>1. LineFits(Line("accept", id), pre, status)
      BY <1>1, <2>2 DEF LineFits
    <3>2. ReplyNextHints(id, status) = <<ReworkLine(id), Line("accept", id)>>
      BY <2>2 DEF ReplyNextHints
    <3> QED
      BY <1>2, <1>3, <2>1, <3>1, <3>2, TwoFit
  <2>3. CASE status \in {"published", "failed"}
    <3>1. ReplyNextHints(id, status) = <<Line("show", id), Line("delete", id)>>
      BY <2>3 DEF ReplyNextHints
    <3> QED
      BY <1>2, <1>3, <2>1, <3>1, TwoFit
  <2>4. CASE status = "accepted"
    <3>1. ReplyNextHints(id, status) = <<>>
      BY <2>4 DEF ReplyNextHints
    <3> QED
      BY <2>1, <3>1, NoneFits
  <2> QED
    BY <2>2, <2>3, <2>4 DEF RowStatuses
<1>5. CASE pre # "CREPLY"
  <2>1. HintsOf(pre, status) = NextSlashHints(id, status) /\ pre \notin ReplyPrefixes
    BY <1>1, <1>5 DEF HintsOf, ReplyPrefixes
  <2>2. CASE status \in {"open", "building", "accepted"}
    <3>1. LineFits(Line("accept", id), pre, status) /\ LineFits(ChangeLine(id), pre, status)
      BY <1>1, <2>1, <2>2 DEF LineFits
    <3>2. CASE status # "accepted"
      <4>1. NextSlashHints(id, status) = <<ReworkLine(id), ChangeLine(id), Line("accept", id)>>
        BY <2>2, <3>2 DEF NextSlashHints
      <4> QED
        BY <1>2, <1>3, <2>1, <3>1, <4>1, ThreeFit
    <3>3. CASE status = "accepted"
      <4>1. NextSlashHints(id, status) = <<ReworkLine(id), ChangeLine(id), Line("accept", id), Line("retry_bat", id)>>
        BY <3>3 DEF NextSlashHints
      <4>2. id \in RetryIds /\ StoreId(id) = pre
        BY <1>1, <1>5, <3>3 DEF DisplayId, StoreId, RetryIds
      <4>3. LineFits(Line("retry_bat", id), pre, status)
        BY <3>3, <4>2 DEF LineFits
      <4> QED
        BY <1>2, <1>3, <2>1, <3>1, <4>1, <4>3, FourFit
    <3> QED
      BY <3>2, <3>3
  <2>3. CASE status = "published"
    <3>1. NextSlashHints(id, status) = <<Line("retry_bat", id), Line("show", id), Line("delete", id)>>
      BY <2>3 DEF NextSlashHints
    <3>2. id \in RetryIds /\ StoreId(id) = pre
      BY <1>1, <1>5, <2>3 DEF DisplayId, StoreId, RetryIds
    <3>3. LineFits(Line("retry_bat", id), pre, status)
      BY <2>3, <3>2 DEF LineFits
    <3> QED
      BY <1>2, <1>3, <2>1, <3>1, <3>3, ThreeFit
  <2>4. CASE status = "failed"
    <3>1. NextSlashHints(id, status) = <<Line("show", id), Line("delete", id)>>
      BY <2>4 DEF NextSlashHints
    <3> QED
      BY <1>2, <1>3, <2>1, <3>1, TwoFit
  <2> QED
    BY <2>2, <2>3, <2>4 DEF RowStatuses
<1> QED
  BY <1>4, <1>5

\* What NextLinesWork says of a line.
Works(line, row) ==
    LET c == Classify(line)
    IN \/ c.op \in {"freeform", "usage"} /\ HasTok(line, "angle")
       \/ /\ c.op = line[1].s /\ Len(c.ids) = 1
          /\ StoreId(c.ids[1]) = row.pre /\ Allows(c.op, row)

\* A line that fits is the command it names, on the row, and the gates let it through.
LEMMA FittingLineWorks ==
    ASSUME NEW row, IsRow(row), row.status # "building", NEW line, LineFits(line, row.pre, row.status)
    PROVE  Works(line, row)
<1>1. PICK id : id = DisplayId(row.pre, row.status)
  OBVIOUS
<1>2. /\ row.pre \in {"DRAFT", "TWEET", "CREPLY"} /\ row.status \in RowStatuses
      /\ StoreId(id) = row.pre /\ id \in RowPrefixes \cup {"POST", "XPOST"}
      /\ row.status # "published" => id = row.pre /\ id \in RowPrefixes
  BY <1>1 DEF IsRow, DisplayId, StoreId, RowPrefixes
<1>3. \A op, given, arg : /\ Cmd(op, <<given>>, arg).op = op /\ Len(Cmd(op, <<given>>, arg).ids) = 1
                          /\ Cmd(op, <<given>>, arg).ids[1] = given
  BY DEF Cmd
<1>4. \A name, given : Line(name, given)[1].s = name
  BY Tokens DEF Line, CmdTok
<1>5. CASE line = ReworkLine(id)
  BY <1>5, ReworkRead DEF Works, Freeform, Cmd
<1>6. CASE line = ChangeLine(id) /\ row.pre \notin ReplyPrefixes /\ row.status \in {"open", "accepted"}
  <2>1. Classify(line) = Cmd("change_url", <<id>>, NumTok(1))
    BY <1>2, <1>6, ChangeRead
  <2>2. line[1].s = "change_url"
    BY <1>6, Tokens DEF ChangeLine, CmdTok
  <2>3. Allows("change_url", row)
    BY <1>6 DEF Allows
  <2> QED
    BY <1>2, <1>3, <2>1, <2>2, <2>3 DEF Works
<1>7. CASE /\ line = Line("accept", id)
           /\ row.status = "open" \/ (row.pre \notin ReplyPrefixes /\ row.status = "accepted")
  <2>1. Classify(line) = Cmd("accept", <<id>>, Word)
    BY <1>2, <1>7, AcceptRead
  <2>2. Allows("accept", row)
    BY <1>7 DEF Allows
  <2>3. id \in RowPrefixes
    BY <1>2, <1>7
  <2> QED
    BY <1>2, <1>3, <1>4, <1>7, <2>1, <2>2 DEF Works
<1>8. ASSUME NEW name \in {"show", "delete"}, line = Line(name, id)
      PROVE  Works(line, row)
  <2>1. Classify(line) = Cmd(name, <<id>>, Word)
    BY <1>2, <1>8, ShowDeleteRead
  <2>2. Allows(name, row)
    BY DEF Allows
  <2> QED
    BY <1>2, <1>3, <1>4, <1>8, <2>1, <2>2 DEF Works
<1>9. ASSUME NEW given \in RetryIds, line = Line("retry_bat", given), StoreId(given) = row.pre,
             row.status \in {"open", "accepted", "published"}
      PROVE  Works(line, row)
  <2>1. Classify(line) = Cmd("retry_bat", <<given>>, Word)
    BY <1>9, RetryRead
  <2>2. Allows("retry_bat", row)
    BY <1>9 DEF Allows
  <2> QED
    BY <1>3, <1>4, <1>9, <2>1, <2>2 DEF Works
<1>12. ASSUME NEW name \in {"show", "delete"}, line = Placeholder(name)
       PROVE  Works(line, row)
  BY <1>12, PlaceholderRead DEF Works, Usage, Cmd
<1>10. PICK pre, status : pre = row.pre /\ status = row.status
  OBVIOUS
<1>11. \/ line = ReworkLine(id)
       \/ line = ChangeLine(id) /\ pre \notin ReplyPrefixes /\ status \in {"building", "open", "accepted"}
       \/ /\ line = Line("accept", id)
          /\ status \in {"building", "open"} \/ (pre \notin ReplyPrefixes /\ status = "accepted")
       \/ line \in {Line("show", id), Line("delete", id)}
       \/ line \in {Placeholder("show"), Placeholder("delete")}
       \/ \E given \in RetryIds : /\ line = Line("retry_bat", given) /\ StoreId(given) = pre
                                  /\ status \in {"open", "accepted", "published"}
  <2>1. LineFits(line, pre, status) /\ id = DisplayId(pre, status)
    BY <1>1, <1>10
  <2> QED
    BY <2>1 DEF LineFits
<1> QED
  BY <1>5, <1>6, <1>7, <1>8, <1>9, <1>10, <1>11, <1>12

\* A text is read as a retry only of an id that can be retried.
LEMMA RetriesAreOfRows ==
    ASSUME NEW S, NEW toks \in Seq(S), NEW c, c = Classify(toks), c.op = "retry_bat", c.ids # <<>>
    PROVE  c.ids[1] \in RetryIds
<1>1. /\ \A op, arg : Cmd(op, <<>>, arg).ids = <<>>
      /\ \A op, ids, arg : Cmd(op, ids, arg).op = op
  BY DEF Cmd
<1>2. ~(Len(toks) = 1 /\ toks[1].t = "bare") /\ InlineSlash(toks) # 0
  BY <1>1 DEF Classify, Freeform
<1>3. PICK at, name, args : at = InlineSlash(toks) /\ name = toks[at].s /\ args = After(toks, at)
  OBVIOUS
<1>4. c = ParseSlash(name, args)
  BY <1>2, <1>3 DEF Classify
<1>5. at \in Nat /\ at <= Len(toks)
  <2> DEFINE here == {k \in DOMAIN toks : /\ toks[k].t = "cmd" /\ toks[k].s \in KnownSlash
                                          /\ ~UsageChrome(toks[k].s, After(toks, k))}
  <2>1. here \subseteq Nat /\ here \subseteq 1..Len(toks)
    OBVIOUS
  <2>2. here # {} /\ at = Min(here)
    BY <1>2, <1>3 DEF InlineSlash
  <2>3. at \in here
    <3> HIDE DEF here
    <3> QED
      BY <2>1, <2>2, MinOf
  <2> QED
    BY <2>1, <2>3
<1>6. args \in Seq(S)
  BY <1>3, <1>5, SubSeqProperties DEF After
<1>7. CASE name \in {"show", "delete"}
  <2>1. c = ParseShowDelete(name, args)
    BY <1>4, <1>7 DEF ParseSlash
  <2> QED
    BY <1>1, <1>7, <2>1 DEF ParseShowDelete, Usage
<1>8. CASE name \in {"accept", "rework", "change_url"}
  <2>1. c = ParseLifecycle(name, args)
    BY <1>4, <1>8 DEF ParseSlash
  <2> QED
    BY <1>1, <1>8, <2>1 DEF ParseLifecycle, Usage
<1>9. CASE name = "retry_bat"
  <2>1. c = RetryOf(args, RetryIds)
    BY <1>4, <1>9 DEF ParseSlash, ParseRetry, RetryIds
  <2>2. IdsAt(args, RetryIds) # {}
    BY <1>1, <2>1 DEF RetryOf, Usage
  <2>3. IdsAt(args, RetryIds) \subseteq Nat
    BY <1>6 DEF IdsAt
  <2>4. Min(IdsAt(args, RetryIds)) \in IdsAt(args, RetryIds)
    BY <2>2, <2>3, MinOf
  <2>5. args[Min(IdsAt(args, RetryIds))].s \in RetryIds
    BY <2>4 DEF IdsAt
  <2>6. c = Cmd("retry_bat", <<args[Min(IdsAt(args, RetryIds))].s>>, Word)
    BY <2>1, <2>2 DEF RetryOf
  <2> QED
    BY <2>5, <2>6 DEF Cmd
<1>10. CASE name \notin {"show", "delete", "accept", "rework", "change_url", "retry_bat"}
  <2>1. c.ids = <<>>
    BY <1>1, <1>4, <1>10 DEF ParseSlash, Usage
  <2> QED
    BY <2>1
<1> QED
  BY <1>7, <1>8, <1>9, <1>10

LEMMA PromotedOptions ==
    ASSUME NEW options, IsList(options), NEW url
    PROVE  IsList(PromoteLinkOption(options, url))
<1>1. PICK places : places = {i \in DOMAIN options : DlgSite[options[i]] # DlgSite[url]}
  OBVIOUS
<1>2. PICK S : S = ToSet(options) \cup {url}
  OBVIOUS
<1>3. options \in Seq(S) /\ <<url>> \in Seq(S)
  <2>1. options \in Seq(ToSet(options)) /\ ToSet(options) \subseteq S
    BY <1>2 DEF IsList
  <2>2. options \in Seq(S)
    BY <2>1, SeqMonotonic
  <2> QED
    BY <1>2, <2>2
<1>4. Keep(options, places) \in Seq(S)
  BY <1>3, KeepIsKept
<1>5. PICK all : all = <<url>> \o Keep(options, places)
  OBVIOUS
<1>6. all \in Seq(S)
  BY <1>3, <1>4, <1>5, ConcatProperties
<1>7. Listing(all) /\ LinkOptionsCap \in Int
  BY <1>6, AnyListing, DialogAssumption
<1>8. Listing(UpTo(LinkOptionsCap, all))
  BY <1>7, CutList
<1>9. UpTo(LinkOptionsCap, all) = PromoteLinkOption(options, url)
  BY <1>1, <1>5 DEF PromoteLinkOption, Only
<1> QED
  BY <1>8, <1>9, SeqIsList DEF Listing

\* What a command leaves behind.
LEMMA FinishedInv ==
    ASSUME DlgInv, NEW c, NEW row, NEW lines, NEW ok, Finish(c, row, Screen(row, lines), ok),
           IsRow(row), AllFit(lines, row.pre, row.status),
           c.op = "change_url" /\ ok => row.status = "open"
    PROVE  DlgInv'
<1>1. /\ dlgRow' = row /\ dlgScreen'.lines = lines /\ dlgScreen'.status = row.status
      /\ dlgScreen'.options = row.options /\ dlgDone'.op = c.op /\ dlgDone'.ok = ok
  BY DEF Finish, Screen
<1> QED
  BY <1>1 DEF DlgInv

LEMMA PlainInv ==
    ASSUME DlgInv, NEW c, NEW row, NEW ok, Finish(c, row, PlainAnswer(row), ok),
           IsRow(row), c.op = "change_url" /\ ok => row.status = "open"
    PROVE  DlgInv'
  BY NoneFits, FinishedInv DEF PlainAnswer

LEMMA RowScreenInv ==
    ASSUME DlgInv, NEW c, NEW row, NEW ok, Finish(c, row, RowScreen(row), ok),
           IsRow(row), c.op = "change_url" /\ ok => row.status = "open"
    PROVE  DlgInv'
<1>1. AllFit(HintsOf(row.pre, row.status), row.pre, row.status)
  BY HintsFit DEF IsRow
<1> QED
  BY <1>1, FinishedInv DEF RowScreen

LEMMA RefusedInv == ASSUME DlgInv, NEW c, RefuseLine(c) PROVE DlgInv' /\ ~dlgDone'.ok
<1>1. IsRow(dlgRow) /\ Finish(c, dlgRow, PlainAnswer(dlgRow), FALSE)
  BY DEF DlgInv, RefuseLine
<1>2. ~dlgDone'.ok
  BY <1>1 DEF Finish
<1> QED
  BY <1>1, <1>2, PlainInv

WithStatus(r, st) == [r EXCEPT !.status = st]
WithLink(r, u) == [r EXCEPT !.link = u]
Swapped(r, u) == [r EXCEPT !.link = u, !.options = PromoteLinkOption(@, u)]

LEMMA StatusSet ==
    ASSUME NEW r, IsRow(r), NEW st \in RowStatuses, NEW e, e = WithStatus(r, st)
    PROVE  IsRow(e) /\ e.status = st /\ e.pre = r.pre /\ e.options = r.options
<1>1. e = [pre |-> r.pre, there |-> r.there, status |-> st, link |-> r.link, options |-> r.options]
  BY DEF IsRow, WithStatus
<1>2. e.status = st /\ e.pre = r.pre /\ e.options = r.options /\ e.there = r.there /\ e.link = r.link
  BY <1>1
<1> QED
  BY <1>1, <1>2 DEF IsRow

LEMMA LinkSet ==
    ASSUME NEW r, IsRow(r), NEW u, NEW e, e = WithLink(r, u)
    PROVE  IsRow(e) /\ e.status = r.status /\ e.pre = r.pre
<1>1. e = [pre |-> r.pre, there |-> r.there, status |-> r.status, link |-> u, options |-> r.options]
  BY DEF IsRow, WithLink
<1>2. e.status = r.status /\ e.pre = r.pre /\ e.options = r.options /\ e.there = r.there /\ e.link = u
  BY <1>1
<1> QED
  BY <1>1, <1>2 DEF IsRow

LEMMA LinkSwapped ==
    ASSUME NEW r, IsRow(r), NEW u, NEW e,
           e = Swapped(r, u)
    PROVE  IsRow(e) /\ e.status = r.status /\ e.link = u
<1>1. PICK opts : opts = PromoteLinkOption(r.options, u)
  OBVIOUS
<1>2. e = [pre |-> r.pre, there |-> r.there, status |-> r.status, link |-> u, options |-> opts]
  <2>1. PICK linked : linked = WithLink(r, u)
    OBVIOUS
  <2>2. linked = [pre |-> r.pre, there |-> r.there, status |-> r.status, link |-> u, options |-> r.options]
    BY <2>1 DEF IsRow, WithLink
  <2>3. linked.options = r.options
    BY <2>2
  <2>4. e = [linked EXCEPT !.options = opts]
    BY <1>1, <2>1, <2>3 DEF Swapped, WithLink
  <2> QED
    BY <2>2, <2>4
<1>3. e.status = r.status /\ e.pre = r.pre /\ e.options = opts /\ e.there = r.there /\ e.link = u
  BY <1>2
<1>4. IsList(opts)
  BY <1>1, PromotedOptions DEF IsRow
<1> QED
  BY <1>2, <1>3, <1>4 DEF IsRow

LEMMA AcceptInv == ASSUME DlgInv, NEW c, c.op = "accept", AcceptRow(c) PROVE DlgInv'
<1>1. CASE RefuseLine(c)
  BY <1>1, RefusedInv
<1>2. IsRow(dlgRow)
  BY DEF DlgInv
<1>3. PICK acc, pub : acc = WithStatus(dlgRow, "accepted") /\ pub = WithStatus(dlgRow, "published")
  OBVIOUS
<1>4. IsRow(acc) /\ IsRow(pub)
  BY <1>2, <1>3, StatusSet DEF RowStatuses
<1>5. CASE Finish(c, acc, RowScreen(acc), TRUE)
  BY <1>4, <1>5, RowScreenInv
<1>6. CASE Finish(c, pub, PlainAnswer(pub), TRUE)
  BY <1>4, <1>6, PlainInv
<1> QED
  BY <1>1, <1>3, <1>5, <1>6 DEF AcceptRow, WithStatus

LEMMA ReworkRowInv == ASSUME DlgInv, NEW c, c.op = "rework", ReworkRow(c) PROVE DlgInv'
<1>1. CASE RefuseLine(c)
  BY <1>1, RefusedInv
<1>2. IsRow(dlgRow)
  BY DEF DlgInv
<1>3. PICK r : r = WithStatus(dlgRow, "open")
  OBVIOUS
<1>4. IsRow(r)
  BY <1>2, <1>3, StatusSet DEF RowStatuses
<1>5. CASE Finish(c, r, RowScreen(r), TRUE)
  BY <1>4, <1>5, RowScreenInv
<1>6. CASE Finish(c, r, PlainAnswer(r), FALSE)
  BY <1>4, <1>6, PlainInv
<1> QED
  BY <1>1, <1>3, <1>5, <1>6 DEF ReworkRow, WithStatus

LEMMA ChangeRowUrlInv ==
    ASSUME DlgInv, NEW c, c.op = "change_url", ChangeRowUrl(c)
    PROVE  DlgInv' /\ NumberPicked
<1>1. CASE RefuseLine(c)
  BY <1>1, RefusedInv DEF NumberPicked
<1>2. IsRow(dlgRow)
  BY DEF DlgInv
<1>3. PICK open, n : open = WithStatus(dlgRow, "open") /\ n = c.arg.n
  OBVIOUS
<1>4. IsRow(open) /\ open.status = "open" /\ open.options = dlgScreen.options
  <2>1. IsRow(open) /\ open.status = "open" /\ open.options = dlgRow.options
    BY <1>2, <1>3, StatusSet DEF RowStatuses
  <2> QED
    BY <2>1 DEF DlgInv
<1>5. \A row, screen, ok : Finish(c, row, screen, ok) =>
          dlgRow' = row /\ dlgDone'.arg = c.arg /\ dlgDone'.ok = ok
  BY DEF Finish
<1>6. ASSUME NEW u, NEW r, r = Swapped(open, u),
             Finish(c, r, RowScreen(r), TRUE)
      PROVE  DlgInv' /\ dlgRow'.link = u
  <2>1. IsRow(r) /\ r.status = "open" /\ r.link = u
    BY <1>4, <1>6, LinkSwapped
  <2> QED
    BY <1>5, <1>6, <2>1, RowScreenInv
<1>7. ASSUME c.arg.t = "num", n = 0, NEW r, r = WithLink(open, "none"), Finish(c, r, RowScreen(r), TRUE)
      PROVE  DlgInv' /\ NumberPicked
  <2>1. IsRow(r) /\ r.status = "open"
    BY <1>4, <1>7, LinkSet
  <2>2. 0 \notin DOMAIN dlgScreen.options
    BY <1>4 DEF IsRow, IsList
  <2> QED
    BY <1>3, <1>5, <1>7, <2>1, <2>2, RowScreenInv DEF NumberPicked
<1>8. CASE Finish(c, open, PlainAnswer(open), FALSE)
  BY <1>4, <1>5, <1>8, PlainInv DEF NumberPicked
<1>9. CASE ~RefuseLine(c)
  <2>1. \/ /\ c.arg.t = "num" /\ n = 0
           /\ Finish(c, WithLink(open, "none"), RowScreen(WithLink(open, "none")), TRUE)
        \/ /\ c.arg.t = "num" /\ n \in DOMAIN open.options
           /\ \E r : /\ r = Swapped(open, OptionAt(open.options, n))
                     /\ Finish(c, r, RowScreen(r), TRUE)
        \/ /\ c.arg.t = "url"
           /\ \E r : /\ r = Swapped(open, c.arg.s)
                     /\ Finish(c, r, RowScreen(r), TRUE)
        \/ Finish(c, open, PlainAnswer(open), FALSE)
    BY <1>3, <1>9 DEF ChangeRowUrl, WithStatus, WithLink, Swapped
  <2>2. CASE /\ c.arg.t = "num" /\ n = 0
             /\ Finish(c, WithLink(open, "none"), RowScreen(WithLink(open, "none")), TRUE)
    BY <1>7, <2>2
  <2>3. ASSUME c.arg.t = "num", n \in DOMAIN open.options,
               NEW r, r = Swapped(open, OptionAt(open.options, n)),
               Finish(c, r, RowScreen(r), TRUE)
        PROVE  DlgInv' /\ NumberPicked
    <3>1. DlgInv' /\ dlgRow'.link = OptionAt(open.options, n)
      BY <1>6, <2>3
    <3> QED
      BY <1>3, <1>4, <1>5, <2>3, <3>1 DEF NumberPicked, OptionAt
  <2>4. ASSUME c.arg.t = "url",
               NEW r, r = Swapped(open, c.arg.s),
               Finish(c, r, RowScreen(r), TRUE)
        PROVE  DlgInv' /\ NumberPicked
    <3>1. DlgInv' /\ dlgDone'.arg.t # "num"
      BY <1>5, <1>6, <2>4
    <3> QED
      BY <3>1 DEF NumberPicked
  <2> QED
    BY <1>8, <2>1, <2>2, <2>3, <2>4
<1> QED
  BY <1>1, <1>9

LEMMA RetryInv ==
    ASSUME DlgInv, NEW c, c.op = "retry_bat", c.ids # <<>> => c.ids[1] \in RetryIds, RetryRow(c)
    PROVE  DlgInv'
<1>1. CASE RefuseLine(c)
  BY <1>1, RefusedInv
<1>2. IsRow(dlgRow)
  BY DEF DlgInv
<1>3. CASE /\ Mine(c) /\ Allows("retry_bat", dlgRow)
           /\ Finish(c, dlgRow, Screen(dlgRow, <<Line("retry_bat", c.ids[1])>>), FALSE)
  <2>1. c.ids[1] \in RetryIds /\ StoreId(c.ids[1]) = dlgRow.pre
    BY <1>3 DEF Mine
  <2>2. dlgRow.status \in {"open", "accepted", "published"}
    BY <1>3 DEF Allows
  <2>3. LineFits(Line("retry_bat", c.ids[1]), dlgRow.pre, dlgRow.status)
    BY <2>1, <2>2 DEF LineFits
  <2>4. AllFit(<<Line("retry_bat", c.ids[1])>>, dlgRow.pre, dlgRow.status)
    BY <2>3, LinesAreSeqs, OneFits
  <2> QED
    BY <1>2, <1>3, <2>4, FinishedInv
<1>4. CASE Finish(c, WithStatus(dlgRow, "published"), PlainAnswer(WithStatus(dlgRow, "published")), TRUE)
  <2>1. PICK r : r = WithStatus(dlgRow, "published")
    OBVIOUS
  <2>2. IsRow(r)
    BY <1>2, <2>1, StatusSet DEF RowStatuses
  <2> QED
    BY <1>4, <2>1, <2>2, PlainInv
<1> QED
  BY <1>1, <1>3, <1>4 DEF RetryRow, WithStatus

LEMMA ShownInv ==
    ASSUME DlgInv, NEW c, c.op \in {"show", "delete", "list"}, ShowRow(c) \/ DeleteRow(c) \/ ListRows(c)
    PROVE  DlgInv'
<1>1. CASE RefuseLine(c)
  BY <1>1, RefusedInv
<1>2. IsRow(dlgRow)
  BY DEF DlgInv
<1>3. CASE Finish(c, dlgRow, RowScreen(dlgRow), TRUE)
  BY <1>2, <1>3, RowScreenInv
<1>4. CASE DeleteRow(c) /\ ~RefuseLine(c)
  <2>1. PICK r : r = [dlgRow EXCEPT !.there = FALSE]
    OBVIOUS
  <2>2. r = [pre |-> dlgRow.pre, there |-> FALSE, status |-> dlgRow.status, link |-> dlgRow.link, options |-> dlgRow.options]
    BY <1>2, <2>1 DEF IsRow
  <2>3. IsRow(r)
    <3>1. r.pre = dlgRow.pre /\ r.there = FALSE /\ r.status = dlgRow.status /\ r.link = dlgRow.link /\ r.options = dlgRow.options
      BY <2>2
    <3> QED
      BY <1>2, <2>2, <3>1 DEF IsRow
  <2>4. Finish(c, r, PlainAnswer(r), TRUE)
    BY <1>4, <2>1 DEF DeleteRow
  <2> QED
    BY <2>3, <2>4, PlainInv
<1>5. CASE ListRows(c)
  <2>1. PICK lines : lines = IF dlgRow.there THEN <<Placeholder("show"), Placeholder("delete")>> ELSE <<>>
    OBVIOUS
  <2>2. PICK a, b : a = Placeholder("show") /\ b = Placeholder("delete")
    OBVIOUS
  <2>3. IsList(a) /\ IsList(b)
    BY <2>2, LinesAreSeqs
  <2>4. LineFits(a, dlgRow.pre, dlgRow.status) /\ LineFits(b, dlgRow.pre, dlgRow.status)
    BY <2>2 DEF LineFits
  <2>5. AllFit(<<a, b>>, dlgRow.pre, dlgRow.status)
    BY <2>3, <2>4, TwoFit
  <2>6. AllFit(lines, dlgRow.pre, dlgRow.status)
    BY <2>1, <2>2, <2>5, NoneFits
  <2>7. Finish(c, dlgRow, Screen(dlgRow, lines), TRUE)
    BY <1>5, <2>1 DEF ListRows
  <2> QED
    BY <1>2, <2>6, <2>7, FinishedInv
<1> QED
  BY <1>1, <1>3, <1>4, <1>5 DEF ShowRow

LEMMA RunInv ==
    ASSUME DlgInv, NEW S, NEW toks \in Seq(S), Run(Classify(toks))
    PROVE  DlgInv' /\ NumberPicked
<1>1. PICK c : c = Classify(toks)
  OBVIOUS
<1>2. c.op = "retry_bat" /\ c.ids # <<>> => c.ids[1] \in RetryIds
  BY <1>1, RetriesAreOfRows
<1>3. Run(c)
  BY <1>1
<1>4. dlgDone'.op = c.op
  BY <1>3 DEF Run, AcceptRow, ReworkRow, ChangeRowUrl, RetryRow, ShowRow, DeleteRow, ListRows, RefuseLine, Finish
<1>5. c.op # "change_url" => NumberPicked
  BY <1>4 DEF NumberPicked
<1>6. CASE c.op = "accept"
  BY <1>3, <1>5, <1>6, AcceptInv DEF Run
<1>7. CASE c.op = "rework"
  BY <1>3, <1>5, <1>7, ReworkRowInv DEF Run
<1>8. CASE c.op = "change_url"
  BY <1>3, <1>8, ChangeRowUrlInv DEF Run
<1>9. CASE c.op = "retry_bat"
  BY <1>2, <1>3, <1>5, <1>9, RetryInv DEF Run
<1>10. CASE c.op \in {"show", "delete", "list"}
  <2>1. ShowRow(c) \/ DeleteRow(c) \/ ListRows(c)
    BY <1>3, <1>10 DEF Run
  <2>2. DlgInv'
    BY <1>10, <2>1, ShownInv
  <2> QED
    BY <1>5, <1>10, <2>2
<1>11. CASE c.op \notin {"accept", "rework", "change_url", "retry_bat", "show", "delete", "list"}
  <2>1. IsRow(dlgRow) /\ Finish(c, dlgRow, PlainAnswer(dlgRow), TRUE)
    BY <1>3, <1>11 DEF Run, DlgInv
  <2> QED
    BY <1>5, <1>11, <2>1, PlainInv
<1> QED
  BY <1>6, <1>7, <1>8, <1>9, <1>10, <1>11

LEMMA DlgInitInv == DlgInit => DlgInv
<1> SUFFICES ASSUME DlgInit
             PROVE  DlgInv
  OBVIOUS
<1>1. PICK pre \in DlgPrefixes, st \in RowStatuses, opts \in SetToSeqs(DlgUrls) :
          dlgRow = [pre |-> pre, there |-> TRUE, status |-> st, link |-> "none",
                    options |-> IF pre = "CREPLY" THEN <<>> ELSE opts]
  BY DEF DlgInit
<1>2. PICK shown : shown = IF pre = "CREPLY" THEN <<>> ELSE opts
  OBVIOUS
<1>3. IsList(shown)
  <2>1. Cardinality(DlgUrls) \in Nat
    BY DialogAssumption, FS_CardinalityType
  <2>2. opts \in Seq(DlgUrls)
    BY <2>1 DEF SetToSeqs
  <2>3. <<>> \in Seq(DlgUrls)
    OBVIOUS
  <2> QED
    BY <1>2, <2>2, <2>3, SeqIsList
<1>4. dlgRow = [pre |-> pre, there |-> TRUE, status |-> st, link |-> "none", options |-> shown]
  BY <1>1, <1>2
<1>5. dlgRow.pre = pre /\ dlgRow.there = TRUE /\ dlgRow.status = st /\ dlgRow.link = "none" /\ dlgRow.options = shown
  BY <1>4
<1>6. IsRow(dlgRow)
  BY <1>3, <1>4, <1>5, DialogAssumption DEF IsRow
<1>7. dlgScreen.lines = <<>> /\ dlgScreen.options = dlgRow.options
  BY DEF DlgInit, PlainAnswer, Screen
<1>8. AllFit(dlgScreen.lines, dlgRow.pre, dlgScreen.status)
  BY <1>7, NoneFits
<1>9. dlgDone.op # "change_url"
  BY DEF DlgInit
<1> QED
  BY <1>6, <1>7, <1>8, <1>9 DEF DlgInv

\* The lines of an answer, one or several, are a text.
LEMMA PastedText ==
    ASSUME DlgInv, NEW k \in DOMAIN dlgScreen.lines
    PROVE  \E S : /\ dlgScreen.lines[k] \in Seq(S)
                 /\ FlattenSeq(SubSeq(dlgScreen.lines, k, Len(dlgScreen.lines))) \in Seq(S)
<1>1. PICK lines : lines = dlgScreen.lines
  OBVIOUS
<1>2. lines \in Seq(ToSet(lines)) /\ \A i \in DOMAIN lines : lines[i] \in Seq(ToSet(lines[i]))
  BY <1>1 DEF DlgInv, AllFit, IsList
<1>3. PICK S : S = UNION {ToSet(lines[i]) : i \in DOMAIN lines}
  OBVIOUS
<1>4. ASSUME NEW i \in DOMAIN lines
      PROVE  lines[i] \in Seq(S)
  <2>1. ToSet(lines[i]) \subseteq S
    BY <1>3
  <2> QED
    BY <1>2, <2>1, SeqMonotonic
<1>5. lines \in Seq(Seq(S))
  <2>1. DOMAIN lines = 1..Len(lines) /\ Len(lines) \in Nat
    BY <1>2
  <2>2. lines = [i \in 1..Len(lines) |-> lines[i]]
    BY <1>2
  <2>3. \A i \in 1..Len(lines) : lines[i] \in Seq(S)
    BY <1>4, <2>1
  <2> QED
    BY <2>1, <2>2, <2>3, IsASeq
<1>6. k \in 1..Len(lines)
  BY <1>1, <1>2
<1>7. SubSeq(lines, k, Len(lines)) \in Seq(Seq(S))
  BY <1>5, <1>6, SubSeqProperties
<1>8. FlattenSeq(SubSeq(lines, k, Len(lines))) \in Seq(S)
  BY <1>7, Flattened
<1> QED
  BY <1>1, <1>4, <1>6, <1>8

LEMMA TextsAreSeqs == ASSUME NEW toks \in Texts PROVE \E S : toks \in Seq(S)
<1>1. \A a : <<a>> \in Seq({a})
  OBVIOUS
<1>2. \A a, b : <<a, b>> \in Seq({a, b})
  OBVIOUS
<1>3. \A a, b, c : <<a, b, c>> \in Seq({a, b, c})
  OBVIOUS
<1>4. \A a, b, c, d : <<a, b, c, d>> \in Seq({a, b, c, d})
  OBVIOUS
<1>5. \/ \E a : toks = <<a>>
      \/ \E a, b : toks = <<a, b>>
      \/ \E a, b, c : toks = <<a, b, c>>
      \/ \E a, b, c, d : toks = <<a, b, c, d>>
  BY DEF Texts, Line
<1>6. CASE \E a : toks = <<a>>
  <2>1. PICK a : toks = <<a>>
    BY <1>6
  <2>2. toks \in Seq({a})
    BY <1>1, <2>1
  <2> QED
    BY <2>2
<1>7. CASE \E a, b : toks = <<a, b>>
  <2>1. PICK a, b : toks = <<a, b>>
    BY <1>7
  <2>2. toks \in Seq({a, b})
    BY <1>2, <2>1
  <2> QED
    BY <2>2
<1>8. CASE \E a, b, c : toks = <<a, b, c>>
  <2>1. PICK a, b, c : toks = <<a, b, c>>
    BY <1>8
  <2>2. toks \in Seq({a, b, c})
    BY <1>3, <2>1
  <2> QED
    BY <2>2
<1>9. CASE \E a, b, c, d : toks = <<a, b, c, d>>
  <2>1. PICK a, b, c, d : toks = <<a, b, c, d>>
    BY <1>9
  <2>2. toks \in Seq({a, b, c, d})
    BY <1>4, <2>1
  <2> QED
    BY <2>2
<1> QED
  BY <1>5, <1>6, <1>7, <1>8, <1>9

LEMMA RowMovesInv == ASSUME DlgInv, RowMoves PROVE DlgInv' /\ NumberPicked
<1>1. dlgScreen' = dlgScreen /\ dlgDone' = dlgDone /\ dlgRow.status \in {"building", "accepted"}
  BY DEF RowMoves
<1>2. PICK st \in RowStatuses : dlgRow' = WithStatus(dlgRow, st)
  BY DEF RowMoves, WithStatus, RowStatuses
<1>3. PICK e : e = dlgRow'
  OBVIOUS
<1>4. IsRow(e) /\ e.pre = dlgRow.pre /\ e.options = dlgRow.options
  BY <1>2, <1>3, StatusSet DEF DlgInv
<1>5. ~(dlgDone.op = "change_url" /\ dlgDone.ok)
  BY <1>1 DEF DlgInv
<1> QED
  BY <1>1, <1>3, <1>4, <1>5 DEF DlgInv, NumberPicked

LEMMA DlgNextInv == ASSUME DlgInv, DlgNext PROVE DlgInv' /\ NumberPicked
<1>1. CASE WriteText
  <2>1. PICK toks \in Texts : Run(Classify(toks))
    BY <1>1 DEF WriteText
  <2> QED
    BY <2>1, TextsAreSeqs, RunInv
<1>2. CASE PasteLines
  <2>1. PICK k \in DOMAIN dlgScreen.lines :
            \/ Run(Classify(FlattenSeq(SubSeq(dlgScreen.lines, k, Len(dlgScreen.lines)))))
            \/ Run(Classify(dlgScreen.lines[k]))
    BY <1>2 DEF PasteLines
  <2>2. PICK S : /\ dlgScreen.lines[k] \in Seq(S)
                 /\ FlattenSeq(SubSeq(dlgScreen.lines, k, Len(dlgScreen.lines))) \in Seq(S)
    BY PastedText
  <2> QED
    BY <2>1, <2>2, RunInv
<1> QED
  BY <1>1, <1>2, RowMovesInv DEF DlgNext

LEMMA DlgSafe == DlgSpec => []DlgInv
<1>1. DlgInv /\ [DlgNext]_dlgVars => DlgInv'
  <2>1. DlgInv /\ UNCHANGED dlgVars => DlgInv'
    BY DEF DlgInv, dlgVars
  <2> QED
    BY <2>1, DlgNextInv
<1> QED
  BY <1>1, DlgInitInv, PTL DEF DlgSpec

\* saved.rs 296-334, commands.rs 509-985: whatever was written and pasted before, every line of
\* an answer about a row that kept its status is the command it names on that row.
THEOREM NextLinesSafe == DlgSpec => []NextLinesWork
<1>1. DlgInv => NextLinesWork
  <2> SUFFICES ASSUME DlgInv, dlgRow.status = dlgScreen.status, dlgRow.status # "building",
                      NEW k \in DOMAIN dlgScreen.lines
               PROVE  Works(dlgScreen.lines[k], dlgRow)
    BY DEF NextLinesWork, Works
  <2>1. PICK line, row : line = dlgScreen.lines[k] /\ row = dlgRow
    OBVIOUS
  <2>2. IsRow(row) /\ LineFits(line, row.pre, row.status) /\ row.status # "building"
    BY <2>1 DEF DlgInv, AllFit
  <2> QED
    BY <2>1, <2>2, FittingLineWorks
<1> QED
  BY <1>1, DlgSafe, PTL

\* draft_url.rs 112-123, 232-259: with any options, a number picks the URL the answer shows at it.
THEOREM NumbersSafe == DlgSpec => NumbersPickWhatIsShown
<1>1. DlgInv /\ [DlgNext]_dlgVars => [NumberPicked]_dlgVars
  BY DlgNextInv
<1> QED
  BY <1>1, DlgSafe, PTL DEF DlgSpec, NumbersPickWhatIsShown, NumberPicked
===============================================================================
