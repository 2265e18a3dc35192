---------------------------- MODULE PublishProofs ----------------------------
(***************************************************************************)
(* Proofs about the way of a text to the public: the guard of a promotion, *)
(* the files of a pull request and the ship.                               *)
(*                                                                         *)
(* The in-flight set, for any wakes, pull requests and numbering: GuardInv *)
(* is inductive, so no pull request is promoted twice at the same time,    *)
(* and the mutex-level guard implements PromoteToken.                      *)
(*                                                                         *)
(* The client, for any number of its functions running at once and any     *)
(* failures: what a job still has to call (Calls) is such that the mirror  *)
(* only gets a text that was posted, and a put that gives up has had a     *)
(* rival for each of its attempts (JobFine); GhInv is inductive.           *)
(*                                                                         *)
(* The ship, for any text and any limit of a post: stripping a LinkedIn    *)
(* text again is nothing (LinkedInTwice); ShipInv, which ties what is      *)
(* public to the request and the row to both, is inductive (ShipSafe); no  *)
(* word of a thread is lost (NoWordIsLost, from ThreadProofs); and a ship  *)
(* implements the steps the publish gate takes for it (ShipImplementsOne). *)
(***************************************************************************)
EXTENDS PromoteGuard, GithubFiles, PublishShip, ThreadProofs

-----------------------------------------------------------------------------
(* The guard of the promotion.                                                *)

LEMMA GuardInvInit ==
    ASSUME GuardInit
    PROVE  GuardInv
  BY GuardAssumption DEF GuardInit, GuardInv, GuardTypeOK, Phases, Promoting

\* A wake that becomes idle gives up what it promotes; the others keep theirs.
LEMMA IdleKeepsOthers ==
    ASSUME GuardInv, NEW w \in Wakes, BackToIdle(w)
    PROVE  /\ pc'[w] = "idle" /\ pull'[w] = NoPull
           /\ pc' \in [Wakes -> Phases]
           /\ pull' \in [Wakes -> Pulls \cup {NoPull}]
           /\ \A v \in Wakes \ {w} : pc'[v] = pc[v] /\ pull'[v] = pull[v]
  BY DEF BackToIdle, GuardInv, GuardTypeOK, Phases

LEMMA NumberOfPull ==
    ASSUME GuardInv, NEW w \in Wakes, pc[w] # "idle"
    PROVE  pull[w] \in Pulls /\ Number[pull[w]] \in Numbers
  BY DEF GuardInv, Numbers

LEMMA WakeStepKeepsInv ==
    ASSUME GuardInv, NEW w \in Wakes, WakeStep(w) \/ CancelWaiting(w)
    PROVE  GuardInv'
<1>1. CASE Lock(w)
  BY <1>1, GuardAssumption DEF Lock, GuardInv, GuardTypeOK, Phases, Promoting
<1>2. CASE Enter(w)
  <2>1. Number[pull[w]] \in Numbers /\ pull[w] \in Pulls
    BY <1>2, NumberOfPull DEF Enter
  <2>2. GuardTypeOK'
    BY <1>2, <2>1 DEF Enter, GuardInv, GuardTypeOK, Phases
  <2>3. /\ pc'[w] = "promoting" /\ pull' = pull /\ lock' = Free
        /\ \A v \in Wakes \ {w} : pc'[v] = pc[v]
        /\ inflight' = inflight \cup {Number[pull[w]]}
    BY <1>2 DEF Enter, GuardInv, GuardTypeOK
  <2>4. \A v \in Wakes : pc'[v] \in {"holding", "removing"} <=> lock' = v
    BY <1>2, <2>3, GuardAssumption DEF Enter, GuardInv
  <2>5. \A u, v \in Wakes :
          u # v /\ Promoting(u)' /\ Promoting(v)' => Number[pull'[u]] # Number[pull'[v]]
    BY <1>2, <2>3 DEF Enter, GuardInv, Promoting
  <2> QED
    BY <2>1, <2>2, <2>3, <2>4, <2>5 DEF GuardInv, Promoting
<1>3. CASE RefuseWake(w)
  BY <1>3, IdleKeepsOthers, GuardAssumption DEF RefuseWake, GuardInv, GuardTypeOK, Promoting
<1>4. CASE DropTaken(w)
  BY <1>4, GuardAssumption DEF DropTaken, GuardInv, GuardTypeOK, Phases, Promoting
<1>5. CASE DropContended(w)
  BY <1>5, IdleKeepsOthers, GuardAssumption
     DEF DropContended, GuardInv, GuardTypeOK, Promoting
<1>6. CASE RemoveNumber(w)
  BY <1>6, IdleKeepsOthers, GuardAssumption DEF RemoveNumber, GuardInv, GuardTypeOK, Promoting
<1>7. CASE CancelWaiting(w)
  BY <1>7, IdleKeepsOthers, GuardAssumption
     DEF CancelWaiting, GuardInv, GuardTypeOK, Promoting
<1> QED
  BY <1>1, <1>2, <1>3, <1>4, <1>5, <1>6, <1>7 DEF WakeStep

LEMMA GuardInvStep ==
    ASSUME GuardInv, [GuardNext]_guardVars
    PROVE  GuardInv'
<1>1. ASSUME NEW w \in Wakes, NEW p \in Pulls, Deliver(w, p)
      PROVE  GuardInv'
  BY <1>1 DEF Deliver, GuardInv, GuardTypeOK, Phases, Promoting
<1>2. CASE RestartProcess
  BY <1>2, GuardAssumption DEF RestartProcess, GuardInv, GuardTypeOK, Phases, Promoting
<1>3. CASE UNCHANGED guardVars
  BY <1>3 DEF guardVars, GuardInv, GuardTypeOK, Promoting
<1> QED
  BY <1>1, <1>2, <1>3, WakeStepKeepsInv DEF GuardNext

\* The set, the mutex and the wakes agree with one another in every state.
THEOREM GuardInvHolds == GuardSpec => []GuardInv
<1>1. GuardInit => GuardInv
  BY GuardInvInit
<1>2. GuardInv /\ [GuardNext]_guardVars => GuardInv'
  BY GuardInvStep
<1> QED
  BY <1>1, <1>2, PTL DEF GuardSpec

\* Concurrent webhooks never promote the same pull request, although a drop may
\* forget its number and although the key is the bare number.
THEOREM OnePromotionHolds == GuardSpec => []OnePromotionPerPull
<1>1. GuardInv => OnePromotionPerPull
  BY DEF GuardInv, OnePromotionPerPull
<1> QED
  BY <1>1, GuardInvHolds, PTL

-------------------------------------------------------------------------------
\* Acquire at Enter, Release at RemoveNumber, Leak at a contended drop; the rest is
\* invisible.
LEMMA WakeStepRefined ==
    ASSUME GuardInv, NEW w \in Wakes, WakeStep(w) \/ CancelWaiting(w)
    PROVE  [Token!TokenNext]_(Token!tokenVars)
<1> DEFINE k == Number[pull[w]]
<1>1. pc[w] # "idle"
  BY DEF WakeStep, CancelWaiting, Lock, Enter, RefuseWake, DropTaken, DropContended, RemoveNumber
<1>2. k \in Numbers /\ k # NoPull
  BY <1>1, NumberOfPull, GuardAssumption DEF Numbers
<1>3. CASE Enter(w)
  <2>1. holderOf' = [holderOf EXCEPT ![w] = k] /\ holderOf[w] = NoPull
    BY <1>3 DEF Enter, holderOf, Promoting, GuardInv, GuardTypeOK
  <2>2. Token!Acquire(w, k)
    BY <1>3, <2>1 DEF Enter, Token!Acquire
  <2> QED
    BY <1>2, <2>2 DEF Token!TokenNext
<1>4. CASE RemoveNumber(w)
  <2>1. holderOf' = [holderOf EXCEPT ![w] = NoPull] /\ holderOf[w] = k
    BY <1>4, IdleKeepsOthers DEF RemoveNumber, holderOf, Promoting
  <2>2. Token!Release(w)
    BY <1>2, <1>4, <2>1 DEF RemoveNumber, Token!Release
  <2> QED
    BY <2>2 DEF Token!TokenNext
<1>5. CASE DropContended(w)
  <2>1. holderOf' = [holderOf EXCEPT ![w] = NoPull] /\ holderOf[w] = k
    BY <1>5, IdleKeepsOthers DEF DropContended, holderOf, Promoting
  <2>2. Token!Leak(w)
    BY <1>2, <1>5, <2>1 DEF DropContended, Token!Leak
  <2> QED
    BY <2>2 DEF Token!TokenNext
<1>6. CASE Lock(w) \/ DropTaken(w)
  <2>1. UNCHANGED <<inflight, pull>> /\ \A v \in Wakes : Promoting(v)' <=> Promoting(v)
    BY <1>6 DEF Lock, DropTaken, Promoting, GuardInv, GuardTypeOK
  <2> QED
    BY <2>1 DEF holderOf, Token!tokenVars
<1>7. CASE RefuseWake(w) \/ CancelWaiting(w)
  <2>1. UNCHANGED inflight /\ BackToIdle(w) /\ ~Promoting(w)
    BY <1>7 DEF RefuseWake, CancelWaiting, Promoting
  <2>2. \A v \in Wakes : (Promoting(v)' <=> Promoting(v))
                         /\ (Promoting(v) => pull'[v] = pull[v])
    BY <2>1, IdleKeepsOthers DEF Promoting
  <2>3. holderOf' = holderOf
    BY <2>2 DEF holderOf
  <2> QED
    BY <2>1, <2>3 DEF Token!tokenVars
<1> QED
  BY <1>3, <1>4, <1>5, <1>6, <1>7 DEF WakeStep

LEMMA GuardNextRefined ==
    ASSUME GuardInv, [GuardNext]_guardVars
    PROVE  [Token!TokenNext]_(Token!tokenVars)
<1>1. ASSUME NEW w \in Wakes, NEW p \in Pulls, Deliver(w, p)
      PROVE  UNCHANGED Token!tokenVars
  <2>1. UNCHANGED inflight /\ \A v \in Wakes :
            (Promoting(v)' <=> Promoting(v)) /\ (Promoting(v) => pull'[v] = pull[v])
    BY <1>1 DEF Deliver, Promoting, GuardInv, GuardTypeOK
  <2> QED
    BY <2>1 DEF holderOf, Token!tokenVars
<1>2. CASE RestartProcess
  BY <1>2 DEF RestartProcess, holderOf, Promoting, Token!TokenNext, Token!Restart
<1>3. CASE UNCHANGED guardVars
  BY <1>3 DEF guardVars, holderOf, Promoting, Token!tokenVars
<1> QED
  BY <1>1, <1>2, <1>3, WakeStepRefined DEF GuardNext

\* The mutex-level guard keeps the promise of PromoteToken.
THEOREM GuardImplementsToken == GuardSpec => TokenSafety
<1>1. GuardInit => Token!TokenInit
  BY DEF GuardInit, Token!TokenInit, holderOf, Promoting
<1>2. GuardInv /\ [GuardNext]_guardVars => [Token!TokenNext]_(Token!tokenVars)
  BY GuardNextRefined
<1> QED
  BY <1>1, <1>2, GuardInvHolds, PTL DEF GuardSpec, TokenSafety, Token!TokenSpec

-----------------------------------------------------------------------------
(* The files: what a job has left to call.                                    *)

\* What a call in a list of calls may be.
GhCalls == {"branch", "put", "create", "reviewer", "first", "read", "merge", "tree", "get", "close"}
GhSteps == [call : GhCalls, at : Branches, file : PackFiles \cup {"none"}]

\* The file that must only get what was posted, and the calls a posted text comes from.
MirrorBody == Step("put", "mirror", "body")
PullRead == Step("read", "post", "body")
PostsRead == Step("tree", "posts", "body")

\* A list is bound to the head branch of its draft.
BoundTo(h, s) ==
    /\ s.call \in {"branch", "merge"} => s.at = h
    /\ s.call = "tree" => s.at = PostsBranch(h)
    /\ s = MirrorBody => ~OnX(h)
    /\ s = PullRead => h = "post"
    /\ s.call = "read" => s = PullRead \/ s.file = "meta"

\* A posted text is read on the way from place i of a list to the put at place k.
Fed(todo, i, k) == \E m \in (i + 1)..(k - 1) : todo[m] \in {PullRead, PostsRead}

WasPosted(body, posted) == body \in {0} \cup posted

\* The calls a job has left: the mirror gets the text it holds when that one was posted, or one
\* it still reads; what it takes from the head branch before never reaches the mirror; and a
\* pull request is read only after it was merged.
Calls(todo, h, held, posted, state) ==
    /\ todo \in Seq(GhSteps)
    /\ \A k \in 1..Len(todo) : BoundTo(h, todo[k])
    /\ \A k \in 1..Len(todo) : todo[k] = MirrorBody => WasPosted(held, posted) \/ Fed(todo, 0, k)
    /\ \A k \in 1..Len(todo) : todo[k] = MirrorBody =>
           \A i \in 1..(k - 1) : todo[i].call = "first" => Fed(todo, i, k)
    /\ \A k \in 1..Len(todo) : todo[k] = PullRead =>
           state = "merged" \/ \E i \in 1..(k - 1) : todo[i].call = "merge"

-----------------------------------------------------------------------------
LEMMA StepFields ==
    ASSUME NEW c, NEW b, NEW f
    PROVE  Step(c, b, f).call = c /\ Step(c, b, f).at = b /\ Step(c, b, f).file = f
  BY DEF Step

LEMMA StepIsCall ==
    ASSUME NEW c \in GhCalls, NEW b \in Branches, NEW f \in PackFiles \cup {"none"}
    PROVE  Step(c, b, f) \in GhSteps
  BY DEF Step, GhSteps

LEMMA SpecialSteps ==
    ASSUME NEW c, NEW b, NEW f
    PROVE  /\ Step(c, b, f) = MirrorBody <=> c = "put" /\ b = "mirror" /\ f = "body"
           /\ Step(c, b, f) = PullRead <=> c = "read" /\ b = "post" /\ f = "body"
           /\ Step(c, b, f) = PostsRead <=> c = "tree" /\ b = "posts" /\ f = "body"
  BY DEF Step, MirrorBody, PullRead, PostsRead

LEMMA JoinedCalls ==
    ASSUME NEW S, NEW s \in Seq(S), NEW t \in Seq(S)
    PROVE  /\ s \o t \in Seq(S)
           /\ Len(s \o t) = Len(s) + Len(t)
           /\ \A i \in 1..Len(s) : (s \o t)[i] = s[i]
           /\ \A i \in 1..Len(t) : (s \o t)[Len(s) + i] = t[i]
  OBVIOUS

LEMMA OnePair ==
    ASSUME NEW S, NEW a \in S, NEW b \in S
    PROVE  /\ <<a>> \in Seq(S) /\ Len(<<a>>) = 1 /\ <<a>>[1] = a
           /\ <<a, b>> \in Seq(S) /\ Len(<<a, b>>) = 2 /\ <<a, b>>[1] = a /\ <<a, b>>[2] = b
  OBVIOUS

LEMMA PairJoined ==
    ASSUME NEW S, NEW a \in S, NEW b \in S, NEW t \in Seq(S)
    PROVE  /\ <<a, b>> \o t \in Seq(S)
           /\ Len(<<a, b>> \o t) = Len(t) + 2
           /\ (<<a, b>> \o t)[1] = a
           /\ (<<a, b>> \o t)[2] = b
           /\ \A i \in 1..Len(t) : (<<a, b>> \o t)[i + 2] = t[i]
<1>1. <<a, b>> \in Seq(S) /\ Len(<<a, b>>) = 2 /\ <<a, b>>[1] = a /\ <<a, b>>[2] = b
  BY OnePair
<1> QED
  BY <1>1, JoinedCalls

LEMMA TailOfCalls ==
    ASSUME NEW S, NEW s \in Seq(S), s # <<>>
    PROVE  /\ Tail(s) \in Seq(S)
           /\ Len(Tail(s)) = Len(s) - 1
           /\ \A i \in 1..(Len(s) - 1) : Tail(s)[i] = s[i + 1]
           /\ Head(s) = s[1]
           /\ Len(s) \in Nat /\ Len(s) >= 1
  OBVIOUS

LEMMA CallsTail ==
    ASSUME NEW todo, NEW h, NEW held, NEW held2, NEW posted, NEW posted2, NEW state, NEW state2,
           todo # <<>>, Calls(todo, h, held, posted, state),
           \/ WasPosted(held, posted) => WasPosted(held2, posted2)
           \/ Head(todo).call = "first",
           Head(todo) \in {PullRead, PostsRead} => WasPosted(held2, posted2),
           state = "merged" => state2 = "merged",
           Head(todo).call = "merge" => state2 = "merged"
    PROVE  Calls(Tail(todo), h, held2, posted2, state2)
<1> DEFINE n == Len(todo)
<1>1. todo \in Seq(GhSteps)
  BY DEF Calls
<1>2. /\ Tail(todo) \in Seq(GhSteps) /\ Len(Tail(todo)) = n - 1
      /\ \A i \in 1..(n - 1) : Tail(todo)[i] = todo[i + 1]
      /\ Head(todo) = todo[1] /\ n \in Nat /\ n >= 1
  BY <1>1, TailOfCalls
<1> PICK t : t = Tail(todo) OBVIOUS
<1>3. \A k \in 1..(n - 1) : t[k] = todo[k + 1] /\ k + 1 \in 1..n /\ (k + 1) - 1 = k
  BY <1>2
<1>4. \A k \in 1..Len(t) : BoundTo(h, t[k])
  BY <1>2, <1>3 DEF Calls
<1>5. ASSUME NEW k \in 1..Len(t), NEW i \in 0..(k - 1), Fed(todo, i + 1, k + 1)
      PROVE  Fed(t, i, k)
  <2>1. PICK m \in ((i + 1) + 1)..((k + 1) - 1) : todo[m] \in {PullRead, PostsRead}
    BY <1>5 DEF Fed
  <2>2. m - 1 \in (i + 1)..(k - 1) /\ m - 1 \in 1..(n - 1) /\ (m - 1) + 1 = m
    BY <1>2
  <2>3. t[m - 1] = todo[m]
    BY <2>2, <1>3
  <2> QED
    BY <2>1, <2>2, <2>3 DEF Fed
<1>6. ASSUME NEW k \in 1..Len(t), t[k] = MirrorBody
      PROVE  WasPosted(held2, posted2) \/ Fed(t, 0, k)
  <2>1. todo[k + 1] = MirrorBody /\ k + 1 \in 1..n /\ (k + 1) - 1 = k
    BY <1>2, <1>3, <1>6
  <2>2. CASE Head(todo).call = "first"
    <3>1. Fed(todo, 1, k + 1)
      <4>1. 1 \in 1..((k + 1) - 1)
        BY <1>2
      <4> QED
        BY <2>1, <2>2, <1>2, <4>1 DEF Calls
    <3> QED
      BY <3>1, <1>2, <1>5
  <2>3. CASE WasPosted(held, posted) => WasPosted(held2, posted2)
    <3>1. CASE WasPosted(held, posted)
      BY <3>1, <2>3
    <3>2. CASE ~WasPosted(held, posted)
      <4>1. Fed(todo, 0, k + 1)
        BY <2>1, <3>2 DEF Calls
      <4>2. PICK m \in (0 + 1)..((k + 1) - 1) : todo[m] \in {PullRead, PostsRead}
        BY <4>1 DEF Fed
      <4>3. CASE m = 1
        BY <4>2, <4>3, <1>2
      <4>4. CASE m # 1
        <5>1. m \in (1 + 1)..((k + 1) - 1)
          BY <4>4, <1>2
        <5>2. Fed(todo, 1, k + 1)
          BY <5>1, <4>2 DEF Fed
        <5> QED
          BY <5>2, <1>2, <1>5
      <4> QED
        BY <4>3, <4>4
    <3> QED
      BY <3>1, <3>2
  <2> QED
    BY <2>2, <2>3
<1>7. ASSUME NEW k \in 1..Len(t), t[k] = MirrorBody, NEW i \in 1..(k - 1), t[i].call = "first"
      PROVE  Fed(t, i, k)
  <2>1. todo[k + 1] = MirrorBody /\ k + 1 \in 1..n /\ todo[i + 1].call = "first"
    BY <1>2, <1>3, <1>7
  <2>2. i + 1 \in 1..((k + 1) - 1)
    BY <1>2
  <2>3. Fed(todo, i + 1, k + 1)
    BY <2>1, <2>2 DEF Calls
  <2> QED
    BY <2>3, <1>5, <1>2
<1>8. ASSUME NEW k \in 1..Len(t), t[k] = PullRead
      PROVE  state2 = "merged" \/ \E i \in 1..(k - 1) : t[i].call = "merge"
  <2>1. todo[k + 1] = PullRead /\ k + 1 \in 1..n
    BY <1>2, <1>3, <1>8
  <2>2. state = "merged" \/ \E i \in 1..((k + 1) - 1) : todo[i].call = "merge"
    BY <2>1 DEF Calls
  <2>3. CASE state = "merged"
    BY <2>3
  <2>4. CASE state # "merged"
    <3>1. PICK i \in 1..((k + 1) - 1) : todo[i].call = "merge"
      BY <2>2, <2>4
    <3>2. CASE i = 1
      BY <3>1, <3>2, <1>2
    <3>3. CASE i # 1
      <4>1. i - 1 \in 1..(k - 1) /\ i - 1 \in 1..(n - 1) /\ (i - 1) + 1 = i
        BY <3>3, <1>2
      <4> QED
        BY <4>1, <3>1, <1>3
    <3> QED
      BY <3>2, <3>3
  <2> QED
    BY <2>3, <2>4
<1> QED
  BY <1>2, <1>4, <1>6, <1>7, <1>8 DEF Calls

-----------------------------------------------------------------------------
\* The calls of a list that neither writes the mirror nor reads a merged pull request, and
\* those that may follow the reading of a posted text.
PlainSteps(h) == {s \in GhSteps : BoundTo(h, s) /\ s # MirrorBody /\ s # PullRead}
FedSteps(h) == {s \in GhSteps : BoundTo(h, s) /\ s.call # "first"}

LEMMA PlainCalls ==
    ASSUME NEW h, NEW todo \in Seq(PlainSteps(h)), NEW held, NEW posted, NEW state
    PROVE  Calls(todo, h, held, posted, state)
<1>1. \A k \in 1..Len(todo) : todo[k] \in PlainSteps(h)
  OBVIOUS
<1>2. todo \in Seq(GhSteps)
  <2>1. Len(todo) \in Nat /\ todo = [k \in 1..Len(todo) |-> todo[k]]
    OBVIOUS
  <2>2. \A k \in 1..Len(todo) : todo[k] \in GhSteps
    BY <1>1 DEF PlainSteps
  <2> QED
    BY <2>1, <2>2
<1> QED
  BY <1>1, <1>2 DEF Calls, PlainSteps

LEMMA OwnStep ==
    ASSUME NEW h \in {"post", "xpost", "draft", "tweet"}, NEW c \in GhCalls,
           NEW b \in Branches \ {"mirror"}, NEW f \in PackFiles \cup {"none"},
           c \in {"branch", "merge"} => b = h,
           c = "tree" => b = PostsBranch(h),
           c = "read" => f = "meta"
    PROVE  Step(c, b, f) \in PlainSteps(h)
<1>1. b \in Branches
  OBVIOUS
<1>2. Step(c, b, f) \in GhSteps
  BY <1>1, StepIsCall
<1>3. Step(c, b, f).call = c /\ Step(c, b, f).at = b
  BY DEF Step
<1>4. Step(c, b, f) # MirrorBody
  BY DEF Step, MirrorBody
<1>5. Step(c, b, f) # PullRead
  BY DEF Step, PullRead
<1>6. c = "read" => Step(c, b, f).file = "meta"
  BY DEF Step, PackFiles
<1>7. BoundTo(h, Step(c, b, f))
  BY <1>3, <1>4, <1>5, <1>6 DEF BoundTo
<1> QED
  BY <1>2, <1>4, <1>5, <1>7 DEF PlainSteps

LEMMA Triple ==
    ASSUME NEW S, NEW a \in S, NEW b \in S, NEW c \in S
    PROVE  <<a, b, c>> \in Seq(S)
  OBVIOUS

LEMMA ThreeJoined ==
    ASSUME NEW S, NEW s \in Seq(S), NEW t \in Seq(S), NEW u \in Seq(S)
    PROVE  s \o t \o u \in Seq(S)
  OBVIOUS

LEMMA PutsArePlain ==
    ASSUME NEW h \in {"post", "xpost", "draft", "tweet"}, NEW b \in Branches \ {"mirror"}
    PROVE  PutFiles(b) \in Seq(PlainSteps(h))
<1>1. Step("put", b, "body") \in PlainSteps(h) /\ Step("put", b, "meta") \in PlainSteps(h)
  BY OwnStep DEF GhCalls, PackFiles
<1> QED
  BY <1>1 DEF PutFiles

LEMMA HeadsAreBranches ==
    ASSUME NEW h \in {"post", "xpost", "draft", "tweet"}
    PROVE  h \in Branches \ {"mirror"} /\ PostsBranch(h) \in {"posts", "tweets"}
  BY DEF Branches, PostsBranch

LEMMA AcceptCalls ==
    ASSUME NEW h \in {"post", "xpost", "draft", "tweet"}, NEW held, NEW posted, NEW state
    PROVE  Calls(PutFiles(h), h, held, posted, state) /\ Calls(OpenPrInto(h), h, held, posted, state)
<1>1. PutFiles(h) \in Seq(PlainSteps(h))
  BY HeadsAreBranches, PutsArePlain
<1>2. /\ Step("branch", h, "none") \in PlainSteps(h)
      /\ Step("create", h, "none") \in PlainSteps(h) /\ Step("reviewer", h, "none") \in PlainSteps(h)
  BY HeadsAreBranches, OwnStep DEF GhCalls, PackFiles
<1>3. /\ <<Step("branch", h, "none")>> \in Seq(PlainSteps(h))
      /\ <<Step("create", h, "none"), Step("reviewer", h, "none")>> \in Seq(PlainSteps(h))
  BY <1>2, OnePair
<1>4. OpenPrInto(h) \in Seq(PlainSteps(h))
  BY <1>1, <1>3, ThreeJoined DEF OpenPrInto
<1> QED
  BY <1>1, <1>4, PlainCalls

LEMMA CloseCalls ==
    ASSUME NEW h \in {"post", "xpost", "draft", "tweet"}, NEW held, NEW posted, NEW state
    PROVE  Calls(ClosePull(h), h, held, posted, state)
<1>1. Step("get", h, "none") \in PlainSteps(h) /\ Step("close", h, "none") \in PlainSteps(h)
  BY HeadsAreBranches, OwnStep DEF GhCalls, PackFiles
<1>2. ClosePull(h) \in Seq(PlainSteps(h))
  BY <1>1, OnePair DEF ClosePull
<1> QED
  BY <1>2, PlainCalls

\* A list that reads a posted text, then writes the mirror.
LEMMA MirrorCalls ==
    ASSUME NEW h, NEW held, NEW posted, NEW state,
           NEW pre \in Seq(PlainSteps(h)), NEW t \in Seq(FedSteps(h)),
           t # <<>>, t[1] \in {PullRead, PostsRead},
           \/ \E i \in 1..Len(pre) : pre[i].call = "merge"
           \/ \A k \in 1..Len(t) : t[k] # PullRead
    PROVE  Calls(pre \o t, h, held, posted, state)
<1>1. \A i \in 1..Len(pre) : pre[i] \in PlainSteps(h)
  OBVIOUS
<1>2. \A i \in 1..Len(t) : t[i] \in FedSteps(h)
  OBVIOUS
<1>3. Len(pre) \in Nat /\ Len(t) \in Nat /\ Len(t) >= 1
  OBVIOUS
<1>4. PICK S : S = PlainSteps(h) \cup FedSteps(h)
  OBVIOUS
<1>5. pre \in Seq(S) /\ t \in Seq(S)
  <2>1. /\ pre = [k \in 1..Len(pre) |-> pre[k]] /\ t = [k \in 1..Len(t) |-> t[k]]
    OBVIOUS
  <2>2. \A k \in 1..Len(pre) : pre[k] \in S
    BY <1>1, <1>4
  <2>3. \A k \in 1..Len(t) : t[k] \in S
    BY <1>2, <1>4
  <2>4. pre \in Seq(S)
    BY <1>3, <2>1, <2>2
  <2>5. t \in Seq(S)
    BY <1>3, <2>1, <2>3
  <2> QED
    BY <2>4, <2>5
<1>6. PICK n : n = Len(pre) OBVIOUS
<1>7. PICK l : l = Len(t) OBVIOUS
<1>8. PICK L : L = pre \o t OBVIOUS
<1>9. /\ L \in Seq(S) /\ Len(L) = n + l
      /\ \A i \in 1..n : L[i] = pre[i]
      /\ \A i \in 1..l : L[n + i] = t[i]
  BY <1>5, <1>6, <1>7, <1>8, JoinedCalls
<1>10. \A k \in 1..(n + l) : k \in 1..n \/ (k - n \in 1..l /\ n + (k - n) = k)
  BY <1>3, <1>6, <1>7
<1>11. \A k \in 1..(n + l) : \/ k \in 1..n /\ L[k] \in PlainSteps(h)
                             \/ k > n /\ k - n \in 1..l /\ L[k] = t[k - n] /\ L[k] \in FedSteps(h)
  <2> SUFFICES ASSUME NEW k \in 1..(n + l)
               PROVE  \/ k \in 1..n /\ L[k] \in PlainSteps(h)
                      \/ k > n /\ k - n \in 1..l /\ L[k] = t[k - n] /\ L[k] \in FedSteps(h)
    OBVIOUS
  <2>1. CASE k \in 1..n
    BY <2>1, <1>1, <1>6, <1>9
  <2>2. CASE k - n \in 1..l /\ n + (k - n) = k
    BY <2>2, <1>2, <1>3, <1>6, <1>7, <1>9
  <2> QED
    BY <2>1, <2>2, <1>10
<1>12. L \in Seq(GhSteps)
  <2>1. L = [k \in 1..(n + l) |-> L[k]] /\ n + l \in Nat
    BY <1>3, <1>6, <1>7, <1>9
  <2>2. \A k \in 1..(n + l) : L[k] \in GhSteps
    BY <1>11 DEF PlainSteps, FedSteps
  <2> QED
    BY <2>1, <2>2
<1>13. L[n + 1] \in {PullRead, PostsRead} /\ n + 1 \in 1..(n + l)
  BY <1>3, <1>6, <1>7, <1>9
<1>14. ASSUME NEW k \in 1..(n + l), L[k] = MirrorBody, NEW i \in 0..n
       PROVE  Fed(L, i, k)
  <2>1. k > n
    BY <1>11, <1>14 DEF PlainSteps
  <2>2. MirrorBody \notin {PullRead, PostsRead}
    BY DEF MirrorBody, PullRead, PostsRead, Step
  <2>3. k # n + 1
    BY <2>2, <1>13, <1>14
  <2>4. n + 1 \in (i + 1)..(k - 1)
    BY <2>1, <2>3, <1>3, <1>6, <1>7
  <2> QED
    BY <2>4, <1>13 DEF Fed
<1>15. \A k \in 1..(n + l) : L[k] = MirrorBody =>
           \A i \in 1..(k - 1) : L[i].call = "first" => Fed(L, i, k)
  <2> SUFFICES ASSUME NEW k \in 1..(n + l), L[k] = MirrorBody, NEW i \in 1..(k - 1),
                      L[i].call = "first"
               PROVE  Fed(L, i, k)
    OBVIOUS
  <2>1. i \in 1..(n + l)
    BY <1>3, <1>6, <1>7
  <2>2. i \in 1..n
    BY <2>1, <1>11 DEF FedSteps
  <2> QED
    BY <2>2, <1>14, <1>3, <1>6
<1>16. \A k \in 1..(n + l) : L[k] = PullRead => \E i \in 1..(k - 1) : L[i].call = "merge"
  <2> SUFFICES ASSUME NEW k \in 1..(n + l), L[k] = PullRead
               PROVE  \E i \in 1..(k - 1) : L[i].call = "merge"
    OBVIOUS
  <2>1. k > n /\ k - n \in 1..l /\ L[k] = t[k - n]
    BY <1>11 DEF PlainSteps
  <2>2. PICK i \in 1..n : pre[i].call = "merge"
    BY <2>1, <1>6, <1>7
  <2>3. L[i].call = "merge" /\ i \in 1..(k - 1)
    BY <2>1, <2>2, <1>9, <1>3, <1>6, <1>7
  <2> QED
    BY <2>3
<1>17. \A k \in 1..(n + l) : BoundTo(h, L[k])
  BY <1>11 DEF PlainSteps, FedSteps
<1>18. \A k \in 1..(n + l) : L[k] = MirrorBody => Fed(L, 0, k)
  <2>1. 0 \in 0..n
    BY <1>3, <1>6
  <2> QED
    BY <2>1, <1>14
<1>19. Len(L) = n + l
  BY <1>9
<1>20. Calls(L, h, held, posted, state)
  BY <1>12, <1>15, <1>16, <1>17, <1>18, <1>19 DEF Calls
<1> QED
  BY <1>20, <1>8

LEMMA MirrorPutsAreFed ==
    ASSUME NEW h \in {"post", "draft"}
    PROVE  PutFiles("mirror") \in Seq(FedSteps(h))
<1>1. /\ Step("put", "mirror", "body") \in GhSteps /\ Step("put", "mirror", "meta") \in GhSteps
  BY StepIsCall DEF GhCalls, PackFiles, Branches
<1>2. /\ Step("put", "mirror", "body") \in FedSteps(h)
      /\ Step("put", "mirror", "meta") \in FedSteps(h)
  BY <1>1, StepFields, SpecialSteps DEF FedSteps, BoundTo, OnX
<1> QED
  BY <1>2 DEF PutFiles

LEMMA PromoteCalls ==
    ASSUME NEW h \in {"post", "xpost", "draft", "tweet"}, NEW o \in BOOLEAN, NEW held, NEW posted, NEW state
    PROVE  Calls(PromotePr(h, o), h, held, posted, state)
<1>1. CASE h = "post" /\ o
  <2>1. Step("first", h, "body") \in PlainSteps(h) /\ Step("merge", h, "none") \in PlainSteps(h)
    BY HeadsAreBranches, OwnStep DEF GhCalls, PackFiles
  <2>2. PromotePr(h, o) = <<Step("first", h, "body"), Step("merge", h, "none")>> \o <<>>
    BY <1>1 DEF PromotePr, PromotePost, SyncMirrorFromPr
  <2>3. <<>> \in Seq(PlainSteps(h))
    OBVIOUS
  <2>4. <<Step("first", h, "body"), Step("merge", h, "none")>> \in Seq(PlainSteps(h))
    BY <2>1, OnePair
  <2>5. PromotePr(h, o) \in Seq(PlainSteps(h))
    BY <2>2, <2>3, <2>4, JoinedCalls
  <2> QED
    BY <2>5, PlainCalls
<1>2. CASE h = "post" /\ ~o
  <2>1. Step("first", h, "body") \in PlainSteps(h) /\ Step("merge", h, "none") \in PlainSteps(h)
    BY HeadsAreBranches, OwnStep DEF GhCalls, PackFiles
  <2>2. Step("read", "post", "body") \in GhSteps /\ Step("read", "post", "meta") \in GhSteps
    BY StepIsCall DEF GhCalls, PackFiles, Branches
  <2>3. Step("read", "post", "body") \in FedSteps(h) /\ Step("read", "post", "meta") \in FedSteps(h)
    BY <1>2, <2>2, StepFields, SpecialSteps DEF FedSteps, BoundTo, OnX
  <2>4. PutFiles("mirror") \in Seq(FedSteps(h))
    BY <1>2, MirrorPutsAreFed
  <2>5. PICK t : t = <<Step("read", "post", "body"), Step("read", "post", "meta")>>
                        \o PutFiles("mirror")
    OBVIOUS
  <2>6. t \in Seq(FedSteps(h)) /\ t # <<>> /\ t[1] = Step("read", "post", "body")
    BY <2>3, <2>4, <2>5, PairJoined
  <2>7. PICK pre : pre = <<Step("first", h, "body"), Step("merge", h, "none")>>
    OBVIOUS
  <2>8. pre \in Seq(PlainSteps(h)) /\ Len(pre) = 2 /\ pre[2] = Step("merge", h, "none")
    BY <2>1, <2>7, OnePair
  <2>9. 2 \in 1..Len(pre) /\ pre[2].call = "merge"
    <3>1. 2 \in 1..2
      OBVIOUS
    <3>2. 2 \in 1..Len(pre)
      BY <2>8, <3>1
    <3>3. Step("merge", h, "none").call = "merge"
      BY DEF Step
    <3>4. pre[2].call = "merge"
      BY <2>8, <3>3
    <3> QED
      BY <3>2, <3>4
  <2>10. t[1] \in {PullRead, PostsRead}
    BY <2>6 DEF PullRead
  <2>11. Calls(pre \o t, h, held, posted, state)
    BY <2>6, <2>8, <2>9, <2>10, MirrorCalls
  <2>12. PromotePr(h, o) = pre \o t
    BY <1>2, <2>5, <2>7 DEF PromotePr, PromotePost, SyncMirrorFromPr
  <2> QED
    BY <2>11, <2>12
<1>3. CASE h = "xpost"
  <2>1. /\ Step("first", h, "body") \in PlainSteps(h) /\ Step("read", h, "meta") \in PlainSteps(h)
        /\ Step("merge", h, "none") \in PlainSteps(h)
    BY HeadsAreBranches, OwnStep DEF GhCalls, PackFiles
  <2>2. PromotePr(h, o) = <<Step("first", h, "body"), Step("read", h, "meta"), Step("merge", h, "none")>>
    BY <1>3 DEF PromotePr, PromoteXpost
  <2>3. PromotePr(h, o) \in Seq(PlainSteps(h))
    BY <2>1, <2>2, Triple
  <2> QED
    BY <2>3, PlainCalls
<1>4. CASE h \in {"draft", "tweet"}
  <2>1. /\ Step("first", h, "body") \in PlainSteps(h) /\ Step("read", h, "meta") \in PlainSteps(h)
        /\ Step("merge", h, "none") \in PlainSteps(h)
    BY HeadsAreBranches, OwnStep DEF GhCalls, PackFiles
  <2>2. PutFiles("posts") \in Seq(PlainSteps(h)) /\ PutFiles("tweets") \in Seq(PlainSteps(h))
    BY PutsArePlain DEF Branches
  <2>3. /\ <<Step("first", h, "body"), Step("read", h, "meta")>> \in Seq(PlainSteps(h))
        /\ <<Step("merge", h, "none")>> \in Seq(PlainSteps(h))
    BY <2>1, OnePair
  <2>4. \E b \in {"posts", "tweets"} :
            PromotePr(h, o) = <<Step("first", h, "body"), Step("read", h, "meta")>>
                                  \o PutFiles(b) \o <<Step("merge", h, "none")>>
    BY <1>4 DEF PromotePr, PromoteLinkedInLegacy, PromoteTweetLegacy
  <2>5. PromotePr(h, o) \in Seq(PlainSteps(h))
    <3>1. PICK b \in {"posts", "tweets"} :
              PromotePr(h, o) = <<Step("first", h, "body"), Step("read", h, "meta")>>
                                    \o PutFiles(b) \o <<Step("merge", h, "none")>>
      BY <2>4
    <3>2. PutFiles(b) \in Seq(PlainSteps(h))
      BY <2>2
    <3> QED
      BY <2>3, <3>1, <3>2, ThreeJoined
  <2> QED
    BY <2>5, PlainCalls
<1> QED
  BY <1>1, <1>2, <1>3, <1>4

LEMMA RetryCalls ==
    ASSUME NEW h \in {"post", "xpost", "draft", "tweet"}, NEW o \in BOOLEAN, NEW held, NEW posted, NEW state
    PROVE  Calls(LoadPromoted(h) \o SyncFromPosts(h, o), h, held, posted, state)
<1>1. Step("tree", PostsBranch(h), "body") \in PlainSteps(h)
  BY HeadsAreBranches, OwnStep DEF GhCalls, PackFiles, Branches
<1>2. LoadPromoted(h) \in Seq(PlainSteps(h))
  <2>1. OnX(h) => Step("tree", "tweets", "meta") \in PlainSteps(h)
    <3>1. OnX(h) => PostsBranch(h) = "tweets"
      BY DEF PostsBranch
    <3> QED
      BY <3>1, HeadsAreBranches, OwnStep DEF GhCalls, PackFiles, Branches
  <2>2. CASE OnX(h)
    <3>1. <<Step("tree", PostsBranch(h), "body")>> \in Seq(PlainSteps(h))
      BY <1>1
    <3>2. <<Step("tree", "tweets", "meta")>> \in Seq(PlainSteps(h))
      BY <2>1, <2>2
    <3> QED
      BY <2>2, <3>1, <3>2 DEF LoadPromoted
  <2>3. CASE ~OnX(h)
    <3>1. <<Step("tree", PostsBranch(h), "body")>> \in Seq(PlainSteps(h))
      BY <1>1
    <3>2. <<>> \in Seq(PlainSteps(h))
      OBVIOUS
    <3> QED
      BY <2>3, <3>1, <3>2 DEF LoadPromoted
  <2> QED
    BY <2>2, <2>3
<1>3. CASE OnX(h) \/ o
  <2>1. SyncFromPosts(h, o) = <<>>
    BY <1>3 DEF SyncFromPosts
  <2>2. LoadPromoted(h) \o SyncFromPosts(h, o) \in Seq(PlainSteps(h))
    BY <1>2, <2>1
  <2> QED
    BY <2>2, PlainCalls
<1>4. CASE ~OnX(h) /\ ~o
  <2>1. h \in {"post", "draft"}
    BY <1>4 DEF OnX
  <2>2. Step("tree", "posts", "body") \in GhSteps /\ Step("tree", "posts", "meta") \in GhSteps
    BY StepIsCall DEF GhCalls, PackFiles, Branches
  <2>3. /\ Step("tree", "posts", "body") \in FedSteps(h)
        /\ Step("tree", "posts", "meta") \in FedSteps(h)
    BY <1>4, <2>2, StepFields, SpecialSteps DEF FedSteps, BoundTo, PostsBranch
  <2>4. PutFiles("mirror") \in Seq(FedSteps(h))
    BY <2>1, MirrorPutsAreFed
  <2>5. PICK t : t = <<Step("tree", "posts", "body"), Step("tree", "posts", "meta")>>
                        \o PutFiles("mirror")
    OBVIOUS
  <2>6. /\ t \in Seq(FedSteps(h)) /\ t # <<>> /\ Len(t) = 4
        /\ t[1] = Step("tree", "posts", "body") /\ t[2] = Step("tree", "posts", "meta")
        /\ t[1 + 2] = PutFiles("mirror")[1] /\ t[2 + 2] = PutFiles("mirror")[2]
    <3>1. Len(PutFiles("mirror")) = 2
      BY DEF PutFiles
    <3> QED
      BY SMTT(30), <2>3, <2>4, <2>5, <3>1, PairJoined
  <2>7. t[1] \in {PullRead, PostsRead}
    BY <2>6 DEF PostsRead
  <2>8. \A k \in 1..Len(t) : t[k] # PullRead
    <3>1. PutFiles("mirror")[1] = Step("put", "mirror", "body")
          /\ PutFiles("mirror")[2] = Step("put", "mirror", "meta")
      BY DEF PutFiles
    <3>2. \A k \in 1..4 : k = 1 \/ k = 2 \/ k = 1 + 2 \/ k = 2 + 2
      OBVIOUS
    <3>3. t[1] # PullRead /\ t[2] # PullRead /\ t[1 + 2] # PullRead /\ t[2 + 2] # PullRead
      BY <2>6, <3>1, SpecialSteps
    <3> QED
      BY <2>6, <3>2, <3>3
  <2>9. SyncFromPosts(h, o) = t
    BY <1>4, <2>5 DEF SyncFromPosts
  <2> QED
    BY <1>2, <2>6, <2>7, <2>8, <2>9, MirrorCalls
<1> QED
  BY <1>3, <1>4

-----------------------------------------------------------------------------
(* One job: what is true of its record, whatever the others do.               *)

LEMMA Attempts == ShaRetryAttempts \in Nat /\ ShaRetryAttempts >= 1
  BY GhAssumption

JobRecs == [todo : Seq(GhSteps), read : BOOLEAN, since : {"nothing", "branch", "file"},
            tries : Nat, rivals : Nat, held : Nat, end : {"none", "ok", "failed", "outpaced"}]

\* Every failed attempt of a put is paid for by a rival: there are as many rivals as attempts,
\* and one more as soon as the sha that was read is known to be stale.
JobFine(r, h, posted, state) ==
    /\ r \in JobRecs
    /\ Calls(r.todo, h, r.held, posted, state)
    /\ r.tries < ShaRetryAttempts
    /\ r.rivals >= r.tries
    /\ r.read /\ r.since # "nothing" => r.rivals >= r.tries + 1
    /\ r.todo # <<>> => r.end = "none"
    /\ r.end = "outpaced" => r.rivals >= ShaRetryAttempts

LEMMA NoCalls ==
    ASSUME NEW h, NEW held, NEW posted, NEW state
    PROVE  <<>> \in Seq(GhSteps) /\ Calls(<<>>, h, held, posted, state)
<1>1. <<>> \in Seq(GhSteps) /\ Len(<<>>) = 0
  OBVIOUS
<1> QED
  BY <1>1 DEF Calls

LEMMA IdleRec ==
    IdleJob \in JobRecs /\ IdleJob.todo = <<>> /\ IdleJob.tries = 0 /\ IdleJob.rivals = 0
      /\ IdleJob.read = FALSE /\ IdleJob.end = "none"
<1>1. <<>> \in Seq(GhSteps)
  BY NoCalls
<1>2. IdleJob \in JobRecs
  BY <1>1 DEF IdleJob, JobRecs
<1>3. IdleJob.todo = <<>>
  BY DEF IdleJob
<1>4. IdleJob.tries = 0 /\ IdleJob.rivals = 0
  BY DEF IdleJob
<1>5. IdleJob.read = FALSE /\ IdleJob.end = "none"
  BY DEF IdleJob
<1> QED
  BY <1>2, <1>3, <1>4, <1>5

\* A record without calls is fine, however its job ended.
LEMMA NoCallsFine ==
    ASSUME NEW r \in JobRecs, r.todo = <<>>, r.tries = 0, r.read = FALSE,
           r.end = "outpaced" => r.rivals >= ShaRetryAttempts,
           NEW h, NEW posted, NEW state
    PROVE  JobFine(r, h, posted, state)
<1>1. Calls(r.todo, h, r.held, posted, state)
  BY NoCalls
<1>2. r.tries < ShaRetryAttempts /\ r.rivals >= r.tries
  BY Attempts DEF JobRecs
<1> QED
  BY <1>1, <1>2 DEF JobFine

LEMMA IdleFine ==
    ASSUME NEW e \in {"none", "ok", "failed", "outpaced"}, NEW n \in Nat,
           e = "outpaced" => n >= ShaRetryAttempts,
           NEW h, NEW posted, NEW state
    PROVE  JobFine([IdleJob EXCEPT !.end = e, !.rivals = n], h, posted, state)
<1>1. PICK i : i = IdleJob
  OBVIOUS
<1>2. PICK r : r = [i EXCEPT !.end = e, !.rivals = n]
  OBVIOUS
<1>3. i \in JobRecs
  BY <1>1, IdleRec
<1>4. r \in JobRecs
  BY <1>2, <1>3 DEF JobRecs
<1>5. r.todo = i.todo /\ r.tries = i.tries /\ r.read = i.read
  BY <1>2, <1>3 DEF JobRecs
<1>6. r.end = e /\ r.rivals = n
  BY <1>2, <1>3 DEF JobRecs
<1>7. JobFine(r, h, posted, state)
  BY <1>1, <1>4, <1>5, <1>6, IdleRec, NoCallsFine
<1> QED
  BY <1>1, <1>2, <1>7

LEMMA EndedOk ==
    ASSUME NEW h, NEW posted, NEW state
    PROVE  JobFine([IdleJob EXCEPT !.end = "ok"], h, posted, state)
<1>1. PICK i : i = IdleJob
  OBVIOUS
<1>2. PICK r : r = [i EXCEPT !.end = "ok"]
  OBVIOUS
<1>3. i \in JobRecs
  BY <1>1, IdleRec
<1>4. r \in JobRecs
  BY <1>2, <1>3 DEF JobRecs
<1>5. r.todo = i.todo /\ r.tries = i.tries /\ r.read = i.read
  BY <1>2, <1>3 DEF JobRecs
<1>6. r.end = "ok"
  BY <1>2, <1>3 DEF JobRecs
<1>7. JobFine(r, h, posted, state)
  BY <1>1, <1>4, <1>5, <1>6, IdleRec, NoCallsFine
<1> QED
  BY <1>1, <1>2, <1>7

LEMMA JobEndsFine ==
    ASSUME NEW j \in GhJobs, NEW how \in {"ok", "failed", "outpaced"},
           how = "outpaced" => ghJob[j].rivals \in Nat /\ ghJob[j].rivals >= ShaRetryAttempts,
           NEW h, NEW posted, NEW state
    PROVE  JobFine(JobEnds(j, how), h, posted, state)
<1>1. PICK n : n = IF how = "outpaced" THEN ghJob[j].rivals ELSE 0
  OBVIOUS
<1>2. n \in Nat /\ (how = "outpaced" => n >= ShaRetryAttempts)
  BY <1>1
<1>3. JobEnds(j, how) = [IdleJob EXCEPT !.end = how, !.rivals = n]
  BY <1>1 DEF JobEnds
<1>4. JobFine([IdleJob EXCEPT !.end = how, !.rivals = n], h, posted, state)
  BY <1>2, IdleFine
<1> QED
  BY <1>3, <1>4

LEMMA CallsStay ==
    ASSUME NEW todo, NEW h, NEW held, NEW posted, NEW posted2, NEW state, NEW state2,
           Calls(todo, h, held, posted, state), posted \subseteq posted2,
           state = "merged" => state2 = "merged"
    PROVE  Calls(todo, h, held, posted2, state2)
  BY DEF Calls, WasPosted

LEMMA JobStays ==
    ASSUME NEW r, NEW h, NEW posted, NEW posted2, NEW state, NEW state2,
           JobFine(r, h, posted, state), posted \subseteq posted2,
           state = "merged" => state2 = "merged"
    PROVE  JobFine(r, h, posted2, state2)
<1>1. Calls(r.todo, h, r.held, posted2, state2)
  BY CallsStay DEF JobFine
<1> QED
  BY <1>1 DEF JobFine

LEMMA OutrunFine ==
    ASSUME NEW r, NEW h, NEW posted, NEW state, JobFine(r, h, posted, state), NEW b, NEW f
    PROVE  JobFine(Outrun(b, f, r), h, posted, state)
<1>1. CASE Outrun(b, f, r) = r
  BY <1>1
<1>2. CASE Outrun(b, f, r) # r
  <2>1. PICK s, n : Outrun(b, f, r) = [r EXCEPT !.since = s, !.rivals = n]
                    /\ s \in {"nothing", "branch", "file"}
                    /\ (~r.read => s = r.since)
                    /\ n = IF r.rivals < ShaRetryAttempts THEN r.rivals + 1 ELSE r.rivals
    <3>1. r.since \in {"nothing", "branch", "file"}
      BY DEF JobFine, JobRecs
    <3> QED
      BY <1>2, <3>1 DEF Outrun
  <2>2. PICK e : e = [r EXCEPT !.since = s, !.rivals = n]
    OBVIOUS
  <2>3. r \in JobRecs /\ r.rivals \in Nat /\ r.tries \in Nat
    BY DEF JobFine, JobRecs
  <2>4. n \in Nat /\ n >= r.tries + 1 /\ n >= r.rivals
    BY <2>1, <2>3, Attempts DEF JobFine
  <2>5. e \in JobRecs
    BY <2>1, <2>2, <2>3, <2>4 DEF JobRecs
  <2>6. e.todo = r.todo /\ e.read = r.read /\ e.held = r.held
    BY <2>2, <2>3 DEF JobRecs
  <2>7. e.tries = r.tries /\ e.rivals = n /\ e.end = r.end
    BY <2>2, <2>3 DEF JobRecs
  <2>8. JobFine(e, h, posted, state)
    BY <2>3, <2>4, <2>5, <2>6, <2>7, Attempts DEF JobFine
  <2> QED
    BY <2>1, <2>2, <2>8
<1> QED
  BY <1>1, <1>2

\* A call is through: what the job has left is as good as before.
LEMMA DoneFine ==
    ASSUME NEW j, NEW r, NEW h, NEW posted, NEW posted2, NEW state, NEW state2, NEW v \in Nat,
           JobFine(r, h, posted, state), r.todo # <<>>,
           \/ v = r.held
           \/ Head(r.todo).call = "first"
           \/ WasPosted(v, posted2),
           Head(r.todo) \in {PullRead, PostsRead} => WasPosted(v, posted2),
           posted \subseteq posted2,
           state = "merged" => state2 = "merged",
           Head(r.todo).call = "merge" => state2 = "merged"
    PROVE  JobFine(Done(j, [r EXCEPT !.held = v]), h, posted2, state2)
<1>1. PICK q : q = [r EXCEPT !.held = v]
  OBVIOUS
<1>2. r \in JobRecs
  BY DEF JobFine
<1>3. q \in JobRecs /\ q.todo = r.todo /\ q.held = v /\ q.end = r.end
  BY <1>1, <1>2 DEF JobRecs
<1>4. CASE Tail(r.todo) = <<>>
  <2>1. Done(j, q) = [IdleJob EXCEPT !.end = "ok"]
    BY <1>3, <1>4 DEF Done
  <2> QED
    BY <2>1, <1>1, EndedOk
<1>5. CASE Tail(r.todo) # <<>>
  <2>1. PICK t : t = Tail(r.todo)
    OBVIOUS
  <2>2. PICK e : e = [q EXCEPT !.todo = t, !.read = FALSE, !.since = "nothing",
                               !.tries = 0, !.rivals = 0]
    OBVIOUS
  <2>3. Done(j, q) = e
    BY <1>3, <1>5, <2>1, <2>2 DEF Done
  <2>4. t \in Seq(GhSteps)
    BY <1>2, <2>1, TailOfCalls DEF JobRecs
  <2>5. e \in JobRecs
    BY <1>3, <2>2, <2>4 DEF JobRecs
  <2>6. e.todo = t /\ e.read = FALSE /\ e.tries = 0
    BY <1>3, <2>2 DEF JobRecs
  <2>7. e.rivals = 0 /\ e.held = v /\ e.end = r.end
    BY <1>3, <2>2 DEF JobRecs
  <2>8. WasPosted(r.held, posted) => WasPosted(v, posted2) \/ Head(r.todo).call = "first"
    BY DEF WasPosted
  <2>9. Calls(t, h, v, posted2, state2)
    BY <2>1, <2>8, CallsTail DEF JobFine
  <2>10. r.end = "none"
    BY DEF JobFine
  <2>11. JobFine(e, h, posted2, state2)
    BY <2>5, <2>6, <2>7, <2>9, <2>10, Attempts DEF JobFine
  <2> QED
    BY <2>3, <2>11, <1>1
<1> QED
  BY <1>4, <1>5

-----------------------------------------------------------------------------
(* The inductive invariant.                                                   *)

GhKinds == {"post", "xpost", "draft", "tweet"}
GhTypeOK ==
    /\ ghHead \in GhKinds
    /\ ghOrgIsFork \in BOOLEAN
    /\ ghTree \in [Branches -> Nat]
    /\ ghPull \in [state : {"none", "open", "merged", "closed"}, body : Nat]
    /\ ghJob \in [GhJobs -> JobRecs]
    /\ ghPosted \in SUBSET Nat

\* Every place a text of the mirror comes from holds a text that was posted.
SourcesPosted ==
    /\ WasPosted(ghTree[PostsBranch(ghHead)], ghPosted)
    /\ WasPosted(ghTree["mirror"], ghPosted)
    /\ ghPull.state = "merged" /\ ghHead = "post" => WasPosted(ghPull.body, ghPosted)

JobsFine == \A j \in GhJobs : JobFine(ghJob[j], ghHead, ghPosted, ghPull.state)

GhInv == GhTypeOK /\ SourcesPosted /\ JobsFine

LEMMA GhInitInv == GhInit => GhInv
<1> SUFFICES ASSUME GhInit
             PROVE  GhInv
  OBVIOUS
<1>1. ghHead \in GhKinds
  BY GhAssumption DEF GhInit, GhKinds
<1>2. ghOrgIsFork \in BOOLEAN
  BY DEF GhInit
<1>3. ghTree \in [Branches -> Nat]
  BY DEF GhInit
<1>4. ghPull \in [state : {"none", "open", "merged", "closed"}, body : Nat]
  BY DEF GhInit
<1>5. ghJob \in [GhJobs -> JobRecs]
  BY IdleRec DEF GhInit
<1>6. ghPosted = {}
  BY DEF GhInit
<1>7. PostsBranch(ghHead) \in {"posts", "tweets"}
  BY DEF PostsBranch
<1>8. ghTree[PostsBranch(ghHead)] = 0 /\ ghTree["mirror"] = 0
  BY <1>7 DEF GhInit, Branches, Legacy
<1>9. ghPull.state # "merged"
  BY DEF GhInit
<1>10. SourcesPosted
  BY <1>8, <1>9 DEF SourcesPosted, WasPosted
<1>11. JobsFine
  <2>1. \A j \in GhJobs : ghJob[j] = IdleJob
    BY DEF GhInit
  <2>2. JobFine(IdleJob, ghHead, ghPosted, ghPull.state)
    BY IdleRec, NoCallsFine
  <2> QED
    BY <2>1, <2>2 DEF JobsFine
<1> QED
  BY <1>1, <1>2, <1>3, <1>4, <1>5, <1>6, <1>10, <1>11 DEF GhInv, GhTypeOK

\* What any step of job j does, once its own record is known to be fine: the others are where
\* they were, or outrun.
LEMMA JobSteps ==
    ASSUME GhInv, NEW j \in GhJobs, NEW e,
           ghHead' = ghHead, ghOrgIsFork' = ghOrgIsFork,
           ghTree' \in [Branches -> Nat],
           ghPull' \in [state : {"none", "open", "merged", "closed"}, body : Nat],
           ghPosted' \in SUBSET Nat, ghPosted \subseteq ghPosted',
           ghPull.state = "merged" => ghPull'.state = "merged",
           SourcesPosted',
           JobFine(e, ghHead, ghPosted', ghPull'.state),
           \/ ghJob' = [ghJob EXCEPT ![j] = e]
           \/ \E b, f : ghJob' = [k \in GhJobs |-> IF k = j THEN e ELSE Outrun(b, f, ghJob[k])]
    PROVE  GhInv'
<1>1. ghJob \in [GhJobs -> JobRecs]
  BY DEF GhInv, GhTypeOK
<1>2. ASSUME NEW k \in GhJobs
      PROVE  JobFine(ghJob[k], ghHead, ghPosted', ghPull'.state)
  <2>1. JobFine(ghJob[k], ghHead, ghPosted, ghPull.state)
    BY DEF GhInv, JobsFine
  <2> QED
    BY <2>1, JobStays
<1>3. /\ DOMAIN ghJob' = GhJobs /\ ghJob' = [k \in GhJobs |-> ghJob'[k]]
      /\ \A k \in GhJobs : JobFine(ghJob'[k], ghHead, ghPosted', ghPull'.state)
  <2>1. CASE ghJob' = [ghJob EXCEPT ![j] = e]
    <3>1. ghJob' = [k \in GhJobs |-> IF k = j THEN e ELSE ghJob[k]]
      BY <2>1, <1>1
    <3> QED
      BY <3>1, <1>2
  <2>2. CASE \E b, f : ghJob' = [k \in GhJobs |-> IF k = j THEN e ELSE Outrun(b, f, ghJob[k])]
    <3>1. PICK b, f : ghJob' = [k \in GhJobs |-> IF k = j THEN e ELSE Outrun(b, f, ghJob[k])]
      BY <2>2
    <3>2. \A k \in GhJobs : JobFine(Outrun(b, f, ghJob[k]), ghHead, ghPosted', ghPull'.state)
      BY <1>2, OutrunFine
    <3> QED
      BY <3>1, <3>2
  <2> QED
    BY <2>1, <2>2
<1>4. ghJob' \in [GhJobs -> JobRecs]
  <2>1. \A k \in GhJobs : ghJob'[k] \in JobRecs
    BY <1>3 DEF JobFine
  <2> QED
    BY <2>1, <1>3
<1>5. GhTypeOK'
  BY <1>4 DEF GhInv, GhTypeOK
<1>6. JobsFine'
  BY <1>3 DEF JobsFine
<1> QED
  BY <1>5, <1>6 DEF GhInv

\* A step that only changes the record of j.
LEMMA QuietStep ==
    ASSUME GhInv, NEW j \in GhJobs, NEW e,
           UNCHANGED <<ghHead, ghOrgIsFork, ghTree, ghPull, ghPosted>>, SetJob(j, e),
           JobFine(e, ghHead, ghPosted, ghPull.state)
    PROVE  GhInv'
<1>1. SourcesPosted'
  BY DEF GhInv, SourcesPosted
<1>2. /\ ghTree' \in [Branches -> Nat]
      /\ ghPull' \in [state : {"none", "open", "merged", "closed"}, body : Nat]
      /\ ghPosted' \in SUBSET Nat /\ ghPosted \subseteq ghPosted'
  BY DEF GhInv, GhTypeOK
<1>3. ghJob' = [ghJob EXCEPT ![j] = e]
  BY DEF SetJob
<1>4. JobFine(e, ghHead, ghPosted', ghPull'.state)
  OBVIOUS
<1> QED
  BY <1>1, <1>2, <1>3, <1>4, JobSteps

LEMMA RefusedStep ==
    ASSUME GhInv, NEW j \in GhJobs,
           UNCHANGED <<ghHead, ghOrgIsFork, ghTree, ghPull, ghPosted>>,
           NEW how \in {"ok", "failed"}, SetJob(j, JobEnds(j, how))
    PROVE  GhInv'
<1>1. JobFine(JobEnds(j, how), ghHead, ghPosted, ghPull.state)
  BY JobEndsFine
<1> QED
  BY <1>1, QuietStep

\* A function of the client starts.
LEMMA StartStep ==
    ASSUME GhInv, NEW j \in GhJobs, NEW todo, NEW pack \in Nat,
           Calls(todo, ghHead, pack, ghPosted, ghPull.state), StartJob(j, todo, pack)
    PROVE  GhInv'
<1>1. PICK i : i = IdleJob
  OBVIOUS
<1>2. PICK e : e = [i EXCEPT !.todo = todo, !.held = pack]
  OBVIOUS
<1>3. i \in JobRecs /\ todo \in Seq(GhSteps)
  BY <1>1, IdleRec DEF Calls
<1>4. e \in JobRecs
  BY <1>2, <1>3 DEF JobRecs
<1>5. e.todo = todo /\ e.held = pack
  BY <1>2, <1>3 DEF JobRecs
<1>6. e.tries = i.tries /\ e.rivals = i.rivals /\ e.read = i.read /\ e.end = i.end
  BY <1>2, <1>3 DEF JobRecs
<1>7. e.tries = 0 /\ e.rivals = 0
  BY <1>1, <1>6, IdleRec
<1>8. e.read = FALSE /\ e.end = "none"
  BY <1>1, <1>6, IdleRec
<1>9. JobFine(e, ghHead, ghPosted, ghPull.state)
  BY <1>4, <1>5, <1>7, <1>8, Attempts DEF JobFine
<1>10. SetJob(j, e)
  BY <1>1, <1>2 DEF StartJob, SetJob
<1> QED
  BY <1>9, <1>10, QuietStep DEF StartJob

\* The call of job j is through, and what it holds is what it held or a value it read.
LEMMA ThroughFine ==
    ASSUME GhInv, NEW j \in GhJobs, ghJob[j].todo # <<>>, NEW posted, NEW state, NEW v \in Nat,
           \/ v = ghJob[j].held
           \/ Head(ghJob[j].todo).call = "first"
           \/ WasPosted(v, posted),
           Head(ghJob[j].todo) \in {PullRead, PostsRead} => WasPosted(v, posted),
           ghPosted \subseteq posted,
           ghPull.state = "merged" => state = "merged",
           Head(ghJob[j].todo).call = "merge" => state = "merged"
    PROVE  JobFine(Done(j, [ghJob[j] EXCEPT !.held = v]), ghHead, posted, state)
<1>1. JobFine(ghJob[j], ghHead, ghPosted, ghPull.state)
  BY DEF GhInv, JobsFine
<1> QED
  BY <1>1, DoneFine

LEMMA ThroughSame ==
    ASSUME GhInv, NEW j \in GhJobs, ghJob[j].todo # <<>>, NEW posted, NEW state,
           Head(ghJob[j].todo) \notin {PullRead, PostsRead},
           ghPosted \subseteq posted,
           ghPull.state = "merged" => state = "merged",
           Head(ghJob[j].todo).call = "merge" => state = "merged"
    PROVE  JobFine(Done(j, ghJob[j]), ghHead, posted, state)
<1>1. ghJob[j] \in JobRecs
  BY DEF GhInv, GhTypeOK
<1>2. PICK r : r = ghJob[j]
  OBVIOUS
<1>3. r.held \in Nat /\ [r EXCEPT !.held = r.held] = r
  BY <1>1, <1>2 DEF JobRecs
<1>4. JobFine(Done(j, [r EXCEPT !.held = r.held]), ghHead, posted, state)
  BY <1>2, <1>3, ThroughFine
<1> QED
  BY <1>2, <1>3, <1>4

-----------------------------------------------------------------------------
(* The actions.                                                               *)

LEMMA DueCall ==
    ASSUME GhInv, NEW j \in GhJobs, NEW c, Due(j, c)
    PROVE  /\ ghJob[j].todo # <<>> /\ Head(ghJob[j].todo) \in GhSteps
           /\ Head(ghJob[j].todo).call = c
           /\ BoundTo(ghHead, Head(ghJob[j].todo))
           /\ JobBranch(j) \in Branches
<1>1. JobFine(ghJob[j], ghHead, ghPosted, ghPull.state)
  BY DEF GhInv, JobsFine
<1>2. PICK todo : todo = ghJob[j].todo
  OBVIOUS
<1>3. todo \in Seq(GhSteps) /\ todo # <<>>
  BY <1>1, <1>2 DEF JobFine, JobRecs, Due
<1>4. Head(todo) = todo[1] /\ Head(todo) \in GhSteps /\ 1 \in 1..Len(todo)
  BY <1>3
<1>5. BoundTo(ghHead, todo[1])
  BY <1>1, <1>2, <1>4 DEF JobFine, Calls
<1>6. Head(todo).at \in Branches
  BY <1>4 DEF GhSteps
<1> QED
  BY <1>2, <1>3, <1>4, <1>5, <1>6 DEF Due, JobBranch

LEMMA NotARead ==
    ASSUME NEW s, s.call \notin {"read", "tree"}
    PROVE  s \notin {PullRead, PostsRead}
  BY DEF PullRead, PostsRead, Step

\* The mirror is only written with a text that was posted.
LEMMA MirrorPut ==
    ASSUME GhInv, NEW j \in GhJobs, ghJob[j].todo # <<>>, Head(ghJob[j].todo) = MirrorBody
    PROVE  WasPosted(ghJob[j].held, ghPosted)
<1>1. JobFine(ghJob[j], ghHead, ghPosted, ghPull.state)
  BY DEF GhInv, JobsFine
<1>2. PICK todo : todo = ghJob[j].todo
  OBVIOUS
<1>3. todo \in Seq(GhSteps) /\ todo # <<>>
  BY <1>1, <1>2 DEF JobFine, JobRecs
<1>4. Head(todo) = todo[1] /\ 1 \in 1..Len(todo)
  BY <1>3
<1>5. WasPosted(ghJob[j].held, ghPosted) \/ Fed(todo, 0, 1)
  BY <1>1, <1>2, <1>4 DEF JobFine, Calls
<1>6. ~Fed(todo, 0, 1)
  BY DEF Fed
<1> QED
  BY <1>5, <1>6

LEMMA StartActions ==
    ASSUME GhInv, NEW j \in GhJobs,
           AcceptPack(j) \/ PromotePull(j) \/ RetryPromoted(j) \/ CloseRowPull(j)
    PROVE  GhInv'
<1>1. ghHead \in {"post", "xpost", "draft", "tweet"} /\ ghOrgIsFork \in BOOLEAN
  BY DEF GhInv, GhTypeOK, GhKinds
<1>2. CASE AcceptPack(j)
  <2>1. PICK v \in 1..GhVersions :
            StartJob(j, IF ghPull.state = "open" THEN PutFiles(ghHead) ELSE OpenPrInto(ghHead), v)
    BY <1>2 DEF AcceptPack
  <2>2. v \in Nat
    BY GhAssumption
  <2>3. PICK todo \in {PutFiles(ghHead), OpenPrInto(ghHead)} : StartJob(j, todo, v)
    BY <2>1
  <2>4. Calls(todo, ghHead, v, ghPosted, ghPull.state)
    BY <1>1, AcceptCalls
  <2> QED
    BY <2>2, <2>3, <2>4, StartStep
<1>3. CASE PromotePull(j)
  <2>1. StartJob(j, PromotePr(ghHead, ghOrgIsFork), 0)
    BY <1>3 DEF PromotePull
  <2>2. Calls(PromotePr(ghHead, ghOrgIsFork), ghHead, 0, ghPosted, ghPull.state)
    BY <1>1, PromoteCalls
  <2> QED
    BY <2>1, <2>2, StartStep
<1>4. CASE RetryPromoted(j)
  <2>1. StartJob(j, LoadPromoted(ghHead) \o SyncFromPosts(ghHead, ghOrgIsFork), 0)
    BY <1>4 DEF RetryPromoted
  <2>2. Calls(LoadPromoted(ghHead) \o SyncFromPosts(ghHead, ghOrgIsFork), ghHead, 0, ghPosted,
              ghPull.state)
    BY <1>1, RetryCalls
  <2> QED
    BY <2>1, <2>2, StartStep
<1>5. CASE CloseRowPull(j)
  <2>1. StartJob(j, ClosePull(ghHead), 0)
    BY <1>5 DEF CloseRowPull
  <2>2. Calls(ClosePull(ghHead), ghHead, 0, ghPosted, ghPull.state)
    BY <1>1, CloseCalls
  <2> QED
    BY <2>1, <2>2, StartStep
<1> QED
  BY <1>2, <1>3, <1>4, <1>5

\* The head branch is none of the branches a text of the mirror comes from.
LEMMA HeadIsNoSource ==
    ASSUME ghHead \in GhKinds
    PROVE  /\ ghHead \in Branches /\ ghHead # "mirror" /\ ghHead # PostsBranch(ghHead)
           /\ PostsBranch(ghHead) \in Branches /\ PostsBranch(ghHead) # "mirror"
           /\ BaseOf(ghHead) \in Branches /\ BaseOf(ghHead) # "mirror"
           /\ ghHead = "post" => BaseOf(ghHead) = PostsBranch(ghHead)
<1>1. BaseOf(ghHead) \in {"posts", "tweets", "drafts", "drafts_tweet"}
  BY DEF BaseOf, GhKinds
<1>2. PostsBranch(ghHead) \in {"posts", "tweets"}
  BY DEF PostsBranch
<1>3. ghHead = "post" => BaseOf(ghHead) = PostsBranch(ghHead)
  BY DEF BaseOf, PostsBranch, OnX
<1> QED
  BY <1>1, <1>2, <1>3 DEF GhKinds, Branches

LEMMA CreateBranchInv == ASSUME GhInv, NEW j \in GhJobs, CreateBranch(j) PROVE GhInv'
<1>1. ghJob[j].todo # <<>> /\ Head(ghJob[j].todo).call = "branch" /\ JobBranch(j) = ghHead
  BY DueCall DEF CreateBranch, BoundTo, JobBranch
<1>2. CASE CallRefused(j) /\ UNCHANGED ghTree
  BY <1>2, RefusedStep DEF CreateBranch, CallRefused
<1>3. CASE /\ ghTree' = [ghTree EXCEPT ![ghHead] = IF @ = 0 THEN ghTree[BaseOf(ghHead)] ELSE @]
           /\ Through(j, Done(j, ghJob[j]))
  <2>1. ghHead \in GhKinds /\ ghTree \in [Branches -> Nat]
    BY DEF GhInv, GhTypeOK
  <2>2. ghTree' \in [Branches -> Nat]
    BY <1>3, <2>1, HeadIsNoSource
  <2>3. ghTree'[PostsBranch(ghHead)] = ghTree[PostsBranch(ghHead)]
        /\ ghTree'["mirror"] = ghTree["mirror"]
    BY <1>3, <2>1, HeadIsNoSource
  <2>4. UNCHANGED <<ghHead, ghOrgIsFork, ghPull, ghPosted>>
    BY DEF CreateBranch
  <2>5. SourcesPosted'
    BY <2>3, <2>4 DEF GhInv, SourcesPosted
  <2>6. JobFine(Done(j, ghJob[j]), ghHead, ghPosted, ghPull.state)
    BY <1>1, NotARead, ThroughSame
  <2>7. JobFine(JobEnds(j, "failed"), ghHead, ghPosted, ghPull.state)
    BY JobEndsFine
  <2>8. PICK e \in {Done(j, ghJob[j]), JobEnds(j, "failed")} : ghJob' = [ghJob EXCEPT ![j] = e]
    BY <1>3 DEF Through, SetJob
  <2>9. JobFine(e, ghHead, ghPosted', ghPull'.state)
    BY <2>4, <2>6, <2>7
  <2>10. /\ ghPull' \in [state : {"none", "open", "merged", "closed"}, body : Nat]
         /\ ghPosted' \in SUBSET Nat /\ ghPosted \subseteq ghPosted'
         /\ ghPull.state = "merged" => ghPull'.state = "merged"
    BY <2>4 DEF GhInv, GhTypeOK
  <2> QED
    BY <2>2, <2>4, <2>5, <2>8, <2>9, <2>10, JobSteps
<1> QED
  BY <1>1, <1>2, <1>3 DEF CreateBranch

LEMMA ExistingFileShaInv == ASSUME GhInv, NEW j \in GhJobs, ExistingFileSha(j) PROVE GhInv'
<1>1. CASE CallRefused(j)
  BY <1>1, RefusedStep DEF ExistingFileSha, CallRefused
<1>2. CASE SetJob(j, [ghJob[j] EXCEPT !.read = TRUE, !.since = "nothing"])
  <2>1. PICK r : r = ghJob[j]
    OBVIOUS
  <2>2. PICK e : e = [r EXCEPT !.read = TRUE, !.since = "nothing"]
    OBVIOUS
  <2>3. JobFine(r, ghHead, ghPosted, ghPull.state)
    BY <2>1 DEF GhInv, JobsFine
  <2>4. r \in JobRecs
    BY <2>3 DEF JobFine
  <2>5. e \in JobRecs
    BY <2>2, <2>4 DEF JobRecs
  <2>6. e.todo = r.todo /\ e.since = "nothing" /\ e.tries = r.tries
    BY <2>2, <2>4 DEF JobRecs
  <2>7. e.rivals = r.rivals /\ e.held = r.held /\ e.end = r.end
    BY <2>2, <2>4 DEF JobRecs
  <2>8. JobFine(e, ghHead, ghPosted, ghPull.state)
    BY <2>3, <2>5, <2>6, <2>7 DEF JobFine
  <2> QED
    BY <1>2, <2>1, <2>2, <2>8, QuietStep DEF ExistingFileSha
<1> QED
  BY <1>1, <1>2 DEF ExistingFileSha

\* A file is written: the branch of the publications keeps to what is posted by definition, and
\* the mirror because of what the job holds.
LEMMA WriteFileInv ==
    ASSUME GhInv, NEW j \in GhJobs, Due(j, "put"), WriteFile(j),
           UNCHANGED <<ghHead, ghOrgIsFork, ghPull>>
    PROVE  GhInv'
<1>1. /\ ghJob[j].todo # <<>> /\ Head(ghJob[j].todo) \in GhSteps
      /\ Head(ghJob[j].todo).call = "put" /\ JobBranch(j) \in Branches
  BY DueCall
<1>2. ghJob[j] \in JobRecs /\ ghJob[j].held \in Nat
  BY DEF GhInv, GhTypeOK, JobRecs
<1>3. ghHead \in GhKinds /\ ghTree \in [Branches -> Nat] /\ ghPosted \in SUBSET Nat
  BY DEF GhInv, GhTypeOK
<1>4. ghTree' = IF FileOf(j) = "body" THEN [ghTree EXCEPT ![JobBranch(j)] = ghJob[j].held] ELSE ghTree
  BY DEF WriteFile
<1>5. ghTree' \in [Branches -> Nat]
  BY <1>1, <1>2, <1>3, <1>4
<1>6. ghPosted' = ghPosted \cup ({ghTree'[PostsBranch(ghHead)]} \ {0})
  BY DEF WriteFile, Posted
<1>7. PostsBranch(ghHead) \in Branches /\ PostsBranch(ghHead) # "mirror"
  BY <1>3, HeadIsNoSource
<1>8. ghPosted' \in SUBSET Nat /\ ghPosted \subseteq ghPosted'
  BY <1>3, <1>5, <1>6, <1>7
<1>9. WasPosted(ghTree'[PostsBranch(ghHead)], ghPosted')
  BY <1>6 DEF WasPosted
<1>10. WasPosted(ghTree'["mirror"], ghPosted')
  <2>1. CASE ghTree'["mirror"] = ghTree["mirror"]
    BY <2>1, <1>8 DEF GhInv, SourcesPosted, WasPosted
  <2>2. CASE ghTree'["mirror"] # ghTree["mirror"]
    <3>1. "mirror" \in Branches
      BY DEF Branches
    <3>2. FileOf(j) = "body" /\ JobBranch(j) = "mirror" /\ ghTree'["mirror"] = ghJob[j].held
      BY <2>2, <3>1, <1>1, <1>3, <1>4
    <3>3. Head(ghJob[j].todo) = MirrorBody
      BY <3>2, <1>1 DEF GhSteps, MirrorBody, Step, FileOf, JobBranch
    <3>4. WasPosted(ghJob[j].held, ghPosted)
      BY <1>1, <3>3, MirrorPut
    <3> QED
      BY <3>2, <3>4, <1>8 DEF WasPosted
  <2> QED
    BY <2>1, <2>2
<1>11. SourcesPosted'
  <2>1. ghPull.state = "merged" /\ ghHead = "post" => WasPosted(ghPull.body, ghPosted')
    BY <1>8 DEF GhInv, SourcesPosted, WasPosted
  <2> QED
    BY <2>1, <1>9, <1>10 DEF SourcesPosted
<1>12. PICK e, b, f :
           /\ e \in {Done(j, ghJob[j]), JobEnds(j, "failed")}
           /\ ghJob' = [k \in GhJobs |-> IF k = j THEN e ELSE Outrun(b, f, ghJob[k])]
  BY DEF WriteFile, Committed
<1>13. JobFine(Done(j, ghJob[j]), ghHead, ghPosted', ghPull.state)
  BY <1>1, <1>8, NotARead, ThroughSame
<1>14. JobFine(JobEnds(j, "failed"), ghHead, ghPosted', ghPull.state)
  BY JobEndsFine
<1>15. JobFine(e, ghHead, ghPosted', ghPull'.state)
  BY <1>12, <1>13, <1>14
<1>16. /\ ghPull' \in [state : {"none", "open", "merged", "closed"}, body : Nat]
       /\ ghPull.state = "merged" => ghPull'.state = "merged"
  BY DEF GhInv, GhTypeOK
<1> QED
  BY <1>5, <1>8, <1>11, <1>12, <1>15, <1>16, JobSteps

\* An attempt over a stale sha: it was paid for by a rival.
LEMMA ConflictInv ==
    ASSUME GhInv, NEW j \in GhJobs, Due(j, "put"), ghJob[j].read,
           Conflict(j, [ghJob[j] EXCEPT !.tries = @ + 1, !.read = FALSE]),
           UNCHANGED <<ghHead, ghOrgIsFork, ghPull>>
    PROVE  GhInv'
<1>1. PICK r : r = ghJob[j]
  OBVIOUS
<1>2. JobFine(r, ghHead, ghPosted, ghPull.state) /\ r \in JobRecs
  BY <1>1 DEF GhInv, JobsFine, JobFine
<1>3. r.tries \in Nat /\ r.rivals \in Nat
  BY <1>2 DEF JobRecs
<1>4. r.rivals >= r.tries + 1 /\ r.tries < ShaRetryAttempts
  BY <1>1, <1>2 DEF JobFine, Conflict
<1>5. UNCHANGED <<ghHead, ghOrgIsFork, ghTree, ghPull, ghPosted>>
  BY DEF Conflict
<1>6. CASE r.tries + 1 < ShaRetryAttempts
  <2> PICK n \in Nat : n = r.tries + 1
    BY <1>3
  <2>1. PICK e : e = [r EXCEPT !.tries = n, !.read = FALSE]
    OBVIOUS
  <2>2. SetJob(j, e)
    <3>1. [ghJob[j] EXCEPT !.tries = @ + 1, !.read = FALSE] = e
      BY <1>1, <1>2, <2>1 DEF JobRecs
    <3>2. SetJob(j, [ghJob[j] EXCEPT !.tries = @ + 1, !.read = FALSE])
      BY <1>1, <1>6 DEF Conflict
    <3> QED
      BY <3>1, <3>2
  <2>3. e \in JobRecs
    BY <1>2, <2>1 DEF JobRecs
  <2>4. e.tries = r.tries + 1 /\ e.read = FALSE /\ e.rivals = r.rivals
    BY <1>2, <2>1 DEF JobRecs
  <2>5. e.todo = r.todo /\ e.held = r.held /\ e.end = r.end
    BY <1>2, <2>1 DEF JobRecs
  <2>6. JobFine(e, ghHead, ghPosted, ghPull.state)
    BY <1>2, <1>4, <1>6, <2>3, <2>4, <2>5 DEF JobFine
  <2> QED
    BY <1>5, <2>2, <2>6, QuietStep
<1>7. CASE ~(r.tries + 1 < ShaRetryAttempts)
  <2>1. SetJob(j, JobEnds(j, "outpaced"))
    BY <1>1, <1>7 DEF Conflict
  <2>2. ghJob[j].rivals \in Nat /\ ghJob[j].rivals >= ShaRetryAttempts
    BY <1>1, <1>3, <1>4, <1>7, Attempts
  <2>3. JobFine(JobEnds(j, "outpaced"), ghHead, ghPosted, ghPull.state)
    BY <2>2, JobEndsFine
  <2> QED
    BY <1>5, <2>1, <2>3, QuietStep
<1> QED
  BY <1>6, <1>7

LEMMA PutFileInv == ASSUME GhInv, NEW j \in GhJobs, PutFile(j) PROVE GhInv'
<1>1. CASE WriteFile(j)
  BY <1>1, WriteFileInv DEF PutFile
<1>2. CASE Conflict(j, [ghJob[j] EXCEPT !.tries = @ + 1, !.read = FALSE])
  BY <1>2, ConflictInv DEF PutFile
<1>3. CASE CallRefused(j) /\ UNCHANGED <<ghTree, ghPosted>>
  BY <1>3, RefusedStep DEF PutFile, CallRefused
<1> QED
  BY <1>1, <1>2, <1>3 DEF PutFile

LEMMA CreatePullInv == ASSUME GhInv, NEW j \in GhJobs, CreatePull(j) PROVE GhInv'
<1>1. ghJob[j].todo # <<>> /\ Head(ghJob[j].todo).call = "create"
  BY DueCall DEF CreatePull
<1>2. CASE SetJob(j, JobEnds(j, "failed")) /\ UNCHANGED ghPull
  BY <1>2, RefusedStep DEF CreatePull
<1>3. CASE /\ ghPull.state = "none"
           /\ ghPull' = [ghPull EXCEPT !.state = "open"]
           /\ Through(j, Done(j, ghJob[j]))
  <2>1. ghPull \in [state : {"none", "open", "merged", "closed"}, body : Nat]
    BY DEF GhInv, GhTypeOK
  <2>2. /\ ghPull' \in [state : {"none", "open", "merged", "closed"}, body : Nat]
        /\ ghPull'.state = "open"
    BY <1>3, <2>1
  <2>3. JobFine(Done(j, ghJob[j]), ghHead, ghPosted, ghPull'.state)
    BY <1>1, <1>3, <2>2, NotARead, ThroughSame
  <2>4. JobFine(JobEnds(j, "failed"), ghHead, ghPosted, ghPull'.state)
    BY JobEndsFine
  <2>5. PICK e \in {Done(j, ghJob[j]), JobEnds(j, "failed")} : ghJob' = [ghJob EXCEPT ![j] = e]
    BY <1>3 DEF Through, SetJob
  <2>6. JobFine(e, ghHead, ghPosted', ghPull'.state)
    BY <2>3, <2>4, <2>5 DEF CreatePull
  <2>7. SourcesPosted'
    BY <2>2 DEF CreatePull, GhInv, SourcesPosted
  <2>8. /\ ghTree' \in [Branches -> Nat] /\ ghPosted' \in SUBSET Nat /\ ghPosted \subseteq ghPosted'
    BY DEF CreatePull, GhInv, GhTypeOK
  <2> QED
    BY <1>3, <2>2, <2>5, <2>6, <2>7, <2>8, JobSteps DEF CreatePull
<1> QED
  BY <1>2, <1>3 DEF CreatePull

LEMMA RequestReviewerInv == ASSUME GhInv, NEW j \in GhJobs, RequestReviewer(j) PROVE GhInv'
<1>1. ghJob[j].todo # <<>> /\ Head(ghJob[j].todo).call = "reviewer"
  BY DueCall DEF RequestReviewer
<1>2. JobFine(Done(j, ghJob[j]), ghHead, ghPosted, ghPull.state)
  BY <1>1, NotARead, ThroughSame
<1> QED
  BY <1>2, QuietStep DEF RequestReviewer

\* The body of a pull request is a text; of a merged one that had its own head, a posted one.
LEMMA PullBodies ==
    ASSUME GhInv, NEW h \in Branches
    PROVE  /\ PullBody(h) \in Nat
           /\ ghPull.state = "merged" /\ ghHead = "post" => WasPosted(PullBody(h), ghPosted)
<1>1. ghPull.body \in Nat /\ ghTree[h] \in Nat
  BY DEF GhInv, GhTypeOK
<1> QED
  BY <1>1 DEF PullBody, GhInv, SourcesPosted

LEMMA FirstBodyInv == ASSUME GhInv, NEW j \in GhJobs, FirstBody(j) PROVE GhInv'
<1>1. /\ ghJob[j].todo # <<>> /\ Head(ghJob[j].todo).call = "first"
      /\ JobBranch(j) \in Branches
  BY DueCall DEF FirstBody
<1>2. CASE SetJob(j, JobEnds(j, "failed"))
  BY <1>2, RefusedStep DEF FirstBody
<1>3. CASE SetJob(j, Done(j, [ghJob[j] EXCEPT !.held = PullBody(JobBranch(j))]))
  <2>1. PICK v : v = PullBody(JobBranch(j))
    OBVIOUS
  <2>2. v \in Nat
    BY <1>1, <2>1, PullBodies
  <2>3. JobFine(Done(j, [ghJob[j] EXCEPT !.held = v]), ghHead, ghPosted, ghPull.state)
    BY <1>1, <2>2, NotARead, ThroughFine
  <2> QED
    BY <1>3, <2>1, <2>3, QuietStep DEF FirstBody
<1> QED
  BY <1>2, <1>3 DEF FirstBody

\* What a read brings into the hands of a job is fine when a body that reaches them was posted.
LEMMA GotFine ==
    ASSUME GhInv, NEW j \in GhJobs, NEW v \in Nat, ghJob[j].todo # <<>>,
           Head(ghJob[j].todo).call \in {"read", "tree"},
           FileOf(j) # "meta" /\ v # 0 => WasPosted(v, ghPosted),
           Head(ghJob[j].todo) \in {PullRead, PostsRead} => FileOf(j) # "meta"
    PROVE  JobFine(Got(j, v), ghHead, ghPosted, ghPull.state)
<1>1. CASE FileOf(j) = "meta"
  <2>1. JobFine(Done(j, ghJob[j]), ghHead, ghPosted, ghPull.state)
    BY <1>1, ThroughSame
  <2> QED
    BY <1>1, <2>1 DEF Got
<1>2. CASE FileOf(j) # "meta" /\ v = 0
  BY <1>2, JobEndsFine DEF Got
<1>3. CASE FileOf(j) # "meta" /\ v # 0
  <2>1. JobFine(Done(j, [ghJob[j] EXCEPT !.held = v]), ghHead, ghPosted, ghPull.state)
    BY <1>3, ThroughFine
  <2> QED
    BY <1>3, <2>1 DEF Got
<1> QED
  BY <1>1, <1>2, <1>3

LEMMA BodyReads == PullRead.file = "body" /\ PostsRead.file = "body" /\ PullRead.at = "post"
  BY DEF PullRead, PostsRead, Step

\* A pull request whose body is read next was merged before.
LEMMA ReadsAfterMerge ==
    ASSUME GhInv, NEW j \in GhJobs, ghJob[j].todo # <<>>, Head(ghJob[j].todo) = PullRead
    PROVE  ghPull.state = "merged" /\ ghHead = "post"
<1>1. JobFine(ghJob[j], ghHead, ghPosted, ghPull.state)
  BY DEF GhInv, JobsFine
<1>2. PICK todo : todo = ghJob[j].todo
  OBVIOUS
<1>3. todo \in Seq(GhSteps) /\ todo # <<>>
  BY <1>1, <1>2 DEF JobFine, JobRecs
<1>4. Head(todo) = todo[1] /\ 1 \in 1..Len(todo)
  BY <1>3
<1>5. ghPull.state = "merged" \/ \E i \in 1..(1 - 1) : todo[i].call = "merge"
  BY <1>1, <1>2, <1>4 DEF JobFine, Calls
<1>6. BoundTo(ghHead, todo[1])
  BY <1>1, <1>2, <1>4 DEF JobFine, Calls
<1>7. ~ \E i \in 1..(1 - 1) : todo[i].call = "merge"
  OBVIOUS
<1> QED
  BY <1>2, <1>4, <1>5, <1>6, <1>7 DEF BoundTo

LEMMA ReadPullFileInv == ASSUME GhInv, NEW j \in GhJobs, ReadPullFile(j) PROVE GhInv'
<1>1. /\ ghJob[j].todo # <<>> /\ Head(ghJob[j].todo).call = "read"
      /\ JobBranch(j) \in Branches /\ BoundTo(ghHead, Head(ghJob[j].todo))
  BY DueCall DEF ReadPullFile
<1>2. PICK v : v = PullBody(JobBranch(j))
  OBVIOUS
<1>3. v \in Nat
  BY <1>1, <1>2, PullBodies
<1>4. FileOf(j) # "meta" => WasPosted(v, ghPosted)
  <2> SUFFICES ASSUME FileOf(j) # "meta"
               PROVE  WasPosted(v, ghPosted)
    OBVIOUS
  <2>1. Head(ghJob[j].todo) = PullRead
    BY <1>1 DEF BoundTo, FileOf
  <2> QED
    BY <1>1, <1>2, <2>1, ReadsAfterMerge, PullBodies
<1>5. Head(ghJob[j].todo) \in {PullRead, PostsRead} => FileOf(j) # "meta"
  BY BodyReads DEF FileOf
<1>6. PICK w \in {0, v} : SetJob(j, Got(j, w))
  BY <1>2 DEF ReadPullFile
<1>7. JobFine(Got(j, w), ghHead, ghPosted, ghPull.state)
  BY <1>1, <1>3, <1>4, <1>5, <1>6, GotFine
<1> QED
  BY <1>6, <1>7, QuietStep DEF ReadPullFile

LEMMA ReadTreeFileInv == ASSUME GhInv, NEW j \in GhJobs, ReadTreeFile(j) PROVE GhInv'
<1>1. /\ ghJob[j].todo # <<>> /\ Head(ghJob[j].todo).call = "tree"
      /\ JobBranch(j) = PostsBranch(ghHead) /\ JobBranch(j) \in Branches
  BY DueCall DEF ReadTreeFile, BoundTo, JobBranch
<1>2. CASE CallRefused(j)
  BY <1>2, RefusedStep DEF ReadTreeFile, CallRefused
<1>3. CASE SetJob(j, Got(j, ghTree[JobBranch(j)]))
  <2>1. PICK v : v = ghTree[JobBranch(j)]
    OBVIOUS
  <2>2. v \in Nat /\ WasPosted(v, ghPosted)
    BY <1>1, <2>1 DEF GhInv, GhTypeOK, SourcesPosted
  <2>3. Head(ghJob[j].todo) \in {PullRead, PostsRead} => FileOf(j) # "meta"
    BY BodyReads DEF FileOf
  <2>4. JobFine(Got(j, v), ghHead, ghPosted, ghPull.state)
    BY <1>1, <2>2, <2>3, GotFine
  <2> QED
    BY <1>3, <2>1, <2>4, QuietStep DEF ReadTreeFile
<1> QED
  BY <1>2, <1>3 DEF ReadTreeFile

\* What is merged becomes the text of the publications branch, and is posted with that.
LEMMA MergePrInv == ASSUME GhInv, NEW j \in GhJobs, MergePr(j) PROVE GhInv'
<1>1. ghJob[j].todo # <<>> /\ Head(ghJob[j].todo).call = "merge" /\ JobBranch(j) = ghHead
  BY DueCall DEF MergePr, BoundTo, JobBranch
<1>2. CASE /\ ghPull.state = "merged"
           /\ SetJob(j, Done(j, ghJob[j]))
           /\ UNCHANGED <<ghTree, ghPull, ghPosted>>
  <2>1. JobFine(Done(j, ghJob[j]), ghHead, ghPosted, ghPull.state)
    BY <1>1, <1>2, NotARead, ThroughSame
  <2> QED
    BY <1>2, <2>1, QuietStep DEF MergePr
<1>3. CASE SetJob(j, JobEnds(j, "failed")) /\ UNCHANGED <<ghTree, ghPull, ghPosted>>
  BY <1>3, RefusedStep DEF MergePr
<1>4. CASE /\ ghPull.state = "open"
           /\ ghPull' = [state |-> "merged", body |-> ghTree[ghHead]]
           /\ ghTree' = [ghTree EXCEPT ![BaseOf(ghHead)] = ghTree[ghHead]]
           /\ ghPosted' = Posted(ghTree')
           /\ Committed(j, BaseOf(ghHead), "none", Done(j, ghJob[j]))
  <2>1. ghHead \in GhKinds /\ ghTree \in [Branches -> Nat] /\ ghPosted \in SUBSET Nat
    BY DEF GhInv, GhTypeOK
  <2>2. ghTree[ghHead] \in Nat
    BY <2>1, HeadIsNoSource
  <2>3. ghTree' \in [Branches -> Nat]
    BY <1>4, <2>1, <2>2
  <2>4. /\ ghPull' \in [state : {"none", "open", "merged", "closed"}, body : Nat]
        /\ ghPull'.state = "merged" /\ ghPull'.body = ghTree[ghHead]
    BY <1>4, <2>2
  <2>5. ghHead' = ghHead /\ ghOrgIsFork' = ghOrgIsFork
    BY DEF MergePr
  <2>6. ghPosted' = ghPosted \cup ({ghTree'[PostsBranch(ghHead)]} \ {0})
    BY <1>4, <2>5 DEF Posted
  <2>7. ghTree'[PostsBranch(ghHead)] \in Nat
    BY <2>1, <2>3, HeadIsNoSource
  <2>8. ghPosted' \in SUBSET Nat /\ ghPosted \subseteq ghPosted'
    BY <2>1, <2>6, <2>7
  <2>9. SourcesPosted'
    <3>1. WasPosted(ghTree'[PostsBranch(ghHead)], ghPosted')
      BY <2>6 DEF WasPosted
    <3>2. WasPosted(ghTree'["mirror"], ghPosted')
      <4>1. "mirror" \in Branches
        BY DEF Branches
      <4>2. ghTree'["mirror"] = ghTree["mirror"]
        BY <1>4, <2>1, <4>1, HeadIsNoSource
      <4>3. WasPosted(ghTree["mirror"], ghPosted)
        BY DEF GhInv, SourcesPosted
      <4> QED
        BY <2>8, <4>2, <4>3 DEF WasPosted
    <3>3. ghHead = "post" => WasPosted(ghPull'.body, ghPosted')
      <4>1. ghHead = "post" => ghTree'[PostsBranch(ghHead)] = ghTree[ghHead]
        BY <1>4, <2>1, HeadIsNoSource
      <4> QED
        BY <2>4, <3>1, <4>1
    <3> QED
      BY <2>5, <3>1, <3>2, <3>3 DEF SourcesPosted
  <2>10. JobFine(Done(j, ghJob[j]), ghHead, ghPosted', ghPull'.state)
    BY <1>1, <2>4, <2>8, NotARead, ThroughSame
  <2>11. JobFine(JobEnds(j, "failed"), ghHead, ghPosted', ghPull'.state)
    BY JobEndsFine
  <2>12. PICK e \in {Done(j, ghJob[j]), JobEnds(j, "failed")} :
             ghJob' = [k \in GhJobs |-> IF k = j THEN e ELSE Outrun(BaseOf(ghHead), "none", ghJob[k])]
    BY <1>4 DEF Committed
  <2>13. JobFine(e, ghHead, ghPosted', ghPull'.state)
    BY <2>10, <2>11, <2>12
  <2> QED
    BY <2>3, <2>4, <2>5, <2>8, <2>9, <2>12, <2>13, JobSteps
<1> QED
  BY <1>1, <1>2, <1>3, <1>4 DEF MergePr

LEMMA GetPullInv == ASSUME GhInv, NEW j \in GhJobs, GetPull(j) PROVE GhInv'
<1>1. ghJob[j].todo # <<>> /\ Head(ghJob[j].todo).call = "get"
  BY DueCall DEF GetPull
<1>2. CASE CallRefused(j)
  BY <1>2, RefusedStep DEF GetPull, CallRefused
<1>3. CASE SetJob(j, Done(j, ghJob[j]))
  <2>1. JobFine(Done(j, ghJob[j]), ghHead, ghPosted, ghPull.state)
    BY <1>1, NotARead, ThroughSame
  <2> QED
    BY <1>3, <2>1, QuietStep DEF GetPull
<1>4. CASE SetJob(j, JobEnds(j, "ok"))
  BY <1>4, RefusedStep DEF GetPull
<1> QED
  BY <1>2, <1>3, <1>4 DEF GetPull

LEMMA ClosePrInv == ASSUME GhInv, NEW j \in GhJobs, ClosePr(j) PROVE GhInv'
<1>1. ghJob[j].todo # <<>> /\ Head(ghJob[j].todo).call = "close"
  BY DueCall DEF ClosePr
<1>2. CASE CallRefused(j) /\ UNCHANGED ghPull
  BY <1>2, RefusedStep DEF ClosePr, CallRefused
<1>3. CASE /\ ghPull' = [ghPull EXCEPT !.state = IF @ = "open" THEN "closed" ELSE @]
           /\ Through(j, Done(j, ghJob[j]))
  <2>1. ghPull \in [state : {"none", "open", "merged", "closed"}, body : Nat]
    BY DEF GhInv, GhTypeOK
  <2>2. /\ ghPull' \in [state : {"none", "open", "merged", "closed"}, body : Nat]
        /\ ghPull'.state = "merged" <=> ghPull.state = "merged"
        /\ ghPull'.body = ghPull.body
    BY <1>3, <2>1
  <2>3. JobFine(Done(j, ghJob[j]), ghHead, ghPosted, ghPull'.state)
    BY <1>1, <2>2, NotARead, ThroughSame
  <2>4. JobFine(JobEnds(j, "failed"), ghHead, ghPosted, ghPull'.state)
    BY JobEndsFine
  <2>5. PICK e \in {Done(j, ghJob[j]), JobEnds(j, "failed")} : ghJob' = [ghJob EXCEPT ![j] = e]
    BY <1>3 DEF Through, SetJob
  <2>6. JobFine(e, ghHead, ghPosted', ghPull'.state)
    BY <2>3, <2>4, <2>5 DEF ClosePr
  <2>7. SourcesPosted'
    BY <2>2 DEF ClosePr, GhInv, SourcesPosted
  <2>8. /\ ghTree' \in [Branches -> Nat] /\ ghPosted' \in SUBSET Nat /\ ghPosted \subseteq ghPosted'
    BY DEF ClosePr, GhInv, GhTypeOK
  <2> QED
    BY <2>2, <2>5, <2>6, <2>7, <2>8, JobSteps DEF ClosePr
<1> QED
  BY <1>2, <1>3 DEF ClosePr

LEMMA GhNextInv == GhInv /\ [GhNext]_ghVars => GhInv'
<1> SUFFICES ASSUME GhInv, [GhNext]_ghVars
             PROVE  GhInv'
  OBVIOUS
<1>1. CASE UNCHANGED ghVars
  BY <1>1 DEF ghVars, GhInv, GhTypeOK, SourcesPosted, JobsFine
<1>2. CASE GhNext
  <2>1. PICK j \in GhJobs :
          \/ AcceptPack(j) \/ PromotePull(j) \/ RetryPromoted(j) \/ CloseRowPull(j)
          \/ CreateBranch(j) \/ ExistingFileSha(j) \/ PutFile(j) \/ CreatePull(j)
          \/ RequestReviewer(j) \/ FirstBody(j) \/ ReadPullFile(j) \/ ReadTreeFile(j)
          \/ MergePr(j) \/ GetPull(j) \/ ClosePr(j)
    BY <1>2 DEF GhNext
  <2>2. CASE AcceptPack(j) \/ PromotePull(j) \/ RetryPromoted(j) \/ CloseRowPull(j)
    BY <2>2, StartActions
  <2>3. CASE CreateBranch(j) \/ ExistingFileSha(j) \/ PutFile(j) \/ CreatePull(j)
    BY <2>3, CreateBranchInv, ExistingFileShaInv, PutFileInv, CreatePullInv
  <2>4. CASE RequestReviewer(j) \/ FirstBody(j) \/ ReadPullFile(j) \/ ReadTreeFile(j)
    BY <2>4, RequestReviewerInv, FirstBodyInv, ReadPullFileInv, ReadTreeFileInv
  <2>5. CASE MergePr(j) \/ GetPull(j) \/ ClosePr(j)
    BY <2>5, MergePrInv, GetPullInv, ClosePrInv
  <2> QED
    BY <2>1, <2>2, <2>3, <2>4, <2>5
<1> QED
  BY <1>1, <1>2

\* put_file, sync_org_drafts_mirror_from_post_pr, sync_org_drafts_from_posts_branch: with any
\* number of functions of the client running at once, whatever fails in between, a put gives up
\* over the sha only after as many rivals as attempts, and the org mirror holds nothing that
\* never was on the publications branch.
THEOREM FilesSafe == GhSpec => []FilesInv
<1>1. GhInv => FilesInv
  <2> SUFFICES ASSUME GhInv
               PROVE  FilesInv
    OBVIOUS
  <2>1. PutLosesOnlyToRivals
    BY DEF GhInv, JobsFine, JobFine, PutLosesOnlyToRivals
  <2>2. MirrorIsPosted
    BY DEF GhInv, SourcesPosted, WasPosted, MirrorIsPosted
  <2> QED
    BY <2>1, <2>2 DEF FilesInv
<1> QED
  BY <1>1, GhInitInv, GhNextInv, PTL DEF GhSpec

-----------------------------------------------------------------------------
(* The ship of a text.                                                        *)

\* The places of the words an operator wrote in the text of a body.
Said(lines) == Places(SaidWords(lines))

ShipSteps == {"idle", "open", "post", "root", "second", "record", "end"}
Ended == {"record", "end"}
OnPlatform == [surface : {"linkedin", "x"}, text : Prose(Nat) \cup Seq(BodyLine),
               quote : BOOLEAN, parent : BOOLEAN]

ShipRecord == [st : ShipSteps, req : ShipRequest \cup {NoShip}, mode : Good \cup {NoMode},
               text : Thread(Nat), out : {"none", "ok", "err"}]

ShipTypes ==
    /\ ship \in ShipRecord
    /\ shipPublic \in Seq(OnPlatform)

\* A request as it is posted: of LinkedIn the text is stripped, and stripping it again is nothing.
Ready(req) ==
    /\ req \in ShipRequest
    /\ req.surface = "x" => NotesInFooter(req.lines)
    /\ req.surface = "linkedin" => ~req.quote /\ ~req.parent /\ LinkedInTextForApi(req.lines) = req.lines

\* What the texts of a thread are when it is posted: said by the operator, each within the limit.
LaidOut ==
    /\ ship.req.surface = "x" /\ ship.mode = "production"
    /\ ship.text \in Thread(Said(ship.req.lines)) /\ Len(ship.text) >= 1
    /\ \A i \in DOMAIN ship.text : FitsX(ship.text[i])
    /\ ship.req.parent => ~ship.req.quote /\ Len(ship.text) = 1
    /\ ship.st = "second" => Len(ship.text) = 2

\* What stands on the platform at each step.
PostsSoFar ==
    /\ ship.st \in {"idle", "open", "post", "root"} => shipPublic = <<>>
    /\ ship.st = "second" => Len(shipPublic) = 1
    /\ Len(shipPublic) <= 2
    /\ Len(shipPublic) = 2 => ~ship.req.parent

PostsSay ==
    \A i \in DOMAIN shipPublic :
        /\ shipPublic[i].surface = "x" =>
               shipPublic[i].text \in Prose(Said(ship.req.lines)) /\ FitsX(shipPublic[i].text)
        /\ shipPublic[i].parent => ~shipPublic[i].quote /\ ship.req.parent

Shipped ==
    /\ shipPublic # <<>>
    /\ ship.req.surface = "linkedin" => shipPublic[1].text = ship.req.lines
    /\ ship.req.surface = "x" /\ shipEnv.via = "brave" => Len(shipPublic) = Len(ship.text)

\* The audit has the end of the ship and nothing else.
RowsTell ==
    /\ ship.st # "end" => shipAudit = {}
    /\ \A row \in shipAudit :
         /\ row.surface = ship.req.surface /\ row.mode = ship.mode
         /\ row.body = ship.req.lines /\ row.status = ship.out

\* The inductive invariant of a ship.
ShipInv ==
    /\ ShipTypes
    /\ ship.st \in {"open", "post", "root", "second", "record"} => Ready(ship.req)
    /\ ship.st \in {"root", "second"} => LaidOut
    /\ PostsSoFar
    /\ PostsSay
    /\ ship.st \in Ended /\ ship.out = "ok" /\ ship.mode = "production" => Shipped
    /\ RowsTell

-----------------------------------------------------------------------------
(* What is taken off before a text is posted.                                 *)

\* What is kept of a list at a run of places is that run.
LEMMA KeepRun ==
    ASSUME NEW S, NEW list \in Seq(S), NEW a \in 1..(Len(list) + 1), NEW b \in (a - 1)..Len(list),
           NEW places, places \cap DOMAIN list = a..b
    PROVE  Keep(list, places) = SubSeq(list, a, b)
<1>1. PICK kept, m : kept = Keep(list, places) /\ m = Len(kept)
  OBVIOUS
<1>2. kept \in Seq(S) /\ IsKept(kept, list, places) /\ m \in Nat
  BY <1>1, KeepIsKept
<1>3. PICK at \in [1..Len(kept) -> places \cap DOMAIN list] :
          /\ \A k \in 1..Len(kept) : kept[k] = list[at[k]]
          /\ \A j, k \in 1..Len(kept) : j < k => at[j] < at[k]
          /\ \A i \in places \cap DOMAIN list : \E k \in 1..Len(kept) : at[k] = i
  BY <1>2 DEF IsKept
<1>4. /\ at \in [1..m -> a..b] /\ \A k \in 1..m : kept[k] = list[at[k]]
      /\ \A j, k \in 1..m : j < k => at[j] < at[k]
      /\ \A i \in a..b : \E k \in 1..m : at[k] = i
  BY <1>1, <1>3
<1>5. a \in Nat /\ a >= 1 /\ b \in Int /\ b >= a - 1 /\ b <= Len(list) /\ Len(list) \in Nat
  OBVIOUS
<1>6. PICK T : T = {k \in 0..m : k = 0 \/ at[k] = a + k - 1}
  OBVIOUS
<1>7. ASSUME NEW k \in 1..m, k - 1 \in T PROVE k \in T
  <2>1. at[k] \in a..b
    BY <1>4
  <2>2. at[k] >= a + k - 1
    <3>1. CASE k = 1
      BY <1>5, <2>1, <3>1
    <3>2. CASE k # 1
      <4>1. k - 1 \in 1..m /\ at[k - 1] = a + (k - 1) - 1
        BY <1>2, <1>6, <1>7, <3>2
      <4>2. at[k - 1] < at[k] /\ at[k - 1] \in a..b
        BY <1>2, <1>4, <4>1
      <4> QED
        BY <1>5, <2>1, <4>1, <4>2
    <3> QED
      BY <3>1, <3>2
  <2>3. PICK i : i = a + k - 1
    OBVIOUS
  <2>4. i \in a..b
    BY <1>2, <1>5, <2>1, <2>2, <2>3
  <2>5. PICK j \in 1..m : at[j] = i
    BY <1>4, <2>4
  <2>6. ~(j > k)
    <3>1. SUFFICES ASSUME j > k PROVE FALSE
      OBVIOUS
    <3>2. at[k] < at[j]
      BY <1>4, <3>1
    <3> QED
      BY <1>5, <2>1, <2>2, <2>3, <2>5, <3>2
  <2>7. ~(j < k)
    <3>1. SUFFICES ASSUME j < k PROVE FALSE
      OBVIOUS
    <3>2. k - 1 \in 1..m /\ at[k - 1] = a + (k - 1) - 1
      BY <1>2, <1>6, <1>7, <3>1
    <3>3. j = k - 1 \/ j < k - 1
      BY <3>1
    <3>4. at[j] = at[k - 1] \/ at[j] < at[k - 1]
      BY <1>4, <3>2, <3>3
    <3>5. at[k - 1] \in a..b /\ at[j] \in a..b
      BY <1>4, <3>2
    <3> QED
      BY <1>5, <2>3, <2>5, <3>2, <3>4, <3>5
  <2>8. j = k
    BY <2>6, <2>7
  <2> QED
    BY <1>2, <1>6, <2>3, <2>5, <2>8
<1>8. \A k \in 1..m : at[k] = a + k - 1
  <2>1. 0 \in T
    BY <1>2, <1>6
  <2>2. 0..m \subseteq T
    BY <1>2, <1>7, <2>1, Induct
  <2> QED
    BY <1>2, <1>6, <2>2
<1>9. m = b - a + 1
  <2>1. m <= b - a + 1
    <3>1. CASE m = 0
      BY <1>5, <3>1
    <3>2. CASE m # 0
      <4>1. m \in 1..m
        BY <1>2, <3>2
      <4>2. at[m] = a + m - 1 /\ at[m] \in a..b
        BY <1>4, <1>8, <4>1
      <4> QED
        BY <1>2, <1>5, <4>2
    <3> QED
      BY <3>1, <3>2
  <2>2. m >= b - a + 1
    <3>1. CASE b = a - 1
      BY <1>2, <1>5, <3>1
    <3>2. CASE b # a - 1
      <4>1. b \in a..b
        BY <1>5, <3>2
      <4>2. PICK k \in 1..m : at[k] = b
        BY <1>4, <4>1
      <4> QED
        BY <1>2, <1>5, <1>8, <4>2
    <3> QED
      BY <3>1, <3>2
  <2> QED
    BY <1>2, <1>5, <2>1, <2>2
<1>10. PICK run : run = SubSeq(list, a, b)
  OBVIOUS
<1>11. \A i \in a..b : list[i] \in S
  BY <1>5
<1>12. run \in Seq(S) /\ Len(run) = m /\ \A k \in 1..m : run[k] = list[a + k - 1]
  BY <1>5, <1>9, <1>10, <1>11, SubSeqProperties
<1>13. ASSUME NEW k \in 1..m PROVE kept[k] = run[k]
  <2>1. kept[k] = list[at[k]] /\ at[k] = a + k - 1
    BY <1>4, <1>8
  <2> QED
    BY <1>12, <2>1
<1> QED
  BY <1>1, <1>2, <1>10, <1>12, <1>13, SeqEqual

LineOf(S) == [k : XChrome \cup {"text", "note"}, words : S]

LEMMA TextLinesAre ==
    ASSUME NEW S, NEW lines \in Seq(LineOf(S))
    PROVE  TextLines(lines) \in Seq(S) /\ Len(TextLines(lines)) = Len(lines)
<1>1. PICK list : list = TextLines(lines)
  OBVIOUS
<1>2. list = [i \in 1..Len(lines) |-> list[i]] /\ \A i \in 1..Len(lines) : list[i] \in S
  <2>1. DOMAIN lines = 1..Len(lines) /\ \A i \in 1..Len(lines) : lines[i] \in LineOf(S)
    OBVIOUS
  <2>2. \A i \in 1..Len(lines) : lines[i].words \in S
    BY <2>1 DEF LineOf
  <2> QED
    BY <1>1, <2>1, <2>2 DEF TextLines
<1>3. Len(lines) \in Nat
  OBVIOUS
<1>4. list \in Seq(S)
  BY <1>2, <1>3, IsASeq
<1>5. Len(list) = Len(lines)
  BY <1>2, <1>3, <1>4
<1> QED
  BY <1>1, <1>4, <1>5

\* Without the blank lines at both ends; without them there is nothing more to take off.
LEMMA DropBlankIs ==
    ASSUME NEW S, NEW ls \in Seq(S)
    PROVE  DropBlank(ls) \in Seq(S) /\ DropBlank(DropBlank(ls)) = DropBlank(ls)
<1>1. PICK full : full = {i \in DOMAIN ls : ls[i] # <<>>}
  OBVIOUS
<1>2. full \subseteq 1..Len(ls) /\ full \subseteq 0..Len(ls) /\ full \subseteq Nat /\ Len(ls) \in Nat
  BY <1>1
<1>3. CASE full = {}
  <2>1. DropBlank(ls) = <<>>
    BY <1>1, <1>3 DEF DropBlank
  <2>2. DropBlank(<<>>) = <<>>
    BY DEF DropBlank
  <2>3. <<>> \in Seq(S)
    OBVIOUS
  <2> QED
    BY <2>1, <2>2, <2>3
<1>4. CASE full # {}
  <2>1. PICK a, b : a = Min(full) /\ b = Max(full)
    OBVIOUS
  <2>2. a \in full /\ b \in full /\ a <= b
    <3>1. a \in full /\ \A n \in full : a <= n
      BY <1>2, <1>4, <2>1, MinIsIn
    <3>2. b \in full
      BY <1>2, <1>4, <2>1, MaxIsIn
    <3> QED
      BY <3>1, <3>2
  <2>3. PICK cut : cut = SubSeq(ls, a, b)
    OBVIOUS
  <2>4. DropBlank(ls) = cut
    BY <1>1, <1>4, <2>1, <2>3 DEF DropBlank
  <2>5. a \in 1..Len(ls) /\ b \in 1..Len(ls) /\ \A i \in a..b : ls[i] \in S
    BY <1>2, <2>2
  <2>6. /\ cut \in Seq(S) /\ Len(cut) = b - a + 1
        /\ \A i \in 1..(b - a + 1) : cut[i] = ls[a + i - 1]
    BY <2>2, <2>3, <2>5, SubSeqProperties
  <2>7. PICK len, rest : len = Len(cut) /\ rest = {i \in DOMAIN cut : cut[i] # <<>>}
    OBVIOUS
  <2>8. len \in Nat /\ len >= 1 /\ cut[1] = ls[a] /\ cut[len] = ls[b] /\ DOMAIN cut = 1..len
    BY <2>2, <2>5, <2>6, <2>7
  <2>9. 1 \in rest /\ len \in rest /\ rest \subseteq 1..len /\ rest \subseteq 0..len /\ rest \subseteq Nat
    BY <1>1, <2>2, <2>7, <2>8
  <2>10. Min(rest) \in rest /\ Min(rest) <= 1 /\ Max(rest) \in rest /\ len <= Max(rest)
    BY <2>8, <2>9, MinIsIn, MaxIsIn
  <2>11. Min(rest) = 1 /\ Max(rest) = len
    <3>1. Min(rest) \in 1..len /\ Max(rest) \in 1..len
      BY <2>9, <2>10
    <3> QED
      BY <2>8, <2>10, <3>1
  <2>12. DropBlank(cut) = SubSeq(cut, 1, len)
    BY <2>7, <2>9, <2>11 DEF DropBlank
  <2>13. SubSeq(cut, 1, len) = cut
    BY <2>6, <2>7, SubSeqFull
  <2> QED
    BY <2>4, <2>6, <2>12, <2>13
<1> QED
  BY <1>3, <1>4

\* strip_own_x_handle: what is left of the lines is of their words.
LEMMA BareInProse ==
    ASSUME NEW N, NEW lines \in Seq(Prose(N))
    PROVE  StripOwnHandle(lines) \in Seq(Prose(N))
<1> DEFINE Bare(line) == IF line # <<>> /\ line[1].k = "own" THEN Tail(line) ELSE line
<1>1. PICK P, bare : P = Prose(N) /\ bare = [i \in DOMAIN lines |-> Bare(lines[i])]
  OBVIOUS
<1>2. Len(lines) \in Nat /\ DOMAIN lines = 1..Len(lines) /\ \A i \in DOMAIN lines : lines[i] \in P
  BY <1>1
<1>3. ASSUME NEW line \in P PROVE Bare(line) \in P
  <2>1. line \in Seq(Tokens(N))
    BY <1>1, <1>3 DEF Prose
  <2>2. line # <<>> => Tail(line) \in Seq(Tokens(N))
    BY <2>1
  <2> QED
    BY <1>1, <1>3, <2>2 DEF Prose
<1> HIDE DEF Bare
<1>4. bare \in Seq(P)
  <2>1. \A i \in 1..Len(lines) : bare[i] \in P
    BY <1>1, <1>2, <1>3
  <2> QED
    BY <1>1, <1>2, <2>1, IsASeq
<1>5. StripOwnHandle(lines) = Only(bare, LAMBDA line : line # <<>>)
  BY <1>1 DEF StripOwnHandle, Bare
<1>6. PICK full : full = {i \in DOMAIN bare : bare[i] # <<>>}
  OBVIOUS
<1>7. StripOwnHandle(lines) = Keep(bare, full)
  BY <1>5, <1>6 DEF Only
<1> QED
  BY <1>1, <1>4, <1>7, KeepIsKept

\* tweet_text_for_api keeps lines of the text only: a note of the footer stands after the
\* line that ends it.
LEMMA TweetTextIsSaid ==
    ASSUME NEW lines \in Seq(BodyLine), NotesInFooter(lines)
    PROVE  TweetTextForApi(lines) \in Seq(Prose(Said(lines)))
<1>1. PICK breaks, body : /\ breaks = {i \in DOMAIN lines : lines[i].k \in XBreak}
                          /\ body = {i \in DOMAIN lines : lines[i].k \notin XChrome /\ \A j \in breaks : i < j}
  OBVIOUS
<1>2. Len(lines) \in Nat /\ DOMAIN lines = 1..Len(lines)
  OBVIOUS
<1>3. ASSUME NEW i \in body PROVE lines[i].k = "text"
  <2>1. i \in 1..Len(lines) /\ lines[i] \in BodyLine /\ lines[i].k \notin XChrome /\ \A j \in breaks : i < j
    BY <1>1, <1>2
  <2>2. lines[i].k = "text" \/ lines[i].k = "note"
    BY <2>1 DEF BodyLine
  <2>3. CASE lines[i].k = "note"
    <3>1. PICK j \in 1..(i - 1) : lines[j].k \in XBreak
      BY <1>2, <2>1, <2>3 DEF NotesInFooter
    <3>2. j \in breaks
      BY <1>1, <1>2, <2>1, <3>1
    <3> QED
      BY <2>1, <3>1, <3>2
  <2> QED
    BY <2>2, <2>3
<1>4. ASSUME NEW i \in body PROVE lines[i].words \in Prose(Said(lines))
  <2>1. i \in DOMAIN lines /\ lines[i] \in BodyLine /\ lines[i].k = "text"
    BY <1>1, <1>2, <1>3
  <2>2. PICK words : words = lines[i].words
    OBVIOUS
  <2>3. PICK W : W = [k : Written, n : Nat]
    OBVIOUS
  <2>4. words \in Seq(W) /\ Len(words) \in Nat
    <3>1. words \in Seq(W)
      BY <2>1, <2>2, <2>3 DEF BodyLine
    <3> QED
      BY <3>1
  <2>5. ASSUME NEW j \in 1..Len(words) PROVE words[j] \in Tokens(Said(lines))
    <3>1. words[j] \in W /\ j \in DOMAIN words
      BY <2>4
    <3>2. words[j] \in ToSet(words)
      BY <3>1 DEF ToSet
    <3>3. words[j] \in SaidWords(lines)
      BY <2>1, <2>2, <3>2 DEF SaidWords
    <3>4. words[j].n \in Said(lines)
      BY <3>3 DEF Said, Places
    <3>5. words[j] \in [k : TokenKinds, n : Nat]
      BY <2>3, <3>1 DEF TokenKinds
    <3> QED
      BY <3>4, <3>5 DEF Tokens
  <2>6. words = [j \in 1..Len(words) |-> words[j]]
    BY <2>4
  <2>7. words \in Seq(Tokens(Said(lines)))
    BY <2>5, <2>6, <2>4, IsASeq
  <2> QED
    BY <2>2, <2>7 DEF Prose
<1>5. PICK kept, P : kept = Keep(lines, body) /\ P = Prose(Said(lines))
  OBVIOUS
<1>6. kept \in Seq(BodyLine) /\ IsKept(kept, lines, body)
  BY <1>5, KeepIsKept
<1>7. ASSUME NEW j \in 1..Len(kept) PROVE kept[j] \in LineOf(P)
  <2>1. PICK i \in body : kept[j] = lines[i]
    BY <1>6, <1>7 DEF IsKept
  <2>2. lines[i] \in BodyLine
    BY <1>1, <1>2
  <2>3. lines[i].words \in P
    BY <1>4, <1>5
  <2> QED
    BY <2>1, <2>2, <2>3 DEF BodyLine, LineOf
<1>8. kept \in Seq(LineOf(P))
  <2>1. Len(kept) \in Nat /\ kept = [j \in 1..Len(kept) |-> kept[j]]
    BY <1>6
  <2> QED
    BY <1>7, <2>1, IsASeq
<1>9. TextLines(kept) \in Seq(P)
  BY <1>8, TextLinesAre
<1>10. JoinSoftWraps(TextLines(kept)) \in Seq(P)
  BY <1>5, <1>9, SoftWrapsInProse
<1>11. StripOwnHandle(JoinSoftWraps(TextLines(kept))) \in Seq(P)
  BY <1>5, <1>10, BareInProse
<1> QED
  BY <1>1, <1>5, <1>11 DEF TweetTextForApi

\* The words of a text are where the text has them.
LEMMA PublicWordsAre ==
    ASSUME NEW N, NEW p, p.surface = "x", p.text \in Prose(N)
    PROVE  Places(PublicWords(p)) \subseteq N
<1>1. PICK t, kept : t = p.text /\ kept = WordsOf(t)
  OBVIOUS
<1>2. t \in Seq(Tokens(N))
  BY <1>1 DEF Prose
<1>3. kept \in Seq(Tokens(N)) /\ IsKept(kept, t, WordsAt(t))
  BY <1>1, <1>2, KeepIsKept DEF WordsOf
<1>4. ASSUME NEW w \in ToSet(kept) PROVE w.n \in N
  <2>1. PICK j \in 1..Len(kept) : w = kept[j]
    BY <1>3 DEF ToSet
  <2>2. PICK i \in WordsAt(t) : kept[j] = t[i]
    BY <1>3 DEF IsKept
  <2>3. i \in DOMAIN t /\ IsWord(t[i])
    BY <2>2 DEF WordsAt
  <2>4. t[i] \in Tokens(N)
    BY <1>2, <2>3
  <2> QED
    BY <2>1, <2>2, <2>3, <2>4 DEF Tokens
<1>5. PublicWords(p) = ToSet(kept)
  BY <1>1 DEF PublicWords
<1> QED
  BY <1>4, <1>5 DEF Places

\* linkedin_text_for_api gives lines of text, none blank at either end, and the disclosure.
Lines == Seq([k : Written, n : Nat])
AsText(prose) == [i \in DOMAIN prose |-> Line("text", prose[i])]
Stripped(lines, prose, ai) ==
    /\ prose \in Seq(Lines) /\ DropBlank(prose) = prose
    /\ ai \in Seq(BodyLine) /\ \A i \in DOMAIN ai : ai[i].k = "ai"
    /\ lines = AsText(prose) \o ai

LEMMA AsTextIs ==
    ASSUME NEW prose \in Seq(Lines)
    PROVE  /\ AsText(prose) \in Seq(BodyLine) /\ Len(AsText(prose)) = Len(prose)
           /\ \A i \in 1..Len(prose) : AsText(prose)[i].k = "text" /\ AsText(prose)[i].words = prose[i]
<1>1. PICK text : text = AsText(prose)
  OBVIOUS
<1>2. Len(prose) \in Nat /\ DOMAIN prose = 1..Len(prose) /\ \A i \in 1..Len(prose) : prose[i] \in Lines
  OBVIOUS
<1>3. text = [i \in 1..Len(prose) |-> text[i]] /\ \A i \in 1..Len(prose) : text[i] = Line("text", prose[i])
  BY <1>1, <1>2 DEF AsText
<1>4. ASSUME NEW words \in Lines
      PROVE  /\ Line("text", words) \in BodyLine /\ Line("text", words).k = "text"
             /\ Line("text", words).words = words
  BY DEF Line, BodyLine, Lines
<1>5. \A i \in 1..Len(prose) : text[i] \in BodyLine /\ text[i].k = "text" /\ text[i].words = prose[i]
  BY <1>2, <1>3, <1>4
<1>6. text \in Seq(BodyLine)
  BY <1>2, <1>3, <1>5, IsASeq
<1>7. Len(text) = Len(prose)
  BY <1>2, <1>3, <1>6
<1> QED
  BY <1>1, <1>5, <1>6, <1>7

LEMMA BodyLines ==
    BodyLine = LineOf(Lines)
  BY DEF BodyLine, LineOf, Lines

LEMMA LinkedInIsStripped ==
    ASSUME NEW lines \in Seq(BodyLine)
    PROVE  \E prose, ai : Stripped(LinkedInTextForApi(lines), prose, ai)
<1> DEFINE InFooter(i) == \E j \in 1..i : lines[j].k = "link" /\ \A h \in j..i : lines[h].k # "ai"
<1>1. PICK keep : keep = {i \in DOMAIN lines : lines[i].k \notin LinkedInChrome \cup {"ai"} /\ ~InFooter(i)}
  OBVIOUS
<1>2. PICK prose, ai : /\ prose = DropBlank(TextLines(Keep(lines, keep)))
                       /\ ai = Keep(lines, {i \in DOMAIN lines : lines[i].k = "ai"})
  OBVIOUS
<1>3. LinkedInTextForApi(lines) = AsText(prose) \o ai
  BY <1>1, <1>2 DEF LinkedInTextForApi, Only, AsText
<1>4. Keep(lines, keep) \in Seq(LineOf(Lines))
  BY KeepIsKept, BodyLines
<1>5. TextLines(Keep(lines, keep)) \in Seq(Lines)
  BY <1>4, TextLinesAre
<1>6. prose \in Seq(Lines) /\ DropBlank(prose) = prose
  BY <1>2, <1>5, DropBlankIs
<1>7. PICK at : at = {i \in DOMAIN lines : lines[i].k = "ai"}
  OBVIOUS
<1>8. ai \in Seq(BodyLine) /\ IsKept(ai, lines, at)
  BY <1>2, <1>7, KeepIsKept
<1>9. ASSUME NEW j \in DOMAIN ai PROVE ai[j].k = "ai"
  <2>1. j \in 1..Len(ai)
    BY <1>8
  <2>2. PICK i \in at : ai[j] = lines[i]
    BY <1>8, <2>1 DEF IsKept
  <2> QED
    BY <1>7, <2>2
<1> QED
  BY <1>3, <1>6, <1>8, <1>9 DEF Stripped

LEMMA StrippedStays ==
    ASSUME NEW lines, NEW prose, NEW ai, Stripped(lines, prose, ai)
    PROVE  lines \in Seq(BodyLine) /\ LinkedInTextForApi(lines) = lines
<1>1. PICK text, n, m : text = AsText(prose) /\ n = Len(prose) /\ m = Len(ai)
  OBVIOUS
<1>2. /\ prose \in Seq(Lines) /\ DropBlank(prose) = prose
      /\ ai \in Seq(BodyLine) /\ \A i \in DOMAIN ai : ai[i].k = "ai"
      /\ lines = text \o ai
  BY <1>1 DEF Stripped
<1>3. n \in Nat /\ m \in Nat /\ DOMAIN ai = 1..m /\ DOMAIN prose = 1..n
  BY <1>1, <1>2
<1>4. /\ text \in Seq(BodyLine) /\ Len(text) = n
      /\ \A i \in 1..n : text[i].k = "text" /\ text[i].words = prose[i]
  BY <1>1, <1>2, AsTextIs
<1>5. /\ lines \in Seq(BodyLine) /\ Len(lines) = n + m
      /\ \A i \in 1..(n + m) : lines[i] = IF i <= n THEN text[i] ELSE ai[i - n]
  <2>1. text \in Seq(BodyLine) /\ ai \in Seq(BodyLine) /\ Len(text) = n /\ Len(ai) = m
    BY <1>1, <1>2, <1>4
  <2>2. PICK both : both = text \o ai
    OBVIOUS
  <2>3. /\ both \in Seq(BodyLine) /\ Len(both) = Len(text) + Len(ai)
        /\ \A i \in 1..(Len(text) + Len(ai)) : both[i] = IF i <= Len(text) THEN text[i] ELSE ai[i - Len(text)]
    BY <2>1, <2>2, ConcatProperties
  <2>4. lines = both
    BY <1>2, <2>2
  <2> QED
    BY <2>1, <2>3, <2>4
<1>6. DOMAIN lines = 1..(n + m)
  BY <1>3, <1>5
<1>7. \A i \in 1..n : i \in 1..(n + m) /\ lines[i] = text[i] /\ lines[i].k = "text" /\ lines[i].words = prose[i]
  BY <1>3, <1>4, <1>5
<1>8. ASSUME NEW i \in (n + 1)..(n + m) PROVE i \in 1..(n + m) /\ lines[i] = ai[i - n] /\ lines[i].k = "ai"
  <2>1. i - n \in 1..m /\ i \in 1..(n + m) /\ ~(i <= n)
    BY <1>3
  <2> QED
    BY <1>2, <1>3, <1>5, <2>1
<1> DEFINE InFooter(i) == \E j \in 1..i : lines[j].k = "link" /\ \A h \in j..i : lines[h].k # "ai"
<1>9. PICK keep, at : /\ keep = {i \in DOMAIN lines : lines[i].k \notin LinkedInChrome \cup {"ai"} /\ ~InFooter(i)}
                      /\ at = {i \in DOMAIN lines : lines[i].k = "ai"}
  OBVIOUS
<1>10. \A i \in 1..(n + m) : i \in 1..n \/ i \in (n + 1)..(n + m)
  BY <1>3
<1>11. keep \cap DOMAIN lines = 1..n
  <2>1. ASSUME NEW i \in 1..n PROVE i \in keep
    <3>1. ~InFooter(i)
      <4>1. \A j \in 1..i : j \in 1..n
        BY <1>3
      <4> QED
        BY <1>7, <4>1
    <3>2. lines[i].k \notin LinkedInChrome \cup {"ai"}
      BY <1>7 DEF LinkedInChrome
    <3> QED
      BY <1>6, <1>7, <1>9, <3>1, <3>2
  <2>2. ASSUME NEW i \in keep PROVE i \in 1..n
    <3>1. i \in 1..(n + m) /\ lines[i].k # "ai"
      BY <1>6, <1>9
    <3> QED
      BY <1>8, <1>10, <3>1
  <2>3. keep \subseteq DOMAIN lines
    BY <1>9
  <2> QED
    BY <2>1, <2>2, <2>3
<1>12. at \cap DOMAIN lines = (n + 1)..(n + m)
  <2>1. ASSUME NEW i \in at PROVE i \in (n + 1)..(n + m)
    <3>1. i \in 1..(n + m) /\ lines[i].k = "ai"
      BY <1>6, <1>9
    <3> QED
      BY <1>7, <1>10, <3>1
  <2>2. ASSUME NEW i \in (n + 1)..(n + m) PROVE i \in at
    BY <1>6, <1>8, <1>9
  <2>3. at \subseteq DOMAIN lines
    BY <1>9
  <2> QED
    BY <2>1, <2>2, <2>3
<1>13. Keep(lines, keep) = SubSeq(lines, 1, n)
  <2>1. 1 \in 1..(Len(lines) + 1) /\ n \in (1 - 1)..Len(lines)
    BY <1>3, <1>5
  <2> QED
    BY <1>5, <1>11, <2>1, KeepRun
<1>14. Keep(lines, at) = SubSeq(lines, n + 1, n + m)
  <2>1. n + 1 \in 1..(Len(lines) + 1) /\ n + m \in ((n + 1) - 1)..Len(lines)
    BY <1>3, <1>5
  <2> QED
    BY <1>5, <1>12, <2>1, KeepRun
<1>15. SubSeq(lines, 1, n) = text
  <2>1. PICK s : s = SubSeq(lines, 1, n)
    OBVIOUS
  <2>2. \A i \in 1..n : lines[i] \in BodyLine
    BY <1>5, <1>7
  <2>3. s \in Seq(BodyLine) /\ Len(s) = n /\ \A i \in 1..n : s[i] = lines[i]
    BY <1>3, <2>1, <2>2, SubSeqProperties
  <2> QED
    BY <1>4, <1>7, <2>1, <2>3, SeqEqual
<1>16. SubSeq(lines, n + 1, n + m) = ai
  <2>1. PICK s : s = SubSeq(lines, n + 1, n + m)
    OBVIOUS
  <2>2. \A i \in (n + 1)..(n + m) : lines[i] \in BodyLine
    BY <1>5, <1>8
  <2>3. s \in Seq(BodyLine) /\ Len(s) = m /\ \A i \in 1..m : s[i] = lines[(n + 1) + i - 1]
    <3>1. n + 1 \in Int /\ n + m \in Int /\ (n + m) - (n + 1) + 1 = m
      BY <1>3
    <3> QED
      BY <1>3, <2>1, <2>2, <3>1, SubSeqProperties
  <2>4. \A i \in 1..m : s[i] = ai[i]
    <3> TAKE i \in 1..m
    <3>1. (n + 1) + i - 1 = n + i /\ n + i \in (n + 1)..(n + m) /\ (n + i) - n = i
      BY <1>3
    <3> QED
      BY <1>8, <2>3, <3>1
  <2> QED
    BY <1>1, <1>2, <2>1, <2>3, <2>4, SeqEqual
<1>17. TextLines(text) = prose
  <2>1. text \in Seq(LineOf(Lines))
    BY <1>4, BodyLines
  <2>2. TextLines(text) \in Seq(Lines) /\ Len(TextLines(text)) = n
    BY <1>4, <2>1, TextLinesAre
  <2>3. \A i \in 1..n : TextLines(text)[i] = prose[i]
    BY <1>3, <1>4 DEF TextLines
  <2> QED
    BY <1>1, <1>2, <2>2, <2>3, SeqEqual
<1>18. LinkedInTextForApi(lines) = AsText(prose) \o ai
  <2>1. DropBlank(TextLines(Keep(lines, keep))) = prose /\ Keep(lines, at) = ai
    BY <1>2, <1>13, <1>14, <1>15, <1>16, <1>17
  <2> QED
    BY <1>9, <2>1 DEF LinkedInTextForApi, Only, AsText
<1> QED
  BY <1>1, <1>2, <1>5, <1>18

\* Stripping a text of LinkedIn twice is stripping it once.
LEMMA LinkedInTwice ==
    ASSUME NEW lines \in Seq(BodyLine)
    PROVE  /\ LinkedInTextForApi(lines) \in Seq(BodyLine)
           /\ LinkedInTextForApi(LinkedInTextForApi(lines)) = LinkedInTextForApi(lines)
<1>1. PICK prose, ai : Stripped(LinkedInTextForApi(lines), prose, ai)
  BY LinkedInIsStripped
<1> QED
  BY <1>1, StrippedStays


-----------------------------------------------------------------------------
(* The steps of a ship keep its invariant.                                    *)

\* A text of fewer places is a text of more.
LEMMA ThreadGrows ==
    ASSUME NEW N, NEW M, N \subseteq M
    PROVE  Prose(N) \subseteq Prose(M) /\ Thread(N) \subseteq Thread(M)
<1>1. ASSUME NEW t \in Prose(N) PROVE t \in Prose(M)
  <2>1. t \in Seq(Tokens(N))
    BY DEF Prose
  <2>2. Tokens(N) \subseteq Tokens(M)
    BY DEF Tokens
  <2>3. Len(t) \in Nat /\ t = [i \in 1..Len(t) |-> t[i]] /\ \A i \in 1..Len(t) : t[i] \in Tokens(M)
    BY <2>1, <2>2
  <2>4. t \in Seq(Tokens(M))
    BY <2>3, IsASeq
  <2> QED
    BY <2>4 DEF Prose
<1>2. ASSUME NEW ts \in Thread(N) PROVE ts \in Thread(M)
  <2>1. ts \in Seq(Prose(N)) /\ Len(ts) <= 2
    BY DEF Thread
  <2>2. Len(ts) \in Nat /\ ts = [i \in 1..Len(ts) |-> ts[i]] /\ \A i \in 1..Len(ts) : ts[i] \in Prose(M)
    BY <1>1, <2>1
  <2>3. ts \in Seq(Prose(M))
    BY <2>2, IsASeq
  <2> QED
    BY <2>1, <2>3 DEF Thread
<1> QED
  BY <1>1, <1>2

LEMMA SaidIsNat ==
    ASSUME NEW lines \in Seq(BodyLine)
    PROVE  Said(lines) \subseteq Nat
<1>1. PICK W : W = [k : Written, n : Nat]
  OBVIOUS
<1>2. ASSUME NEW i \in DOMAIN lines, NEW w \in ToSet(lines[i].words) PROVE w.n \in Nat
  <2>1. lines[i] \in BodyLine
    OBVIOUS
  <2>2. lines[i].words \in Seq(W)
    BY <1>1, <2>1 DEF BodyLine
  <2>3. w \in W
    BY <2>2 DEF ToSet
  <2> QED
    BY <1>1, <2>3
<1> QED
  BY <1>2 DEF Said, Places, SaidWords

\* What the steps do to the record of a ship.
LEMMA Going ==
    ASSUME ShipTypes, NEW st \in ShipSteps, NEW text \in Thread(Nat), NEW out \in {"none", "ok", "err"},
           ship' = [ship EXCEPT !.st = st, !.text = text, !.out = out]
    PROVE  /\ ship'.st = st /\ ship'.text = text /\ ship'.out = out
           /\ ship'.req = ship.req /\ ship'.mode = ship.mode
           /\ ship' \in ShipRecord
  BY DEF ShipTypes, ShipRecord

LEMMA GoesOn ==
    ASSUME ShipTypes, NEW st \in ShipSteps, Go(st)
    PROVE  /\ ship'.st = st /\ ship'.text = ship.text /\ ship'.out = ship.out
           /\ ship'.req = ship.req /\ ship'.mode = ship.mode
           /\ ship' \in ShipRecord
  BY DEF ShipTypes, ShipRecord, Go

LEMMA ComesToAnEnd ==
    ASSUME ShipTypes, NEW out \in {"ok", "err"}, Ends(out)
    PROVE  /\ ship'.st = "record" /\ ship'.text = ship.text /\ ship'.out = out
           /\ ship'.req = ship.req /\ ship'.mode = ship.mode
           /\ ship' \in ShipRecord
  BY DEF ShipTypes, ShipRecord, Ends, ShipSteps


LEMMA ShipStarts ==
    ShipInit => ShipInv
<1> SUFFICES ASSUME ShipInit PROVE ShipInv
  OBVIOUS
<1>1. /\ ship.st = "idle" /\ ship.req = NoShip /\ ship.mode = NoMode /\ ship.text = <<>> /\ ship.out = "none"
      /\ shipPublic = <<>> /\ shipAudit = {}
  BY DEF ShipInit, Idle
<1>2. <<>> \in Thread(Nat)
  <2>1. <<>> \in Seq(Prose(Nat)) /\ Len(<<>>) = 0
    OBVIOUS
  <2> QED
    BY <2>1 DEF Thread
<1>3. ShipTypes
  BY <1>2 DEF ShipTypes, ShipRecord, ShipInit, Idle, ShipSteps
<1>4. PostsSoFar /\ PostsSay /\ RowsTell
  BY <1>1 DEF PostsSoFar, PostsSay, RowsTell
<1> QED
  BY <1>1, <1>3, <1>4 DEF ShipInv, Ended

LEMMA EditModeKeeps ==
    ASSUME ShipInv, UNCHANGED <<ship, shipPublic, shipAudit, shipEnv>>
    PROVE  ShipInv'
<1>1. ShipTypes' /\ PostsSoFar' /\ PostsSay' /\ RowsTell'
  BY DEF ShipInv, ShipTypes, PostsSoFar, PostsSay, RowsTell
<1>2. (ship.st \in {"root", "second"} => LaidOut)'
  BY DEF ShipInv, LaidOut
<1>3. (ship.st \in Ended /\ ship.out = "ok" /\ ship.mode = "production" => Shipped)'
  BY DEF ShipInv, Shipped
<1>4. (ship.st \in {"open", "post", "root", "second", "record"} => Ready(ship.req))'
  BY DEF ShipInv, Ready
<1> QED
  BY <1>1, <1>2, <1>3, <1>4 DEF ShipInv

LEMMA PrepareXIs ==
    ASSUME NEW req \in ShipRequest
    PROVE  /\ PrepareX(req) \in ShipRequest /\ PrepareX(req).lines = req.lines
           /\ PrepareX(req).surface = req.surface
<1>1. PICK q \in BOOLEAN : PrepareX(req) = [req EXCEPT !.quote = q]
  BY DEF PrepareX, ShipRequest
<1> QED
  BY <1>1 DEF ShipRequest

\* A request that starts is ready to be posted.
LEMMA StartKeeps ==
    ASSUME ShipInv, NEW req \in ShipRequests, StartShip(req)
    PROVE  ShipInv'
<1>1. /\ req \in ShipRequest /\ NotesInFooter(req.lines)
      /\ req.surface = "linkedin" => ~req.quote /\ ~req.parent
  BY ShipRequestsAssumption
<1>2. ship.st = "idle" /\ shipPublic = <<>> /\ shipAudit = {} /\ shipPublic' = <<>> /\ shipAudit' = {}
  BY DEF StartShip, ShipInv, PostsSoFar, RowsTell
<1>3. <<>> \in Thread(Nat)
  <2>1. <<>> \in Seq(Prose(Nat)) /\ Len(<<>>) = 0
    OBVIOUS
  <2> QED
    BY <2>1 DEF Thread
<1>4. PICK mode, ready : /\ mode = ResolveMode(req.surface)
                         /\ ready = IF req.surface = "x" THEN PrepareX(req)
                                    ELSE [req EXCEPT !.lines = LinkedInTextForApi(req.lines)]
  OBVIOUS
<1>5. ready \in ShipRequest /\ Ready(ready)
  <2>1. CASE req.surface = "x"
    <3>1. ready \in ShipRequest /\ ready.lines = req.lines /\ ready.surface = "x"
      BY <1>1, <1>4, <2>1, PrepareXIs
    <3> QED
      BY <1>1, <3>1 DEF Ready
  <2>2. CASE req.surface # "x"
    <3>1. PICK lines : lines = LinkedInTextForApi(req.lines)
      OBVIOUS
    <3>2. req.lines \in Seq(BodyLine) /\ req.surface = "linkedin"
      BY <1>1, <2>2 DEF ShipRequest
    <3>3. lines \in Seq(BodyLine) /\ LinkedInTextForApi(lines) = lines
      BY <3>1, <3>2, LinkedInTwice
    <3>4. ready = [req EXCEPT !.lines = lines]
      BY <1>4, <2>2, <3>1
    <3>5. /\ ready \in ShipRequest /\ ready.lines = lines /\ ready.surface = "linkedin"
          /\ ready.quote = req.quote /\ ready.parent = req.parent
      BY <1>1, <3>2, <3>3, <3>4 DEF ShipRequest
    <3> QED
      BY <1>1, <3>2, <3>3, <3>5 DEF Ready
  <2> QED
    BY <2>1, <2>2
<1>6. CASE mode \in Good
  <2>1. ship' = [Idle EXCEPT !.st = "open", !.req = ready, !.mode = mode]
    BY <1>4, <1>6 DEF StartShip
  <2>2. /\ ship'.st = "open" /\ ship'.req = ready /\ ship'.mode = mode /\ ship'.out = "none"
        /\ ship' \in ShipRecord
    BY <1>3, <1>5, <1>6, <2>1 DEF Idle, ShipRecord, ShipSteps
  <2>3. ShipTypes' /\ PostsSoFar' /\ PostsSay' /\ RowsTell'
    BY <1>2, <2>2 DEF ShipTypes, PostsSoFar, PostsSay, RowsTell
  <2> QED
    BY <1>5, <2>2, <2>3 DEF ShipInv, Ended
<1>7. CASE mode \notin Good
  <2>1. ship' = [Idle EXCEPT !.st = "end", !.req = req, !.out = "err"]
    BY <1>4, <1>7 DEF StartShip
  <2>2. /\ ship'.st = "end" /\ ship'.req = req /\ ship'.out = "err"
        /\ ship' \in ShipRecord
    BY <1>1, <1>3, <2>1 DEF Idle, ShipRecord, ShipSteps
  <2>3. ShipTypes' /\ PostsSoFar' /\ PostsSay' /\ RowsTell'
    BY <1>2, <2>2 DEF ShipTypes, PostsSoFar, PostsSay, RowsTell
  <2> QED
    BY <2>2, <2>3 DEF ShipInv, Ended
<1> QED
  BY <1>6, <1>7

LEMMA OpenKeeps ==
    ASSUME ShipInv, OpenAudit
    PROVE  ShipInv'
<1>1. ShipTypes /\ ship.st = "open" /\ Ready(ship.req) /\ shipPublic = <<>> /\ shipAudit = {}
  BY DEF ShipInv, OpenAudit, PostsSoFar, RowsTell
<1>2. shipPublic' = <<>> /\ shipAudit' = {}
  BY <1>1 DEF OpenAudit
<1>3. CASE Go("post")
  <2>1. /\ ship'.st = "post" /\ ship'.req = ship.req /\ ship'.mode = ship.mode /\ ship'.out = ship.out
        /\ ship' \in ShipRecord
    BY <1>1, <1>3, GoesOn DEF ShipSteps
  <2>2. ShipTypes' /\ PostsSoFar' /\ PostsSay' /\ RowsTell'
    BY <1>2, <2>1 DEF ShipTypes, PostsSoFar, PostsSay, RowsTell
  <2> QED
    BY <1>1, <2>1, <2>2 DEF ShipInv, Ended
<1>4. CASE ship' = [ship EXCEPT !.st = "end", !.out = "err"]
  <2>1. ship'.st = "end" /\ ship'.out = "err" /\ ship' \in ShipRecord
    BY <1>1, <1>4 DEF ShipTypes, ShipRecord, ShipSteps
  <2>2. ShipTypes' /\ PostsSoFar' /\ PostsSay' /\ RowsTell'
    BY <1>2, <2>1 DEF ShipTypes, PostsSoFar, PostsSay, RowsTell
  <2> QED
    BY <2>1, <2>2 DEF ShipInv, Ended
<1> QED
  BY <1>3, <1>4 DEF OpenAudit


\* A ship that fails, or that posts nothing to the public, has said nothing false.
LEMMA EndKeeps ==
    ASSUME ShipInv, NEW out \in {"ok", "err"}, Ends(out), ship.st \in {"post", "root", "second"},
           UNCHANGED <<shipEnv, shipPublic, shipAudit>>, out = "err" \/ ship.mode = "playground"
    PROVE  ShipInv'
<1>1. ShipTypes /\ Ready(ship.req) /\ PostsSoFar /\ PostsSay /\ shipAudit = {}
  BY DEF ShipInv, RowsTell
<1>2. /\ ship'.st = "record" /\ ship'.req = ship.req /\ ship'.mode = ship.mode /\ ship'.out = out
      /\ ship' \in ShipRecord
  BY <1>1, ComesToAnEnd
<1>3. ShipTypes'
  BY <1>1, <1>2 DEF ShipTypes
<1>4. PostsSoFar'
  BY <1>1, <1>2 DEF PostsSoFar
<1>5. PostsSay'
  BY <1>1, <1>2 DEF PostsSay
<1>6. RowsTell'
  BY <1>1, <1>2 DEF RowsTell
<1>7. (ship.st \in Ended /\ ship.out = "ok" /\ ship.mode = "production" => Shipped)'
  BY <1>2
<1> QED
  BY <1>1, <1>2, <1>3, <1>4, <1>5, <1>6, <1>7 DEF ShipInv

\* What is laid out is what the operator said, in at most two texts.
LEMMA LayOutKeeps ==
    ASSUME ShipInv, LayOut
    PROVE  ShipInv'
<1>1. /\ ship.st = "post" /\ ship.mode = "production" /\ ship.req.surface = "x"
      /\ UNCHANGED <<shipEnv, shipPublic, shipAudit>>
  BY DEF LayOut
<1>2. ShipTypes /\ Ready(ship.req) /\ shipPublic = <<>> /\ shipAudit = {}
  BY <1>1 DEF ShipInv, PostsSoFar, RowsTell
<1>3. PICK lines, texts : lines = ship.req.lines /\ texts = ShipTexts(lines)
  OBVIOUS
<1>4. lines \in Seq(BodyLine) /\ NotesInFooter(lines)
  BY <1>1, <1>2, <1>3 DEF Ready, ShipRequest
<1>5. texts \in Thread(Said(lines)) /\ texts \in Thread(Nat)
  <2>1. TweetTextForApi(lines) \in Seq(Prose(Said(lines)))
    BY <1>4, TweetTextIsSaid
  <2>2. texts \in Thread(Said(lines))
    BY <1>3, <2>1, LayoutInProse DEF ShipTexts
  <2>3. Said(lines) \subseteq Nat
    BY <1>4, SaidIsNat
  <2> QED
    BY <2>2, <2>3, ThreadGrows
<1>6. CASE ~XRefused(ship.req, texts) /\ ship' = [ship EXCEPT !.st = "root", !.text = texts]
  <2>1. /\ ship'.st = "root" /\ ship'.req = ship.req /\ ship'.mode = ship.mode /\ ship'.text = texts
        /\ ship' \in ShipRecord
    BY <1>2, <1>5, <1>6 DEF ShipTypes, ShipRecord, ShipSteps
  <2>2. /\ texts # <<>> /\ \A i \in DOMAIN texts : FitsX(texts[i])
        /\ ship.req.parent => ~ship.req.quote /\ Len(texts) # 2
    BY <1>6 DEF XRefused, TextsRefused, TooLong
  <2>3. Len(texts) \in {1, 2}
    <3>1. texts \in Seq(Prose(Nat)) /\ Len(texts) <= 2
      BY <1>5 DEF Thread
    <3>2. PICK S : S = Prose(Nat)
      OBVIOUS
    <3>3. texts \in Seq(S) /\ texts # <<>>
      BY <2>2, <3>1, <3>2
    <3>4. PICK len : len = Len(texts)
      OBVIOUS
    <3>5. len \in Nat \ {0}
      BY <3>3, <3>4, EmptySeq
    <3>6. len <= 2
      BY <3>1, <3>4
    <3>7. len \in {1, 2}
      BY <3>5, <3>6
    <3> QED
      BY <3>4, <3>7
  <2>4. LaidOut'
    BY <1>1, <1>3, <1>5, <2>1, <2>2, <2>3 DEF LaidOut
  <2>5. ShipTypes' /\ PostsSoFar' /\ PostsSay' /\ RowsTell'
    BY <1>1, <1>2, <2>1 DEF ShipTypes, PostsSoFar, PostsSay, RowsTell
  <2> QED
    BY <1>2, <2>1, <2>4, <2>5 DEF ShipInv, Ended
<1>7. CASE Ends("err")
  BY <1>1, <1>7, EndKeeps
<1> QED
  BY <1>3, <1>6, <1>7 DEF LayOut

\* What posting adds to the platform.
LEMMA PostsAdd ==
    ASSUME ShipTypes, NEW text \in Prose(Nat) \cup Seq(BodyLine), Posts(text), Ready(ship.req)
    PROVE  /\ shipPublic' \in Seq(OnPlatform) /\ Len(shipPublic') = Len(shipPublic) + 1
           /\ \A i \in 1..Len(shipPublic) : shipPublic'[i] = shipPublic[i]
           /\ shipPublic'[Len(shipPublic) + 1].surface = ship.req.surface
           /\ shipPublic'[Len(shipPublic) + 1].text = text
           /\ shipPublic'[Len(shipPublic) + 1].parent = ship.req.parent
           /\ shipPublic'[Len(shipPublic) + 1].quote => ship.req.quote
<1>1. PICK q \in BOOLEAN : (q => ship.req.quote) /\ shipPublic' =
        Append(shipPublic, [surface |-> ship.req.surface, text |-> text, quote |-> q, parent |-> ship.req.parent])
  BY DEF Posts
<1>2. PICK post : post = [surface |-> ship.req.surface, text |-> text, quote |-> q, parent |-> ship.req.parent]
  OBVIOUS
<1>3. /\ post \in OnPlatform /\ post.surface = ship.req.surface /\ post.text = text
      /\ post.parent = ship.req.parent /\ (post.quote => ship.req.quote)
  BY <1>1, <1>2 DEF OnPlatform, Ready, ShipRequest
<1>4. shipPublic \in Seq(OnPlatform) /\ shipPublic' = Append(shipPublic, post)
  BY <1>1, <1>2 DEF ShipTypes
<1> QED
  BY <1>3, <1>4

\* A post of what was said leaves what the platform says true.
LEMMA PostsSayMore ==
    ASSUME ShipInv, NEW text \in Prose(Nat) \cup Seq(BodyLine), Posts(text), Ready(ship.req),
           ship.req.surface = "x" => text \in Prose(Said(ship.req.lines)) /\ FitsX(text),
           ship.req.parent => ~ship.req.quote, ship'.req = ship.req
    PROVE  PostsSay'
<1>1. ShipTypes /\ PostsSay
  BY DEF ShipInv
<1>2. PICK n : n = Len(shipPublic)
  OBVIOUS
<1>3. n \in Nat /\ DOMAIN shipPublic = 1..n /\ DOMAIN shipPublic' = 1..(n + 1)
  BY <1>1, <1>2, PostsAdd DEF ShipTypes
<1>4. /\ \A i \in 1..n : shipPublic'[i] = shipPublic[i]
      /\ shipPublic'[n + 1].surface = ship.req.surface /\ shipPublic'[n + 1].text = text
      /\ shipPublic'[n + 1].parent = ship.req.parent /\ (shipPublic'[n + 1].quote => ship.req.quote)
  BY <1>1, <1>2, PostsAdd
<1>5. ASSUME NEW i \in 1..(n + 1)
      PROVE  /\ shipPublic'[i].surface = "x" =>
                    shipPublic'[i].text \in Prose(Said(ship.req.lines)) /\ FitsX(shipPublic'[i].text)
             /\ shipPublic'[i].parent => ~shipPublic'[i].quote /\ ship.req.parent
  <2>1. CASE i \in 1..n
    BY <1>1, <1>3, <1>4, <2>1 DEF PostsSay
  <2>2. CASE i = n + 1
    BY <1>4, <2>2
  <2> QED
    BY <1>3, <2>1, <2>2
<1> QED
  BY <1>3, <1>5 DEF PostsSay


LEMMA RootKeeps ==
    ASSUME ShipInv, PostRoot
    PROVE  ShipInv'
<1>1. ship.st = "root" /\ UNCHANGED <<shipEnv, shipAudit>>
  BY DEF PostRoot
<1>2. ShipTypes /\ Ready(ship.req) /\ LaidOut /\ shipPublic = <<>> /\ shipAudit = {}
  BY <1>1 DEF ShipInv, PostsSoFar, RowsTell
<1>3. PICK first : first = ship.text[1]
  OBVIOUS
<1>4. /\ Len(ship.text) = 1 \/ Len(ship.text) = 2
      /\ first \in Prose(Said(ship.req.lines)) /\ first \in Prose(Nat) /\ FitsX(first)
      /\ ship.req.parent => ~ship.req.quote
  <2>1. /\ ship.text \in Seq(Prose(Said(ship.req.lines))) /\ ship.text \in Seq(Prose(Nat))
        /\ Len(ship.text) <= 2 /\ Len(ship.text) >= 1
    BY <1>2 DEF LaidOut, Thread, ShipTypes, ShipRecord
  <2>2. Len(ship.text) \in Nat /\ 1 \in DOMAIN ship.text
    BY <2>1
  <2>3. FitsX(first) /\ (ship.req.parent => ~ship.req.quote)
    BY <1>2, <1>3, <2>2 DEF LaidOut
  <2>4. first \in Prose(Said(ship.req.lines)) /\ first \in Prose(Nat)
    BY <1>3, <2>1, <2>2
  <2>5. Len(ship.text) = 1 \/ Len(ship.text) = 2
    <3>1. PICK len : len = Len(ship.text)
      OBVIOUS
    <3>2. len \in Nat /\ len <= 2 /\ len >= 1
      BY <2>1, <2>2, <3>1
    <3>3. len = 1 \/ len = 2
      BY <3>2
    <3> QED
      BY <3>1, <3>3
  <2> QED
    BY <2>3, <2>4, <2>5
<1>5. CASE Posts(first)
  <2>1. /\ shipPublic' \in Seq(OnPlatform) /\ Len(shipPublic') = 1
    <3>1. Len(shipPublic) = 0
      BY <1>2
    <3> QED
      BY <1>2, <1>4, <1>5, <3>1, PostsAdd
  <2>2. ASSUME ship'.req = ship.req PROVE PostsSay'
    BY <1>2, <1>4, <1>5, <2>2, PostsSayMore
  <2>3. CASE Len(ship.text) = 2 /\ Go("second")
    <3>1. /\ ship'.st = "second" /\ ship'.req = ship.req /\ ship'.mode = ship.mode /\ ship'.text = ship.text
          /\ ship' \in ShipRecord
      BY <1>2, <2>3, GoesOn DEF ShipSteps
    <3>2. ShipTypes'
      BY <2>1, <3>1 DEF ShipTypes
    <3>3. PostsSoFar' /\ RowsTell'
      BY <1>1, <1>2, <2>1, <3>1 DEF PostsSoFar, RowsTell
    <3>4. LaidOut'
      BY <1>2, <2>3, <3>1 DEF LaidOut
    <3> QED
      BY <1>2, <2>2, <3>1, <3>2, <3>3, <3>4 DEF ShipInv, Ended
  <2>4. ASSUME NEW out \in {"ok", "err"}, Ends(out), out = "ok" => Len(ship.text) = 1
        PROVE  ShipInv'
    <3>1. /\ ship'.st = "record" /\ ship'.req = ship.req /\ ship'.mode = ship.mode /\ ship'.text = ship.text
          /\ ship'.out = out /\ ship' \in ShipRecord
      BY <1>2, <2>4, ComesToAnEnd
    <3>2. ShipTypes'
      BY <2>1, <3>1 DEF ShipTypes
    <3>3. PostsSoFar' /\ RowsTell'
      BY <1>1, <1>2, <2>1, <3>1 DEF PostsSoFar, RowsTell
    <3>4. out = "ok" => Shipped'
      <4>1. shipPublic' # <<>>
        BY <2>1
      <4>2. ship.req.surface = "x"
        BY <1>2 DEF LaidOut
      <4> QED
        BY <2>1, <2>4, <3>1, <4>1, <4>2 DEF Shipped
    <3> QED
      BY <1>2, <2>2, <3>1, <3>2, <3>3, <3>4 DEF ShipInv, Ended
  <2> QED
    BY <1>3, <1>4, <1>5, <2>3, <2>4 DEF PostRoot
<1>6. CASE Ends("err") /\ UNCHANGED shipPublic
  BY <1>1, <1>6, EndKeeps
<1> QED
  BY <1>3, <1>5, <1>6 DEF PostRoot

\* The reply stands under the root, and the script that lost it does not end well.
LEMMA SecondKeeps ==
    ASSUME ShipInv, PostSecond
    PROVE  ShipInv'
<1>1. ship.st = "second" /\ UNCHANGED <<shipEnv, shipAudit>>
  BY DEF PostSecond
<1>2. ShipTypes /\ Ready(ship.req) /\ LaidOut /\ Len(shipPublic) = 1 /\ shipAudit = {} /\ PostsSay
  BY <1>1 DEF ShipInv, PostsSoFar, RowsTell
<1>3. PICK reply : reply = ship.text[2]
  OBVIOUS
<1>4. /\ Len(ship.text) = 2 /\ ~ship.req.parent /\ ship.req.surface = "x"
      /\ reply \in Prose(Said(ship.req.lines)) /\ reply \in Prose(Nat) /\ FitsX(reply)
  <2>1. /\ ship.text \in Seq(Prose(Said(ship.req.lines))) /\ ship.text \in Seq(Prose(Nat))
        /\ Len(ship.text) = 2
    BY <1>1, <1>2 DEF LaidOut, Thread, ShipTypes, ShipRecord
  <2>2. 2 \in DOMAIN ship.text
    BY <2>1
  <2> QED
    BY <1>2, <1>3, <2>1, <2>2 DEF LaidOut
<1>5. ASSUME NEW out \in {"ok", "err"}, Ends(out), shipPublic' \in Seq(OnPlatform), PostsSay',
             Len(shipPublic') = 2 \/ (Len(shipPublic') = 1 /\ (out = "err" \/ shipEnv.via = "api"))
      PROVE  ShipInv'
  <2>1. /\ ship'.st = "record" /\ ship'.req = ship.req /\ ship'.mode = ship.mode /\ ship'.text = ship.text
        /\ ship'.out = out /\ ship' \in ShipRecord
    BY <1>2, <1>5, ComesToAnEnd
  <2>2. ShipTypes'
    BY <1>5, <2>1 DEF ShipTypes
  <2>3. RowsTell'
    BY <1>1, <1>2, <2>1 DEF RowsTell
  <2>4. PostsSoFar'
    <3>1. PICK len : len = Len(shipPublic')
      OBVIOUS
    <3>2. len = 1 \/ len = 2
      BY <1>5, <3>1
    <3>3. len <= 2
      BY <3>2
    <3>4. ship'.st = "record" /\ ~ship'.req.parent
      BY <1>4, <2>1
    <3> QED
      BY <3>1, <3>3, <3>4 DEF PostsSoFar
  <2>5. out = "ok" => Shipped'
    <3>1. shipPublic' # <<>>
      BY <1>5
    <3> QED
      BY <1>1, <1>4, <1>5, <2>1, <3>1 DEF Shipped
  <2> QED
    BY <1>2, <1>5, <2>1, <2>2, <2>3, <2>4, <2>5 DEF ShipInv, Ended
<1>6. CASE Posts(reply) /\ Ends("ok")
  <2>1. ship'.req = ship.req
    BY <1>2, <1>6, ComesToAnEnd
  <2>2. PostsSay'
    BY <1>2, <1>4, <1>6, <2>1, PostsSayMore
  <2>3. shipPublic' \in Seq(OnPlatform) /\ Len(shipPublic') = 2
    BY <1>2, <1>4, <1>6, PostsAdd
  <2> QED
    BY <1>5, <1>6, <2>2, <2>3
<1>7. CASE UNCHANGED shipPublic /\ Ends(IF shipEnv.via = "api" THEN "ok" ELSE "err")
  <2>1. PICK out \in {"ok", "err"} : Ends(out) /\ (out = "err" \/ shipEnv.via = "api")
    BY <1>7
  <2>2. ship'.req = ship.req
    BY <1>2, <2>1, ComesToAnEnd
  <2>3. PostsSay' /\ shipPublic' \in Seq(OnPlatform) /\ Len(shipPublic') = 1
    BY <1>2, <1>7, <2>2 DEF PostsSay, ShipTypes
  <2> QED
    BY <1>5, <2>1, <2>3
<1> QED
  BY <1>3, <1>6, <1>7 DEF PostSecond

\* What stands on LinkedIn is the body of the row: it was stripped when the ship started.
LEMMA LinkedInKeeps ==
    ASSUME ShipInv, PostLinkedIn
    PROVE  ShipInv'
<1>1. /\ ship.st = "post" /\ ship.mode = "production" /\ ship.req.surface = "linkedin"
      /\ UNCHANGED <<shipEnv, shipAudit>>
  BY DEF PostLinkedIn
<1>2. ShipTypes /\ Ready(ship.req) /\ shipPublic = <<>> /\ shipAudit = {}
  BY <1>1 DEF ShipInv, PostsSoFar, RowsTell
<1>3. PICK text : text = LinkedInTextForApi(ship.req.lines)
  OBVIOUS
<1>4. text = ship.req.lines /\ text \in Seq(BodyLine) /\ ~ship.req.quote /\ ~ship.req.parent
  BY <1>1, <1>2, <1>3 DEF Ready, ShipRequest
<1>5. ASSUME NEW out \in {"ok", "err"}, Posts(text), Ends(out)
      PROVE  ShipInv'
  <2>1. /\ ship'.st = "record" /\ ship'.req = ship.req /\ ship'.mode = ship.mode /\ ship'.text = ship.text
        /\ ship'.out = out /\ ship' \in ShipRecord
    BY <1>2, <1>5, ComesToAnEnd
  <2>2. shipPublic' \in Seq(OnPlatform) /\ Len(shipPublic') = 1 /\ shipPublic'[1].text = text
    <3>1. Len(shipPublic) = 0
      BY <1>2
    <3> QED
      BY <1>2, <1>4, <1>5, <3>1, PostsAdd
  <2>3. PostsSay'
    BY <1>1, <1>2, <1>4, <1>5, <2>1, PostsSayMore
  <2>4. ShipTypes'
    BY <2>1, <2>2 DEF ShipTypes
  <2>5. PostsSoFar' /\ RowsTell'
    BY <1>1, <1>2, <2>1, <2>2 DEF PostsSoFar, RowsTell
  <2>6. Shipped'
    <3>1. shipPublic' # <<>>
      BY <2>2
    <3>2. shipPublic'[1].text = ship.req.lines
      BY <1>4, <2>2
    <3>3. ship'.req = ship.req /\ ship.req.surface = "linkedin"
      BY <1>1, <2>1
    <3> QED
      BY <3>1, <3>2, <3>3 DEF Shipped
  <2> QED
    BY <1>2, <2>1, <2>3, <2>4, <2>5, <2>6 DEF ShipInv, Ended
<1>6. CASE Ends("err") /\ UNCHANGED shipPublic
  BY <1>1, <1>6, EndKeeps
<1> QED
  BY <1>3, <1>5, <1>6 DEF PostLinkedIn

LEMMA RecordKeeps ==
    ASSUME ShipInv, RecordShip
    PROVE  ShipInv'
<1>1. ship.st = "record" /\ UNCHANGED <<shipEnv, shipPublic>> /\ Go("end")
  BY DEF RecordShip
<1>2. /\ ShipTypes /\ Ready(ship.req) /\ PostsSoFar /\ PostsSay /\ shipAudit = {}
      /\ ship.out = "ok" /\ ship.mode = "production" => Shipped
  BY <1>1 DEF ShipInv, RowsTell, Ended
<1>3. /\ ship'.st = "end" /\ ship'.req = ship.req /\ ship'.mode = ship.mode /\ ship'.text = ship.text
      /\ ship'.out = ship.out /\ ship' \in ShipRecord
  BY <1>1, <1>2, GoesOn DEF ShipSteps
<1>4. ShipTypes'
  BY <1>1, <1>2, <1>3 DEF ShipTypes
<1>5. PostsSoFar'
  BY <1>1, <1>2, <1>3 DEF PostsSoFar
<1>6. PostsSay'
  BY <1>1, <1>2, <1>3 DEF PostsSay
<1>7. ASSUME NEW row \in shipAudit'
      PROVE  /\ row.surface = ship.req.surface /\ row.mode = ship.mode
             /\ row.body = ship.req.lines /\ row.status = ship.out
  BY <1>2, <1>7 DEF RecordShip
<1>8. RowsTell'
  BY <1>3, <1>7 DEF RowsTell
<1>9. ship.out = "ok" /\ ship.mode = "production" => Shipped'
  BY <1>1, <1>2, <1>3 DEF Shipped
<1> QED
  BY <1>3, <1>4, <1>5, <1>6, <1>8, <1>9 DEF ShipInv

\* publish/x.rs, publish/ship.rs: what is public says what the operator wrote and fits the limit, a
\* reply to a status is one post that quotes nothing, and a ship that ended well in production is
\* public.
LEMMA ShipShows ==
    ShipInv => ShippedIsWhatWasSaid
<1> SUFFICES ASSUME ShipInv PROVE ShippedIsWhatWasSaid
  OBVIOUS
<1>1. ShipTypes /\ PostsSay /\ PostsSoFar /\ RowsTell
  BY DEF ShipInv
<1>2. Len(shipPublic) \in Nat /\ DOMAIN shipPublic = 1..Len(shipPublic)
  BY <1>1 DEF ShipTypes
<1>3. ASSUME NEW i \in DOMAIN shipPublic, shipPublic[i].surface = "x"
      PROVE  /\ Places(PublicWords(shipPublic[i])) \subseteq Places(SaidWords(ship.req.lines))
             /\ FitsX(shipPublic[i].text)
  <2>1. PICK p, N : p = shipPublic[i] /\ N = Said(ship.req.lines)
    OBVIOUS
  <2>2. p.surface = "x" /\ p.text \in Prose(N) /\ FitsX(p.text)
    BY <1>1, <1>3, <2>1 DEF PostsSay
  <2> QED
    BY <2>1, <2>2, PublicWordsAre DEF Said
<1>4. ASSUME NEW i \in DOMAIN shipPublic, shipPublic[i].parent
      PROVE  ~shipPublic[i].quote /\ Len(shipPublic) = 1
  <2>1. ~shipPublic[i].quote /\ ship.req.parent
    BY <1>1, <1>4 DEF PostsSay
  <2> QED
    BY <1>1, <1>2, <2>1 DEF PostsSoFar
<1>5. ASSUME NEW row \in shipAudit, row.status = "ok", row.mode = "production"
      PROVE  /\ shipPublic # <<>>
             /\ row.surface = "linkedin" => shipPublic[1].text = row.body
             /\ row.surface = "x" /\ shipEnv.via = "brave" => Len(shipPublic) = Len(ship.text)
  <2>1. ship.st = "end"
    BY <1>1 DEF RowsTell
  <2>2. /\ row.surface = ship.req.surface /\ ship.mode = "production"
        /\ row.body = ship.req.lines /\ ship.out = "ok"
    BY <1>1, <1>5 DEF RowsTell
  <2>3. Shipped
    BY <2>1, <2>2 DEF ShipInv, Ended
  <2> QED
    BY <2>2, <2>3 DEF Shipped
<1> QED
  BY <1>3, <1>4, <1>5 DEF ShippedIsWhatWasSaid

\* Every step of a ship keeps its invariant.
LEMMA ShipInvHolds ==
    ShipSpec => []ShipInv
<1>1. ShipInit => ShipInv
  BY ShipStarts
<1>2. ShipInv /\ [ShipNext]_shipVars => ShipInv'
  <2> SUFFICES ASSUME ShipInv, [ShipNext]_shipVars PROVE ShipInv'
    OBVIOUS
  <2>1. CASE UNCHANGED shipVars
    BY <2>1, EditModeKeeps DEF shipVars
  <2>2. ASSUME NEW s \in {"linkedin", "x"}, NEW m \in ShipModes, EditMode(s, m) PROVE ShipInv'
    BY <2>2, EditModeKeeps DEF EditMode
  <2>3. ASSUME NEW req \in ShipRequests, StartShip(req) PROVE ShipInv'
    BY <2>3, StartKeeps
  <2>4. CASE PostPlayground
    <3>1. Ends("ok") /\ ship.st = "post" /\ ship.mode = "playground" /\ UNCHANGED <<shipEnv, shipPublic, shipAudit>>
      BY <2>4 DEF PostPlayground
    <3> QED
      BY <3>1, EndKeeps
  <2> QED
    BY <2>1, <2>2, <2>3, <2>4, OpenKeeps, LayOutKeeps, RootKeeps, SecondKeeps, LinkedInKeeps, RecordKeeps
       DEF ShipNext
<1> QED
  BY <1>1, <1>2, PTL DEF ShipSpec

\* Whatever texts, modes, environments and failures a ship meets, what it leaves in public is
\* what the operator wrote, and its row tells how it ended.
THEOREM ShipSafe ==
    ShipSpec => []ShippedIsWhatWasSaid
  BY ShipInvHolds, ShipShows, PTL

-----------------------------------------------------------------------------
(* What a thread says.                                                        *)

\* The words of a text, as the layout of a thread counts them.
LEMMA WordsAreTold ==
    ASSUME NEW N, NEW t \in Prose(N)
    PROVE  ToSet(WordsOf(t)) = Tells(t)
<1>1. PICK kept : kept = WordsOf(t)
  OBVIOUS
<1>2. t \in Seq(Tokens(N)) /\ DOMAIN t = 1..Len(t)
  BY DEF Prose
<1>3. kept \in Seq(Tokens(N)) /\ IsKept(kept, t, WordsAt(t))
  BY <1>1, <1>2, KeepIsKept DEF WordsOf
<1>4. ASSUME NEW w \in ToSet(kept) PROVE w \in Tells(t)
  <2>1. PICK j \in 1..Len(kept) : w = kept[j]
    BY <1>3 DEF ToSet
  <2>2. PICK i \in WordsAt(t) : kept[j] = t[i]
    BY <1>3 DEF IsKept
  <2> QED
    BY <2>1, <2>2 DEF Tells
<1>5. ASSUME NEW w \in Tells(t) PROVE w \in ToSet(kept)
  <2>1. PICK i \in WordsAt(t) : w = t[i]
    BY <1>5 DEF Tells
  <2>2. i \in WordsAt(t) \cap DOMAIN t
    BY <2>1 DEF WordsAt
  <2>3. PICK j \in 1..Len(kept) : kept[j] = t[i]
    BY <1>3, <2>2 DEF IsKept
  <2> QED
    BY <1>3, <2>1, <2>3 DEF ToSet
<1> QED
  BY <1>1, <1>4, <1>5

LEMMA WordsInAreTold ==
    ASSUME NEW N, NEW texts \in Seq(Prose(N))
    PROVE  WordsIn(texts) = TellsAll(texts) /\ Places(WordsIn(texts)) = SaysAll(texts)
<1>1. \A i \in DOMAIN texts : texts[i] \in Prose(N)
  OBVIOUS
<1>2. \A i \in DOMAIN texts : ToSet(WordsOf(texts[i])) = Tells(texts[i])
  BY <1>1, WordsAreTold
<1>3. WordsIn(texts) = TellsAll(texts)
  BY <1>2 DEF WordsIn, TellsAll
<1>4. \A i \in DOMAIN texts : Says(texts[i]) = {x.n : x \in Tells(texts[i])}
  BY SaysIs
<1>5. {x.n : x \in TellsAll(texts)} = SaysAll(texts)
  BY <1>4 DEF TellsAll, SaysAll
<1> QED
  BY <1>3, <1>5 DEF Places

LEMMA ThreadSays ==
    ASSUME ShipInv
    PROVE  ThreadLosesNoWord
<1>1. SUFFICES ASSUME ship.st = "open", ship.req.surface = "x" PROVE LosesNoWord(ThreadOf(ship.req.lines))
  BY DEF ThreadLosesNoWord, InThread
<1>2. PICK lines, text : lines = ship.req.lines /\ text = TweetTextForApi(lines)
  OBVIOUS
<1>3. lines \in Seq(BodyLine) /\ NotesInFooter(lines)
  BY <1>1, <1>2 DEF ShipInv, Ready, ShipRequest
<1>4. PICK N : N = Said(lines)
  OBVIOUS
<1>5. text \in Seq(Prose(N))
  BY <1>2, <1>3, <1>4, TweetTextIsSaid
<1>6. PICK peeled : peeled = PeelTrailer(text)
  OBVIOUS
<1>7. PICK head, trailer, texts : /\ head = PromoteLineBreaks(peeled.lines) /\ trailer = peeled.trailer
                                  /\ texts = LayoutXThread(text)
  OBVIOUS
<1>8. /\ head \in Prose(N) /\ trailer \in Prose(N) /\ Tells(head) \cup Tells(trailer) = TellsAll(text)
      /\ trailer # <<>> /\ OpensShort(head) /\ ArticlesGoOn(head) => SaysAll(texts) = SaysAll(text)
  BY <1>5, <1>6, <1>7, LayoutSays
<1>9. WordsIn(text) = TellsAll(text) /\ Places(WordsIn(text)) = SaysAll(text)
  BY <1>5, WordsInAreTold
<1>10. texts \in Seq(Prose(N))
  BY <1>5, <1>7, LayoutInProse DEF Thread
<1>11. Places(WordsIn(texts)) = SaysAll(texts)
  BY <1>10, WordsInAreTold
<1>12. PICK all : all = head \o trailer
  OBVIOUS
<1>13. all \in Prose(N) /\ Tells(all) = Tells(head) \cup Tells(trailer)
  BY <1>8, <1>12, TellsJoin
<1>14. ToSet(WordsOf(all)) = WordsIn(text)
  BY <1>8, <1>9, <1>13, WordsAreTold
<1>15. PICK t : t = ThreadOf(lines)
  OBVIOUS
<1>16. t = [said |-> WordsIn(text), words |-> WordsOf(all), head |-> head, trailer |-> trailer, texts |-> texts]
  BY <1>2, <1>6, <1>7, <1>12, <1>15 DEF ThreadOf
<1>17. t.said = WordsIn(text) /\ t.words = WordsOf(all) /\ t.head = head /\ t.trailer = trailer /\ t.texts = texts
  BY <1>16
<1>18. LosesNoWord(t)
  BY <1>8, <1>9, <1>11, <1>14, <1>17 DEF LosesNoWord
<1> QED
  BY <1>2, <1>15, <1>18

\* Whatever an operator wrote: no word of it is lost when its lines are taken apart, and a thread
\* says each of them and nothing else, when its first sentence has room and no article ends a
\* paragraph.
THEOREM NoWordIsLost ==
    ShipSpec => []ThreadLosesNoWord
  BY ShipInvHolds, ThreadSays, PTL

-----------------------------------------------------------------------------
(* The ship and what the publish gate counts on.                              *)

Before == {"idle", "open", "post", "root", "second"}

\* Before it has ended, nothing of a ship is live or audited to the gate.
LEMMA NotYet ==
    ASSUME ShipInv, ship.st \in Before
    PROVE  shipStage = "ship" /\ ~shipLive /\ ~shipAudited
<1>1. ship.st # "record" /\ ship.st # "end" /\ shipAudit = {}
  BY DEF Before, ShipInv, RowsTell
<1> QED
  BY <1>1 DEF Before, shipStage, shipLive, shipAudited

\* A step that goes on towards the post is no step of the gate.
LEMMA StaysBefore ==
    ASSUME ShipInv, ShipInv', ship.st \in Before, ship'.st \in Before
    PROVE  UNCHANGED <<shipStage, shipLive, shipAudited>>
<1>1. shipStage = "ship" /\ ~shipLive /\ ~shipAudited
  BY NotYet
<1>2. shipStage' = "ship" /\ ~shipLive' /\ ~shipAudited'
  <2>1. ship'.st # "record" /\ ship'.st # "end" /\ shipAudit' = {}
    BY DEF Before, ShipInv, RowsTell
  <2> QED
    BY <2>1 DEF Before, shipStage, shipLive, shipAudited
<1>3. shipLive \in BOOLEAN /\ shipLive' \in BOOLEAN /\ shipAudited \in BOOLEAN /\ shipAudited' \in BOOLEAN
  BY DEF shipLive, shipAudited
<1> QED
  BY <1>1, <1>2, <1>3

\* One that ends it goes out or ends unsent; what goes out well is public, and only that is audited.
LEMMA EndsAsOne ==
    ASSUME ShipInv, ShipInv', ship.st \in Before, ship'.st \in {"record", "end"}, shipAudit' = {},
           ship'.st = "end" => ship'.out = "err"
    PROVE  One!OneNext
<1>1. shipStage = "ship" /\ ~shipLive /\ ~shipAudited
  BY NotYet
<1>2. shipStage' \in {"audit", "over"} /\ ~shipAudited'
  BY DEF Before, shipStage, shipAudited
<1>3. shipStage' = "audit" => shipPublic' # <<>>
  BY DEF shipStage, ShipInv, Shipped, Ended
<1>4. shipLive' <=> shipPublic' # <<>>
  BY DEF shipLive
<1>5. shipLive \in BOOLEAN /\ shipLive' \in BOOLEAN /\ shipAudited \in BOOLEAN /\ shipAudited' \in BOOLEAN
  BY DEF shipLive, shipAudited
<1>6. CASE shipLive'
  BY <1>1, <1>2, <1>5, <1>6 DEF One!OneNext, One!GoesOut
<1>7. CASE ~shipLive'
  BY <1>1, <1>2, <1>3, <1>4, <1>5, <1>7 DEF One!OneNext, One!EndsUnsent
<1> QED
  BY <1>6, <1>7

\* The row of a ship that did not end well in production is not one the gate reads.
LEMMA RowAsOne ==
    ASSUME ShipInv, RecordShip
    PROVE  One!OneNext \/ UNCHANGED <<shipStage, shipLive, shipAudited>>
<1>1. /\ ShipTypes /\ ship.st = "record" /\ shipAudit = {} /\ shipPublic' = shipPublic /\ Go("end")
  BY DEF RecordShip, ShipInv, RowsTell
<1>2. ship'.st = "end"
  BY <1>1, GoesOn DEF ShipSteps
<1>3. shipStage' = "over" /\ (shipLive' <=> shipLive)
  BY <1>1, <1>2 DEF shipStage, shipLive
<1>4. shipLive \in BOOLEAN /\ shipLive' \in BOOLEAN /\ shipAudited \in BOOLEAN /\ shipAudited' \in BOOLEAN
  BY DEF shipLive, shipAudited
<1>5. CASE ship.out = "ok" /\ ship.mode = "production"
  <2>1. shipStage = "audit"
    BY <1>1, <1>5 DEF shipStage
  <2> QED
    BY <1>3, <1>4, <2>1 DEF One!OneNext, One!WritesRow
<1>6. CASE ~(ship.out = "ok" /\ ship.mode = "production")
  <2>1. shipStage = "over"
    BY <1>1, <1>6 DEF shipStage
  <2>2. \A row \in shipAudit' : row.status = ship.out /\ row.mode = ship.mode
    BY <1>1 DEF RecordShip
  <2>3. ~shipAudited /\ ~shipAudited'
    BY <1>1, <1>6, <2>2 DEF shipAudited
  <2> QED
    BY <1>3, <1>4, <2>1, <2>3
<1> QED
  BY <1>5, <1>6

\* publish/ship.rs implements the steps Ship and Audit of the publish gate.
THEOREM ShipImplementsOne ==
    ShipSpec => ShipsAsOne
<1>1. ShipInit => One!OneInit
  <2> SUFFICES ASSUME ShipInit PROVE One!OneInit
    OBVIOUS
  <2>1. ShipInv /\ ship.st \in Before
    BY ShipStarts DEF ShipInit, Idle, Before
  <2>2. shipStage = "ship" /\ ~shipLive /\ ~shipAudited
    BY <2>1, NotYet
  <2>3. shipLive \in BOOLEAN /\ shipAudited \in BOOLEAN
    BY DEF shipLive, shipAudited
  <2> QED
    BY <2>2, <2>3 DEF One!OneInit
<1>2. ShipInv /\ ShipInv' /\ [ShipNext]_shipVars => [One!OneNext]_One!oneVars
  <2> SUFFICES ASSUME ShipInv, ShipInv', [ShipNext]_shipVars
               PROVE  One!OneNext \/ UNCHANGED <<shipStage, shipLive, shipAudited>>
    BY DEF One!oneVars
  <2>1. ShipTypes
    BY DEF ShipInv
  <2>2. CASE UNCHANGED <<ship, shipPublic, shipAudit>>
    BY <2>2 DEF shipStage, shipLive, shipAudited
  <2>3. ASSUME NEW out \in {"ok", "err"}, Ends(out), ship.st \in Before, shipAudit' = shipAudit
        PROVE  One!OneNext
    <3>1. ship'.st = "record" /\ shipAudit' = {}
      BY <2>1, <2>3, ComesToAnEnd DEF Before, ShipInv, RowsTell
    <3> QED
      BY <2>3, <3>1, EndsAsOne
  <2>4. ASSUME NEW s \in {"linkedin", "x"}, NEW m \in ShipModes, EditMode(s, m)
        PROVE  One!OneNext \/ UNCHANGED <<shipStage, shipLive, shipAudited>>
    BY <2>2, <2>4 DEF EditMode
  <2>5. ASSUME NEW req \in ShipRequests, StartShip(req)
        PROVE  One!OneNext \/ UNCHANGED <<shipStage, shipLive, shipAudited>>
    <3>1. ship.st = "idle" /\ shipAudit' = shipAudit
      BY <2>5 DEF StartShip
    <3>2. ship'.st = "open" \/ (ship'.st = "end" /\ ship'.out = "err")
      BY <2>5 DEF StartShip, Idle
    <3>3. shipAudit = {}
      BY <3>1 DEF ShipInv, RowsTell
    <3> QED
      BY <3>1, <3>2, <3>3, StaysBefore, EndsAsOne DEF Before
  <2>6. CASE OpenAudit
    <3>1. ship.st = "open" /\ shipAudit' = shipAudit
      BY <2>6 DEF OpenAudit
    <3>2. ship'.st = "post" \/ (ship'.st = "end" /\ ship'.out = "err")
      BY <2>1, <2>6 DEF OpenAudit, Go, ShipTypes, ShipRecord
    <3>3. shipAudit = {}
      BY <3>1 DEF ShipInv, RowsTell
    <3> QED
      BY <3>1, <3>2, <3>3, StaysBefore, EndsAsOne DEF Before
  <2>7. CASE PostPlayground
    BY <2>3, <2>7 DEF PostPlayground, Before
  <2>8. CASE LayOut
    <3>1. ship.st = "post" /\ shipAudit' = shipAudit
      BY <2>8 DEF LayOut
    <3>2. CASE Ends("err")
      BY <2>3, <3>1, <3>2 DEF Before
    <3>3. ASSUME NEW texts, ship' = [ship EXCEPT !.st = "root", !.text = texts]
          PROVE  UNCHANGED <<shipStage, shipLive, shipAudited>>
      <4>1. ship'.st = "root"
        BY <2>1, <3>3 DEF ShipTypes, ShipRecord
      <4> QED
        BY <3>1, <4>1, StaysBefore DEF Before
    <3> QED
      BY <2>8, <3>2, <3>3 DEF LayOut
  <2>9. CASE PostRoot
    <3>1. ship.st = "root" /\ shipAudit' = shipAudit
      BY <2>9 DEF PostRoot
    <3>2. CASE Go("second")
      <4>1. ship'.st = "second"
        BY <2>1, <3>2, GoesOn DEF ShipSteps
      <4> QED
        BY <3>1, <4>1, StaysBefore DEF Before
    <3>3. ASSUME NEW out \in {"ok", "err"}, Ends(out) PROVE One!OneNext
      BY <2>3, <3>1, <3>3 DEF Before
    <3> QED
      BY <2>9, <3>2, <3>3 DEF PostRoot
  <2>10. CASE PostSecond
    <3>1. ship.st = "second" /\ shipAudit' = shipAudit
      BY <2>10 DEF PostSecond
    <3>2. PICK out \in {"ok", "err"} : Ends(out)
      BY <2>10 DEF PostSecond
    <3> QED
      BY <2>3, <3>1, <3>2 DEF Before
  <2>11. CASE PostLinkedIn
    <3>1. ship.st = "post" /\ shipAudit' = shipAudit
      BY <2>11 DEF PostLinkedIn
    <3>2. PICK out \in {"ok", "err"} : Ends(out)
      BY <2>11 DEF PostLinkedIn
    <3> QED
      BY <2>3, <3>1, <3>2 DEF Before
  <2>12. CASE RecordShip
    BY <2>12, RowAsOne
  <2> QED
    BY <2>2, <2>4, <2>5, <2>6, <2>7, <2>8, <2>9, <2>10, <2>11, <2>12 DEF ShipNext, shipVars
<1>3. ShipSpec => []ShipInv
  BY ShipInvHolds
<1> QED
  BY <1>1, <1>2, <1>3, PTL DEF ShipSpec, ShipsAsOne, One!OneSpec
==============================================================================
