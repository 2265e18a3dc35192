---------------------------- MODULE CorpusProofs ----------------------------
(***************************************************************************)
(* The corpus, for any number of posts, entries, processes, commands and   *)
(* rows, whatever fails, crashes, falls asleep or is wiped: a claim of the *)
(* enrich queue has one worker and a row that is ok can be found by every  *)
(* piece of its text (EnrichInv), an import loses and doubles nothing      *)
(* (CorpusInv), two kept proposals tell the same story only when one was   *)
(* building as the other was made (StoriesDiffer), and a digest offers     *)
(* nothing twice and nothing the operator was just shown (DigestInv).      *)
(***************************************************************************)
EXTENDS EnrichQueue, CorpusImport, CorpusPropose, DailyDigest, ListProofs

-------------------------------------------------------------------------------
(* The enrich queue *)

\* A step moves at most the worker w, and at most the row r.
OnlyWorker(w) ==
    /\ enricher' \in [Workers -> Enricher]
    /\ \A x \in Workers \ {w} : enricher'[x] = enricher[x]
OnlyRow(r) ==
    /\ posts' \in [Posts -> PostRow]
    /\ \A s \in Posts \ {r} : posts'[s] = posts[s]

\* What a step leaves to be shown when it changes neither the rows nor their workers.
Beside ==
    /\ scraped' \in [Posts -> AllPages \cup {"none"}]
    /\ pidFile' \in Drips \cup {NoDrip}
    /\ aged' \subseteq Posts

\* A row that stays as it is and gets no new worker keeps what holds of it.
LEMMA RowKept ==
    ASSUME NEW r \in Posts, ClaimInv(r), Indexed(r), posts'[r] = posts[r],
           \A x \in Workers : enricher'[x].row = r =>
               /\ enricher[x].row = r
               /\ enricher'[x].pc \in {"embed", "complete"} => enricher'[x] = enricher[x]
    PROVE  ClaimInv(r)' /\ Indexed(r)'
<1>1. Indexed(r)'
  BY DEF Indexed
<1>2. \A w, x \in Workers : enricher'[w].row = r /\ enricher'[x].row = r => w = x
  BY DEF ClaimInv
<1>3. \A w \in Workers : enricher'[w].row = r =>
           /\ posts'[r].st = "in_flight"
           /\ enricher'[w].pc \in {"embed", "complete"} =>
                  posts'[r].stubs = 0 /\ posts'[r].chunks = enricher'[w].k
  BY DEF ClaimInv
<1> QED
  BY <1>1, <1>2, <1>3 DEF ClaimInv

\* A step of the worker w, which has or had no other row than r.
LEMMA WorkerStep ==
    ASSUME EnrichInv, NEW w \in Workers, OnlyWorker(w), WorkerInv(w)', NEW r \in Posts, OnlyRow(r),
           enricher[w].row \in {0, r}, enricher'[w].row \in {0, r},
           stolen' = stolen, Beside,
           r \notin stolen => ClaimInv(r)' /\ Indexed(r)'
    PROVE  EnrichInv'
<1>1. \A x \in Workers : WorkerInv(x)'
  <2> SUFFICES ASSUME NEW x \in Workers, x # w PROVE WorkerInv(x)'
    OBVIOUS
  <2> QED
    BY DEF OnlyWorker, EnrichInv, WorkerInv
<1>2. ASSUME NEW s \in Posts \ stolen PROVE ClaimInv(s)' /\ Indexed(s)'
  <2>1. CASE s = r
    BY <1>2, <2>1
  <2>2. CASE s # r
    <3>1. ClaimInv(s) /\ Indexed(s) /\ posts'[s] = posts[s]
      BY <1>2, <2>2 DEF EnrichInv, OkRowIsIndexed, OnlyRow
    <3>2. s # 0
      BY EnrichAssumption
    <3>3. \A x \in Workers : enricher'[x].row = s => enricher'[x] = enricher[x]
      BY <2>2, <3>2 DEF OnlyWorker
    <3> QED
      BY <3>1, <3>3, RowKept
  <2> QED
    BY <2>1, <2>2
<1>3. EnrichTypes'
  BY DEF EnrichInv, EnrichTypes, OnlyWorker, OnlyRow, Beside
<1> QED
  BY <1>1, <1>2, <1>3 DEF EnrichInv, OkRowIsIndexed

\* A worker that goes on without touching its row, or lets it go.
LEMMA MoveStep ==
    ASSUME EnrichInv, NEW w \in Workers, OnlyWorker(w), WorkerInv(w)',
           enricher'[w].row \in {0, enricher[w].row},
           enricher'[w].pc \notin {"embed", "complete"},
           posts' = posts, stolen' = stolen, Beside
    PROVE  EnrichInv'
<1>1. \A x \in Workers : WorkerInv(x)'
  <2> SUFFICES ASSUME NEW x \in Workers, x # w PROVE WorkerInv(x)'
    OBVIOUS
  <2> QED
    BY DEF OnlyWorker, EnrichInv, WorkerInv
<1>2. ASSUME NEW s \in Posts \ stolen PROVE ClaimInv(s)' /\ Indexed(s)'
  <2>1. ClaimInv(s) /\ Indexed(s) /\ posts'[s] = posts[s]
    BY <1>2 DEF EnrichInv, OkRowIsIndexed
  <2>2. s # 0
    BY EnrichAssumption
  <2>3. \A x \in Workers : enricher'[x].row = s =>
            /\ enricher[x].row = s
            /\ enricher'[x].pc \in {"embed", "complete"} => enricher'[x] = enricher[x]
    BY <2>2 DEF OnlyWorker
  <2> QED
    BY <2>1, <2>3, RowKept
<1>3. EnrichTypes'
  BY DEF EnrichInv, EnrichTypes, OnlyWorker, Beside
<1> QED
  BY <1>1, <1>2, <1>3 DEF EnrichInv, OkRowIsIndexed

\* What a worker becomes when its program counter is set.
LEMMA ToMoves ==
    ASSUME EnrichInv, NEW w \in Workers, NEW pc \in Calm \cup Busy, To(w, pc)
    PROVE  /\ OnlyWorker(w)
           /\ enricher'[w].pc = pc /\ enricher'[w].row = enricher[w].row
           /\ enricher'[w].k = enricher[w].k
<1>1. enricher[w] \in Enricher /\ enricher \in [Workers -> Enricher]
  BY DEF EnrichInv, EnrichTypes
<1>2. [enricher[w] EXCEPT !.pc = pc] \in Enricher
  BY <1>1 DEF Enricher
<1> QED
  BY <1>1, <1>2 DEF To, OnlyWorker, Enricher

\* The same when it has read a page.
LEMMA WithMoves ==
    ASSUME EnrichInv, NEW w \in Workers, NEW pc \in Calm \cup Busy,
           NEW page \in AllPages \cup {"none"}, With(w, pc, page)
    PROVE  /\ OnlyWorker(w)
           /\ enricher'[w].pc = pc /\ enricher'[w].row = enricher[w].row
           /\ enricher'[w].k = enricher[w].k
<1>1. enricher[w] \in Enricher /\ enricher \in [Workers -> Enricher]
  BY DEF EnrichInv, EnrichTypes
<1>2. [enricher[w] EXCEPT !.pc = pc, !.page = page] \in Enricher
  BY <1>1 DEF Enricher
<1> QED
  BY <1>1, <1>2 DEF With, OnlyWorker, Enricher

\* A worker that rests has no row.
LEMMA RestMoves ==
    ASSUME EnrichInv, NEW w \in Workers, Rest(w)
    PROVE  /\ OnlyWorker(w) /\ WorkerInv(w)'
           /\ enricher'[w].row = 0 /\ enricher'[w].pc \in {"off", "sleep"}
<1>1. enricher \in [Workers -> Enricher]
  BY DEF EnrichInv, EnrichTypes
<1>2. Off \in Enricher /\ [Off EXCEPT !.pc = "sleep"] \in Enricher
  BY DEF Off, Enricher, Calm
<1>3. OnlyWorker(w) /\ enricher'[w].row = 0 /\ enricher'[w].pc \in {"off", "sleep"}
  BY <1>1, <1>2 DEF Rest, OnlyWorker, Off
<1> QED
  BY <1>3 DEF WorkerInv, Busy

\* The steps that only rest.
LEMMA RestKeeps ==
    ASSUME EnrichInv, NEW w \in Workers, Rest(w), posts' = posts, stolen' = stolen, Beside
    PROVE  EnrichInv'
  BY RestMoves, MoveStep

\* A row that is not claimed gets its worker.
LEMMA ClaimKeeps ==
    ASSUME EnrichInv, NEW w \in Workers, NEW r \in Posts, enricher[w].row = 0,
           posts[r].st # "in_flight", Claim(w, r), stolen' = stolen, UNCHANGED <<scraped, pidFile>>
    PROVE  EnrichInv'
<1>1. enricher \in [Workers -> Enricher] /\ posts \in [Posts -> PostRow] /\ aged \subseteq Posts
  BY DEF EnrichInv, EnrichTypes
<1>2. [Off EXCEPT !.pc = "look", !.row = r] \in Enricher
  BY EnrichAssumption DEF Off, Enricher, Busy
<1>3. OnlyWorker(w) /\ enricher'[w].pc = "look" /\ enricher'[w].row = r /\ enricher'[w].k = 0
  BY <1>1, <1>2 DEF Claim, OnlyWorker, Off
<1>4. r # 0
  BY EnrichAssumption
<1>5. WorkerInv(w)'
  BY <1>3, <1>4 DEF WorkerInv, Busy
<1>6. [posts[r] EXCEPT !.st = "in_flight"] \in PostRow
  BY <1>1 DEF PostRow
<1>7. OnlyRow(r) /\ posts'[r].st = "in_flight"
  BY <1>1, <1>6 DEF Claim, OnlyRow, PostRow
<1>8. ASSUME r \notin stolen PROVE ClaimInv(r)' /\ Indexed(r)'
  <2>1. \A x \in Workers : enricher[x].row # r
    BY <1>8 DEF EnrichInv, ClaimInv
  <2>2. \A x \in Workers : enricher'[x].row = r => x = w
    BY <1>3, <2>1 DEF OnlyWorker
  <2> QED
    BY <1>3, <1>7, <2>2 DEF ClaimInv, Indexed
<1>9. Beside
  BY <1>1 DEF Claim, Beside, EnrichInv, EnrichTypes
<1> QED
  BY <1>3, <1>5, <1>7, <1>8, <1>9, WorkerStep

\* A worker without a row.
LEMMA CalmHasNoRow ==
    ASSUME EnrichInv, NEW w \in Workers, enricher[w].pc \in Calm
    PROVE  enricher[w].row = 0
  BY DEF EnrichInv, WorkerInv, Calm, Busy

\* A busy worker and its row.
LEMMA BusyHasRow ==
    ASSUME EnrichInv, NEW w \in Workers, enricher[w].pc \in Busy
    PROVE  enricher[w].row \in Posts /\ WorkerInv(w)
  BY DEF EnrichInv, EnrichTypes, WorkerInv, Enricher

\* The drip up to its claim, and its sleep.
LEMMA DripKeeps ==
    ASSUME EnrichInv, NEW d \in Drips, DripStep(d)
    PROVE  EnrichInv'
<1>1. d \in Workers
  BY DEF Workers
<1>2. CASE StartDrip(d)
  <2>1. To(d, "lock") /\ "lock" \in Calm \cup Busy /\ enricher[d].row = 0
    BY <1>1, <1>2, CalmHasNoRow DEF StartDrip, On, Calm
  <2>2. OnlyWorker(d) /\ enricher'[d].pc = "lock" /\ enricher'[d].row = 0
    BY <1>1, <2>1, ToMoves
  <2>3. WorkerInv(d)' /\ Beside
    BY <1>2, <2>2 DEF WorkerInv, Busy, StartDrip, Beside, EnrichInv, EnrichTypes
  <2> QED
    BY <1>1, <1>2, <2>2, <2>3, MoveStep DEF StartDrip
<1>3. CASE WritePid(d)
  <2>1. To(d, "prepare") /\ "prepare" \in Calm \cup Busy /\ enricher[d].row = 0
    BY <1>1, <1>3, CalmHasNoRow DEF WritePid, On, Calm
  <2>2. OnlyWorker(d) /\ enricher'[d].pc = "prepare" /\ enricher'[d].row = 0
    BY <1>1, <2>1, ToMoves
  <2>3. WorkerInv(d)' /\ Beside
    BY <1>3, <2>2 DEF WorkerInv, Busy, WritePid, Beside, EnrichInv, EnrichTypes
  <2> QED
    BY <1>1, <1>3, <2>2, <2>3, MoveStep DEF WritePid
<1>4. CASE ClaimNextEnrich(d)
  <2>1. enricher[d].row = 0
    BY <1>1, <1>4, CalmHasNoRow DEF ClaimNextEnrich, On, Calm
  <2>2. ASSUME NEW r \in Posts, Due(r), Claim(d, r) PROVE EnrichInv'
    <3>1. posts[r].st # "in_flight"
      BY <2>2 DEF Due, Queued
    <3> QED
      BY <1>1, <1>4, <2>1, <2>2, <3>1, ClaimKeeps DEF ClaimNextEnrich
  <2>3. CASE Rest(d) /\ UNCHANGED <<posts, aged>>
    <3>1. Beside
      BY <1>4, <2>3 DEF ClaimNextEnrich, Beside, EnrichInv, EnrichTypes
    <3> QED
      BY <1>1, <1>4, <2>3, <3>1, RestKeeps DEF ClaimNextEnrich
  <2> QED
    BY <1>4, <2>2, <2>3 DEF ClaimNextEnrich
<1>5. CASE PrepareEnrichDb(d)
  <2> DEFINE stale == {r \in aged : posts[r].st = "in_flight"}
  <2>1. To(d, "claim") /\ "claim" \in Calm \cup Busy /\ enricher[d].row = 0
    BY <1>1, <1>5, CalmHasNoRow DEF PrepareEnrichDb, On, Calm
  <2>2. OnlyWorker(d) /\ enricher'[d].pc = "claim" /\ enricher'[d].row = 0
    BY <1>1, <2>1, ToMoves
  <2>3. /\ posts' = [r \in Posts |-> IF r \in stale \/ posts[r].st = "none"
                                     THEN [posts[r] EXCEPT !.st = "pending"] ELSE posts[r]]
        /\ aged' = aged \ stale
        /\ stolen' = stolen \cup {r \in stale : HasWorker(r)}
        /\ UNCHANGED <<scraped, pidFile>>
    BY <1>5 DEF PrepareEnrichDb
  <2>4. posts \in [Posts -> PostRow] /\ aged \subseteq Posts /\ stolen \subseteq Posts
    BY DEF EnrichInv, EnrichTypes
  <2>5. \A r \in Posts : [posts[r] EXCEPT !.st = "pending"] \in PostRow
                         /\ [posts[r] EXCEPT !.st = "pending"].st = "pending"
    BY <2>4 DEF PostRow
  <2>6. posts' \in [Posts -> PostRow]
    BY <2>3, <2>4, <2>5
  <2>7. EnrichTypes'
    BY <2>2, <2>3, <2>4, <2>6 DEF EnrichInv, EnrichTypes, OnlyWorker
  <2>8. \A x \in Workers : WorkerInv(x)'
    <3>1. WorkerInv(d)'
      BY <2>2 DEF WorkerInv, Busy
    <3> QED
      BY <2>2, <3>1 DEF OnlyWorker, EnrichInv, WorkerInv
  <2>9. ASSUME NEW s \in Posts, s \notin stolen' PROVE ClaimInv(s)' /\ Indexed(s)'
    <3>1. s \notin stolen /\ ClaimInv(s) /\ Indexed(s)
      BY <2>3, <2>9 DEF EnrichInv, OkRowIsIndexed
    <3>2. s # 0
      BY EnrichAssumption
    <3>3. \A x \in Workers : enricher'[x].row = s =>
              enricher[x].row = s /\ enricher'[x] = enricher[x]
      BY <2>2, <3>2 DEF OnlyWorker
    <3>4. CASE posts'[s] = posts[s]
      BY <3>1, <3>3, <3>4, RowKept
    <3>5. CASE posts'[s] # posts[s]
      <4>1. s \in stale \/ posts[s].st = "none"
        BY <2>3, <3>5
      <4>2. posts'[s].st = "pending"
        BY <2>3, <2>5, <4>1
      <4>3. ~HasWorker(s)
        BY <2>3, <2>9, <3>1, <4>1 DEF HasWorker, ClaimInv
      <4>4. \A x \in Workers : enricher'[x].row # s
        BY <3>3, <4>3 DEF HasWorker
      <4> QED
        BY <4>2, <4>4 DEF ClaimInv, Indexed
    <3> QED
      BY <3>4, <3>5
  <2> QED
    BY <2>7, <2>8, <2>9 DEF EnrichInv, OkRowIsIndexed
<1>6. CASE SleepDrip(d)
  <2>1. To(d, "claim") /\ "claim" \in Calm \cup Busy /\ enricher[d].row = 0
    BY <1>1, <1>6, CalmHasNoRow DEF SleepDrip, On, Calm
  <2>2. OnlyWorker(d) /\ enricher'[d].pc = "claim" /\ enricher'[d].row = 0
    BY <1>1, <2>1, ToMoves
  <2>3. /\ posts' = [r \in Posts |->
               IF posts[r].wait > 0 THEN [posts[r] EXCEPT !.wait = @ - 1] ELSE posts[r]]
        /\ UNCHANGED <<scraped, pidFile, aged, stolen>>
    BY <1>6 DEF SleepDrip
  <2>4. posts \in [Posts -> PostRow]
    BY DEF EnrichInv, EnrichTypes
  <2>5. \A r \in Posts : posts[r].wait > 0 =>
            LET p == [posts[r] EXCEPT !.wait = @ - 1] IN
            p \in PostRow /\ p.st = posts[r].st /\ p.text = posts[r].text
            /\ p.stubs = posts[r].stubs /\ p.chunks = posts[r].chunks
    BY <2>4, EnrichAssumption DEF PostRow
  <2>6. /\ posts' \in [Posts -> PostRow]
        /\ \A r \in Posts : posts'[r].st = posts[r].st /\ posts'[r].text = posts[r].text
               /\ posts'[r].stubs = posts[r].stubs /\ posts'[r].chunks = posts[r].chunks
    BY <2>3, <2>4, <2>5
  <2>7. EnrichTypes'
    BY <2>2, <2>3, <2>6 DEF EnrichInv, EnrichTypes, OnlyWorker
  <2>8. \A x \in Workers : WorkerInv(x)'
    <3>1. WorkerInv(d)'
      BY <2>2 DEF WorkerInv, Busy
    <3> QED
      BY <2>2, <3>1 DEF OnlyWorker, EnrichInv, WorkerInv
  <2>9. ASSUME NEW s \in Posts \ stolen PROVE ClaimInv(s)' /\ Indexed(s)'
    <3>1. ClaimInv(s) /\ Indexed(s)
      BY <2>9 DEF EnrichInv, OkRowIsIndexed
    <3>2. s # 0
      BY EnrichAssumption
    <3>3. \A x \in Workers : enricher'[x].row = s =>
              enricher[x].row = s /\ enricher'[x] = enricher[x]
      BY <2>2, <3>2 DEF OnlyWorker
    <3> QED
      BY <2>6, <3>1, <3>3 DEF ClaimInv, Indexed
  <2> QED
    BY <2>3, <2>7, <2>8, <2>9 DEF EnrichInv, OkRowIsIndexed
<1> QED
  BY <1>2, <1>3, <1>4, <1>5, <1>6 DEF DripStep


\* Changes of a row give a row.
LEMMA RowChanges ==
    ASSUME NEW p \in PostRow, NEW st \in {"none", "pending", "in_flight", "ok", "failed", "skip"},
           NEW wait \in 0..LongRounds
    PROVE  /\ [p EXCEPT !.st = st, !.wait = wait] \in PostRow
           /\ [p EXCEPT !.st = st, !.text = "page", !.wait = wait] \in PostRow
           /\ [p EXCEPT !.stubs = 0, !.chunks = 0] \in PostRow
<1>1. [p EXCEPT !.st = st, !.wait = wait] \in PostRow
  BY DEF PostRow
<1>2. [p EXCEPT !.st = st, !.text = "page", !.wait = wait] \in PostRow
  BY DEF PostRow
<1>3. ASSUME NEW a \in 0..1, NEW b \in Nat PROVE [p EXCEPT !.stubs = a, !.chunks = b] \in PostRow
  BY DEF PostRow
<1>4. [p EXCEPT !.stubs = 0, !.chunks = 0] \in PostRow
  <2>1. 0 \in 0..1 /\ 0 \in Nat
    OBVIOUS
  <2> QED
    BY <1>3, <2>1
<1> QED
  BY <1>1, <1>2, <1>4

\* The same of a worker.
LEMMA WorkerChanges ==
    ASSUME NEW e \in Enricher, NEW k \in Nat, NEW pc \in Calm \cup Busy
    PROVE  [e EXCEPT !.k = k, !.pc = pc] \in Enricher
  BY DEF Enricher

\* /enrich: the row is queued, then claimed by its id.
LEMMA ManualKeeps ==
    ASSUME EnrichInv, NEW w \in Workers,
           (\E r \in Posts : UpsertManualEnrichSource(w, r)) \/ ClaimEnrichById(w)
    PROVE  EnrichInv'
<1>1. posts \in [Posts -> PostRow]
  BY DEF EnrichInv, EnrichTypes
<1>2. ASSUME NEW r \in Posts, UpsertManualEnrichSource(w, r) PROVE EnrichInv'
  <2>1. enricher[w].row = 0 /\ UNCHANGED <<scraped, pidFile, aged, stolen>>
    BY <1>2, CalmHasNoRow DEF UpsertManualEnrichSource, On, Calm
  <2>2. [Off EXCEPT !.pc = "byid", !.k = r] \in Enricher
    BY EnrichAssumption DEF Off, Enricher, Calm
  <2>3. OnlyWorker(w) /\ enricher'[w].pc = "byid" /\ enricher'[w].row = 0 /\ enricher'[w].k = r
    BY <1>2, <2>2 DEF UpsertManualEnrichSource, OnlyWorker, Off, EnrichInv, EnrichTypes
  <2>4. WorkerInv(w)' /\ Beside
    BY <2>1, <2>3 DEF WorkerInv, Busy, Beside, EnrichInv, EnrichTypes
  <2>5. CASE posts' = posts
    BY <2>1, <2>3, <2>4, <2>5, MoveStep
  <2>6. CASE posts[r].st # "in_flight"
             /\ posts' = [posts EXCEPT ![r].st = "pending", ![r].wait = 0]
    <3>1. [posts[r] EXCEPT !.st = "pending", !.wait = 0] \in PostRow
      <4>1. posts[r] \in PostRow /\ 0 \in 0..LongRounds
        BY <1>1, EnrichAssumption
      <4> QED
        BY <4>1, RowChanges
    <3>2. OnlyRow(r) /\ posts'[r].st = "pending"
      BY <1>1, <2>6, <3>1 DEF OnlyRow, PostRow
    <3>3. ASSUME r \notin stolen PROVE ClaimInv(r)' /\ Indexed(r)'
      <4>1. \A x \in Workers : enricher[x].row # r
        BY <2>6, <3>3 DEF EnrichInv, ClaimInv
      <4>2. r # 0
        BY EnrichAssumption
      <4>3. \A x \in Workers : enricher'[x].row # r
        BY <2>3, <4>1, <4>2 DEF OnlyWorker
      <4> QED
        BY <3>2, <4>3 DEF ClaimInv, Indexed
    <3> QED
      BY <2>1, <2>3, <2>4, <3>2, <3>3, WorkerStep
  <2> QED
    BY <1>2, <2>5, <2>6 DEF UpsertManualEnrichSource
<1>3. CASE ClaimEnrichById(w)
  <2>1. enricher[w].row = 0 /\ enricher[w].k \in Posts
    BY <1>3, CalmHasNoRow DEF ClaimEnrichById, On, Calm, EnrichInv, WorkerInv
  <2>2. CASE Rest(w) /\ UNCHANGED <<posts, aged>>
    <3>1. Beside
      BY <1>3, <2>2 DEF ClaimEnrichById, Beside, EnrichInv, EnrichTypes
    <3> QED
      BY <1>3, <2>2, <3>1, RestKeeps DEF ClaimEnrichById
  <2>3. CASE posts[enricher[w].k].st # "in_flight" /\ Claim(w, enricher[w].k)
    <3> PICK r \in Posts : r = enricher[w].k
      BY <2>1
    <3>1. Claim(w, r) /\ posts[r].st # "in_flight"
      BY <2>3
    <3>2. stolen' = stolen /\ UNCHANGED <<scraped, pidFile>>
      BY <1>3 DEF ClaimEnrichById
    <3> QED
      BY <2>1, <3>1, <3>2, ClaimKeeps
  <2> QED
    BY <1>3, <2>2, <2>3 DEF ClaimEnrichById
<1> QED
  BY <1>2, <1>3

\* A look into the cache, a fetch, and the two kinds of failure leave the rows alone.
LEMMA ReadKeeps ==
    ASSUME EnrichInv, NEW w \in Workers,
           LookInCache(w) \/ FetchHtml(w) \/ StepFails(w) \/ FailureIsLost(w)
    PROVE  EnrichInv'
<1>1. enricher[w].pc \in Busy /\ enricher[w].row \in Posts /\ WorkerInv(w)
      /\ posts' = posts /\ stolen' = stolen
  <2>1. enricher[w].pc \in Busy /\ posts' = posts /\ stolen' = stolen
    BY DEF LookInCache, FetchHtml, StepFails, FailureIsLost, On, Busy
  <2> QED
    BY <2>1, BusyHasRow
<1>2. Beside
  BY EnrichAssumption
     DEF LookInCache, FetchHtml, StepFails, FailureIsLost, Beside, EnrichInv, EnrichTypes
<1>3. ASSUME NEW pc \in {"delete", "fail", "fetch"}, NEW page \in AllPages \cup {"none"},
             With(w, pc, page),
             pc # "fail" => enricher[w].pc \in {"look", "fetch"}
      PROVE  EnrichInv'
  <2>1. OnlyWorker(w) /\ enricher'[w].pc = pc /\ enricher'[w].row = enricher[w].row
        /\ enricher'[w].k = enricher[w].k
    BY <1>3, WithMoves DEF Busy
  <2>2. WorkerInv(w)'
    BY <1>1, <1>3, <2>1, EnrichAssumption DEF WorkerInv, Busy
  <2> QED
    BY <1>1, <1>2, <2>1, <2>2, MoveStep
<1>4. CASE LookInCache(w)
  <2> PICK hit \in AllPages \cup {"none"} : hit = scraped[enricher[w].row]
    BY <1>1 DEF EnrichInv, EnrichTypes
  <2> PICK pc \in {"delete", "fail", "fetch"} :
           pc = CASE hit = "post" -> "delete"
                  [] hit \in {"thin", "dead"} -> "fail"
                  [] OTHER -> "fetch"
    OBVIOUS
  <2>1. With(w, pc, hit) /\ enricher[w].pc = "look"
    BY <1>4 DEF LookInCache, On
  <2> QED
    BY <1>3, <2>1
<1>5. CASE FetchHtml(w)
  <2>1. PICK p \in Pages : With(w, IF p = "post" THEN "delete" ELSE "fail", p)
    BY <1>5 DEF FetchHtml
  <2>2. p \in AllPages \cup {"none"} /\ enricher[w].pc = "fetch"
    BY <1>5, EnrichAssumption DEF FetchHtml, On
  <2> QED
    BY <1>3, <2>1, <2>2
<1>6. CASE StepFails(w)
  <2>1. With(w, "fail", "net") /\ "net" \in AllPages
    BY <1>6 DEF StepFails, AllPages
  <2> QED
    BY <1>3, <2>1
<1>7. CASE FailureIsLost(w)
  BY <1>1, <1>2, <1>7, RestKeeps DEF FailureIsLost
<1> QED
  BY <1>4, <1>5, <1>6, <1>7

\* The text goes into the chunks, and the row becomes ok.
LEMMA ApplyKeeps ==
    ASSUME EnrichInv, NEW w \in Workers,
           DeleteChunks(w) \/ EmbedPiece(w) \/ CompleteEnrich(w) \/ ClassifyEnrichFailure(w)
    PROVE  EnrichInv'
<1>1. enricher[w].pc \in Busy /\ stolen' = stolen /\ UNCHANGED <<scraped, pidFile, aged>>
  BY DEF DeleteChunks, EmbedPiece, CompleteEnrich, ClassifyEnrichFailure, On, Busy
<1> PICK r \in Posts : r = enricher[w].row
  BY <1>1, BusyHasRow
<1>2. WorkerInv(w) /\ posts \in [Posts -> PostRow] /\ enricher \in [Workers -> Enricher]
      /\ r # 0 /\ Beside
  BY <1>1, EnrichAssumption DEF EnrichInv, EnrichTypes, Beside
\* The row of w is its own, if the claim was not taken away.
<1>3. ASSUME r \notin stolen
      PROVE  /\ \A x \in Workers : enricher[x].row = r => x = w
             /\ posts[r].st = "in_flight"
             /\ enricher[w].pc \in {"embed", "complete"} =>
                    posts[r].stubs = 0 /\ posts[r].chunks = enricher[w].k
  BY <1>3 DEF EnrichInv, ClaimInv
<1>4. CASE DeleteChunks(w)
  <2>1. OnlyWorker(w) /\ enricher'[w].pc = "embed" /\ enricher'[w].row = r
        /\ enricher'[w].k = enricher[w].k
    BY <1>4, ToMoves DEF DeleteChunks, Busy
  <2>2. enricher[w].k = 0
    BY <1>2, <1>4 DEF DeleteChunks, On, WorkerInv
  <2>3. WorkerInv(w)'
    BY <1>2, <2>1, <2>2 DEF WorkerInv, Busy, Pieces
  <2>4. [posts[r] EXCEPT !.stubs = 0, !.chunks = 0] \in PostRow
    <3>1. posts[r] \in PostRow /\ 0 \in 0..LongRounds
      BY <1>2, EnrichAssumption
    <3> QED
      BY <3>1, RowChanges
  <2>5. OnlyRow(r) /\ posts'[r].st = posts[r].st /\ posts'[r].stubs = 0 /\ posts'[r].chunks = 0
    BY <1>2, <1>4, <2>4 DEF DeleteChunks, OnlyRow, PostRow
  <2>6. ASSUME r \notin stolen PROVE ClaimInv(r)' /\ Indexed(r)'
    <3>1. \A x \in Workers : enricher'[x].row = r => x = w
      BY <1>3, <2>1, <2>6 DEF OnlyWorker
    <3>2. posts'[r].st = "in_flight"
      BY <1>3, <2>5, <2>6
    <3> QED
      BY <2>1, <2>2, <2>5, <3>1, <3>2 DEF ClaimInv, Indexed
  <2> QED
    BY <1>1, <1>2, <2>1, <2>3, <2>5, <2>6, WorkerStep
<1>5. CASE EmbedPiece(w)
  <2> PICK pc \in {"embed", "complete"} :
           pc = IF enricher[w].k + 1 = Pieces THEN "complete" ELSE "embed"
    OBVIOUS
  <2>1. enricher[w] \in Enricher /\ enricher[w].pc = "embed" /\ enricher[w].k \in Nat
    BY <1>2, <1>5 DEF EmbedPiece, On, Enricher
  <2>2. [enricher[w] EXCEPT !.k = enricher[w].k + 1, !.pc = pc] \in Enricher
    <3>1. enricher[w].k + 1 \in Nat /\ pc \in Calm \cup Busy
      BY <2>1 DEF Busy
    <3> QED
      BY <2>1, <3>1, WorkerChanges
  <2>3. OnlyWorker(w) /\ enricher'[w].pc = pc /\ enricher'[w].row = r
        /\ enricher'[w].k = enricher[w].k + 1
    BY <1>2, <1>5, <2>1, <2>2 DEF EmbedPiece, OnlyWorker, Enricher
  <2>4. enricher[w].k < Pieces
    BY <1>2, <2>1 DEF WorkerInv
  <2>5. WorkerInv(w)'
    BY <1>2, <2>1, <2>3, <2>4 DEF WorkerInv, Busy, Pieces
  <2>6. [posts[r] EXCEPT !.chunks = posts[r].chunks + 1] \in PostRow
    BY <1>2 DEF PostRow
  <2>7. OnlyRow(r) /\ posts'[r].st = posts[r].st /\ posts'[r].stubs = posts[r].stubs
        /\ posts'[r].chunks = posts[r].chunks + 1
    BY <1>2, <1>5, <2>6 DEF EmbedPiece, OnlyRow, PostRow
  <2>8. ASSUME r \notin stolen PROVE ClaimInv(r)' /\ Indexed(r)'
    <3>1. \A x \in Workers : enricher'[x].row = r => x = w
      BY <1>3, <2>3, <2>8 DEF OnlyWorker
    <3>2. posts'[r].st = "in_flight" /\ posts'[r].stubs = 0 /\ posts'[r].chunks = enricher'[w].k
      BY <1>3, <2>1, <2>3, <2>7, <2>8
    <3> QED
      BY <3>1, <3>2 DEF ClaimInv, Indexed
  <2> QED
    BY <1>1, <1>2, <2>3, <2>5, <2>7, <2>8, WorkerStep
<1>6. CASE CompleteEnrich(w)
  <2>1. enricher[w].pc = "complete" /\ enricher[w].k = Pieces
    BY <1>2, <1>6 DEF CompleteEnrich, On, WorkerInv
  <2>2. CASE To(w, "fail") /\ UNCHANGED posts
    <3>1. OnlyWorker(w) /\ enricher'[w].pc = "fail" /\ enricher'[w].row = r
      BY <2>2, ToMoves DEF Busy
    <3>2. WorkerInv(w)'
      BY <1>2, <3>1 DEF WorkerInv, Busy
    <3> QED
      BY <1>1, <1>2, <2>2, <3>1, <3>2, MoveStep
  <2>3. CASE /\ posts' = [posts EXCEPT ![r].st = "ok", ![r].text = "page", ![r].wait = 0]
             /\ Rest(w)
    <3>1. OnlyWorker(w) /\ WorkerInv(w)' /\ enricher'[w].row = 0
      BY <2>3, RestMoves
    <3>2. [posts[r] EXCEPT !.st = "ok", !.text = "page", !.wait = 0] \in PostRow
      <4>1. posts[r] \in PostRow /\ 0 \in 0..LongRounds
        BY <1>2, EnrichAssumption
      <4> QED
        BY <4>1, RowChanges
    <3>3. OnlyRow(r) /\ posts'[r].text = "page" /\ posts'[r].stubs = posts[r].stubs
          /\ posts'[r].chunks = posts[r].chunks
      BY ZenonT(40), <1>2, <2>3, <3>2 DEF OnlyRow, PostRow
    <3>4. ASSUME r \notin stolen PROVE ClaimInv(r)' /\ Indexed(r)'
      <4>1. \A x \in Workers : enricher'[x].row # r
        BY <1>2, <1>3, <3>1, <3>4 DEF OnlyWorker
      <4>2. posts'[r].text = "page" /\ posts'[r].stubs = 0 /\ posts'[r].chunks = Pieces
        BY <1>3, <2>1, <3>3, <3>4
      <4> QED
        BY <4>1, <4>2 DEF ClaimInv, Indexed
    <3> QED
      BY <1>1, <1>2, <3>1, <3>3, <3>4, WorkerStep
  <2> QED
    BY <1>6, <2>2, <2>3 DEF CompleteEnrich
<1>7. CASE ClassifyEnrichFailure(w)
  <2>1. Rest(w)
    BY <1>7 DEF ClassifyEnrichFailure
  <2>2. CASE posts' = posts
    BY <1>1, <1>2, <2>1, <2>2, RestKeeps
  <2>3. ASSUME NEW st \in {"skip", "failed"}, NEW wait \in 0..LongRounds,
               posts' = [posts EXCEPT ![r].st = st, ![r].wait = wait]
        PROVE  EnrichInv'
    <3>1. OnlyWorker(w) /\ WorkerInv(w)' /\ enricher'[w].row = 0
      BY <2>1, RestMoves
    <3>2. [posts[r] EXCEPT !.st = st, !.wait = wait] \in PostRow
      BY <1>2 DEF PostRow
    <3>3. OnlyRow(r) /\ posts'[r].st = st
      BY <1>2, <2>3, <3>2 DEF OnlyRow, PostRow
    <3>4. ASSUME r \notin stolen PROVE ClaimInv(r)' /\ Indexed(r)'
      <4>1. \A x \in Workers : enricher'[x].row # r
        BY <1>2, <1>3, <3>1, <3>4 DEF OnlyWorker
      <4> QED
        BY <3>3, <4>1 DEF ClaimInv, Indexed
    <3> QED
      BY <1>1, <1>2, <3>1, <3>3, <3>4, WorkerStep
  <2>4. Backoff(enricher[w].page) \in 0..LongRounds /\ 0 \in 0..LongRounds
    BY EnrichAssumption DEF Backoff
  <2> QED
    BY <1>7, <2>2, <2>3, <2>4 DEF ClassifyEnrichFailure
<1> QED
  BY <1>4, <1>5, <1>6, <1>7

\* A process ends, whatever it was doing: its claims stay behind.
LEMMA EndKeeps ==
    ASSUME EnrichInv, NEW ws \in SUBSET Workers,
           enricher' = [w \in Workers |-> IF w \in ws THEN Off ELSE enricher[w]],
           posts' = posts, stolen' = stolen, Beside
    PROVE  EnrichInv'
<1>1. Off \in Enricher /\ Off.row = 0 /\ Off.pc = "off"
  BY DEF Off, Enricher, Calm
<1>2. EnrichTypes'
  BY <1>1 DEF EnrichInv, EnrichTypes, Beside
<1>3. \A x \in Workers : WorkerInv(x)'
  <2> SUFFICES ASSUME NEW x \in Workers PROVE WorkerInv(x)'
    OBVIOUS
  <2>1. CASE x \in ws
    BY <1>1, <2>1 DEF WorkerInv, Busy
  <2>2. CASE x \notin ws
    BY <2>2 DEF EnrichInv, WorkerInv
  <2> QED
    BY <2>1, <2>2
<1>4. ASSUME NEW s \in Posts \ stolen PROVE ClaimInv(s)' /\ Indexed(s)'
  <2>1. ClaimInv(s) /\ Indexed(s) /\ posts'[s] = posts[s] /\ s # 0
    BY <1>4, EnrichAssumption DEF EnrichInv, OkRowIsIndexed
  <2>2. \A x \in Workers : enricher'[x].row = s => enricher'[x] = enricher[x]
    BY <1>1, <2>1
  <2> QED
    BY <2>1, <2>2, RowKept
<1> QED
  BY <1>2, <1>3, <1>4 DEF EnrichInv, OkRowIsIndexed

\* A row with another text and other chunks.
LEMMA RowReplaced ==
    ASSUME NEW p \in PostRow, NEW n \in Nat
    PROVE  /\ [p EXCEPT !.text = "page", !.stubs = 0, !.chunks = n] \in PostRow
           /\ [p EXCEPT !.text = "page", !.stubs = 0, !.chunks = n].st = p.st
           /\ [p EXCEPT !.text = "page", !.stubs = 0, !.chunks = n].text = "page"
           /\ [p EXCEPT !.text = "page", !.stubs = 0, !.chunks = n].stubs = 0
           /\ [p EXCEPT !.text = "page", !.stubs = 0, !.chunks = n].chunks = n
<1>1. 0 \in 0..1
  OBVIOUS
<1>2. [p EXCEPT !.text = "page", !.stubs = 0, !.chunks = n] \in PostRow
  BY <1>1 DEF PostRow
<1>3. [p EXCEPT !.text = "page", !.stubs = 0, !.chunks = n].st = p.st
  BY DEF PostRow
<1>4. [p EXCEPT !.text = "page", !.stubs = 0, !.chunks = n].text = "page"
  BY DEF PostRow
<1>5. [p EXCEPT !.text = "page", !.stubs = 0, !.chunks = n].stubs = 0
  BY DEF PostRow
<1>6. [p EXCEPT !.text = "page", !.stubs = 0, !.chunks = n].chunks = n
  BY DEF PostRow
<1> QED
  BY <1>2, <1>3, <1>4, <1>5, <1>6

\* /ingest puts text and chunks into a row at once, and is counted against the row when
\* a worker is embedding.
LEMMA IngestKeeps ==
    ASSUME EnrichInv, NEW r \in Posts, IngestPost(r)
    PROVE  EnrichInv'
<1>1. posts[r] \in PostRow /\ Pieces \in Nat
  BY DEF EnrichInv, EnrichTypes, Pieces
<1>2. PICK new \in PostRow :
          /\ new = [posts[r] EXCEPT !.text = "page", !.stubs = 0, !.chunks = Pieces]
          /\ new.st = posts[r].st /\ new.text = "page" /\ new.stubs = 0 /\ new.chunks = Pieces
  BY <1>1, RowReplaced
<1>3. posts' = [posts EXCEPT ![r] = new]
  BY <1>2 DEF IngestPost
<1>4. enricher' = enricher /\ stolen \subseteq stolen' /\ stolen' \subseteq Posts
  BY DEF IngestPost, EnrichInv, EnrichTypes
<1>5. EnrichTypes'
  BY <1>2, <1>3, <1>4 DEF EnrichInv, EnrichTypes, IngestPost
<1>6. \A w \in Workers : WorkerInv(w)'
  BY <1>4 DEF EnrichInv, WorkerInv
<1>7. ASSUME NEW s \in Posts \ stolen' PROVE ClaimInv(s)' /\ Indexed(s)'
  <2>1. ClaimInv(s) /\ Indexed(s) /\ s \in Posts
    BY <1>4, <1>7 DEF EnrichInv, OkRowIsIndexed
  <2>2. CASE s # r
    <3>1. posts'[s] = posts[s]
      BY <1>3, <2>2, <2>1 DEF EnrichInv, EnrichTypes
    <3> QED
      BY <1>4, <2>1, <3>1 DEF ClaimInv, Indexed
  <2>3. CASE s = r
    <3>1. posts'[s] = new
      BY <1>3, <2>3, <2>1 DEF EnrichInv, EnrichTypes
    <3>2. \A w \in Workers : enricher[w].row = r => enricher[w].pc \notin {"embed", "complete"}
      BY <1>7, <2>3 DEF IngestPost
    <3>3. Indexed(s)'
      BY <1>2, <3>1 DEF Indexed
    <3>4. ClaimInv(s)'
      BY <1>2, <1>4, <2>1, <2>3, <3>1, <3>2 DEF ClaimInv
    <3> QED
      BY <3>3, <3>4
  <2> QED
    BY <2>2, <2>3
<1> QED
  BY <1>5, <1>6, <1>7 DEF EnrichInv, OkRowIsIndexed

\* The invariant holds at the start,
LEMMA EnrichInitInv == EnrichInit => EnrichInv
<1> SUFFICES ASSUME EnrichInit PROVE EnrichInv
  OBVIOUS
<1>1. Off \in Enricher /\ Off.row = 0 /\ Off.pc = "off"
  BY DEF Off, Enricher, Calm
<1>2. \A r \in Posts : posts[r] \in PostRow /\ posts[r].st = "none"
  BY EnrichAssumption DEF EnrichInit, PostRow
<1>3. EnrichTypes
  BY <1>1, <1>2 DEF EnrichInit, EnrichTypes
<1>4. \A w \in Workers : WorkerInv(w) /\ enricher[w].row = 0
  BY <1>1 DEF EnrichInit, WorkerInv, Busy
<1>5. \A r \in Posts : r # 0
  BY EnrichAssumption
<1> QED
  BY <1>2, <1>3, <1>4, <1>5 DEF EnrichInv, ClaimInv, Indexed, OkRowIsIndexed

\* and every step keeps it.
LEMMA EnrichStepInv == EnrichInv /\ [EnrichNext]_enrichVars => EnrichInv'
<1> SUFFICES ASSUME EnrichInv, [EnrichNext]_enrichVars PROVE EnrichInv'
  OBVIOUS
<1>1. Drips \subseteq Workers /\ Manuals \subseteq Workers
  BY DEF Workers
<1>2. ASSUME NEW d \in Drips, DripStep(d) PROVE EnrichInv'
  BY <1>2, DripKeeps
<1>3. ASSUME NEW w \in Manuals, NEW r \in Posts, UpsertManualEnrichSource(w, r) PROVE EnrichInv'
  BY <1>1, <1>3, ManualKeeps
<1>4. ASSUME NEW w \in Workers, EnrichStep(w) \/ StepFails(w) \/ FailureIsLost(w) PROVE EnrichInv'
  BY <1>4, ManualKeeps, ReadKeeps, ApplyKeeps DEF EnrichStep
<1>5. ASSUME NEW d \in Drips, DripFails(d) PROVE EnrichInv'
  <2>1. enricher' = [w \in Workers |-> IF w \in {d} THEN Off ELSE enricher[w]]
    BY <1>5 DEF DripFails, Exit, EnrichInv, EnrichTypes
  <2>2. posts' = posts /\ stolen' = stolen /\ Beside
    BY <1>5 DEF DripFails, Exit, Beside, EnrichInv, EnrichTypes
  <2> QED
    BY <1>1, <2>1, <2>2, EndKeeps
<1>6. ASSUME NEW ws \in SUBSET Workers, EnrichCrash(ws) PROVE EnrichInv'
  BY <1>6, EndKeeps DEF EnrichCrash, Beside, EnrichInv, EnrichTypes
<1>7. ASSUME NEW r \in Posts, ClaimAges(r) \/ Suspend(r) PROVE EnrichInv'
  BY <1>7
     DEF ClaimAges, Suspend, EnrichInv, EnrichTypes, WorkerInv, ClaimInv, Indexed, OkRowIsIndexed
<1>8. ASSUME NEW r \in Posts, IngestPost(r) PROVE EnrichInv'
  BY <1>8, IngestKeeps
<1>9. CASE UNCHANGED enrichVars
  BY <1>9 DEF enrichVars, EnrichInv, EnrichTypes, WorkerInv, ClaimInv, Indexed, OkRowIsIndexed
<1>10. \A d \in Drips : {d} \in SUBSET Workers
  BY <1>1
<1>11. Manuals \in SUBSET Workers
  BY <1>1
<1> QED
  BY <1>2, <1>3, <1>4, <1>5, <1>6, <1>7, <1>8, <1>9, <1>10, <1>11 DEF EnrichNext

\* Types, the workers, and the claim: as long as nobody takes it away, one worker has a
\* row, which stays in_flight and holds the pieces that worker has counted.
THEOREM EnrichInvHolds == EnrichSpec => []EnrichInv
  BY EnrichInitInv, EnrichStepInv, PTL DEF EnrichSpec

\* apply_text and complete_enrich: an ok row whose claim was not taken away can be found
\* by every piece of its text and by nothing else, whatever failed or was killed before.
THEOREM OkRowIsIndexedHolds == EnrichSpec => []OkRowIsIndexed
<1>1. EnrichInv => OkRowIsIndexed
  BY DEF EnrichInv
<1> QED
  BY <1>1, EnrichInvHolds, PTL

-------------------------------------------------------------------------------
(* Export and import *)

Past(e) == e.asked \ (e.todo \cup e.ready)

\* What a step owes about the rows it leaves: they are rows, with keys of their own, can
\* be found, and no entry has gone.
RowsOwed ==
    /\ corpus' \subseteq CorpusRow /\ torn' \in BOOLEAN
    /\ KeysAreUnique' /\ RowsAreFound'
    /\ \A i \in Entries : Arrived(i) => Arrived(i)'

\* A step that leaves the rows alone owes nothing.
LEMMA RowsKept ==
    ASSUME CorpusInv, corpus' = corpus, torn' = torn
    PROVE  RowsOwed
  BY DEF CorpusInv, ImportTypes, RowsOwed, KeysAreUnique, RowsAreFound, Arrived, SameKey

\* A start is counted, a failure is not.
LEMMA OpCounts ==
    ASSUME CorpusInv, Op \/ UNCHANGED importOps PROVE importOps' \in 0..MaxImports
  BY ImportAssumption DEF CorpusInv, ImportTypes, Op

\* A step of one import.
LEMMA ImportMoves ==
    ASSUME CorpusInv, RowsOwed, NEW t \in Importers, NEW e \in Importer,
           importer' = [importer EXCEPT ![t] = e], ingester' = ingester,
           importOps' \in 0..MaxImports, wipedUnder' \in {wipedUnder, wipedUnder \ {t}},
           e.pc = "embed" => e.item \in Entries,
           t \notin wipedUnder' => \A i \in Past(e) : Arrived(i)'
    PROVE  CorpusInv'
<1>1. ImportTypes'
  BY DEF CorpusInv, ImportTypes, RowsOwed
<1>2. Underway'
  BY DEF CorpusInv, ImportTypes, Underway
<1>3. ASSUME NEW u \in Importers, u \notin wipedUnder', NEW i \in Past(importer'[u])
      PROVE  Arrived(i)'
  <2>1. CASE u = t
    BY <1>3, <2>1 DEF CorpusInv, ImportTypes
  <2>2. CASE u # t
    <3>1. u \notin wipedUnder /\ importer'[u] = importer[u] /\ importer[u] \in Importer
      BY <1>3, <2>2 DEF CorpusInv, ImportTypes
    <3>2. i \in Entries /\ i \in importer[u].asked \ (importer[u].todo \cup importer[u].ready)
      BY <1>3, <3>1 DEF Past, Importer
    <3>3. Arrived(i)
      BY <3>1, <3>2 DEF CorpusInv, EntriesArrive
    <3> QED
      BY <3>2, <3>3 DEF RowsOwed
  <2> QED
    BY <2>1, <2>2
<1>4. EntriesArrive'
  BY <1>3 DEF EntriesArrive, Past
<1> QED
  BY <1>1, <1>2, <1>4 DEF CorpusInv, RowsOwed

\* A step of one /ingest.
LEMMA IngestMoves ==
    ASSUME CorpusInv, RowsOwed, NEW g \in Ingests, NEW e \in Ingester,
           ingester' = [ingester EXCEPT ![g] = e], importer' = importer,
           importOps' \in 0..MaxImports, wipedUnder' = wipedUnder,
           e.pc # "off" => e.url \in Addresses,
           e.pc = "embed" => e.page \in PageTexts
    PROVE  CorpusInv'
<1>1. ImportTypes'
  BY DEF CorpusInv, ImportTypes, RowsOwed
<1>2. Underway'
  BY DEF CorpusInv, ImportTypes, Underway
<1>3. ASSUME NEW u \in Importers \ wipedUnder, NEW i \in Past(importer[u]) PROVE Arrived(i)'
  <2>1. Arrived(i) /\ i \in Entries
    BY <1>3 DEF CorpusInv, EntriesArrive, ImportTypes, Importer, Past
  <2> QED
    BY <2>1 DEF RowsOwed
<1>4. EntriesArrive'
  BY <1>3 DEF EntriesArrive, Past
<1> QED
  BY <1>1, <1>2, <1>4 DEF CorpusInv, RowsOwed

\* The two idle records.
LEMMA IdleRecords ==
    /\ Quiet \in Importer /\ Quiet.pc = "off" /\ Past(Quiet) = {}
    /\ NoIngest \in Ingester /\ NoIngest.pc = "off"
<1>1. Quiet \in Importer /\ Quiet.pc = "off" /\ Past(Quiet) = {}
  BY DEF Quiet, Importer, Past
<1>2. NoIngest \in Ingester /\ NoIngest.pc = "off"
  BY DEF NoIngest, Ingester, TransientHttpAttempts
<1> QED
  BY <1>1, <1>2

\* The rows of the entries is, put beside the others if their keys are new.
LEMMA InsertOwed ==
    ASSUME CorpusInv, NEW is \in SUBSET Entries, InsertEntries(is), torn' = torn
    PROVE  RowsOwed /\ \A i \in is : Arrived(i)'
<1>1. \A i \in Entries : /\ ItemRow(i) \in CorpusRow /\ ItemRow(i).item = i
                         /\ ItemRow(i).title = "own" /\ ItemRow(i).found = ItemRow(i).text
  BY DEF ItemRow, CorpusRow
<1>2. corpus' = corpus \cup {ItemRow(i) : i \in {j \in is : ~SourceExists(j)}}
  BY DEF InsertEntries
<1>3. corpus' \subseteq CorpusRow /\ torn' \in BOOLEAN
  BY <1>1, <1>2 DEF CorpusInv, ImportTypes
<1>4. ASSUME NEW r \in corpus', NEW s \in corpus', SameKey(r, s) PROVE r = s
  BY <1>1, <1>2, <1>4 DEF CorpusInv, KeysAreUnique, SameKey, SourceExists
<1>5. RowsAreFound'
  BY <1>1, <1>2 DEF CorpusInv, RowsAreFound
<1>6. \A i \in Entries : Arrived(i) => Arrived(i)'
  BY <1>2 DEF Arrived
<1>7. ASSUME NEW i \in is PROVE Arrived(i)'
  <2>1. CASE SourceExists(i)
    BY <1>1, <1>2, <2>1 DEF SourceExists, SameKey, Arrived
  <2>2. CASE ~SourceExists(i)
    BY <1>1, <1>2, <2>2 DEF Arrived
  <2> QED
    BY <2>1, <2>2
<1> QED
  BY <1>3, <1>4, <1>5, <1>6, <1>7 DEF RowsOwed, KeysAreUnique

\* The invariant holds at the start,
LEMMA ImportInitInv == ImportInit => CorpusInv
<1> SUFFICES ASSUME ImportInit PROVE CorpusInv
  OBVIOUS
<1>1. importer \in [Importers -> Importer] /\ ingester \in [Ingests -> Ingester]
  BY IdleRecords DEF ImportInit
<1>2. importOps \in 0..MaxImports
  BY ImportAssumption DEF ImportInit
<1>3. ImportTypes
  BY <1>1, <1>2 DEF ImportTypes, ImportInit
<1>4. Underway
  BY IdleRecords DEF ImportInit, Underway
<1>5. KeysAreUnique /\ RowsAreFound
  BY DEF ImportInit, KeysAreUnique, RowsAreFound
<1>6. EntriesArrive
  BY IdleRecords DEF ImportInit, EntriesArrive, Past
<1> QED
  BY <1>3, <1>4, <1>5, <1>6 DEF CorpusInv

\* An import over the entries is.
LEMMA GivenEntries ==
    ASSUME NEW is \in SUBSET Entries
    PROVE  Given(is) \in Importer /\ Given(is).pc = "next" /\ Past(Given(is)) = {}
<1>1. Given(is) \in Importer
  BY DEF Given, Quiet, Importer
<1>2. Given(is).pc = "next" /\ Past(Given(is)) = {}
  BY DEF Given, Quiet, Past
<1> QED
  BY <1>1, <1>2

\* What the records of the imports hold.
LEMMA ImporterHas ==
    ASSUME CorpusInv, NEW t \in Importers
    PROVE  /\ importer \in [Importers -> Importer] /\ importer[t] \in Importer
           /\ importOps \in 0..MaxImports
           /\ importer[t].pc = "embed" => importer[t].item \in Entries
           /\ t \notin wipedUnder => \A i \in Past(importer[t]) : Arrived(i) /\ i \in Entries
  BY DEF CorpusInv, ImportTypes, Underway, EntriesArrive, Past, Importer

\* each step keeps it: import-linkedin-export starts,
LEMMA StartImportKeeps ==
    ASSUME CorpusInv, NEW t \in Importers, StartImport(t) PROVE CorpusInv'
<1>1. importer' = [importer EXCEPT ![t] = Given(Entries)]
  BY DEF StartImport
<1>2. RowsOwed /\ importOps' \in 0..MaxImports
  BY RowsKept, OpCounts DEF StartImport
<1>3. ingester' = ingester /\ wipedUnder' \in {wipedUnder, wipedUnder \ {t}}
  BY DEF StartImport
<1> QED
  BY <1>1, <1>2, <1>3, GivenEntries, ImportMoves

\* an import passes one entry over, or begins it,
LEMMA CheckItemKeeps ==
    ASSUME CorpusInv, NEW t \in Importers, CheckItem(t) PROVE CorpusInv'
<1>1. RowsOwed /\ ingester' = ingester /\ wipedUnder' = wipedUnder /\ importOps' \in 0..MaxImports
  BY RowsKept, ImporterHas DEF CheckItem
<1>2. PICK i \in importer[t].todo :
        importer' = IF SourceExists(i)
                    THEN [importer EXCEPT ![t].todo = @ \ {i}]
                    ELSE [importer EXCEPT ![t].pc = "embed", ![t].item = i]
  BY DEF CheckItem
<1>3. importer[t].pc = "next" /\ i \in Entries
  BY ImporterHas DEF CheckItem, Doing, Importer
<1>4. CASE SourceExists(i)
  <2>1. PICK e : e = [importer[t] EXCEPT !.todo = @ \ {i}]
    OBVIOUS
  <2>2. e \in Importer /\ e.pc = "next" /\ Past(e) \subseteq Past(importer[t]) \cup {i}
    BY <1>3, <2>1, ImporterHas DEF Importer, Past
  <2>3. importer' = [importer EXCEPT ![t] = e]
    BY <1>2, <1>4, <2>1, ImporterHas
  <2>4. Arrived(i)
    BY <1>4 DEF SourceExists, Arrived, SameKey, ItemRow
  <2>5. ASSUME t \notin wipedUnder', NEW j \in Past(e) PROVE Arrived(j)'
    BY <1>1, <1>3, <2>2, <2>4, <2>5, ImporterHas DEF RowsOwed
  <2> QED
    BY <1>1, <2>2, <2>3, <2>5, ImportMoves
<1>5. CASE ~SourceExists(i)
  <2>1. PICK e : e = [importer[t] EXCEPT !.pc = "embed", !.item = i]
    OBVIOUS
  <2>2. e \in Importer /\ e.item = i /\ Past(e) = Past(importer[t])
    BY <1>3, <2>1, ImporterHas DEF Importer, Past
  <2>3. importer' = [importer EXCEPT ![t] = e]
    BY <1>2, <1>5, <2>1, ImporterHas
  <2>4. ASSUME t \notin wipedUnder', NEW j \in Past(e) PROVE Arrived(j)'
    BY <1>1, <2>2, <2>4, ImporterHas DEF RowsOwed
  <2> QED
    BY <1>1, <1>3, <2>2, <2>3, <2>4, ImportMoves
<1> QED
  BY <1>4, <1>5

\* keeps it for the end,
LEMMA EmbedItemKeeps ==
    ASSUME CorpusInv, NEW t \in Importers, EmbedItem(t) PROVE CorpusInv'
<1>1. RowsOwed /\ ingester' = ingester /\ wipedUnder' = wipedUnder /\ importOps' \in 0..MaxImports
  BY RowsKept, ImporterHas DEF EmbedItem
<1>2. PICK i \in Entries : i = importer[t].item
  BY ImporterHas DEF EmbedItem, Doing
<1>3. PICK e : e = [importer[t] EXCEPT !.pc = "next", !.item = NoItem,
                                       !.todo = @ \ {i}, !.ready = @ \cup {i}]
  OBVIOUS
<1>4. e \in Importer /\ e.pc = "next" /\ Past(e) \subseteq Past(importer[t])
  BY ZenonT(40), <1>2, <1>3, ImporterHas DEF Importer, Past
<1>5. importer' = [importer EXCEPT ![t] = e]
  BY <1>2, <1>3, ImporterHas DEF EmbedItem
<1>6. ASSUME t \notin wipedUnder', NEW j \in Past(e) PROVE Arrived(j)'
  BY <1>1, <1>4, <1>6, ImporterHas DEF RowsOwed
<1> QED
  BY <1>1, <1>4, <1>5, <1>6, ImportMoves

\* stores it,
LEMMA StoreItemKeeps ==
    ASSUME CorpusInv, NEW t \in Importers, StoreItem(t) PROVE CorpusInv'
<1>1. /\ ingester' = ingester /\ wipedUnder' = wipedUnder
      /\ importOps' \in 0..MaxImports /\ torn' = torn
  BY ImporterHas DEF StoreItem
<1>2. PICK i \in Entries : i = importer[t].item
  BY ImporterHas DEF StoreItem, Doing
<1>3. InsertEntries({i}) /\ {i} \in SUBSET Entries
  BY <1>2 DEF StoreItem
<1>4. RowsOwed /\ Arrived(i)'
  BY <1>1, <1>3, InsertOwed
<1>5. PICK e : e = [importer[t] EXCEPT !.pc = "next", !.item = NoItem, !.todo = @ \ {i}]
  OBVIOUS
<1>6. e \in Importer /\ e.pc = "next" /\ Past(e) \subseteq Past(importer[t]) \cup {i}
  BY ZenonT(40), <1>2, <1>5, ImporterHas DEF Importer, Past
<1>7. importer' = [importer EXCEPT ![t] = e]
  BY <1>2, <1>5, ImporterHas DEF StoreItem
<1>8. ASSUME t \notin wipedUnder', NEW j \in Past(e) PROVE Arrived(j)'
  BY <1>1, <1>4, <1>6, <1>8, ImporterHas DEF RowsOwed
<1> QED
  BY <1>1, <1>4, <1>6, <1>7, <1>8, ImportMoves

\* stores what it kept until the end,
LEMMA StoreExportItemsKeeps ==
    ASSUME CorpusInv, NEW t \in Importers, StoreExportItems(t) PROVE CorpusInv'
<1>1. /\ ingester' = ingester /\ wipedUnder' = wipedUnder
      /\ importOps' \in 0..MaxImports /\ torn' = torn
  BY ImporterHas DEF StoreExportItems
<1>2. PICK is \in SUBSET Entries : is = importer[t].ready
  BY ImporterHas DEF Importer
<1>3. RowsOwed /\ \A i \in is : Arrived(i)'
  BY <1>1, <1>2, InsertOwed DEF StoreExportItems
<1>4. PICK e : e = [importer[t] EXCEPT !.pc = "done", !.ready = {}]
  OBVIOUS
<1>5. e \in Importer /\ e.pc = "done" /\ Past(e) \subseteq Past(importer[t]) \cup is
  BY <1>2, <1>4, ImporterHas DEF Importer, Past
<1>6. importer' = [importer EXCEPT ![t] = e]
  BY <1>4, ImporterHas DEF StoreExportItems
<1>7. ASSUME t \notin wipedUnder', NEW j \in Past(e) PROVE Arrived(j)'
  BY <1>1, <1>3, <1>5, <1>7, ImporterHas DEF RowsOwed
<1> QED
  BY <1>1, <1>3, <1>5, <1>6, <1>7, ImportMoves

\* ends, by its report, an error or a crash of its process;
LEMMA ImportEndsKeeps ==
    ASSUME CorpusInv, NEW t \in Importers, ReportImport(t) \/ ImportFails(t) \/ BinaryCrashes(t)
    PROVE  CorpusInv'
<1>1. corpus' = corpus /\ torn' = torn /\ ingester' = ingester /\ wipedUnder' = wipedUnder
  BY DEF ReportImport, ImportFails, BinaryCrashes
<1>2. importOps' \in 0..MaxImports
  BY OpCounts, ImporterHas DEF ReportImport, ImportFails, BinaryCrashes, ImportFault
<1>3. importer' = [importer EXCEPT ![t] = Quiet]
  BY DEF ReportImport, ImportFails, BinaryCrashes, ImportEnds
<1> QED
  BY <1>1, <1>2, <1>3, RowsKept, IdleRecords, ImportMoves

\* A row without its chunks is the same row.
LEMMA WithoutChunks ==
    ASSUME NEW r \in CorpusRow
    PROVE  /\ [r EXCEPT !.found = "none"] \in CorpusRow
           /\ [r EXCEPT !.found = "none"].item = r.item
           /\ [r EXCEPT !.found = "none"].title = r.title
           /\ [r EXCEPT !.found = "none"].found = "none"
<1>1. [r EXCEPT !.found = "none"] \in CorpusRow
  BY DEF CorpusRow
<1>2. [r EXCEPT !.found = "none"].item = r.item
  BY DEF CorpusRow
<1>3. [r EXCEPT !.found = "none"].title = r.title
  BY DEF CorpusRow
<1>4. [r EXCEPT !.found = "none"].found = "none"
  BY DEF CorpusRow
<1> QED
  BY <1>1, <1>2, <1>3, <1>4

\* a wipe deletes the chunks,
LEMMA DeleteChunksKeeps ==
    ASSUME CorpusInv, NEW t \in Importers, DeleteChunksOfAll(t) PROVE CorpusInv'
<1>1. /\ ingester' = ingester /\ wipedUnder' = wipedUnder \ {t}
      /\ importOps' \in 0..MaxImports /\ torn' = TRUE
  BY OpCounts DEF DeleteChunksOfAll
<1>2. corpus' = {[r EXCEPT !.found = "none"] : r \in corpus} /\ corpus \subseteq CorpusRow
  BY DEF DeleteChunksOfAll, CorpusInv, ImportTypes
<1>3. \A r \in CorpusRow : /\ [r EXCEPT !.found = "none"] \in CorpusRow
                           /\ [r EXCEPT !.found = "none"].item = r.item
                           /\ [r EXCEPT !.found = "none"].title = r.title
                           /\ [r EXCEPT !.found = "none"].found = "none"
  BY WithoutChunks
<1>4. RowsOwed
  <2>1. corpus' \subseteq CorpusRow /\ torn' \in BOOLEAN
    BY <1>1, <1>2, <1>3
  <2>2. ASSUME NEW r \in corpus', NEW s \in corpus', SameKey(r, s) PROVE r = s
    <3>1. PICK q \in corpus, p \in corpus : r = [q EXCEPT !.found = "none"]
                                         /\ s = [p EXCEPT !.found = "none"]
      BY <1>2, <2>2
    <3>2. q \in CorpusRow /\ p \in CorpusRow
      BY <1>2
    <3>3. SameKey(q, p)
      BY <1>3, <2>2, <3>1, <3>2 DEF SameKey
    <3> QED
      BY <3>1, <3>3 DEF CorpusInv, KeysAreUnique
  <2>3. ASSUME NEW r \in corpus' PROVE r.found = "none"
    <3>1. PICK q \in corpus : r = [q EXCEPT !.found = "none"]
      BY <1>2, <2>3
    <3> QED
      BY <1>2, <1>3, <3>1
  <2>4. \A i \in Entries : Arrived(i) => Arrived(i)'
    BY <1>2, <1>3 DEF Arrived
  <2> QED
    BY <1>1, <2>1, <2>2, <2>3, <2>4 DEF RowsOwed, KeysAreUnique, RowsAreFound
<1>5. PICK e : e = [Quiet EXCEPT !.pc = "wiping"]
  OBVIOUS
<1>6. importer' = [importer EXCEPT ![t] = e]
  BY <1>5 DEF DeleteChunksOfAll
<1>7. e \in Importer
  BY <1>5 DEF Quiet, Importer
<1>8. e.pc = "wiping" /\ Past(e) = {}
  BY <1>5 DEF Quiet, Past
<1> QED
  BY <1>1, <1>4, <1>6, <1>7, <1>8, ImportMoves

\* and the rows, which leaves the other imports nothing to show,
LEMMA DeleteSourcesKeeps ==
    ASSUME CorpusInv, NEW t \in Importers, DeleteSources(t) PROVE CorpusInv'
<1>1. CASE \E r \in corpus : r.found # "none"
  <2>1. RowsOwed /\ ingester' = ingester /\ wipedUnder' = wipedUnder /\ importOps' \in 0..MaxImports
    BY <1>1, RowsKept, ImporterHas DEF DeleteSources
  <2>2. importer' = [importer EXCEPT ![t] = Quiet]
    BY <1>1 DEF DeleteSources, ImportEnds
  <2> QED
    BY <2>1, <2>2, IdleRecords, ImportMoves
<1>2. CASE ~\E r \in corpus : r.found # "none"
  <2>1. /\ corpus' = {} /\ torn' = FALSE /\ ingester' = ingester /\ importOps' = importOps
        /\ importer' = [importer EXCEPT ![t] = Given(Entries)]
        /\ wipedUnder' = Importers \ {t}
    BY <1>2 DEF DeleteSources
  <2>2. Given(Entries) \in Importer /\ Given(Entries).pc = "next" /\ Past(Given(Entries)) = {}
    BY GivenEntries
  <2>3. ImportTypes'
    BY <2>1, <2>2 DEF CorpusInv, ImportTypes
  <2>4. Underway'
    BY <2>1, <2>2 DEF CorpusInv, ImportTypes, Underway
  <2>5. KeysAreUnique' /\ RowsAreFound'
    BY <2>1 DEF KeysAreUnique, RowsAreFound
  <2>6. ASSUME NEW u \in Importers, u \notin wipedUnder' PROVE Past(importer'[u]) = {}
    BY <2>1, <2>2, <2>6, ImporterHas
  <2>7. EntriesArrive'
    BY <2>6 DEF EntriesArrive, Past
  <2> QED
    BY <2>3, <2>4, <2>5, <2>7 DEF CorpusInv
<1> QED
  BY <1>1, <1>2

\* an /ingest starts,
LEMMA StartIngestKeeps ==
    ASSUME CorpusInv, NEW g \in Ingests, NEW u \in Addresses, StartIngest(g, u) PROVE CorpusInv'
<1>1. RowsOwed /\ importer' = importer /\ wipedUnder' = wipedUnder /\ importOps' \in 0..MaxImports
  BY RowsKept, OpCounts DEF StartIngest
<1>2. PICK e : e = [NoIngest EXCEPT !.pc = "get", !.url = u, !.tries = 1]
  OBVIOUS
<1>3. ingester' = [ingester EXCEPT ![g] = e]
  BY <1>2 DEF StartIngest
<1>4. 1 \in 0..TransientHttpAttempts
  BY DEF TransientHttpAttempts
<1>5. e \in Ingester /\ e.pc = "get" /\ e.url = u
  BY <1>2, <1>4, IdleRecords DEF Ingester
<1> QED
  BY <1>1, <1>3, <1>5, IngestMoves

\* What the records of the commands hold.
LEMMA IngesterHas ==
    ASSUME CorpusInv, NEW g \in Ingests
    PROVE  /\ ingester \in [Ingests -> Ingester] /\ ingester[g] \in Ingester
           /\ importOps \in 0..MaxImports
           /\ ingester[g].pc # "off" => ingester[g].url \in Addresses
           /\ ingester[g].pc = "embed" => ingester[g].page \in PageTexts
  BY DEF CorpusInv, ImportTypes, Underway

\* the command fetches,
LEMMA FetchKeeps ==
    ASSUME CorpusInv, NEW g \in Ingests, FetchPublicPage(g) PROVE CorpusInv'
<1>1. RowsOwed /\ importer' = importer /\ wipedUnder' = wipedUnder /\ importOps' \in 0..MaxImports
  BY RowsKept, IngesterHas DEF FetchPublicPage
<1>2. /\ ingester[g].pc = "get" /\ ingester[g].url \in Addresses
      /\ ingester \in [Ingests -> Ingester] /\ ingester[g] \in Ingester
  BY IngesterHas DEF FetchPublicPage, Ingesting
<1>3. ASSUME NEW page \in PageKinds,
             ingester' = [ingester EXCEPT ![g].pc = IF page = "full" THEN "embed" ELSE "browse",
                                          ![g].page = page]
      PROVE  CorpusInv'
  <2>1. PICK pc \in {"embed", "browse"} : pc = IF page = "full" THEN "embed" ELSE "browse"
    OBVIOUS
  <2>2. pc = "embed" => page \in PageTexts
    BY <2>1 DEF PageTexts
  <2>3. PICK e : e = [ingester[g] EXCEPT !.pc = pc, !.page = page]
    OBVIOUS
  <2>4. e \in Ingester /\ e.pc = pc /\ e.url = ingester[g].url /\ e.page = page
    BY <1>2, <2>3 DEF Ingester
  <2>5. ingester' = [ingester EXCEPT ![g] = e]
    BY <1>2, <1>3, <2>1, <2>3
  <2> QED
    BY <1>1, <1>2, <2>2, <2>4, <2>5, IngestMoves
<1>4. CASE /\ ingester[g].tries < TransientHttpAttempts
           /\ ingester' = [ingester EXCEPT ![g].tries = @ + 1]
  <2>1. PICK e : e = [ingester[g] EXCEPT !.tries = @ + 1]
    OBVIOUS
  <2>2. ingester[g].tries + 1 \in 0..TransientHttpAttempts
    BY <1>2, <1>4 DEF Ingester, TransientHttpAttempts
  <2>3. e \in Ingester /\ e.url = ingester[g].url /\ e.pc = "get"
    BY <1>2, <2>1, <2>2 DEF Ingester
  <2>4. ingester' = [ingester EXCEPT ![g] = e]
    BY <1>2, <1>4, <2>1
  <2> QED
    BY <1>1, <1>2, <2>3, <2>4, IngestMoves
<1>5. CASE ingester' = [ingester EXCEPT ![g].pc = "browse"]
  <2>1. PICK e : e = [ingester[g] EXCEPT !.pc = "browse"]
    OBVIOUS
  <2>2. e \in Ingester /\ e.url = ingester[g].url /\ e.pc = "browse"
    BY <1>2, <2>1 DEF Ingester
  <2>3. ingester' = [ingester EXCEPT ![g] = e]
    BY <1>2, <1>5, <2>1
  <2> QED
    BY <1>1, <1>2, <2>2, <2>3, IngestMoves
<1>6. CASE IngestEnds(g)
  BY <1>1, <1>6, IdleRecords, IngestMoves DEF IngestEnds
<1> QED
  BY <1>3, <1>4, <1>5, <1>6 DEF FetchPublicPage

\* looks at the page with a browser, and embeds it,
LEMMA BrowseKeeps ==
    ASSUME CorpusInv, NEW g \in Ingests, PublicPlaywright(g) PROVE CorpusInv'
<1>1. RowsOwed /\ importer' = importer /\ wipedUnder' = wipedUnder /\ importOps' \in 0..MaxImports
  BY RowsKept, IngesterHas DEF PublicPlaywright
<1>2. /\ ingester[g].pc = "browse" /\ ingester[g].url \in Addresses
      /\ ingester \in [Ingests -> Ingester] /\ ingester[g] \in Ingester
  BY IngesterHas DEF PublicPlaywright, Ingesting
<1>3. PICK page \in PageKinds \cup {NoPage} :
        ingester' = IF page \in {NoPage, "shell", "tiny"} THEN [ingester EXCEPT ![g] = NoIngest]
                    ELSE [ingester EXCEPT ![g].pc = "embed", ![g].page = page]
  <2>1. ingester[g].page \in PageKinds \cup {NoPage}
    BY <1>2 DEF Ingester
  <2> QED
    BY <2>1 DEF PublicPlaywright
<1>4. CASE page \in {NoPage, "shell", "tiny"}
  BY <1>1, <1>3, <1>4, IdleRecords, IngestMoves
<1>5. CASE page \notin {NoPage, "shell", "tiny"}
  <2>1. PICK e : e = [ingester[g] EXCEPT !.pc = "embed", !.page = page]
    OBVIOUS
  <2>2. page \in PageTexts
    BY <1>3, <1>5 DEF PageTexts
  <2>3. e \in Ingester /\ e.url = ingester[g].url /\ e.page = page
    BY <1>2, <1>3, <2>1 DEF Ingester
  <2>4. ingester' = [ingester EXCEPT ![g] = e]
    BY <1>2, <1>3, <1>5, <2>1
  <2> QED
    BY <1>1, <1>2, <2>2, <2>3, <2>4, IngestMoves
<1> QED
  BY <1>4, <1>5

\* fails,
LEMMA IngestFailsKeeps ==
    ASSUME CorpusInv, NEW g \in Ingests, IngestFails(g) PROVE CorpusInv'
<1>1. RowsOwed /\ importer' = importer /\ wipedUnder' = wipedUnder /\ importOps' \in 0..MaxImports
  BY RowsKept, OpCounts DEF IngestFails, ImportFault
<1> QED
  BY <1>1, IdleRecords, IngestMoves DEF IngestFails, IngestEnds

\* stores it, in place of a row with its address or beside the others,
LEMMA StoreIngestedKeeps ==
    ASSUME CorpusInv, NEW g \in Ingests, StoreIngested(g) PROVE CorpusInv'
<1>1. /\ importer' = importer /\ wipedUnder' = wipedUnder /\ torn' = torn
      /\ importOps' \in 0..MaxImports
      /\ ingester' = [ingester EXCEPT ![g] = NoIngest]
  BY IngesterHas DEF StoreIngested, IngestEnds
<1>2. PICK page \in PageTexts : page = ingester[g].page
  BY IngesterHas DEF StoreIngested, Ingesting
<1>3. PICK url \in Addresses : url = ingester[g].url
  BY IngesterHas DEF StoreIngested, Ingesting
<1>4. corpus \subseteq CorpusRow /\ torn \in BOOLEAN
  BY DEF CorpusInv, ImportTypes
<1>5. ASSUME NEW i \in Entries \cup Addresses, NEW new,
             new = [item |-> i, title |-> "page", text |-> page, found |-> page]
      PROVE  new \in CorpusRow /\ new.item = i /\ new.found = new.text
  BY <1>5 DEF CorpusRow
<1>6. ASSUME NEW r \in corpus, NEW new,
             new = [item |-> r.item, title |-> "page", text |-> page, found |-> page],
             corpus' = IF \E s \in corpus \ {r} : SameKey(s, new) THEN corpus
                       ELSE (corpus \ {r}) \cup {new}
      PROVE  RowsOwed
  <2>1. CASE \E s \in corpus \ {r} : SameKey(s, new)
    BY <1>1, <1>6, <2>1, RowsKept
  <2>2. CASE ~\E s \in corpus \ {r} : SameKey(s, new)
    <3>1. corpus' = (corpus \ {r}) \cup {new}
      BY <1>6, <2>2
    <3>2. r.item \in Entries \cup Addresses
      BY <1>4 DEF CorpusRow
    <3>3. new \in CorpusRow /\ new.item = r.item /\ new.found = new.text
      BY <1>5, <1>6, <3>2
    <3>4. corpus' \subseteq CorpusRow /\ torn' \in BOOLEAN
      BY <1>1, <1>4, <3>1, <3>3
    <3>5. KeysAreUnique'
      BY <2>2, <3>1 DEF CorpusInv, KeysAreUnique, SameKey
    <3>6. RowsAreFound'
      BY <1>1, <3>1, <3>3 DEF CorpusInv, RowsAreFound
    <3>7. \A i \in Entries : Arrived(i) => Arrived(i)'
      BY <3>1, <3>3 DEF Arrived
    <3> QED
      BY <3>4, <3>5, <3>6, <3>7 DEF RowsOwed
  <2> QED
    BY <2>1, <2>2
<1>7. ASSUME ~\E r \in corpus : RowAddress(r) = url, NEW new,
             new = [item |-> url, title |-> "page", text |-> page, found |-> page],
             corpus' = corpus \cup {new}
      PROVE  RowsOwed
  <2>1. new \in CorpusRow /\ new.item = url /\ new.found = new.text
    BY <1>5, <1>7
  <2>2. \A r \in corpus : r.item # url
    BY <1>7 DEF RowAddress
  <2>3. corpus' \subseteq CorpusRow /\ torn' \in BOOLEAN
    BY <1>1, <1>4, <1>7, <2>1
  <2>4. KeysAreUnique'
    BY <1>7, <2>1, <2>2 DEF CorpusInv, KeysAreUnique, SameKey
  <2>5. RowsAreFound'
    BY <1>1, <1>7, <2>1 DEF CorpusInv, RowsAreFound
  <2>6. \A i \in Entries : Arrived(i) => Arrived(i)'
    BY <1>7 DEF Arrived
  <2> QED
    BY <2>3, <2>4, <2>5, <2>6 DEF RowsOwed
<1>8. RowsOwed
  BY <1>2, <1>3, <1>6, <1>7 DEF StoreIngested
<1> QED
  BY <1>1, <1>8, IdleRecords, IngestMoves

\* and the main process starts, whatever it was doing.
LEMMA MainStartsKeeps == ASSUME CorpusInv, MainStarts PROVE CorpusInv'
<1>1. RowsOwed /\ wipedUnder' = wipedUnder \ Boots /\ importOps' \in 0..MaxImports
  BY RowsKept, OpCounts DEF MainStarts
<1>2. PICK given \in [Boots -> SUBSET Entries] :
        importer' = [t \in Importers |-> IF t \in Boots THEN Given(given[t]) ELSE importer[t]]
  BY DEF MainStarts
<1>3. ingester' = [g \in Ingests |-> NoIngest]
  BY DEF MainStarts
<1>4. ASSUME NEW t \in Boots
      PROVE  /\ Given(given[t]) \in Importer /\ Given(given[t]).pc = "next"
             /\ Past(Given(given[t])) = {}
  BY GivenEntries
<1>5. ImportTypes'
  <2>1. importer' \in [Importers -> Importer] /\ ingester' \in [Ingests -> Ingester]
    BY <1>2, <1>3, <1>4, IdleRecords, ImporterHas
  <2> QED
    BY <1>1, <2>1 DEF CorpusInv, ImportTypes, RowsOwed
<1>6. Underway'
  <2>1. ASSUME NEW t \in Importers, importer'[t].pc = "embed" PROVE importer'[t].item \in Entries
    BY <1>2, <1>4, <2>1, ImporterHas
  <2> QED
    BY <1>3, <2>1, IdleRecords DEF Underway
<1>7. ASSUME NEW t \in Importers, t \notin wipedUnder', NEW i \in Past(importer'[t])
      PROVE  Arrived(i)'
  <2>1. importer'[t] = importer[t] /\ t \notin wipedUnder
    BY <1>1, <1>2, <1>4, <1>7
  <2> QED
    BY <1>1, <1>7, <2>1, ImporterHas DEF RowsOwed
<1>8. EntriesArrive'
  BY <1>7 DEF EntriesArrive, Past
<1> QED
  BY <1>1, <1>5, <1>6, <1>8 DEF CorpusInv, RowsOwed

\* So every step keeps it.
LEMMA ImportStepInv == CorpusInv /\ [ImportNext]_importVars => CorpusInv'
<1> SUFFICES ASSUME CorpusInv, [ImportNext]_importVars PROVE CorpusInv'
  OBVIOUS
<1>1. ASSUME NEW t \in Importers,
             \/ StartImport(t) \/ CheckItem(t) \/ EmbedItem(t) \/ StoreItem(t)
             \/ StoreExportItems(t) \/ ReportImport(t) \/ ImportFails(t)
             \/ DeleteChunksOfAll(t) \/ DeleteSources(t) \/ BinaryCrashes(t)
      PROVE  CorpusInv'
  BY <1>1, StartImportKeeps, CheckItemKeeps, EmbedItemKeeps, StoreItemKeeps,
     StoreExportItemsKeeps, ImportEndsKeeps, DeleteChunksKeeps, DeleteSourcesKeeps
<1>2. ASSUME NEW g \in Ingests,
             \/ \E u \in Addresses : StartIngest(g, u)
             \/ FetchPublicPage(g) \/ PublicPlaywright(g)
             \/ StoreIngested(g) \/ IngestFails(g)
      PROVE  CorpusInv'
  BY <1>2, StartIngestKeeps, FetchKeeps, BrowseKeeps, StoreIngestedKeeps, IngestFailsKeeps
<1>3. CASE UNCHANGED importVars
  BY <1>3 DEF importVars, CorpusInv, ImportTypes, Underway, KeysAreUnique, RowsAreFound,
              EntriesArrive, Arrived, SameKey
<1> QED
  BY <1>1, <1>2, <1>3, MainStartsKeeps DEF ImportNext

\* sources/ingest.rs, export.rs, portability.rs: no two rows of the corpus have one key,
\* it holds no bot check and no scrap, its rows can be found but for a wipe that stopped
\* half way, and an import leaves nothing out, however imports, /ingest commands, wipes,
\* starts, failures and crashes interleave.
THEOREM CorpusInvHolds == ImportSpec => []CorpusInv
<1> QED
  BY ImportInitInv, ImportStepInv, PTL DEF ImportSpec

-------------------------------------------------------------------------------
(* Bare proposals *)

\* The least member of a set of numbers is one of them.
LEMMA MinOf ==
    ASSUME NEW T, T \subseteq Nat, T # {}
    PROVE  Min(T) \in T /\ \A n \in T : Min(T) <= n
  BY LeastNatural DEF Min

\* The elements of a sequence without the one at a place.
LEMMA RemovedAt ==
    ASSUME NEW S, NEW s \in Seq(S), NEW at \in 1..Len(s)
    PROVE  /\ RemoveAt(s, at) \in Seq(S) /\ Len(RemoveAt(s, at)) = Len(s) - 1
           /\ \A i \in 1..(at - 1) : RemoveAt(s, at)[i] = s[i]
           /\ \A i \in at..(Len(s) - 1) : RemoveAt(s, at)[i] = s[i + 1]
<1>0. PICK n, rest : n = Len(s) /\ rest = RemoveAt(s, at)
  OBVIOUS
<1>1. n \in Nat /\ at \in Nat /\ at - 1 \in Nat /\ at + 1 \in Nat /\ 1 <= at /\ at <= n
  BY <1>0
<1>2. PICK before, after : before = SubSeq(s, 1, at - 1) /\ after = SubSeq(s, at + 1, n)
  OBVIOUS
<1>3. rest = before \o after
  BY <1>0, <1>2 DEF RemoveAt
<1>4. before \in Seq(S) /\ Len(before) = at - 1 /\ \A i \in 1..(at - 1) : before[i] = s[i]
  <2>1. \A i \in 1..(at - 1) : s[i] \in S
    BY <1>0, <1>1
  <2>2. /\ before \in Seq(S) /\ Len(before) = IF 1 <= at - 1 THEN (at - 1) - 1 + 1 ELSE 0
        /\ \A i \in 1..((at - 1) - 1 + 1) : before[i] = s[1 + i - 1]
    BY <1>1, <1>2, <2>1, SubSeqProperties
  <2> QED
    BY <1>1, <2>2
<1>5. after \in Seq(S) /\ Len(after) = n - at /\ \A i \in 1..(n - at) : after[i] = s[at + i]
  <2>1. \A i \in (at + 1)..n : s[i] \in S
    BY <1>0, <1>1
  <2>2. /\ after \in Seq(S) /\ Len(after) = IF at + 1 <= n THEN n - (at + 1) + 1 ELSE 0
        /\ \A i \in 1..(n - (at + 1) + 1) : after[i] = s[(at + 1) + i - 1]
    BY SMTT(30), <1>1, <1>2, <2>1, SubSeqProperties
  <2> QED
    BY <1>1, <2>2
<1>6. /\ rest \in Seq(S) /\ Len(rest) = Len(before) + Len(after)
      /\ \A i \in 1..(Len(before) + Len(after)) :
             rest[i] = IF i <= Len(before) THEN before[i] ELSE after[i - Len(before)]
  <2>1. before \in Seq(S) /\ after \in Seq(S)
    BY <1>4, <1>5
  <2>2. /\ before \o after \in Seq(S) /\ Len(before \o after) = Len(before) + Len(after)
        /\ \A i \in 1..(Len(before) + Len(after)) :
               (before \o after)[i] = IF i <= Len(before) THEN before[i] ELSE after[i - Len(before)]
    BY <2>1, ConcatProperties
  <2> QED
    BY <1>3, <2>2
<1>7. Len(rest) = n - 1 /\ \A i \in 1..(n - 1) : rest[i] = IF i <= at - 1 THEN before[i] ELSE after[i - (at - 1)]
  BY <1>1, <1>4, <1>5, <1>6
<1>8. ASSUME NEW i \in 1..(at - 1)
      PROVE  rest[i] = s[i]
  BY <1>1, <1>4, <1>7
<1>9. ASSUME NEW i \in at..(n - 1)
      PROVE  rest[i] = s[i + 1]
  <2>1. i - (at - 1) \in 1..(n - at) /\ at + (i - (at - 1)) = i + 1 /\ i \in 1..(n - 1) /\ ~(i <= at - 1)
    BY <1>1
  <2>2. rest[i] = after[i - (at - 1)]
    BY <1>7, <2>1
  <2>3. after[i - (at - 1)] = s[at + (i - (at - 1))]
    BY <1>5, <2>1
  <2> QED
    BY <2>1, <2>2, <2>3
<1> QED
  BY <1>0, <1>6, <1>7, <1>8, <1>9

StoryStatuses == UsedStatuses \cup {"building", "deleted", "failed"}
StoryRows == [surface : Surfaces, subject : Subjects, status : StoryStatuses, beside : SUBSET Nat]

\* What StoriesDiffer says of two rows.
Differ(a, b) ==
    /\ a.subject # b.subject
    /\ a.surface = b.surface => ~Overlap(Topic[a.subject], Topic[b.subject])

\* Every row is among the recent ones, a row was proposed beside all that are still building,
\* and differs from every kept row it was not proposed beside.
StoryInv ==
    /\ cpCorpus \in Seq(Chunks)
    /\ cpRows \in Seq(StoryRows)
    /\ cpRecent \in Seq(Nat) /\ Len(cpRecent) = Len(cpRows)
    /\ \A k \in DOMAIN cpRecent : cpRecent[k] \in DOMAIN cpRows
    /\ \A r \in DOMAIN cpRows : \E k \in DOMAIN cpRecent : cpRecent[k] = r
    /\ \A i, j \in DOMAIN cpRows : i < j /\ cpRows[i].status = "building" => i \in cpRows[j].beside
    /\ Len(cpRows) <= UsedLimit =>
           \A i, j \in DOMAIN cpRows : i < j /\ Kept(i) /\ i \notin cpRows[j].beside => Differ(cpRows[i], cpRows[j])

\* While the rows fit the limit, every kept row is among the used ones.
LEMMA KeptIsUsed ==
    ASSUME StoryInv, Len(cpRows) <= UsedLimit, NEW r \in DOMAIN cpRows, Kept(r)
    PROVE  r \in UsedRows
<1> DEFINE used == {k \in DOMAIN cpRecent : cpRows[cpRecent[k]].status \in UsedStatuses}
<1>1. PICK n \in DOMAIN cpRecent : cpRecent[n] = r
  BY DEF StoryInv
<1>2. n \in used
  BY <1>1 DEF Kept
<1>3. n \in 1..Len(cpRecent) /\ Len(cpRecent) \in Nat /\ Len(cpRecent) <= UsedLimit /\ UsedLimit \in Nat
  BY SMTT(30), CorpusProposeAssumption DEF StoryInv
<1>4. Cardinality({m \in used : m < n}) < UsedLimit
  <2>1. IsFiniteSet(1..(n - 1)) /\ Cardinality(1..(n - 1)) = n - 1
    <3>1. PICK before : before = n - 1
      OBVIOUS
    <3>2. before \in Nat /\ 1 \in Int /\ before \in Int
      BY <1>3, <3>1
    <3>3. IsFiniteSet(1..before) /\ Cardinality(1..before) = IF 1 > before THEN 0 ELSE before - 1 + 1
      BY <3>2, FS_Interval
    <3> QED
      BY <3>1, <3>2, <3>3
  <2>2. {m \in used : m < n} \subseteq 1..(n - 1)
    <3>1. DOMAIN cpRecent = 1..Len(cpRecent)
      BY DEF StoryInv
    <3> QED
      BY <1>3, <3>1
  <2>3. Cardinality({m \in used : m < n}) <= n - 1 /\ Cardinality({m \in used : m < n}) \in Nat
    BY <2>1, <2>2, FS_Subset, FS_CardinalityType
  <2> QED
    BY <1>3, <2>3
<1> QED
  BY <1>1, <1>2, <1>4 DEF UsedRows

\* What is picked was usable and fresh.
LEMMA PickedIsFresh ==
    ASSUME StoryInv, NEW surface, PickAngle(surface) # NoSubject
    PROVE  /\ PickAngle(surface) \in Subjects
           /\ PickAngle(surface) \notin UsedSubjects
           /\ \A used \in UsedTopics(surface) : ~Overlap(Topic[PickAngle(surface)], used)
<1>1. PICK walk : walk = Candidates
  OBVIOUS
<1> DEFINE here == {i \in 1..Len(walk) : AngleSubject(walk[i]) = NoSubject \/ Fresh(walk[i], surface)}
<1>2. SelectInSeq(walk, LAMBDA c : AngleSubject(c) = NoSubject \/ Fresh(c, surface))
         = IF here # {} THEN Min(here) ELSE 0
  BY DEF SelectInSeq
<1>3. walk \in Seq(Chunks)
  <2>1. PICK n : n = IF Len(cpCorpus) < CandidateLimit THEN Len(cpCorpus) ELSE CandidateLimit
    OBVIOUS
  <2>2. cpCorpus \in Seq(Chunks) /\ n \in 0..Len(cpCorpus)
    BY <2>1, CorpusProposeAssumption DEF StoryInv
  <2>3. SubSeq(cpCorpus, 1, n) \in Seq(Chunks)
    BY <2>2, SubSeqProperties
  <2> QED
    BY <1>1, <2>1, <2>3 DEF Candidates
<1>4. here # {} /\ PickAngle(surface) = AngleSubject(walk[Min(here)])
  <2>1. PICK at : at = SelectInSeq(walk, LAMBDA c : AngleSubject(c) = NoSubject \/ Fresh(c, surface))
    OBVIOUS
  <2>2. at # 0 /\ PickAngle(surface) = AngleSubject(walk[at])
    BY <1>1, <2>1 DEF PickAngle
  <2> QED
    BY <1>2, <2>1, <2>2
<1>5. Min(here) \in here
  <2>1. here \subseteq Nat
    OBVIOUS
  <2> HIDE DEF here
  <2> QED
    BY <1>4, <2>1, MinOf
<1>6. Fresh(walk[Min(here)], surface)
  BY <1>4, <1>5
<1>7. PickAngle(surface) \in Subjects
  BY <1>4 DEF AngleSubject
<1> QED
  BY <1>4, <1>6, <1>7 DEF Fresh

LEMMA ProposeInv == ASSUME StoryInv, NEW surface \in Surfaces, Propose(surface) PROVE StoryInv'
<1>1. CASE UNCHANGED <<cpCorpus, cpRows, cpRecent>>
  BY <1>1 DEF StoryInv, Kept
<1>2. CASE PickAngle(surface) # NoSubject
  <2>1. PICK subject, row, n : /\ subject = PickAngle(surface) /\ n = Len(cpRows)
                               /\ row = [surface |-> surface, subject |-> subject, status |-> "building",
                                         beside |-> Building]
    OBVIOUS
  <2>2. n \in Nat /\ cpRows \in Seq(StoryRows) /\ DOMAIN cpRows = 1..n
    BY <2>1 DEF StoryInv
  <2>3. row \in StoryRows /\ row.beside = Building /\ row.subject = subject /\ row.surface = surface
        /\ row.status = "building"
    <3>1. Building \subseteq Nat
      BY <2>2 DEF Building
    <3> QED
      BY <1>2, <2>1, <3>1, PickedIsFresh DEF StoryRows, StoryStatuses
  <2>4. cpRows' = Append(cpRows, row) /\ cpRecent' = <<n + 1>> \o cpRecent /\ cpCorpus' = cpCorpus
    BY <1>2, <2>1 DEF Propose
  <2>5. /\ cpRows' \in Seq(StoryRows) /\ Len(cpRows') = n + 1 /\ DOMAIN cpRows' = 1..(n + 1)
        /\ \A r \in 1..n : cpRows'[r] = cpRows[r]
        /\ cpRows'[n + 1] = row
    BY <2>2, <2>3, <2>4, AppendProperties
  <2>6. /\ cpRecent' \in Seq(Nat) /\ Len(cpRecent') = Len(cpRows')
        /\ cpRecent'[1] = n + 1 /\ \A k \in DOMAIN cpRecent : k + 1 \in DOMAIN cpRecent' /\ cpRecent'[k + 1] = cpRecent[k]
        /\ \A k \in DOMAIN cpRecent' : k # 1 => k - 1 \in DOMAIN cpRecent
    <3>1. cpRecent \in Seq(Nat) /\ Len(cpRecent) = n /\ <<n + 1>> \in Seq(Nat)
      BY <2>1, <2>2 DEF StoryInv
    <3>2. Len(<<n + 1>>) = 1 /\ <<n + 1>>[1] = n + 1
      OBVIOUS
    <3>3. /\ <<n + 1>> \o cpRecent \in Seq(Nat) /\ Len(<<n + 1>> \o cpRecent) = n + 1
          /\ \A i \in 1..(n + 1) : (<<n + 1>> \o cpRecent)[i] = IF i <= 1 THEN <<n + 1>>[i] ELSE cpRecent[i - 1]
      BY <2>2, <3>1, <3>2, ConcatProperties
    <3>4. PICK s : s = <<n + 1>> \o cpRecent
      OBVIOUS
    <3>5. s \in Seq(Nat) /\ Len(s) = n + 1 /\ s[1] = n + 1 /\ \A i \in 2..(n + 1) : s[i] = cpRecent[i - 1]
      BY <2>2, <3>2, <3>3, <3>4
    <3> QED
      BY <2>2, <2>4, <2>5, <3>1, <3>4, <3>5
  <2>7. \A k \in DOMAIN cpRecent' : cpRecent'[k] \in DOMAIN cpRows'
    <3> TAKE k \in DOMAIN cpRecent'
    <3>1. CASE k = 1
      BY <2>2, <2>5, <2>6, <3>1
    <3>2. CASE k # 1
      <4>1. k - 1 \in DOMAIN cpRecent /\ k \in Nat
        BY <2>6, <3>2
      <4>2. cpRecent'[k] = cpRecent[k - 1] /\ cpRecent[k - 1] \in 1..n
        BY <2>2, <2>6, <4>1 DEF StoryInv
      <4> QED
        BY <2>2, <2>5, <4>2
    <3> QED
      BY <3>1, <3>2
  <2>8. \A r \in DOMAIN cpRows' : \E k \in DOMAIN cpRecent' : cpRecent'[k] = r
    <3> TAKE r \in DOMAIN cpRows'
    <3>1. CASE r = n + 1
      <4>1. 1 \in DOMAIN cpRecent'
        BY <2>2, <2>5, <2>6
      <4> QED
        BY <2>6, <3>1, <4>1
    <3>2. CASE r # n + 1
      <4>1. r \in DOMAIN cpRows
        BY <2>2, <2>5, <3>2
      <4>2. PICK k \in DOMAIN cpRecent : cpRecent[k] = r
        BY <4>1 DEF StoryInv
      <4> QED
        BY <2>6, <4>2
    <3> QED
      BY <3>1, <3>2
  <2>9. \A i, j \in DOMAIN cpRows' : i < j /\ cpRows'[i].status = "building" => i \in cpRows'[j].beside
    <3> TAKE i, j \in DOMAIN cpRows'
    <3>1. CASE j = n + 1
      <4>1. ASSUME i < j, cpRows'[i].status = "building"
            PROVE  i \in cpRows'[j].beside
        <5>1. i \in DOMAIN cpRows /\ cpRows[i].status = "building"
          BY <2>2, <2>5, <3>1, <4>1
        <5> QED
          BY <2>3, <2>5, <3>1, <5>1 DEF Building
      <4> QED
        BY <4>1
    <3>2. CASE j # n + 1
      <4>1. ASSUME i < j, cpRows'[i].status = "building"
            PROVE  i \in cpRows'[j].beside
        <5>1. i \in DOMAIN cpRows /\ j \in DOMAIN cpRows /\ cpRows'[i] = cpRows[i] /\ cpRows'[j] = cpRows[j]
          BY <2>2, <2>5, <3>2, <4>1
        <5> QED
          BY <4>1, <5>1 DEF StoryInv
      <4> QED
        BY <4>1
    <3> QED
      BY <3>1, <3>2
  <2>10. ASSUME Len(cpRows') <= UsedLimit, NEW i \in DOMAIN cpRows', NEW j \in DOMAIN cpRows', i < j,
                cpRows'[i].status \in UsedStatuses, i \notin cpRows'[j].beside
         PROVE  Differ(cpRows'[i], cpRows'[j])
    <3>1. Len(cpRows) <= UsedLimit /\ i \in DOMAIN cpRows /\ cpRows'[i] = cpRows[i] /\ Kept(i)
      BY <2>1, <2>2, <2>5, <2>10, CorpusProposeAssumption DEF Kept
    <3>2. CASE j = n + 1
      <4>1. i \in UsedRows
        BY <3>1, KeptIsUsed
      <4>2. subject # cpRows[i].subject
        BY <1>2, <2>1, <4>1, PickedIsFresh DEF UsedSubjects
      <4>3. cpRows[i].surface = surface => ~Overlap(Topic[subject], Topic[cpRows[i].subject])
        BY <1>2, <2>1, <4>1, PickedIsFresh DEF UsedTopics
      <4>4. \A a, b : Overlap(a, b) = Overlap(b, a)
        <5>1. \A a, b : a \cap b = b \cap a
          OBVIOUS
        <5> QED
          BY <5>1 DEF Overlap
      <4> QED
        BY <2>3, <2>5, <3>1, <3>2, <4>2, <4>3, <4>4 DEF Differ
    <3>3. CASE j # n + 1
      <4>1. j \in DOMAIN cpRows /\ cpRows'[j] = cpRows[j]
        BY <2>2, <2>5, <3>3
      <4> QED
        BY <2>10, <3>1, <4>1 DEF StoryInv
    <3> QED
      BY <3>2, <3>3
  <2> QED
    BY <2>4, <2>5, <2>6, <2>7, <2>8, <2>9, <2>10 DEF StoryInv, Kept
<1> QED
  BY <1>1, <1>2 DEF Propose

\* A row that is written again moves to the head of the recent ones.
LEMMA Touched ==
    ASSUME StoryInv, NEW r \in DOMAIN cpRows, Touch(r)
    PROVE  /\ cpRecent' \in Seq(Nat) /\ Len(cpRecent') = Len(cpRows)
           /\ \A k \in DOMAIN cpRecent' : cpRecent'[k] \in DOMAIN cpRows
           /\ \A other \in DOMAIN cpRows : \E k \in DOMAIN cpRecent' : cpRecent'[k] = other
<1> DEFINE here == {i \in 1..Len(cpRecent) : cpRecent[i] = r}
<1>1. PICK n : n = Len(cpRecent)
  OBVIOUS
<1>2. n \in Nat /\ n = Len(cpRows) /\ cpRecent \in Seq(Nat) /\ DOMAIN cpRecent = 1..n /\ r \in Nat
  BY <1>1 DEF StoryInv
<1>3. \E i \in 1..Len(cpRecent) : cpRecent[i] = r
  BY <1>1, <1>2 DEF StoryInv
<1>4. PICK at \in 1..n : at = Min(here) /\ cpRecent[at] = r
  <2>1. here \subseteq Nat /\ here # {}
    BY <1>3
  <2> QED
    BY <1>1, <2>1, MinOf
<1>5. SelectInSeq(cpRecent, LAMBDA v : v = r) = at
  BY <1>3, <1>4 DEF SelectInSeq
<1>6. PICK rest : rest = RemoveAt(cpRecent, at)
  OBVIOUS
<1>7. RemoveFirst(cpRecent, r) = rest
  BY <1>3, <1>5, <1>6 DEF RemoveFirst
<1>10. /\ rest \in Seq(Nat) /\ Len(rest) = n - 1
       /\ \A i \in 1..(at - 1) : rest[i] = cpRecent[i]
       /\ \A i \in at..(n - 1) : rest[i] = cpRecent[i + 1]
  <2>1. cpRecent \in Seq(Nat) /\ n = Len(cpRecent) /\ at \in 1..n
    BY <1>1, <1>2
  <2> HIDE DEF here
  <2> QED
    BY <1>6, <2>1, RemovedAt
<1>11. PICK now : now = <<r>> \o rest
  OBVIOUS
<1>12. /\ now \in Seq(Nat) /\ Len(now) = n /\ now[1] = r
       /\ \A i \in 1..(n - 1) : now[i + 1] = rest[i]
  <2>1. <<r>> \in Seq(Nat) /\ Len(<<r>>) = 1 /\ <<r>>[1] = r
    BY <1>2
  <2>2. /\ <<r>> \o rest \in Seq(Nat) /\ Len(<<r>> \o rest) = 1 + (n - 1)
        /\ \A i \in 1..(1 + (n - 1)) : (<<r>> \o rest)[i] = IF i <= 1 THEN <<r>>[i] ELSE rest[i - 1]
    BY <1>10, <2>1, ConcatProperties
  <2>3. now \in Seq(Nat) /\ Len(now) = n /\ \A i \in 1..n : now[i] = IF i <= 1 THEN <<r>>[i] ELSE rest[i - 1]
    BY <1>2, <1>11, <2>2
  <2>4. \A i \in 1..(n - 1) : i + 1 \in 1..n /\ ~(i + 1 <= 1) /\ (i + 1) - 1 = i
    BY <1>2
  <2>5. 1 \in 1..n
    BY <1>2
  <2>6. now[1] = <<r>>[1]
    BY <2>3, <2>5
  <2>7. ASSUME NEW i \in 1..(n - 1) PROVE now[i + 1] = rest[i]
    BY <2>3, <2>4
  <2> QED
    BY <2>1, <2>3, <2>6, <2>7
<1>13. cpRecent' = now
  BY <1>7, <1>11 DEF Touch
<1>14. \A k \in 1..n : now[k] \in DOMAIN cpRows
  <2> TAKE k \in 1..n
  <2>1. CASE k = 1
    BY <1>12, <2>1
  <2>2. CASE k # 1
    <3>1. k - 1 \in 1..(n - 1) /\ now[k] = rest[k - 1]
      BY <1>2, <1>12, <2>2
    <3>2. rest[k - 1] = cpRecent[k - 1] \/ rest[k - 1] = cpRecent[k]
      <4>1. CASE k - 1 <= at - 1
        <5>1. k - 1 \in 1..(at - 1)
          BY <1>2, <3>1, <4>1
        <5> QED
          BY <1>10, <5>1
      <4>2. CASE ~(k - 1 <= at - 1)
        <5>1. k - 1 \in at..(n - 1) /\ (k - 1) + 1 = k
          BY <1>2, <3>1, <4>2
        <5> QED
          BY <1>10, <5>1
      <4> QED
        BY <4>1, <4>2
    <3>3. k - 1 \in DOMAIN cpRecent /\ k \in DOMAIN cpRecent
      BY <1>2, <3>1
    <3>4. cpRecent[k - 1] \in DOMAIN cpRows /\ cpRecent[k] \in DOMAIN cpRows
      BY <3>3 DEF StoryInv
    <3> QED
      BY <3>1, <3>2, <3>4
  <2> QED
    BY <2>1, <2>2
<1>15. \A other \in DOMAIN cpRows : \E k \in 1..n : now[k] = other
  <2> TAKE other \in DOMAIN cpRows
  <2>1. PICK k \in 1..n : cpRecent[k] = other
    BY <1>2 DEF StoryInv
  <2>2. CASE k = at
    BY <1>2, <1>4, <1>12, <2>1, <2>2
  <2>3. CASE k < at
    <3>1. k \in 1..(at - 1) /\ k \in 1..(n - 1) /\ k + 1 \in 1..n
      BY <1>2, <2>3
    <3> QED
      BY <1>10, <1>12, <2>1, <3>1
  <2>4. CASE k > at
    <3>1. k - 1 \in at..(n - 1) /\ k - 1 \in 1..(n - 1) /\ (k - 1) + 1 = k
      BY <1>2, <2>4
    <3>2. now[k] = rest[k - 1] /\ rest[k - 1] = cpRecent[k]
      BY <1>10, <1>12, <3>1
    <3> QED
      BY <2>1, <3>2
  <2> QED
    BY <1>2, <2>2, <2>3, <2>4
<1>16. PICK later : later = cpRecent'
  OBVIOUS
<1>17. later = now /\ DOMAIN now = 1..n
  BY <1>2, <1>12, <1>13, <1>16
<1> QED
  BY <1>2, <1>12, <1>14, <1>15, <1>16, <1>17

\* A build that ends and a step of the gate write the status of one row; none comes back to
\* building, and only a row that was building or kept is kept afterwards.
LEMMA StatusInv ==
    ASSUME StoryInv, NEW r \in DOMAIN cpRows, NEW status \in StoryStatuses \ {"building"},
           cpRows' = [cpRows EXCEPT ![r].status = status], cpCorpus' = cpCorpus, Touch(r),
           status \in UsedStatuses => cpRows[r].status = "building" \/ Kept(r)
    PROVE  StoryInv'
<1>1. cpRows \in Seq(StoryRows) /\ DOMAIN cpRows = 1..Len(cpRows) /\ Len(cpRows) \in Nat
  BY DEF StoryInv
<1>2. PICK old, new : old = cpRows[r] /\ new = [old EXCEPT !.status = status]
  OBVIOUS
<1>3. old \in StoryRows
  BY <1>1, <1>2
<1>4. /\ new \in StoryRows /\ new.status = status /\ new.surface = old.surface /\ new.subject = old.subject
      /\ new.beside = old.beside
  BY <1>2, <1>3 DEF StoryRows
<1>5. cpRows' = [cpRows EXCEPT ![r] = new]
  BY <1>2
<1>6. /\ cpRows' \in Seq(StoryRows) /\ Len(cpRows') = Len(cpRows) /\ DOMAIN cpRows' = DOMAIN cpRows
      /\ cpRows'[r] = new /\ \A i \in DOMAIN cpRows : i # r => cpRows'[i] = cpRows[i]
  BY <1>1, <1>4, <1>5, ExceptSeq
<1>7. \A i \in DOMAIN cpRows : /\ cpRows'[i].beside = cpRows[i].beside /\ cpRows'[i].subject = cpRows[i].subject
                               /\ cpRows'[i].surface = cpRows[i].surface
                               /\ cpRows'[i].status = IF i = r THEN status ELSE cpRows[i].status
  BY <1>2, <1>4, <1>6
<1>8. \A i, j \in DOMAIN cpRows' : i < j /\ cpRows'[i].status = "building" => i \in cpRows'[j].beside
  BY SMTT(30), <1>6, <1>7 DEF StoryInv
<1>9. ASSUME Len(cpRows') <= UsedLimit, NEW i \in DOMAIN cpRows', NEW j \in DOMAIN cpRows', i < j,
             cpRows'[i].status \in UsedStatuses, i \notin cpRows'[j].beside
      PROVE  Differ(cpRows'[i], cpRows'[j])
  <2>1. i \in DOMAIN cpRows /\ j \in DOMAIN cpRows /\ i \notin cpRows[j].beside /\ Len(cpRows) <= UsedLimit
    BY <1>6, <1>7, <1>9
  <2>2. cpRows[i].status # "building"
    BY <1>9, <2>1 DEF StoryInv
  <2>3. Kept(i)
    BY <1>7, <1>9, <2>1, <2>2 DEF Kept
  <2>4. Differ(cpRows[i], cpRows[j])
    BY <1>9, <2>1, <2>3 DEF StoryInv
  <2> QED
    BY <1>7, <2>1, <2>4 DEF Differ
<1> QED
  BY ZenonT(40), <1>1, <1>6, <1>8, <1>9, Touched DEF StoryInv, Kept

LEMMA ProposeNextInv == StoryInv /\ [ProposeNext]_proposeVars => StoryInv'
<1> SUFFICES ASSUME StoryInv, [ProposeNext]_proposeVars
             PROVE  StoryInv'
  OBVIOUS
<1>1. CASE UNCHANGED proposeVars
  BY <1>1 DEF StoryInv, proposeVars, Kept
<1>2. ASSUME NEW c \in Chunks, Ingest(c)
      PROVE  StoryInv'
  <2>1. cpCorpus' \in Seq(Chunks)
    <3>1. <<c>> \in Seq(Chunks) /\ cpCorpus \in Seq(Chunks)
      BY DEF StoryInv
    <3> QED
      BY <1>2, <3>1, ConcatProperties DEF Ingest
  <2> QED
    BY <1>2, <2>1 DEF Ingest, StoryInv, Kept
<1>3. ASSUME NEW r \in DOMAIN cpRows, NEW status \in {"open", "deleted", "failed"}, EndBuild(r, status)
      PROVE  StoryInv'
  <2>1. cpRows[r].status = "building" /\ status \in StoryStatuses \ {"building"}
    BY <1>3 DEF EndBuild, Building, StoryStatuses, UsedStatuses
  <2> QED
    BY <1>3, <2>1, StatusInv DEF EndBuild
<1>4. ASSUME NEW r \in DOMAIN cpRows, Advance(r)
      PROVE  StoryInv'
  <2>1. PICK status : status = IF cpRows[r].status = "open" THEN "accepted" ELSE "published"
    OBVIOUS
  <2>2. Kept(r) /\ status \in StoryStatuses \ {"building"}
    BY <1>4, <2>1 DEF Advance, Kept, StoryStatuses, UsedStatuses
  <2>3. cpRows' = [cpRows EXCEPT ![r].status = status]
    BY <1>4, <2>1 DEF Advance
  <2> QED
    BY <1>4, <2>2, <2>3, StatusInv DEF Advance
<1> QED
  BY <1>1, <1>2, <1>3, <1>4, ProposeInv DEF ProposeNext, ProposalSaved, ProposalAbandoned, ProposalFailed

\* topics.rs, corpus_propose.rs, resolve_corpus_propose_brief: with any corpus, subjects and
\* topics, two kept rows tell the same story only when one was building as the other was
\* proposed, as long as the rows fit USED_SUBJECT_LIMIT.
THEOREM StoriesSafe == ProposeSpec => []StoriesDiffer
<1>1. ProposeInit => StoryInv
  <2> SUFFICES ASSUME ProposeInit
               PROVE  StoryInv
    OBVIOUS
  <2>1. cpCorpus = <<>> /\ cpRows = <<>> /\ cpRecent = <<>>
    BY DEF ProposeInit
  <2>2. DOMAIN cpRows = {} /\ DOMAIN cpRecent = {} /\ Len(cpRecent) = Len(cpRows)
    BY <2>1
  <2>3. cpCorpus \in Seq(Chunks) /\ cpRows \in Seq(StoryRows) /\ cpRecent \in Seq(Nat)
    BY <2>1
  <2> QED
    BY <2>2, <2>3 DEF StoryInv
<1>2. StoryInv => StoriesDiffer
  BY DEF StoryInv, StoriesDiffer, Differ
<1> QED
  BY <1>1, <1>2, ProposeNextInv, PTL DEF ProposeSpec
-------------------------------------------------------------------------------
(* What is in a digest *)

OfAuthor(items, author) == {j \in DOMAIN items : items[j].lane = "twitter" /\ items[j].author = author}

\* A list that offers nothing twice and no author too often.
Varied(items) ==
    /\ Listing(items)
    /\ \A i, j \in DOMAIN items : i # j => ~SameCard(items[i], items[j])
    /\ \A i \in DOMAIN items : items[i].lane = "twitter" /\ items[i].author # NoAuthor =>
           Cardinality(OfAuthor(items, items[i].author)) <= PerAuthor

IsFresh(card, seen) == card.lane \in ItcLanes \/ card.url \notin seen
IsNews(card) == card.lane \notin ItcLanes => card.site # "linkedin" /\ (card.lane = "live_site" => IsArticle(card))

\* The items of a digest whose build had to leave out seen.
ItemsFine(items, seen) == Varied(items) /\ \A i \in DOMAIN items : IsFresh(items[i], seen) /\ IsNews(items[i])

LEMMA VariedDrawn ==
    ASSUME NEW list, NEW from, NEW P, DrawnAt(list, from, P), Varied(from)
    PROVE  Varied(list)
<1>1. PICK at \in [DOMAIN list -> P \cap DOMAIN from] :
          /\ \A k \in DOMAIN list : list[k] = from[at[k]]
          /\ \A j, k \in DOMAIN list : at[j] = at[k] => j = k
  BY DEF DrawnAt
<1>2. \A k \in DOMAIN list : at[k] \in DOMAIN from
  BY <1>1
<1>3. Listing(list) /\ Listing(from)
  BY DEF DrawnAt, Varied
<1>4. DOMAIN list = 1..Len(list) /\ Len(list) \in Nat /\ DOMAIN from = 1..Len(from) /\ Len(from) \in Nat
  BY <1>3 DEF Listing
<1>5. ASSUME NEW i \in DOMAIN list, NEW j \in DOMAIN list, i # j
      PROVE  ~SameCard(list[i], list[j])
  <2>1. at[i] # at[j]
    BY <1>1, <1>5
  <2>2. ~SameCard(from[at[i]], from[at[j]])
    BY <1>2, <2>1 DEF Varied
  <2> QED
    BY <1>1, <2>2
<1>6. ASSUME NEW i \in DOMAIN list, list[i].lane = "twitter", list[i].author # NoAuthor
      PROVE  Cardinality(OfAuthor(list, list[i].author)) <= PerAuthor
  <2>1. PICK a, S, T : a = list[i].author /\ S = OfAuthor(list, a) /\ T = OfAuthor(from, a)
    OBVIOUS
  <2>2. S \subseteq DOMAIN list /\ T \subseteq DOMAIN from
    BY <2>1 DEF OfAuthor
  <2>3. IsFiniteSet(1..Len(list)) /\ IsFiniteSet(1..Len(from))
    BY <1>4, FS_Interval
  <2>4. IsFiniteSet(S) /\ IsFiniteSet(T)
    BY <1>4, <2>2, <2>3, FS_Subset
  <2>5. Cardinality(S) \in Nat /\ Cardinality(T) \in Nat
    BY <2>4, FS_CardinalityType
  <2>6. \A k \in S, m \in DOMAIN from : list[k] = from[m] => m \in T
    BY <2>1 DEF OfAuthor
  <2>7. Cardinality(S) <= Cardinality(T)
    BY <2>2, <2>4, <2>6, DrawnFewer
  <2>8. from[at[i]].lane = "twitter" /\ from[at[i]].author # NoAuthor /\ from[at[i]].author = a
    BY <1>1, <1>6, <2>1
  <2>9. Cardinality(T) <= PerAuthor
    BY <1>2, <2>1, <2>8 DEF Varied
  <2>10. PerAuthor \in Nat
    BY DailyDigestAssumption
  <2> QED
    BY <2>1, <2>5, <2>7, <2>9, <2>10
<1> QED
  BY <1>3, <1>5, <1>6 DEF Varied

LEMMA FineDrawn ==
    ASSUME NEW list, NEW from, NEW P, DrawnAt(list, from, P), NEW seen, ItemsFine(from, seen)
    PROVE  ItemsFine(list, seen)
<1>1. PICK at \in [DOMAIN list -> P \cap DOMAIN from] : \A k \in DOMAIN list : list[k] = from[at[k]]
  BY DEF DrawnAt
<1>2. \A k \in DOMAIN list : at[k] \in DOMAIN from
  BY <1>1
<1>3. Varied(list)
  BY VariedDrawn DEF ItemsFine
<1>4. \A k \in DOMAIN list : IsFresh(list[k], seen) /\ IsNews(list[k])
  BY <1>1, <1>2 DEF ItemsFine
<1> QED
  BY <1>3, <1>4 DEF ItemsFine

-------------------------------------------------------------------------------
(* The cards of a digest *)

LEMMA SortedCards ==
    ASSUME NEW cards, Listing(cards)
    PROVE  DrawnAt(ByWeight(cards), cards, DOMAIN cards)
<1>1. PICK less : less = PairsOf(cards, Heavier)
  OBVIOUS
<1>2. ByWeight(cards) = AtPlaces(cards, SortedPlaces(Len(cards), less))
  BY <1>1 DEF ByWeight, Sorted
<1>3. DrawnAt(AtPlaces(cards, SortedPlaces(Len(cards), less)), cards, DOMAIN cards)
  BY SortDraws
<1> QED
  BY <1>2, <1>3

\* Of what is the same one is left.
LEMMA OneIsLeft ==
    ASSUME NEW cards, Listing(cards), NEW same, NEW kept, kept = Keep(cards, CappedPlaces(Len(cards), same, 1))
    PROVE  /\ DrawnAt(kept, cards, DOMAIN cards)
           /\ \A i, j \in DOMAIN kept :
                 (\A m, n \in DOMAIN cards : cards[m] = kept[i] /\ cards[n] = kept[j]
                                               => <<m, n>> \in same /\ <<n, m>> \in same)
                   => i = j
<1>1. PICK K : K = CappedPlaces(Len(cards), same, 1)
  OBVIOUS
<1>2. DrawnAt(kept, cards, K)
  BY <1>1, KeepDraws
<1>3. Len(cards) \in Nat /\ DOMAIN cards = 1..Len(cards)
  BY DEF Listing
<1>4. PICK at \in [DOMAIN kept -> K \cap DOMAIN cards] :
          /\ \A k \in DOMAIN kept : kept[k] = cards[at[k]]
          /\ \A j, k \in DOMAIN kept : at[j] = at[k] => j = k
  BY <1>2 DEF DrawnAt
<1>5. ASSUME NEW i \in DOMAIN kept, NEW j \in DOMAIN kept,
             \A m, n \in DOMAIN cards : cards[m] = kept[i] /\ cards[n] = kept[j]
                                          => <<m, n>> \in same /\ <<n, m>> \in same
      PROVE  i = j
  <2>1. at[i] \in K /\ at[j] \in K /\ at[i] \in DOMAIN cards /\ at[j] \in DOMAIN cards
    BY <1>4
  <2>2. <<at[i], at[j]>> \in same /\ <<at[j], at[i]>> \in same
    BY <1>4, <1>5, <2>1
  <2>3. at[i] = at[j]
    BY <1>1, <1>3, <2>1, <2>2, CappedOnce
  <2> QED
    BY <1>4, <2>3
<1>6. DrawnAt(kept, cards, DOMAIN cards)
  BY <1>2, DrawnWhere
<1> QED
  BY <1>5, <1>6

\* Of two cards with one address or title one is left.
LEMMA SingleCards ==
    ASSUME NEW cards, Listing(cards)
    PROVE  /\ DrawnAt(DedupeCandidates(cards), cards, DOMAIN cards)
           /\ \A i, j \in DOMAIN DedupeCandidates(cards) :
                 i # j => ~SameCard(DedupeCandidates(cards)[i], DedupeCandidates(cards)[j])
<1>1. PICK sameUrl, urls : sameUrl = PairsOf(cards, SameUrl) /\ urls = KeepFirst(cards, SameUrl)
  OBVIOUS
<1>2. urls = Keep(cards, CappedPlaces(Len(cards), sameUrl, 1))
  BY <1>1 DEF KeepFirst
<1>3. PICK sameTitle, titles : sameTitle = PairsOf(urls, SameTitle) /\ titles = KeepFirst(urls, SameTitle)
  OBVIOUS
<1>4. titles = Keep(urls, CappedPlaces(Len(urls), sameTitle, 1))
  BY <1>3 DEF KeepFirst
<1>5. titles = DedupeCandidates(cards)
  BY <1>1, <1>3 DEF DedupeCandidates
<1>6. DrawnAt(urls, cards, DOMAIN cards)
  BY <1>2, OneIsLeft
<1>7. Listing(urls)
  BY <1>6 DEF DrawnAt
<1>8. DrawnAt(titles, urls, DOMAIN urls)
  BY <1>4, <1>7, OneIsLeft
<1>9. ASSUME NEW i \in DOMAIN urls, NEW j \in DOMAIN urls, urls[i].url = urls[j].url
      PROVE  i = j
  <2>1. \A m, n \in DOMAIN cards : cards[m] = urls[i] /\ cards[n] = urls[j] => <<m, n>> \in sameUrl /\ <<n, m>> \in sameUrl
    BY <1>1, <1>9 DEF PairsOf, SameUrl
  <2> QED
    BY <1>2, <2>1, OneIsLeft
<1>10. ASSUME NEW i \in DOMAIN titles, NEW j \in DOMAIN titles, titles[i].title = titles[j].title
       PROVE  i = j
  <2>1. \A m, n \in DOMAIN urls : urls[m] = titles[i] /\ urls[n] = titles[j] => <<m, n>> \in sameTitle /\ <<n, m>> \in sameTitle
    BY <1>3, <1>10 DEF PairsOf, SameTitle
  <2> QED
    BY <1>4, <1>7, <2>1, OneIsLeft
<1>11. PICK at \in [DOMAIN titles -> DOMAIN urls \cap DOMAIN urls] :
          /\ \A k \in DOMAIN titles : titles[k] = urls[at[k]]
          /\ \A j, k \in DOMAIN titles : at[j] = at[k] => j = k
  BY <1>8 DEF DrawnAt
<1>12. ASSUME NEW i \in DOMAIN titles, NEW j \in DOMAIN titles, SameCard(titles[i], titles[j])
       PROVE  i = j
  <2>1. CASE titles[i].url = titles[j].url
    <3>1. at[i] = at[j]
      BY <1>9, <1>11, <2>1
    <3> QED
      BY <1>11, <3>1
  <2>2. CASE titles[i].title = titles[j].title
    BY <1>10, <2>2
  <2> QED
    BY <1>12, <2>1, <2>2 DEF SameCard, SameUrl, SameTitle
<1>13. DrawnAt(titles, cards, DOMAIN cards)
  BY <1>6, <1>8, DrawnThrough
<1> QED
  BY <1>5, <1>12, <1>13

\* Of an author no more than PerAuthor posts are left.
LEMMA AuthorsCapped ==
    ASSUME NEW cards, Listing(cards)
    PROVE  /\ DrawnAt(CapAuthors(cards), cards, DOMAIN cards)
           /\ \A a : a # NoAuthor => Cardinality(OfAuthor(CapAuthors(cards), a)) <= PerAuthor
<1>1. PICK same : same = PairsOf(cards, SameAuthor)
  OBVIOUS
<1>2. PICK K, kept : K = CappedPlaces(Len(cards), same, PerAuthor) /\ kept = CapAuthors(cards)
  OBVIOUS
<1>3. kept = Keep(cards, K)
  BY <1>1, <1>2 DEF CapAuthors
<1>4. DrawnAt(kept, cards, K)
  BY <1>3, KeepDraws
<1>5. DrawnAt(kept, cards, DOMAIN cards)
  BY <1>4, DrawnWhere
<1>6. PerAuthor \in Nat \ {0}
  BY DailyDigestAssumption
<1>7. Len(cards) \in Nat /\ DOMAIN cards = 1..Len(cards)
  BY DEF Listing
<1>8. ASSUME NEW a, a # NoAuthor
      PROVE  Cardinality(OfAuthor(kept, a)) <= PerAuthor
  <2>1. PICK S, T : S = OfAuthor(kept, a) /\ T = K \cap OfAuthor(cards, a)
    OBVIOUS
  <2>2. \A i, j \in T : <<i, j>> \in same
    BY <1>1, <1>8, <2>1 DEF OfAuthor, PairsOf, SameAuthor
  <2>3. IsFiniteSet(T) /\ Cardinality(T) <= PerAuthor
    <3>1. T \subseteq CappedPlaces(Len(cards), same, PerAuthor)
      BY <1>2, <2>1
    <3> QED
      BY <1>6, <1>7, <2>2, <3>1, CappedSame
  <2>4. PICK at \in [DOMAIN kept -> K \cap DOMAIN cards] :
            /\ \A k \in DOMAIN kept : kept[k] = cards[at[k]]
            /\ \A j, k \in DOMAIN kept : at[j] = at[k] => j = k
    BY <1>4 DEF DrawnAt
  <2>5. S \subseteq DOMAIN kept
    BY <2>1 DEF OfAuthor
  <2>6. PICK f : f = [k \in S |-> at[k]]
    OBVIOUS
  <2>7. \A k \in S : f[k] = at[k] /\ at[k] \in T
    BY <2>1, <2>4, <2>5, <2>6 DEF OfAuthor
  <2>8. f \in [S -> T]
    BY <2>6, <2>7
  <2>9. \A j, k \in S : f[j] = f[k] => j = k
    BY <2>4, <2>5, <2>7
  <2>10. f \in Injection(S, T)
    BY <2>8, <2>9, Fun_IsInj
  <2>11. IsFiniteSet(S) /\ Cardinality(S) <= Cardinality(T)
    BY <2>3, <2>10, FS_Injection
  <2>12. Cardinality(S) \in Nat /\ Cardinality(T) \in Nat
    BY <2>3, <2>11, FS_CardinalityType
  <2> QED
    BY <1>6, <2>1, <2>3, <2>11, <2>12
<1> QED
  BY <1>2, <1>5, <1>8

LEMMA NearBodies ==
    ASSUME NEW cards, Listing(cards)
    PROVE  DrawnAt(KeepFirst(cards, NearBody), cards, DOMAIN cards)
<1>1. PICK same : same = PairsOf(cards, NearBody)
  OBVIOUS
<1>2. PICK K : K = CappedPlaces(Len(cards), same, 1)
  OBVIOUS
<1>3. KeepFirst(cards, NearBody) = Keep(cards, K)
  BY <1>1, <1>2 DEF KeepFirst
<1>4. DrawnAt(Keep(cards, K), cards, K)
  BY KeepDraws
<1>5. DrawnAt(Keep(cards, K), cards, DOMAIN cards)
  BY <1>4, DrawnWhere
<1> QED
  BY <1>3, <1>5

PlacesOf(cards, lanes) == {i \in DOMAIN cards : cards[i].site # "linkedin" /\ cards[i].lane \in lanes}

LEMMA LaneDraws ==
    ASSUME NEW cards, Listing(cards), NEW lanes
    PROVE  DrawnAt(Lane(cards, lanes), cards, PlacesOf(cards, lanes))
<1>1. PICK lane : lane = Lane(cards, lanes)
  OBVIOUS
<1>2. lane = Keep(cards, PlacesOf(cards, lanes))
  BY <1>1 DEF Lane, Only, PlacesOf
<1> QED
  BY <1>1, <1>2, KeepDraws

LEMMA DealDraws ==
    ASSUME NEW cards, Listing(cards), NEW max \in Nat
    PROVE  DrawnAt(DealByKey(cards, max), cards, DOMAIN cards)
<1>1. PICK sorted : sorted = ByWeight(cards)
  OBVIOUS
<1>2. \E less : DealByKey(cards, max) = AtPlaces(ByWeight(cards), UpTo(max, SortedPlaces(Len(ByWeight(cards)), less)))
  BY Zenon DEF DealByKey
<1>3. PICK less : DealByKey(cards, max) = AtPlaces(sorted, UpTo(max, SortedPlaces(Len(sorted), less)))
  BY <1>1, <1>2
<1>4. DrawnAt(sorted, cards, DOMAIN cards)
  BY <1>1, SortedCards
<1>5. Listing(sorted)
  BY <1>4 DEF DrawnAt
<1>6. Len(sorted) \in Nat /\ DOMAIN sorted = 1..Len(sorted)
  BY <1>5 DEF Listing
<1>7. PICK order : order = SortedPlaces(Len(sorted), less)
  OBVIOUS
<1>8. order \in Seq(DOMAIN sorted) /\ EachOnce(order)
  BY <1>6, <1>7, SortedOnce
<1>9. Listing(order) /\ max \in Int
  BY <1>8, AnyListing
<1>10. DrawnAt(UpTo(max, order), order, DOMAIN order)
  BY <1>9, UpToDraws
<1>11. UpTo(max, order) \in Seq(DOMAIN sorted) /\ EachOnce(UpTo(max, order))
  BY <1>8, <1>10, DrawnType, DrawnDistinct
<1>12. DrawnAt(AtPlaces(sorted, UpTo(max, order)), sorted, DOMAIN sorted)
  BY <1>5, <1>11, AtPlacesDraws
<1>13. DrawnAt(AtPlaces(sorted, UpTo(max, order)), cards, DOMAIN cards)
  BY <1>4, <1>12, DrawnThrough
<1> QED
  BY <1>3, <1>7, <1>13

-------------------------------------------------------------------------------
(* A build chooses its items *)

LEMMA FreshCards ==
    ASSUME NEW collected, Listing(collected), NEW seen
    PROVE  \E fresh : /\ Varied(fresh) /\ \A i \in DOMAIN fresh : IsFresh(fresh[i], seen)
                      /\ fresh = FilterSeen(DedupeCandidates(CapAuthors(KeepFirst(ByWeight(collected), NearBody))), seen)
<1>1. PICK sorted, near : sorted = ByWeight(collected) /\ near = KeepFirst(sorted, NearBody)
  OBVIOUS
<1>2. PICK capped, single : capped = CapAuthors(near) /\ single = DedupeCandidates(capped)
  OBVIOUS
<1>3. PICK fresh : fresh = FilterSeen(single, seen)
  OBVIOUS
<1>4. Listing(sorted)
  BY <1>1, SortedCards DEF DrawnAt
<1>5. Listing(near)
  BY <1>1, <1>4, NearBodies DEF DrawnAt
<1>6. DrawnAt(capped, near, DOMAIN near) /\ \A a : a # NoAuthor => Cardinality(OfAuthor(capped, a)) <= PerAuthor
  BY <1>2, <1>5, AuthorsCapped
<1>7. Listing(capped)
  BY <1>6 DEF DrawnAt
<1>8. DrawnAt(single, capped, DOMAIN capped) /\ \A i, j \in DOMAIN single : i # j => ~SameCard(single[i], single[j])
  BY <1>2, <1>7, SingleCards
<1>9. PICK at \in [DOMAIN single -> DOMAIN capped \cap DOMAIN capped] :
          /\ \A k \in DOMAIN single : single[k] = capped[at[k]]
          /\ \A j, k \in DOMAIN single : at[j] = at[k] => j = k
  BY <1>8 DEF DrawnAt
<1>10. Varied(single)
  <2>1. Listing(single)
    BY <1>8 DEF DrawnAt
  <2>2. ASSUME NEW a, a # NoAuthor PROVE Cardinality(OfAuthor(single, a)) <= PerAuthor
    <3>1. PICK S, T : S = OfAuthor(single, a) /\ T = OfAuthor(capped, a)
      OBVIOUS
    <3>2. S \subseteq DOMAIN single /\ T \subseteq DOMAIN capped
      BY <3>1 DEF OfAuthor
    <3>3. DOMAIN single = 1..Len(single) /\ Len(single) \in Nat /\ DOMAIN capped = 1..Len(capped) /\ Len(capped) \in Nat
      BY <1>7, <2>1 DEF Listing
    <3>4. IsFiniteSet(1..Len(single)) /\ IsFiniteSet(1..Len(capped))
      BY <3>3, FS_Interval
    <3>5. IsFiniteSet(S) /\ IsFiniteSet(T)
      BY <3>2, <3>3, <3>4, FS_Subset
    <3>6. Cardinality(S) \in Nat /\ Cardinality(T) \in Nat
      BY <3>5, FS_CardinalityType
    <3>7. \A k \in S, m \in DOMAIN capped : single[k] = capped[m] => m \in T
      BY <3>1 DEF OfAuthor
    <3>8. Cardinality(S) <= Cardinality(T)
      BY <1>8, <3>2, <3>5, <3>7, DrawnFewer
    <3>9. Cardinality(T) <= PerAuthor
      BY <1>6, <2>2, <3>1
    <3>10. PerAuthor \in Nat
      BY DailyDigestAssumption
    <3> QED
      BY <3>1, <3>6, <3>8, <3>9, <3>10
  <2> QED
    BY <1>8, <2>1, <2>2 DEF Varied
<1>11. PICK places : /\ places = {i \in DOMAIN single : single[i].lane \in ItcLanes \/ single[i].url \notin seen}
                     /\ fresh = Keep(single, places)
  BY <1>3 DEF FilterSeen, Only
<1>12. DrawnAt(fresh, single, places)
  BY <1>10, <1>11, KeepDraws DEF Varied
<1>13. Varied(fresh)
  BY <1>10, <1>12, VariedDrawn
<1>14. \A i \in DOMAIN fresh : IsFresh(fresh[i], seen)
  BY <1>11, <1>12 DEF DrawnAt, IsFresh
<1> QED
  BY <1>1, <1>2, <1>3, <1>13, <1>14

\* The press of a digest is articles.
LEMMA PressDraws ==
    ASSUME NEW cards, Listing(cards)
    PROVE  DrawnAt(PressItems(cards), cards, {i \in DOMAIN cards : IsArticle(cards[i])})
<1>1. PICK dealt : dealt = DealByKey(cards, PressPool)
  OBVIOUS
<1>2. PICK places : places = {i \in DOMAIN dealt : IsArticle(dealt[i])}
  OBVIOUS
<1>3. PressItems(cards) = UpTo(PressMax, Keep(dealt, places))
  BY <1>1, <1>2 DEF PressItems, Only
<1>4. PressPool \in Nat /\ PressMax \in Int
  BY DailyDigestAssumption
<1>5. DrawnAt(dealt, cards, DOMAIN cards)
  BY <1>1, <1>4, DealDraws
<1>6. PICK kept, press : kept = Keep(dealt, places) /\ press = UpTo(PressMax, kept)
  OBVIOUS
<1>7. DrawnAt(kept, dealt, places)
  BY <1>5, <1>6, KeepDraws DEF DrawnAt
<1>8. Listing(kept)
  BY <1>7 DEF DrawnAt
<1>9. DrawnAt(press, kept, DOMAIN kept)
  BY <1>4, <1>6, <1>8, UpToDraws
<1>10. DrawnAt(press, dealt, places)
  BY <1>7, <1>9, DrawnThrough
<1>11. DrawnAt(press, cards, DOMAIN cards)
  BY <1>5, <1>10, DrawnThrough
<1>12. \A k \in DOMAIN press : IsArticle(press[k])
  BY <1>2, <1>10 DEF DrawnAt
<1>13. PICK Q : Q = {i \in DOMAIN cards : IsArticle(cards[i])}
  OBVIOUS
<1>14. \A k \in DOMAIN press, i \in DOMAIN cards \cap DOMAIN cards : press[k] = cards[i] => i \in Q
  BY <1>12, <1>13
<1>15. DrawnAt(press, cards, Q)
  BY <1>11, <1>14, DrawnWhere
<1> QED
  BY <1>3, <1>6, <1>13, <1>15

\* What is drawn from a lane is drawn from the cards of it.
LEMMA LaneItems ==
    ASSUME NEW cards, Listing(cards), NEW lanes, NEW list, NEW P, DrawnAt(list, Lane(cards, lanes), P)
    PROVE  DrawnAt(list, cards, PlacesOf(cards, lanes))
<1>1. DrawnAt(Lane(cards, lanes), cards, PlacesOf(cards, lanes))
  BY LaneDraws
<1> QED
  BY <1>1, DrawnThrough

LEMMA DigestFine ==
    ASSUME NEW collected, Listing(collected), NEW seen
    PROVE  ItemsFine(DigestItems(collected, seen), seen)
<1>1. PICK fresh : /\ Varied(fresh) /\ \A i \in DOMAIN fresh : IsFresh(fresh[i], seen)
                   /\ fresh = FilterSeen(DedupeCandidates(CapAuthors(KeepFirst(ByWeight(collected), NearBody))), seen)
  BY FreshCards
<1>2. PICK press, you, followed, x, itc :
          /\ press = PressItems(Lane(fresh, {"live_site"}))
          /\ you = UpTo(HomeMax, Lane(fresh, {"for_you"}))
          /\ followed = UpTo(HomeMax, Lane(fresh, {"following"}))
          /\ x = DealByKey(Lane(fresh, {"twitter"}), SearchMax)
          /\ itc = UpTo(ItcMax, Lane(fresh, ItcLanes))
  OBVIOUS
<1>3. DigestItems(collected, seen) = (((press \o you) \o followed) \o x) \o itc
  BY <1>1, <1>2 DEF DigestItems
<1>4. Listing(fresh)
  BY <1>1 DEF Varied
<1>5. \A lanes : Listing(Lane(fresh, lanes))
  BY <1>4, LaneDraws DEF DrawnAt
<1>6. HomeMax \in Int /\ ItcMax \in Int /\ SearchMax \in Nat
  BY DailyDigestAssumption
<1>7. PICK pPress, pYou, pFollowed, pX, pItc :
          /\ pPress = {i \in PlacesOf(fresh, {"live_site"}) : IsArticle(fresh[i])}
          /\ pYou = PlacesOf(fresh, {"for_you"}) /\ pFollowed = PlacesOf(fresh, {"following"})
          /\ pX = PlacesOf(fresh, {"twitter"}) /\ pItc = PlacesOf(fresh, ItcLanes)
  OBVIOUS
<1>8. DrawnAt(press, fresh, pPress)
  <2>1. PICK lane, Q : lane = Lane(fresh, {"live_site"}) /\ Q = {i \in DOMAIN lane : IsArticle(lane[i])}
    OBVIOUS
  <2>2. Listing(lane)
    BY <1>5, <2>1
  <2>3. DrawnAt(press, lane, Q)
    BY <1>2, <2>1, <2>2, PressDraws
  <2>4. DrawnAt(press, fresh, PlacesOf(fresh, {"live_site"}))
    BY <1>4, <2>1, <2>3, LaneItems
  <2>5. \A k \in DOMAIN press : IsArticle(press[k])
    BY <2>1, <2>3 DEF DrawnAt
  <2>6. \A k \in DOMAIN press, i \in PlacesOf(fresh, {"live_site"}) \cap DOMAIN fresh : press[k] = fresh[i] => i \in pPress
    BY <1>7, <2>5
  <2> QED
    BY <2>4, <2>6, DrawnWhere
<1>9. DrawnAt(you, fresh, pYou)
  <2>1. DrawnAt(you, Lane(fresh, {"for_you"}), DOMAIN Lane(fresh, {"for_you"}))
    BY <1>2, <1>5, <1>6, UpToDraws
  <2> QED
    BY <1>4, <1>7, <2>1, LaneItems
<1>10. DrawnAt(followed, fresh, pFollowed)
  <2>1. DrawnAt(followed, Lane(fresh, {"following"}), DOMAIN Lane(fresh, {"following"}))
    BY <1>2, <1>5, <1>6, UpToDraws
  <2> QED
    BY <1>4, <1>7, <2>1, LaneItems
<1>11. DrawnAt(x, fresh, pX)
  <2>1. DrawnAt(x, Lane(fresh, {"twitter"}), DOMAIN Lane(fresh, {"twitter"}))
    BY <1>2, <1>5, <1>6, DealDraws
  <2> QED
    BY <1>4, <1>7, <2>1, LaneItems
<1>12. DrawnAt(itc, fresh, pItc)
  <2>1. DrawnAt(itc, Lane(fresh, ItcLanes), DOMAIN Lane(fresh, ItcLanes))
    BY <1>2, <1>5, <1>6, UpToDraws
  <2> QED
    BY <1>4, <1>7, <2>1, LaneItems
<1>13. /\ pPress \cap pYou = {} /\ (pPress \cup pYou) \cap pFollowed = {}
       /\ ((pPress \cup pYou) \cup pFollowed) \cap pX = {}
       /\ (((pPress \cup pYou) \cup pFollowed) \cup pX) \cap pItc = {}
  BY <1>7 DEF PlacesOf, ItcLanes
<1>14. PICK two, three, four, P2, P3, P4 :
          /\ two = press \o you /\ P2 = pPress \cup pYou
          /\ three = two \o followed /\ P3 = P2 \cup pFollowed
          /\ four = three \o x /\ P4 = P3 \cup pX
  OBVIOUS
<1>15. DrawnAt(two, fresh, P2)
  BY <1>8, <1>9, <1>13, <1>14, JoinDraws
<1>16. P2 \cap pFollowed = {}
  BY <1>13, <1>14
<1>17. DrawnAt(three, fresh, P3)
  BY <1>10, <1>14, <1>15, <1>16, JoinDraws
<1>18. P3 \cap pX = {} /\ P4 \cap pItc = {}
  BY <1>13, <1>14
<1>19. DrawnAt(four, fresh, P4)
  BY <1>11, <1>14, <1>17, <1>18, JoinDraws
<1>20. PICK items, P : items = four \o itc /\ P = P4 \cup pItc
  OBVIOUS
<1>21. DrawnAt(items, fresh, P)
  BY <1>12, <1>18, <1>19, <1>20, JoinDraws
<1>22. \A i \in P : IsNews(fresh[i])
  BY <1>7, <1>14, <1>20 DEF PlacesOf, IsNews, ItcLanes
<1>23. Varied(items)
  BY <1>1, <1>21, VariedDrawn
<1>24. \A k \in DOMAIN items : IsFresh(items[k], seen) /\ IsNews(items[k])
  <2>1. PICK at \in [DOMAIN items -> P \cap DOMAIN fresh] : \A k \in DOMAIN items : items[k] = fresh[at[k]]
    BY <1>21 DEF DrawnAt
  <2> QED
    BY <1>1, <1>22, <2>1
<1>25. ItemsFine(items, seen)
  BY <1>23, <1>24 DEF ItemsFine
<1>26. DigestItems(collected, seen) = items
  BY <1>3, <1>14, <1>20
<1> QED
  BY <1>25, <1>26

\* What a collection brings is a list.
LEMMA CollectedList ==
    ASSUME NEW pull \in Pulls, NEW seen
    PROVE  Listing(FetchHubs(pull.hubs, seen) \o pull.x \o ItcCandidates(pull))
<1>1. Listing(pull.hubs) /\ Listing(pull.x) /\ Listing(Catalog)
  BY DailyDigestAssumption, AnyListing DEF IsList
<1>2. Listing(FetchHubs(pull.hubs, seen))
  <2>1. PICK accepted : accepted = Only(pull.hubs, Accepted)
    OBVIOUS
  <2>2. Listing(accepted)
    <3>1. PICK places : places = {i \in DOMAIN pull.hubs : Accepted(pull.hubs[i])}
      OBVIOUS
    <3>2. accepted = Keep(pull.hubs, places)
      BY <2>1, <3>1 DEF Only
    <3> QED
      BY <1>1, <3>2, KeepDraws DEF DrawnAt
  <2>3. PICK links : links = HubLinks(pull.hubs)
    OBVIOUS
  <2>4. \E places : links = Keep(accepted, places)
    BY <2>1, <2>3, Zenon DEF HubLinks, KeepFirst
  <2>5. Listing(links)
    BY <2>2, <2>4, KeepDraws DEF DrawnAt
  <2>6. PICK fresh : fresh = Keep(links, {i \in DOMAIN links : links[i].url \notin seen})
    OBVIOUS
  <2>7. Listing(fresh)
    BY <2>5, <2>6, KeepDraws DEF DrawnAt
  <2>8. \E some : FetchHubs(pull.hubs, seen) = Keep(fresh, some)
    <3>1. \E some : FetchHubs(pull.hubs, seen)
                       = Keep(Keep(HubLinks(pull.hubs), {i \in DOMAIN HubLinks(pull.hubs) : HubLinks(pull.hubs)[i].url \notin seen}), some)
      BY Zenon DEF FetchHubs, Only
    <3> QED
      BY <2>3, <2>6, <3>1
  <2> QED
    BY <2>7, <2>8, KeepDraws DEF DrawnAt
<1>3. Listing(ItcCandidates(pull))
  <2>1. PICK eligible : eligible = Eligible
    OBVIOUS
  <2>2. Listing(eligible)
    <3>1. Eligible = Keep(Catalog, {i \in DOMAIN Catalog : Catalog[i] \notin Skipped})
      BY Zenon DEF Eligible, Only
    <3> QED
      BY <1>1, <2>1, <3>1, KeepDraws DEF DrawnAt
  <2>3. PICK ranked : ranked = RankedBranches(pull.answered)
    OBVIOUS
  <2>4. \E less : ranked = AtPlaces(eligible, SortedPlaces(Len(eligible), less))
    BY <2>1, <2>3, Zenon DEF RankedBranches, Sorted
  <2>5. Listing(ranked)
    BY <2>2, <2>4, SortDraws DEF DrawnAt
  <2>6. PICK some : some = UpTo(ItcMax, ranked)
    OBVIOUS
  <2>7. Listing(some)
    <3>1. ItcMax \in Int
      BY DailyDigestAssumption
    <3> QED
      BY <2>5, <2>6, <3>1, UpToDraws DEF DrawnAt
  <2>8. PICK cards : cards = LabelFiveFive(some, pull.answered, pull.news)
    OBVIOUS
  <2>9. cards = [i \in DOMAIN some |-> cards[i]]
    BY <2>8 DEF LabelFiveFive
  <2>10. PICK A : A = {cards[i] : i \in DOMAIN some}
    OBVIOUS
  <2>11. DOMAIN some = 1..Len(some) /\ Len(some) \in Nat
    BY <2>7 DEF Listing
  <2>12. cards = [i \in 1..Len(some) |-> cards[i]] /\ \A i \in 1..Len(some) : cards[i] \in A
    BY <2>9, <2>10, <2>11
  <2>13. cards \in Seq(A)
    BY <2>11, <2>12, IsASeq
  <2>14. Listing(cards)
    BY <2>13, AnyListing
  <2> QED
    BY <2>3, <2>6, <2>8, <2>14, EmptyList DEF ItcCandidates
<1>4. Listing(FetchHubs(pull.hubs, seen) \o pull.x)
  BY <1>1, <1>2, JoinedLists
<1> QED
  BY <1>3, <1>4, JoinedLists

-------------------------------------------------------------------------------
(* Builds, rows and lines *)

\* The addresses of the days before, among those that were shown when the build began.
Earlier(before, began) == {shown[2] : shown \in {s \in before : s[1] < began /\ s[1] + Lookback >= began}}

BuildRec(at, began, before, seen, items, ord, id) ==
    [at |-> at, began |-> began, before |-> before, seen |-> seen, items |-> items, ord |-> ord, id |-> id]
RowRec(id, began, before, items) == [id |-> id, began |-> began, before |-> before, items |-> items]

\* row is what a build has inserted so far, and there is more.
Inserting(r, row) ==
    /\ row.id = r.id /\ row.began = r.began /\ row.before = r.before
    /\ Len(row.items) < Len(r.items)
    /\ \A i \in DOMAIN row.items : i \in DOMAIN r.items /\ row.items[i] = r.items[i]

BuilderFine(r, stored) ==
    /\ r = BuildRec(r.at, r.began, r.before, r.seen, r.items, r.ord, r.id)
    /\ r.at # "idle" => Earlier(r.before, r.began) \subseteq r.seen
    /\ r.at \notin {"idle", "collect"} => Len(r.items) > 0 /\ ItemsFine(r.items, Earlier(r.before, r.began))
    /\ r.at = "items" => \E n \in DOMAIN stored : Inserting(r, stored[n])

RowFine(row) ==
    /\ row = RowRec(row.id, row.began, row.before, row.items)
    /\ ItemsFine(row.items, Earlier(row.before, row.began))

\* A line that was shown stands for the item it was shown with.
LineFine(line, stored) ==
    \E n \in DOMAIN stored :
        stored[n].id = line.id /\ line.idx \in DOMAIN stored[n].items /\ stored[n].items[line.idx] = line.item

StoredFine(stored) ==
    /\ Listing(stored)
    /\ \A n \in DOMAIN stored : RowFine(stored[n])
    /\ \A m, n \in DOMAIN stored : stored[m].id = stored[n].id => m = n

DgInv ==
    /\ StoredFine(dgStored)
    /\ dgBuild = [b \in Builders |-> dgBuild[b]]
    /\ \A b \in Builders : BuilderFine(dgBuild[b], dgStored)
    /\ \A b, c \in Builders :
          dgBuild[b].at = "items" /\ dgBuild[c].at = "items" /\ dgBuild[b].id = dgBuild[c].id => b = c
    /\ \A line \in dgPrinted : LineFine(line, dgStored)
    /\ LinesPickWhatTheyShow

\* Rows are only added, and items to rows.
RowsGrow(old, new) ==
    \A n \in DOMAIN old :
        /\ n \in DOMAIN new /\ new[n].id = old[n].id
        /\ \A i \in DOMAIN old[n].items : i \in DOMAIN new[n].items /\ new[n].items[i] = old[n].items[i]

LEMMA LinesStay ==
    ASSUME NEW old, NEW new, RowsGrow(old, new), NEW line, LineFine(line, old)
    PROVE  LineFine(line, new)
  BY DEF RowsGrow, LineFine

\* A build in another place.
LEMMA OtherPlace ==
    ASSUME NEW pc, NEW began, NEW before, NEW seen, NEW items, NEW ord, NEW id, NEW r,
           r = BuildRec(pc, began, before, seen, items, ord, id), NEW at
    PROVE  [r EXCEPT !.at = at] = BuildRec(at, began, before, seen, items, ord, id)
  BY DEF BuildRec

\* One builder moves on.
LEMMA BuilderMoves ==
    ASSUME DgInv, NEW b \in Builders, NEW r, dgBuild' = [dgBuild EXCEPT ![b] = r],
           BuilderFine(r, dgStored), r.at # "items", UNCHANGED <<dgStored, dgPrinted, dgSaid>>
    PROVE  DgInv'
<1>1. dgBuild'[b] = r /\ \A c \in Builders \ {b} : dgBuild'[c] = dgBuild[c]
  BY DEF DgInv
<1>2. dgBuild' = [c \in Builders |-> dgBuild'[c]]
  BY DEF DgInv
<1>3. \A c \in Builders : BuilderFine(dgBuild'[c], dgStored')
  BY <1>1 DEF DgInv
<1>4. \A c, d \in Builders :
          dgBuild'[c].at = "items" /\ dgBuild'[d].at = "items" /\ dgBuild'[c].id = dgBuild'[d].id => c = d
  BY <1>1 DEF DgInv
<1>5. StoredFine(dgStored') /\ \A line \in dgPrinted' : LineFine(line, dgStored')
  BY DEF DgInv
<1>6. LinesPickWhatTheyShow'
  BY DEF DgInv, LinesPickWhatTheyShow
<1> QED
  BY <1>2, <1>3, <1>4, <1>5, <1>6 DEF DgInv

LEMMA IdleFine ==
    ASSUME NEW stored
    PROVE  BuilderFine(IdleBuild, stored) /\ IdleBuild.at = "idle"
  BY DEF BuilderFine, IdleBuild, BuildRec

\* A build leaves out what the days before have shown when it begins.
LEMMA SeenCovers == Earlier(Shown, dgToday) \subseteq SeenKeys(dgToday)
<1>1. ASSUME NEW u \in Earlier(Shown, dgToday) PROVE u \in SeenKeys(dgToday)
  <2>1. PICK shown \in Shown : shown[1] < dgToday /\ shown[1] + Lookback >= dgToday /\ u = shown[2]
    BY DEF Earlier
  <2>2. PICK n \in DOMAIN dgStored :
            shown \in {<<dgStored[n].id[1], dgStored[n].items[i].url>> : i \in DOMAIN dgStored[n].items}
    BY <2>1 DEF Shown
  <2>3. PICK i \in DOMAIN dgStored[n].items : shown = <<dgStored[n].id[1], dgStored[n].items[i].url>>
    BY <2>2
  <2>4. shown[1] = dgStored[n].id[1] /\ u = dgStored[n].items[i].url
    BY <2>1, <2>3
  <2>5. n \in {m \in DOMAIN dgStored : dgStored[m].id[1] < dgToday /\ dgStored[m].id[1] + Lookback >= dgToday}
    BY <2>1, <2>4
  <2>6. u \in {dgStored[n].items[k].url : k \in DOMAIN dgStored[n].items}
    BY <2>4
  <2> QED
    BY <2>5, <2>6 DEF SeenKeys
<1> QED
  BY <1>1

LEMMA FineOfLess ==
    ASSUME NEW items, NEW seen, ItemsFine(items, seen), NEW less, less \subseteq seen
    PROVE  ItemsFine(items, less)
  BY DEF ItemsFine, IsFresh

LEMMA StartFine ==
    ASSUME DgInv, NEW b \in Builders, StartDigest(b)
    PROVE  DgInv'
<1>1. PICK r : r = BuildRec("collect", dgToday, Shown, SeenKeys(dgToday), IdleBuild.items, IdleBuild.ord, IdleBuild.id)
  OBVIOUS
<1>2. dgBuild' = [dgBuild EXCEPT ![b] = r]
  <2>1. PICK idle, today, before, seen : idle = IdleBuild /\ today = dgToday /\ before = Shown /\ seen = SeenKeys(dgToday)
    OBVIOUS
  <2>2. PICK q : q = [idle EXCEPT !.at = "collect", !.began = today, !.before = before, !.seen = seen]
    OBVIOUS
  <2>3. q = [at |-> "collect", began |-> today, before |-> before, seen |-> seen, items |-> <<>>, ord |-> 0, id |-> NoId]
    BY <2>1, <2>2 DEF IdleBuild
  <2>4. r = q
    BY <1>1, <2>1, <2>3 DEF BuildRec, IdleBuild
  <2> QED
    BY <2>1, <2>2, <2>4 DEF StartDigest, SetBuild
<1>3. BuilderFine(r, dgStored) /\ r.at # "items"
  BY <1>1, SeenCovers DEF BuilderFine, BuildRec
<1> QED
  BY <1>2, <1>3, BuilderMoves DEF StartDigest

LEMMA CollectFine ==
    ASSUME DgInv, NEW b \in Builders, NEW pull \in Pulls, CollectDigest(b, pull)
    PROVE  DgInv'
<1>1. PICK old, collected, items :
          /\ old = dgBuild[b]
          /\ collected = FetchHubs(pull.hubs, old.seen) \o pull.x \o ItcCandidates(pull)
          /\ items = DigestItems(collected, old.seen)
  OBVIOUS
<1>2. /\ old.at = "collect" /\ SetItems(b, items) /\ UNCHANGED <<dgStored, dgPrinted, dgSaid>>
  BY <1>1 DEF CollectDigest
<1>3. Listing(collected)
  BY <1>1, CollectedList
<1>4. ItemsFine(items, old.seen)
  BY <1>1, <1>3, DigestFine
<1>5. BuilderFine(old, dgStored)
  BY <1>1 DEF DgInv
<1>6. CASE items = <<>>
  <2>1. dgBuild' = [dgBuild EXCEPT ![b] = IdleBuild]
    BY <1>2, <1>6 DEF SetItems, SetBuild
  <2>2. BuilderFine(IdleBuild, dgStored) /\ IdleBuild.at # "items"
    BY IdleFine
  <2> QED
    BY <1>2, <2>1, <2>2, BuilderMoves
<1>7. CASE items # <<>>
  <2>1. PICK r : r = BuildRec("order", old.began, old.before, old.seen, items, old.ord, old.id)
    OBVIOUS
  <2>2. old = BuildRec(old.at, old.began, old.before, old.seen, old.items, old.ord, old.id)
    BY <1>5 DEF BuilderFine
  <2>3. r = [old EXCEPT !.at = "order", !.items = items]
    <3>1. PICK pc, began, before, seen, had, ord, id :
              /\ pc = old.at /\ began = old.began /\ before = old.before /\ seen = old.seen
              /\ had = old.items /\ ord = old.ord /\ id = old.id
      OBVIOUS
    <3>2. old = BuildRec(pc, began, before, seen, had, ord, id)
      BY <2>2, <3>1
    <3>3. PICK new : new = [old EXCEPT !.at = "order", !.items = items]
      OBVIOUS
    <3>4. new = BuildRec("order", began, before, seen, items, ord, id)
      BY <3>2, <3>3 DEF BuildRec
    <3> QED
      BY <2>1, <3>1, <3>3, <3>4
  <2>4. dgBuild' = [dgBuild EXCEPT ![b] = r]
    BY <1>1, <1>2, <1>7, <2>3 DEF SetItems, SetBuild
  <2>5. Earlier(old.before, old.began) \subseteq old.seen
    BY <1>2, <1>5 DEF BuilderFine
  <2>6. ItemsFine(items, Earlier(old.before, old.began))
    BY <1>4, <2>5, FineOfLess
  <2>7. Len(items) > 0
    <3>1. items \in Seq({items[i] : i \in DOMAIN items})
      BY <1>4 DEF ItemsFine, Varied, Listing
    <3> QED
      BY <1>7, <3>1, EmptySeq
  <2>8. /\ r.at = "order" /\ r.items = items /\ r.before = old.before /\ r.began = old.began /\ r.seen = old.seen
        /\ r = BuildRec(r.at, r.began, r.before, r.seen, r.items, r.ord, r.id)
    BY <2>1 DEF BuildRec
  <2>9. BuilderFine(r, dgStored) /\ r.at # "items"
    BY <2>5, <2>6, <2>7, <2>8 DEF BuilderFine
  <2> QED
    BY <1>2, <2>4, <2>9, BuilderMoves
<1> QED
  BY <1>6, <1>7

\* Reading the order and making the id leave the items.
LEMMA NumberFine ==
    ASSUME DgInv, NEW b \in Builders, ReadOrder(b) \/ NextDigestId(b)
    PROVE  DgInv'
<1>1. PICK old : old = dgBuild[b]
  OBVIOUS
<1>2. BuilderFine(old, dgStored)
  BY <1>1 DEF DgInv
<1>3. old = BuildRec(old.at, old.began, old.before, old.seen, old.items, old.ord, old.id)
  BY <1>2 DEF BuilderFine
<1>4. ASSUME NEW at, NEW ord, NEW id, at \notin {"idle", "collect", "items"}, old.at \notin {"idle", "collect"},
             dgBuild' = [dgBuild EXCEPT ![b] = BuildRec(at, old.began, old.before, old.seen, old.items, ord, id)],
             UNCHANGED <<dgStored, dgPrinted, dgSaid>>
      PROVE  DgInv'
  <2>1. PICK r : r = BuildRec(at, old.began, old.before, old.seen, old.items, ord, id)
    OBVIOUS
  <2>2. /\ r.at = at /\ r.items = old.items /\ r.before = old.before /\ r.began = old.began /\ r.seen = old.seen
        /\ r = BuildRec(r.at, r.began, r.before, r.seen, r.items, r.ord, r.id)
    BY <2>1 DEF BuildRec
  <2>3. BuilderFine(r, dgStored) /\ r.at # "items"
    BY <1>2, <1>4, <2>2 DEF BuilderFine
  <2> QED
    BY <1>4, <2>1, <2>3, BuilderMoves
<1>5. CASE ReadOrder(b)
  <2>1. /\ old.at = "order" /\ dgBuild' = [dgBuild EXCEPT ![b] = [old EXCEPT !.at = "id", !.ord = dgSeq + 1]]
        /\ UNCHANGED <<dgStored, dgPrinted, dgSaid>>
    BY <1>1, <1>5 DEF ReadOrder, SetBuild
  <2>2. PICK at, ord, id, next : at = "id" /\ ord = dgSeq + 1 /\ id = old.id /\ next = [old EXCEPT !.at = at, !.ord = ord]
    OBVIOUS
  <2>3. next = BuildRec(at, old.began, old.before, old.seen, old.items, ord, id)
    <3>1. PICK pc, began, before, seen, items, was, had :
              /\ pc = old.at /\ began = old.began /\ before = old.before /\ seen = old.seen
              /\ items = old.items /\ was = old.ord /\ had = old.id
      OBVIOUS
    <3>2. old = BuildRec(pc, began, before, seen, items, was, had)
      BY <1>3, <3>1
    <3>3. next = BuildRec(at, began, before, seen, items, ord, had)
      BY <2>2, <3>2 DEF BuildRec
    <3> QED
      BY <2>2, <3>1, <3>3
  <2>4. dgBuild' = [dgBuild EXCEPT ![b] = next] /\ at \notin {"idle", "collect", "items"} /\ old.at \notin {"idle", "collect"}
    BY <2>1, <2>2
  <2> QED
    BY <1>4, <2>1, <2>3, <2>4
<1>6. CASE NextDigestId(b)
  <2>1. /\ old.at = "id" /\ dgBuild' = [dgBuild EXCEPT ![b] = [old EXCEPT !.at = "header", !.id = <<dgToday, old.ord>>]]
        /\ UNCHANGED <<dgStored, dgPrinted, dgSaid>>
    BY <1>1, <1>6 DEF NextDigestId, SetBuild
  <2>2. PICK at, ord, id, next : at = "header" /\ ord = old.ord /\ id = <<dgToday, old.ord>> /\ next = [old EXCEPT !.at = at, !.id = id]
    OBVIOUS
  <2>3. next = BuildRec(at, old.began, old.before, old.seen, old.items, ord, id)
    <3>1. PICK pc, began, before, seen, items, was, had :
              /\ pc = old.at /\ began = old.began /\ before = old.before /\ seen = old.seen
              /\ items = old.items /\ was = old.ord /\ had = old.id
      OBVIOUS
    <3>2. old = BuildRec(pc, began, before, seen, items, was, had)
      BY <1>3, <3>1
    <3>3. next = BuildRec(at, began, before, seen, items, was, id)
      BY <2>2, <3>2 DEF BuildRec
    <3> QED
      BY <2>2, <3>1, <3>3
  <2>4. dgBuild' = [dgBuild EXCEPT ![b] = next] /\ at \notin {"idle", "collect", "items"} /\ old.at \notin {"idle", "collect"}
    BY <2>1, <2>2
  <2> QED
    BY <1>4, <2>1, <2>3, <2>4
<1> QED
  BY <1>5, <1>6

-------------------------------------------------------------------------------
(* Rows and items are inserted *)

\* One builder moves on and inserts.
LEMMA BuilderInserts ==
    ASSUME DgInv, NEW b \in Builders, NEW r, dgBuild' = [dgBuild EXCEPT ![b] = r],
           StoredFine(dgStored'), RowsGrow(dgStored, dgStored'), BuilderFine(r, dgStored'),
           \A c \in Builders \ {b} : dgBuild[c].at = "items" =>
               \E n \in DOMAIN dgStored' : Inserting(dgBuild[c], dgStored'[n]),
           \A c \in Builders \ {b} : r.at = "items" /\ dgBuild[c].at = "items" => dgBuild[c].id # r.id,
           UNCHANGED <<dgPrinted, dgSaid>>
    PROVE  DgInv'
<1>1. dgBuild'[b] = r /\ \A c \in Builders \ {b} : dgBuild'[c] = dgBuild[c]
  BY DEF DgInv
<1>2. dgBuild' = [c \in Builders |-> dgBuild'[c]]
  BY DEF DgInv
<1>3. ASSUME NEW c \in Builders PROVE BuilderFine(dgBuild'[c], dgStored')
  <2>1. CASE c = b
    BY <1>1, <2>1
  <2>2. CASE c # b
    <3>1. BuilderFine(dgBuild[c], dgStored)
      BY DEF DgInv
    <3>2. BuilderFine(dgBuild[c], dgStored')
      BY <2>2, <3>1 DEF BuilderFine
    <3> QED
      BY <1>1, <2>2, <3>2
  <2> QED
    BY <2>1, <2>2
<1>4. ASSUME NEW c \in Builders, NEW d \in Builders,
             dgBuild'[c].at = "items", dgBuild'[d].at = "items", dgBuild'[c].id = dgBuild'[d].id
      PROVE  c = d
  <2>1. CASE c # b /\ d # b
    BY <1>1, <1>4, <2>1 DEF DgInv
  <2>2. CASE c = b \/ d = b
    BY <1>1, <1>4, <2>2
  <2> QED
    BY <2>1, <2>2
<1>5. \A line \in dgPrinted' : LineFine(line, dgStored')
  BY LinesStay DEF DgInv
<1>6. LinesPickWhatTheyShow'
  BY DEF DgInv, LinesPickWhatTheyShow
<1> QED
  BY <1>2, <1>3, <1>4, <1>5, <1>6 DEF DgInv

LEMMA HeaderFine ==
    ASSUME DgInv, NEW b \in Builders, InsertHeader(b)
    PROVE  DgInv'
<1>1. PICK old, row : old = dgBuild[b] /\ row = RowRec(old.id, old.began, old.before, <<>>)
  OBVIOUS
<1>2. BuilderFine(old, dgStored) /\ old.at = "header" /\ UNCHANGED <<dgPrinted, dgSaid>>
  BY <1>1 DEF DgInv, InsertHeader
<1>3. CASE Stored(old.id) # {}
  <2>1. dgBuild' = [dgBuild EXCEPT ![b] = IdleBuild] /\ dgStored' = dgStored
    BY <1>1, <1>3 DEF InsertHeader, SetBuild
  <2>2. BuilderFine(IdleBuild, dgStored) /\ IdleBuild.at # "items"
    BY IdleFine
  <2> QED
    BY <1>2, <2>1, <2>2, BuilderMoves
<1>4. CASE Stored(old.id) = {}
  <2>1. PICK r, n : r = BuildRec("items", old.began, old.before, old.seen, old.items, old.ord, old.id) /\ n = Len(dgStored) + 1
    OBVIOUS
  <2>2. dgBuild' = [dgBuild EXCEPT ![b] = r]
    <3>1. old = BuildRec(old.at, old.began, old.before, old.seen, old.items, old.ord, old.id)
      BY <1>2 DEF BuilderFine
    <3>2. [old EXCEPT !.at = "items"] = r
      BY <2>1, <3>1 DEF BuildRec
    <3> QED
      BY <1>1, <1>4, <3>2 DEF InsertHeader, SetBuild
  <2>3. dgStored' = Append(dgStored, row)
    BY <1>1, <1>4 DEF InsertHeader, RowRec
  <2>4. Listing(dgStored)
    BY DEF DgInv, StoredFine
  <2>5. /\ Listing(dgStored') /\ DOMAIN dgStored' = 1..n /\ DOMAIN dgStored = 1..(n - 1) /\ n \in Nat \ {0}
        /\ dgStored'[n] = row /\ \A k \in DOMAIN dgStored : k \in DOMAIN dgStored' /\ dgStored'[k] = dgStored[k]
    <3>1. PICK S : dgStored \in Seq(S)
      BY <2>4 DEF Listing
    <3>2. PICK T : T = S \cup {row}
      OBVIOUS
    <3>3. dgStored \in Seq(T) /\ row \in T
      BY <3>1, <3>2, SeqMonotonic
    <3>4. /\ Append(dgStored, row) \in Seq(T) /\ Len(Append(dgStored, row)) = Len(dgStored) + 1
          /\ \A k \in 1..Len(dgStored) : Append(dgStored, row)[k] = dgStored[k]
          /\ Append(dgStored, row)[Len(dgStored) + 1] = row
      BY <3>3, AppendProperties
    <3>5. Listing(Append(dgStored, row))
      BY <3>4, AnyListing
    <3>6. Len(dgStored) \in Nat /\ DOMAIN dgStored = 1..Len(dgStored) /\ DOMAIN Append(dgStored, row) = 1..(Len(dgStored) + 1)
      BY <3>1, <3>4
    <3> QED
      BY <2>1, <2>3, <3>4, <3>5, <3>6
  <2>6. row.id = old.id /\ row.began = old.began /\ row.before = old.before /\ row.items = <<>>
    BY <1>1 DEF RowRec
  <2>7. RowFine(row)
    <3>1. row = RowRec(row.id, row.began, row.before, row.items)
      BY <1>1, <2>6
    <3>2. Listing(<<>>) /\ DOMAIN <<>> = {}
      BY EmptyList
    <3>3. ItemsFine(<<>>, Earlier(row.before, row.began))
      BY <3>2 DEF ItemsFine, Varied
    <3> QED
      BY <2>6, <3>1, <3>3 DEF RowFine
  <2>8. \A k \in DOMAIN dgStored : dgStored[k].id # old.id
    BY <1>4 DEF Stored
  <2>9. \A k \in DOMAIN dgStored' : k \in DOMAIN dgStored \/ k = n
    BY <2>5
  <2>10. StoredFine(dgStored')
    <3>1. \A k \in DOMAIN dgStored' : RowFine(dgStored'[k])
      BY <2>5, <2>7, <2>9 DEF DgInv, StoredFine
    <3>2. ASSUME NEW k \in DOMAIN dgStored', NEW m \in DOMAIN dgStored', dgStored'[k].id = dgStored'[m].id
          PROVE  k = m
      <4>1. CASE k \in DOMAIN dgStored /\ m \in DOMAIN dgStored
        BY <2>5, <3>2, <4>1 DEF DgInv, StoredFine
      <4>2. CASE k = n \/ m = n
        BY <2>5, <2>6, <2>8, <2>9, <3>2, <4>2
      <4> QED
        BY <2>9, <4>1, <4>2
    <3> QED
      BY <2>5, <3>1, <3>2 DEF StoredFine
  <2>11. RowsGrow(dgStored, dgStored')
    BY <2>5 DEF RowsGrow
  <2>12. /\ r.at = "items" /\ r.id = old.id /\ r.items = old.items /\ r.before = old.before
         /\ r.began = old.began /\ r.seen = old.seen
         /\ r = BuildRec(r.at, r.began, r.before, r.seen, r.items, r.ord, r.id)
    BY <2>1 DEF BuildRec
  <2>13. BuilderFine(r, dgStored')
    <3>1. Len(old.items) > 0
      BY <1>2 DEF BuilderFine
    <3>2. Len(row.items) = 0 /\ DOMAIN row.items = {}
      BY <2>6, EmptyList
    <3>3. Len(row.items) < Len(r.items)
      BY <2>12, <3>1, <3>2
    <3>4. Inserting(r, row)
      BY <2>6, <2>12, <3>2, <3>3 DEF Inserting
    <3>5. n \in DOMAIN dgStored'
      BY <2>5
    <3> QED
      BY <1>2, <2>5, <2>12, <3>4, <3>5 DEF BuilderFine
  <2>14. ASSUME NEW c \in Builders \ {b}, dgBuild[c].at = "items"
         PROVE  /\ \E k \in DOMAIN dgStored' : Inserting(dgBuild[c], dgStored'[k])
                /\ dgBuild[c].id # r.id
    <3>1. PICK k \in DOMAIN dgStored : Inserting(dgBuild[c], dgStored[k])
      BY <2>14 DEF DgInv, BuilderFine
    <3>2. dgStored[k].id = dgBuild[c].id
      BY <3>1 DEF Inserting
    <3> QED
      BY <2>5, <2>8, <2>12, <3>1, <3>2
  <2> QED
    BY <1>2, <2>2, <2>10, <2>11, <2>13, <2>14, BuilderInserts
<1> QED
  BY <1>3, <1>4

LEMMA ItemFine ==
    ASSUME DgInv, NEW b \in Builders, InsertItem(b)
    PROVE  DgInv'
<1>1. PICK old : old = dgBuild[b]
  OBVIOUS
<1>2. BuilderFine(old, dgStored) /\ old.at = "items" /\ UNCHANGED <<dgPrinted, dgSaid>>
  BY <1>1 DEF DgInv, InsertItem
<1>3. PICK n \in Stored(old.id) :
          /\ dgStored' = [dgStored EXCEPT ![n].items = Append(@, old.items[Len(dgStored[n].items) + 1])]
          /\ SetBuild(b, IF Len(dgStored[n].items) + 1 = Len(old.items) THEN [old EXCEPT !.at = "post"] ELSE old)
  BY <1>1 DEF InsertItem
<1>4. PICK row, done, x : row = dgStored[n] /\ done = Len(row.items) + 1 /\ x = old.items[done]
  OBVIOUS
<1>5. n \in DOMAIN dgStored /\ row.id = old.id
  BY <1>4 DEF Stored
<1>6. Inserting(old, row)
  <2>1. PICK m \in DOMAIN dgStored : Inserting(old, dgStored[m])
    BY <1>2 DEF BuilderFine
  <2>2. dgStored[m].id = dgStored[n].id
    BY <1>4, <1>5, <2>1 DEF Inserting
  <2>3. m = n
    BY <1>5, <2>2 DEF DgInv, StoredFine
  <2> QED
    BY <1>4, <2>1, <2>3
<1>7. RowFine(row)
  BY <1>4, <1>5 DEF DgInv, StoredFine
<1>8. Listing(row.items) /\ Listing(old.items) /\ ItemsFine(old.items, Earlier(old.before, old.began))
  BY <1>2, <1>7 DEF RowFine, BuilderFine, ItemsFine, Varied
<1>9. PICK items : items = Append(row.items, x)
  OBVIOUS
<1>10. /\ Listing(items) /\ done \in Nat \ {0} /\ DOMAIN items = 1..done /\ DOMAIN row.items = 1..(done - 1)
       /\ items[done] = x /\ \A i \in DOMAIN row.items : items[i] = row.items[i]
       /\ Len(items) = done /\ done \in DOMAIN old.items /\ done <= Len(old.items)
       /\ Len(old.items) \in Nat /\ DOMAIN old.items = 1..Len(old.items)
  <2>1. PICK S : row.items \in Seq(S) /\ old.items \in Seq(S)
    BY <1>8, InOneSet
  <2>2. Len(row.items) \in Nat /\ Len(old.items) \in Nat /\ Len(row.items) < Len(old.items)
    BY <1>6, <2>1 DEF Inserting
  <2>3. DOMAIN row.items = 1..Len(row.items) /\ DOMAIN old.items = 1..Len(old.items)
    BY <2>1
  <2>4. done \in Nat \ {0} /\ done \in DOMAIN old.items /\ done <= Len(old.items) /\ done - 1 = Len(row.items)
    BY <1>4, <2>2, <2>3
  <2>5. x \in S
    BY <1>4, <2>1, <2>4
  <2>6. /\ items \in Seq(S) /\ Len(items) = Len(row.items) + 1 /\ items[Len(row.items) + 1] = x
        /\ \A i \in 1..Len(row.items) : items[i] = row.items[i]
    BY <1>9, <2>1, <2>5, AppendProperties
  <2>7. DOMAIN items = 1..Len(items)
    BY <2>6
  <2>8. Listing(items)
    BY <2>6, AnyListing
  <2> QED
    BY <1>4, <2>2, <2>3, <2>4, <2>6, <2>7, <2>8
<1>11. ASSUME NEW i \in DOMAIN items PROVE i \in DOMAIN old.items /\ items[i] = old.items[i]
  <2>1. CASE i = done
    BY <1>4, <1>10, <2>1
  <2>2. CASE i # done
    <3>1. i \in DOMAIN row.items
      BY <1>10, <2>2
    <3> QED
      BY <1>6, <1>10, <3>1 DEF Inserting
  <2> QED
    BY <2>1, <2>2
<1>12. DrawnAt(items, old.items, DOMAIN old.items)
  <2>1. PICK at : at = [i \in DOMAIN items |-> i]
    OBVIOUS
  <2>2. at \in [DOMAIN items -> DOMAIN old.items \cap DOMAIN old.items]
    BY <1>11, <2>1
  <2>3. \A i \in DOMAIN items : items[i] = old.items[at[i]]
    BY <1>11, <2>1
  <2>4. \A i, j \in DOMAIN items : at[i] = at[j] => i = j
    BY <2>1
  <2> QED
    BY <1>10, <2>2, <2>3, <2>4 DEF DrawnAt
<1>13. PICK new : new = RowRec(row.id, row.began, row.before, items)
  OBVIOUS
<1>14. new.id = row.id /\ new.began = row.began /\ new.before = row.before /\ new.items = items
  BY <1>13 DEF RowRec
<1>15. RowFine(new)
  <2>1. ItemsFine(items, Earlier(old.before, old.began))
    BY <1>8, <1>12, FineDrawn
  <2>2. row.before = old.before /\ row.began = old.began
    BY <1>6 DEF Inserting
  <2> QED
    BY <1>13, <1>14, <2>1, <2>2 DEF RowFine
<1>16. dgStored' = [dgStored EXCEPT ![n] = new]
  <2>1. row = RowRec(row.id, row.began, row.before, row.items)
    BY <1>7 DEF RowFine
  <2>2. [row EXCEPT !.items = items] = new
    BY <1>13, <2>1 DEF RowRec
  <2>3. dgStored' = [dgStored EXCEPT ![n] = [row EXCEPT !.items = items]]
    BY <1>3, <1>4, <1>9
  <2> QED
    BY <2>2, <2>3
<1>17. /\ Listing(dgStored') /\ DOMAIN dgStored' = DOMAIN dgStored /\ dgStored'[n] = new
       /\ \A k \in DOMAIN dgStored \ {n} : dgStored'[k] = dgStored[k]
  <2>1. PICK S : dgStored \in Seq(S)
    BY DEF DgInv, StoredFine, Listing
  <2>2. PICK T : T = S \cup {new}
    OBVIOUS
  <2>3. dgStored \in Seq(T) /\ new \in T /\ n \in 1..Len(dgStored)
    BY <1>5, <2>1, <2>2, SeqMonotonic
  <2>4. dgStored' \in Seq(T)
    BY <1>16, <2>3, ExceptSeq
  <2>5. Listing(dgStored')
    BY <2>4, AnyListing
  <2> QED
    BY <1>5, <1>16, <2>5
<1>18. StoredFine(dgStored')
  <2>1. \A k \in DOMAIN dgStored' : dgStored'[k].id = dgStored[k].id
    BY <1>4, <1>14, <1>17
  <2>2. \A k \in DOMAIN dgStored' : RowFine(dgStored'[k])
    BY <1>15, <1>17 DEF DgInv, StoredFine
  <2> QED
    BY <1>17, <2>1, <2>2 DEF DgInv, StoredFine
<1>19. RowsGrow(dgStored, dgStored')
  <2>1. \A i \in DOMAIN row.items : i \in DOMAIN items /\ items[i] = row.items[i]
    BY <1>10
  <2> QED
    BY <1>4, <1>14, <1>17, <2>1 DEF RowsGrow
<1>20. ASSUME NEW c \in Builders \ {b}, dgBuild[c].at = "items"
       PROVE  /\ \E k \in DOMAIN dgStored' : Inserting(dgBuild[c], dgStored'[k])
              /\ dgBuild[c].id # old.id
  <2>1. PICK k \in DOMAIN dgStored : Inserting(dgBuild[c], dgStored[k])
    BY <1>20 DEF DgInv, BuilderFine
  <2>2. dgBuild[c].id # old.id
    BY <1>1, <1>2, <1>20 DEF DgInv
  <2>3. k # n
    BY <1>4, <1>5, <2>1, <2>2 DEF Inserting
  <2> QED
    BY <1>17, <2>1, <2>2, <2>3
<1>21. CASE done = Len(old.items)
  <2>1. PICK r : r = BuildRec("post", old.began, old.before, old.seen, old.items, old.ord, old.id)
    OBVIOUS
  <2>2. dgBuild' = [dgBuild EXCEPT ![b] = r]
    <3>1. old = BuildRec(old.at, old.began, old.before, old.seen, old.items, old.ord, old.id)
      BY <1>2 DEF BuilderFine
    <3>2. [old EXCEPT !.at = "post"] = r
      BY <2>1, <3>1 DEF BuildRec
    <3> QED
      BY <1>3, <1>4, <1>21, <3>2 DEF SetBuild
  <2>3. /\ r.at = "post" /\ r.items = old.items /\ r.before = old.before /\ r.began = old.began /\ r.seen = old.seen
        /\ r = BuildRec(r.at, r.began, r.before, r.seen, r.items, r.ord, r.id)
    BY <2>1 DEF BuildRec
  <2>4. BuilderFine(r, dgStored')
    BY <1>2, <2>3 DEF BuilderFine
  <2>5. r.at # "items"
    BY <2>3
  <2> QED
    BY <1>2, <1>18, <1>19, <1>20, <2>2, <2>4, <2>5, BuilderInserts
<1>22. CASE done # Len(old.items)
  <2>1. dgBuild' = [dgBuild EXCEPT ![b] = old]
    BY <1>3, <1>4, <1>22 DEF SetBuild
  <2>2. Inserting(old, new)
    <3>1. done < Len(old.items)
      BY <1>10, <1>22
    <3> QED
      BY <1>6, <1>10, <1>11, <1>14, <3>1 DEF Inserting
  <2>3. BuilderFine(old, dgStored')
    BY <1>2, <1>5, <1>17, <2>2 DEF BuilderFine
  <2> QED
    BY <1>2, <1>18, <1>19, <1>20, <2>1, <2>3, BuilderInserts
<1> QED
  BY <1>21, <1>22

-------------------------------------------------------------------------------
(* Lines are shown and picked *)

LEMMA PostFine ==
    ASSUME DgInv, NEW b \in Builders, PostDigest(b)
    PROVE  DgInv'
<1>1. PICK n \in Stored(dgBuild[b].id) : dgPrinted' = dgPrinted \cup Lines(n)
  BY DEF PostDigest
<1>2. n \in DOMAIN dgStored
  BY DEF Stored
<1>3. dgBuild' = [dgBuild EXCEPT ![b] = IdleBuild] /\ UNCHANGED <<dgStored, dgSaid>>
  BY DEF PostDigest, SetBuild
<1>4. BuilderFine(IdleBuild, dgStored) /\ IdleBuild.at # "items"
  BY IdleFine
<1>5. dgBuild'[b] = IdleBuild /\ \A c \in Builders \ {b} : dgBuild'[c] = dgBuild[c]
  BY <1>3 DEF DgInv
<1>6. dgBuild' = [c \in Builders |-> dgBuild'[c]]
  BY <1>3 DEF DgInv
<1>7. \A c \in Builders : BuilderFine(dgBuild'[c], dgStored')
  BY <1>3, <1>4, <1>5 DEF DgInv
<1>8. \A c, d \in Builders :
          dgBuild'[c].at = "items" /\ dgBuild'[d].at = "items" /\ dgBuild'[c].id = dgBuild'[d].id => c = d
  BY <1>4, <1>5 DEF DgInv
<1>9. ASSUME NEW line \in dgPrinted' PROVE LineFine(line, dgStored')
  <2>1. CASE line \in dgPrinted
    BY <1>3, <2>1 DEF DgInv
  <2>2. CASE line \in Lines(n)
    <3>1. PICK i \in DOMAIN dgStored[n].items :
              line = [id |-> dgStored[n].id, idx |-> i, item |-> dgStored[n].items[i]]
      BY <2>2 DEF Lines
    <3>2. line.id = dgStored[n].id /\ line.idx = i /\ line.item = dgStored[n].items[i]
      BY <3>1
    <3> QED
      BY <1>2, <1>3, <3>2 DEF LineFine
  <2> QED
    BY <1>1, <2>1, <2>2
<1>10. StoredFine(dgStored') /\ LinesPickWhatTheyShow'
  BY <1>3 DEF DgInv, LinesPickWhatTheyShow
<1> QED
  BY <1>6, <1>7, <1>8, <1>9, <1>10 DEF DgInv

LEMMA SaidFine ==
    ASSUME DgInv, NEW said, dgSaid' = said, UNCHANGED <<dgBuild, dgStored, dgPrinted>>,
           \A i \in DOMAIN said.picked : said.picked[i].item = said.picked[i].line.item
    PROVE  DgInv'
<1>1. LinesPickWhatTheyShow'
  BY DEF LinesPickWhatTheyShow
<1> QED
  BY <1>1 DEF DgInv

\* A line that was shown picks the item it was shown with.
LEMMA ProposeFine ==
    ASSUME DgInv, NEW line \in dgPrinted, ProposeLine(line)
    PROVE  DgInv'
<1>1. PICK m \in DOMAIN dgStored :
          dgStored[m].id = line.id /\ line.idx \in DOMAIN dgStored[m].items /\ dgStored[m].items[line.idx] = line.item
  BY DEF DgInv, LineFine
<1>2. m \in Stored(line.id)
  BY <1>1 DEF Stored
<1>3. PICK digest : digest = CHOOSE n \in Stored(line.id) : TRUE
  OBVIOUS
<1>4. digest \in Stored(line.id)
  BY <1>2, <1>3
<1>5. digest = m
  BY <1>1, <1>4 DEF Stored, DgInv, StoredFine
<1>6. PICK said, picked : /\ dgSaid' = said /\ UNCHANGED <<dgBuild, dgStored, dgPrinted>>
                          /\ said = [picked |-> <<picked>>, pack |-> <<>>]
                          /\ picked = [line |-> line, item |-> dgStored[m].items[line.idx]]
  BY <1>1, <1>3, <1>5 DEF ProposeLine
<1>7. said.picked = <<picked>> /\ picked.line = line /\ picked.item = line.item
  BY <1>1, <1>6
<1>8. DOMAIN <<picked>> = {1} /\ <<picked>>[1] = picked
  BY LoneList
<1>9. \A i \in DOMAIN said.picked : said.picked[i].item = said.picked[i].line.item
  BY <1>7, <1>8
<1> QED
  BY <1>6, <1>9, SaidFine

LEMMA AboutFine ==
    ASSUME DgInv, NEW branch, NEW pull, AboutItc(branch, pull)
    PROVE  DgInv'
<1>1. PICK said, pack : /\ dgSaid' = said /\ UNCHANGED <<dgBuild, dgStored, dgPrinted>>
                        /\ said = [picked |-> <<>>, pack |-> pack]
  BY DEF AboutItc
<1>2. said.picked = <<>> /\ DOMAIN <<>> = {}
  BY <1>1, EmptyList
<1> QED
  BY <1>1, <1>2, SaidFine

LEMMA RestartFine ==
    ASSUME DgInv, RestartDigests
    PROVE  DgInv'
<1>1. dgBuild' = [b \in Builders |-> IdleBuild] /\ UNCHANGED <<dgStored, dgPrinted, dgSaid>>
  BY DEF RestartDigests
<1>2. \A b \in Builders : dgBuild'[b] = IdleBuild
  BY <1>1
<1>3. dgBuild' = [b \in Builders |-> dgBuild'[b]]
  BY <1>1, <1>2
<1>4. \A b \in Builders : BuilderFine(dgBuild'[b], dgStored') /\ dgBuild'[b].at # "items"
  BY <1>2, IdleFine
<1>5. LinesPickWhatTheyShow'
  BY <1>1 DEF DgInv, LinesPickWhatTheyShow
<1> QED
  BY <1>1, <1>3, <1>4, <1>5 DEF DgInv

LEMMA DigestUnchanged ==
    ASSUME DgInv, UNCHANGED <<dgBuild, dgStored, dgPrinted, dgSaid>>
    PROVE  DgInv'
<1>1. LinesPickWhatTheyShow'
  BY DEF DgInv, LinesPickWhatTheyShow
<1> QED
  BY <1>1 DEF DgInv

LEMMA DigestStarts ==
    ASSUME DigestInit
    PROVE  DgInv
<1>1. dgStored = <<>> /\ dgPrinted = {} /\ dgBuild = [b \in Builders |-> IdleBuild]
  BY DEF DigestInit
<1>2. Listing(<<>>) /\ DOMAIN <<>> = {}
  BY EmptyList
<1>3. StoredFine(dgStored)
  BY <1>1, <1>2 DEF StoredFine
<1>4. \A b \in Builders : dgBuild[b] = IdleBuild
  BY <1>1
<1>5. dgBuild = [b \in Builders |-> dgBuild[b]]
  BY <1>1, <1>4
<1>6. \A b \in Builders : BuilderFine(dgBuild[b], dgStored) /\ dgBuild[b].at # "items"
  BY <1>4, IdleFine
<1>7. LinesPickWhatTheyShow
  <2>1. dgSaid.picked = <<>>
    BY DEF DigestInit
  <2> QED
    BY <1>2, <2>1 DEF LinesPickWhatTheyShow
<1> QED
  BY <1>1, <1>3, <1>5, <1>6, <1>7 DEF DgInv

\* build_daily_digest: what is stored is varied, new and public news; a line of a digest
\* proposes the item it stands under.
LEMMA DigestFollows ==
    ASSUME DgInv
    PROVE  DigestInv
<1>1. ASSUME NEW n \in DOMAIN dgStored
      PROVE  /\ \A m \in DOMAIN dgStored : dgStored[m].id = dgStored[n].id => m = n
             /\ \A i, j \in DOMAIN Items(n) : i # j => ~SameCard(Items(n)[i], Items(n)[j])
             /\ \A i \in NewsOf(n) : \A shown \in dgStored[n].before :
                    shown[1] < dgStored[n].began /\ shown[1] + Lookback >= dgStored[n].began => shown[2] # Items(n)[i].url
             /\ \A i \in NewsOf(n) : Items(n)[i].site # "linkedin" /\ (Items(n)[i].lane = "live_site" => IsArticle(Items(n)[i]))
             /\ \A i \in DOMAIN Items(n) : Items(n)[i].lane = "twitter" /\ Items(n)[i].author # NoAuthor =>
                    Cardinality({j \in DOMAIN Items(n) : /\ Items(n)[j].lane = "twitter"
                                                         /\ Items(n)[j].author = Items(n)[i].author}) <= PerAuthor
  <2>1. PICK items, seen : items = Items(n) /\ seen = Earlier(dgStored[n].before, dgStored[n].began)
    OBVIOUS
  <2>2. ItemsFine(items, seen)
    BY <2>1 DEF DgInv, StoredFine, RowFine, Items
  <2>3. \A m \in DOMAIN dgStored : dgStored[m].id = dgStored[n].id => m = n
    BY DEF DgInv, StoredFine
  <2>4. \A i, j \in DOMAIN items : i # j => ~SameCard(items[i], items[j])
    BY <2>2 DEF ItemsFine, Varied
  <2>5. ASSUME NEW i \in NewsOf(n), NEW shown \in dgStored[n].before,
               shown[1] < dgStored[n].began, shown[1] + Lookback >= dgStored[n].began
        PROVE  shown[2] # items[i].url
    <3>1. shown[2] \in seen
      BY <2>1, <2>5 DEF Earlier
    <3>2. items[i].url \notin seen
      BY <2>1, <2>2 DEF ItemsFine, IsFresh, NewsOf
    <3> QED
      BY <3>1, <3>2
  <2>6. \A i \in NewsOf(n) : items[i].site # "linkedin" /\ (items[i].lane = "live_site" => IsArticle(items[i]))
    BY <2>1, <2>2 DEF ItemsFine, IsNews, NewsOf
  <2>7. ASSUME NEW i \in DOMAIN items, items[i].lane = "twitter", items[i].author # NoAuthor
        PROVE  Cardinality({j \in DOMAIN items : items[j].lane = "twitter" /\ items[j].author = items[i].author}) <= PerAuthor
    BY <2>2, <2>7 DEF ItemsFine, Varied, OfAuthor
  <2> QED
    BY <2>1, <2>3, <2>4, <2>5, <2>6, <2>7
<1>2. LinesPickWhatTheyShow
  BY DEF DgInv
<1> QED
  BY <1>1, <1>2 DEF DigestInv

\* build_daily_digest, insert_digest, load_digest_pick: a stored digest offers nothing twice,
\* nothing that was shown on the days before its build began, only articles and no author
\* too often, and the line printed under an item proposes that item, for any builds beside
\* each other, over midnight and over restarts.
THEOREM DigestSafe == DigestSpec => []DigestInv
<1>1. DigestInit => DgInv
  BY DigestStarts
<1>2. DgInv /\ [DigestNext]_digestVars => DgInv'
  <2> SUFFICES ASSUME DgInv, [DigestNext]_digestVars
               PROVE  DgInv'
    OBVIOUS
  <2>1. ASSUME NEW b \in Builders, StartDigest(b) PROVE DgInv'
    BY <2>1, StartFine
  <2>2. ASSUME NEW b \in Builders, ReadOrder(b) \/ NextDigestId(b) PROVE DgInv'
    BY <2>2, NumberFine
  <2>3. ASSUME NEW b \in Builders, InsertHeader(b) PROVE DgInv'
    BY <2>3, HeaderFine
  <2>4. ASSUME NEW b \in Builders, InsertItem(b) PROVE DgInv'
    BY <2>4, ItemFine
  <2>5. ASSUME NEW b \in Builders, PostDigest(b) PROVE DgInv'
    BY <2>5, PostFine
  <2>6. ASSUME NEW b \in Builders, NEW pull \in Pulls, CollectDigest(b, pull) PROVE DgInv'
    BY <2>6, CollectFine
  <2>7. ASSUME NEW line \in dgPrinted, ProposeLine(line) PROVE DgInv'
    BY <2>7, ProposeFine
  <2>8. ASSUME NEW i \in DOMAIN Eligible, NEW pull \in Pulls, AboutItc(Eligible[i], pull) PROVE DgInv'
    BY <2>8, AboutFine
  <2>9. CASE NextDay
    BY <2>9, DigestUnchanged DEF NextDay
  <2>10. CASE RestartDigests
    BY <2>10, RestartFine
  <2>11. CASE UNCHANGED digestVars
    BY <2>11, DigestUnchanged DEF digestVars
  <2> QED
    BY <2>1, <2>2, <2>3, <2>4, <2>5, <2>6, <2>7, <2>8, <2>9, <2>10, <2>11 DEF DigestNext
<1>3. DgInv => DigestInv
  BY DigestFollows
<1> QED
  BY <1>1, <1>2, <1>3, PTL DEF DigestSpec

===============================================================================
