------------------------------ MODULE EnrichQueue ------------------------------
(***************************************************************************)
(* The queue of LinkedIn posts whose text is still to be read over Tor.    *)
(* A drip process of its own (bin/enrich-linkedin-urls) claims the newest  *)
(* row that is due, reads its page from the scrape cache or from Tor, puts *)
(* the text into chunks, one embedding call each, and marks the row ok;    *)
(* the operator's /enrich does the same for one URL inside the main        *)
(* process.  The two share only the SQLite file, and the claim of a row is *)
(* its status in_flight.                                                   *)
(*                                                                         *)
(* Time is counted in rounds of the drip: it sleeps 20 to 30 minutes, a    *)
(* soft failure backs off for 20 minutes, a wall for 6 hours.              *)
(***************************************************************************)
EXTENDS Naturals, FiniteSets

CONSTANTS Posts,        \* rows of the queue, 1..n, the newest is the largest
          Drips,        \* drip processes that may be started
          Manuals,      \* /enrich commands that may run at once
          Pages,        \* what LinkedIn may answer
          EnrichFaults, \* which failures happen in this instance
          LongRounds,   \* bound: rounds of the drip in a long backoff
          MaxOps,       \* bound: commands and failures together
          NoDrip

\* post: a text.  thin, dead: a page without one.  chrome: the page for guests.
\* wall: HTTP 429 or 999.  hard: another HTTP error.  net: no answer, twice.
AllPages == {"post", "thin", "dead", "chrome", "wall", "hard", "net"}

ASSUME EnrichAssumption ==
    /\ Posts \subseteq Nat \ {0}
    /\ Drips \cap Manuals = {} /\ NoDrip \notin Drips
    /\ Pages \subseteq AllPages
    /\ EnrichFaults \subseteq {"sqlite", "embed", "crash", "suspend"}
    /\ LongRounds \in Nat \ {0, 1}
    /\ MaxOps \in Nat

VARIABLES posts,      \* rows of table sources, with their chunks
          scraped,    \* rows of the scrape cache
          enricher,   \* drip processes and running /enrich commands
          pidFile,    \* enrich-linkedin-urls.pid
          aged,       \* claims older than 45 minutes
          enrichOps,
          stolen      \* history: rows taken from, or replaced under, a live worker

enrichVars == <<posts, scraped, enricher, pidFile, aged, enrichOps, stolen>>

Workers == Drips \cup Manuals
Pieces == 2           \* chunks of a text
Off == [pc |-> "off", row |-> 0, page |-> "none", k |-> 0]

EnrichInit ==
    /\ posts = [r \in Posts |->
                  [st |-> "none", wait |-> 0, text |-> "stub", stubs |-> 1, chunks |-> 0]]
    /\ scraped = [r \in Posts |-> "none"]
    /\ enricher = [w \in Workers |-> Off]
    /\ pidFile = NoDrip
    /\ aged = {}
    /\ enrichOps = 0
    /\ stolen = {}

-------------------------------------------------------------------------------
Operation == enrichOps < MaxOps /\ enrichOps' = enrichOps + 1
Fault(kind) == kind \in EnrichFaults /\ Operation
On(w, pc) == enricher[w].pc = pc
To(w, pc) == enricher' = [enricher EXCEPT ![w].pc = pc]
With(w, pc, page) == enricher' = [enricher EXCEPT ![w].pc = pc, ![w].page = page]
Alive(d) == d \in Drips /\ enricher[d].pc # "off"
HasWorker(r) == \E w \in Workers : enricher[w].row = r
\* A command is over, a drip sleeps until its next round.
Rest(w) == enricher' = [enricher EXCEPT ![w] =
               IF w \in Drips THEN [Off EXCEPT !.pc = "sleep"] ELSE Off]
\* The drip process ends by itself; its lock removes the file whoever wrote it.
Exit(d) == enricher' = [enricher EXCEPT ![d] = Off] /\ pidFile' = NoDrip

Queued(r) == posts[r].st \in {"none", "pending", "failed"}
Due(r) == Queued(r) /\ posts[r].wait = 0
Claim(w, r) ==
    /\ posts' = [posts EXCEPT ![r].st = "in_flight"]
    /\ aged' = aged \ {r}
    /\ enricher' = [enricher EXCEPT ![w] = [Off EXCEPT !.pc = "look", !.row = r]]

-------------------------------------------------------------------------------
\* PidLock::acquire: the file is read first and written afterwards.
StartDrip(d) ==
    /\ On(d, "off")
    /\ ~Alive(pidFile)
    /\ To(d, "lock")
    /\ UNCHANGED <<posts, scraped, pidFile, aged, enrichOps, stolen>>

WritePid(d) ==
    /\ On(d, "lock")
    /\ pidFile' = d
    /\ To(d, "prepare")
    /\ UNCHANGED <<posts, scraped, aged, enrichOps, stolen>>

\* Once per process: stubs are queued and claims older than 45 minutes are given up.
PrepareEnrichDb(d) ==
    /\ On(d, "prepare")
    /\ LET stale == {r \in aged : posts[r].st = "in_flight"} IN
       /\ posts' = [r \in Posts |->
             IF r \in stale \/ posts[r].st = "none"
             THEN [posts[r] EXCEPT !.st = "pending"] ELSE posts[r]]
       /\ aged' = aged \ stale
       /\ stolen' = stolen \cup {r \in stale : HasWorker(r)}
    /\ To(d, "claim")
    /\ UNCHANGED <<scraped, pidFile, enrichOps>>

\* Mutant: the newest queued row or none.
ClaimNewestOnly(d) ==
    /\ On(d, "claim")
    /\ LET q == {r \in Posts : Queued(r)} IN
       IF q # {} /\ Due(CHOOSE r \in q : \A s \in q : s <= r)
       THEN Claim(d, CHOOSE r \in q : \A s \in q : s <= r)
       ELSE Rest(d) /\ UNCHANGED <<posts, aged>>
    /\ UNCHANGED <<scraped, pidFile, enrichOps, stolen>>

\* The newest row that is due; without one the drip sleeps.
ClaimNextEnrich(d) ==
    /\ On(d, "claim")
    /\ \/ \E r \in Posts : /\ Due(r) /\ \A s \in Posts : Due(s) => s <= r
                            /\ Claim(d, r)
       \/ ~(\E r \in Posts : Due(r)) /\ Rest(d) /\ UNCHANGED <<posts, aged>>
    /\ UNCHANGED <<scraped, pidFile, enrichOps, stolen>>

\* A statement that fails there ends the process.
DripFails(d) ==
    /\ On(d, "prepare") \/ On(d, "claim")
    /\ Fault("sqlite")
    /\ Exit(d)
    /\ UNCHANGED <<posts, scraped, aged, stolen>>

\* 20 to 30 minutes pass.
SleepDrip(d) ==
    /\ On(d, "sleep")
    /\ To(d, "claim")
    /\ posts' = [r \in Posts |->
          IF posts[r].wait > 0 THEN [posts[r] EXCEPT !.wait = @ - 1] ELSE posts[r]]
    /\ UNCHANGED <<scraped, pidFile, aged, enrichOps, stolen>>

-------------------------------------------------------------------------------
\* /enrich <url>: the row is queued again unless it is claimed or parked.
UpsertManualEnrichSource(w, r) ==
    /\ w \in Manuals /\ On(w, "off")
    /\ Operation
    /\ posts' = IF posts[r].st \in {"in_flight", "skip"} THEN posts
                ELSE [posts EXCEPT ![r].st = "pending", ![r].wait = 0]
    /\ enricher' = [enricher EXCEPT ![w] = [Off EXCEPT !.pc = "byid", !.k = r]]
    /\ UNCHANGED <<scraped, pidFile, aged, stolen>>

\* Mutant: a claim is taken whoever has it.
ClaimById(w) ==
    LET r == enricher[w].k IN
    /\ On(w, "byid")
    /\ IF posts[r].st = "skip" THEN Rest(w) /\ UNCHANGED <<posts, aged>> ELSE Claim(w, r)
    /\ UNCHANGED <<scraped, pidFile, enrichOps, stolen>>

\* Claimed by its id, if it is neither claimed nor parked by now.
ClaimEnrichById(w) ==
    LET r == enricher[w].k IN
    /\ On(w, "byid")
    /\ IF posts[r].st \in {"in_flight", "skip"}
       THEN Rest(w) /\ UNCHANGED <<posts, aged>>
       ELSE Claim(w, r)
    /\ UNCHANGED <<scraped, pidFile, enrichOps, stolen>>

\* /ingest of the row's address: one transaction puts the page and its chunks in the place
\* of what the row holds, and does not look at its status.
IngestPost(r) ==
    /\ Operation
    /\ posts' = [posts EXCEPT ![r].text = "page", ![r].stubs = 0, ![r].chunks = Pieces]
    /\ LET read == \E w \in Workers : /\ enricher[w].row = r
                                     /\ enricher[w].pc \in {"embed", "complete"}
       IN stolen' = IF read THEN stolen \cup {r} ELSE stolen
    /\ UNCHANGED <<scraped, enricher, pidFile, aged>>

-------------------------------------------------------------------------------
\* A cached page with a text is applied, one without is final unless it is the page
\* for guests.
LookInCache(w) ==
    LET hit == scraped[enricher[w].row] IN
    /\ On(w, "look")
    /\ With(w, CASE hit = "post" -> "delete"
                    [] hit \in {"thin", "dead"} -> "fail"
                    [] OTHER -> "fetch", hit)
    /\ UNCHANGED <<posts, scraped, pidFile, aged, enrichOps, stolen>>

\* A page that was read is cached whatever is on it.
FetchHtml(w) ==
    /\ On(w, "fetch")
    /\ \E p \in Pages :
          /\ scraped' = IF p \in {"wall", "hard", "net"} THEN scraped
                        ELSE [scraped EXCEPT ![enricher[w].row] = p]
          /\ With(w, IF p = "post" THEN "delete" ELSE "fail", p)
    /\ UNCHANGED <<posts, pidFile, aged, enrichOps, stolen>>

\* apply_text: the old chunks go, one embedding after the other comes, then the row.
DeleteChunks(w) ==
    /\ On(w, "delete")
    /\ posts' = [posts EXCEPT ![enricher[w].row].stubs = 0, ![enricher[w].row].chunks = 0]
    /\ To(w, "embed")
    /\ UNCHANGED <<scraped, pidFile, aged, enrichOps, stolen>>

EmbedPiece(w) ==
    LET r == enricher[w].row IN
    /\ On(w, "embed")
    /\ posts' = [posts EXCEPT ![r].chunks = @ + 1]
    /\ enricher' = [enricher EXCEPT ![w].k = @ + 1,
                      ![w].pc = IF enricher[w].k + 1 = Pieces THEN "complete" ELSE "embed"]
    /\ UNCHANGED <<scraped, pidFile, aged, enrichOps, stolen>>

\* Only a row that is still claimed becomes ok.
CompleteEnrich(w) ==
    LET r == enricher[w].row IN
    /\ On(w, "complete")
    /\ IF posts[r].st = "in_flight"
       THEN /\ posts' = [posts EXCEPT ![r].st = "ok", ![r].text = "page", ![r].wait = 0]
            /\ Rest(w)
       ELSE To(w, "fail") /\ UNCHANGED posts
    /\ UNCHANGED <<scraped, pidFile, aged, enrichOps, stolen>>

\* Mutant: a piece that cannot be embedded is left out.
StepSkipped(w) ==
    /\ On(w, "embed") /\ Fault("embed")
    /\ enricher' = [enricher EXCEPT ![w].k = @ + 1,
                      ![w].pc = IF enricher[w].k + 1 = Pieces THEN "complete" ELSE "embed"]
    /\ UNCHANGED <<posts, scraped, pidFile, aged, stolen>>

\* A statement or an embedding call fails on the way: a soft failure, and the chunks
\* written so far stay.
StepFails(w) ==
    /\ \/ enricher[w].pc \in {"look", "delete", "complete"} /\ Fault("sqlite")
       \/ On(w, "embed") /\ Fault("embed")
    /\ With(w, "fail", "net")
    /\ UNCHANGED <<posts, scraped, pidFile, aged, stolen>>

\* classify_enrich_failure: a dead post is parked, a wall or a hard HTTP error waits
\* long, the rest waits one round.
Backoff(page) == IF page \in {"wall", "hard", "chrome"} THEN LongRounds ELSE 1

ClassifyEnrichFailure(w) ==
    LET r == enricher[w].row
        page == enricher[w].page IN
    /\ On(w, "fail")
    /\ posts' = IF posts[r].st # "in_flight" THEN posts
                ELSE IF page = "dead" THEN [posts EXCEPT ![r].st = "skip", ![r].wait = 0]
                ELSE [posts EXCEPT ![r].st = "failed", ![r].wait = Backoff(page)]
    /\ Rest(w)
    /\ UNCHANGED <<scraped, pidFile, aged, enrichOps, stolen>>

\* Whether the row could be written is not looked at: the claim stays behind.
FailureIsLost(w) ==
    /\ On(w, "fail") /\ Fault("sqlite")
    /\ Rest(w)
    /\ UNCHANGED <<posts, scraped, pidFile, aged, stolen>>

-------------------------------------------------------------------------------
\* A drip is killed, or the main process restarts: claims and the pid file stay.
EnrichCrash(ws) ==
    /\ Fault("crash")
    /\ \E w \in ws : ~On(w, "off")
    /\ enricher' = [w \in Workers |-> IF w \in ws THEN Off ELSE enricher[w]]
    /\ UNCHANGED <<posts, scraped, pidFile, aged, stolen>>

\* A claim nobody works on any more gets 45 minutes old.
ClaimAges(r) ==
    /\ posts[r].st = "in_flight" /\ r \notin aged /\ ~HasWorker(r)
    /\ aged' = aged \cup {r}
    /\ UNCHANGED <<posts, scraped, enricher, pidFile, enrichOps, stolen>>

\* A worker that stands still for 45 minutes: the laptop was suspended.
Suspend(r) ==
    /\ Fault("suspend")
    /\ posts[r].st = "in_flight" /\ r \notin aged /\ HasWorker(r)
    /\ aged' = aged \cup {r}
    /\ UNCHANGED <<posts, scraped, enricher, pidFile, stolen>>

-------------------------------------------------------------------------------
DripStep(d) == \/ StartDrip(d) \/ WritePid(d) \/ PrepareEnrichDb(d)
               \/ ClaimNextEnrich(d) \/ SleepDrip(d)

EnrichStep(w) == \/ ClaimEnrichById(w) \/ LookInCache(w) \/ FetchHtml(w) \/ DeleteChunks(w)
                 \/ EmbedPiece(w) \/ CompleteEnrich(w) \/ ClassifyEnrichFailure(w)

EnrichNext ==
    \/ \E d \in Drips : DripStep(d)
    \/ \E w \in Manuals, r \in Posts : UpsertManualEnrichSource(w, r)
    \/ \E w \in Workers : EnrichStep(w) \/ StepFails(w) \/ FailureIsLost(w)
    \/ \E d \in Drips : DripFails(d) \/ EnrichCrash({d})
    \/ EnrichCrash(Manuals)
    \/ \E r \in Posts : IngestPost(r) \/ ClaimAges(r) \/ Suspend(r)

\* A process that runs goes on, and somebody starts the drip again when none runs.
EnrichFairness ==
    /\ \A d \in Drips : WF_enrichVars(DripStep(d))
    /\ \A w \in Workers : WF_enrichVars(EnrichStep(w))

EnrichSpec == EnrichInit /\ [][EnrichNext]_enrichVars /\ EnrichFairness

-------------------------------------------------------------------------------
(* Properties. *)

PostRow == [st : {"none", "pending", "in_flight", "ok", "failed", "skip"},
            wait : 0..LongRounds, text : {"stub", "page"}, stubs : 0..1, chunks : Nat]
Calm == {"off", "sleep", "lock", "prepare", "claim", "byid"}
Busy == {"look", "fetch", "delete", "embed", "complete", "fail"}
Enricher == [pc : Calm \cup Busy, row : Posts \cup {0}, page : AllPages \cup {"none"}, k : Nat]

EnrichTypes ==
    /\ posts \in [Posts -> PostRow]
    /\ scraped \in [Posts -> AllPages \cup {"none"}]
    /\ enricher \in [Workers -> Enricher]
    /\ pidFile \in Drips \cup {NoDrip}
    /\ aged \subseteq Posts /\ stolen \subseteq Posts

\* A worker has a row while it is busy, and counts the pieces it has embedded.
WorkerInv(w) ==
    LET e == enricher[w] IN
    /\ e.row # 0 <=> e.pc \in Busy
    /\ e.pc = "byid" => e.k \in Posts
    /\ e.pc \in {"look", "fetch", "delete"} => e.k = 0
    /\ e.pc = "embed" => e.k < Pieces
    /\ e.pc = "complete" => e.k = Pieces

\* A claim nobody took away has one worker at most, its row is in_flight and holds the
\* pieces that worker has counted.
ClaimInv(r) ==
    /\ \A w, x \in Workers : enricher[w].row = r /\ enricher[x].row = r => w = x
    /\ \A w \in Workers : enricher[w].row = r =>
           /\ posts[r].st = "in_flight"
           /\ enricher[w].pc \in {"embed", "complete"} =>
                  posts[r].stubs = 0 /\ posts[r].chunks = enricher[w].k

Indexed(r) ==
    posts[r].st = "ok" => posts[r].text = "page" /\ posts[r].stubs = 0 /\ posts[r].chunks = Pieces

\* apply_text and complete_enrich (sources/enrich.rs, store.rs): a row that is ok can
\* be found by every piece of the text it holds and by nothing else, whoever else
\* works on the queue, whatever failed before and wherever a process was killed;
\* only a claim that is taken from a live worker, or an /ingest of the address while it
\* embeds, can spoil it.
OkRowIsIndexed == \A r \in Posts \ stolen : Indexed(r)

\* Types, the workers, the claims nobody took away, and what an ok row holds.
EnrichInv ==
    /\ EnrichTypes
    /\ \A w \in Workers : WorkerInv(w)
    /\ \A r \in Posts \ stolen : ClaimInv(r)
    /\ OkRowIsIndexed

\* "per-source; loop keeps dripping other claims" (WALL_BACKOFF, sources/enrich.rs): a
\* queued row is tried in the end, although the newest goes first, unless a newer one
\* fails softly for ever: its short backoff is over at every round.
SoftFailureAbove(r) ==
    \E w \in Workers : /\ enricher[w].row > r
                       /\ ClassifyEnrichFailure(w)
                       /\ posts'[enricher[w].row].wait = 1
OlderRowsAreTried ==
    \A r \in Posts : []<><<SoftFailureAbove(r)>>_enrichVars \/ (Queued(r) ~> ~Queued(r))
===============================================================================
