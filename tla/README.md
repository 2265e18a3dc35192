# ITCy: models, checks and proofs

ITCy (`src/backend/crates/itcy`, Rust, tokio) is a Slack operator bot. It builds
drafts of LinkedIn posts and tweets with an LLM, sends an accepted draft through
a pull request of a publications repository, and publishes it on company
LinkedIn or company X once the reviewer has approved that pull request (BAT,
"bon à tirer"). State lives in SQLite (`drafts`, `publish_audit`, the id
sequences), on GitHub (branches, pull requests, reviews) and in memory (the
numbers being promoted, one shared research session). Slack commands and GitHub
webhooks run as concurrent tasks. Nothing ties the three places together but the
order in which each handler touches them, and this is what is modelled.

Paths below are relative to `src/backend/crates/itcy/src`.

## The system's parts

| part | state | operations | what is hard | what makes it right |
|---|---|---|---|---|
| webhook wake, promote guard (`hooks/github.rs`) | `bat_promote_inflight` behind a tokio mutex | review, comment, closed, push webhooks; `try_promote_if_bat_green`; guard drop | overlapping and repeated webhooks, cancelled handlers, `try_lock` in a destructor, numbers that collide across repositories | one promotion per pull request, one ship per pull request, every wake answered |
| BAT submit (`bat/submit.rs`) | none of its own | `/accept`, `/retry_bat`, unlock for edit | awaits between load, push, record and ship; ignored results of updates | nothing public without approval; recovery after any stop |
| GitHub client (`bat/github.rs`, `bat/pack.rs`) | branches, files, pulls, reviews (remote) | open, push, find, readiness, squash merge, close, mirrors, merged artefacts | body read before the merge, partial failures, sha conflicts, routes of older versions | a promoted text is one that was packed, mirrors follow it, retries end |
| draft store (`bat/store.rs`) | `drafts` table | upsert, status moves, coordinates, delete, boot sweep | whole-row upsert of a stale snapshot | a published draft stays published |
| ship and audit (`publish/`) | `publish_audit` | ship, ok/err row, `latest_ok` | a mode read again from disk, two requests for one thread, ship before the audit row | what goes out is what the text says, audit and status are true |
| threads (`sources/tweet_thread.rs`) | none | laying a long text out as two posts | boundaries of beats, sentences and words | no word lost or doubled, no post too long |
| Slack runtime (`slack/`) | the socket, conversation memory | connect, acknowledge, a task per event, posts in batches | acknowledgement before the work, redelivery, posts that fail | messages are taken, what is remembered was said, saved drafts are shown |
| operator's dialog (`slack/commands.rs`, `saved.rs`, `draft_url.rs`) | the row and what the screen shows of it | parsing, gates, next lines, `/change_url` by number | a screen older than the row | the lines a screen prints work, a number picks what was shown |
| draft building (`sources/rag.rs`, `tweet*.rs`, `self_intro.rs`, `tools/`) | research session (shared), building rows, id sequences | id, stub, session, LOAD, checkpoint, writer, save | builds share one session; errors return with it open; ids allocated by two statements | a build ends with its own text, or a failure, in its own row |
| links and texts (`draft_footer.rs`, `tweet_footer.rs`, `draft_url.rs`, `publisher_url.rs`, `url_hygiene.rs`) | the link, the options, the pool of a row | scrubs, probes, one option of a site, promotion of a choice | passes in a fixed order that undo one another, sites that go down meanwhile | the link is an option, every option was found, live and allowed |
| rework (`sources/rework.rs`) | one row | keywords, paste, instruction, refresh, quotes | a model call between read and save | the operator's edits and link survive the writer |
| handles (`sources/handles.rs`) | `handles.toml` and its copy in memory | add, look up, place in a text | the two copies drift apart | one handle a person, placed once and where the name is |
| replies (`sources/reply_comment.rs`, `x_reply.rs`) | reply rows | build, rework, replace, delete, accept and ship | no guard around the ship | one reply per accept, no echo of the parent |
| proposals (`sources/corpus_propose.rs`) and digest (`digest.rs`, `itc_digest.rs`, `itc_catalog.rs`) | corpus chunks, digest rows | choice of a subject, lanes, dedupe, numbering | used subjects read before the build, builds over midnight, a privacy probe that fails | stories differ, earlier days do not come back, private addresses stay private |
| source store, enrich queue (`sources/store.rs`, `enrich.rs`, `scrape_cache.rs`) | queue of URLs, chunks, scrape cache, lock file | claim, fetch, embed, retry, fail, reclaim | a drip and a manual command on one row, a suspended laptop, crash while claimed | rows that are ok are indexed, every row gets tried |
| imports of the corpus (`sources/ingest.rs`, `export.rs`, `portability.rs`, `bin/import-linkedin-export.rs`) | tables `sources` and `chunks`, the key of a row | merge of the export and of the portability API at every start, `/ingest`, the binary and its wipe | a key looked up before the embedding and stored after it, by three at once; failures and restarts half way; a wipe of two statements | a row once per key and never without its chunks, nothing left out, no bot check stored |
| LLM router and agent (`llm/`) | routes, clients, models on the GPU | failover, tool rounds, warm and unload | a failover in the middle of tool calls, the round cap | tool calls stay paired, calls end |
| page readers, health, configuration, scripts, `linkedin-itcy-gr-mcp` | little or none | I/O | - | - |

`PROJECT.json` lists every part with its status and, under `hazards`, what is
hard to test in each with the property that watches it.

## Modules

    PromoteToken  <-- implemented by --  PromoteGuard      (the mutex, in detail)
         ^
         +------- implemented by --+
    BatGate  <--- implemented by --+--  BatPipeline        (commands, webhooks, GitHub, SQLite)
    OneShip  <--- implemented by --     PublishShip        (BatPipeline's ship, in detail)
    DraftBuild                                             (what produces the rows BatPipeline starts from)

    beside the gate:  ReplyShip  EnrichQueue  LlmRouter  SlackRuntime  OperatorDialog      (MCServices)
    a text's way:     CorpusImport  CorpusPropose  DailyDigest  GroundedText  Handles
                      Rework  GithubFiles  PublishShip -> XThread   (MCTexts)
    below the texts:  Lists <- Cites <- Rework, GroundedText;  Lists <- DailyDigest, XThread

### The gate

* **PromoteToken** (abstract): a wake may hold a key nobody else holds; releasing
  returns it, leaking keeps it in the set for ever, a restart empties the set.
* **PromoteGuard**: `PrPromoteGuard` step by step. `Deliver` is a webhook,
  `Lock`/`Enter`/`RefuseWake` are `try_acquire` (lock, insert or answer "already
  in flight", unlock), `DropTaken`/`RemoveNumber` and `DropContended` are the destructor
  with its `try_lock`, `CancelWaiting` is the inline handler of a closed pull
  request dropped with its connection.
* **BatGate** (abstract): a draft goes public only from a merged pull request
  with an approval; pull requests are merged once, only with an approval.
* **BatPipeline**: one task per running handler with its locals; one action per
  stretch between awaits. `HookStart .. MarkOpen` is
  `try_promote_if_bat_green` with the ship; `AcceptLoad .. RecordPull` is
  `accept_surface`, ending in the same promotion (`promote_if_approved`);
  `RetryReship`, `RetryLoad`, `RetryGate` are `/retry_bat`; `ReworkLoad`,
  `ReworkSave` are `/rework` (and `/change_url`, which is the same pair with
  no wait in between); `DeleteLoad`, `ClosePull`, `DropRow` are `/delete`.
  `Approve`, `CloseByHand`, `MergeByHand` are people on GitHub. `Fail` is any
  call that returns an error before its effect, `lost` in `Faults` any call whose
  effect happens and whose answer does not arrive, `Crash` a restart. The guard
  is atomic here; that this is sound is `PromoteGuard`'s refinement of the token,
  which both modules implement.
* **DraftBuild**: one slash command per build; `seq`, `session`, `row` are the
  shared state. `ReadSeq`/`WriteSeq` are the two statements of an allocation,
  `BeginCheck`/`BeginOpen` the session's check and set with the lock released in
  between, `SessionId` is `resolve_session_draft_id`, called by LOAD, by the
  checkpoint and after the writer. `Refuse` returns with the session open, as the
  code does; `ModelFails` ends it. `FailMark` marks the command's own row.

### Beside the gate

* **ReplyShip**: a task per command on a reply (`ReadComment`, the writer with
  its second try on an echo, `AcceptReply`, the ship of either surface, the mark).
  A text is the words the code's checks look for, its size and its emoji. `sent`
  is what the surface has, `disturbed` are the replies two commands worked on.
* **EnrichQueue**: drip processes and `/enrich` commands as workers with the row
  they claimed; time is counted in rounds of the drip. `ClaimAges` is the reclaim
  after 45 minutes, `Suspend` the closed lid of the laptop it is there for.
  `IngestPost` is `/ingest` of a row's address, which replaces what the row holds
  whatever its status. `stolen` are the rows whose claim was taken from a live
  worker, or whose text was replaced under one.
* **LlmRouter**: `build_router` as operators (`ResolveTaskRoute`, `FilterGithub`,
  `ApplyFastDev`, `Pool`), the completion as a record that walks the slots of its
  route. A conversation is its turns: how many tools a turn calls, or a result.
* **SlackRuntime**: the socket with `Connect`, `Receive`, `Disconnect`, deliveries
  as tasks with a program counter, posts that are tried `PostAttempts` times, the
  conversation memory. A message is the kind its text is parsed to.
* **OperatorDialog**: the tokens of an operator's text, `Classify`-style operators
  and parsers as the code has them, the gates of `bat/store.rs`, the lines and
  options of the screen that follows; it feeds the screen's lines back in.

### The way of a text

* **Lists**: the program's loops over lists: filters, passes with a cap, first
  occurrences, a stable sort. Written as recursive functions, which TLC evaluates and
  ListProofs reasons about.
* **Cites**: operators on addresses and lists of options (which may be cited, one
  of a site, caps, promotion, the link of a text). An address is its site, page,
  kind and the day its path names. Used by Rework and GroundedText.
* **GroundedText**: one text from brief to saved row: LOAD, three attempts of the
  writer, the scrubs in their order, probes while sites go down, the options. What the
  session found is kept in two: `gLoad` by LOAD and `gTurns` by the turns of the writer,
  who has tools when a draft's brief has no cite. `TurnOf` is `draft_writer_policy`: with
  an empty pack the writer searches and opens what it likes, with a pack it opens the
  pack, and the address that leads to is recorded. `RefillPool` is read when the writer
  is done, so such an address can become an option and the link. `GroundedInv` says so:
  a text offers what LOAD found or the operator gave, and only a draft without a cite
  what its writer found besides (`OptionsHaveASource`); the link of a draft is of the
  pack or its cite as long as an address of the pack answers (`PackLeads`).
* **Rework**: keyword edits, paste, instruction, quotes, links, save, and
  `/change_url` while the model is at work.
* **Handles**: the file and the copy in memory, `/handle_add`, the row a brief is
  about, the placing of a handle.
* **CorpusImport**: `MainStarts` is a start of the main process with the two
  imports it spawns, and the loss of what it was doing before; `StartImport` and
  `DeleteChunksOfAll`/`DeleteSources` are the binary and `clear_corpus`.
  `CheckItem` is the look-up before the embedding, `StoreItem` the transaction
  after it, `EmbedItem` and `StoreExportItems` the same for the API, whose entries
  go in together. `FetchPublicPage`, `PublicPlaywright` and `StoreIngested` are
  `/ingest`. A row's key is what it was made from and whether its title is its own
  or the page's; `found` is the text its chunks hold. `torn` and `wipedUnder` are
  history: a wipe has not come to its end, an import had its rows wiped.
* **CorpusPropose**: the corpus, the rows of proposals and the subjects in use;
  `beside` are the proposals that were building when one was picked.
* **DailyDigest**: builders that read the day, collect (of every press hub its first
  links no earlier day has shown), rank, drop what earlier days have shown and insert
  item by item; days pass meanwhile.
* **GithubFiles**: a job is the list of calls one function of the client still has
  to make: `put_file` (read the sha, write, up to three tries), mirrors, merges,
  routes of older versions. Below it BatPipeline's `PushFiles` is one step.
* **XThread**: `layout_x_thread` over words: beats, sentences, articles, tags, and
  before it `join_soft_wrap_lines`. A loop of the code is a recursive function on the
  number of its rounds, with its body an operator of its own (`TakeSentence`, `GrowOn`,
  `GiveBack`, `PeelLine`, `AfterBreak`), and as many rounds as the loop can have.
* **PublishShip**: one ship: mode from file and environment, refusals, the text
  without what only Slack shows and without the account's own handle, the posts, the
  audit row. `TweetTextForApi` gives the lines of a tweet with soft wraps joined: a blank
  line stands between any two of them.
* **OneShip** (abstract): what BatPipeline takes a ship for, its steps `Ship` and
  `Audit`: a text goes out and the ship says so or does not, or it ends without it;
  then the ok row, if it is written. A thread goes out when its second post is
  decided: between its two posts the ship still stands before `GoesOut`.

What a text says is abstracted to a number (`BatPipeline`, `GithubFiles`: the
version written), to the build that wrote it (`DraftBuild`), to words or paragraphs
that stand for what a check looks for (the rest). The day in a draft's id is left
out; a digest's is kept.

## Runs

Passing:

| run | what it asks | bounds |
|---|---|---|
| `shared` | GuardInv, OnePromotionPerPull, refinement of PromoteToken, WakesAreAnswered; BuildInv, WritesOnlyItsRow, EndsWithItsText | 3 wakes, 3 pull requests of which two share a number; a draft and a tweet at once, every fault, an accept and deletes |
| `edits` | GateInv (AcceptedHasPull is a part of it), OnlyApprovedPullsGoPublic, PublishedIsPublic, refinement of BatGate | one draft, 2 tasks, 2 versions, all operations, all faults but a merge by hand |
| `hooks` | HookInv, HookShipsPullOnce, PublishedIsFinal, PromoteToken | two drafts (LinkedIn and X), 2 concurrent tasks, merges by hand, leaked numbers |
| `recovery` | ApprovedGoesPublic, MergedGoesPublic | FairSpec, 1 task, crash, lost answers, failed statements |
| `services` | ReplyInv, ReplyShipsOnce, PublishedReplyWentOut; EnrichInv, EnrichRowsAreTried; LlmInv, ModelCallsEnd; SlackInv, SlackMessagesAreTaken; NextLinesWork, NumbersPickWhatIsShown | 2 reply tasks on one surface at a time; 2 posts, a drip and a manual command; 5 environments of routes, 2 rounds of 2 tools; one message of every kind delivered twice; rows of every kind and status with 2 options |
| `texts` | CorpusInv; FilesInv; ShippedIsWhatWasSaid, ThreadKeepsTheText, refinement of OneShip (ShipsAsOne); ReworkInv, PickedLinkStays; GroundedInv; HandlesInv, HandlesLandOnce; StoriesDiffer; DigestInv | a post and a comment with one address, 2 starts among the main process, the binary, its wipe and one `/ingest`, any failure; 2 jobs on the files of one draft of every kind, 3 tries; every text of up to 4 words in two paragraphs with its trailer, tags before or after the address; lines that go on and the own handle; 4 rows x 8 notes x 3 answers, one outage; 10 requests x 3 finds x 10 writings, 3 answers of the writer; 2 adds and a restart; 2 proposals; 2 digests over 2 days |

`services` and `texts` are sums: the modules share no variable, so a variable
`part`, fixed by the initial state, names the module whose steps a behaviour
takes, and the state spaces add up instead of multiplying. `shared` is the sum of
PromoteGuard and DraftBuild. `MCServices` and `MCTexts` restate the fairness and
the liveness properties of a module for its part (`EnrichRowsAreTried` is
`OlderRowsAreTried`, `ModelCallsEnd` is `LlmCallsEnd`, `SlackMessagesAreTaken` is
`MessagesAreTaken`).

Two tasks are enough for every race listed: each is one of two handlers or of one
handler with a person or a restart. Two versions tell a stale text from the new
one, two pull requests a closed one from the open one. `MaxShips` bounds how often
a text goes out; it is 1 but where a double ship is the question. `MaxOrd` bounds
the ordinals of a sequence: 4 leaves one for every allocation the two builds can
make outside the fallback. Two posts of the queue are an older and a newer one,
three tries of `put_file` are the code's own number, and four words are enough for
a beat, a sentence, a torn word and an article on either side of the limit, which
is scaled down to seven units. Tasks are symmetric in the safety runs of
BatPipeline. In `services` the two reply surfaces are not used at once: no step of
one reads the other's rows. Two starts put an import beside the other one, the
binary, a wipe, an `/ingest` or its own repetition after a restart; that an
`/ingest` meets a key that is taken needs four and is left to the proof. In
`texts` the many texts of a thread are posted in production only: what the mode
decides does not depend on the length of a text. Deadlock checking is off where
the model really stops: in `hooks` when all texts are out and the tasks idle, and
in the sums, whose bounded commands run out.

Violations, each a disagreement between the code and what it says of itself:

| run | what happens |
|---|---|
| `refused` | a wake is refused with "already in flight" although nobody is about its pull request: the number belongs to the other repository or was left behind |
| `reopened` | a rework saved after the publication makes the Post an open draft again |
| `stale` | the text shipped is the one read before the merge, not the one merged |
| `captured` | builds one at a time: after a refused build the next one is saved under the failed draft's id, and its own row stays `building` |
| `seq` | three allocations at once step the sequence back |
| `private` | a digest built while GitHub does not answer for a private project stores and shows the address of its repository |

Some properties are stated in the modules, refuted by TLC, and have no run of
their own: they show the limits of the properties above, next to which they stand.

| property | module | how it fails |
|---|---|---|
| `ReplyHasWords` | ReplyShip | a reply emptied by the scrubs gets its one emoji and so passes the test for emptiness |
| `ReplyIsEverythingLeft` | PublishShip | a first sentence longer than a post is cut, and what is left of it dropped |
| `KeywordEditsLandOnce` | Rework | an edit made on the text is made again when the links are attached: replacing `runs` by `now runs` gives `now now runs` |
| `QuoteWasNotWritten` | Rework | the second request names the quotation in double quotes, and what a request has in double quotes is taken out of the answer: it is written, removed and reported missing |
| `OptionsWereLoaded` | GroundedText | the writer of a draft without a cite opens a page itself, and where it leads fills up the options or, when nothing of the pack answers, is the link |
| `CiteIsPinned` | GroundedText | an operator's address that does not answer its probe at the end is not among the options |
| `NoCiteHole` | GroundedText | an address is cut after the check for empty parentheses |
| `NoStoryTwice` | CorpusPropose | a row that is building is not among the used ones: two proposals at once take one story |
| `RefusedMeansCovered` | CorpusPropose | the search ends at the first chunk without a subject, and a fresh subject behind it is not proposed |
| `EntriesHaveOneRow` | CorpusImport | `/ingest` of an entry's address rewrites its title, which is part of the key: the next import stores the entry a second time, though `sources/export.rs:6` calls refreshes safe |
| `DaysDoNotRepeat` | DailyDigest | a digest begun before midnight is stored under the next day, with items another one showed the day before |

## Fairness

`GuardFairness`: the runtime polls a woken task again (weak), tokio's mutex is a
FIFO queue, so a waiter gets it in the end (strong for `Lock`).
`RetryFairness`: the operator repeats `/retry_bat` (strong, because another
command may run in between), a running task goes on (weak), and no call of a
retry fails for ever (strong per step). The last two stand for GitHub and the
publisher answering: the code sets no HTTP timeout, so a call that never
returns really does hold its task, and its number, for ever.
`EnrichFairness`: the drip's loop and a worker go on (weak); that calls succeed is
not assumed. `LlmFairness`: a completion and the warming at boot go on (weak), each
call answering or failing. `SlackFairness`: the reconnecting loop goes on, Slack
delivers what it has (weak, per message), a spawned task is polled (weak); the
socket may be lost `LinkFaults` times. The safety properties and all proofs need
no fairness.

## Proofs

All theorems are of the plain specifications, for any finite or infinite sets
of drafts, tasks, wakes and builds and any bounds the `ASSUME`s allow. Every
invariant below is inductive, and every proof has the same three parts: the
initial states satisfy it, each action keeps it (a lemma an action, or one for the
actions that disturb the same part of it), and it implies what is claimed.

**PublishProofs** (PromoteGuard, GithubFiles, PublishShip, OneShip)

* `GuardInv`: `OnePromotionPerPull` alone is not inductive, a second wake could
  enter if a promoting wake's number could leave the set; hence "a promoting wake's
  number is in the set", "no two promote under one number" and "who is in the
  critical section holds the mutex". The refinement of `PromoteToken` follows step
  by step from it.
* `GhInv`, behind `FilesInv`: types, `SourcesPosted` (the posts branch, the mirror
  and a merged body hold texts that were posted) and `JobsFine`. A job carries the
  list of its calls, so `JobsFine` speaks of lists: every failed attempt of a put is
  paid for by a rival that wrote meanwhile, and the mirror is written only after a call
  that reads what was posted (`Calls`).
* `ShipInv`, behind `ShippedIsWhatWasSaid`: at every step of a ship, what it holds
  comes from its request. The texts it is about to post are a layout of the request's
  lines (`LaidOut`), what is public is the first of them or both (`PostsSay`), on
  LinkedIn the stripped lines themselves, and a record says ok in production only with
  all of it public. `ShippedIsWhatWasSaid` looks at the platform and the audit alone,
  and would not survive the step that posts: nothing in it says of a text not yet
  posted what it is made of. `StartShip` strips the lines of a LinkedIn post and
  `PostLinkedIn` strips them again; that the two agree, so that the audit has the body
  that is public, is `LinkedInTwice`, which needs that a note line stands in a footer.
* `ShipImplementsOne`: every step of a ship is a step of OneShip or leaves it alone. It
  follows from `ShipInv` and from `shipStage`, `shipLive` and `shipAudited`; the public
  text of a thread counts once its second post is decided, since a reply that fails
  still ends as a ship that went out.
* `NoWordIsLost`: the posts of a thread say the words of its lines, all of them. It is
  `LayoutSays` of ThreadProofs, applied to the lines that `ShipInv` says a ship has.

**ThreadProofs** (XThread)

* `LayoutInProse`: a text laid out for X is two texts at most, and their words are words
  of the lines or cuts of them. There is a lemma for each function of `tweet_thread.rs`,
  and for each loop one for its body, carried over all rounds by `LoopStays`. Every
  text that moves between root and reply stays `Prose` over the words it was given,
  whatever the limit.
* `LayoutSays`: nothing of the lines is missing from the texts. `PeelTrailer` and
  `PromoteLineBreaks` take the lines apart without loss, and every step of the layout
  leaves each word in the root or in what is left of the text (`Told`, `SayHalves`,
  `Halved`, one for each stretch of `ForwardFillSplit`). Two branches of the code do
  drop words, and the lemma has a hypothesis for each. `SentencesOfBeat` cuts a first
  sentence longer than a post and drops the rest (`OpensShort` excludes it, and
  `ReplyIsEverythingLeft` fails by it). `split_word_prefix` drops a rest when what fits of a text is articles
  that a blank line parts; `ArticlesGoOn`, which says that no article ends a paragraph,
  stays true of what is left up to the end of `GrowRoot`. From there on articles may go
  back, but nothing is cut any more.

**BatPipelineProofs** (BatPipeline, BatGate, PromoteToken)

* `GateInv` has the types, `TaskInv` and the properties. `TaskInv` says what the
  place of a task implies: past `readiness` its pull request has an approval, past
  `merge` it is merged, a reship has a merged approved one behind it, at `mark` the
  text is public. Approvals never go away and merged is final, so one task's facts
  survive the steps of the others. From it `OnlyApprovedPullsGoPublic`,
  `PublishedIsPublic` and `AcceptedHasPull`.
* The refinements: every step of the pipeline is a step of `BatGate` or leaves it
  alone (only `Approve`, `Merge` and `Ship` move it), and the webhook wakes implement
  `PromoteToken`. `HookInv` (two wakes hold different numbers; a text the webhook
  shipped is audited, or its wake is still on the way to the audit) gives
  `HookShipsPullOnce`.
* `OnlyEditsTakeBack`: whatever else runs, a published row stays published until a
  rewrite of that draft is saved or the row dropped. So `PublishedIsFinal` holds
  where nobody reworks or deletes (`PublishedStaysFinal`); the run `reopened` shows
  that it needs this.

**ServiceProofs** (ReplyShip, LlmRouter, DraftBuild)

* `ReplyInv`: types with the place a command may be at (`CommandInv`), the checks
  every saved text has passed (`SavedReplyIsChecked`, for it the text a command is
  about to save has passed them), and `LoneReplyInv` of every reply that no two
  commands worked on and whose ship was recorded: at most one command has it, which
  has the text of the row; an open row whose text is out has a command that is about
  to mark it. The last conjunct is what lets `/rework` and `/accept` conclude from an
  open row and nobody else at work that nothing went out. Most steps only move a
  command that does nothing to a row (`QuietStep`); of the others only one reply has
  to be looked at (`CommandStep`).
* `CallsInv`, behind `LlmInv`: a call at a slot has tried every slot before it and
  no other (`Asked`), and its conversation owes results to its last turn only, which
  are still to come (`Owing`). Without the second a failover between two results of
  a turn would leave a turn with too few.
* `BuildInv` carries a history variable, `undisturbed`, the build that met no open
  session and has run alone since. While it holds there is no session until the
  build opens one, and from then on the session, the id it works with and the id of
  its row agree; `WritesOnlyItsRow` and `EndsWithItsText` follow.
  `LateFailureSparesText` needs only types and is true of every interleaving.

**OperatorProofs** (SlackRuntime, OperatorDialog)

* `SlkInv`, behind `SlackInv`: `TaskFine` says of a delivery what it has shown, what
  it has still to post and what was remembered of it. While a batch goes to its
  thread everything built is shown or still to post; the fallback has the summary
  left and nothing else.
* `DlgInv`, behind `NextLinesWork`: each line of the screen is one that its row's
  status and kind allow (`LineFits`), and reading such a line gives the command of
  that line on that row; one with a placeholder for the id is read as a usage
  (`PlaceholderRead`). That the options of the screen are those of the row gives
  `NumbersPickWhatIsShown`.

**CorpusProofs** (EnrichQueue, CorpusImport, CorpusPropose, DailyDigest)

* `EnrichInv` has the types, `WorkerInv` (a worker has a row exactly while it is
  busy, and counts the pieces it has embedded), and for every row outside `stolen`
  `ClaimInv`: one worker has the row at most, the row is `in_flight` and holds the
  pieces that worker has counted. `OkRowIsIndexed` alone is not inductive: that
  `complete_enrich` finds all pieces in place needs the count.
* `CorpusInv` is inductive with `Underway`: an import that waits for an embedding has
  an entry, an `/ingest` that waits for one has an address and a page one may keep.
  What a step does to the rows is one obligation, `RowsOwed` (types, keys, chunks,
  and no entry gone), proved per kind of store; what it does to the one import or
  command that moves is another. `DeleteSources` alone lets entries go, and takes the
  other imports' word back.
* `StoryInv`, behind `StoriesDiffer`: the recent list has every row, and a row that
  was building as another was picked is among its `beside`. The claim is made for as
  many rows as the query for used subjects returns (`UsedLimit`), as the code.
* `DgInv`, behind `DigestInv`: a stored row was not shown within the lookback when
  its digest was drawn; what a builder has inserted is a prefix of what it drew; a
  printed line stands for the stored item of its number. The lanes are drawn by the
  loops of Lists, so `AtMostOfOne` gives the cap per author and `CappedOnce` that no
  item is drawn twice.

**TextProofs** (Cites, Rework, GroundedText, Handles)

* `RowsInv`, behind `ReworkInv`: the row, and the row a rework works on, list one
  option of a site within the cap, and the link first. `PickedLinkStays` follows,
  for the pick stands first in the row before the writer is asked.
* `TextsInv`, behind `GroundedInv`: pack and session have addresses that were met and
  each once, a writer without tools has found nothing and one with a pack has searched
  nothing, the text is made of paragraphs a writer may write, and a text that is to be
  finished has the quotations asked for. The options are picked from the pack and filled
  up from the pool, which is the pack, what LOAD found and what the writer found, so
  where an option comes from follows from what the turns can have added.
* `HInv`, behind `HandlesInv`: the memory covers the file row by row (`RegistryInv`),
  which is what `/handle_add` and a restart keep between them; a tag that was placed
  is one its platform and brief allow.
* `HandlesOnce`, that is `HandlesLandOnce`: a text is a list of tokens, and each of
  the functions that place a handle either leaves the number of times a text says a
  handle or takes it from none to one (`SaysOnce`). This rests on what splitting a
  text at the places of a name, replacing them and joining it again does to a count
  (`CutInThree`, `JoinedText`, `TimesJoined`).

**ListProofs** (Lists). The loops of the program over lists are operators of Lists: a
filter (`Keep`), what is new of a list up to a cap (`Take`), a pass with a cap for what is
the same (`CappedPlaces`), a sort by insertion (`SortedPlaces`). They are recursive
functions on a counter. Induction on what such a function computes is not available as a
rule here, so it goes through sets: `LoopExists` shows that the function has its values on
every prefix, with `Induct`, which follows from the library's well-foundedness of `<` on
the naturals. From it: `Keep` lists what is kept, in order (`KeepIsKept`); a pass keeps at
most the cap of what is the same (`AtMostOfOne`), and with the cap 1 each thing once
(`CappedOnce`); a sort draws elements of its list and none twice (`SortDraws`). The sort
leaves equals in their order, as Rust's `sort_by` does.

Assumptions beyond the types and bounds of the constants:

* The theorems about the gate assume `"manual_merge" \notin Faults`, because
  `/retry_bat` ships what somebody merged by hand without a review
  (`docs/principles.md:7` promises otherwise only for approved pull requests, and the
  program cannot tell). `HookInvHolds` and `HooksShipOnce` assume that there is no
  crash, no lost answer and no failed audit insert either: with one of them the ok
  row is missing and the next wake ships again, which the code accepts.
* `RowAssumption`: `NoRow`, the absence of a row, is no row.
* `ShipRequestsAssumption`: what a body's lines are. A line is a note because a line
  that begins the footer stands before it, and what is posted on LinkedIn quotes nothing
  and answers nothing (`publish/mcp.rs` reads neither field).
* `ReworkAssumption`: the rows a rework starts from list one option of a site within
  the cap (what GroundedText saves), and rows, notes and answers have the fields the
  code's structures have.
* `GroundedAssumption`: of the addresses met, two that name the same page of the same
  publisher are one. The code compares addresses by exactly this, so an address stands
  for its class; and what the writer may write is made of the instance's paragraphs.
* `HandlesAssumption`: the file the program first reads has no twins. `/handle_add`
  is the only writer of the file in the program, and it is proved to add none; a person
  who edits `handles.toml` can.
* `DailyDigestAssumption`: hubs are of the lane `live_site` and searches of one of the
  lanes of X, as their readers label them; an author may have at least one item
  (`MAX_SEARCH_PER_AUTHOR` is 2).

Only model-checked: the liveness properties (under fairness), and of
`ThreadKeepsTheText` that the words stand in their order, each once, and that a text
which can be parted at the end of a sentence is not refused for its length. That no word
is lost is proved (`NoWordIsLost`) where no article ends a paragraph. The run checks the
order without that condition: there a root that ends a sentence never has the room for a
whole paragraph of articles, so that nothing is dropped behind one. That is about weights,
and a weight is a fold over the words of a text, of which no induction rule for the
provers here can speak. `PublishedIsFinal` is proved without merges by hand, and the run
`hooks` checks it with them.
`LateFailureSparesText`, `OnlyEditsTakeBack`, `SavedReplyIsChecked` and
`OkRowIsIndexed` are proved; the first two have no run of their own, the others are
parts of invariants that have. Refinements are proved for their safety part.

## What the models leave out

* The error rows of the audit, delivery snapshots, Slack's wording.
* The reviewer approves open pull requests only. An approval that GitHub
  dismisses is not modelled.
* Statements of one SQLite call are one step; `ReadSeq`/`WriteSeq` are the pair
  that is split. The checkpoint's read and upsert are one step, the research pack
  being no part of the row.
* A research session whose directory cannot be created.
* Strings: how an address, a header, a footer or a prompt is cut out of a text.
  The models take what a parser recognises as given and keep what is done with it.
  In a thread, a bare domain (it weighs as much as an address, `tweet_thread.rs:784`)
  and a line that goes on because it ends with a comma; of a hub, the cut of its list of
  links at `HUB_LINK_SCAN_MAX`.
* What stands outside: GitHub, Slack, LinkedIn, X, LinkedIn's and X's pages, the
  models and the embedder answer anything from a set, or fail.

Not modelled at all, and why: parsing of pages and feeds (`html.rs`,
`live_sites.rs`, `intent.rs`, `twitter.rs`), a function of its input with no
state; the login vault, the health routes, the ngrok inspector and the scripts,
which read or are run by a person; the backup, which runs alone; how an export's
files and the API's answers are read, which gives a list of entries;
`linkedin-itcy-gr-mcp`, which keeps nothing between two calls; functions no
command reaches (`ship_tweet_reply`, the MCP ship of a comment,
`draft_*_for_slack`).

## Plan

Done: the guard and its token, the publish gate, the pipeline, the recovery, draft
building; replies, the enrich queue, the imports of the corpus, model calls, Slack, the
dialog; links, grounded texts, reworks, handles, proposals, digests, the files of a pull
request, posting and threads. The safety properties of all of them are proved, but for
the order of the words in a thread (`ThreadKeepsTheText`).

Next, most important first:

1. Refinement of BatPipeline's `PushFiles` by the `put_file` of GithubFiles, as
   PublishShip refines its `Ship`.
2. A composition of `DraftBuild` with `BatPipeline`: a build under a shared id
   saving over an accepted text; the checkpoint split into its read and its upsert.
3. The order of the words in a thread for every text, and `NoWordIsLost` wherever the
   articles stand: a text's weight as a recursive function on its length, with the room
   of a root as an invariant of `GrowRoot`.
