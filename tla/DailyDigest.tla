------------------------------ MODULE DailyDigest ------------------------------
(***************************************************************************)
(* /daily_digest: what the hubs, X and the catalog of Interchouette offer  *)
(* is sorted, freed of doubles and of what earlier days have shown, dealt  *)
(* to the lanes, numbered, stored and posted; /propose_draft and           *)
(* /propose_tweet take items of a stored digest by number.                 *)
(*                                                                         *)
(* Digests may be built beside each other, a build may last past midnight, *)
(* the process may end between two inserts.                                *)
(***************************************************************************)
EXTENDS Naturals, Sequences, SequencesExt, FiniteSets, Lists

CONSTANTS Builders,    \* /daily_digest commands that run beside each other
          Pulls,       \* what one collection brings: [hubs, x, catalog, answered, news]: sequences
                       \* of cards, is the catalog there, the branches whose probe came back, is
                       \* the news page live
          Catalog,     \* the branches of the product table, in order
          Skipped,     \* is_digest_skip
          Unprobed,    \* branches github_probe_target has nothing to probe for
          Private,     \* branches whose repository is private
          RepoOf,      \* the address of the repository, of every branch
          Pushed,      \* pushed_at, of every branch, as a number
          Worker, Home, News, Cv,       \* public addresses
          HubMax, PressPool, PressMax, HomeMax, SearchMax, ItcMax,  \* slots
          PerAuthor,   \* MAX_SEARCH_PER_AUTHOR
          Lookback,    \* SEEN_LOOKBACK_DAYS
          MaxDays, MaxDigests  \* bounds: the days; the digests begun

\* A card: [lane, hub, url, title, weight, key, author, body, shape, site, seo, blurb].
\* hub: where a press card was read.  key: its host, or the query of a tweet.  shape: what
\* its path looks like.
XLanes == {"for_you", "following", "twitter"}
ItcLanes == {"itc_draft", "itc_tweet"}
NoBody == "short"
NoAuthor == "nobody"

ASSUME DailyDigestAssumption ==
    /\ \A p \in Pulls : \A i \in DOMAIN p.hubs : p.hubs[i].lane = "live_site"
    /\ \A p \in Pulls : \A i \in DOMAIN p.x : p.x[i].lane \in XLanes
    /\ IsList(Catalog) /\ \A p \in Pulls : IsList(p.hubs) /\ IsList(p.x)
    /\ \A p \in Pulls : p.answered \cap Unprobed = {} /\ p.catalog \in BOOLEAN /\ p.news \in BOOLEAN
    /\ {"itcy", "interchouette"} \cap Unprobed = {}
    /\ {HubMax, PressPool, PressMax, HomeMax, SearchMax, ItcMax, Lookback, MaxDays, MaxDigests} \subseteq Nat
    /\ PerAuthor \in Nat \ {0}

VARIABLES dgToday,
          dgBuild,    \* of every builder: [at, began, before, seen, items, ord, id]
          dgSeq,      \* next_ord of digest_code_seq
          dgStored,   \* the digests, in the order of their rows: [id, began, before, items]
          dgPrinted,  \* the lines of items Slack has shown: [id, idx, item]
          dgSaid      \* the last answer: the items /propose_* took, with the lines they
                      \* were typed from, and the addresses of the pack of /draft_about_itc

digestVars == <<dgToday, dgBuild, dgSeq, dgStored, dgPrinted, dgSaid>>

NoId == <<0, 0>>
IdleBuild == [at |-> "idle", began |-> 0, before |-> {}, seen |-> {}, items |-> <<>>, ord |-> 0, id |-> NoId]

DigestInit ==
    /\ dgToday = 1
    /\ dgBuild = [b \in Builders |-> IdleBuild]
    /\ dgSeq = 0
    /\ dgStored = <<>> /\ dgPrinted = {}
    /\ dgSaid = [picked |-> <<>>, pack |-> <<>>]

-------------------------------------------------------------------------------
(* The lanes *)

Heavier(a, b) == a.weight > b.weight \/ (a.weight = b.weight /\ a.title < b.title)
ByWeight(cards) == Sorted(cards, Heavier)

\* The cards, without those an earlier one stands for.
KeepFirst(cards, Same(_, _)) == Keep(cards, CappedPlaces(Len(cards), PairsOf(cards, Same), 1))

\* extract_article_links: a newsletter names its articles, a hub is read for its own.
Accepted(card) ==
    /\ card.site # "linkedin" /\ card.shape # "asset" /\ ~card.seo
    /\ card.site # "newsletter" => card.site = "own" /\ card.shape = "article"

\* The links of every hub, each once, in the order of press_prefer_score.
HubLinks(hubs) == KeepFirst(Only(hubs, Accepted), LAMBDA a, b : a.hub = b.hub /\ a.url = b.url)

\* fetch_hub_candidates: of every hub the first ones that no earlier day has shown.
FetchHubs(hubs, seen) ==
    LET fresh == Only(HubLinks(hubs), LAMBDA c : c.url \notin seen)
        Nth(i) == Cardinality({j \in 1..i : fresh[j].hub = fresh[i].hub})
    IN Keep(fresh, {i \in DOMAIN fresh : Nth(i) <= HubMax})

\* dedupe_twitter_near_body, dedupe_twitter_search_authors
NearBody(a, b) == a.lane \in XLanes /\ b.lane \in XLanes /\ a.body # NoBody /\ a.body = b.body
SameAuthor(a, b) == a.lane = "twitter" /\ b.lane = "twitter" /\ a.author # NoAuthor /\ a.author = b.author
CapAuthors(cards) == Keep(cards, CappedPlaces(Len(cards), PairsOf(cards, SameAuthor), PerAuthor))

\* dedupe_candidates: a card that goes for its title has taken its address with it.
SameUrl(a, b) == a.url = b.url
SameTitle(a, b) == a.title = b.title
DedupeCandidates(cards) == KeepFirst(KeepFirst(cards, SameUrl), SameTitle)

\* Mutant: a portfolio card is looked for among the earlier days as well, a press card is not.
FilterSeenItcOnly(cards, seen) == Only(cards, LAMBDA c : c.lane \notin ItcLanes \/ c.url \notin seen)

\* filter_prior_day_seen: the portfolio is shown every day.
FilterSeen(cards, seen) == Only(cards, LAMBDA c : c.lane \in ItcLanes \/ c.url \notin seen)

\* fair_press_by_host, fair_tweets_by_query: one card of every key in turn, the key
\* with the heaviest card first.  (A cap per key ends the first pass; the second goes
\* on where it stopped, so that the cap changes nothing.)
DealByKey(cards, max) ==
    LET sorted == ByWeight(cards)
        Bucket(i) == {j \in DOMAIN sorted : sorted[j].key = sorted[i].key}
        Round(i) == Cardinality({j \in Bucket(i) : j < i})
        Lead(i) == sorted[CHOOSE j \in Bucket(i) : \A k \in Bucket(i) : j <= k]
        Sooner(i, j) ==
            \/ Round(i) < Round(j)
            \/ /\ Round(i) = Round(j)
               /\ \/ Lead(i).weight > Lead(j).weight
                  \/ Lead(i).weight = Lead(j).weight /\ sorted[i].key < sorted[j].key
        order == SortedPlaces(Len(sorted), {p \in (DOMAIN sorted) \X (DOMAIN sorted) : Sooner(p[1], p[2])})
    IN AtPlaces(sorted, UpTo(max, order))

IsArticle(card) == card.shape = "article" /\ ~card.seo /\ card.blurb # "seo"

\* drop_listing_press_items, once the pages have been read for a blurb.
PressItems(cards) == UpTo(PressMax, Only(DealByKey(cards, PressPool), IsArticle))

Lane(cards, lanes) == Only(cards, LAMBDA c : c.site # "linkedin" /\ c.lane \in lanes)

\* build_daily_digest between the collection and the insert.
DigestItems(collected, seen) ==
    LET sorted == ByWeight(collected)
        single == DedupeCandidates(CapAuthors(KeepFirst(sorted, NearBody)))
        fresh == FilterSeen(single, seen)
    IN PressItems(Lane(fresh, {"live_site"}))
       \o UpTo(HomeMax, Lane(fresh, {"for_you"}))
       \o UpTo(HomeMax, Lane(fresh, {"following"}))
       \o DealByKey(Lane(fresh, {"twitter"}), SearchMax)
       \o UpTo(ItcMax, Lane(fresh, ItcLanes))

-------------------------------------------------------------------------------
(* The catalog *)

Eligible == Only(Catalog, LAMBDA b : b \notin Skipped)

\* public_cite_for
PublicCite(b) ==
    CASE b = "itcy" -> Worker
      [] b = "interchouette" -> Home
      [] OTHER -> RepoOf[b]

Site(news) == IF news THEN News ELSE Home

\* rank_one: the branches in answered are those whose probe came back.
CiteUrl(b, answered, news) ==
    CASE b = "itcy" -> Worker
      [] b = "interchouette" -> Site(news)
      [] b \notin {"itcy", "interchouette"} /\ b \notin Unprobed /\ b \in answered /\ b \in Private -> Site(news)
      [] OTHER -> PublicCite(b)

PushedAt(b, answered) == IF b \in answered /\ b \notin Unprobed THEN Pushed[b] ELSE 0
Weight(b, answered) == IF PushedAt(b, answered) > 0 THEN 9 ELSE 6

RankedBranches(answered) ==
    Sorted(Eligible, LAMBDA a, b : PushedAt(a, answered) > PushedAt(b, answered))

\* label_five_five: a draft, a tweet, a draft ...
LabelFiveFive(ranked, answered, news) ==
    [i \in DOMAIN ranked |->
        [lane |-> IF i % 2 = 1 THEN "itc_draft" ELSE "itc_tweet", hub |-> 0,
         url |-> CiteUrl(ranked[i], answered, news), title |-> 100 + i,
         weight |-> Weight(ranked[i], answered), key |-> 0, author |-> NoAuthor, body |-> NoBody,
         shape |-> "page", site |-> "own", seo |-> FALSE, blurb |-> "text"]]

ItcCandidates(pull) ==
    IF pull.catalog THEN LabelFiveFive(UpTo(ItcMax, RankedBranches(pull.answered)), pull.answered, pull.news)
    ELSE <<>>

-------------------------------------------------------------------------------
(* A digest is built *)

SetBuild(b, build) == dgBuild' = [dgBuild EXCEPT ![b] = build]
Stored(id) == {n \in DOMAIN dgStored : dgStored[n].id = id}

\* load_prior_day_seen_keys_on: the items of the days before, not those of today.
SeenKeys(today) ==
    UNION {{dgStored[n].items[i].url : i \in DOMAIN dgStored[n].items} :
           n \in {m \in DOMAIN dgStored : dgStored[m].id[1] < today /\ dgStored[m].id[1] + Lookback >= today}}

\* What is stored, with its days.  History: began and before say when a build read it.
Shown == UNION {{<<dgStored[n].id[1], dgStored[n].items[i].url>> : i \in DOMAIN dgStored[n].items} : n \in DOMAIN dgStored}

StartDigest(b) ==
    /\ dgBuild[b].at = "idle"
    /\ dgSeq + Cardinality({c \in Builders : dgBuild[c].at # "idle"}) < MaxDigests
    /\ SetBuild(b, [IdleBuild EXCEPT !.at = "collect", !.began = dgToday, !.before = Shown, !.seen = SeenKeys(dgToday)])
    /\ UNCHANGED <<dgToday, dgSeq, dgStored, dgPrinted, dgSaid>>

\* A day with nothing new makes no digest.
SetItems(b, items) ==
    SetBuild(b, IF items = <<>> THEN IdleBuild ELSE [dgBuild[b] EXCEPT !.at = "order", !.items = items])

CollectDigest(b, pull) ==
    LET collected == FetchHubs(pull.hubs, dgBuild[b].seen) \o pull.x \o ItcCandidates(pull)
    IN /\ dgBuild[b].at = "collect"
       /\ SetItems(b, DigestItems(collected, dgBuild[b].seen))
       /\ UNCHANGED <<dgToday, dgSeq, dgStored, dgPrinted, dgSaid>>

\* next_digest_id: the order is read, then written back, and the day is that of the clock.
ReadOrder(b) ==
    /\ dgBuild[b].at = "order"
    /\ SetBuild(b, [dgBuild[b] EXCEPT !.at = "id", !.ord = dgSeq + 1])
    /\ UNCHANGED <<dgToday, dgSeq, dgStored, dgPrinted, dgSaid>>

NextDigestId(b) ==
    /\ dgBuild[b].at = "id"
    /\ dgSeq' = dgBuild[b].ord
    /\ SetBuild(b, [dgBuild[b] EXCEPT !.at = "header", !.id = <<dgToday, dgBuild[b].ord>>])
    /\ UNCHANGED <<dgToday, dgStored, dgPrinted, dgSaid>>

\* insert_digest: the header; digest_id is unique.
InsertHeader(b) ==
    LET build == dgBuild[b]
    IN /\ build.at = "header"
       /\ IF Stored(build.id) # {} THEN SetBuild(b, IdleBuild) /\ UNCHANGED dgStored
          ELSE /\ SetBuild(b, [build EXCEPT !.at = "items"])
               /\ dgStored' = Append(dgStored, [id |-> build.id, began |-> build.began, before |-> build.before, items |-> <<>>])
       /\ UNCHANGED <<dgToday, dgSeq, dgPrinted, dgSaid>>

\* Its items, an insert each.
InsertItem(b) ==
    LET build == dgBuild[b]
    IN /\ build.at = "items"
       /\ \E n \in Stored(build.id) :
              LET done == Len(dgStored[n].items) + 1
              IN /\ dgStored' = [dgStored EXCEPT ![n].items = Append(@, build.items[done])]
                 /\ SetBuild(b, IF done = Len(build.items) THEN [build EXCEPT !.at = "post"] ELSE build)
       /\ UNCHANGED <<dgToday, dgSeq, dgPrinted, dgSaid>>

\* digest_slack_post: five threads, every item with the two lines that propose it.
Lines(n) == {[id |-> dgStored[n].id, idx |-> i, item |-> dgStored[n].items[i]] : i \in DOMAIN dgStored[n].items}

PostDigest(b) ==
    /\ dgBuild[b].at = "post"
    /\ \E n \in Stored(dgBuild[b].id) : dgPrinted' = dgPrinted \cup Lines(n)
    /\ SetBuild(b, IdleBuild)
    /\ UNCHANGED <<dgToday, dgSeq, dgStored, dgSaid>>

-------------------------------------------------------------------------------
(* The operator, the clock, the process *)

\* Mutant: the number is looked up in the digest stored last.
ProposeFromLatest(line) ==
    LET items == dgStored[Len(dgStored)].items
    IN /\ dgSaid' = [picked |-> IF line.idx \in DOMAIN items THEN <<[line |-> line, item |-> items[line.idx]]>> ELSE <<>>,
                     pack |-> <<>>]
       /\ UNCHANGED <<dgToday, dgBuild, dgSeq, dgStored, dgPrinted>>

\* load_digest_pick, pick_items: the item of that number in the digest of that id.
ProposeLine(line) ==
    LET digest == CHOOSE n \in Stored(line.id) : TRUE
        items == dgStored[digest].items
    IN /\ dgSaid' = [picked |-> IF line.idx \in DOMAIN items THEN <<[line |-> line, item |-> items[line.idx]]>> ELSE <<>>,
                     pack |-> <<>>]
       /\ UNCHANGED <<dgToday, dgBuild, dgSeq, dgStored, dgPrinted>>

\* build_itc_research_pack: the branch the subject names, or the first.
AboutItc(b, pull) ==
    /\ pull.catalog
    /\ dgSaid' = [picked |-> <<>>,
                  pack |-> KeepFirst(<<CiteUrl(b, pull.answered, pull.news), Site(pull.news), Cv>>, LAMBDA u, v : u = v)]
    /\ UNCHANGED <<dgToday, dgBuild, dgSeq, dgStored, dgPrinted>>

NextDay ==
    /\ dgToday < MaxDays
    /\ dgToday' = dgToday + 1
    /\ UNCHANGED <<dgBuild, dgSeq, dgStored, dgPrinted, dgSaid>>

\* The process ends: what was inserted stays.
RestartDigests ==
    /\ \E b \in Builders : dgBuild[b].at # "idle"
    /\ dgBuild' = [b \in Builders |-> IdleBuild]
    /\ UNCHANGED <<dgToday, dgSeq, dgStored, dgPrinted, dgSaid>>

DigestNext ==
    \/ \E b \in Builders :
          \/ StartDigest(b) \/ ReadOrder(b) \/ NextDigestId(b) \/ InsertHeader(b) \/ InsertItem(b) \/ PostDigest(b)
          \/ \E pull \in Pulls : CollectDigest(b, pull)
    \/ \E line \in dgPrinted : ProposeLine(line)
    \/ \E i \in DOMAIN Eligible, pull \in Pulls : AboutItc(Eligible[i], pull)
    \/ NextDay \/ RestartDigests

DigestSpec == DigestInit /\ [][DigestNext]_digestVars

-------------------------------------------------------------------------------
Items(n) == dgStored[n].items
SameCard(a, b) == SameUrl(a, b) \/ SameTitle(a, b)
NewsOf(n) == {i \in DOMAIN Items(n) : Items(n)[i].lane \notin ItcLanes}

\* The line printed under an item proposes that item, whatever has been stored since.
LinesPickWhatTheyShow ==
    \A i \in DOMAIN dgSaid.picked : dgSaid.picked[i].item = dgSaid.picked[i].line.item

\* A stored digest offers nothing twice, no news of a day before the one its build
\* began on (as stored then), no listing, nothing of LinkedIn, and no author more often
\* than PerAuthor; and no two digests share an id (build_daily_digest).
DigestInv ==
    /\ LinesPickWhatTheyShow
    /\ \A n \in DOMAIN dgStored :
           /\ \A m \in DOMAIN dgStored : dgStored[m].id = dgStored[n].id => m = n
           /\ \A i, j \in DOMAIN Items(n) : i # j => ~SameCard(Items(n)[i], Items(n)[j])
           /\ \A i \in NewsOf(n) : \A shown \in dgStored[n].before :
                  shown[1] < dgStored[n].began /\ shown[1] + Lookback >= dgStored[n].began => shown[2] # Items(n)[i].url
           /\ \A i \in NewsOf(n) : Items(n)[i].site # "linkedin" /\ (Items(n)[i].lane = "live_site" => IsArticle(Items(n)[i]))
           /\ \A i \in DOMAIN Items(n) : Items(n)[i].lane = "twitter" /\ Items(n)[i].author # NoAuthor =>
                  Cardinality({j \in DOMAIN Items(n) : /\ Items(n)[j].lane = "twitter"
                                                       /\ Items(n)[j].author = Items(n)[i].author}) <= PerAuthor

\* The comment of SEEN_LOOKBACK_DAYS, "Prior calendar days whose digest URLs/titles are
\* excluded from today's build": an item is in no digest of an earlier day.
DaysDoNotRepeat ==
    \A n, m \in DOMAIN dgStored : dgStored[m].id[1] < dgStored[n].id[1] =>
        \A i \in NewsOf(n), j \in NewsOf(m) : Items(n)[i].url # Items(m)[j].url

\* The comments "never a private product URL" of ItcPublicCite and "never emit private
\* URL" of rank_one.
PrivateStaysPrivate ==
    LET private == {RepoOf[b] : b \in Private}
    IN /\ \A n \in DOMAIN dgStored : \A i \in DOMAIN Items(n) : Items(n)[i].url \notin private
       /\ \A i \in DOMAIN dgSaid.pack : dgSaid.pack[i] \notin private
================================================================================
