----------------------------- MODULE GroundedText ------------------------------
(***************************************************************************)
(* One text, from the brief of the operator to the row that is saved: LOAD *)
(* finds the addresses it may cite, the writer is asked up to three times, *)
(* each answer is scrubbed or refused, and at the end the link and the     *)
(* options of /change_url are chosen among what LOAD found and what the    *)
(* writer, where it has tools, found while it wrote.                       *)
(*                                                                         *)
(* A text is a sequence of paragraphs [says, url, at, quote]: what it      *)
(* says, an address in it and where that stands, a quotation in it.        *)
(* Builds that run beside each other are in DraftBuild.                    *)
(***************************************************************************)
EXTENDS Cites

CONSTANTS Requests,   \* what the operator asks for
          Finds,      \* what a search for it comes back with
          Writings,   \* what the writer answers
          Web,        \* the addresses that can be probed
          Walled,     \* those of them that answer a probe with 401, 403 or 429
          OffAngle,   \* is_off_angle_url
          Repo,       \* the public repository of ITCy
          NoQuote,
          MinProse,   \* MIN_LINKEDIN_PROSE_WORDS, in paragraphs
          MaxBeats,   \* COERCE_MAX_BEATS
          MaxFlips    \* bound: sites that go down or come up while a text is built

\* load: researched.  pack: /draft_about_itc, whose pack is made from the catalog.
\* self: /draft_about_itcy.  farce: /tweet_farce.
Kinds == {"load", "pack", "self", "farce"}
Says == {"prose", "subject", "aside", "mush", "plan", "beat", "tags", "essay"}
CitePlaces == {"line", "inline", "parens", "hole", "none"}

NoAddress == {NoUrl}
ListsOf(find) == {find.serp, find.browsed, find.listed, find.inside, find.posts}
AskedFor(r) == ToSet(r.https) \cup ({r.forced} \ NoAddress)
GivenUrls == UNION {AskedFor(r) : r \in Requests}
FoundUrls == UNION {UNION {ToSet(list) : list \in ListsOf(find)} : find \in Finds}
WrittenUrls == UNION {{w[i].url : i \in DOMAIN w} \ NoAddress : w \in Writings}
UrlsMet == GivenUrls \cup FoundUrls \cup WrittenUrls \cup {Repo}

WrittenQuotes == UNION {{w[i].quote : i \in DOMAIN w} : w \in Writings}
Quotations == WrittenQuotes \cup {NoQuote}

\* A paragraph that is but an address quotes nothing.
Paras == {p \in [says : Says, url : UrlsMet \cup NoAddress, at : CitePlaces, quote : Quotations] :
             p.at = "line" => p.quote = NoQuote}

\* An address is known by its site and page.
ASSUME GroundedAssumption ==
    /\ NoUrl \notin UrlsMet
    /\ \A u, v \in UrlsMet : SamePublisherUrl(u, v) => u = v
    /\ \A r \in Requests : r.kind \in Kinds /\ r.surface \in {"LinkedIn", "X"} /\ IsList(r.https)
    /\ \A find \in Finds : \A list \in ListsOf(find) : IsList(list)
    /\ Writings \subseteq Seq(Paras)
    /\ Walled \subseteq Web
    /\ MinProse \in Nat /\ MaxBeats \in Nat \ {0} /\ MaxFlips \in Nat

VARIABLES gAt,      \* idle, probe, load, write, retry, louder, finish, saved, failed
          gReq,     \* the request
          gLive,    \* the addresses that answer a probe
          gOutages,
          gPack,    \* the addresses of the research pack
          gLoad,    \* [extracted, browsed]: the addresses the session has from LOAD
          gTurns,   \* [extracted, browsed]: those it has from the turns of the writer
          gText,    \* the writer's text, scrubbed
          gSaved    \* [link, options]

knownVars == <<gPack, gLoad, gTurns>>
groundedVars == <<gAt, gReq, gLive, gOutages, knownVars, gText, gSaved>>

NothingFound == [extracted |-> <<>>, browsed |-> <<>>]
NothingSaved == [link |-> NoUrl, options |-> <<>>]

GroundedInit ==
    /\ gAt = "idle"
    /\ gReq \in Requests
    /\ gLive \in SUBSET (Web \ Walled)
    /\ gOutages = 0
    /\ gPack = <<>> /\ gLoad = NothingFound /\ gTurns = NothingFound /\ gText = <<>>
    /\ gSaved = NothingSaved

-------------------------------------------------------------------------------
(* The brief *)

Distinct(urls) == Take(<<>>, urls, Len(urls), LAMBDA u, v : u = v)
OnAngle(urls) == Only(urls, LAMBDA u : ~Junk(u) /\ u \notin OffAngle)

OperatorUrls(r) == Take(<<>>, Only(r.https, AllowedTweetCite), Len(r.https), SamePublisherUrl)
BriefCite(r) == FirstOf(r.https, AllowedTweetCite)

\* resolve_draft_cite_url: the digest's address, or else the brief's.
Cite(r) ==
    IF r.surface = "LinkedIn" /\ r.kind = "load" /\ r.forced # NoUrl /\ AllowedTweetCite(r.forced)
    THEN r.forced ELSE BriefCite(r)

-------------------------------------------------------------------------------
(* LOAD *)

\* cite_probe_soft_fail: a bot wall does not refuse the cite.
CiteHolds(u) == Answers(u, gLive) \/ u \in Walled

\* A status cited by a tweet skips the search.
SearchedFirst(r, cite, find) == IF r.surface = "X" /\ XStatus(cite) THEN <<>> ELSE find.serp
Searched(r, cite, find) ==
    IF r.surface = "X" /\ XStatus(cite) THEN <<>> ELSE find.serp \o find.browsed

\* The candidates of a short LOAD: the cite, what its page links, the brief, the search.
ShortCandidates(r, cite, find) ==
    LET Other(u) == u # cite
        Publisher(u) == Other(u) /\ ~XStatus(u)
    IN Distinct(<<cite>> \o Only(find.inside, Publisher) \o Only(OperatorUrls(r), Other)
                \o Only(Searched(r, cite, find), LAMBDA u : Publisher(u) /\ AllowedTweetCite(u))
                \o Only(find.posts, LAMBDA u : XStatus(u) /\ Other(u)))

\* What is left of them: one of every site, those that answer, and the cite.
AssembleAndProbe(cite, candidates) ==
    LET probed == FilterReachable(CapUrlsByDomain(candidates, LinkCap), gLive)
    IN IF \E i \in DOMAIN probed : probed[i] = cite THEN probed ELSE <<cite>> \o probed

\* A draft probes its pack again and puts its cite back.
ProbeAgain(r, cite, urls) ==
    LET again == FilterReachable(urls, gLive)
    IN IF r.surface # "LinkedIn" \/ \E i \in DOMAIN again : again[i] = cite THEN again
       ELSE <<cite>> \o again

\* pack_urls_from_load: the search first, then what was opened, then what the model listed.
PackFromLoad(find) ==
    UpTo(LinkCap, Distinct(Only(find.serp \o find.browsed \o find.listed, LAMBDA u : ~Junk(u))))

\* A model that opened nothing has its first address opened for it, or dropped: landed is
\* where that leads, NoUrl when it does not open.
OpensItself(find) == find.browsed = <<>> /\ PackFromLoad(find) # <<>>
Opened(find, landed) ==
    IF OpensItself(find) /\ landed = NoUrl THEN Tail(PackFromLoad(find)) ELSE PackFromLoad(find)
Browsed(find, landed) ==
    IF OpensItself(find) /\ landed # NoUrl THEN <<landed>> ELSE find.browsed

-------------------------------------------------------------------------------
(* The writer's turn: what it searches and opens before it answers *)

\* A draft whose brief has no cite is written with tools, a tweet without.
UsesTools(r) == r.surface = "LinkedIn" /\ (r.kind = "self" \/ Cite(r) = NoUrl)

\* What a turn finds: a search, and where the addresses lead that it opens.
Turns == {[extracted |-> find.serp, browsed |-> find.browsed] : find \in Finds} \cup {NothingFound}

\* Mutant: the tools are not taken from a writer whose brief has a cite.
TurnWithAnyCite(r, pack, turn) ==
    IF r.surface # "LinkedIn" THEN NothingFound
    ELSE [extracted |-> IF pack = <<>> THEN turn.extracted ELSE <<>>, browsed |-> turn.browsed]

\* draft_writer_policy: with a pack nothing is searched and only the pack is opened, but
\* what is recorded is where a page of it leads.
TurnOf(r, pack, turn) ==
    IF ~UsesTools(r) THEN NothingFound
    ELSE [extracted |-> IF pack = <<>> THEN turn.extracted ELSE <<>>, browsed |-> turn.browsed]

\* The session keeps every address once.
TakeTurn(turn) ==
    gTurns' = [extracted |-> Distinct(gTurns.extracted \o turn.extracted),
               browsed |-> Distinct(gTurns.browsed \o turn.browsed)]

\* Mutant: what the session found comes before the pack.
SessionFirst ==
    Distinct(gLoad.extracted \o gTurns.extracted \o gLoad.browsed \o gTurns.browsed \o gPack)

\* draft_link_refill_pool, asked for when the writer is done: the pack first.
RefillPool ==
    Distinct(gPack \o gLoad.extracted \o gTurns.extracted \o gLoad.browsed \o gTurns.browsed)

-------------------------------------------------------------------------------
(* The writer's answer *)

HasPara(text, kinds) == \E i \in DOMAIN text : text[i].says \in kinds
Quotes(text) == {text[i].quote : i \in DOMAIN text} \ {NoQuote}
TextUrls(text) == Only([i \in DOMAIN text |-> text[i].url], LAMBDA u : u # NoUrl)
Commentary(text) == Only(text, LAMBDA p : p.at # "line")
CiteHole(text) == \E i \in DOMAIN text : text[i].at = "hole"

\* strip_bare_https_tokens: the address goes, what stood around it stays.
WithoutUrl(p) ==
    [says |-> p.says, url |-> NoUrl, at |-> IF p.at = "parens" THEN "hole" ELSE "none", quote |-> p.quote]

\* scrub_invented_urls: a line with only a search page or the like goes whole.
ScrubInvented(text) == Only(text, LAMBDA p : p.url = NoUrl \/ ~Junk(p.url))

\* scrub_urls_outside_pack: with no pack only the lines that are an address go.
ScrubOutsidePack(text, pack) ==
    LET Foreign(p) == p.url # NoUrl /\ IsNew(pack, p.url)
        kept == Only(text, LAMBDA p : ~(p.at = "line" /\ Foreign(p)))
    IN IF pack = <<>> THEN Commentary(text)
       ELSE [i \in DOMAIN kept |-> IF Foreign(kept[i]) THEN WithoutUrl(kept[i]) ELSE kept[i]]

\* strip_leading_subject_paste: what is left becomes one paragraph.
InOneParagraph(p, first) ==
    [says |-> IF p.says = "beat" \/ (p.says = "tags" /\ ~first) THEN "aside" ELSE p.says, url |-> p.url,
     at |-> IF p.at = "line" THEN "inline" ELSE p.at, quote |-> p.quote]
StripSubjectPaste(text) ==
    IF text[1].says # "subject" THEN text
    ELSE [i \in 1..(Len(text) - 1) |-> InOneParagraph(text[i + 1], i = 1)]

\* looks_like_x_shaped_linkedin: a line of hashtags, or mostly short beats.
XShaped(text) ==
    \/ HasPara(text, {"tags"})
    \/ LET lines == Commentary(text)
       IN Len(lines) >= 3 /\ 2 * Len(Only(lines, LAMBDA p : p.says = "beat")) >= Len(lines)

StripMush(text) == Only(text, LAMBDA p : p.says # "mush")

Refused == [ok |-> FALSE, text |-> <<>>]
Scrubbed(text) == [ok |-> TRUE, text |-> text]

\* scrub_and_validate_writer_body
ScrubDraft(answer, pack) ==
    LET clean == ScrubOutsidePack(ScrubInvented(answer), pack)
        unpasted == StripSubjectPaste(clean)
        text == StripMush(unpasted)
    IN IF \/ clean = <<>> \/ HasPara(clean, {"plan"}) \/ CiteHole(clean)
          \/ unpasted = <<>> \/ XShaped(unpasted)
          \/ Len(Commentary(text)) < MinProse
       THEN Refused ELSE Scrubbed(text)

\* coerce_tweet_body: without headings, the first beats, or a line about the subject.
Stub == <<[says |-> "subject", url |-> NoUrl, at |-> "none", quote |-> NoQuote]>>
CoerceTweet(text) ==
    LET beats == UpTo(MaxBeats, Only(text, LAMBDA p : p.says # "essay"))
    IN IF beats = <<>> THEN Stub ELSE beats

Exploded(text) == HasPara(text, {"essay"}) \/ Len(text) > 2 * MaxBeats

\* scrub_and_validate_tweet_body
ScrubTweet(answer) ==
    LET stripped == StripMush(answer)
        text == IF stripped = <<>> THEN answer ELSE stripped
    IN IF \/ text = <<>> \/ CiteHole(text) \/ HasPara(text, {"mush"})
          \/ \A i \in DOMAIN text : text[i].at = "line" \/ text[i].says = "tags"
       THEN Refused ELSE Scrubbed(IF Exploded(text) THEN CoerceTweet(text) ELSE text)

NamesSubject(text) == HasPara(text, {"prose", "subject"})

ScrubFarce(answer) ==
    LET text == Commentary(answer)
    IN Scrubbed(IF Exploded(text) THEN CoerceTweet(text) ELSE text)

Scrub(r, answer) ==
    CASE r.kind = "farce" -> ScrubFarce(answer)
      [] r.surface = "LinkedIn" -> ScrubDraft(answer, gPack)
      [] r.surface = "X" /\ r.kind = "self" -> ScrubTweet(answer)
      [] OTHER -> LET scrubbed == ScrubTweet(answer)
                  IN IF scrubbed.ok /\ NamesSubject(scrubbed.text) THEN scrubbed ELSE Refused

\* A self-introduction and a farce are written once, with no quotation asked for.
AskedOnce(r) == r.kind \in {"self", "farce"}
Required(r) == IF AskedOnce(r) THEN {} ELSE r.quotes
MissingQuotes(r, text) == Required(r) \ Quotes(text)

-------------------------------------------------------------------------------
(* The link and the options *)

\* finalize_draft_link_options
DraftOptions(cite, pack, pool, text) ==
    LET picked == PickLinkOptions(OnAngle(pack), TextUrls(text))
        led == IF cite = NoUrl THEN picked ELSE PromoteLinkOption(picked, cite)
    IN ReachableOptions(led, OnAngle(pool), gLive)

\* Mutant: a cite that is an option already keeps its number.
TweetOptionsCiteAnywhere(r, pack, text) ==
    LET picked == PickTweetCiteOptions(OnAngle(pack), TextUrls(text))
        asked == EnsureOptions(picked, OperatorUrls(r))
    IN IF BriefCite(r) = NoUrl THEN asked ELSE EnsureOption(asked, BriefCite(r))

\* attach_tweet_cites: what the operator asked for is among them, the cite first.
TweetOptions(r, pack, text) ==
    LET picked == PickTweetCiteOptions(OnAngle(pack), TextUrls(text))
        asked == EnsureOptions(picked, OperatorUrls(r))
    IN IF BriefCite(r) = NoUrl THEN asked ELSE PromoteLinkOption(asked, BriefCite(r))

\* A tweet may also cite what LOAD found and never probed; it is written without tools.
TweetPack(r) ==
    IF r.kind = "pack" THEN gPack
    ELSE CapUrlsByDomain(gPack \o RefillPool \o OperatorUrls(r), LinkCap)

TweetLink(r, options) == IF BriefCite(r) # NoUrl THEN BriefCite(r) ELSE FirstOf(options, AllowedTweetCite)

\* body_ensure_repo_cite
WithRepo(options) == IF \E i \in DOMAIN options : options[i] = Repo THEN options ELSE <<Repo>> \o options

Finished(r) ==
    LET draft == DraftOptions(Cite(r), gPack, RefillPool, gText)
        tweet == TweetOptions(r, TweetPack(r), gText)
    IN CASE r.kind = "farce" -> NothingSaved
         [] r.kind = "self" -> [link |-> Repo, options |-> WithRepo(<<>>)]
         [] r.kind \in {"load", "pack"} /\ r.surface = "LinkedIn" ->
               [link |-> FirstOption(draft), options |-> draft]
         [] OTHER -> [link |-> TweetLink(r, tweet), options |-> tweet]

\* set_single_in_post_url: one line with the link; every other address is cut out.
SetInPostUrl(text) ==
    LET prose == Commentary(text)
    IN [i \in DOMAIN prose |-> IF prose[i].url = NoUrl THEN prose[i] ELSE WithoutUrl(prose[i])]

-------------------------------------------------------------------------------
Busy == gAt \notin {"idle", "saved", "failed"}
RefuseText == gAt' = "failed" /\ UNCHANGED <<gText, gSaved>>
Goto(at) == gAt' = at /\ UNCHANGED <<knownVars, gText, gSaved>>
Fail == Goto("failed")
Known(urls, extracted, browsed) ==
    /\ gPack' = urls
    /\ gLoad' = [extracted |-> Distinct(extracted), browsed |-> Distinct(browsed)]
    /\ UNCHANGED gTurns

Begin(kind, surface, at) ==
    /\ gAt = "idle" /\ gReq.kind = kind /\ gReq.surface = surface
    /\ Goto(at)
    /\ UNCHANGED <<gReq, gLive, gOutages>>

\* build_grounded_*: with a cite a draft probes it before anything else.
StartBuild ==
    \/ Begin("load", "LinkedIn", IF Cite(gReq) # NoUrl THEN "probe" ELSE "load")
    \/ Begin("load", "X", "load")

DraftAboutItc == Begin("pack", "LinkedIn", "load")
DraftTweetAboutItc == Begin("pack", "X", "load")
DraftAboutItcy == Begin("self", "LinkedIn", "load")
TweetAboutItcy == Begin("self", "X", "load")
TweetFarce == Begin("farce", "X", "load")

ProbeCite ==
    /\ gAt = "probe"
    /\ IF CiteHolds(Cite(gReq)) THEN Goto("load") ELSE Fail
    /\ UNCHANGED <<gReq, gLive, gOutages>>

\* run_short_cite_load: the cite is the subject, nothing is asked of the model.
LoadCite(find) ==
    LET cite == Cite(gReq)
        candidates == ShortCandidates(gReq, cite, find)
    IN /\ gAt = "load" /\ gReq.kind = "load" /\ cite # NoUrl
       /\ IF ~CiteHolds(cite) THEN Fail
          ELSE /\ Known(ProbeAgain(gReq, cite, AssembleAndProbe(cite, candidates)),
                        SearchedFirst(gReq, cite, find) \o candidates, find.browsed)
               /\ gAt' = "write"
               /\ UNCHANGED <<gText, gSaved>>
       /\ UNCHANGED <<gReq, gLive, gOutages>>

\* run_load_phase, then enrich_research_pack_urls.
LoadResearch(find, landed) ==
    /\ gAt = "load" /\ gReq.kind = "load" /\ Cite(gReq) = NoUrl
    /\ Known(FilterReachable(Opened(find, landed), gLive), find.serp, Browsed(find, landed))
    /\ gAt' = "write"
    /\ UNCHANGED <<gReq, gLive, gOutages, gText, gSaved>>

\* A pack that was made before: a draft probes it, a tweet takes it as it is.
LoadPack(find) ==
    /\ gAt = "load" /\ gReq.kind # "load"
    /\ LET urls == CASE gReq.kind = "self" -> <<Repo>>
                     [] gReq.kind = "farce" -> <<>>
                     [] gReq.kind = "pack" /\ gReq.surface = "X" -> find.listed
                     [] OTHER -> FilterReachable(find.listed, gLive)
       IN Known(urls, <<>>, <<>>)
    /\ gAt' = "write"
    /\ UNCHANGED <<gReq, gLive, gOutages, gText, gSaved>>

\* The writer is asked; an answer that is refused is asked for once more.
TakeText(scrubbed) ==
    IF scrubbed.ok
    THEN /\ gText' = scrubbed.text
         /\ gAt' = IF MissingQuotes(gReq, scrubbed.text) = {} THEN "finish" ELSE "louder"
         /\ UNCHANGED gSaved
    ELSE /\ gAt' = IF gAt = "write" /\ ~AskedOnce(gReq) THEN "retry" ELSE "failed"
         /\ UNCHANGED <<gText, gSaved>>

Write(answer, turn) ==
    /\ gAt \in {"write", "retry"}
    /\ TakeText(Scrub(gReq, answer))
    /\ TakeTurn(TurnOf(gReq, gPack, turn))
    /\ UNCHANGED <<gReq, gLive, gOutages, gPack, gLoad>>

\* Mutant: the second answer is taken without looking for the quotations.
TakeAnyText(scrubbed) ==
    IF scrubbed.ok THEN gText' = scrubbed.text /\ gAt' = "finish" /\ UNCHANGED gSaved ELSE RefuseText

\* enforce_required_quotes: asked once for the quotations that are missing.
TakeQuotedText(scrubbed) ==
    IF scrubbed.ok /\ MissingQuotes(gReq, scrubbed.text) = {}
    THEN gText' = scrubbed.text /\ gAt' = "finish" /\ UNCHANGED gSaved
    ELSE RefuseText

WriteLouder(answer, turn) ==
    /\ gAt = "louder"
    /\ TakeQuotedText(Scrub(gReq, answer))
    /\ TakeTurn(TurnOf(gReq, gPack, turn))
    /\ UNCHANGED <<gReq, gLive, gOutages, gPack, gLoad>>

\* The model fails, of LOAD or of the writer.
ModelIsDown ==
    /\ gAt \in {"write", "retry", "louder"} \/ (gAt = "load" /\ gReq.kind = "load" /\ Cite(gReq) = NoUrl)
    /\ Fail
    /\ UNCHANGED <<gReq, gLive, gOutages>>

\* The link, the options, the floor, and the text is saved.
SaveText(saved) ==
    IF gReq.kind \in {"load", "pack"} /\ ~LinkOptionsFloor(saved.options) THEN Fail
    ELSE /\ gSaved' = saved
         /\ gText' = IF gReq.kind = "farce" THEN gText ELSE SetInPostUrl(gText)
         /\ gAt' = "saved"
         /\ UNCHANGED knownVars

Finish ==
    /\ gAt = "finish"
    /\ SaveText(Finished(gReq))
    /\ UNCHANGED <<gReq, gLive, gOutages>>

\* A site goes down, or comes back.
Outage(u) ==
    /\ Busy /\ gOutages < MaxFlips
    /\ gOutages' = gOutages + 1
    /\ gLive' = IF u \in gLive THEN gLive \ {u} ELSE gLive \cup {u}
    /\ UNCHANGED <<gAt, gReq, knownVars, gText, gSaved>>

GroundedNext ==
    \/ StartBuild \/ DraftAboutItc \/ DraftTweetAboutItc \/ DraftAboutItcy \/ TweetAboutItcy \/ TweetFarce
    \/ ProbeCite \/ ModelIsDown \/ Finish
    \/ \E find \in Finds :
          LoadCite(find) \/ LoadPack(find) \/ \E landed \in FoundUrls \cup NoAddress : LoadResearch(find, landed)
    \/ \E answer \in Writings, turn \in Turns : Write(answer, turn) \/ WriteLouder(answer, turn)
    \/ \E u \in Web \ Walled : Outage(u)

GroundedSpec == GroundedInit /\ [][GroundedNext]_groundedVars

-------------------------------------------------------------------------------
Researched == gAt = "saved" /\ gReq.kind \in {"load", "pack"}
Options == ToSet(gSaved.options)
Loaded == ToSet(gPack) \cup ToSet(gLoad.extracted) \cup ToSet(gLoad.browsed)

\* The cite of the operator leads: always for a tweet, for a draft when it answers.
CiteLeads ==
    Researched /\ Cite(gReq) # NoUrl
        /\ (gReq.surface = "LinkedIn" => FilterReachable(<<Cite(gReq)>>, gLive) # <<>>)
      => gSaved.link = Cite(gReq) /\ gSaved.options[1] = Cite(gReq)

\* As long as an address of the pack answers, a draft is linked to the pack or to its cite,
\* never to what fills up its options.
PackLeads ==
    Researched /\ gReq.surface = "LinkedIn" /\ FilterReachable(OnAngle(gPack), gLive) # <<>>
      => gSaved.link \in ToSet(gPack) \cup {Cite(gReq)}

\* What a saved text offers to link was found by LOAD or given by the operator, whatever
\* the writer put in it, unless it is a draft without a cite: such a one may offer what its
\* writer opened on its own, and what it searched for if the pack was empty.
OptionsHaveASource ==
    Researched =>
        \/ Options \subseteq Loaded \cup AskedFor(gReq)
        \/ /\ gReq.surface = "LinkedIn" /\ Cite(gReq) = NoUrl
           /\ Options \subseteq Loaded \cup AskedFor(gReq) \cup ToSet(gTurns.browsed)
                                \cup (IF gPack = <<>> THEN ToSet(gTurns.extracted) ELSE {})

\* The options of a saved text have a source, its link is one of them, the cite of the
\* operator or else the pack leads; what a draft offers still answered when it was saved,
\* over sites that go down while it is written; and the quotations that were asked for are
\* there, up to the handles placed in them.
GroundedInv ==
    /\ CiteLeads /\ PackLeads /\ OptionsHaveASource
    /\ Researched =>
          /\ gSaved.link \in Options
          /\ gReq.surface = "LinkedIn" => \A u \in Options : Answers(u, gLive)
          /\ Required(gReq) \subseteq Quotes(gText)

\* What every text offers is what LOAD found or the operator gave, whoever wrote it.
OptionsWereLoaded == Researched => Options \subseteq Loaded \cup AskedFor(gReq)

\* The comment of build_grounded_draft_with_cite, "pins a digest / operator URL as
\* cite slot 1 when set": the saved draft has its cite as option 1.
CiteIsPinned ==
    Researched /\ gReq.surface = "LinkedIn" /\ gReq.kind = "load" /\ Cite(gReq) # NoUrl
      => gSaved.options[1] = Cite(gReq)

\* The comment of writer_incomplete_cite_hole_reason, "Incomplete mid-sentence cite
\* holes (...) that must not ship": no saved text has empty parentheses.
NoCiteHole == Researched => ~CiteHole(gText)
================================================================================
