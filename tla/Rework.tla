-------------------------------- MODULE Rework --------------------------------
(***************************************************************************)
(* /rework and /change_url of one open draft or tweet. A rework reads the  *)
(* row, has a model write the text again, forces what the operator asked   *)
(* for by keyword on the answer (replace, remove, add, is handle, quote),  *)
(* asks once more when a quote is missing, settles the links, and saves.   *)
(* While it waits, sites go down and come back, and the operator may       *)
(* change the link.                                                        *)
(*                                                                         *)
(* A text is a sequence of words: a phrase nothing looks into is one word. *)
(***************************************************************************)
EXTENDS Cites

CONSTANTS ReworkRows,    \* rows a rework may find, see StoredRow
          ReworkNotes,   \* what an operator may ask for, see Note
          ReworkAnswers, \* texts a model may write: [words, cites]
          UrlChoices,    \* what /change_url may be given
          Sites,         \* addresses that may stop answering
          Label,         \* the plain word a handle stands for
          MaxReworks, MaxPicks, MaxOutages

ReworkFields == {"kind", "words", "cites", "options", "pool", "asked", "farce", "writer", "author"}

\* What a row lists: one option of every site and never more than the cap, one link at
\* most, and it is on the site of option 1.
Listed(row) ==
    /\ Len(row.options) <= LinkCap
    /\ row.kind = "draft" =>
          /\ \A i, j \in DOMAIN row.options : SamePublisherDomain(row.options[i], row.options[j]) => i = j
          /\ Len(row.cites) <= 1
          /\ row.cites # <<>> => row.options # <<>> /\ SamePublisherDomain(row.cites[1], row.options[1])

\* A note. quoted: its phrases in double quotes. more: it says more than its keywords.
Note == [mode |-> "edit", paste |-> <<>>, replaces |-> <<>>, maps |-> <<>>, adds |-> <<>>, removes |-> <<>>,
         quotes |-> {}, quoted |-> {}, links |-> <<>>, more |-> FALSE]

ASSUME ReworkAssumption ==
    /\ MaxReworks \in Nat /\ MaxPicks \in Nat /\ MaxOutages \in Nat
    /\ \A row \in ReworkRows :
          /\ DOMAIN row = ReworkFields /\ Listed(row)
          /\ IsList(row.cites) /\ IsList(row.options) /\ IsList(row.pool) /\ IsList(row.asked)
    /\ \A note \in ReworkNotes : DOMAIN note = DOMAIN Note /\ IsList(note.links)
    /\ \A answer \in ReworkAnswers : DOMAIN answer = {"words", "cites"} /\ IsList(answer.cites)

VARIABLES rwRow,  \* the stored row
          rwJob,  \* the rework under way or the last one
          rwLive, \* addresses that answer
          rwLeft  \* reworks, picks and outages still allowed

reworkVars == <<rwRow, rwJob, rwLive, rwLeft>>

\* writer: the model the disclosure names. author: the model that wrote the words.
StoredRow(kind, words, cites, options, pool, asked, farce) ==
    [kind |-> kind, words |-> words, cites |-> cites, options |-> options, pool |-> pool,
     asked |-> asked, farce |-> farce, writer |-> "first", author |-> "first"]

NoJob == [st |-> "idle", row |-> [kind |-> "none"], note |-> Note, said |-> <<>>, end |-> "none"]

-------------------------------------------------------------------------------
(* Keyword edits *)

Holds(words, w) == \E i \in DOMAIN words : words[i] = w
Without(words, gone) == SelectSeq(words, LAMBDA w : w \notin gone)
ReplaceWord(words, from, to) == FlattenSeq([i \in DOMAIN words |-> IF words[i] = from THEN to ELSE <<words[i]>>])

\* replace: every place of the phrase; is handle: every place of the name.
ReplaceAllOf(words, edits) == FoldLeft(LAMBDA t, e : ReplaceWord(t, e.from, e.to), words, edits)

\* inject_rework_add_handle: in place of the first plain name, else after the first paragraph.
InjectHandle(words, handle) ==
    LET named == {i \in DOMAIN words : words[i] = Label[handle]}
        at == CHOOSE i \in named : \A j \in named : i <= j
    IN IF Holds(words, handle) THEN words
       ELSE IF named # {} THEN [words EXCEPT ![at] = handle] ELSE Append(words, handle)

ApplyKeywordEdits(words, note) ==
    LET edited == ReplaceAllOf(ReplaceAllOf(words, note.replaces), note.maps)
    IN Without(FoldLeft(InjectHandle, edited, note.adds), ToSet(note.removes))

\* The edits of a draft run over the line of its link too.
OtherPage(u, page) == [site |-> u.site, page |-> page, kind |-> u.kind, day |-> u.day]
EditsOfUrl(u, note) ==
    LET hits == {i \in DOMAIN note.replaces : note.replaces[i].from = u.page}
    IN IF hits = {} THEN u ELSE OtherPage(u, note.replaces[CHOOSE i \in hits : TRUE].to[1])
EditCites(cites, note) == [i \in DOMAIN cites |-> EditsOfUrl(cites[i], note)]

Has(body, w) == Holds(body.words, w) \/ \E i \in DOMAIN body.cites : body.cites[i].page = w
HasAll(body, ws) == \A i \in DOMAIN ws : Has(body, ws[i])

\* missing_rework_replace_outcomes
OutcomesMissing(prior, body, note) ==
    \/ \E i \in DOMAIN note.replaces :
          LET e == note.replaces[i] IN ~HasAll(body, e.to) /\ (Has(body, e.from) \/ Has(prior, e.from))
    \/ \E i \in DOMAIN note.maps :
          LET e == note.maps[i] IN ~HasAll(body, e.to) /\ (Has(body, e.from) \/ Has(prior, e.from))
    \/ \E i \in DOMAIN note.removes : Has(body, note.removes[i]) /\ Has(prior, note.removes[i])
    \/ \E i \in DOMAIN note.adds : ~Holds(body.words, note.adds[i])

QuotesMissing(body, note) == \E q \in note.quotes : ~Holds(body.words, q)

\* rework_instructions_are_keyword_edits_only
KeywordsOnly(note) ==
    /\ note.replaces \o note.maps \o note.adds \o note.removes # <<>>
    /\ ~note.more /\ note.quotes = {}

-------------------------------------------------------------------------------
(* Links of a draft *)

\* Mutant: the link of the text joins the options at their end.
AttachLast(row, body) ==
    LET stored == IF row.options = <<>> THEN PickLinkOptions(row.pool, body.cites) ELSE row.options
        current == InPostUrl(row.cites)
    IN ReachableOptions(IF current = NoUrl THEN stored ELSE EnsureOption(stored, current), row.pool, rwLive)

\* attach_rework_draft_links: the link of the text goes first, what does not answer goes out.
AttachLinks(row, body) ==
    LET stored == IF row.options = <<>> THEN PickLinkOptions(row.pool, body.cites) ELSE row.options
        current == InPostUrl(row.cites)
        primary == IF current = NoUrl THEN FirstOption(stored) ELSE current
    IN ReachableOptions(IF primary = NoUrl THEN stored ELSE PromoteLinkOption(stored, primary), row.pool, rwLive)

\* A text with its links: edits of the note are made last, over the link as well.
WithLinks(row, body, note, options) ==
    [row EXCEPT !.words = ApplyKeywordEdits(body.words, note), !.options = options,
                !.cites = EditCites(SetSingleInPostUrl(FirstOption(options)), note)]
DraftOf(row, body, note) == WithLinks(row, body, note, AttachLinks(row, body))

\* rework_stored_draft_llm: what the note has in double quotes is taken out of the answer.
DraftByModel(row, answer, note) ==
    LET kept == [answer EXCEPT !.words = Without(@, note.quoted)]
    IN [DraftOf(row, kept, note) EXCEPT !.writer = "again", !.author = "again"]

\* apply_draft_replacement: the disclosure stays that of the stored row.
DraftByHand(row, body, note, author) == [DraftOf(row, body, note) EXCEPT !.author = author]

-------------------------------------------------------------------------------
(* Links of a tweet *)

CurrentOfTweet(row) == IF row.options # <<>> THEN row.options[1] ELSE InPostUrl(row.cites)

\* finalize_rework_tweet_output: every address the operator ever asked for, the link last.
TweetOf(row, body, note, links) ==
    LET stored == IF row.options = <<>> THEN PickTweetCiteOptions(row.pool, body.cites) ELSE row.options
        current == CurrentOfTweet(row)
        asked == Take(<<>>, row.asked \o links, Len(row.asked \o links), SamePublisherUrl)
        required == IF current # NoUrl /\ IsNew(asked, current) THEN <<current>> \o asked ELSE asked
        withLink == IF current = NoUrl THEN stored ELSE EnsureOption(stored, current)
        options == EnsureOptions(withLink, required)
        alone == row.farce /\ current = NoUrl
        inTweet == IF current # NoUrl THEN current
                   ELSE IF body.cites # <<>> THEN InPostUrl(EditCites(body.cites, note))
                   ELSE FirstOf(options, AllowedTweetCite)
    IN [row EXCEPT !.words = ApplyKeywordEdits(body.words, note),
                   !.options = IF alone THEN <<>> ELSE options,
                   !.cites = IF alone THEN <<>> ELSE OperatorLines(required, inTweet)]

\* The note's addresses are remembered with the subject.
TweetByModel(row, answer, note) ==
    [TweetOf(row, answer, note, note.links) EXCEPT
        !.asked = Take(<<>>, @ \o note.links, Len(@ \o note.links), SamePublisherUrl), !.writer = "again", !.author = "again"]

TweetByHand(row, body, note, author) == [TweetOf(row, body, note, body.cites) EXCEPT !.author = author]

ByModel(row, answer, note) ==
    IF row.kind = "draft" THEN DraftByModel(row, answer, note) ELSE TweetByModel(row, answer, note)
ByHand(row, body, note, author) ==
    IF row.kind = "draft" THEN DraftByHand(row, body, note, author) ELSE TweetByHand(row, body, note, author)

Body(row) == [words |-> row.words, cites |-> row.cites]
Edited(body, note) == [words |-> ApplyKeywordEdits(body.words, note), cites |-> EditCites(body.cites, note)]

-------------------------------------------------------------------------------
(* A rework *)

ReworkInit ==
    /\ rwRow \in ReworkRows
    /\ rwJob = NoJob
    /\ rwLive = Sites
    /\ rwLeft = [reworks |-> MaxReworks, picks |-> MaxPicks, outages |-> MaxOutages]

StartRework(note) ==
    /\ rwJob.st = "idle" /\ rwLeft.reworks > 0
    /\ rwLeft' = [rwLeft EXCEPT !.reworks = @ - 1]
    /\ rwJob' = [st |-> IF note.mode = "use" \/ (note.mode = "edit" /\ KeywordsOnly(note)) THEN "hand" ELSE "writing",
                 row |-> rwRow, note |-> note, said |-> <<>>, end |-> "none"]
    /\ UNCHANGED <<rwRow, rwLive>>

\* The row that was read is kept but for what the rework wrote; the store has it whole.
SaveRework(row, said) ==
    /\ rwRow' = row
    /\ rwJob' = [rwJob EXCEPT !.st = "idle", !.said = said, !.end = "saved"]

Refuse(why, said) ==
    /\ rwJob' = [rwJob EXCEPT !.st = "idle", !.said = said, !.end = why]
    /\ UNCHANGED rwRow

\* use text: the paste is the text, the note has no keywords.
PasteText ==
    /\ rwJob.st = "hand" /\ rwJob.note.mode = "use"
    /\ IF rwJob.note.paste = <<>> THEN Refuse("empty", <<>>)
       ELSE SaveRework(ByHand(rwJob.row, [words |-> rwJob.note.paste, cites |-> rwJob.note.links], Note, "operator"), <<>>)
    /\ UNCHANGED <<rwLive, rwLeft>>

\* A text that lacks an edit of the note, before or after it got its links, is refused.
SaveEdited(prior, edited, done) ==
    IF OutcomesMissing(prior, edited, rwJob.note) \/ OutcomesMissing(prior, Body(done), rwJob.note)
    THEN Refuse("edits", <<>>) ELSE SaveRework(done, <<>>)

EditByKeywords ==
    LET prior == Body(rwJob.row)
        edited == Edited(prior, rwJob.note)
    IN /\ rwJob.st = "hand" /\ rwJob.note.mode = "edit"
       /\ SaveEdited(prior, edited, ByHand(rwJob.row, edited, rwJob.note, rwJob.row.author))
       /\ UNCHANGED <<rwLive, rwLeft>>

TooThin(row, answer, note) == row.kind = "draft" /\ Without(answer.words, note.quoted) = <<>>

\* Edits the model left out are made on its text by hand.
EditWritten(written, edited) ==
    IF edited = Body(written) THEN written ELSE ByHand(rwJob.row, edited, rwJob.note, "again")
WithEdits(written) == EditWritten(written, Edited(Body(written), rwJob.note))

\* A quote that was left out is asked for again.
SettleAnswer(answer, done) ==
    IF OutcomesMissing(Body(rwJob.row), Body(done), rwJob.note) THEN Refuse("edits", answer.words)
    ELSE IF QuotesMissing(done, rwJob.note)
    THEN rwJob' = [rwJob EXCEPT !.st = "again", !.said = answer.words] /\ UNCHANGED rwRow
    ELSE SaveRework(done, answer.words)

FirstAnswer(answer) ==
    /\ rwJob.st = "writing"
    /\ IF TooThin(rwJob.row, answer, rwJob.note) THEN Refuse("writer", answer.words)
       ELSE IF rwJob.note.mode = "refresh" THEN SaveRework(ByModel(rwJob.row, answer, Note), answer.words)
       ELSE SettleAnswer(answer, WithEdits(ByModel(rwJob.row, answer, rwJob.note)))
    /\ UNCHANGED <<rwLive, rwLeft>>

\* The second request names the quotes again, in double quotes.
Louder(note) == [note EXCEPT !.quoted = @ \cup note.quotes]

SettleQuotes(answer, done) ==
    IF QuotesMissing(done, rwJob.note) THEN Refuse("quotes", answer.words) ELSE SaveRework(done, answer.words)

SecondAnswer(answer) ==
    /\ rwJob.st = "again"
    /\ IF TooThin(rwJob.row, answer, Louder(rwJob.note)) THEN Refuse("writer", answer.words)
       ELSE SettleQuotes(answer, ByModel(rwJob.row, answer, Louder(rwJob.note)))
    /\ UNCHANGED <<rwLive, rwLeft>>

WriterFails ==
    /\ rwJob.st \in {"writing", "again"}
    /\ Refuse("writer", <<>>)
    /\ UNCHANGED <<rwLive, rwLeft>>

-------------------------------------------------------------------------------
(* The operator and the web, meanwhile *)

ChangeUrl(choice) ==
    LET picked == ResolveUrlChoice(choice, rwRow.options)
        fits == picked.url # NoUrl /\ rwRow.kind = "tweet" => AllowedTweetCite(picked.url)
    IN /\ rwLeft.picks > 0 /\ picked.ok /\ fits
       /\ rwLeft' = [rwLeft EXCEPT !.picks = @ - 1]
       /\ rwRow' = [rwRow EXCEPT !.cites = SetSingleInPostUrl(picked.url),
                                 !.options = IF picked.url = NoUrl THEN @ ELSE PromoteLinkOption(@, picked.url)]
       /\ UNCHANGED <<rwJob, rwLive>>

SiteGoesDown(u) ==
    /\ u \in rwLive /\ rwLeft.outages > 0
    /\ rwLive' = rwLive \ {u}
    /\ rwLeft' = [rwLeft EXCEPT !.outages = @ - 1]
    /\ UNCHANGED <<rwRow, rwJob>>

SiteComesBack(u) ==
    /\ u \notin rwLive
    /\ rwLive' = rwLive \cup {u}
    /\ UNCHANGED <<rwRow, rwJob, rwLeft>>

ReworkStep == PasteText \/ EditByKeywords \/ WriterFails
              \/ \E answer \in ReworkAnswers : FirstAnswer(answer) \/ SecondAnswer(answer)

ReworkNext ==
    \/ \E note \in ReworkNotes : StartRework(note)
    \/ ReworkStep
    \/ \E choice \in UrlChoices : ChangeUrl(choice)
    \/ \E u \in Sites : SiteGoesDown(u) \/ SiteComesBack(u)

ReworkSpec == ReworkInit /\ [][ReworkNext]_reworkVars

-------------------------------------------------------------------------------
(* Properties *)

\* What a draft lists stays in order over any run of reworks, picks and outages: one option
\* of every site and never more than the cap, one link at most, and it is on the site of option 1.
ReworkInv == rwLive \subseteq Sites /\ Listed(rwRow)

Saves == rwJob.st # "idle" /\ rwJob'.st = "idle" /\ rwJob'.end = "saved"
MayStay(link) == link # NoUrl /\ AllowedTweetCite(link) /\ ~XNonStatus(link) /\ Answers(link, rwLive)

\* A rework of a draft leaves the link the draft had, if it still answers and no edit named words
\* of it: not the writer, not the probes, not a refill from the pool puts another one in its place.
LinkStays ==
    LET link == InPostUrl(rwJob.row.cites)
    IN Saves /\ rwJob.row.kind = "draft" /\ MayStay(link) /\ EditsOfUrl(link, rwJob.note) = link
       => InPostUrl(rwRow'.cites) = link
PickedLinkStays == [][LinkStays]_reworkVars

\* A rework of keywords alone edits the text once: what it saves is what its edits make of it.
KeywordEditsLandOnce ==
    rwJob.end = "saved" /\ rwJob.note.mode = "edit" /\ KeywordsOnly(rwJob.note)
    => rwRow.words = ApplyKeywordEdits(rwJob.row.words, rwJob.note)

\* A rework that reports a required quote missing was not given it by the writer.
QuoteWasNotWritten ==
    rwJob.end = "quotes" => \E q \in rwJob.note.quotes : ~Holds(rwJob.said, q)
===============================================================================
