------------------------------ MODULE PublishShip ------------------------------
(***************************************************************************)
(* One ship of an approved text to LinkedIn or X: the mode is resolved,    *)
(* what Slack shows around the text is taken off, the text is posted by    *)
(* the route of its mode, and a row of the ship's audit says how it ended. *)
(* Operators may edit the mode in config.toml while a ship runs.           *)
(***************************************************************************)
EXTENDS XThread

CONSTANTS ShipRequests, \* requests: [surface, lines, quote, parent], see Line below
          ShipModes,    \* modes config.toml may hold, NoMode when it holds none
          ShipEnvs,     \* environments: [via, creds, fallback, override]
          ShipFaults,   \* subset of {"sqlite", "call", "lost", "second", "script"}
          NoShip        \* before the first request

NoMode == ""

ASSUME PublishShipAssumption ==
    ShipEnvs \subseteq [via : {"brave", "api"}, creds : {"user", "bearer", "none"},
                        fallback : {"playground", "production"}, override : {NoMode, "playground", "production"}]

VARIABLES shipEnv,   \* the process: the route of X, its credentials, the mode it was started with
          shipDisk,  \* the mode of each surface in config.toml
          ship,      \* the ship: its request, its step, its mode, its texts, its end
          shipPublic, \* what stands on the platform: texts in the order they were posted
          shipAudit  \* rows of publish_audit

shipVars == <<shipEnv, shipDisk, ship, shipPublic, shipAudit>>

-------------------------------------------------------------------------------
(* A line of a body is what Slack shows: the id header, text, or a line of the       *)
(* footer: "link" starts it, "option" is a numbered address, "note" any other line   *)
(* of it, "ai" the disclosure at the end.                                            *)

Line(k, words) == [k |-> k, words |-> words]

XChrome == {"id", "link", "option", "mark", "ai"}   \* "mark" parts a thread that was pasted
XBreak == {"link", "ai"}
LinkedInChrome == {"id", "link"}

BodyLine == [k : XChrome \cup {"text", "note"}, words : Seq([k : Written, n : Nat])]
ShipRequest == [surface : {"linkedin", "x"}, lines : Seq(BodyLine), quote : BOOLEAN, parent : BOOLEAN]
NotesInFooter(lines) ==
    \A i \in DOMAIN lines : lines[i].k = "note" => \E j \in 1..(i - 1) : lines[j].k \in XBreak

\* What is posted on LinkedIn quotes nothing and answers nothing.
ASSUME ShipRequestsAssumption ==
    \A req \in ShipRequests :
        /\ req \in ShipRequest /\ NotesInFooter(req.lines)
        /\ req.surface = "linkedin" => ~req.quote /\ ~req.parent

TextLines(lines) == [i \in DOMAIN lines |-> lines[i].words]
DropBlank(ls) ==
    LET full == {i \in DOMAIN ls : ls[i] # <<>>}
    IN IF full = {} THEN <<>> ELSE SubSeq(ls, Min(full), Max(full))

\* strip_own_x_handle: at the start of a line the account does not name itself.
StripOwnHandle(lines) ==
    LET Bare(line) == IF line # <<>> /\ line[1].k = "own" THEN Tail(line) ELSE line
    IN Only([i \in DOMAIN lines |-> Bare(lines[i])], LAMBDA line : line # <<>>)

\* tweet_text_for_api: the header is skipped and the footer ends the text.
TweetTextForApi(lines) ==
    LET breaks == {i \in DOMAIN lines : lines[i].k \in XBreak}
        body == {i \in DOMAIN lines : lines[i].k \notin XChrome /\ \A j \in breaks : i < j}
    IN StripOwnHandle(JoinSoftWraps(TextLines(Keep(lines, body))))

\* linkedin_text_for_api: the footer ends at the disclosure, which is kept.
LinkedInTextForApi(lines) ==
    LET InFooter(i) == \E j \in 1..i : lines[j].k = "link" /\ \A h \in j..i : lines[h].k # "ai"
        keep == {i \in DOMAIN lines : lines[i].k \notin LinkedInChrome \cup {"ai"} /\ ~InFooter(i)}
        prose == DropBlank(TextLines(Keep(lines, keep)))
        disclosure == Only(lines, LAMBDA l : l.k = "ai")
    IN [i \in DOMAIN prose |-> Line("text", prose[i])] \o disclosure

\* prepare_x_publish_request: a status address in the text is the quote.
PrepareX(req) ==
    LET text == TweetTextForApi(req.lines)
    IN [req EXCEPT !.quote = @ /\ \A i \in DOMAIN text : ~(Len(text[i]) = 1 /\ text[i][1].k = "xurl")]

-------------------------------------------------------------------------------
(* The mode *)

\* An override, then the environment, then config.toml, then the configuration of the start.
ResolveMode(surface) ==
    IF shipEnv.override # NoMode THEN shipEnv.override
    ELSE IF shipDisk[surface] # NoMode THEN shipDisk[surface] ELSE shipEnv.fallback

Good == {"playground", "production"}

Idle == [st |-> "idle", req |-> NoShip, mode |-> NoMode, text |-> <<>>, out |-> "none"]

ShipInit ==
    /\ shipEnv \in ShipEnvs
    /\ shipDisk = [s \in {"linkedin", "x"} |-> NoMode]
    /\ ship = Idle
    /\ shipPublic = <<>> /\ shipAudit = {}

\* Operators edit config.toml, before or while a ship runs; the mode of a ship is that of its start.
EditMode(surface, m) ==
    /\ ship.st \in {"idle", "open", "post"}
    /\ shipDisk[surface] # m
    /\ shipDisk' = [shipDisk EXCEPT ![surface] = m]
    /\ UNCHANGED <<shipEnv, ship, shipPublic, shipAudit>>

Go(st) == ship' = [ship EXCEPT !.st = st]
Ends(out) == ship' = [ship EXCEPT !.st = "record", !.out = out]

\* A ship starts: a mode that does not parse ends it before the audit is open.
StartShip(req) ==
    LET mode == ResolveMode(req.surface)
        ready == IF req.surface = "x" THEN PrepareX(req)
                 ELSE [req EXCEPT !.lines = LinkedInTextForApi(req.lines)]
    IN /\ ship.st = "idle"
       /\ ship' = IF mode \in Good THEN [Idle EXCEPT !.st = "open", !.req = ready, !.mode = mode]
                  ELSE [Idle EXCEPT !.st = "end", !.req = req, !.out = "err"]
       /\ UNCHANGED <<shipEnv, shipDisk, shipPublic, shipAudit>>

OpenAudit ==
    /\ ship.st = "open"
    /\ \/ Go("post")
       \/ "sqlite" \in ShipFaults /\ ship' = [ship EXCEPT !.st = "end", !.out = "err"]
    /\ UNCHANGED <<shipEnv, shipDisk, shipPublic, shipAudit>>

-------------------------------------------------------------------------------
(* Posting *)

\* Playground posts nothing and ends well.
PostPlayground ==
    /\ ship.st = "post" /\ ship.mode = "playground"
    /\ Ends("ok")
    /\ UNCHANGED <<shipEnv, shipDisk, shipPublic, shipAudit>>

\* ship_texts: root and reply, or why they are refused.
ShipTexts(lines) == LayoutXThread(TweetTextForApi(lines))
TooLong(texts) == texts = <<>> \/ \E i \in DOMAIN texts : ~FitsX(texts[i])
NamesItself(texts) == texts # <<>> /\ \E i \in DOMAIN texts[1] : texts[1][i].k = "own"
TextsRefused(texts) == TooLong(texts) \/ NamesItself(texts)

\* Mutant: a reply to a status may overflow to a second post.
RefusedButOverflow(req, texts) ==
    \/ shipEnv.via = "api" /\ shipEnv.creds # "user"
    \/ req.parent /\ req.quote
    \/ TextsRefused(texts)

\* What production refuses before it posts.
XRefused(req, texts) ==
    \/ shipEnv.via = "api" /\ shipEnv.creds # "user"
    \/ req.parent /\ (req.quote \/ Len(texts) = 2)
    \/ TextsRefused(texts)

LayOut ==
    LET texts == ShipTexts(ship.req.lines)
    IN /\ ship.st = "post" /\ ship.mode = "production" /\ ship.req.surface = "x"
       /\ \/ ~XRefused(ship.req, texts) /\ ship' = [ship EXCEPT !.st = "root", !.text = texts]
          \/ XRefused(ship.req, texts) /\ Ends("err")
          \/ shipEnv.via = "brave" /\ "script" \in ShipFaults /\ Ends("err")
       /\ UNCHANGED <<shipEnv, shipDisk, shipPublic, shipAudit>>

Posts(text) ==
    shipPublic' = Append(shipPublic, [surface |-> ship.req.surface, text |-> text,
                                      quote |-> ship.req.quote /\ ship.st # "second",
                                      parent |-> ship.req.parent])

\* Mutant: a root that fails ends as a reply that fails does to the API.
PostRootLikeReply ==
    /\ ship.st = "root"
    /\ \/ Posts(ship.text[1]) /\ IF Len(ship.text) = 2 THEN Go("second") ELSE Ends("ok")
       \/ "call" \in ShipFaults /\ Ends("ok") /\ UNCHANGED shipPublic
    /\ UNCHANGED <<shipEnv, shipDisk, shipAudit>>

\* The root is posted; an answer that is lost, or to the script a post whose address is not found,
\* ends the ship in error.  The API takes "unknown" for an id it cannot read, and goes on.
PostRoot ==
    /\ ship.st = "root"
    /\ \/ Posts(ship.text[1]) /\ IF Len(ship.text) = 2 THEN Go("second") ELSE Ends("ok")
       \/ Posts(ship.text[1]) /\ "lost" \in ShipFaults /\ Ends("err")
       \/ "call" \in ShipFaults /\ Ends("err") /\ UNCHANGED shipPublic
    /\ UNCHANGED <<shipEnv, shipDisk, shipAudit>>

\* Mutant: the script ends well although the reply failed, as the API does.
PostSecondLikeApi ==
    /\ ship.st = "second"
    /\ \/ Posts(ship.text[2]) /\ Ends("ok")
       \/ "second" \in ShipFaults /\ UNCHANGED shipPublic /\ Ends("ok")
    /\ UNCHANGED <<shipEnv, shipDisk, shipAudit>>

\* The reply to the root: one that fails is an error to the script and nothing to the API.
PostSecond ==
    /\ ship.st = "second"
    /\ \/ Posts(ship.text[2]) /\ Ends("ok")
       \/ /\ "second" \in ShipFaults /\ UNCHANGED shipPublic
          /\ Ends(IF shipEnv.via = "api" THEN "ok" ELSE "err")
    /\ UNCHANGED <<shipEnv, shipDisk, shipAudit>>

\* LinkedIn: the text is stripped once more, and the tool may fail after it posted.
PostLinkedIn ==
    LET text == LinkedInTextForApi(ship.req.lines)
        Posted(out) == Posts(text) /\ Ends(out)
    IN /\ ship.st = "post" /\ ship.mode = "production" /\ ship.req.surface = "linkedin"
       /\ \/ text # <<>> /\ (Posted("ok") \/ ("lost" \in ShipFaults /\ Posted("err")))
          \/ (text = <<>> \/ "call" \in ShipFaults) /\ Ends("err") /\ UNCHANGED shipPublic
       /\ UNCHANGED <<shipEnv, shipDisk, shipAudit>>

\* The row; one that cannot be written is only logged, and the ship keeps its end.
RecordShip ==
    /\ ship.st = "record"
    /\ \/ shipAudit' = shipAudit \cup {[surface |-> ship.req.surface, mode |-> ship.mode,
                                        body |-> ship.req.lines, status |-> ship.out]}
       \/ "sqlite" \in ShipFaults /\ UNCHANGED shipAudit
    /\ Go("end")
    /\ UNCHANGED <<shipEnv, shipDisk, shipPublic>>

ShipNext ==
    \/ \E s \in {"linkedin", "x"}, m \in ShipModes : EditMode(s, m)
    \/ \E req \in ShipRequests : StartShip(req)
    \/ OpenAudit \/ PostPlayground \/ LayOut \/ PostRoot \/ PostSecond \/ PostLinkedIn \/ RecordShip

ShipSpec == ShipInit /\ [][ShipNext]_shipVars

-------------------------------------------------------------------------------
(* Properties *)

\* What the operator wrote in the text of a body, footer and header taken off by its kind alone.
SaidWords(lines) ==
    UNION {ToSet(lines[i].words) : i \in {j \in DOMAIN lines : lines[j].k = "text"}}

PublicWords(p) == IF p.surface = "x" THEN ToSet(WordsOf(p.text))
                  ELSE UNION {ToSet(p.text[i].words) : i \in DOMAIN p.text}

Places(words) == {w.n : w \in words}

\* publish/x.rs, publish/ship.rs: nothing of the footer and header is posted and nothing over the
\* limit of a post; a reply to a status is one post that quotes nothing; and a ship to production
\* that ended well is public, with the row's own body on LinkedIn, and both posts of a thread when
\* the script posted it.
ShippedIsWhatWasSaid ==
    /\ \A i \in DOMAIN shipPublic :
         /\ shipPublic[i].surface = "x" =>
                /\ Places(PublicWords(shipPublic[i])) \subseteq Places(SaidWords(ship.req.lines))
                /\ FitsX(shipPublic[i].text)
         /\ shipPublic[i].parent => ~shipPublic[i].quote /\ Len(shipPublic) = 1
    /\ \A row \in shipAudit : row.status = "ok" /\ row.mode = "production" =>
         /\ shipPublic # <<>>
         /\ row.surface = "linkedin" => shipPublic[1].text = row.body
         /\ row.surface = "x" /\ shipEnv.via = "brave" => Len(shipPublic) = Len(ship.text)

(* A ship and what the publish gate counts on.  A thread goes out when its last post is decided. *)

shipStage ==
    IF ship.st \in {"idle", "open", "post", "root", "second"} THEN "ship"
    ELSE IF ship.st = "record" /\ ship.out = "ok" /\ ship.mode = "production" THEN "audit" ELSE "over"
shipLive == ship.st \in {"record", "end"} /\ shipPublic # <<>>
shipAudited == \E row \in shipAudit : row.status = "ok" /\ row.mode = "production"

One == INSTANCE OneShip WITH stage <- shipStage, live <- shipLive, audited <- shipAudited

\* publish/ship.rs implements the one step the gate takes for a ship, and the one it takes for its
\* row: what is public never goes back, and no ok row of production stands for a text that is not.
ShipsAsOne == One!OneSpec

(* Of a thread.  Words are compared by their place: a word that was cut counts once. *)

PlacesOf(words) ==
    LET once == SelectSeq([i \in DOMAIN words |-> IF i > 1 /\ words[i - 1].n = words[i].n THEN 0 ELSE words[i].n],
                          LAMBDA n : n # 0)
    IN once
AllWords(texts) == FoldLeft(LAMBDA a, t : a \o WordsOf(t), <<>>, texts)
WordsIn(texts) == UNION {ToSet(WordsOf(texts[i])) : i \in DOMAIN texts}

\* A thread: what its lines say, its words, the address after the tags, and its texts.
ThreadOf(lines) ==
    LET text == TweetTextForApi(lines)
        peeled == PeelTrailer(text)
        head == PromoteLineBreaks(peeled.lines)
    IN [said |-> WordsIn(text), words |-> WordsOf(head \o peeled.trailer),
        head |-> head, trailer |-> peeled.trailer, texts |-> LayoutXThread(text)]

\* Some place at the end of a sentence parts the text in two posts that fit.
Splittable(t) == \E i \in DOMAIN t.head :
    t.head[i].k = "end" /\ FitsX(Cut(t.head, i)) /\ ReplyFits(From(t.head, i + 1), t.trailer)

InThread(P(_)) == ship.st = "open" /\ ship.req.surface = "x" => P(ThreadOf(ship.req.lines))

\* sources/tweet_thread.rs:39-47, "Reply = everything left + tags + URL, unchanged": taking the
\* lines apart loses no word, and parting them in two posts loses none and adds none, when the
\* first sentence has room and no article ends a paragraph.
LosesNoWord(t) ==
    /\ ToSet(t.words) = t.said
    /\ t.trailer # <<>> /\ OpensShort(t.head) /\ ArticlesGoOn(t.head) =>
           Places(WordsIn(t.texts)) = Places(t.said)
ThreadLosesNoWord == InThread(LosesNoWord)

\* Nor is a word said twice or out of its place in a thread that ships, wherever its articles stand:
\* it is the text in order before the tags and the address; and a text that can be parted at the end
\* of a sentence is never refused for its length.
ThreadKeepsTheText ==
    /\ ThreadLosesNoWord
    /\ InThread(LAMBDA t : t.trailer # <<>> =>
        /\ OpensShort(t.head) /\ ~TextsRefused(t.texts) => PlacesOf(AllWords(t.texts)) = PlacesOf(t.words)
        /\ Splittable(t) /\ (\A i \in DOMAIN t.head : t.head[i].k # "dot") => ~TooLong(t.texts))

\* The same line without the condition on the first sentence: nothing of the text is dropped.
ReplyIsEverythingLeft ==
    InThread(LAMBDA t : t.trailer # <<>> /\ ~TextsRefused(t.texts) =>
        PlacesOf(AllWords(t.texts)) = PlacesOf(t.words))
===============================================================================
