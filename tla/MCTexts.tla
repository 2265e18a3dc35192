-------------------------------- MODULE MCTexts --------------------------------
(* Instances for TLC of the modules that make a text and carry it: what is      *)
(* imported, proposed, digested, written, reworked, given handles, filed and    *)
(* posted.  As in MCServices, part names the module whose steps a behaviour     *)
(* takes.                                                                       *)
EXTENDS MCCorpusImport, GithubFiles, PublishShip, Rework, GroundedText, Handles, CorpusPropose,
        DailyDigest

VARIABLE part

readVars == <<importVars, proposeVars, digestVars>>
writeVars == <<reworkVars, groundedVars, handlesVars>>
postVars == <<ghVars, shipVars>>
textVars == <<part, readVars, writeVars, postVars>>

(* Posting: texts of up to PostWords words in up to two paragraphs, with their trailer. *)

PostWords == 4
WordKinds == {"w", "end", "art", "dot", "tail"}
WordsOfKinds(kinds) ==
    [i \in DOMAIN kinds |-> [k |-> kinds[i], n |-> IF kinds[i] = "tail" THEN i - 1 ELSE i]]

\* A word with a dot inside has two halves.
Halved(kinds) ==
    \A i \in DOMAIN kinds : /\ kinds[i] = "tail" => i > 1 /\ kinds[i - 1] = "dot"
                            /\ kinds[i] = "dot" => i < Len(kinds) /\ kinds[i + 1] = "tail"
Heads == {WordsOfKinds(ks) : ks \in {s \in UNION {[1..n -> WordKinds] : n \in 1..PostWords} :
                                        Halved(s) /\ ("dot" \in ToSet(s) => Len(s) < PostWords)}}
Parted(t, i) == IF i = 0 \/ i >= Len(t) THEN <<t>> ELSE <<SubSeq(t, 1, i), <<>>, SubSeq(t, i + 1, Len(t))>>
Single(kind, n) == <<[k |-> kind, n |-> n]>>
Trailers == {<<>>, <<Single("tag", 20)>>, <<Single("tag", 20), Single("url", 21)>>,
             <<Single("url", 21), Single("tag", 20)>>}
PostBodies == {p \o tr : p \in {Parted(t, i) : t \in Heads, i \in {0, 3}}, tr \in Trailers}
ShortBodies == {<<SubSeq(WordsOfKinds(<<"w", "w", "end", "w">>), 1, n)>> \o tr :
                   n \in {1, 4}, tr \in Trailers \cup {<<Single("xurl", 21)>>}}

\* Lines that stand under each other, and the handle of the account at the start of one and in it.
WrappedBodies == {<<WordsOfKinds(a), Single(kind, 5)>> :
                     a \in {<<"w", "art">>, <<"w", "end">>, <<"own", "art">>, <<"own">>, <<"w", "own", "end">>},
                     kind \in {"w", "own", "tag", "url"}}

RowFooter == <<Line("link", <<>>), Line("option", <<>>), Line("note", Single("w", 30)), Line("ai", <<>>)>>
XBody(ls) == <<Line("id", <<>>)>> \o [i \in DOMAIN ls |-> Line("text", ls[i])] \o RowFooter
LinkedInBodies == {<<Line("id", <<>>)>> \o prose \o foot :
                      prose \in {<<>>, <<Line("text", Single("w", 1))>>}, foot \in {<<>>, RowFooter}}
ThreadPosts == [surface : {"x"}, lines : {XBody(b) : b \in PostBodies}, quote : {FALSE}, parent : {FALSE}]
PostRequests == ThreadPosts
    \cup [surface : {"x"}, lines : {XBody(b) : b \in ShortBodies \cup WrappedBodies}, quote : BOOLEAN, parent : BOOLEAN]
    \cup [surface : {"linkedin"}, lines : LinkedInBodies, quote : {FALSE}, parent : {FALSE}]
PostEnv(via, creds, fallback, override) ==
    [via |-> via, creds |-> creds, fallback |-> fallback, override |-> override]
Brave == PostEnv("brave", "none", "production", "")
PostEnvs == {Brave, PostEnv("api", "user", "playground", "production"),
             PostEnv("api", "bearer", "production", ""), PostEnv("brave", "none", "playground", "")}

\* The many texts of a thread are posted in production only, with no edit of the mode.
ThreadsInProduction ==
    /\ ship.st = "idle" /\ ship'.req \in ThreadPosts =>
           shipEnv = Brave /\ shipDisk.x = "" /\ shipDisk.linkedin = ""
    /\ ship.req \in ThreadPosts => shipDisk' = shipDisk

(* Pages: a, b and c are publishers, x a status, y junk; w a walled site, z off the web. *)

Page(site, page, kind, day) == [site |-> site, page |-> page, kind |-> kind, day |-> day]
pa == Page("a", "v1", "page", 0)
pa2 == Page("a", "v2", "page", 0)
pa3 == Page("a", "v3", "page", 3)
pb == Page("b", "home", "page", 0)
pc == Page("c", "home", "page", 0)
ps == Page("x", "s1", "status", 0)
pw == Page("w", "1", "page", 0)
py == Page("y", "home", "junk", 0)
pz == Page("z", "1", "page", 0)
repo == Page("gh", "itcy", "page", 0)

(* Reworks *)

Rows == {StoredRow("draft", <<"Wasmer", "runs", "v1">>, <<pa>>, <<pa, pb>>, <<pa, pb, pc>>, <<>>, FALSE),
         StoredRow("draft", <<"Wasmer", "runs">>, <<>>, <<>>, <<pa, pa3, py>>, <<>>, FALSE),
         StoredRow("tweet", <<"Wasmer", "runs", "v1">>, <<ps>>, <<ps, pa, pb>>, <<ps, pa, pb>>, <<>>, FALSE),
         StoredRow("tweet", <<"Wasmer">>, <<>>, <<>>, <<>>, <<>>, TRUE)}
Notes == {[Note EXCEPT !.mode = "refresh"],
          [Note EXCEPT !.mode = "use", !.paste = <<"mine">>, !.links = <<pc>>],
          [Note EXCEPT !.replaces = <<[from |-> "v1", to |-> <<"v2">>]>>],
          [Note EXCEPT !.replaces = <<[from |-> "runs", to |-> <<"now", "runs">>]>>],
          [Note EXCEPT !.quotes = {"slogan"}, !.more = TRUE],
          [Note EXCEPT !.quotes = {"slogan"}, !.maps = <<[from |-> "Wasmer", to |-> <<"@wasmer">>]>>],
          [Note EXCEPT !.adds = <<"@wasmer">>, !.links = <<pc>>, !.more = TRUE],
          [Note EXCEPT !.removes = <<"v1">>, !.quoted = {"v1"}]}
WriterAnswers == {[words |-> <<"Wasmer", "runs">>, cites |-> <<pb>>],
                  [words |-> <<"slogan">>, cites |-> <<>>],
                  [words |-> <<"Wasmer", "slogan", "v1">>, cites |-> <<pa>>]}
Picks == {[k |-> "clear"], [k |-> "option", n |-> 2], [k |-> "url", url |-> pa2], [k |-> "url", url |-> py]}
ReworkPages == {pa, pb, pc, pa2, pa3, py}
Labels == [h \in {"@wasmer"} |-> "Wasmer"]

(* Texts on sources *)

Ask(surface, kind, https, forced, quotes) ==
    [surface |-> surface, kind |-> kind, https |-> https, forced |-> forced, quotes |-> quotes]
Asks == {Ask("LinkedIn", "load", <<>>, NoUrl, {}), Ask("LinkedIn", "load", <<py>>, pw, {}),
         Ask("LinkedIn", "load", <<pa>>, NoUrl, {"q"}), Ask("X", "load", <<ps, pb>>, NoUrl, {}),
         Ask("X", "load", <<>>, NoUrl, {"q"}), Ask("LinkedIn", "pack", <<pb>>, NoUrl, {}),
         Ask("X", "pack", <<>>, NoUrl, {"q"}), Ask("LinkedIn", "self", <<>>, NoUrl, {}),
         Ask("X", "self", <<>>, NoUrl, {}), Ask("X", "farce", <<>>, NoUrl, {})}
Find0(serp, browsed, listed, inside, posts) ==
    [serp |-> serp, browsed |-> browsed, listed |-> listed, inside |-> inside, posts |-> posts]
WebPages == {pa, pa2, pa3, pb, pw}
WalledPages == {pw}
OffPages == {pa2}
FindSet == {Find0(<<pa, pb>>, <<>>, <<py>>, <<>>, <<>>), Find0(<<>>, <<pb>>, <<pb, pa2>>, <<pb, py>>, <<ps>>),
            Find0(<<>>, <<>>, <<pa, pa3>>, <<>>, <<>>), Find0(<<py>>, <<>>, <<>>, <<>>, <<>>)}
Para0(says, url, at, quote) == [says |-> says, url |-> url, at |-> at, quote |-> quote]
Plain(says) == Para0(says, NoUrl, "none", NoQuote)
CiteLine(u) == Para0("aside", u, "line", NoQuote)
WritingSet ==
    {<<Plain("prose"), CiteLine(pa), Plain("prose")>>,
     <<Para0("prose", pb, "parens", "q"), Plain("prose")>>,
     <<Plain("subject"), Plain("beat"), Plain("beat"), CiteLine(pz)>>,
     <<Para0("mush", NoUrl, "none", "q"), Para0("prose", pz, "inline", NoQuote), Plain("aside")>>,
     <<Plain("plan")>>, <<>>, <<Plain("essay"), Plain("aside")>>,
     <<Plain("tags"), Para0("aside", NoUrl, "none", "q")>>,
     <<CiteLine(py), Para0("aside", NoUrl, "hole", NoQuote)>>,
     <<Plain("prose"), Plain("beat"), Plain("beat"), CiteLine(pz), Para0("prose", NoUrl, "none", "q")>>}

(* Handles *)

CONSTANTS ada, lov, acme, inter, itc, hada, hacme, hacme2, hitc, xitc, xada, hlab, noHandle

Name(v) == [k |-> "word", v |-> v]
Profile(site, slug) == [k |-> "url", v |-> [site |-> site, slug |-> slug]]
Url(site, slug) == [site |-> site, slug |-> slug]
ItcRow == Row(<<inter, itc>>, hitc, xitc, Url("company", hitc), Url("x", xitc))
AdaRow == Row(<<ada, lov>>, hada, noHandle, Url("in", hada), noHandle)
AcmeRow == Row(<<acme>>, hacme, hacme, Url("company", hacme), Url("x", hacme))
HandleFiles == {<<ItcRow, AdaRow>>, <<AcmeRow, AdaRow>>}
AddLine(name, one, two) == [name |-> name, one |-> one, two |-> two]
HandleAdds ==
    {AddLine(<<ada, lov>>, At(hada), At(xada)), AddLine(<<acme>>, Profile("company", hacme), At(xada)),
     AddLine(<<>>, At(xada), Profile("in", hada)), AddLine(<<acme>>, Name(acme), At(hacme)),
     AddLine(<<acme, lov>>, Profile("x", hacme), Profile("page", acme)),
     AddLine(<<lov, acme>>, Profile("company", hacme), Profile("in", hada))}
HandleBriefs == {<<Name(ada), Name(lov), Profile("page", hlab)>>, <<Profile("page", hlab)>>, <<Name(inter), Name(acme)>>,
                 <<Profile("in", hada)>>, <<At(hacme), Name(ada)>>, <<Profile("x", xada)>>}
HandleTexts == {<<Name(ada), Name(lov), Name(acme)>>, <<Name(inter), Name(itc), At(hitc), Name(ada)>>, <<Name(inter)>>,
                <<At(hacme2), Name(lov)>>, <<>>}
HandlePacks == {[li |-> noHandle, x |-> noHandle], [li |-> hada, x |-> xada], [li |-> noHandle, x |-> xada]}
InsideHandles == {<<hacme, hacme2>>}
LettersOf == (ada :> 5) @@ (lov :> 8) @@ (acme :> 6) @@ (inter :> 13) @@ (itc :> 3) @@ (hada :> 5)
             @@ (hacme :> 6) @@ (xada :> 5)
HostWords == {<<hlab, <<acme>>>>}
CompanyName == <<inter>>
CompanyNameItc == <<inter, itc>>

(* Proposals: a shares its strong token with b, and two plain ones with c. *)

StoryTopic ==
    [s \in Subjects |-> CASE s = "a" -> {"avif", "x", "y"} [] s = "b" -> {"avif", "z"} [] OTHER -> {"x", "y"}]
Chunk(column, line, usable) == [column |-> column, line |-> line, usable |-> usable]
StoryChunks == {Chunk("a", "b", TRUE), Chunk(NoSubject, "b", TRUE), Chunk("c", NoSubject, TRUE),
                Chunk(NoSubject, NoSubject, TRUE)}

(* Digests *)

DigestCard(lane, hub, url, title, weight, key, author, body, shape, site) ==
    [lane |-> lane, hub |-> hub, url |-> url, title |-> title, weight |-> weight, key |-> key, author |-> author,
     body |-> body, shape |-> shape, site |-> site, seo |-> FALSE, blurb |-> "text"]
HubCard(hub, url, title, key, shape, site) ==
    DigestCard("live_site", hub, url, title, 10, key, NoAuthor, NoBody, shape, site)
XCard(url, title, weight, key, author, body) ==
    DigestCard("twitter", 0, url, title, weight, key, author, body, "page", "own")
DigestPull(hubs, x, catalog, answered, news) ==
    [hubs |-> hubs, x |-> x, catalog |-> catalog, answered |-> answered, news |-> news]
DigestPulls ==
    {DigestPull(<<HubCard(1, "n1", 1, 1, "article", "own"), HubCard(2, "list", 2, 1, "listing", "newsletter"),
                  HubCard(2, "n2", 3, 2, "article", "newsletter")>>,
                <<DigestCard("for_you", 0, "t1", 4, 8, 0, "ann", "same", "page", "own"),
                  XCard("t2", 5, 9, 1, "ann", "same"), XCard("t3", 6, 8, 1, "ann", "other")>>,
                TRUE, {"pub", "priv"}, FALSE),
     DigestPull(<<HubCard(1, "n1", 1, 1, "article", "own"), HubCard(2, "n1", 7, 1, "article", "newsletter"),
                  HubCard(2, "in", 7, 1, "article", "linkedin")>>,
                <<XCard("t3", 6, 8, 1, "ann", "other"), XCard("t4", 8, 8, 2, "ann", "more"),
                  XCard("n1", 9, 7, 2, NoAuthor, NoBody)>>,
                TRUE, {"pub"}, TRUE),
     DigestPull(<<>>, <<>>, FALSE, {}, FALSE)}
Projects == <<"pub", "priv">>
ProjectRepo == [b \in ToSet(Projects) |-> b]
ProjectPushed == [b \in ToSet(Projects) |-> IF b = "pub" THEN 1 ELSE 2]

(* The sum.  A part whose turn it is not starts in one state only. *)

GhStart == GhInit /\ (part # "github" => ghHead = "draft" /\ ~ghOrgIsFork)
ShipStart == ShipInit /\ (part # "ship" => shipEnv = Brave)
ReworkStart == ReworkInit /\ (part # "rework" => rwRow.words = <<"Wasmer">>)
GroundedStart == GroundedInit /\ (part # "build" => gLive = {} /\ gReq = Ask("X", "farce", <<>>, NoUrl, {}))
HandlesStart == HandlesInit /\ (part # "handles" => hFile = <<AcmeRow, AdaRow>>)

TextsInit ==
    /\ part \in {"import", "propose", "digest", "build", "rework", "handles", "github", "ship"}
    /\ ImportInit /\ ProposeInit /\ DigestInit
    /\ GroundedStart /\ ReworkStart /\ HandlesStart
    /\ GhStart /\ ShipStart

ReadNext == \/ part = "import" /\ ImportNext /\ UNCHANGED <<proposeVars, digestVars>>
            \/ part = "propose" /\ ProposeNext /\ UNCHANGED <<importVars, digestVars>>
            \/ part = "digest" /\ DigestNext /\ UNCHANGED <<importVars, proposeVars>>
WriteNext == \/ part = "build" /\ GroundedNext /\ UNCHANGED <<reworkVars, handlesVars>>
             \/ part = "rework" /\ ReworkNext /\ UNCHANGED <<groundedVars, handlesVars>>
             \/ part = "handles" /\ HandlesNext /\ UNCHANGED <<groundedVars, reworkVars>>
PostNow == \/ part = "github" /\ GhNext /\ UNCHANGED shipVars
           \/ part = "ship" /\ ShipNext /\ ThreadsInProduction /\ UNCHANGED ghVars

TextsNext == /\ UNCHANGED part
             /\ \/ ReadNext /\ UNCHANGED <<writeVars, postVars>>
                \/ WriteNext /\ UNCHANGED <<readVars, postVars>>
                \/ PostNow /\ UNCHANGED <<readVars, writeVars>>

TextsSpec == TextsInit /\ [][TextsNext]_textVars
===============================================================================
