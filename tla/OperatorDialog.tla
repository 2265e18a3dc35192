---------------------------- MODULE OperatorDialog ----------------------------
(***************************************************************************)
(* What operators write and what they are told to write next.  A text is a *)
(* sequence of tokens; it is classified, parsed to a command and run on a  *)
(* saved row, and the answer ends in lines of commands for that row.  The  *)
(* operator writes a command or pastes lines of the last answer.           *)
(***************************************************************************)
EXTENDS Lists, FiniteSetsExt

CONSTANTS DlgPrefixes,   \* kinds of the row: subset of {"DRAFT", "TWEET", "CREPLY"}
          DlgUrls,       \* link options
          DlgSite,       \* the site of each address, the operator's own ("own") too
          LinkOptionsCap, \* LINK_OPTIONS_CAP
          MaxSavedIds    \* MAX_SAVED_IDS

ASSUME DialogAssumption ==
    /\ DlgPrefixes \subseteq {"DRAFT", "TWEET", "CREPLY"} /\ IsFiniteSet(DlgUrls)
    /\ DOMAIN DlgSite = DlgUrls \cup {"own"}
    /\ LinkOptionsCap \in Nat \ {0} /\ MaxSavedIds \in Nat \ {0}

VARIABLES dlgRow,     \* the saved row: its id, status, link options and link
          dlgScreen,  \* the last answer: the row and status it is about, its options and lines
          dlgDone     \* the last command that was run and how it ended

dlgVars == <<dlgRow, dlgScreen, dlgDone>>

-------------------------------------------------------------------------------
(* Tokens.  A word that is part of a URL or of prose is "word"; "<" and the word     *)
(* instructions, which the parsers look for, are tokens of their own.                *)

Tok(t, s) == [t |-> t, s |-> s, n |-> 0]
CmdTok(name) == Tok("cmd", name)
IdTok(pre) == Tok("id", pre)         \* an id is its prefix: the number is that of the row
NumTok(n) == [t |-> "num", s |-> "none", n |-> n]
UrlTok(u) == Tok("url", u)
Angle == Tok("angle", "<")           \* <, of a placeholder or of a link
Instructions == Tok("instructions", "instructions")
UrlChoices == Tok("angle", "<0|1|2|3")
NextMark == Tok("next", ":point_right: Next:")
Word == Tok("word", "word")

HasTok(toks, t) == \E k \in DOMAIN toks : toks[k].t = t
After(toks, k) == SubSeq(toks, k + 1, Len(toks))

KnownSlash == {"help", "status_itcy", "status", "list", "show", "delete", "accept", "rework",
               "change_url", "propose_draft", "draft_about", "tweet_about", "retry_bat"}

\* Args that are the placeholder of a printed line, not a choice of the operator.
UsageChrome(name, args) ==
    \/ name = "change_url" /\ UrlChoices \in ToSet(args)
    \/ name = "rework" /\ HasTok(args, "angle") /\ HasTok(args, "instructions")

\* The first known command of a text whose args are not a placeholder, or 0.
InlineSlash(toks) ==
    LET here == {k \in DOMAIN toks : /\ toks[k].t = "cmd" /\ toks[k].s \in KnownSlash
                                     /\ ~UsageChrome(toks[k].s, After(toks, k))}
    IN IF here = {} THEN 0 ELSE Min(here)

LooksLikeBotPaste(toks) == HasTok(toks, "next")

-------------------------------------------------------------------------------
(* parse_slash_command *)

Cmd(op, ids, arg) == [op |-> op, ids |-> ids, arg |-> arg]
Usage == Cmd("usage", <<>>, Word)

\* The places of the ids of some kinds in a text.
IdsAt(toks, prefixes) == {k \in DOMAIN toks : toks[k].t = "id" /\ toks[k].s \in prefixes}

RowPrefixes == {"DRAFT", "TWEET", "CREPLY", "XREPLY"}
ReplyPrefixes == {"CREPLY", "XREPLY"}

\* The places where an id stands for the first time, and the nth of some places.
FirstPlaces(toks, prefixes) ==
    {k \in IdsAt(toks, prefixes) : \A j \in IdsAt(toks, prefixes) : j < k => toks[j].s # toks[k].s}
Nth(places, n) == CHOOSE k \in places : Cardinality({j \in places : j < k}) = n - 1

\* Every id once, in order, up to the cap.
CollectIds(toks, prefixes) ==
    LET once == FirstPlaces(toks, prefixes)
    IN [n \in 1..Min({Cardinality(once), MaxSavedIds}) |-> toks[Nth(once, n)].s]

ParseShowDelete(name, args) ==
    LET ids == CollectIds(args, RowPrefixes \cup {"POST", "XPOST"} \cup
                                IF name = "show" THEN {"DIGEST"} ELSE {})
    IN IF ids = <<>> THEN Usage ELSE Cmd(name, ids, Word)

\* The first id and the args after it; a command without an id is a usage error.
ParseLifecycle(name, args) ==
    LET here == IdsAt(args, RowPrefixes)
        id == args[Min(here)].s
        rest == After(args, Min(here))
    IN IF here = {} THEN Usage
       ELSE IF name # "change_url" THEN Cmd(name, <<id>>, Word)
       ELSE IF id \in ReplyPrefixes \/ rest = <<>> THEN Usage
       ELSE Cmd(name, <<id>>, rest[1])

RetryOf(args, prefixes) ==
    LET here == IdsAt(args, prefixes)
    IN IF here = {} THEN Usage ELSE Cmd("retry_bat", <<args[Min(here)].s>>, Word)

\* Mutant: ids of promoted posts are no artefacts.
ParseRetryOfRows(args) == RetryOf(args, {"DRAFT", "TWEET"})

ParseRetry(args) == RetryOf(args, {"DRAFT", "TWEET", "POST", "XPOST"})

ParseSlash(name, args) ==
    CASE name \in {"show", "delete"} -> ParseShowDelete(name, args)
      [] name \in {"accept", "rework", "change_url"} -> ParseLifecycle(name, args)
      [] name = "retry_bat" -> ParseRetry(args)
      [] name \in {"draft_about", "tweet_about"} ->
            IF args = <<>> THEN Usage ELSE Cmd("build", <<>>, args[1])
      [] name = "propose_draft" ->
            IF args = <<>> THEN Cmd("build", <<>>, Word)
            ELSE IF args[1].t \in {"num", "id"} THEN Cmd("batch", <<>>, args[1]) ELSE Usage
      [] name = "status" -> Usage      \* reserved by Slack
      [] OTHER -> Cmd(name, <<>>, Word)

Freeform == Cmd("freeform", <<>>, Word)

\* What a text of the channel asks for; "help" and "status_itcy" need no slash.
Classify(toks) ==
    IF Len(toks) = 1 /\ toks[1].t = "bare" THEN Cmd(toks[1].s, <<>>, Word)
    ELSE IF InlineSlash(toks) = 0 THEN Freeform
    ELSE ParseSlash(toks[InlineSlash(toks)].s, After(toks, InlineSlash(toks)))

-------------------------------------------------------------------------------
(* The lines an answer ends in *)

\* Published drafts and tweets are shown under the id of their post.
DisplayId(pre, status) ==
    IF status # "published" THEN pre
    ELSE IF pre = "DRAFT" THEN "POST" ELSE IF pre = "TWEET" THEN "XPOST" ELSE pre

StoreId(id) == IF id = "POST" THEN "DRAFT" ELSE IF id = "XPOST" THEN "TWEET" ELSE id

ReworkLine(id) == <<CmdTok("rework"), IdTok(id), Angle, Instructions>>
ChangeLine(id) == <<CmdTok("change_url"), IdTok(id), NumTok(1)>>
Line(name, id) == <<CmdTok(name), IdTok(id)>>
Placeholder(name) == <<CmdTok(name), Angle, Word>>     \* /show <ID>, <ID>

NextSlashHints(id, status) ==
    CASE status \in {"open", "building"} -> <<ReworkLine(id), ChangeLine(id), Line("accept", id)>>
      [] status = "accepted" -> <<ReworkLine(id), ChangeLine(id), Line("accept", id), Line("retry_bat", id)>>
      [] status = "published" -> <<Line("retry_bat", id), Line("show", id), Line("delete", id)>>
      [] status = "failed" -> <<Line("show", id), Line("delete", id)>>

ReplyNextHints(id, status) ==
    CASE status \in {"open", "building"} -> <<ReworkLine(id), Line("accept", id)>>
      [] status \in {"published", "failed"} -> <<Line("show", id), Line("delete", id)>>
      [] OTHER -> <<>>

HintsOf(pre, status) ==
    IF pre \in ReplyPrefixes THEN ReplyNextHints(DisplayId(pre, status), status)
    ELSE NextSlashHints(DisplayId(pre, status), status)

Screen(row, lines) == [pre |-> row.pre, status |-> row.status, options |-> row.options, lines |-> lines]
RowScreen(row) == Screen(row, HintsOf(row.pre, row.status))
PlainAnswer(row) == Screen(row, <<>>)

-------------------------------------------------------------------------------
(* The commands on a row *)

RowStatuses == {"building", "open", "accepted", "published", "failed"}

DlgInit ==
    /\ \E pre \in DlgPrefixes, st \in RowStatuses, opts \in SetToSeqs(DlgUrls) :
          dlgRow = [pre |-> pre, there |-> TRUE, status |-> st, link |-> "none",
                    options |-> IF pre = "CREPLY" THEN <<>> ELSE opts]
    /\ dlgRow.pre = "CREPLY" => dlgRow.status # "accepted"
    /\ dlgScreen = PlainAnswer(dlgRow)
    /\ dlgDone = [op |-> "none", arg |-> Word, ok |-> TRUE]

Mine(c) == c.ids # <<>> /\ dlgRow.there /\ StoreId(c.ids[1]) = dlgRow.pre
Finish(c, row, screen, ok) ==
    /\ dlgRow' = row /\ dlgScreen' = screen
    /\ dlgDone' = [op |-> c.op, arg |-> c.arg, ok |-> ok]
RefuseLine(c) == Finish(c, dlgRow, PlainAnswer(dlgRow), FALSE)

\* The status gate of a command: gate_accept_draft, ensure_open_for_edit, retry_bat; a
\* published row has a promoted tree, which /retry_bat ships again.
Allows(op, row) ==
    CASE op = "accept" -> \/ row.status = "open"
                          \/ row.pre \notin ReplyPrefixes /\ row.status = "accepted"
      [] op \in {"rework", "change_url"} -> row.status \in {"open", "accepted"}
      [] op = "retry_bat" -> row.status \in {"open", "accepted", "published"}
      [] op \in {"show", "delete"} -> TRUE

\* A reply ships; a draft gets its pull request, or is promoted when it was approved.
AcceptRow(c) ==
    IF ~Mine(c) \/ ~Allows("accept", dlgRow) THEN RefuseLine(c)
    ELSE \/ RefuseLine(c)
         \/ /\ dlgRow.pre \notin ReplyPrefixes
            /\ LET r == [dlgRow EXCEPT !.status = "accepted"] IN Finish(c, r, RowScreen(r), TRUE)
         \/ LET r == [dlgRow EXCEPT !.status = "published"] IN Finish(c, r, PlainAnswer(r), TRUE)

\* The gate opens an accepted row before the rework; one that fails leaves it open.
ReworkRow(c) ==
    IF ~Mine(c) \/ ~Allows("rework", dlgRow) THEN RefuseLine(c)
    ELSE LET r == [dlgRow EXCEPT !.status = "open"]
         IN Finish(c, r, RowScreen(r), TRUE) \/ Finish(c, r, PlainAnswer(r), FALSE)

\* The URL goes to the head of the options, in place of those of its site.  One without a
\* host was refused as a choice.
PromoteLinkOption(options, url) ==
    UpTo(LinkOptionsCap, <<url>> \o Only(options, LAMBDA u : DlgSite[u] # DlgSite[url]))

\* Mutant: the numbers of an answer count from the second option.
OptionAfter(options, n) == options[(n % Len(options)) + 1]

\* link_options.get(n - 1)
OptionAt(options, n) == options[n]

\* 0 clears the link, 1-5 picks an option, a URL is taken as it is; a choice there is not
\* is refused, after the gate opened the row.
ChangeRowUrl(c) ==
    IF ~Mine(c) \/ ~Allows("change_url", dlgRow) THEN RefuseLine(c)
    ELSE LET open == [dlgRow EXCEPT !.status = "open"]
             n == c.arg.n
             swap(u) == LET r == [open EXCEPT !.link = u, !.options = PromoteLinkOption(@, u)]
                        IN Finish(c, r, RowScreen(r), TRUE)
         IN CASE c.arg.t = "num" /\ n = 0 ->
                    LET r == [open EXCEPT !.link = "none"] IN Finish(c, r, RowScreen(r), TRUE)
              [] c.arg.t = "num" /\ n \in DOMAIN open.options /\ n <= LinkOptionsCap ->
                    swap(OptionAt(open.options, n))
              [] c.arg.t = "url" -> swap(c.arg.s)
              [] OTHER -> Finish(c, open, PlainAnswer(open), FALSE)

\* An approved row is promoted and ships; the answer of a failure names the command again.
RetryRow(c) ==
    IF ~Mine(c) \/ ~Allows("retry_bat", dlgRow) THEN RefuseLine(c)
    ELSE \/ Finish(c, dlgRow, Screen(dlgRow, <<Line("retry_bat", c.ids[1])>>), FALSE)
         \/ LET r == [dlgRow EXCEPT !.status = "published"] IN Finish(c, r, PlainAnswer(r), TRUE)

ShowRow(c) == IF Mine(c) THEN Finish(c, dlgRow, RowScreen(dlgRow), TRUE) ELSE RefuseLine(c)

DeleteRow(c) ==
    IF ~Mine(c) THEN RefuseLine(c)
    ELSE LET r == [dlgRow EXCEPT !.there = FALSE] IN Finish(c, r, PlainAnswer(r), TRUE)

\* The rows, by their ids, which name no command, and how to show and delete them.
ListRows(c) ==
    Finish(c, dlgRow, Screen(dlgRow,
        IF dlgRow.there THEN <<Placeholder("show"), Placeholder("delete")>> ELSE <<>>), TRUE)

Run(c) ==
    CASE c.op = "accept" -> AcceptRow(c)
      [] c.op = "rework" -> ReworkRow(c)
      [] c.op = "change_url" -> ChangeRowUrl(c)
      [] c.op = "retry_bat" -> RetryRow(c)
      [] c.op = "show" -> ShowRow(c)
      [] c.op = "delete" -> DeleteRow(c)
      [] c.op = "list" -> ListRows(c)
      [] OTHER -> Finish(c, dlgRow, PlainAnswer(dlgRow), TRUE)

-------------------------------------------------------------------------------
DlgIds == DlgPrefixes \cup {"POST", "XPOST", "DIGEST"}

\* What an operator writes.
Texts ==
    {Line(name, i) : name \in {"accept", "retry_bat", "show", "delete", "draft_about", "unknown"}, i \in DlgIds}
    \cup {<<Word, CmdTok("rework"), IdTok(i), Word>> : i \in DlgIds}
    \cup {<<CmdTok("rework"), IdTok(i), Angle, Instructions>> : i \in DlgIds}
    \cup {<<CmdTok("change_url"), IdTok(i), c>> : i \in DlgIds,
              c \in {NumTok(0), NumTok(2), NumTok(LinkOptionsCap + 1), Word} \cup {UrlTok(u) : u \in DlgUrls \cup {"own"}}}
    \cup {<<CmdTok(name)>> : name \in {"list", "status", "help", "accept", "change_url", "propose_draft"}}
    \cup {<<CmdTok("show"), IdTok(i), IdTok(j), IdTok(i)>> : i, j \in DlgIds}
    \cup {<<Tok("bare", "help")>>, <<Word>>, <<CmdTok("propose_draft"), NumTok(2)>>}

WriteText == \E toks \in Texts : Run(Classify(toks))

\* The last lines of the answer, from one of them on; with its mark in front it is seen
\* for what it is and dropped.
PasteLines ==
    \E k \in DOMAIN dlgScreen.lines :
        \/ Run(Classify(FlattenSeq(SubSeq(dlgScreen.lines, k, Len(dlgScreen.lines)))))
        \/ Run(Classify(dlgScreen.lines[k]))

\* A build that ends, the boot that fails it, or the webhook, while the answer stands.
RowMoves ==
    /\ \/ dlgRow.status = "building" /\ \E st \in {"open", "failed"} : dlgRow' = [dlgRow EXCEPT !.status = st]
       \/ dlgRow.status = "accepted" /\ dlgRow' = [dlgRow EXCEPT !.status = "published"]
    /\ UNCHANGED <<dlgScreen, dlgDone>>

DlgNext == WriteText \/ PasteLines \/ RowMoves
DlgSpec == DlgInit /\ [][DlgNext]_dlgVars

-------------------------------------------------------------------------------
\* saved.rs 296-334, commands.rs 509-985, submit.rs 112-135, 250-267: as long as the row
\* keeps the status an answer was made for, every line it prints, pasted alone, is the
\* command it names on that very row, which the gates let through, or a placeholder,
\* which is left alone or answered with its usage.  Rows under construction print lines their gate refuses.
NextLinesWork ==
    dlgRow.there /\ dlgRow.status = dlgScreen.status /\ dlgRow.status # "building" =>
        \A k \in DOMAIN dlgScreen.lines :
            LET line == dlgScreen.lines[k]
                c == Classify(line)
            IN \/ c.op \in {"freeform", "usage"} /\ HasTok(line, "angle")
               \/ /\ c.op = line[1].s /\ Len(c.ids) = 1
                  /\ StoreId(c.ids[1]) = dlgRow.pre /\ Allows(c.op, dlgRow)

\* draft_url.rs 112-123, 232-259: a number picks the URL that the answer in the channel
\* shows at that number, although every pick moves the options.
NumbersPickWhatIsShown ==
    [][dlgDone'.op = "change_url" /\ dlgDone'.ok /\ dlgDone'.arg.t = "num"
            /\ dlgDone'.arg.n \in DOMAIN dlgScreen.options
        => dlgRow'.link = dlgScreen.options[dlgDone'.arg.n]]_dlgVars
===============================================================================
