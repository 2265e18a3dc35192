-------------------------------- MODULE XThread --------------------------------
(***************************************************************************)
(* How a text that is too long for one post on X is laid out as two        *)
(* (sources/tweet_thread.rs).  A text is a sequence of words with Para for *)
(* a blank line; between two words stands a space.                         *)
(***************************************************************************)
EXTENDS Lists

CONSTANTS XCharLimit,   \* X_CHAR_LIMIT, in units of a word
          TcoLen        \* TCO_LEN, in the same units

ASSUME XThreadAssumption == XCharLimit \in Nat \ {0} /\ TcoLen \in Nat \ {0}

-------------------------------------------------------------------------------
(* A word has a kind and its place in the written text: "end" closes a sentence,    *)
(* "art" is an article or the like, "tag" a hashtag, "own" the account's handle.  A *)
(* word weighs 2, so that it can be cut in two: "head" and "tail".  A word with a   *)
(* dot inside, such as a number of a version, is "dot" followed by its "tail".      *)

Para == [k |-> "para", n |-> 0]
Gap == [k |-> "gap", n |-> 0]     \* a space put before the tail of a torn word

Urls == {"url", "xurl"}      \* of a publisher's page and of a status on X
Written == {"w", "end", "art", "tag", "emoji", "own", "dot", "tail"} \cup Urls
IsWord(x) == x.k \notin {"para", "gap"}
WordsAt(t) == {i \in DOMAIN t : IsWord(t[i])}
WordsOf(t) == Keep(t, WordsAt(t))
Joined(t, i) == t[i].k \in {"head", "dot"} /\ t[i + 1].k = "tail"

TokenLen(x) ==
    CASE x.k \in Urls -> TcoLen [] x.k \in {"gap", "head", "dot", "tail"} -> 1 [] OTHER -> 2

\* Spaces stand between words and not inside one.
x_weighted_len(t) ==
    FoldLeft(LAMBDA n, x : n + TokenLen(x), 0, t)
        + Cardinality({i \in 1..(Len(t) - 1) : IsWord(t[i]) /\ IsWord(t[i + 1]) /\ ~Joined(t, i)})

FitsLimit(t, limit) == x_weighted_len(t) <= limit
FitsX(t) == FitsLimit(t, XCharLimit)

Cut(t, n) == SubSeq(t, 1, n)
From(t, n) == SubSeq(t, n, Len(t))

TrimStart(t) == IF WordsAt(t) = {} THEN <<>> ELSE From(t, Min(WordsAt(t)))
TrimEnd(t) == IF WordsAt(t) = {} THEN <<>> ELSE Cut(t, Max(WordsAt(t)))
Trimmed(t) == TrimStart(TrimEnd(t))

\* A beat, or a trailer, after another.
AfterPara(a, b) == IF a = <<>> THEN b ELSE IF b = <<>> THEN a ELSE a \o <<Para>> \o b

\* Text after a space, or after a line break.
AfterSpace(a, b) ==
    IF a # <<>> /\ b # <<>> /\ Joined(<<Last(a), b[1]>>, 1) THEN a \o <<Gap>> \o b ELSE a \o b

\* The beats of a text.
BeatEnd(t, i) == Min({j \in i..Len(t) : t[j].k = "para"} \cup {Len(t) + 1}) - 1
Beats(t) ==
    LET starts == {i \in DOMAIN t : t[i].k # "para" /\ (i = 1 \/ t[i - 1].k = "para")}
    IN Keep([i \in DOMAIN t |-> SubSeq(t, i, BeatEnd(t, i))], starts)
JoinBeats(beats) ==
    LET joined[n \in 0..Len(beats)] == IF n = 0 THEN <<>> ELSE AfterPara(joined[n - 1], beats[n])
    IN joined[Len(beats)]

\* The words of a text, for split_whitespace: those with a dot are two tokens.
FirstWordLen(t) == IF Len(t) >= 2 /\ Joined(t, 1) THEN 2 ELSE 1
SplitWords(t) ==
    LET starts == {i \in WordsAt(t) : i = 1 \/ ~Joined(t, i - 1)}
    IN Keep([i \in DOMAIN t |-> Cut(From(t, i), FirstWordLen(From(t, i)))], starts)
JoinWords(words) ==
    LET joined[n \in 0..Len(words)] == IF n = 0 THEN <<>> ELSE AfterSpace(joined[n - 1], words[n])
    IN joined[Len(words)]

-------------------------------------------------------------------------------
(* Sentences *)

\* Emoji after the punctuation belong to the sentence.
EmojiEnd(t, i) == Max({j \in i..Len(t) : \A h \in (i + 1)..j : t[h].k = "emoji"})

\* A dot inside a word ends a sentence like any other dot.
Stops == {"end", "dot"}

EndsSentence(t) ==
    LET at == {i \in DOMAIN t : \A j \in i + 1..Len(t) : t[j].k \in {"emoji", "para", "gap"}}
    IN \E i \in at : t[i].k \in Stops

\* The first sentence and the rest; without punctuation the first beat, or all of it.
TakeLeadingSentence(text) ==
    LET t == TrimStart(text)
        ends == {i \in DOMAIN t : t[i].k \in Stops}
        paras == {i \in DOMAIN t : t[i].k = "para"}
        Split(i) == [first |-> Trimmed(Cut(t, i)), rest |-> TrimStart(From(t, i + 1))]
    IN IF ends # {} THEN Split(EmojiEnd(t, Min(ends)))
       ELSE IF paras # {} THEN Split(Min(paras)) ELSE Split(Len(t))

\* The text up to its last sentence end, and the fragment after it; none when one is empty.
SplitAtLastSentenceEnd(t) ==
    LET ends == {EmojiEnd(t, i) : i \in {j \in DOMAIN t : t[j].k \in Stops}}
    IN IF ends = {} \/ Trimmed(From(t, Max(ends) + 1)) = <<>> THEN {}
       ELSE {[keep |-> TrimEnd(Cut(t, Max(ends))), frag |-> TrimStart(From(t, Max(ends) + 1))]}

-------------------------------------------------------------------------------
(* Cutting to a limit *)

\* As many words as fit a limit.
WordsFitting(words, limit) ==
    Max({n \in 0..Len(words) : \A m \in 1..n : FitsLimit(JoinWords(Cut(words, m)), limit)})

\* A first word that does not fit is cut in itself.
HeadOf(word) == <<[word[1] EXCEPT !.k = IF @ = "dot" THEN "dot" ELSE "head"]>>
TailOf(word) == <<[word[Len(word)] EXCEPT !.k = "tail"]>>

\* The words that fit, or the head of the first.
TrimToLimit(t, limit) ==
    LET words == SplitWords(t)
        n == WordsFitting(words, limit)
    IN IF FitsLimit(t, limit) THEN Trimmed(t)
       ELSE IF n > 0 THEN JoinWords(Cut(words, n))
       ELSE IF limit = 0 \/ words = <<>> THEN <<>> ELSE HeadOf(words[1])

TrimDanglingPrefixTail(words, n) ==
    IF n = Len(words) THEN n ELSE Max({m \in 0..n : m = 0 \/ words[m][1].k # "art"})

\* The words that fit, without the articles at their end; cut is what fits of the text.  Articles
\* that a blank line parts do not begin the text as they are joined, and what follows is dropped.
CutBetweenWords(t, words, fit, n, cut) ==
    IF n > 0 THEN [piece |-> JoinWords(Cut(words, n)), rest |-> JoinWords(From(words, n + 1))]
    ELSE IF fit > 0      \* articles only
    THEN [piece |-> cut, rest |-> IF Cut(t, Len(cut)) = cut THEN TrimStart(From(t, Len(cut) + 1)) ELSE <<>>]
    ELSE [piece |-> cut, rest |-> IF cut = <<>> THEN t ELSE TailOf(words[1]) \o From(t, Len(words[1]) + 1)]

SplitWordPrefix(text, limit) ==
    LET t == Trimmed(text)
        words == SplitWords(t)
        fit == WordsFitting(words, limit)
    IN IF FitsLimit(t, limit) THEN [piece |-> t, rest |-> <<>>]
       ELSE CutBetweenWords(t, words, fit, TrimDanglingPrefixTail(words, fit), TrimToLimit(t, limit))

\* Whole sentences of a text that fit: a sentence has a token at least.
TakeSentence(part, limit) ==
    LET next == TakeLeadingSentence(part.rest)
        longer == AfterSpace(part.piece, next.first)
    IN IF part.rest = <<>> \/ ~FitsLimit(longer, limit) THEN part
       ELSE [piece |-> longer, rest |-> next.rest]
SentencesFitting(t, limit) ==
    LET part[n \in 0..Len(t)] ==
            IF n = 0 THEN [piece |-> <<>>, rest |-> t] ELSE TakeSentence(part[n - 1], limit)
    IN part[Len(t)]

TakeSentencePrefix(t, limit) ==
    IF limit = 0 \/ t = <<>> THEN [piece |-> <<>>, rest |-> t]
    ELSE IF FitsLimit(t, limit) THEN [piece |-> t, rest |-> <<>>]
    ELSE SentencesFitting(t, limit)

RemainingAfter(kept) ==
    IF kept = <<>> THEN XCharLimit
    ELSE LET used == x_weighted_len(kept) + 2 IN IF used > XCharLimit THEN 0 ELSE XCharLimit - used

\* Beats from the top, then sentences of the next beat.  A first beat whose first sentence is too
\* long is cut to the limit and what was cut off is dropped.
SentencesOfBeat(kept, part, beats) ==
    IF part.piece # <<>>
    THEN [root |-> AfterPara(kept, part.piece), left |-> AfterPara(part.rest, JoinBeats(Tail(beats)))]
    ELSE IF kept = <<>> THEN [root |-> TrimToLimit(beats[1], XCharLimit), left |-> JoinBeats(Tail(beats))]
    ELSE [root |-> kept, left |-> JoinBeats(beats)]

BeatsFitting(beats) == Max({n \in 0..Len(beats) : \A m \in 1..n : FitsX(JoinBeats(Cut(beats, m)))})
TakeBeatsFitting(head) ==
    LET beats == Beats(head)
        n == BeatsFitting(beats)
        kept == JoinBeats(Cut(beats, n))
    IN IF n = Len(beats) THEN [root |-> kept, left |-> <<>>]
       ELSE SentencesOfBeat(kept, TakeSentencePrefix(beats[n + 1], RemainingAfter(kept)), From(beats, n + 1))

DropBeats(beats) ==
    LET fit == {n \in 1..(Len(beats) - 1) : FitsX(JoinBeats(Cut(beats, n)))}
    IN IF beats = <<>> THEN <<>>
       ELSE IF fit = {} THEN TrimToLimit(beats[1], XCharLimit) ELSE JoinBeats(Cut(beats, Max(fit)))
FitByDroppingBeats(head) == IF head = <<>> \/ FitsX(head) THEN head ELSE DropBeats(Beats(head))

-------------------------------------------------------------------------------
(* The reply must fit: words move to the root, and back when the root ends badly. *)

ReplyFits(left, trailer) == FitsX(AfterPara(Trimmed(left), trailer))

\* Room for more at the end of the root.
RoomAfter(root) ==
    LET used == x_weighted_len(root) + 1
    IN IF root = <<>> THEN XCharLimit ELSE IF used > XCharLimit THEN 0 ELSE XCharLimit - used

\* Mutant: what does not fit of the sentence is dropped.
GrowAndDrop(r, chunk, rest) ==
    IF FitsX(AfterSpace(r.root, chunk)) THEN [root |-> AfterSpace(r.root, chunk), left |-> rest]
    ELSE [root |-> AfterSpace(r.root, SplitWordPrefix(chunk, RoomAfter(r.root)).piece), left |-> rest]

\* Nothing moves when no word fits.
GrowWithPart(r, part, rest) ==
    IF part.piece = <<>> THEN r
    ELSE [root |-> AfterSpace(r.root, part.piece), left |-> AfterPara(part.rest, rest)]

\* A sentence, or the words of it that fit, at the end of the root.
GrowWithChunk(r, chunk, rest) ==
    IF FitsX(AfterSpace(r.root, chunk)) THEN [root |-> AfterSpace(r.root, chunk), left |-> rest]
    ELSE GrowWithPart(r, SplitWordPrefix(chunk, RoomAfter(r.root)), rest)

\* Inside a sentence one word moves, and never an article.
GrowWithWord(r) ==
    LET left == TrimStart(r.left)
        n == FirstWordLen(left)
    IN IF left[1].k = "art" \/ ~FitsX(AfterSpace(r.root, Cut(left, n))) THEN r
       ELSE [root |-> AfterSpace(r.root, Cut(left, n)), left |-> TrimStart(From(left, n + 1))]

GrowOnce(r) ==
    LET next == TakeLeadingSentence(r.left)
    IN IF EndsSentence(r.root) \/ r.root = <<>> THEN GrowWithChunk(r, next.first, next.rest)
       ELSE GrowWithWord(r)

\* It grows while it has room, by some weight each time.
GrowOn(r, trailer) == IF Trimmed(r.left) = <<>> \/ ReplyFits(r.left, trailer) THEN r ELSE GrowOnce(r)
GrowRoot(r, trailer) ==
    LET grown[n \in 0..(XCharLimit + 1)] == IF n = 0 THEN r ELSE GrowOn(grown[n - 1], trailer)
    IN grown[XCharLimit + 1]

\* A root that ends with an article gives it back.
GiveBack(r, trailer) ==
    LET back == <<Last(r.root)>> \o Trimmed(r.left)
    IN IF r.root = <<>> THEN r
       ELSE IF Last(r.root).k # "art" \/ Trimmed(r.left) = <<>> \/ ~ReplyFits(back, trailer) THEN r
       ELSE [root |-> TrimEnd(Front(r.root)), left |-> back]
RebalanceDanglingTail(r, trailer) ==
    LET given[n \in 0..Len(r.root)] == IF n = 0 THEN r ELSE GiveBack(given[n - 1], trailer)
    IN given[Len(r.root)]

\* A fragment of a sentence after a whole one goes back when the reply has room for it.
PeelIncompleteTail(r, trailer) ==
    LET cuts == IF EndsSentence(r.root) THEN {} ELSE SplitAtLastSentenceEnd(r.root)
        Back(c) == AfterPara(c.frag, Trimmed(r.left))
    IN IF Trimmed(r.left) = <<>> \/ \A c \in cuts : ~ReplyFits(Back(c), trailer) THEN r
       ELSE LET c == CHOOSE c \in cuts : TRUE IN [root |-> c.keep, left |-> Back(c)]

RootAndReply(r, trailer) ==
    Only(<<r.root, AfterPara(Trimmed(r.left), trailer)>>, LAMBDA t : t # <<>>)

ForwardFillSplit(head, trailer) ==
    LET grown == GrowRoot(TakeBeatsFitting(head), trailer)
    IN RootAndReply(PeelIncompleteTail(RebalanceDanglingTail(grown, trailer), trailer), trailer)

-------------------------------------------------------------------------------
(* Lines *)

\* soft_wrap_continues_previous: after an article a line that begins in lower case goes on.
Continues(prev, line) ==
    /\ prev # <<>> /\ Last(prev).k = "art"
    /\ line # <<>> /\ line[1].k \notin {"tag", "emoji", "own"}

AfterBreak(text, prev, line) == IF Continues(prev, line) THEN text \o line ELSE AfterPara(text, line)

\* join_soft_wrap_lines: the lines that go on are one, and blank lines stand between the others.
JoinSoftWraps(lines) ==
    LET LineBefore(n) == IF n = 1 THEN <<>> ELSE lines[n - 1]
        joined[n \in 0..Len(lines)] ==
            IF n = 0 THEN <<>> ELSE AfterBreak(joined[n - 1], LineBefore(n), lines[n])
    IN Beats(joined[Len(lines)])

(* The tags and the address at the end are the trailer. *)


IsTagLine(line) == line # <<>> /\ \A i \in DOMAIN line : line[i].k = "tag"
IsCiteLine(line) == Len(line) = 1 /\ line[1].k \in Urls

\* The place of the first of the tags a line of prose ends with, or 0.
TagsFrom(line) ==
    LET from == {i \in 2..Len(line) : \A j \in i..Len(line) : line[j].k = "tag"}
    IN IF from = {} THEN 0 ELSE Min(from)

\* The last line goes, or what of it is tags: a line is looked at twice at most.
PeelLine(p) ==
    LET rest == Front(p.lines)
        line == Last(p.lines)
        at == TagsFrom(line)
    IN IF p.lines = <<>> THEN p
       ELSE IF line = <<>> THEN [p EXCEPT !.lines = rest]
       ELSE IF p.url = <<>> /\ IsCiteLine(line) THEN [p EXCEPT !.lines = rest, !.url = line]
       ELSE IF IsTagLine(line) THEN [p EXCEPT !.lines = rest, !.tags = <<line>> \o p.tags]
       ELSE IF at # 0
       THEN [p EXCEPT !.lines = Append(rest, Cut(line, at - 1)), !.tags = <<From(line, at)>> \o p.tags]
       ELSE p
PeelLines(lines) ==
    LET peeled[n \in 0..(2 * Len(lines))] ==
            IF n = 0 THEN [lines |-> lines, tags |-> <<>>, url |-> <<>>] ELSE PeelLine(peeled[n - 1])
    IN peeled[2 * Len(lines)]
PeelTrailer(lines) ==
    LET p == PeelLines(lines) IN [lines |-> p.lines, trailer |-> AfterPara(JoinBeats(p.tags), p.url)]

\* The lines are joined already: every one is a beat.
PromoteLineBreaks(lines) == JoinBeats(lines)

\* layout_x_thread: one text, or a root and a reply.
LayoutXThread(lines) ==
    LET peeled == PeelTrailer(lines)
        head == PromoteLineBreaks(peeled.lines)
        one == AfterPara(head, peeled.trailer)
    IN IF one = <<>> THEN <<>>
       ELSE IF FitsX(one) THEN <<one>>
       ELSE IF peeled.trailer = <<>> THEN <<FitByDroppingBeats(head)>>
       ELSE ForwardFillSplit(head, peeled.trailer)

-------------------------------------------------------------------------------
(* What a text must be like for a thread to keep all of it. *)

\* The first sentence of the first beat has room in a post.
OpensShort(head) == head = <<>> \/ FitsX(TakeLeadingSentence(Beats(head)[1]).first)

\* Every article stands before a word: none ends a paragraph.
ArticlesGoOn(t) == \A i \in DOMAIN t : t[i].k = "art" => i < Len(t) /\ IsWord(t[i + 1])
===============================================================================
