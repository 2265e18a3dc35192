-------------------------------- MODULE Handles --------------------------------
(***************************************************************************)
(* The registry of social handles: handles.toml, the copy the service      *)
(* searches, /handle_add, and the placing of a handle in a post or tweet.  *)
(*                                                                         *)
(* A handle is a model value (None when a row has none). An address is     *)
(* [site, slug]: "company" and "in" are the two kinds of LinkedIn address, *)
(* "x" is a profile on X, "page" is any other with the label of its host.  *)
(* A name is a sequence of words. A brief or a text is a sequence of       *)
(* tokens: [k |-> "word" | "at" | "url", v].                               *)
(***************************************************************************)
EXTENDS Naturals, Sequences, FiniteSets, SequencesExt

CONSTANTS FileRows,    \* what handles.toml may hold when the service starts
          AddLines,    \* what /handle_add may be given: [name, one, two], one and two the last tokens
          Briefs,      \* what an operator may ask a post about
          Bodies,      \* what a writer may answer
          ModelPacks,  \* the handles a model may write in its research pack: [li, x]
          Inside,      \* pairs of handles, the first a part of the second
          Letters,     \* length of every word of a name
          HostNames,   \* pairs <<host label, name>> that match
          None,        \* no handle, no address
          Brand, BrandItc, BrandHandle, OwnXHandle,
          MaxAdds, MaxRestarts, MaxPosts

RowFields == {"name", "li", "x", "liUrl", "xUrl"}

\* Names and texts are sequences; the file the service starts with is a list of rows.
IsText(s) == s \in Seq(ToSet(s))
IsRow(r) == DOMAIN r = RowFields /\ IsText(r.name)
IsRegistry(rows) == IsText(rows) /\ \A i \in DOMAIN rows : IsRow(rows[i])

EntriesMatch(a, b) ==
    \/ a.name = b.name
    \/ a.liUrl # None /\ a.liUrl = b.liUrl
    \/ a.xUrl # None /\ a.xUrl = b.xUrl
NoTwins(rows) == \A i, j \in DOMAIN rows : EntriesMatch(rows[i], rows[j]) => i = j

ASSUME HandlesAssumption ==
    /\ MaxAdds \in Nat /\ MaxRestarts \in Nat /\ MaxPosts \in Nat
    /\ \A rows \in FileRows : IsRegistry(rows) /\ NoTwins(rows)
    /\ \A text \in Bodies \cup {line.name : line \in AddLines} \cup {Brand, BrandItc} : IsText(text)

VARIABLES hFile,  \* rows of handles.toml
          hMem,   \* rows of the copy in memory
          hPost,  \* the last post: its brief, platform, text before and after
          hLeft   \* adds, restarts and posts still allowed

handlesVars == <<hFile, hMem, hPost, hLeft>>

At(h) == [k |-> "at", v |-> h]
Row(name, li, x, liUrl, xUrl) == [name |-> name, li |-> li, x |-> x, liUrl |-> liUrl, xUrl |-> xUrl]
NoPost == [brief |-> <<>>, kind |-> "none", pack |-> [li |-> None, x |-> None],
           before |-> <<>>, after |-> <<>>]

-------------------------------------------------------------------------------
(* /handle_add *)

IsLinkedIn(url) == url.site \in {"company", "in"}

\* token_is_handle_spec
Spec(t) == t.k \in {"at", "url"}

\* sanitize_profile_url: a LinkedIn address becomes a company's, a person's too.
ProfileUrl(site, slug) == IF slug = None THEN None ELSE [site |-> site, slug |-> slug]

\* The words that are no handle; without any, the handle itself, spelled out.
NameGiven(line, li, x) ==
    IF line.name # <<>> THEN line.name
    ELSE IF li # None THEN <<li>> ELSE IF x # None THEN <<x>> ELSE <<>>

\* parse_handle_add: the URLs first, the bare handles in what is left, two bare handles as given.
HandlesGiven(line) ==
    LET last == <<line.one, line.two>>
        ByUrl(e, t) == IF t.k # "url" THEN e
                       ELSE IF IsLinkedIn(t.v) THEN [e EXCEPT !.li = t.v.slug]
                       ELSE IF t.v.site = "x" THEN [e EXCEPT !.x = t.v.slug] ELSE e
        ByHandle(e, t) == IF t.k # "at" THEN e
                          ELSE IF e.x = None /\ t.v # e.li THEN [e EXCEPT !.x = t.v]
                          ELSE IF e.li = None THEN [e EXCEPT !.li = t.v] ELSE e
    IN IF \A i \in 1..2 : last[i].k = "at" THEN [li |-> last[1].v, x |-> last[2].v]
       ELSE FoldLeft(ByHandle, FoldLeft(ByUrl, [li |-> None, x |-> None], last), last)

ParseHandleAdd(line) ==
    LET e == HandlesGiven(line)
        name == NameGiven(line, e.li, e.x)
    IN IF ~Spec(line.one) \/ ~Spec(line.two) \/ name = <<>> THEN None
       ELSE Row(name, e.li, e.x, ProfileUrl("company", e.li), ProfileUrl("x", e.x))

\* The first of some places, 0 when there is none.
Least(places) == IF places = {} THEN 0 ELSE CHOOSE i \in places : \A j \in places : i <= j
First(rows, Is(_)) == Least({i \in DOMAIN rows : Is(rows[i])})

\* Mutant: a row is known by its name only.
DuplicateByName(rows, e) == First(rows, LAMBDA r : r.name = e.name)

DuplicateIndex(rows, e) == First(rows, LAMBDA r : EntriesMatch(r, e))

MergeMissingFields(dst, src) ==
    [f \in DOMAIN dst |-> IF f # "name" /\ dst[f] = None THEN src[f] ELSE dst[f]]

UpsertEntry(rows, e) ==
    LET i == DuplicateIndex(rows, e)
    IN IF i = 0 THEN Append(rows, e) ELSE [rows EXCEPT ![i] = MergeMissingFields(@, e)]

-------------------------------------------------------------------------------
(* Which row a brief is about *)

Tokens(brief, k) == SelectSeq(brief, LAMBDA t : t.k = k)

\* The first row Is is true of, for the first of items that has one.
FirstHit(rows, items, Is(_, _)) ==
    LET hits == SelectSeq([i \in DOMAIN items |-> First(rows, LAMBDA r : Is(r, items[i]))],
                          LAMBDA n : n # 0)
    IN IF hits = <<>> THEN 0 ELSE hits[1]

HitFromUrls(rows, brief) ==
    LET urls == Tokens(brief, "url")
        Profile(r, t) == t.v \in {r.liUrl, r.xUrl}
        Slug(r, t) == \/ IsLinkedIn(t.v) /\ r.li = t.v.slug
                      \/ t.v.site = "x" /\ r.x = t.v.slug
        Hit(t) == LET n == First(rows, LAMBDA r : Profile(r, t))
                  IN IF n # 0 THEN n ELSE First(rows, LAMBDA r : Slug(r, t))
        hits == SelectSeq([i \in DOMAIN urls |-> Hit(urls[i])], LAMBDA n : n # 0)
    IN IF hits = <<>> THEN 0 ELSE hits[1]

HitFromAtHandles(rows, brief) == FirstHit(rows, Tokens(brief, "at"), LAMBDA r, t : t.v \in {r.li, r.x})

\* Where phrase first stands in text, 0 when it does not or is too short to be looked for.
Find(text, phrase) ==
    LET words == [i \in DOMAIN phrase |-> [k |-> "word", v |-> phrase[i]]]
        at == {i \in 1..(Len(text) + 1 - Len(phrase)) : SubSeq(text, i, i + Len(phrase) - 1) = words}
    IN IF Len(phrase) = 1 /\ Letters[phrase[1]] < 5 THEN 0 ELSE Least(at)

NameLength(name) == FoldLeft(LAMBDA n, w : n + Letters[w], Len(name) - 1, name)

\* The longest name the brief has, the one it has first among the longest.
HitFromNames(rows, brief) ==
    LET named == {i \in DOMAIN rows : Find(brief, rows[i].name) # 0}
        Better(i, j) ==
            LET li == NameLength(rows[i].name)
                lj == NameLength(rows[j].name)
                pi == Find(brief, rows[i].name)
                pj == Find(brief, rows[j].name)
            IN li > lj \/ (li = lj /\ (pi < pj \/ (pi = pj /\ i <= j)))
    IN IF named = {} THEN 0 ELSE CHOOSE i \in named : \A j \in named : Better(i, j)

\* publisher_name_matches_host: name and host label without blanks, one the start of the other.
ByHost(r, t) == t.v.site = "page" /\ <<t.v.slug, r.name>> \in HostNames

HitFromPublisherHost(rows, brief) == FirstHit(rows, Tokens(brief, "url"), ByHost)

PrimaryFromBrief(rows, brief) ==
    LET hits == SelectSeq(<<HitFromUrls(rows, brief), HitFromAtHandles(rows, brief),
                            HitFromNames(rows, brief), HitFromPublisherHost(rows, brief)>>,
                          LAMBDA n : n # 0)
    IN IF hits = <<>> THEN 0 ELSE hits[1]

-------------------------------------------------------------------------------
(* Placing the handle *)

\* The pack's handles: line, in place of the one it has. A row with no handle changes nothing.
UpsertHandlesLine(pack, li, x) == IF li = None /\ x = None THEN pack ELSE [li |-> li, x |-> x]

HandlesOfRow(pack, rows, n) == IF n = 0 THEN pack ELSE UpsertHandlesLine(pack, rows[n].li, rows[n].x)
EnsurePackHandlesFromBrief(pack, brief, rows) == HandlesOfRow(pack, rows, PrimaryFromBrief(rows, brief))

\* A brief that names the company: its handle is the pack's only one.
EnsurePackBrandHandle(pack, brief) ==
    IF Find(brief, Brand) = 0 \/ pack.li = BrandHandle THEN pack
    ELSE UpsertHandlesLine(pack, BrandHandle, None)

ApplyBriefHandlesToPack(pack, brief, rows) ==
    EnsurePackBrandHandle(EnsurePackHandlesFromBrief(pack, brief, rows), brief)

\* The pack's LinkedIn handle, or that of the first row with the pack's X handle.
LinkedInHandleForPack(pack, rows) ==
    LET n == First(rows, LAMBDA r : r.x = pack.x /\ r.li # None)
    IN IF pack.li # None THEN pack.li
       ELSE IF pack.x = None \/ n = 0 THEN None ELSE rows[n].li

\* Mutant: only a handle that leads the text is seen.
SaysFirst(text, h) == text # <<>> /\ text[1] = At(h)

\* body.contains(handle): in a longer handle too.
Mentions(text, h) == \E i \in DOMAIN text : text[i].k = "at" /\ (text[i].v = h \/ <<h, text[i].v>> \in Inside)

ReplaceAtWords(text, i, n, h) == SubSeq(text, 1, i - 1) \o <<At(h)>> \o SubSeq(text, i + n, Len(text))

EnsureBrandMention(text) ==
    LET long == Find(text, BrandItc)
        short == Find(text, Brand)
        Glued(i, n) == i # 0 /\ i + n <= Len(text) /\ text[i + n] = At(BrandHandle)
    IN IF Glued(long, Len(BrandItc)) THEN ReplaceAtWords(text, long, Len(BrandItc) + 1, BrandHandle)
       ELSE IF Glued(short, Len(Brand)) THEN ReplaceAtWords(text, short, Len(Brand) + 1, BrandHandle)
       ELSE IF Mentions(text, BrandHandle) THEN text
       ELSE IF long # 0 THEN ReplaceAtWords(text, long, Len(BrandItc), BrandHandle)
       ELSE IF short # 0 THEN ReplaceAtWords(text, short, Len(Brand), BrandHandle) ELSE text

\* name_labels_for_body_match: the name, and its first word when that is long enough.
NameLabels(name) ==
    IF Len(name) > 1 /\ Letters[name[1]] >= 5 THEN <<name, <<name[1]>>>> ELSE <<name>>

CompanyRow(r) == r.liUrl # None /\ r.liUrl.site = "company"

\* The handle in place of the row's name; a person's leads a post that does not name them.
EnsureNamedHandleInBody(text, h, rows, kind) ==
    LET n == First(rows, LAMBDA r : h = IF kind = "post" THEN r.li ELSE r.x)
        labels == IF n = 0 THEN <<>> ELSE NameLabels(rows[n].name)
        found == First(labels, LAMBDA l : Find(text, l) # 0)
        isPublisher == n # 0 /\ (n # 0 => CompanyRow(rows[n]) \/ Len(rows[n].name) = 1)
    IN IF Mentions(text, h) THEN text
       ELSE IF found # 0 THEN ReplaceAtWords(text, Find(text, labels[found]), Len(labels[found]), h)
       ELSE IF text = <<>> THEN <<At(h)>>
       ELSE IF kind = "post" /\ ~isPublisher THEN <<At(h)>> \o text ELSE text

EnsureLinkedInHandleFromPack(text, pack, rows) ==
    LET h == LinkedInHandleForPack(pack, rows)
    IN IF h \in {None, BrandHandle} THEN text ELSE EnsureNamedHandleInBody(text, h, rows, "post")

EnsureXHandleFromPack(text, pack, rows) ==
    IF pack.x \in {None, OwnXHandle} THEN text ELSE EnsureNamedHandleInBody(text, pack.x, rows, "tweet")

Place(text, pack, rows, kind) ==
    IF kind = "post" THEN EnsureLinkedInHandleFromPack(EnsureBrandMention(text), pack, rows)
    ELSE EnsureXHandleFromPack(text, pack, rows)

-------------------------------------------------------------------------------
(* Actions *)

\* boot: handles.toml is read into memory.
HandlesInit ==
    /\ hFile \in FileRows
    /\ hMem = hFile
    /\ hPost = NoPost
    /\ hLeft = [adds |-> MaxAdds, restarts |-> MaxRestarts, posts |-> MaxPosts]

Spend(what) == hLeft[what] > 0 /\ hLeft' = [hLeft EXCEPT ![what] = @ - 1]

AppendHandleToml(e) == hFile' = Append(hFile, e)

\* A row that is there already is filled in, in memory only. A new one is written to the
\* file first; a write that fails leaves memory alone.
AddEntry(e, new) ==
    \/ /\ e = None
       /\ UNCHANGED <<hFile, hMem>>
    \/ /\ e # None /\ ~new
       /\ hMem' = UpsertEntry(hMem, e)
       /\ UNCHANGED hFile
    \/ /\ new
       /\ AppendHandleToml(e)
       /\ hMem' = UpsertEntry(hMem, e)
    \/ /\ new
       /\ UNCHANGED <<hFile, hMem>>

HandleAdd(line) ==
    /\ Spend("adds")
    /\ LET e == ParseHandleAdd(line)
       IN AddEntry(e, e # None /\ (e # None => DuplicateIndex(hMem, e) = 0))
    /\ UNCHANGED hPost

RestartHandles ==
    /\ Spend("restarts")
    /\ hMem' = hFile
    /\ UNCHANGED <<hFile, hPost>>

\* A post or a tweet: the pack, then the text the writer gave for it. One is followed.
PostWith(brief, kind, pack, text) ==
    [brief |-> brief, kind |-> kind, pack |-> pack, before |-> text, after |-> Place(text, pack, hMem, kind)]

WritePost(brief, kind, model, text) ==
    /\ hPost.kind = "none"
    /\ Spend("posts")
    /\ hPost' = PostWith(brief, kind, ApplyBriefHandlesToPack(model, brief, hMem), text)
    /\ UNCHANGED <<hFile, hMem>>

\* A rework of it: the brief is applied again, to what the registry is now.
PlaceAgain ==
    /\ hPost.kind # "none"
    /\ Spend("posts")
    /\ hPost' = PostWith(hPost.brief, hPost.kind,
                         ApplyBriefHandlesToPack(hPost.pack, hPost.brief, hMem), hPost.after)
    /\ UNCHANGED <<hFile, hMem>>

HandlesNext ==
    \/ \E line \in AddLines : HandleAdd(line)
    \/ RestartHandles
    \/ \E brief \in Briefs, kind \in {"post", "tweet"}, model \in ModelPacks, text \in Bodies :
           WritePost(brief, kind, model, text)
    \/ PlaceAgain

HandlesSpec == HandlesInit /\ [][HandlesNext]_handlesVars

-------------------------------------------------------------------------------
(* Properties *)

\* handles.toml never gets two rows for one name or one profile, whatever merged in memory
\* and was lost at a restart (apply_handle_add: "no duplicate append").
FileHasNoTwins == NoTwins(hFile)

Placed == {hPost.after[i].v : i \in {j \in DOMAIN hPost.after : hPost.after[j].k = "at"}}
          \ {hPost.before[i].v : i \in {j \in DOMAIN hPost.before : hPost.before[j].k = "at"}}

\* A handle the code put in a text is the pack's on that platform, in a post also the company's
\* or that of a row with the pack's X handle: "Never injects a LinkedIn handle on X".
PlacedOnItsPlatform ==
    \A h \in Placed :
        \/ hPost.kind = "tweet" /\ h = hPost.pack.x
        \/ hPost.kind = "post" /\ h \in {BrandHandle, hPost.pack.li}
        \/ hPost.kind = "post" /\ hPost.pack.li = None /\ hPost.pack.x # None

HandlesInv == FileHasNoTwins /\ PlacedOnItsPlatform

\* A rework says no handle a second time: one that is in the text already, or that stands there in
\* place of a name, is not put in again, whatever the registry learned or lost in between.
Times(text, h) == Cardinality({i \in DOMAIN text : text[i] = At(h)})
HandlesLandOnce ==
    [][PlaceAgain => \A h \in {t.v : t \in Range(Tokens(hPost'.after, "at"))} :
                         Times(hPost'.after, h) > 1 => Times(hPost'.after, h) = Times(hPost'.before, h)]_handlesVars
================================================================================
