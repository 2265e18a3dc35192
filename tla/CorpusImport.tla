------------------------------ MODULE CorpusImport ------------------------------
(***************************************************************************)
(* How texts get into the corpus.  A restart of the main process merges    *)
(* the LinkedIn export, one entry after the other, and what the API for    *)
(* portability answers, all entries in one transaction; the binary         *)
(* import-linkedin-export does the former in a process of its own, after a *)
(* wipe if it is asked to; and /ingest stores a public page.  They share   *)
(* the tables sources and chunks only.  Embeddings are computed before the *)
(* transaction that stores them.                                           *)
(*                                                                         *)
(* A row is known by activity, address, date and title, the key of the     *)
(* unique index.  An entry stands for the first three, the address for the *)
(* page /ingest stores.  Address and title are what /ingest looks at and   *)
(* what it changes.                                                        *)
(***************************************************************************)
EXTENDS Naturals, FiniteSets

CONSTANTS Entries,      \* entries of the export and of the portability API
          Addresses,    \* public addresses
          AddressOf,    \* the address of an entry
          Binaries,     \* runs of import-linkedin-export at one time
          Ingests,      \* /ingest commands at one time
          PageKinds,    \* what a page may hold
          ImportFaults, \* which failures happen in this instance
          MaxImports,   \* bound: starts of all of these
          NoItem, NoPage

\* full: 800 characters or more.  thin: 200 or more.  tiny: less.  shell: a bot check of
\* Cloudflare, known by its phrases, however much text it has.
Size(page) == CASE page = "full" -> 3 [] page = "thin" -> 2 [] page = "tiny" -> 1 [] OTHER -> 0
MayHaveMore(page, than) == "shell" \in {page, than} \/ Size(page) >= Size(than)

ASSUME ImportAssumption ==
    /\ Entries \cap Addresses = {} /\ AddressOf \in [Entries -> Addresses]
    /\ NoItem \notin Entries \cup Addresses
    /\ PageKinds \subseteq {"full", "thin", "tiny", "shell"}
    /\ NoPage \notin {"full", "thin", "tiny", "shell"}
    /\ ImportFaults \subseteq {"embed", "sqlite", "crash"}
    /\ MaxImports \in Nat

VARIABLES corpus,     \* rows of table sources; found is the text their chunks hold
          importer,   \* imports of a list of entries
          ingester,   \* /ingest commands
          importOps,
          torn,       \* history: the chunks are wiped and the rows were left
          wipedUnder  \* history: imports with no start since another wiped the rows

importVars == <<corpus, importer, ingester, importOps, torn, wipedUnder>>

Boots == {"export", "portability"}  \* started with the main process
Importers == Boots \cup Binaries
TransientHttpAttempts == 3

Quiet == [pc |-> "off", asked |-> {}, todo |-> {}, item |-> NoItem, ready |-> {}]
Given(is) == [Quiet EXCEPT !.pc = "next", !.asked = is, !.todo = is]
NoIngest == [pc |-> "off", url |-> NoItem, page |-> NoPage, tries |-> 0]

ImportInit ==
    /\ corpus = {}
    /\ importer = [t \in Importers |-> Quiet]
    /\ ingester = [g \in Ingests |-> NoIngest]
    /\ importOps = 0 /\ torn = FALSE /\ wipedUnder = {}

-------------------------------------------------------------------------------
Op == importOps < MaxImports /\ importOps' = importOps + 1
ImportFault(kind) == kind \in ImportFaults /\ UNCHANGED importOps
Doing(t, pc) == importer[t].pc = pc
Ingesting(g, pc) == ingester[g].pc = pc
ImportEnds(t) == importer' = [importer EXCEPT ![t] = Quiet]
IngestEnds(g) == ingester' = [ingester EXCEPT ![g] = NoIngest]

\* An entry has a title of its own; the row and its chunks come in one transaction.
ItemRow(i) == [item |-> i, title |-> "own", text |-> "own", found |-> "own"]
SameKey(r, s) == r.item = s.item /\ r.title = s.title
SourceExists(i) == \E r \in corpus : SameKey(r, ItemRow(i))
RowAddress(r) == IF r.item \in Addresses THEN r.item ELSE AddressOf[r.item]
\* INSERT OR IGNORE, and chunks for the rows that are new.
InsertEntries(is) == corpus' = corpus \cup {ItemRow(i) : i \in {j \in is : ~SourceExists(j)}}

-------------------------------------------------------------------------------
\* The main process starts, again perhaps: what it was doing is lost.  The export may be
\* missing, the token too, and a domain of the API that fails is left out.
MainStarts ==
    /\ Op
    /\ \E given \in [Boots -> SUBSET Entries] :
          /\ given["export"] \in {Entries, {}}
          /\ importer' = [t \in Importers |-> IF t \in Boots THEN Given(given[t]) ELSE importer[t]]
    /\ ingester' = [g \in Ingests |-> NoIngest]
    /\ wipedUnder' = wipedUnder \ Boots
    /\ UNCHANGED <<corpus, torn>>

StartImport(t) ==
    /\ t \in Binaries /\ Doing(t, "off") /\ Op
    /\ importer' = [importer EXCEPT ![t] = Given(Entries)]
    /\ wipedUnder' = wipedUnder \ {t}
    /\ UNCHANGED <<corpus, ingester, torn>>

\* Mutant: the row comes before its embedding.
InsertThenEmbed(t) ==
    /\ Doing(t, "next")
    /\ \E i \in importer[t].todo :
          IF SourceExists(i)
          THEN importer' = [importer EXCEPT ![t].todo = @ \ {i}] /\ UNCHANGED corpus
          ELSE /\ importer' = [importer EXCEPT ![t].pc = "embed", ![t].item = i]
               /\ corpus' = corpus \cup {[ItemRow(i) EXCEPT !.found = "none"]}
    /\ UNCHANGED <<ingester, importOps, torn, wipedUnder>>

\* An entry whose key is known is skipped before it is embedded.
CheckItem(t) ==
    /\ Doing(t, "next")
    /\ \E i \in importer[t].todo :
          importer' = IF SourceExists(i)
                      THEN [importer EXCEPT ![t].todo = @ \ {i}]
                      ELSE [importer EXCEPT ![t].pc = "embed", ![t].item = i]
    /\ UNCHANGED <<corpus, ingester, importOps, torn, wipedUnder>>

\* The embedding is there.  The API's entries wait for the others,
EmbedItem(t) ==
    LET i == importer[t].item IN
    /\ t = "portability" /\ Doing(t, "embed")
    /\ importer' = [importer EXCEPT ![t].pc = "next", ![t].item = NoItem,
                                    ![t].todo = @ \ {i}, ![t].ready = @ \cup {i}]
    /\ UNCHANGED <<corpus, ingester, importOps, torn, wipedUnder>>

\* an entry of the export is stored at once, or skipped if somebody has stored it meanwhile.
StoreItem(t) ==
    LET i == importer[t].item IN
    /\ t # "portability" /\ Doing(t, "embed")
    /\ InsertEntries({i})
    /\ importer' = [importer EXCEPT ![t].pc = "next", ![t].item = NoItem, ![t].todo = @ \ {i}]
    /\ UNCHANGED <<ingester, importOps, torn, wipedUnder>>

\* Nothing is left to look at: the API's entries go in together.
StoreExportItems(t) ==
    /\ Doing(t, "next") /\ importer[t].todo = {}
    /\ InsertEntries(importer[t].ready)
    /\ importer' = [importer EXCEPT ![t].pc = "done", ![t].ready = {}]
    /\ UNCHANGED <<ingester, importOps, torn, wipedUnder>>

\* The report, read by a person.
ReportImport(t) ==
    /\ Doing(t, "done")
    /\ ImportEnds(t)
    /\ UNCHANGED <<corpus, ingester, importOps, torn, wipedUnder>>

\* Any error ends the import; a transaction that fails leaves nothing.
ImportFails(t) ==
    /\ \/ Doing(t, "embed") /\ ImportFault("embed")
       \/ importer[t].pc \in {"next", "embed", "wiping"} /\ ImportFault("sqlite")
    /\ ImportEnds(t)
    /\ UNCHANGED <<corpus, ingester, torn, wipedUnder>>

-------------------------------------------------------------------------------
\* import-linkedin-export --wipe: clear_corpus is two statements and no transaction,
\* first the chunks,
DeleteChunksOfAll(t) ==
    /\ t \in Binaries /\ Doing(t, "off") /\ Op
    /\ corpus' = {[r EXCEPT !.found = "none"] : r \in corpus}
    /\ torn' = TRUE
    /\ importer' = [importer EXCEPT ![t] = [Quiet EXCEPT !.pc = "wiping"]]
    /\ wipedUnder' = wipedUnder \ {t}
    /\ UNCHANGED ingester

\* then the rows, unless one of them has chunks again, as their foreign key forbids it.
DeleteSources(t) ==
    /\ Doing(t, "wiping")
    /\ IF \E r \in corpus : r.found # "none"
       THEN ImportEnds(t) /\ UNCHANGED <<corpus, torn, wipedUnder>>
       ELSE /\ corpus' = {} /\ torn' = FALSE
            /\ importer' = [importer EXCEPT ![t] = Given(Entries)]
            /\ wipedUnder' = Importers \ {t}
    /\ UNCHANGED <<ingester, importOps>>

-------------------------------------------------------------------------------
StartIngest(g, u) ==
    /\ Ingesting(g, "off") /\ Op
    /\ ingester' = [ingester EXCEPT ![g] = [NoIngest EXCEPT !.pc = "get", !.url = u, !.tries = 1]]
    /\ UNCHANGED <<corpus, importer, torn, wipedUnder>>

\* fetch_html and fetch_public_page_html: what looks transient, a rate limit too, is tried
\* three times; a short page, a shell and what looks like a bot wall (a rate limit does)
\* are left to the browser, everything else is an error.
FetchPublicPage(g) ==
    /\ Ingesting(g, "get")
    /\ \/ \E page \in PageKinds :
             ingester' = [ingester EXCEPT ![g].pc = IF page = "full" THEN "embed" ELSE "browse",
                                          ![g].page = page]
       \/ /\ ingester[g].tries < TransientHttpAttempts
          /\ ingester' = [ingester EXCEPT ![g].tries = @ + 1]
       \/ ingester' = [ingester EXCEPT ![g].pc = "browse"]
       \/ IngestEnds(g)
    /\ UNCHANGED <<corpus, importer, importOps, torn, wipedUnder>>

\* The page of the browser if it has more text; a bot check and a page that is too short
\* are refused.
PublicPlaywright(g) ==
    /\ Ingesting(g, "browse")
    /\ \E seen \in PageKinds \cup {NoPage} :
          LET pages == {ingester[g].page, seen} IN
          \E kept \in pages :
              /\ \A page \in pages : MayHaveMore(kept, page)
              /\ ingester' = IF kept \in {NoPage, "shell", "tiny"}
                             THEN [ingester EXCEPT ![g] = NoIngest]
                             ELSE [ingester EXCEPT ![g].pc = "embed", ![g].page = kept]
    /\ UNCHANGED <<corpus, importer, importOps, torn, wipedUnder>>

\* Any row with the address takes text and title of the page, whatever it was; the
\* unique index may refuse the title.
StoreIngested(g) ==
    LET page == ingester[g].page
        PageRow(i) == [item |-> i, title |-> "page", text |-> page, found |-> page] IN
    /\ Ingesting(g, "embed")
    /\ \/ \E r \in corpus :
             LET new == PageRow(r.item) IN
             /\ RowAddress(r) = ingester[g].url
             /\ corpus' = IF \E s \in corpus \ {r} : SameKey(s, new) THEN corpus
                          ELSE (corpus \ {r}) \cup {new}
       \/ /\ ~\E r \in corpus : RowAddress(r) = ingester[g].url
          /\ corpus' = corpus \cup {PageRow(ingester[g].url)}
    /\ IngestEnds(g)
    /\ UNCHANGED <<importer, importOps, torn, wipedUnder>>

IngestFails(g) ==
    /\ Ingesting(g, "embed")
    /\ ImportFault("embed") \/ ImportFault("sqlite")
    /\ IngestEnds(g)
    /\ UNCHANGED <<corpus, importer, torn, wipedUnder>>

-------------------------------------------------------------------------------
BinaryCrashes(t) ==
    /\ t \in Binaries /\ ImportFault("crash") /\ ~Doing(t, "off")
    /\ ImportEnds(t)
    /\ UNCHANGED <<corpus, ingester, torn, wipedUnder>>

ImportNext ==
    \/ MainStarts
    \/ \E t \in Importers :
          \/ StartImport(t) \/ CheckItem(t) \/ EmbedItem(t) \/ StoreItem(t)
          \/ StoreExportItems(t) \/ ReportImport(t) \/ ImportFails(t)
          \/ DeleteChunksOfAll(t) \/ DeleteSources(t) \/ BinaryCrashes(t)
    \/ \E g \in Ingests :
          \/ \E u \in Addresses : StartIngest(g, u)
          \/ FetchPublicPage(g) \/ PublicPlaywright(g)
          \/ StoreIngested(g) \/ IngestFails(g)

ImportSpec == ImportInit /\ [][ImportNext]_importVars

-------------------------------------------------------------------------------
(* Properties. *)

PageTexts == PageKinds \ {"tiny", "shell"}
CorpusRow == [item : Entries \cup Addresses, title : {"own", "page"},
              text : PageTexts \cup {"own"}, found : PageTexts \cup {"own", "none"}]
Importer == [pc : {"off", "next", "embed", "done", "wiping"},
             asked : SUBSET Entries, todo : SUBSET Entries,
             item : Entries \cup {NoItem}, ready : SUBSET Entries]
Ingester == [pc : {"off", "get", "browse", "embed"}, url : Addresses \cup {NoItem},
             page : PageKinds \cup {NoPage}, tries : 0..TransientHttpAttempts]

\* Whoever is about to store something knows what: an entry; a page one may keep and its
\* address.
Underway ==
    /\ \A t \in Importers : importer[t].pc = "embed" => importer[t].item \in Entries
    /\ \A g \in Ingests : /\ ingester[g].pc # "off" => ingester[g].url \in Addresses
                          /\ ingester[g].pc = "embed" => ingester[g].page \in PageTexts

ImportTypes ==
    /\ corpus \subseteq CorpusRow
    /\ importer \in [Importers -> Importer]
    /\ ingester \in [Ingests -> Ingester]
    /\ importOps \in 0..MaxImports /\ torn \in BOOLEAN /\ wipedUnder \subseteq Importers

\* No two rows have one key.
KeysAreUnique == \A r, s \in corpus : SameKey(r, s) => r = s

\* A row is found by the text it holds: no failure, crash or race leaves one without its
\* chunks, which later imports would skip for ever; a wipe that stopped half way does.
RowsAreFound == \A r \in corpus : r.found = r.text \/ (torn /\ r.found = "none")

\* What an import has behind it is in the corpus, whoever stored it, under whatever
\* title, unless the rows were wiped meanwhile.
Arrived(i) == \E r \in corpus : r.item = i
EntriesArrive ==
    \A t \in Importers \ wipedUnder :
        \A i \in importer[t].asked \ (importer[t].todo \cup importer[t].ready) : Arrived(i)

\* sources/ingest.rs, export.rs and portability.rs: the corpus holds no page of a bot
\* check and no scrap, its rows can be found, and an import that is reported done has
\* stored every entry it was given.
CorpusInv == ImportTypes /\ Underway /\ KeysAreUnique /\ RowsAreFound /\ EntriesArrive

\* sources/export.rs:6 calls refreshes safe because of the key.  /ingest of an entry's
\* address rewrites the title in the key, and the next import stores the entry again.
EntriesHaveOneRow == \A r, s \in corpus : r.item = s.item => r = s
===============================================================================
