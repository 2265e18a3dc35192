--------------------------------- MODULE Cites ---------------------------------
(***************************************************************************)
(* The addresses of a draft or a tweet: which ones may be cited, which     *)
(* stay as the numbered options of /change_url, which one stands in the    *)
(* text, and which tweet is quoted.                                        *)
(*                                                                         *)
(* An address is [site, page, kind, day]: its host, its path, what it is,  *)
(* and the day its path names (0 when it names none).                      *)
(***************************************************************************)
EXTENDS Naturals, Sequences, FiniteSets, SequencesExt, Lists

CONSTANTS LinkCap,  \* LINK_OPTIONS_CAP
          TweetCap, \* options a tweet is given before they are taken from each other
          NoUrl     \* no address

ASSUME CitesAssumption == LinkCap \in Nat /\ TweetCap \in 1..LinkCap

UrlKinds == {"page", "status", "profile", "junk", "word"}

Junk(u) == u.kind = "junk"            \* a search page, a placeholder, a social site, a shortener
HostLooksLikeDns(u) == u.kind # "word"  \* "word": prose that was taken for a host
XStatus(u) == u.kind = "status"
XNonStatus(u) == u.kind = "profile"
AllowedTweetCite(u) == HostLooksLikeDns(u) /\ (XStatus(u) \/ ~Junk(u))
SamePublisherUrl(u, v) == u.site = v.site /\ u.page = v.page
SamePublisherDomain(u, v) == u.site = v.site

\* should_replace_same_host_url: the later day of two paths.
IsNewer(u, v) == u.day > v.day

-------------------------------------------------------------------------------
(* Lists of options *)

OnNewSite(list, u) == \A i \in DOMAIN list : ~SamePublisherDomain(list[i], u)
IsNew(list, u) == \A i \in DOMAIN list : ~SamePublisherUrl(list[i], u)

\* One of every site, then what else there is.
CapUrlsByDomain(urls, cap) == Take(Take(<<>>, urls, cap, SamePublisherDomain), urls, cap, SamePublisherUrl)

\* A newer address takes the place of its site, in a list that is not full.
Pick(kept, u) ==
    IF Len(kept) = LinkCap THEN kept
    ELSE IF OnNewSite(kept, u) THEN Append(kept, u)
    ELSE [i \in DOMAIN kept |-> IF SamePublisherDomain(kept[i], u) /\ IsNewer(u, kept[i]) THEN u ELSE kept[i]]

\* The pack's addresses, those of the text first, one of every site: the newest.
PickLinkOptions(pack, inText) ==
    LET listed == Only(pack, LAMBDA u : ~Junk(u) /\ HostLooksLikeDns(u))
        urls == Only(inText, LAMBDA u : ~Junk(u) /\ ~IsNew(listed, u)) \o listed
        picked[n \in 0..Len(urls)] == IF n = 0 THEN <<>> ELSE Pick(picked[n - 1], urls[n])
    IN picked[Len(urls)]

PickTweetCiteOptions(pack, inText) ==
    LET listed == Only(pack, AllowedTweetCite)
        cited == Only(inText, LAMBDA u : ~Junk(u) /\ AllowedTweetCite(u) /\ ~IsNew(listed, u))
    IN Take(<<>>, cited \o listed, LinkCap, SamePublisherDomain)

\* Mutant: another page of the site keeps its slot.
PromoteBesideItsSite(options, u) ==
    UpTo(LinkCap, <<u>> \o Only(options, LAMBDA v : ~SamePublisherUrl(v, u)))

\* promote_link_option: first, in place of its page and of its site.
PromoteLinkOption(options, u) ==
    UpTo(LinkCap, <<u>> \o Only(options, LAMBDA v : ~SamePublisherUrl(v, u) /\ ~SamePublisherDomain(v, u)))

EnsureOption(options, u) ==
    IF ~IsNew(options, u) THEN options
    ELSE IF Len(options) < TweetCap THEN Append(options, u) ELSE PromoteLinkOption(options, u)

\* One address after the other.
EnsureOptions(options, urls) ==
    LET ensured[n \in 0..Len(urls)] == IF n = 0 THEN options ELSE EnsureOption(ensured[n - 1], urls[n])
    IN ensured[Len(urls)]

-------------------------------------------------------------------------------
(* Probes: live is the set of the addresses that answer. A status is never probed. *)

Answers(u, live) == XStatus(u) \/ u \in live

FilterReachable(urls, live) ==
    Only(urls, LAMBDA u : AllowedTweetCite(u) /\ ~XNonStatus(u) /\ Answers(u, live))

RefillFromPool(options, pool, live) ==
    Take(options, Only(pool, LAMBDA u : ~Junk(u) /\ AllowedTweetCite(u) /\ Answers(u, live)), LinkCap,
         SamePublisherDomain)

\* What still answers, filled up from the pool. The text cites the first of it.
ReachableOptions(options, pool, live) ==
    RefillFromPool(UpTo(LinkCap, FilterReachable(options, live)), pool, live)

-------------------------------------------------------------------------------
(* The text cites a list of addresses, each on a line of its own: the last is its link. *)

InPostUrl(cites) == IF cites = <<>> THEN NoUrl ELSE Last(cites)
SetSingleInPostUrl(u) == IF u = NoUrl THEN <<>> ELSE <<u>>
FirstOption(options) == IF options = <<>> THEN NoUrl ELSE options[1]
FirstOf(options, Fits(_)) == FirstOption(Only(options, Fits))

\* ensure_operator_https_lines: every address the operator asked for, the link last.
OperatorLines(required, primary) ==
    LET allowed == Only(required, AllowedTweetCite)
        others == IF primary = NoUrl \/ ~AllowedTweetCite(primary) THEN allowed
                  ELSE Only(allowed, LAMBDA u : ~SamePublisherUrl(u, primary))
        last == IF primary = NoUrl \/ ~AllowedTweetCite(primary) THEN <<>> ELSE <<primary>>
    IN Take(<<>>, others, Len(others), SamePublisherUrl) \o last

\* resolve_url_choice: 0 clears, a number picks an option, an address is taken as it is.
BadChoice == [ok |-> FALSE, url |-> NoUrl]
ResolveUrlChoice(choice, options) ==
    CASE choice.k = "clear" -> [ok |-> TRUE, url |-> NoUrl]
      [] choice.k = "option" -> IF choice.n \in DOMAIN options THEN [ok |-> TRUE, url |-> options[choice.n]]
                                ELSE BadChoice
      [] choice.k = "url" -> [ok |-> TRUE, url |-> choice.url]

\* The tweet that is quoted: any status of the options.
QuoteOf(options) == FirstOf(options, XStatus)
PrimaryCite(options) == IF FirstOf(options, AllowedTweetCite) # NoUrl THEN FirstOf(options, AllowedTweetCite)
                        ELSE FirstOption(options)

\* The gates: an accepted text has a link that answers, a saved one has an option.
ShipCite(cites, options) == IF cites = <<>> THEN FirstOption(options) ELSE InPostUrl(cites)
ShipCiteReachable(cites, options, live) ==
    ShipCite(cites, options) # NoUrl /\ Answers(ShipCite(cites, options), live)
LinkOptionsFloor(options) == options # <<>> /\ \A i \in DOMAIN options : HostLooksLikeDns(options[i])
================================================================================
