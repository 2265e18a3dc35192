------------------------------ MODULE TextProofs ------------------------------
(***************************************************************************)
(* The texts, their links and their names.                                 *)
(*                                                                         *)
(* The lists of Cites are made by the loops of Lists; from what these      *)
(* compute (ListProofs) follows what Take lists, that no site is listed    *)
(* twice, and that the cap is kept.                                        *)
(*                                                                         *)
(* Rework: RowsInv says that the row and the row a rework works on list    *)
(* one option of a site, within the cap, and the link first.  From it      *)
(* follows that the link the operator picked stays.                        *)
(*                                                                         *)
(* GroundedText: TextsInv says that the pool holds addresses that were     *)
(* met, the pack is of the pool, the text is made of paragraphs a writer   *)
(* may write, and a text that is to be finished quotes what it must.       *)
(*                                                                         *)
(* Handles: HInv says that the memory covers the file row by row, that the *)
(* file has no twins, and that every tag that was placed is allowed there. *)
(* A text is a list of tokens: what the loops that look for, replace and   *)
(* join them do to the number of times it says a handle (SaysOnce) is what *)
(* lands a handle once.                                                    *)
(***************************************************************************)
EXTENDS Rework, GroundedText, Handles, ListProofs

-------------------------------------------------------------------------------
(* Lists of addresses *)

\* One address of a site.
OneOfASite(list) == \A i, j \in DOMAIN list : SamePublisherDomain(list[i], list[j]) => i = j
Apart(list, urls) == \A i \in DOMAIN list, j \in DOMAIN urls : ~SamePublisherDomain(list[i], urls[j])

LEMMA KeptList ==
    ASSUME NEW list, Listing(list), NEW places
    PROVE  /\ Listing(Keep(list, places))
           /\ \A k \in DOMAIN Keep(list, places) : \E i \in places \cap DOMAIN list : Keep(list, places)[k] = list[i]
           /\ OneOfASite(list) => OneOfASite(Keep(list, places))
<1>1. PICK S : list \in Seq(S)
  BY DEF Listing
<1>2. PICK kept : kept = Keep(list, places)
  OBVIOUS
<1>3. kept \in Seq(S) /\ IsKept(kept, list, places)
  BY <1>1, <1>2, KeepIsKept
<1>4. DOMAIN kept = 1..Len(kept) /\ Len(kept) \in Nat /\ DOMAIN list = 1..Len(list) /\ Len(list) \in Nat
  BY <1>1, <1>3
<1>5. PICK at \in [1..Len(kept) -> places \cap DOMAIN list] :
          /\ \A k \in 1..Len(kept) : kept[k] = list[at[k]]
          /\ \A j, k \in 1..Len(kept) : j < k => at[j] < at[k]
  BY <1>3 DEF IsKept
<1>6. ASSUME OneOfASite(list), NEW j \in 1..Len(kept), NEW k \in 1..Len(kept),
             SamePublisherDomain(kept[j], kept[k])
      PROVE  j = k
  <2>1. at[j] \in DOMAIN list /\ at[k] \in DOMAIN list
    BY <1>5
  <2>2. at[j] = at[k]
    BY <1>5, <1>6, <2>1 DEF OneOfASite
  <2>3. at[j] \in Nat
    BY <1>4, <2>1
  <2>4. ~(j < k) /\ ~(k < j)
    BY <1>5, <2>2, <2>3
  <2> QED
    BY <1>4, <2>4
<1>7. OneOfASite(list) => OneOfASite(kept)
  BY <1>4, <1>6 DEF OneOfASite
<1>8. Listing(kept)
  BY <1>3, AnyListing
<1> QED
  BY <1>2, <1>4, <1>5, <1>7, <1>8

LEMMA UpToList ==
    ASSUME NEW list, Listing(list), NEW n \in Int
    PROVE  /\ Listing(UpTo(n, list))
           /\ DOMAIN UpTo(n, list) \subseteq DOMAIN list
           /\ \A k \in DOMAIN UpTo(n, list) : UpTo(n, list)[k] = list[k]
           /\ Len(UpTo(n, list)) \in Nat
           /\ Len(UpTo(n, list)) <= Len(list)
           /\ n >= 0 => Len(UpTo(n, list)) <= n
           /\ n <= 0 => Len(UpTo(n, list)) = 0
           /\ n >= 1 /\ Len(list) >= 1 => Len(UpTo(n, list)) >= 1
           /\ OneOfASite(list) => OneOfASite(UpTo(n, list))
<1>1. PICK upto : upto = UpTo(n, list)
  OBVIOUS
<1>2. \A k \in DOMAIN upto : k \in DOMAIN list /\ upto[k] = list[k]
  BY <1>1, CutList
<1>3. OneOfASite(list) => OneOfASite(upto)
  BY <1>2 DEF OneOfASite
<1> QED
  BY <1>1, <1>3, CutList

LEMMA Joined ==
    ASSUME NEW s, NEW t, Listing(s), Listing(t)
    PROVE  /\ Listing(s \o t)
           /\ Len(s \o t) = Len(s) + Len(t) /\ Len(s) \in Nat /\ Len(t) \in Nat
           /\ \A i \in DOMAIN s : i \in DOMAIN (s \o t) /\ (s \o t)[i] = s[i]
           /\ OneOfASite(s) /\ OneOfASite(t) /\ Apart(s, t) => OneOfASite(s \o t)
<1>2. PICK both : both = s \o t
  OBVIOUS
<1>4. /\ Listing(both) /\ Len(both) = Len(s) + Len(t) /\ Len(s) \in Nat /\ Len(t) \in Nat
      /\ DOMAIN s = 1..Len(s) /\ DOMAIN t = 1..Len(t) /\ DOMAIN both = 1..(Len(s) + Len(t))
      /\ \A i \in DOMAIN s : i \in DOMAIN both /\ both[i] = s[i]
  BY <1>2, JoinedLists
<1>5. \A i \in DOMAIN both : (i \in DOMAIN s /\ both[i] = s[i]) \/ (i - Len(s) \in DOMAIN t /\ both[i] = t[i - Len(s)])
  BY <1>2, JoinedLists
<1>6. ASSUME OneOfASite(s), OneOfASite(t), Apart(s, t),
             NEW i \in DOMAIN both, NEW j \in DOMAIN both, SamePublisherDomain(both[i], both[j])
      PROVE  i = j
  <2>1. CASE i \in DOMAIN s /\ both[i] = s[i] /\ j \in DOMAIN s /\ both[j] = s[j]
    BY <1>6, <2>1 DEF OneOfASite
  <2>2. CASE i \in DOMAIN s /\ both[i] = s[i] /\ j - Len(s) \in DOMAIN t /\ both[j] = t[j - Len(s)]
    BY <1>6, <2>2 DEF Apart
  <2>3. CASE i - Len(s) \in DOMAIN t /\ both[i] = t[i - Len(s)] /\ j \in DOMAIN s /\ both[j] = s[j]
    BY <1>6, <2>3 DEF Apart, SamePublisherDomain
  <2>4. CASE i - Len(s) \in DOMAIN t /\ both[i] = t[i - Len(s)] /\ j - Len(s) \in DOMAIN t /\ both[j] = t[j - Len(s)]
    <3>1. i - Len(s) = j - Len(s)
      BY <1>6, <2>4 DEF OneOfASite
    <3> QED
      BY <1>4, <3>1
  <2> QED
    BY <1>5, <2>1, <2>2, <2>3, <2>4
<1>7. OneOfASite(s) /\ OneOfASite(t) /\ Apart(s, t) => OneOfASite(both)
  BY <1>6 DEF OneOfASite
<1> QED
  BY <1>2, <1>4, <1>7

LEMMA Alone ==
    ASSUME NEW u
    PROVE  Listing(<<u>>) /\ Len(<<u>>) = 1 /\ DOMAIN <<u>> = {1} /\ <<u>>[1] = u /\ OneOfASite(<<u>>)
<1>1. Listing(<<u>>) /\ Len(<<u>>) = 1 /\ DOMAIN <<u>> = {1} /\ <<u>>[1] = u
  BY LoneList
<1>2. OneOfASite(<<u>>)
  BY <1>1 DEF OneOfASite
<1> QED
  BY <1>1, <1>2

LEMMA Nothing ==
    Listing(<<>>) /\ Len(<<>>) = 0 /\ DOMAIN <<>> = {} /\ OneOfASite(<<>>)
<1>1. OneOfASite(<<>>)
  BY EmptyList DEF OneOfASite
<1> QED
  BY <1>1, EmptyList

\* Taking adds within the cap.
LEMMA Taken ==
    ASSUME NEW list, NEW urls, Listing(list), Listing(urls), NEW places, NEW cap \in Nat
    PROVE  LET more == list \o UpTo(cap - Len(list), Keep(urls, places))
           IN Listing(more) /\ (Len(list) <= cap => Len(more) <= cap)
<1>1. PICK n, kept, upto : n = cap - Len(list) /\ kept = Keep(urls, places) /\ upto = UpTo(n, kept)
  OBVIOUS
<1>2. Listing(kept)
  BY <1>1, KeptList
<1>3. Len(list) \in Nat
  BY DEF Listing
<1>4. n \in Int
  BY <1>1, <1>3
<1>5. Listing(upto) /\ (n >= 0 => Len(upto) <= n)
  BY <1>1, <1>2, <1>4, UpToList
<1>6. Listing(list \o upto) /\ Len(list \o upto) = Len(list) + Len(upto) /\ Len(upto) \in Nat
  BY <1>5, Joined
<1>7. Len(list) <= cap => Len(list \o upto) <= cap
  BY <1>1, <1>3, <1>5, <1>6
<1> QED
  BY <1>1, <1>6, <1>7

LEMMA TakenOfSites ==
    ASSUME NEW list, NEW urls, Listing(list), Listing(urls), NEW cap \in Nat
    PROVE  /\ Listing(Take(list, urls, cap, SamePublisherDomain))
           /\ Len(list) <= cap => Len(Take(list, urls, cap, SamePublisherDomain)) <= cap
           /\ OneOfASite(list) => OneOfASite(Take(list, urls, cap, SamePublisherDomain))
           /\ \A i \in DOMAIN list : Take(list, urls, cap, SamePublisherDomain)[i] = list[i]
<1>1. PICK places : places = {i \in DOMAIN urls : /\ \A k \in DOMAIN list : ~SamePublisherDomain(list[k], urls[i])
                                                  /\ \A j \in 1..(i - 1) : ~SamePublisherDomain(urls[j], urls[i])}
  OBVIOUS
<1>2. PICK n, kept, upto : n = cap - Len(list) /\ kept = Keep(urls, places) /\ upto = UpTo(n, kept)
  OBVIOUS
<1>3. Take(list, urls, cap, SamePublisherDomain) = list \o upto
  BY <1>1, <1>2 DEF Take, Unlike
<1>4. PICK S : urls \in Seq(S)
  BY DEF Listing
<1>5. IsKept(kept, urls, places) /\ kept \in Seq(S)
  BY <1>2, <1>4, KeepIsKept
<1>6. Len(list) \in Nat /\ Len(kept) \in Nat /\ DOMAIN kept = 1..Len(kept) /\ DOMAIN urls = 1..Len(urls) /\ Len(urls) \in Nat
  BY <1>4, <1>5 DEF Listing
<1>7. PICK at \in [1..Len(kept) -> places \cap DOMAIN urls] :
          /\ \A k \in 1..Len(kept) : kept[k] = urls[at[k]]
          /\ \A j, k \in 1..Len(kept) : j < k => at[j] < at[k]
  BY <1>5 DEF IsKept
<1>8. ASSUME NEW j \in 1..Len(kept), NEW k \in 1..Len(kept), j < k
      PROVE  ~SamePublisherDomain(kept[j], kept[k])
  <2>1. at[j] \in 1..Len(urls) /\ at[k] \in places /\ at[k] \in 1..Len(urls) /\ at[j] < at[k]
    BY <1>6, <1>7, <1>8
  <2>2. at[j] \in 1..(at[k] - 1)
    BY <1>6, <2>1
  <2>3. ~SamePublisherDomain(urls[at[j]], urls[at[k]])
    BY <1>1, <2>1, <2>2
  <2> QED
    BY <1>7, <2>3
<1>9. ASSUME NEW j \in 1..Len(kept), NEW k \in 1..Len(kept), SamePublisherDomain(kept[j], kept[k])
      PROVE  j = k
  <2>1. SamePublisherDomain(kept[k], kept[j])
    BY <1>9 DEF SamePublisherDomain
  <2>2. ~(j < k) /\ ~(k < j)
    BY <1>8, <1>9, <2>1
  <2> QED
    BY <1>6, <2>2
<1>10. OneOfASite(kept)
  BY <1>6, <1>9 DEF OneOfASite
<1>11. \A i \in DOMAIN list, k \in 1..Len(kept) : ~SamePublisherDomain(list[i], kept[k])
  <2> TAKE i \in DOMAIN list, k \in 1..Len(kept)
  <2>1. at[k] \in places
    BY <1>7
  <2>2. ~SamePublisherDomain(list[i], urls[at[k]])
    BY <1>1, <2>1
  <2> QED
    BY <1>7, <2>2
<1>12. Listing(kept) /\ n \in Int
  BY <1>2, <1>5, <1>6, AnyListing
<1>13. /\ Listing(upto) /\ (n >= 0 => Len(upto) <= n) /\ OneOfASite(upto)
       /\ DOMAIN upto \subseteq DOMAIN kept /\ \A k \in DOMAIN upto : upto[k] = kept[k]
  BY <1>2, <1>10, <1>12, UpToList
<1>14. Apart(list, upto)
  BY <1>6, <1>11, <1>13 DEF Apart
<1>15. /\ Listing(list \o upto) /\ Len(list \o upto) = Len(list) + Len(upto) /\ Len(upto) \in Nat
       /\ \A i \in DOMAIN list : (list \o upto)[i] = list[i]
       /\ OneOfASite(list) => OneOfASite(list \o upto)
  BY <1>13, <1>14, Joined
<1>16. Len(list) <= cap => Len(list \o upto) <= cap
  BY <1>2, <1>6, <1>13, <1>15
<1> QED
  BY <1>3, <1>15, <1>16
-------------------------------------------------------------------------------
(* Options *)

LEMMA UpToIn ==
    ASSUME NEW S, NEW list \in Seq(S), NEW n \in Int
    PROVE  UpTo(n, list) \in Seq(S)
<1>1. Listing(list) /\ DOMAIN list = 1..Len(list) /\ \A i \in 1..Len(list) : list[i] \in S
  BY AnyListing
<1>2. PICK upto : upto = UpTo(n, list)
  OBVIOUS
<1>3. Listing(upto) /\ DOMAIN upto \subseteq DOMAIN list /\ \A k \in DOMAIN upto : upto[k] = list[k]
  BY <1>1, <1>2, UpToList
<1>4. PICK T : upto \in Seq(T)
  BY <1>3 DEF Listing
<1>5. upto = [k \in 1..Len(upto) |-> upto[k]] /\ Len(upto) \in Nat /\ DOMAIN upto = 1..Len(upto)
  BY <1>4
<1>6. \A k \in 1..Len(upto) : upto[k] \in S
  BY <1>1, <1>3, <1>5
<1> QED
  BY <1>2, <1>5, <1>6, IsASeq

LEMMA Promoted ==
    ASSUME NEW S, NEW options \in Seq(S), NEW u \in S
    PROVE  /\ PromoteLinkOption(options, u) \in Seq(S)
           /\ Len(PromoteLinkOption(options, u)) \in 1..LinkCap
           /\ PromoteLinkOption(options, u)[1] = u
           /\ OneOfASite(options) => OneOfASite(PromoteLinkOption(options, u))
<1>1. PICK places : places = {i \in DOMAIN options : /\ ~SamePublisherUrl(options[i], u)
                                                     /\ ~SamePublisherDomain(options[i], u)}
  OBVIOUS
<1>2. PICK others, all, one : others = Keep(options, places) /\ all = one \o others /\ one = <<u>>
  OBVIOUS
<1>3. PromoteLinkOption(options, u) = UpTo(LinkCap, all)
  BY <1>1, <1>2 DEF PromoteLinkOption, Only
<1>4. LinkCap \in Nat /\ LinkCap >= 1
  BY CitesAssumption
<1>5. others \in Seq(S) /\ one \in Seq(S)
  BY <1>2, KeepIsKept
<1>6. Listing(options) /\ Listing(others) /\ Listing(one)
  BY <1>5, AnyListing
<1>7. /\ \A k \in DOMAIN others : \E i \in places \cap DOMAIN options : others[k] = options[i]
      /\ OneOfASite(options) => OneOfASite(others)
  BY <1>2, <1>6, KeptList
<1>8. DOMAIN one = {1} /\ one[1] = u /\ OneOfASite(one) /\ Len(one) = 1
  BY <1>2, Alone
<1>9. Apart(one, others)
  <2>1. ASSUME NEW k \in DOMAIN others PROVE ~SamePublisherDomain(u, others[k])
    <3>1. PICK i \in places : others[k] = options[i]
      BY <1>7
    <3> QED
      BY <1>1, <3>1 DEF SamePublisherDomain
  <2> QED
    BY <1>8, <2>1 DEF Apart
<1>10. /\ Listing(all) /\ Len(all) = 1 + Len(others) /\ Len(others) \in Nat /\ all[1] = u
       /\ OneOfASite(options) => OneOfASite(all)
  BY <1>2, <1>6, <1>7, <1>8, <1>9, Joined
<1>11. all \in Seq(S)
  BY <1>2, <1>5
<1>12. PICK upto : upto = UpTo(LinkCap, all)
  OBVIOUS
<1>13. LinkCap \in Int /\ LinkCap >= 0 /\ Len(all) >= 1
  BY <1>4, <1>10
<1>14. /\ Len(upto) \in Nat /\ Len(upto) <= LinkCap /\ Len(upto) >= 1
       /\ \A k \in DOMAIN upto : upto[k] = all[k]
       /\ OneOfASite(all) => OneOfASite(upto)
  BY <1>4, <1>10, <1>12, <1>13, UpToList
<1>15. upto \in Seq(S)
  BY <1>11, <1>12, <1>13, UpToIn
<1>16. 1 \in DOMAIN upto
  BY <1>14, <1>15
<1>17. Len(upto) \in 1..LinkCap
  BY <1>4, <1>14
<1> QED
  BY <1>3, <1>10, <1>12, <1>14, <1>15, <1>16, <1>17

LEMMA Ensured ==
    ASSUME NEW S, NEW options \in Seq(S), NEW u \in S, Len(options) <= LinkCap
    PROVE  EnsureOption(options, u) \in Seq(S) /\ Len(EnsureOption(options, u)) <= LinkCap
<1>1. LinkCap \in Nat /\ TweetCap \in Nat /\ TweetCap <= LinkCap
  BY CitesAssumption
<1>2. CASE EnsureOption(options, u) = options
  BY <1>2
<1>3. CASE Len(options) < TweetCap /\ EnsureOption(options, u) = Append(options, u)
  <2>1. Append(options, u) \in Seq(S) /\ Len(Append(options, u)) = Len(options) + 1 /\ Len(options) \in Nat
    BY AppendProperties
  <2> QED
    BY <1>1, <1>3, <2>1
<1>4. CASE EnsureOption(options, u) = PromoteLinkOption(options, u)
  <2>1. Len(PromoteLinkOption(options, u)) \in 1..LinkCap /\ PromoteLinkOption(options, u) \in Seq(S)
    BY Promoted
  <2> QED
    BY <1>1, <1>4, <2>1
<1>5. \/ EnsureOption(options, u) = options
      \/ Len(options) < TweetCap /\ EnsureOption(options, u) = Append(options, u)
      \/ EnsureOption(options, u) = PromoteLinkOption(options, u)
  BY DEF EnsureOption
<1> QED
  BY <1>2, <1>3, <1>4, <1>5

LEMMA PickedOne ==
    ASSUME NEW S, NEW kept \in Seq(S), NEW u \in S, OneOfASite(kept)
    PROVE  Pick(kept, u) \in Seq(S) /\ OneOfASite(Pick(kept, u))
<1>1. CASE Pick(kept, u) = kept
  BY <1>1
<1>2. CASE OnNewSite(kept, u) /\ Pick(kept, u) = Append(kept, u)
  <2>1. PICK one : one = <<u>>
    OBVIOUS
  <2>2. Append(kept, u) = kept \o one /\ Append(kept, u) \in Seq(S)
    BY <2>1
  <2>3. Listing(kept) /\ Listing(one) /\ DOMAIN one = {1} /\ one[1] = u /\ OneOfASite(one)
    BY <2>1, Alone, AnyListing
  <2>4. Apart(kept, one)
    BY <1>2, <2>3 DEF Apart, OnNewSite
  <2>5. OneOfASite(kept \o one)
    BY <2>3, <2>4, Joined
  <2> QED
    BY <1>2, <2>2, <2>5
<1>3. CASE Pick(kept, u) = [i \in DOMAIN kept |-> IF SamePublisherDomain(kept[i], u) /\ IsNewer(u, kept[i])
                                                  THEN u ELSE kept[i]]
  <2>1. PICK now : now = [i \in 1..Len(kept) |-> IF SamePublisherDomain(kept[i], u) /\ IsNewer(u, kept[i])
                                                 THEN u ELSE kept[i]]
    OBVIOUS
  <2>2. Len(kept) \in Nat /\ DOMAIN kept = 1..Len(kept) /\ \A i \in 1..Len(kept) : kept[i] \in S
    OBVIOUS
  <2>3. \A i \in 1..Len(kept) : now[i] \in S
    BY <2>1, <2>2
  <2>4. now = [i \in 1..Len(kept) |-> now[i]]
    BY <2>1
  <2>5. now \in Seq(S)
    BY <2>2, <2>3, <2>4, IsASeq
  <2>6. DOMAIN now = 1..Len(kept)
    BY <2>1
  <2>7. \A i \in 1..Len(kept) : now[i].site = kept[i].site
    BY <2>1 DEF SamePublisherDomain
  <2>8. OneOfASite(now)
    BY <2>2, <2>6, <2>7 DEF OneOfASite, SamePublisherDomain
  <2> QED
    BY <1>3, <2>1, <2>2, <2>5, <2>8
<1> QED
  BY <1>1, <1>2, <1>3 DEF Pick

LEMMA EnsuredAll ==
    ASSUME NEW S, NEW options \in Seq(S), Len(options) <= LinkCap, NEW urls \in Seq(S)
    PROVE  EnsureOptions(options, urls) \in Seq(S) /\ Len(EnsureOptions(options, urls)) <= LinkCap
<1>1. PICK len : len = Len(urls)
  OBVIOUS
<1>2. len \in Nat /\ \A n \in 1..len : urls[n] \in S
  BY <1>1
<1>3. PICK X, first : X = {list \in Seq(S) : Len(list) <= LinkCap} /\ first = options
  OBVIOUS
<1>4. first \in X
  BY <1>3
<1>5. PICK step : step = [p \in X \X (1..len) |-> EnsureOption(p[1], urls[p[2]])]
  OBVIOUS
<1>6. step \in [X \X (1..len) -> X]
  <2>1. ASSUME NEW p \in X \X (1..len) PROVE step[p] \in X
    <3>1. PICK list, u : list = p[1] /\ u = urls[p[2]]
      OBVIOUS
    <3>2. list \in Seq(S) /\ Len(list) <= LinkCap /\ u \in S
      BY <1>2, <1>3, <3>1
    <3>3. EnsureOption(list, u) \in X
      BY <1>3, <3>2, Ensured
    <3> QED
      BY <1>5, <3>1, <3>3
  <2> QED
    BY <1>5, <2>1
<1>7. PICK f \in [0..len -> X] : f[0] = first /\ \A n \in 1..len : f[n] = step[<<f[n - 1], n>>]
  <2>1. len \in Nat
    BY <1>2
  <2>2. PICK f : IsLoop(f, len, X, first, step)
    BY <1>4, <1>6, <2>1, LoopExists
  <2> QED
    BY <2>2 DEF IsLoop
<1> DEFINE Loop(g) == g = [n \in 0..len |-> IF n = 0 THEN options ELSE EnsureOption(g[n - 1], urls[n])]
<1>8. Loop(f)
  <2>1. ASSUME NEW n \in 1..len PROVE f[n] = EnsureOption(f[n - 1], urls[n])
    <3>1. <<f[n - 1], n>> \in X \X (1..len)
      BY <1>2, <1>7
    <3> QED
      BY <1>5, <1>7, <3>1
  <2>2. PICK h : h = [n \in 0..len |-> IF n = 0 THEN options ELSE EnsureOption(f[n - 1], urls[n])]
    OBVIOUS
  <2>3. \A n \in 0..len : f[n] = h[n]
    <3> TAKE n \in 0..len
    <3>1. CASE n = 0
      BY <1>3, <1>7, <2>2, <3>1
    <3>2. CASE n # 0
      <4>1. n \in 1..len
        BY <1>2, <3>2
      <4>2. f[n] = EnsureOption(f[n - 1], urls[n])
        BY <2>1, <4>1
      <4>3. h[n] = EnsureOption(f[n - 1], urls[n])
        BY <2>2, <3>2
      <4> QED
        BY <4>2, <4>3
    <3> QED
      BY <3>1, <3>2
  <2>4. h = [n \in 0..len |-> h[n]]
    BY <2>2
  <2>5. f = [n \in 0..len |-> f[n]]
    BY <1>7
  <2>6. f = h
    BY <2>3, <2>4, <2>5
  <2> QED
    BY <2>2, <2>6
<1>9. PICK g : Loop(g) /\ EnsureOptions(options, urls) = g[len]
  <2>1. EnsureOptions(options, urls) = (CHOOSE g : Loop(g))[len]
    BY <1>1 DEF EnsureOptions
  <2> HIDE DEF Loop
  <2> QED
    BY <1>8, <2>1
<1>10. PICK T : T = {n \in 0..len : g[n] \in X}
  OBVIOUS
<1>11. 0 \in T
  <2>1. 0 \in 0..len
    BY <1>2
  <2>2. g[0] = options
    BY <1>9, <2>1
  <2> QED
    BY <1>3, <1>4, <1>10, <2>1, <2>2
<1>12. ASSUME NEW n \in 1..len, n - 1 \in T PROVE n \in T
  <2>1. n \in 0..len /\ n # 0
    BY <1>2
  <2>2. g[n] = EnsureOption(g[n - 1], urls[n])
    BY <1>9, <2>1
  <2>3. PICK list, u : list = g[n - 1] /\ u = urls[n]
    OBVIOUS
  <2>4. list \in Seq(S) /\ Len(list) <= LinkCap /\ u \in S
    BY <1>2, <1>3, <1>10, <1>12, <2>3
  <2>5. EnsureOption(list, u) \in X
    BY <1>3, <2>4, Ensured
  <2> QED
    BY <1>10, <2>1, <2>2, <2>3, <2>5
<1>13. 0..len \subseteq T
  BY <1>2, <1>11, <1>12, Induct
<1>14. g[len] \in X
  BY <1>2, <1>10, <1>13
<1> QED
  BY <1>3, <1>9, <1>14

\* What one address after another adds to the options.
PickedOf(urls) ==
    LET picked[n \in 0..Len(urls)] == IF n = 0 THEN <<>> ELSE Pick(picked[n - 1], urls[n])
    IN picked[Len(urls)]

LEMMA PickedAll ==
    ASSUME NEW S, NEW urls \in Seq(S)
    PROVE  PickedOf(urls) \in Seq(S) /\ OneOfASite(PickedOf(urls))
<1>1. PICK len : len = Len(urls)
  OBVIOUS
<1>2. len \in Nat /\ \A n \in 1..len : urls[n] \in S
  BY <1>1
<1>3. PICK X, first : X = {list \in Seq(S) : OneOfASite(list)} /\ first = <<>>
  OBVIOUS
<1>4. first \in X
  <2>1. <<>> \in Seq(S)
    OBVIOUS
  <2>2. OneOfASite(<<>>)
    BY Nothing
  <2> QED
    BY <1>3, <2>1, <2>2
<1>5. PICK step : step = [p \in X \X (1..len) |-> Pick(p[1], urls[p[2]])]
  OBVIOUS
<1>6. step \in [X \X (1..len) -> X]
  <2>1. ASSUME NEW p \in X \X (1..len) PROVE step[p] \in X
    <3>1. PICK list, u : list = p[1] /\ u = urls[p[2]]
      OBVIOUS
    <3>2. list \in Seq(S) /\ OneOfASite(list) /\ u \in S
      BY <1>2, <1>3, <3>1
    <3>3. Pick(list, u) \in X
      BY <1>3, <3>2, PickedOne
    <3> QED
      BY <1>5, <3>1, <3>3
  <2> QED
    BY <1>5, <2>1
<1>7. PICK f \in [0..len -> X] : f[0] = first /\ \A n \in 1..len : f[n] = step[<<f[n - 1], n>>]
  <2>1. len \in Nat
    BY <1>2
  <2>2. PICK f : IsLoop(f, len, X, first, step)
    BY <1>4, <1>6, <2>1, LoopExists
  <2> QED
    BY <2>2 DEF IsLoop
<1> DEFINE Loop(g) == g = [n \in 0..len |-> IF n = 0 THEN <<>> ELSE Pick(g[n - 1], urls[n])]
<1>8. Loop(f)
  <2>1. ASSUME NEW n \in 1..len PROVE f[n] = Pick(f[n - 1], urls[n])
    <3>1. <<f[n - 1], n>> \in X \X (1..len)
      BY <1>2, <1>7
    <3> QED
      BY <1>5, <1>7, <3>1
  <2>2. PICK h : h = [n \in 0..len |-> IF n = 0 THEN <<>> ELSE Pick(f[n - 1], urls[n])]
    OBVIOUS
  <2>3. \A n \in 0..len : f[n] = h[n]
    <3> TAKE n \in 0..len
    <3>1. CASE n = 0
      BY <1>3, <1>7, <2>2, <3>1
    <3>2. CASE n # 0
      <4>1. n \in 1..len
        BY <1>2, <3>2
      <4>2. f[n] = Pick(f[n - 1], urls[n])
        BY <2>1, <4>1
      <4>3. h[n] = Pick(f[n - 1], urls[n])
        BY <2>2, <3>2
      <4> QED
        BY <4>2, <4>3
    <3> QED
      BY <3>1, <3>2
  <2>4. h = [n \in 0..len |-> h[n]]
    BY <2>2
  <2>5. f = [n \in 0..len |-> f[n]]
    BY <1>7
  <2>6. f = h
    BY <2>3, <2>4, <2>5
  <2> QED
    BY <2>2, <2>6
<1>9. PICK g : Loop(g) /\ PickedOf(urls) = g[len]
  <2>1. PickedOf(urls) = (CHOOSE g : Loop(g))[len]
    BY <1>1 DEF PickedOf
  <2> HIDE DEF Loop
  <2> QED
    BY <1>8, <2>1
<1>10. PICK T : T = {n \in 0..len : g[n] \in X}
  OBVIOUS
<1>11. 0 \in T
  <2>1. 0 \in 0..len
    BY <1>2
  <2>2. g[0] = <<>>
    BY <1>9, <2>1
  <2> QED
    BY <1>3, <1>4, <1>10, <2>1, <2>2
<1>12. ASSUME NEW n \in 1..len, n - 1 \in T PROVE n \in T
  <2>1. n \in 0..len /\ n # 0
    BY <1>2
  <2>2. g[n] = Pick(g[n - 1], urls[n])
    BY <1>9, <2>1
  <2>3. PICK list, u : list = g[n - 1] /\ u = urls[n]
    OBVIOUS
  <2>4. list \in Seq(S) /\ OneOfASite(list) /\ u \in S
    BY <1>2, <1>3, <1>10, <1>12, <2>3
  <2>5. Pick(list, u) \in X
    BY <1>3, <2>4, PickedOne
  <2> QED
    BY <1>10, <2>1, <2>2, <2>3, <2>5
<1>13. 0..len \subseteq T
  BY <1>2, <1>11, <1>12, Induct
<1>14. g[len] \in X
  BY <1>2, <1>10, <1>13
<1> QED
  BY <1>3, <1>9, <1>14
LEMMA LinkOptionsPicked ==
    ASSUME NEW pack, NEW inText, Listing(pack), Listing(inText)
    PROVE  Listing(PickLinkOptions(pack, inText)) /\ OneOfASite(PickLinkOptions(pack, inText))
<1>1. PICK listed, urls : /\ listed = Only(pack, LAMBDA u : ~Junk(u) /\ HostLooksLikeDns(u))
                          /\ urls = Only(inText, LAMBDA u : ~Junk(u) /\ ~IsNew(listed, u)) \o listed
  OBVIOUS
<1>2. PICK fits : fits = {i \in DOMAIN pack : ~Junk(pack[i]) /\ HostLooksLikeDns(pack[i])}
  OBVIOUS
<1>3. listed = Keep(pack, fits)
  BY <1>1, <1>2 DEF Only
<1>4. Listing(listed)
  BY <1>3, KeptList
<1>5. PICK cited : cited = {i \in DOMAIN inText : ~Junk(inText[i]) /\ ~IsNew(listed, inText[i])}
  OBVIOUS
<1>6. urls = Keep(inText, cited) \o listed
  BY <1>1, <1>5 DEF Only
<1>7. Listing(Keep(inText, cited))
  BY KeptList
<1>8. Listing(urls)
  BY <1>4, <1>6, <1>7, Joined
<1>9. PickLinkOptions(pack, inText) = PickedOf(urls)
  BY <1>1 DEF PickLinkOptions, PickedOf
<1>10. PICK S : urls \in Seq(S)
  BY <1>8 DEF Listing
<1>11. PickedOf(urls) \in Seq(S) /\ OneOfASite(PickedOf(urls))
  BY <1>10, PickedAll
<1>12. Listing(PickedOf(urls))
  BY <1>11, AnyListing
<1> QED
  BY <1>9, <1>11, <1>12

LEMMA CiteOptionsPicked ==
    ASSUME NEW pack, NEW inText, Listing(pack), Listing(inText)
    PROVE  /\ Listing(PickTweetCiteOptions(pack, inText))
           /\ Len(PickTweetCiteOptions(pack, inText)) <= LinkCap
<1>1. PICK listed, urls :
          /\ listed = Only(pack, AllowedTweetCite)
          /\ urls = Only(inText, LAMBDA u : ~Junk(u) /\ AllowedTweetCite(u) /\ ~IsNew(listed, u)) \o listed
  OBVIOUS
<1>2. PICK fits : fits = {i \in DOMAIN pack : AllowedTweetCite(pack[i])}
  OBVIOUS
<1>3. listed = Keep(pack, fits)
  BY <1>1, <1>2 DEF Only
<1>4. Listing(listed)
  BY <1>3, KeptList
<1>5. PICK cited : cited = {i \in DOMAIN inText : /\ ~Junk(inText[i]) /\ AllowedTweetCite(inText[i])
                                                  /\ ~IsNew(listed, inText[i])}
  OBVIOUS
<1>6. urls = Keep(inText, cited) \o listed
  BY <1>1, <1>5 DEF Only
<1>7. Listing(Keep(inText, cited))
  BY KeptList
<1>8. Listing(urls)
  BY <1>4, <1>6, <1>7, Joined
<1>9. PickTweetCiteOptions(pack, inText) = Take(<<>>, urls, LinkCap, SamePublisherDomain)
  BY <1>1 DEF PickTweetCiteOptions
<1>10. PICK none : none = <<>>
  OBVIOUS
<1>11. Listing(none) /\ Len(none) = 0 /\ LinkCap \in Nat
  BY <1>10, Nothing, CitesAssumption
<1>12. Len(none) <= LinkCap
  BY <1>11
<1>13. /\ Listing(Take(none, urls, LinkCap, SamePublisherDomain))
       /\ Len(Take(none, urls, LinkCap, SamePublisherDomain)) <= LinkCap
  BY <1>8, <1>11, <1>12, TakenOfSites
<1> QED
  BY <1>9, <1>10, <1>13

\* What answers, and the refill, keep one address of a site and the cap.
LEMMA Reachable ==
    ASSUME NEW options, NEW pool, NEW live, Listing(options), Listing(pool)
    PROVE  /\ Listing(ReachableOptions(options, pool, live))
           /\ Len(ReachableOptions(options, pool, live)) <= LinkCap
           /\ OneOfASite(options) => OneOfASite(ReachableOptions(options, pool, live))
<1>1. PICK answering : answering = {i \in DOMAIN options : /\ AllowedTweetCite(options[i]) /\ ~XNonStatus(options[i])
                                                           /\ Answers(options[i], live)}
  OBVIOUS
<1>2. PICK kept, first : kept = Keep(options, answering) /\ first = UpTo(LinkCap, kept)
  OBVIOUS
<1>3. FilterReachable(options, live) = kept
  BY <1>1, <1>2 DEF FilterReachable, Only
<1>4. Listing(kept) /\ (OneOfASite(options) => OneOfASite(kept))
  BY <1>2, KeptList
<1>5. LinkCap \in Nat /\ LinkCap \in Int /\ LinkCap >= 0
  BY CitesAssumption
<1>6. Listing(first) /\ Len(first) <= LinkCap /\ (OneOfASite(kept) => OneOfASite(first))
  BY <1>2, <1>4, <1>5, UpToList
<1>7. PICK places : places = {i \in DOMAIN pool : /\ ~Junk(pool[i]) /\ AllowedTweetCite(pool[i])
                                                  /\ Answers(pool[i], live)}
  OBVIOUS
<1>8. PICK spare : spare = Keep(pool, places)
  OBVIOUS
<1>9. RefillFromPool(first, pool, live) = Take(first, spare, LinkCap, SamePublisherDomain)
  BY <1>7, <1>8 DEF RefillFromPool, Only
<1>10. Listing(spare)
  BY <1>8, KeptList
<1>11. /\ Listing(Take(first, spare, LinkCap, SamePublisherDomain))
       /\ Len(Take(first, spare, LinkCap, SamePublisherDomain)) <= LinkCap
       /\ OneOfASite(first) => OneOfASite(Take(first, spare, LinkCap, SamePublisherDomain))
  BY <1>5, <1>6, <1>10, TakenOfSites
<1>12. ReachableOptions(options, pool, live) = Take(first, spare, LinkCap, SamePublisherDomain)
  BY <1>2, <1>3, <1>9 DEF ReachableOptions
<1> QED
  BY <1>4, <1>6, <1>11, <1>12

\* A list that starts with an address of a site keeps it first.
LEMMA AsListing ==
    ASSUME NEW options, Listing(options), NEW u
    PROVE  /\ Listing(PromoteLinkOption(options, u))
           /\ Len(PromoteLinkOption(options, u)) <= LinkCap
           /\ PromoteLinkOption(options, u) # <<>>
           /\ PromoteLinkOption(options, u)[1] = u
           /\ OneOfASite(options) => OneOfASite(PromoteLinkOption(options, u))
           /\ Len(options) <= LinkCap => /\ Listing(EnsureOption(options, u))
                                         /\ Len(EnsureOption(options, u)) <= LinkCap
<1>1. PICK one : one = <<u>>
  OBVIOUS
<1>2. Listing(one) /\ one[1] = u /\ DOMAIN one = {1}
  BY <1>1, Alone
<1>3. PICK S : options \in Seq(S) /\ one \in Seq(S)
  BY <1>2, InOneSet
<1>4. u \in S
  BY <1>2, <1>3
<1>5. PICK now : now = PromoteLinkOption(options, u)
  OBVIOUS
<1>6. /\ now \in Seq(S) /\ Len(now) \in 1..LinkCap /\ now[1] = u
      /\ OneOfASite(options) => OneOfASite(now)
  BY ZenonT(40), <1>3, <1>4, <1>5, Promoted
<1>7. now # <<>> /\ Len(now) <= LinkCap /\ Listing(now)
  <2>1. Len(now) # 0 /\ Len(now) <= LinkCap
    BY <1>6, CitesAssumption
  <2>2. Len(<<>>) = 0
    BY Nothing
  <2> QED
    BY <1>6, <2>1, <2>2, AnyListing
<1>8. Len(options) <= LinkCap => EnsureOption(options, u) \in Seq(S) /\ Len(EnsureOption(options, u)) <= LinkCap
  BY <1>3, <1>4, Ensured
<1>9. EnsureOption(options, u) \in Seq(S) => Listing(EnsureOption(options, u))
  BY AnyListing
<1> QED
  BY <1>5, <1>6, <1>7, <1>8, <1>9

-------------------------------------------------------------------------------
(* A rework keeps the links of its row in order *)

RowFine(row) ==
    /\ DOMAIN row = ReworkFields
    /\ Listing(row.cites) /\ Listing(row.options) /\ Listing(row.pool) /\ Listing(row.asked)
    /\ Listed(row)

LEMMA ListsAreListings ==
    ASSUME NEW s PROVE IsList(s) <=> Listing(s)
BY DEF IsList, Listing, ToSet

\* The row with what a rework wrote.
LEMMA LinksWritten ==
    ASSUME NEW row, DOMAIN row = ReworkFields, NEW body, NEW note, NEW options
    PROVE  /\ DOMAIN WithLinks(row, body, note, options) = ReworkFields
           /\ WithLinks(row, body, note, options).kind = row.kind
           /\ WithLinks(row, body, note, options).pool = row.pool
           /\ WithLinks(row, body, note, options).asked = row.asked
           /\ WithLinks(row, body, note, options).options = options
           /\ WithLinks(row, body, note, options).cites = EditCites(SetSingleInPostUrl(FirstOption(options)), note)
<1>1. PICK words, cites : /\ words = ApplyKeywordEdits(body.words, note)
                          /\ cites = EditCites(SetSingleInPostUrl(FirstOption(options)), note)
  OBVIOUS
<1>2. WithLinks(row, body, note, options) = [row EXCEPT !.words = words, !.options = options, !.cites = cites]
  BY <1>1 DEF WithLinks
<1> QED
  BY <1>1, <1>2 DEF ReworkFields

LEMMA EditedCites ==
    ASSUME NEW cites, Listing(cites), NEW note
    PROVE  /\ Listing(EditCites(cites, note))
           /\ DOMAIN EditCites(cites, note) = DOMAIN cites
           /\ Len(EditCites(cites, note)) = Len(cites)
           /\ \A i \in DOMAIN cites : EditCites(cites, note)[i].site = cites[i].site
<1>1. PICK S : cites \in Seq(S)
  BY DEF Listing
<1>2. PICK now : now = EditCites(cites, note)
  OBVIOUS
<1>3. DOMAIN cites = 1..Len(cites) /\ Len(cites) \in Nat
  BY <1>1
<1>4. now = [i \in 1..Len(cites) |-> EditsOfUrl(cites[i], note)]
  BY <1>2, <1>3 DEF EditCites
<1>5. PICK T : T = {now[i] : i \in 1..Len(cites)}
  OBVIOUS
<1>6. now \in Seq(T) /\ Len(now) = Len(cites)
  <2>1. \A i \in 1..Len(cites) : now[i] \in T
    BY <1>5
  <2>2. now = [i \in 1..Len(cites) |-> now[i]]
    BY <1>4
  <2>3. now \in Seq(T)
    BY <1>3, <2>1, <2>2, IsASeq
  <2>4. DOMAIN now = 1..Len(cites) /\ DOMAIN now = 1..Len(now) /\ Len(now) \in Nat
    BY <1>4, <2>3
  <2>5. Len(now) = Len(cites)
    BY <1>3, <2>4
  <2> QED
    BY <2>3, <2>5
<1>7. \A i \in 1..Len(cites) : now[i].site = cites[i].site
  <2> TAKE i \in 1..Len(cites)
  <2>1. PICK u : u = cites[i]
    OBVIOUS
  <2>2. now[i] = EditsOfUrl(u, note)
    BY <1>4, <2>1
  <2>3. EditsOfUrl(u, note).site = u.site
    BY DEF EditsOfUrl, OtherPage
  <2> QED
    BY <2>1, <2>2, <2>3
<1>8. Listing(now)
  BY <1>6, AnyListing
<1> QED
  BY <1>2, <1>3, <1>4, <1>6, <1>7, <1>8

\* A draft with new links lists them well.
LEMMA DraftLinks ==
    ASSUME NEW row, RowFine(row), row.kind = "draft", NEW body, NEW note, NEW options,
           Listing(options), Len(options) <= LinkCap, OneOfASite(options)
    PROVE  RowFine(WithLinks(row, body, note, options))
<1>1. PICK new, first, cites : /\ new = WithLinks(row, body, note, options)
                               /\ first = SetSingleInPostUrl(FirstOption(options))
                               /\ cites = EditCites(first, note)
  OBVIOUS
<1>2. /\ DOMAIN new = ReworkFields /\ new.kind = "draft" /\ new.pool = row.pool /\ new.asked = row.asked
      /\ new.options = options /\ new.cites = cites
  BY <1>1, LinksWritten DEF RowFine
<1>3. /\ Listing(first) /\ Len(first) \in Nat /\ Len(first) <= 1
      /\ first # <<>> => options # <<>> /\ first[1] = options[1] /\ 1 \in DOMAIN first
  <2>1. CASE FirstOption(options) = NoUrl
    <3>1. first = <<>>
      BY <1>1, <2>1 DEF SetSingleInPostUrl
    <3> QED
      BY <3>1, Nothing
  <2>2. CASE FirstOption(options) # NoUrl
    <3>1. options # <<>> /\ FirstOption(options) = options[1]
      BY <2>2 DEF FirstOption
    <3>2. first = <<options[1]>>
      BY <1>1, <2>2, <3>1 DEF SetSingleInPostUrl
    <3> QED
      BY <3>1, <3>2, Alone
  <2> QED
    BY <2>1, <2>2
<1>4. /\ Listing(cites) /\ Len(cites) = Len(first) /\ DOMAIN cites = DOMAIN first
      /\ \A i \in DOMAIN first : cites[i].site = first[i].site
  BY <1>1, <1>3, EditedCites
<1>5. cites # <<>> => options # <<>> /\ SamePublisherDomain(cites[1], options[1])
  <2>1. ASSUME cites # <<>> PROVE first # <<>>
    <3>1. ASSUME first = <<>> PROVE FALSE
      <4>1. Len(cites) = 0
        BY <1>4, <3>1, Nothing
      <4>2. PICK S : cites \in Seq(S)
        BY <1>4 DEF Listing
      <4>3. cites = <<>>
        BY <4>1, <4>2
      <4> QED
        BY <2>1, <4>3
    <3> QED
      BY <3>1
  <2> QED
    BY <1>3, <1>4, <2>1 DEF SamePublisherDomain
<1>6. Listed(new)
  <2>1. Len(new.options) <= LinkCap
    BY <1>2
  <2>2. \A i, j \in DOMAIN new.options : SamePublisherDomain(new.options[i], new.options[j]) => i = j
    BY <1>2 DEF OneOfASite
  <2>3. Len(new.cites) <= 1
    BY <1>2, <1>3, <1>4
  <2>4. new.cites # <<>> => new.options # <<>> /\ SamePublisherDomain(new.cites[1], new.options[1])
    BY <1>2, <1>5
  <2> QED
    BY <1>2, <2>1, <2>2, <2>3, <2>4 DEF Listed
<1> QED
  BY <1>1, <1>2, <1>4, <1>6 DEF RowFine

LEMMA AttachedLinks ==
    ASSUME NEW row, RowFine(row), row.kind = "draft", NEW body, Listing(body.cites)
    PROVE  /\ Listing(AttachLinks(row, body))
           /\ Len(AttachLinks(row, body)) <= LinkCap
           /\ OneOfASite(AttachLinks(row, body))
<1>1. PICK stored : stored = IF row.options = <<>> THEN PickLinkOptions(row.pool, body.cites) ELSE row.options
  OBVIOUS
<1>2. PICK primary : primary = IF InPostUrl(row.cites) = NoUrl THEN FirstOption(stored) ELSE InPostUrl(row.cites)
  OBVIOUS
<1>3. PICK options : options = IF primary = NoUrl THEN stored ELSE PromoteLinkOption(stored, primary)
  OBVIOUS
<1>4. AttachLinks(row, body) = ReachableOptions(options, row.pool, rwLive)
  BY <1>1, <1>2, <1>3 DEF AttachLinks
<1>5. Listing(stored) /\ OneOfASite(stored)
  <2>1. CASE row.options = <<>>
    <3>1. Listing(row.pool)
      BY DEF RowFine
    <3>2. Listing(PickLinkOptions(row.pool, body.cites)) /\ OneOfASite(PickLinkOptions(row.pool, body.cites))
      BY <3>1, LinkOptionsPicked
    <3> QED
      BY <1>1, <2>1, <3>2
  <2>2. CASE row.options # <<>>
    BY <1>1, <2>2 DEF RowFine, Listed, OneOfASite
  <2> QED
    BY <2>1, <2>2
<1>6. Listing(options) /\ OneOfASite(options)
  <2>1. Listing(PromoteLinkOption(stored, primary)) /\ OneOfASite(PromoteLinkOption(stored, primary))
    BY <1>5, AsListing
  <2> QED
    BY <1>3, <1>5, <2>1
<1>7. PICK live, pool : live = rwLive /\ pool = row.pool
  OBVIOUS
<1>8. Listing(pool)
  BY <1>7 DEF RowFine
<1>9. /\ Listing(ReachableOptions(options, pool, live))
      /\ Len(ReachableOptions(options, pool, live)) <= LinkCap
      /\ OneOfASite(ReachableOptions(options, pool, live))
  BY <1>6, <1>8, Reachable
<1> QED
  BY <1>4, <1>7, <1>9

LEMMA DraftFine ==
    ASSUME NEW row, RowFine(row), row.kind = "draft", NEW body, Listing(body.cites), NEW note
    PROVE  RowFine(DraftOf(row, body, note))
<1>1. PICK options : options = AttachLinks(row, body)
  OBVIOUS
<1>2. Listing(options) /\ Len(options) <= LinkCap /\ OneOfASite(options)
  BY <1>1, AttachedLinks
<1>3. RowFine(WithLinks(row, body, note, options))
  BY <1>2, DraftLinks
<1> QED
  BY <1>1, <1>3 DEF DraftOf
LEMMA EnsuredList ==
    ASSUME NEW options, NEW urls, Listing(options), Listing(urls), Len(options) <= LinkCap
    PROVE  Listing(EnsureOptions(options, urls)) /\ Len(EnsureOptions(options, urls)) <= LinkCap
<1>1. PICK S : options \in Seq(S) /\ urls \in Seq(S)
  BY InOneSet
<1>2. EnsureOptions(options, urls) \in Seq(S) /\ Len(EnsureOptions(options, urls)) <= LinkCap
  BY <1>1, EnsuredAll
<1>3. Listing(EnsureOptions(options, urls))
  BY <1>2, AnyListing
<1> QED
  BY <1>2, <1>3

\* The addresses asked for, each once.
Asked(urls) == Take(<<>>, urls, Len(urls), SamePublisherUrl)

LEMMA AskedListed ==
    ASSUME NEW urls, Listing(urls)
    PROVE  Listing(Asked(urls))
<1>1. PICK none : none = <<>>
  OBVIOUS
<1>2. Listing(none)
  BY <1>1, Nothing
<1>3. PICK places : places = Unlike(none, urls, SamePublisherUrl)
  OBVIOUS
<1>4. Len(urls) \in Nat
  BY DEF Listing
<1>5. Listing(none \o UpTo(Len(urls) - Len(none), Keep(urls, places)))
  BY <1>2, <1>4, Taken
<1>6. Asked(urls) = none \o UpTo(Len(urls) - Len(none), Keep(urls, places))
  BY <1>1, <1>3 DEF Asked, Take
<1> QED
  BY <1>5, <1>6

LEMMA LinesListed ==
    ASSUME NEW required, Listing(required), NEW primary
    PROVE  Listing(OperatorLines(required, primary))
<1>1. PICK bare : bare <=> primary = NoUrl \/ ~AllowedTweetCite(primary)
  OBVIOUS
<1>2. PICK allowed, others, last :
          /\ allowed = Only(required, AllowedTweetCite)
          /\ others = IF bare THEN allowed ELSE Only(allowed, LAMBDA u : ~SamePublisherUrl(u, primary))
          /\ last = IF bare THEN <<>> ELSE <<primary>>
  OBVIOUS
<1>3. OperatorLines(required, primary) = Asked(others) \o last
  BY <1>1, <1>2 DEF OperatorLines, Asked
<1>4. Listing(allowed)
  <2>1. PICK places : places = {i \in DOMAIN required : AllowedTweetCite(required[i])}
    OBVIOUS
  <2>2. allowed = Keep(required, places)
    BY <1>2, <2>1 DEF Only
  <2> QED
    BY <2>2, KeptList
<1>5. Listing(others)
  <2>1. PICK places : places = {i \in DOMAIN allowed : ~SamePublisherUrl(allowed[i], primary)}
    OBVIOUS
  <2>2. others = IF bare THEN allowed ELSE Keep(allowed, places)
    BY <1>2, <2>1 DEF Only
  <2>3. Listing(Keep(allowed, places))
    BY <1>4, KeptList
  <2> QED
    BY <1>4, <2>2, <2>3
<1>6. Listing(last)
  BY <1>2, Alone, Nothing
<1>7. Listing(Asked(others))
  BY <1>5, AskedListed
<1>8. Listing(Asked(others) \o last)
  BY <1>6, <1>7, Joined
<1> QED
  BY <1>3, <1>8

\* The row of a tweet with its new links.
TweetWith(row, words, options, cites) == [row EXCEPT !.words = words, !.options = options, !.cites = cites]

LEMMA TweetLinks ==
    ASSUME NEW row, RowFine(row), row.kind # "draft", NEW words, NEW options, NEW cites,
           Listing(options), Listing(cites), Len(options) <= LinkCap
    PROVE  RowFine(TweetWith(row, words, options, cites)) /\ TweetWith(row, words, options, cites).kind = row.kind
<1>1. PICK new : new = TweetWith(row, words, options, cites)
  OBVIOUS
<1>2. /\ DOMAIN new = ReworkFields /\ new.kind = row.kind /\ new.pool = row.pool /\ new.asked = row.asked
      /\ new.options = options /\ new.cites = cites
  BY <1>1 DEF TweetWith, RowFine, ReworkFields
<1>3. Listed(new)
  BY <1>2 DEF Listed
<1> QED
  BY <1>1, <1>2, <1>3 DEF RowFine

LEMMA TweetFine ==
    ASSUME NEW row, RowFine(row), row.kind # "draft", NEW body, Listing(body.cites), NEW note,
           NEW links, Listing(links)
    PROVE  RowFine(TweetOf(row, body, note, links)) /\ TweetOf(row, body, note, links).kind = row.kind
<1>1. PICK stored : stored = IF row.options = <<>> THEN PickTweetCiteOptions(row.pool, body.cites) ELSE row.options
  OBVIOUS
<1>2. PICK current, asked : current = CurrentOfTweet(row) /\ asked = Asked(row.asked \o links)
  OBVIOUS
<1>3. PICK required : required = IF current # NoUrl /\ IsNew(asked, current) THEN <<current>> \o asked ELSE asked
  OBVIOUS
<1>4. PICK withLink : withLink = IF current = NoUrl THEN stored ELSE EnsureOption(stored, current)
  OBVIOUS
<1>5. PICK options : options = EnsureOptions(withLink, required)
  OBVIOUS
<1>6. PICK alone : alone <=> row.farce /\ current = NoUrl
  OBVIOUS
<1>7. PICK inTweet : inTweet = IF current # NoUrl THEN current
                               ELSE IF body.cites # <<>> THEN InPostUrl(EditCites(body.cites, note))
                               ELSE FirstOf(options, AllowedTweetCite)
  OBVIOUS
<1>8. PICK words, listed, lines : /\ words = ApplyKeywordEdits(body.words, note)
                                  /\ listed = IF alone THEN <<>> ELSE options
                                  /\ lines = IF alone THEN <<>> ELSE OperatorLines(required, inTweet)
  OBVIOUS
<1>9. TweetOf(row, body, note, links) = TweetWith(row, words, listed, lines)
  BY <1>1, <1>2, <1>3, <1>4, <1>5, <1>6, <1>7, <1>8 DEF TweetOf, TweetWith, Asked
<1>10. Listing(stored) /\ Len(stored) <= LinkCap
  <2>1. CASE row.options = <<>>
    <3>1. Listing(row.pool)
      BY DEF RowFine
    <3>2. /\ Listing(PickTweetCiteOptions(row.pool, body.cites))
          /\ Len(PickTweetCiteOptions(row.pool, body.cites)) <= LinkCap
      BY <3>1, CiteOptionsPicked
    <3> QED
      BY <1>1, <2>1, <3>2
  <2>2. CASE row.options # <<>>
    BY <1>1, <2>2 DEF RowFine, Listed
  <2> QED
    BY <2>1, <2>2
<1>11. Listing(required)
  <2>1. Listing(row.asked \o links)
    BY Joined DEF RowFine
  <2>2. Listing(asked)
    BY <1>2, <2>1, AskedListed
  <2>3. Listing(<<current>>)
    BY Alone
  <2>4. Listing(<<current>> \o asked)
    BY <2>2, <2>3, Joined
  <2> QED
    BY <1>3, <2>2, <2>4
<1>12. Listing(withLink) /\ Len(withLink) <= LinkCap
  <2>1. Listing(EnsureOption(stored, current)) /\ Len(EnsureOption(stored, current)) <= LinkCap
    BY <1>10, AsListing
  <2> QED
    BY <1>4, <1>10, <2>1
<1>13. Listing(options) /\ Len(options) <= LinkCap
  BY <1>5, <1>11, <1>12, EnsuredList
<1>14. Listing(listed) /\ Len(listed) <= LinkCap
  <2>1. Listing(<<>>) /\ Len(<<>>) = 0 /\ LinkCap \in Nat
    BY Nothing, CitesAssumption
  <2>2. Len(<<>>) <= LinkCap
    BY <2>1
  <2> QED
    BY <1>8, <1>13, <2>1, <2>2
<1>15. Listing(lines)
  <2>1. Listing(OperatorLines(required, inTweet))
    BY <1>11, LinesListed
  <2> QED
    BY <1>8, <2>1, Nothing
<1>16. RowFine(TweetWith(row, words, listed, lines)) /\ TweetWith(row, words, listed, lines).kind = row.kind
  BY <1>14, <1>15, TweetLinks
<1> QED
  BY <1>9, <1>16

LEMMA KindKept ==
    ASSUME NEW row, RowFine(row), NEW body, NEW note
    PROVE  DraftOf(row, body, note).kind = row.kind
BY LinksWritten DEF DraftOf, RowFine

\* Who wrote it says nothing of the links.
LEMMA Signed ==
    ASSUME NEW row, RowFine(row), NEW writer, NEW author, NEW asked, Listing(asked)
    PROVE  /\ RowFine([row EXCEPT !.author = author])
           /\ RowFine([row EXCEPT !.writer = writer, !.author = author])
           /\ RowFine([row EXCEPT !.asked = asked, !.writer = writer, !.author = author])
<1>1. PICK a, b, c : /\ a = [row EXCEPT !.author = author]
                     /\ b = [row EXCEPT !.writer = writer, !.author = author]
                     /\ c = [row EXCEPT !.asked = asked, !.writer = writer, !.author = author]
  OBVIOUS
<1>2. /\ DOMAIN a = ReworkFields /\ a.kind = row.kind /\ a.pool = row.pool /\ a.asked = row.asked
      /\ a.options = row.options /\ a.cites = row.cites
  BY <1>1 DEF RowFine, ReworkFields
<1>3. /\ DOMAIN b = ReworkFields /\ b.kind = row.kind /\ b.pool = row.pool /\ b.asked = row.asked
      /\ b.options = row.options /\ b.cites = row.cites
  BY <1>1 DEF RowFine, ReworkFields
<1>4. /\ DOMAIN c = ReworkFields /\ c.kind = row.kind /\ c.pool = row.pool /\ c.asked = asked
      /\ c.options = row.options /\ c.cites = row.cites
  BY <1>1 DEF RowFine, ReworkFields
<1>5. RowFine(a)
  BY <1>2 DEF RowFine, Listed
<1>6. RowFine(b)
  BY <1>3 DEF RowFine, Listed
<1>7. RowFine(c)
  BY <1>4 DEF RowFine, Listed
<1> QED
  BY <1>1, <1>5, <1>6, <1>7

LEMMA HandFine ==
    ASSUME NEW row, RowFine(row), NEW body, Listing(body.cites), NEW note, NEW author
    PROVE  RowFine(ByHand(row, body, note, author))
<1>1. CASE row.kind = "draft"
  <2>1. PICK new : new = DraftOf(row, body, note)
    OBVIOUS
  <2>2. RowFine(new)
    BY <1>1, <2>1, DraftFine
  <2>3. RowFine([new EXCEPT !.author = author])
    BY <2>2, Signed DEF RowFine
  <2> QED
    BY <1>1, <2>1, <2>3 DEF ByHand, DraftByHand
<1>2. CASE row.kind # "draft"
  <2>1. PICK new, links : links = body.cites /\ new = TweetOf(row, body, note, links)
    OBVIOUS
  <2>2. RowFine(new)
    BY <1>2, <2>1, TweetFine
  <2>3. RowFine([new EXCEPT !.author = author])
    BY <2>2, Signed DEF RowFine
  <2> QED
    BY <1>2, <2>1, <2>3 DEF ByHand, TweetByHand
<1> QED
  BY <1>1, <1>2

LEMMA ModelFine ==
    ASSUME NEW row, RowFine(row), NEW answer, DOMAIN answer = {"words", "cites"}, Listing(answer.cites),
           NEW note, Listing(note.links)
    PROVE  RowFine(ByModel(row, answer, note))
<1>1. CASE row.kind = "draft"
  <2>1. PICK words : words = Without(answer.words, note.quoted)
    OBVIOUS
  <2>2. PICK kept : kept = [answer EXCEPT !.words = words]
    OBVIOUS
  <2>3. kept.cites = answer.cites
    BY <2>2
  <2>4. PICK new : new = DraftOf(row, kept, note)
    OBVIOUS
  <2>5. RowFine(new)
    BY <1>1, <2>3, <2>4, DraftFine
  <2>6. RowFine([new EXCEPT !.writer = "again", !.author = "again"])
    BY <2>5, Signed DEF RowFine
  <2>7. DraftByModel(row, answer, note) = [new EXCEPT !.writer = "again", !.author = "again"]
    BY <2>1, <2>2, <2>4 DEF DraftByModel
  <2> QED
    BY <1>1, <2>6, <2>7 DEF ByModel
<1>2. CASE row.kind # "draft"
  <2>1. PICK new, links : links = note.links /\ new = TweetOf(row, answer, note, links)
    OBVIOUS
  <2>2. RowFine(new)
    BY <1>2, <2>1, TweetFine
  <2>3. PICK asked : asked = Asked(new.asked \o links)
    OBVIOUS
  <2>4. Listing(new.asked \o links)
    BY <2>1, <2>2, Joined DEF RowFine
  <2>5. Listing(asked)
    BY <2>3, <2>4, AskedListed
  <2>6. RowFine([new EXCEPT !.asked = asked, !.writer = "again", !.author = "again"])
    BY <2>2, <2>5, Signed
  <2>7. TweetByModel(row, answer, note) = [new EXCEPT !.asked = asked, !.writer = "again", !.author = "again"]
    BY <2>1, <2>3 DEF TweetByModel, Asked
  <2> QED
    BY <1>2, <2>6, <2>7 DEF ByModel
<1> QED
  BY <1>1, <1>2
-------------------------------------------------------------------------------
(* The reworks *)

JobFine(job) ==
    /\ DOMAIN job = DOMAIN NoJob
    /\ job.st # "idle" => RowFine(job.row) /\ DOMAIN job.note = DOMAIN Note /\ Listing(job.note.links)

RowsInv == RowFine(rwRow) /\ JobFine(rwJob) /\ rwLive \subseteq Sites

LEMMA RefusalFine ==
    ASSUME JobFine(rwJob), RowFine(rwRow), NEW why, NEW said, Refuse(why, said)
    PROVE  JobFine(rwJob') /\ RowFine(rwRow')
<1>1. rwJob' = [rwJob EXCEPT !.st = "idle", !.said = said, !.end = why] /\ rwRow' = rwRow
  BY DEF Refuse
<1>2. DOMAIN rwJob' = DOMAIN NoJob /\ rwJob'.st = "idle"
  BY <1>1 DEF JobFine, NoJob
<1> QED
  BY <1>1, <1>2 DEF JobFine

LEMMA SaveFine ==
    ASSUME JobFine(rwJob), NEW row, RowFine(row), NEW said, SaveRework(row, said)
    PROVE  JobFine(rwJob') /\ RowFine(rwRow')
<1>1. rwJob' = [rwJob EXCEPT !.st = "idle", !.said = said, !.end = "saved"] /\ rwRow' = row
  BY DEF SaveRework
<1>2. DOMAIN rwJob' = DOMAIN NoJob /\ rwJob'.st = "idle"
  BY <1>1 DEF JobFine, NoJob
<1> QED
  BY <1>1, <1>2 DEF JobFine

LEMMA AskAgainFine ==
    ASSUME JobFine(rwJob), rwJob.st # "idle", NEW said,
           rwJob' = [rwJob EXCEPT !.st = "again", !.said = said]
    PROVE  JobFine(rwJob')
<1>1. DOMAIN rwJob' = DOMAIN NoJob /\ rwJob'.row = rwJob.row /\ rwJob'.note = rwJob.note
  BY DEF JobFine, NoJob
<1> QED
  BY <1>1 DEF JobFine

LEMMA EditsFine ==
    ASSUME NEW cites, Listing(cites), NEW words, NEW note
    PROVE  Listing(Edited([words |-> words, cites |-> cites], note).cites)
BY EditedCites DEF Edited

LEMMA Started ==
    ASSUME RowsInv, NEW note \in ReworkNotes, StartRework(note)
    PROVE  RowsInv'
<1>1. DOMAIN note = DOMAIN Note /\ Listing(note.links)
  BY ReworkAssumption, ListsAreListings
<1>2. rwRow' = rwRow /\ rwLive' = rwLive
  BY DEF StartRework
<1>3. PICK st : rwJob' = [st |-> st, row |-> rwRow, note |-> note, said |-> <<>>, end |-> "none"]
  BY DEF StartRework
<1>4. DOMAIN rwJob' = DOMAIN NoJob /\ rwJob'.row = rwRow /\ rwJob'.note = note
  BY <1>3 DEF NoJob
<1>5. JobFine(rwJob')
  BY <1>1, <1>4 DEF JobFine, RowsInv
<1> QED
  BY <1>2, <1>5 DEF RowsInv

LEMMA Pasted ==
    ASSUME RowsInv, PasteText
    PROVE  RowsInv'
<1>1. PICK row, body : row = rwJob.row /\ body = [words |-> rwJob.note.paste, cites |-> rwJob.note.links]
  OBVIOUS
<1>2. rwLive' = rwLive /\ (Refuse("empty", <<>>) \/ SaveRework(ByHand(row, body, Note, "operator"), <<>>))
  BY <1>1 DEF PasteText
<1>3. RowFine(row) /\ Listing(body.cites)
  BY <1>1 DEF RowsInv, JobFine, PasteText
<1>4. PICK done : done = ByHand(row, body, Note, "operator")
  OBVIOUS
<1>5. RowFine(done)
  BY <1>3, <1>4, HandFine
<1>6. CASE Refuse("empty", <<>>)
  BY <1>2, <1>6, RefusalFine DEF RowsInv
<1>7. CASE SaveRework(done, <<>>)
  BY <1>2, <1>5, <1>7, SaveFine DEF RowsInv
<1> QED
  BY <1>2, <1>4, <1>6, <1>7

LEMMA EditedByKeywords ==
    ASSUME RowsInv, EditByKeywords
    PROVE  RowsInv'
<1>1. PICK row, note, prior, edited, done :
          /\ row = rwJob.row /\ note = rwJob.note
          /\ prior = Body(row) /\ edited = Edited(prior, note)
          /\ done = ByHand(row, edited, note, row.author)
  OBVIOUS
<1>2. rwLive' = rwLive /\ SaveEdited(prior, edited, done)
  BY <1>1 DEF EditByKeywords
<1>3. Refuse("edits", <<>>) \/ SaveRework(done, <<>>)
  BY <1>2 DEF SaveEdited
<1>4. RowFine(row)
  BY <1>1 DEF RowsInv, JobFine, EditByKeywords
<1>5. Listing(edited.cites)
  <2>1. Listing(row.cites)
    BY <1>4 DEF RowFine
  <2>2. edited = Edited([words |-> row.words, cites |-> row.cites], note)
    BY <1>1 DEF Body
  <2> QED
    BY <2>1, <2>2, EditsFine
<1>6. RowFine(done)
  BY <1>1, <1>4, <1>5, HandFine
<1>7. CASE Refuse("edits", <<>>)
  BY <1>2, <1>7, RefusalFine DEF RowsInv
<1>8. CASE SaveRework(done, <<>>)
  BY <1>2, <1>6, <1>8, SaveFine DEF RowsInv
<1> QED
  BY <1>3, <1>7, <1>8

LEMMA EditsMade ==
    ASSUME RowsInv, rwJob.st # "idle", NEW written, RowFine(written)
    PROVE  RowFine(WithEdits(written))
<1>1. PICK row, note, edited : row = rwJob.row /\ note = rwJob.note /\ edited = Edited(Body(written), note)
  OBVIOUS
<1>2. RowFine(row)
  BY <1>1 DEF RowsInv, JobFine
<1>3. Listing(edited.cites)
  <2>1. Listing(written.cites)
    BY DEF RowFine
  <2>2. edited = Edited([words |-> written.words, cites |-> written.cites], note)
    BY <1>1 DEF Body
  <2> QED
    BY <2>1, <2>2, EditsFine
<1>4. RowFine(ByHand(row, edited, note, "again"))
  BY <1>2, <1>3, HandFine
<1>5. WithEdits(written) = IF edited = Body(written) THEN written ELSE ByHand(row, edited, note, "again")
  BY <1>1 DEF WithEdits, EditWritten
<1> QED
  BY <1>4, <1>5

LEMMA FirstAnswered ==
    ASSUME RowsInv, NEW answer \in ReworkAnswers, FirstAnswer(answer)
    PROVE  RowsInv'
<1>1. PICK row, note : row = rwJob.row /\ note = rwJob.note
  OBVIOUS
<1>2. rwJob.st # "idle" /\ rwLive' = rwLive
  BY DEF FirstAnswer
<1>3. RowFine(row) /\ DOMAIN note = DOMAIN Note /\ Listing(note.links)
  BY <1>1, <1>2 DEF RowsInv, JobFine
<1>4. DOMAIN answer = {"words", "cites"} /\ Listing(answer.cites)
  BY ReworkAssumption, ListsAreListings
<1>5. PICK fresh, written, done : /\ fresh = ByModel(row, answer, Note)
                                  /\ written = ByModel(row, answer, note)
                                  /\ done = WithEdits(written)
  OBVIOUS
<1>6. RowFine(fresh)
  <2>1. Listing(Note.links)
    BY Nothing DEF Note
  <2> QED
    BY <1>3, <1>4, <1>5, <2>1, ModelFine
<1>7. RowFine(written)
  BY <1>3, <1>4, <1>5, ModelFine
<1>8. RowFine(done)
  BY <1>2, <1>5, <1>7, EditsMade
<1>9. Refuse("writer", answer.words) \/ SaveRework(fresh, answer.words) \/ SettleAnswer(answer, done)
  BY <1>1, <1>5 DEF FirstAnswer
<1>10. CASE Refuse("writer", answer.words)
  BY <1>2, <1>10, RefusalFine DEF RowsInv
<1>11. CASE SaveRework(fresh, answer.words)
  BY <1>2, <1>6, <1>11, SaveFine DEF RowsInv
<1>12. CASE SettleAnswer(answer, done)
  <2>1. \/ Refuse("edits", answer.words)
        \/ rwJob' = [rwJob EXCEPT !.st = "again", !.said = answer.words] /\ rwRow' = rwRow
        \/ SaveRework(done, answer.words)
    BY <1>12 DEF SettleAnswer
  <2>2. CASE Refuse("edits", answer.words)
    BY <1>2, <2>2, RefusalFine DEF RowsInv
  <2>3. CASE rwJob' = [rwJob EXCEPT !.st = "again", !.said = answer.words] /\ rwRow' = rwRow
    BY <1>2, <2>3, AskAgainFine DEF RowsInv
  <2>4. CASE SaveRework(done, answer.words)
    BY <1>2, <1>8, <2>4, SaveFine DEF RowsInv
  <2> QED
    BY <2>1, <2>2, <2>3, <2>4
<1> QED
  BY <1>9, <1>10, <1>11, <1>12

LEMMA SecondAnswered ==
    ASSUME RowsInv, NEW answer \in ReworkAnswers, SecondAnswer(answer)
    PROVE  RowsInv'
<1>1. PICK row, note, louder : row = rwJob.row /\ note = rwJob.note /\ louder = Louder(note)
  OBVIOUS
<1>2. rwJob.st # "idle" /\ rwLive' = rwLive
  BY DEF SecondAnswer
<1>3. RowFine(row) /\ DOMAIN note = DOMAIN Note /\ Listing(note.links)
  BY <1>1, <1>2 DEF RowsInv, JobFine
<1>4. DOMAIN answer = {"words", "cites"} /\ Listing(answer.cites)
  BY ReworkAssumption, ListsAreListings
<1>5. Listing(louder.links)
  <2>1. louder.links = note.links
    BY <1>1, <1>3 DEF Louder, Note
  <2> QED
    BY <1>3, <2>1
<1>6. PICK done : done = ByModel(row, answer, louder)
  OBVIOUS
<1>7. RowFine(done)
  BY <1>3, <1>4, <1>5, <1>6, ModelFine
<1>8. Refuse("writer", answer.words) \/ SettleQuotes(answer, done)
  BY <1>1, <1>6 DEF SecondAnswer
<1>9. Refuse("writer", answer.words) \/ Refuse("quotes", answer.words) \/ SaveRework(done, answer.words)
  BY <1>8 DEF SettleQuotes
<1>10. CASE Refuse("writer", answer.words)
  BY <1>2, <1>10, RefusalFine DEF RowsInv
<1>11. CASE Refuse("quotes", answer.words)
  BY <1>2, <1>11, RefusalFine DEF RowsInv
<1>12. CASE SaveRework(done, answer.words)
  BY <1>2, <1>7, <1>12, SaveFine DEF RowsInv
<1> QED
  BY <1>9, <1>10, <1>11, <1>12

\* The row with another link.
Relinked(row, cites, options) == [row EXCEPT !.cites = cites, !.options = options]

LEMMA RelinkedFine ==
    ASSUME NEW row, RowFine(row), NEW u
    PROVE  /\ RowFine(Relinked(row, SetSingleInPostUrl(NoUrl), row.options))
           /\ u # NoUrl => RowFine(Relinked(row, SetSingleInPostUrl(u), PromoteLinkOption(row.options, u)))
<1>1. PICK bare : bare = Relinked(row, SetSingleInPostUrl(NoUrl), row.options)
  OBVIOUS
<1>2. /\ DOMAIN bare = ReworkFields /\ bare.kind = row.kind /\ bare.pool = row.pool /\ bare.asked = row.asked
      /\ bare.options = row.options /\ bare.cites = <<>>
  BY <1>1 DEF Relinked, RowFine, ReworkFields, SetSingleInPostUrl
<1>3. Listing(bare.cites) /\ Len(bare.cites) = 0
  BY <1>2, Nothing
<1>4. Listed(bare)
  BY <1>2, <1>3 DEF Listed, RowFine
<1>5. RowFine(bare)
  BY <1>2, <1>3, <1>4 DEF RowFine
<1>6. ASSUME u # NoUrl
      PROVE  RowFine(Relinked(row, SetSingleInPostUrl(u), PromoteLinkOption(row.options, u)))
  <2>1. PICK options, new : /\ options = PromoteLinkOption(row.options, u)
                            /\ new = Relinked(row, SetSingleInPostUrl(u), options)
    OBVIOUS
  <2>2. /\ DOMAIN new = ReworkFields /\ new.kind = row.kind /\ new.pool = row.pool /\ new.asked = row.asked
        /\ new.options = options /\ new.cites = <<u>>
    BY <1>6, <2>1 DEF Relinked, RowFine, ReworkFields, SetSingleInPostUrl
  <2>3. /\ Listing(options) /\ Len(options) <= LinkCap /\ options # <<>> /\ options[1] = u
        /\ OneOfASite(row.options) => OneOfASite(options)
    BY <2>1, AsListing DEF RowFine
  <2>4. Listing(new.cites) /\ Len(new.cites) = 1 /\ new.cites[1] = u
    BY <2>2, Alone
  <2>5. row.kind = "draft" => OneOfASite(options)
    BY <2>3 DEF RowFine, Listed, OneOfASite
  <2>6. SamePublisherDomain(new.cites[1], options[1])
    BY <2>3, <2>4 DEF SamePublisherDomain
  <2>7. Listed(new)
    BY <2>2, <2>3, <2>4, <2>5, <2>6 DEF Listed, OneOfASite
  <2>8. RowFine(new)
    BY <2>2, <2>3, <2>4, <2>7 DEF RowFine
  <2> QED
    BY <2>1, <2>8
<1> QED
  BY <1>1, <1>5, <1>6

LEMMA UrlChanged ==
    ASSUME RowsInv, NEW choice \in UrlChoices, ChangeUrl(choice)
    PROVE  RowsInv'
<1>1. PICK row, u : row = rwRow /\ u = ResolveUrlChoice(choice, rwRow.options).url
  OBVIOUS
<1>2. RowFine(row)
  BY <1>1 DEF RowsInv
<1>3. rwJob' = rwJob /\ rwLive' = rwLive
  BY DEF ChangeUrl
<1>4. rwRow' = Relinked(row, SetSingleInPostUrl(u),
                        IF u = NoUrl THEN row.options ELSE PromoteLinkOption(row.options, u))
  BY <1>1, <1>2 DEF ChangeUrl, Relinked, RowFine, ReworkFields
<1>5. RowFine(rwRow')
  BY <1>2, <1>4, RelinkedFine
<1> QED
  BY <1>3, <1>5 DEF RowsInv

LEMMA ReworkStarts ==
    ASSUME ReworkInit
    PROVE  RowsInv
<1>1. RowFine(rwRow)
  BY ReworkAssumption, ListsAreListings DEF ReworkInit, RowFine
<1>2. JobFine(rwJob)
  BY DEF ReworkInit, JobFine, NoJob
<1> QED
  BY <1>1, <1>2 DEF ReworkInit, RowsInv

LEMMA ReworkKeeps ==
    ASSUME RowsInv, [ReworkNext]_reworkVars
    PROVE  RowsInv'
<1>1. CASE UNCHANGED reworkVars
  BY <1>1 DEF reworkVars, RowsInv
<1>2. ASSUME NEW note \in ReworkNotes, StartRework(note) PROVE RowsInv'
  BY <1>2, Started
<1>3. CASE PasteText
  BY <1>3, Pasted
<1>4. CASE EditByKeywords
  BY <1>4, EditedByKeywords
<1>5. CASE WriterFails
  <2>1. Refuse("writer", <<>>) /\ rwLive' = rwLive
    BY <1>5 DEF WriterFails
  <2> QED
    BY <2>1, RefusalFine DEF RowsInv
<1>6. ASSUME NEW answer \in ReworkAnswers, FirstAnswer(answer) PROVE RowsInv'
  BY <1>6, FirstAnswered
<1>7. ASSUME NEW answer \in ReworkAnswers, SecondAnswer(answer) PROVE RowsInv'
  BY <1>7, SecondAnswered
<1>8. ASSUME NEW choice \in UrlChoices, ChangeUrl(choice) PROVE RowsInv'
  BY <1>8, UrlChanged
<1>9. ASSUME NEW u \in Sites, SiteGoesDown(u) \/ SiteComesBack(u) PROVE RowsInv'
  <2>1. rwRow' = rwRow /\ rwJob' = rwJob /\ rwLive' \subseteq Sites
    BY <1>9 DEF SiteGoesDown, SiteComesBack, RowsInv
  <2> QED
    BY <2>1 DEF RowsInv
<1> QED
  BY <1>1, <1>2, <1>3, <1>4, <1>5, <1>6, <1>7, <1>8, <1>9 DEF ReworkNext, ReworkStep

\* rework.rs, draft_footer.rs: whatever the writer answers, the operator picks and the sites do, a
\* draft lists one option of every site and no more than the cap, and links one address at most,
\* of the site of the first option.
THEOREM ReworkSafe == ReworkSpec => []ReworkInv
<1>1. RowsInv => ReworkInv
  BY DEF RowsInv, RowFine, ReworkInv
<1>2. ReworkInit => RowsInv
  BY ReworkStarts
<1>3. RowsInv /\ [ReworkNext]_reworkVars => RowsInv'
  BY ReworkKeeps
<1> QED
  BY <1>1, <1>2, <1>3, PTL DEF ReworkSpec

-------------------------------------------------------------------------------
(* What lists are made of *)

LEMMA KeepFits ==
    ASSUME NEW list, Listing(list), NEW places, NEW T, \A i \in places \cap DOMAIN list : list[i] \in T
    PROVE  Keep(list, places) \in Seq(T)
<1>1. PICK kept : kept = Keep(list, places)
  OBVIOUS
<1>2. Listing(kept) /\ \A k \in DOMAIN kept : \E i \in places \cap DOMAIN list : kept[k] = list[i]
  BY <1>1, KeptList
<1>3. PICK S : kept \in Seq(S)
  BY <1>2 DEF Listing
<1>4. kept = [k \in 1..Len(kept) |-> kept[k]] /\ Len(kept) \in Nat /\ DOMAIN kept = 1..Len(kept)
  BY <1>3
<1>5. \A k \in 1..Len(kept) : kept[k] \in T
  BY <1>2, <1>4
<1> QED
  BY <1>1, <1>4, <1>5, IsASeq

LEMMA KeepFirst ==
    ASSUME NEW list, Listing(list), NEW places, 1 \in places, list # <<>>
    PROVE  Keep(list, places) # <<>> /\ Keep(list, places)[1] = list[1]
<1>1. PICK S : list \in Seq(S)
  BY DEF Listing
<1>2. PICK kept : kept = Keep(list, places)
  OBVIOUS
<1>3. kept \in Seq(S) /\ IsKept(kept, list, places)
  BY <1>1, <1>2, KeepIsKept
<1>4. /\ DOMAIN list = 1..Len(list) /\ Len(list) \in Nat /\ Len(kept) \in Nat /\ DOMAIN kept = 1..Len(kept)
      /\ Len(list) # 0
  BY <1>1, <1>3
<1>5. 1 \in places \cap DOMAIN list
  BY <1>4
<1>6. PICK at \in [1..Len(kept) -> places \cap DOMAIN list] :
          /\ \A k \in 1..Len(kept) : kept[k] = list[at[k]]
          /\ \A j, k \in 1..Len(kept) : j < k => at[j] < at[k]
          /\ \A i \in places \cap DOMAIN list : \E k \in 1..Len(kept) : at[k] = i
  BY <1>3 DEF IsKept
<1>7. PICK k \in 1..Len(kept) : at[k] = 1
  BY <1>5, <1>6
<1>8. 1 \in 1..Len(kept)
  BY <1>4, <1>7
<1>9. at[1] \in 1..Len(list)
  BY <1>4, <1>6, <1>8
<1>10. ~(1 < k)
  BY <1>4, <1>6, <1>7, <1>8, <1>9
<1>11. k = 1
  BY <1>4, <1>7, <1>10
<1>12. kept[1] = list[1]
  BY <1>6, <1>7, <1>8, <1>11
<1>13. kept # <<>>
  <2>1. Len(<<>>) = 0
    BY Nothing
  <2> QED
    BY <1>4, <1>8, <2>1
<1> QED
  BY <1>2, <1>12, <1>13

\* Nothing that is kept is left out, and no more is kept than there is.
LEMMA KeepFinds ==
    ASSUME NEW list, Listing(list), NEW places, NEW i \in places \cap DOMAIN list
    PROVE  \E k \in DOMAIN Keep(list, places) : Keep(list, places)[k] = list[i]
<1>1. PICK S : list \in Seq(S)
  BY DEF Listing
<1>2. PICK kept : kept = Keep(list, places)
  OBVIOUS
<1>3. kept \in Seq(S) /\ IsKept(kept, list, places)
  BY <1>1, <1>2, KeepIsKept
<1>4. PICK at \in [1..Len(kept) -> places \cap DOMAIN list] :
          /\ \A k \in 1..Len(kept) : kept[k] = list[at[k]]
          /\ \A j \in places \cap DOMAIN list : \E k \in 1..Len(kept) : at[k] = j
  BY <1>3 DEF IsKept
<1>5. PICK k \in 1..Len(kept) : at[k] = i
  BY <1>4
<1>6. DOMAIN kept = 1..Len(kept)
  BY <1>3
<1> QED
  BY <1>2, <1>4, <1>5, <1>6

LEMMA KeepShortens ==
    ASSUME NEW list, Listing(list), NEW places
    PROVE  Len(Keep(list, places)) \in Nat /\ Len(Keep(list, places)) <= Len(list)
<1>1. PICK S : list \in Seq(S)
  BY DEF Listing
<1>2. PICK kept, len : kept = Keep(list, places) /\ len = Len(kept)
  OBVIOUS
<1>3. kept \in Seq(S) /\ IsKept(kept, list, places)
  BY <1>1, <1>2, KeepIsKept
<1>4. len \in Nat /\ DOMAIN list = 1..Len(list) /\ Len(list) \in Nat
  BY <1>1, <1>2, <1>3
<1>5. PICK at \in [1..len -> places \cap DOMAIN list] : \A j, k \in 1..len : j < k => at[j] < at[k]
  BY <1>2, <1>3 DEF IsKept
<1>6. PICK T : T = {n \in 0..len : n # 0 => at[n] >= n}
  OBVIOUS
<1>7. 0 \in T
  BY <1>4, <1>6
<1>8. ASSUME NEW n \in 1..len, n - 1 \in T PROVE n \in T
  <2>1. n \in 0..len /\ at[n] \in 1..Len(list)
    BY <1>4, <1>5
  <2>2. CASE n = 1
    BY <1>6, <2>1, <2>2
  <2>3. CASE n # 1
    <3>1. n - 1 \in 1..len /\ n - 1 < n
      BY <1>4, <2>3
    <3>2. at[n - 1] >= n - 1 /\ at[n - 1] < at[n] /\ at[n - 1] \in Nat
      BY <1>4, <1>5, <1>6, <1>8, <3>1
    <3>3. at[n] >= n
      BY <2>1, <3>2
    <3> QED
      BY <1>6, <2>1, <3>3
  <2> QED
    BY <2>2, <2>3
<1>9. 0..len \subseteq T
  BY <1>4, <1>7, <1>8, Induct
<1>10. len # 0 => at[len] >= len /\ at[len] \in 1..Len(list)
  BY <1>4, <1>5, <1>6, <1>9
<1>11. len <= Len(list)
  BY <1>4, <1>10
<1> QED
  BY <1>2, <1>4, <1>11

LEMMA TakeFits ==
    ASSUME NEW S, NEW list \in Seq(S), NEW urls \in Seq(S), NEW cap \in Nat, NEW places
    PROVE  list \o UpTo(cap - Len(list), Keep(urls, places)) \in Seq(S)
<1>1. Keep(urls, places) \in Seq(S)
  BY KeepIsKept
<1>2. cap - Len(list) \in Int
  OBVIOUS
<1>3. UpTo(cap - Len(list), Keep(urls, places)) \in Seq(S)
  BY <1>1, <1>2, UpToIn
<1> QED
  BY <1>3

LEMMA SitesTaken ==
    ASSUME NEW S, NEW list \in Seq(S), NEW urls \in Seq(S), NEW cap \in Nat
    PROVE  Take(list, urls, cap, SamePublisherDomain) \in Seq(S)
<1>1. PICK places : places = Unlike(list, urls, SamePublisherDomain)
  OBVIOUS
<1> QED
  BY <1>1, TakeFits DEF Take

LEMMA UrlsTaken ==
    ASSUME NEW S, NEW list \in Seq(S), NEW urls \in Seq(S), NEW cap \in Nat
    PROVE  Take(list, urls, cap, SamePublisherUrl) \in Seq(S)
<1>1. PICK places : places = Unlike(list, urls, SamePublisherUrl)
  OBVIOUS
<1> QED
  BY <1>1, TakeFits DEF Take

LEMMA EmptyIn == ASSUME NEW S PROVE <<>> \in Seq(S)
OBVIOUS

LEMMA Capped ==
    ASSUME NEW S, NEW urls \in Seq(S)
    PROVE  CapUrlsByDomain(urls, LinkCap) \in Seq(S)
<1>1. PICK none, sites : none = <<>> /\ sites = Take(none, urls, LinkCap, SamePublisherDomain)
  OBVIOUS
<1>2. LinkCap \in Nat /\ none \in Seq(S)
  BY <1>1, EmptyIn, CitesAssumption
<1>3. sites \in Seq(S)
  BY <1>1, <1>2, SitesTaken
<1>4. Take(sites, urls, LinkCap, SamePublisherUrl) \in Seq(S)
  BY <1>2, <1>3, UrlsTaken
<1> QED
  BY <1>1, <1>4 DEF CapUrlsByDomain

\* What answers: of the set, allowed, and the first stays.
LEMMA FilteredFits ==
    ASSUME NEW S, NEW urls \in Seq(S), NEW live
    PROVE  /\ FilterReachable(urls, live) \in Seq({u \in S : Answers(u, live)})
           /\ FilterReachable(urls, live) \in Seq(S)
<1>1. PICK places : places = {i \in DOMAIN urls : /\ AllowedTweetCite(urls[i]) /\ ~XNonStatus(urls[i])
                                                  /\ Answers(urls[i], live)}
  OBVIOUS
<1>2. FilterReachable(urls, live) = Keep(urls, places)
  BY <1>1 DEF FilterReachable, Only
<1>3. Listing(urls) /\ \A i \in places \cap DOMAIN urls : urls[i] \in {u \in S : Answers(u, live)}
  BY <1>1, AnyListing
<1>4. Keep(urls, places) \in Seq({u \in S : Answers(u, live)})
  BY <1>3, KeepFits
<1>5. Keep(urls, places) \in Seq(S)
  BY KeepIsKept
<1> QED
  BY <1>2, <1>4, <1>5

LEMMA ReachedFits ==
    ASSUME NEW S, NEW options \in Seq(S), NEW pool \in Seq(S), NEW live
    PROVE  ReachableOptions(options, pool, live) \in Seq({u \in S : Answers(u, live)})
<1>1. PICK R : R = {u \in S : Answers(u, live)}
  OBVIOUS
<1>2. PICK kept, first : kept = FilterReachable(options, live) /\ first = UpTo(LinkCap, kept)
  OBVIOUS
<1>3. kept \in Seq(R)
  BY <1>1, <1>2, FilteredFits
<1>4. LinkCap \in Nat /\ LinkCap \in Int
  BY CitesAssumption
<1>5. first \in Seq(R)
  BY <1>2, <1>3, <1>4, UpToIn
<1>6. PICK places : places = {i \in DOMAIN pool : /\ ~Junk(pool[i]) /\ AllowedTweetCite(pool[i])
                                                  /\ Answers(pool[i], live)}
  OBVIOUS
<1>7. PICK spare : spare = Keep(pool, places)
  OBVIOUS
<1>8. spare \in Seq(R)
  <2>1. Listing(pool) /\ \A i \in places \cap DOMAIN pool : pool[i] \in R
    BY <1>1, <1>6, AnyListing
  <2> QED
    BY <1>7, <2>1, KeepFits
<1>9. ReachableOptions(options, pool, live) = Take(first, spare, LinkCap, SamePublisherDomain)
  BY <1>2, <1>6, <1>7 DEF ReachableOptions, RefillFromPool, Only
<1>10. Take(first, spare, LinkCap, SamePublisherDomain) \in Seq(R)
  BY <1>4, <1>5, <1>8, SitesTaken
<1> QED
  BY <1>1, <1>9, <1>10

\* The first option that answers stays the first.
LEMMA ReachedFirst ==
    ASSUME NEW options, NEW pool, NEW live, Listing(options), Listing(pool), options # <<>>,
           AllowedTweetCite(options[1]), ~XNonStatus(options[1]), Answers(options[1], live)
    PROVE  /\ ReachableOptions(options, pool, live) # <<>>
           /\ ReachableOptions(options, pool, live)[1] = options[1]
<1>1. PICK answering : answering = {i \in DOMAIN options : /\ AllowedTweetCite(options[i]) /\ ~XNonStatus(options[i])
                                                           /\ Answers(options[i], live)}
  OBVIOUS
<1>2. PICK kept, first : kept = Keep(options, answering) /\ first = UpTo(LinkCap, kept)
  OBVIOUS
<1>3. FilterReachable(options, live) = kept
  BY <1>1, <1>2 DEF FilterReachable, Only
<1>4. LinkCap \in Nat /\ LinkCap \in Int /\ LinkCap >= 1
  BY CitesAssumption
<1>5. 1 \in DOMAIN options
  <2>1. PICK S : options \in Seq(S)
    BY DEF Listing
  <2> QED
    BY <2>1
<1>6. 1 \in answering
  BY <1>1, <1>5
<1>7. kept # <<>> /\ kept[1] = options[1] /\ Listing(kept)
  BY <1>2, <1>6, KeepFirst, KeptList
<1>8. Len(kept) >= 1
  BY <1>7 DEF Listing
<1>9. Len(first) >= 1 /\ Listing(first) /\ \A k \in DOMAIN first : first[k] = kept[k]
  BY <1>2, <1>4, <1>7, <1>8, UpToList
<1>10. 1 \in DOMAIN first /\ Len(first) \in Nat /\ first[1] = options[1]
  <2>1. PICK S : first \in Seq(S)
    BY <1>9 DEF Listing
  <2>2. 1 \in DOMAIN first /\ Len(first) \in Nat
    BY <1>9, <2>1
  <2> QED
    BY <1>7, <1>9, <2>2
<1>11. PICK places : places = {i \in DOMAIN pool : /\ ~Junk(pool[i]) /\ AllowedTweetCite(pool[i])
                                                   /\ Answers(pool[i], live)}
  OBVIOUS
<1>12. PICK spare, others : spare = Keep(pool, places) /\ others = Unlike(first, spare, SamePublisherDomain)
  OBVIOUS
<1>13. PICK more : more = UpTo(LinkCap - Len(first), Keep(spare, others))
  OBVIOUS
<1>14. ReachableOptions(options, pool, live) = first \o more
  BY <1>2, <1>3, <1>11, <1>12, <1>13 DEF ReachableOptions, RefillFromPool, Only, Take
<1>15. Listing(spare) /\ Listing(Keep(spare, others)) /\ LinkCap - Len(first) \in Int
  BY <1>4, <1>10, <1>12, KeptList
<1>16. Listing(more)
  BY <1>13, <1>15, UpToList
<1>17. /\ Len(first \o more) = Len(first) + Len(more) /\ Len(more) \in Nat
       /\ \A i \in DOMAIN first : (first \o more)[i] = first[i]
  BY <1>9, <1>16, Joined
<1>18. Len(first \o more) >= 1
  BY <1>9, <1>10, <1>17
<1>19. first \o more # <<>>
  BY <1>18, Nothing
<1> QED
  BY <1>10, <1>14, <1>17, <1>19


-------------------------------------------------------------------------------
(* The link the operator picked *)

Stays(row, note, link) ==
    /\ link = InPostUrl(row.cites) /\ link # NoUrl /\ EditsOfUrl(link, note) = link
    /\ AllowedTweetCite(link) /\ ~XNonStatus(link) /\ Answers(link, rwLive)

LEMMA AttachedFirst ==
    ASSUME NEW row, RowFine(row), row.kind = "draft", NEW body, Listing(body.cites), NEW note, NEW link,
           Stays(row, note, link)
    PROVE  AttachLinks(row, body) # <<>> /\ AttachLinks(row, body)[1] = link
<1>1. PICK stored : stored = IF row.options = <<>> THEN PickLinkOptions(row.pool, body.cites) ELSE row.options
  OBVIOUS
<1>2. PICK options : options = PromoteLinkOption(stored, link)
  OBVIOUS
<1>3. AttachLinks(row, body) = ReachableOptions(options, row.pool, rwLive)
  BY <1>1, <1>2 DEF AttachLinks, Stays
<1>4. Listing(stored)
  <2>1. Listing(row.pool) /\ Listing(row.options)
    BY DEF RowFine
  <2>2. Listing(PickLinkOptions(row.pool, body.cites))
    BY <2>1, LinkOptionsPicked
  <2> QED
    BY <1>1, <2>1, <2>2
<1>5. Listing(options) /\ options # <<>> /\ options[1] = link
  BY <1>2, <1>4, AsListing
<1>6. PICK live, pool : live = rwLive /\ pool = row.pool
  OBVIOUS
<1>7. Listing(pool) /\ AllowedTweetCite(options[1]) /\ ~XNonStatus(options[1]) /\ Answers(options[1], live)
  BY <1>5, <1>6 DEF RowFine, Stays
<1>8. /\ ReachableOptions(options, pool, live) # <<>>
      /\ ReachableOptions(options, pool, live)[1] = options[1]
  BY <1>5, <1>7, ReachedFirst
<1> QED
  BY <1>3, <1>5, <1>6, <1>8

LEMMA DraftKeepsLink ==
    ASSUME NEW row, RowFine(row), row.kind = "draft", NEW body, Listing(body.cites), NEW note, NEW link,
           Stays(row, note, link)
    PROVE  InPostUrl(DraftOf(row, body, note).cites) = link
<1>1. PICK options : options = AttachLinks(row, body)
  OBVIOUS
<1>2. options # <<>> /\ options[1] = link
  BY <1>1, AttachedFirst
<1>3. PICK one, cites : one = <<link>> /\ cites = EditCites(one, note)
  OBVIOUS
<1>4. SetSingleInPostUrl(FirstOption(options)) = one
  BY <1>2, <1>3 DEF SetSingleInPostUrl, FirstOption, Stays
<1>5. DraftOf(row, body, note).cites = cites
  BY <1>1, <1>3, <1>4, LinksWritten DEF DraftOf, RowFine
<1>6. Listing(one) /\ DOMAIN one = {1} /\ one[1] = link /\ Len(one) = 1
  BY <1>3, Alone
<1>7. Listing(cites) /\ Len(cites) = 1
  BY <1>3, <1>6, EditedCites
<1>8. cites[1] = EditsOfUrl(link, note)
  BY <1>3, <1>6 DEF EditCites
<1>9. cites[1] = link
  BY <1>8 DEF Stays
<1>10. cites # <<>>
  BY <1>7, Nothing
<1>11. InPostUrl(cites) = link
  BY <1>7, <1>9, <1>10 DEF InPostUrl, Last
<1> QED
  BY <1>5, <1>11

LEMMA HandKeepsLink ==
    ASSUME NEW row, RowFine(row), row.kind = "draft", NEW body, Listing(body.cites), NEW note, NEW link,
           Stays(row, note, link), NEW author
    PROVE  InPostUrl(ByHand(row, body, note, author).cites) = link
<1>1. PICK new : new = DraftOf(row, body, note)
  OBVIOUS
<1>2. RowFine(new) /\ InPostUrl(new.cites) = link
  BY <1>1, DraftFine, DraftKeepsLink
<1>3. [new EXCEPT !.author = author].cites = new.cites
  BY <1>2 DEF RowFine, ReworkFields
<1>4. ByHand(row, body, note, author) = [new EXCEPT !.author = author]
  BY <1>1 DEF ByHand, DraftByHand
<1> QED
  BY <1>2, <1>3, <1>4

LEMMA ModelKeepsLink ==
    ASSUME NEW row, RowFine(row), row.kind = "draft",
           NEW answer, DOMAIN answer = {"words", "cites"}, Listing(answer.cites), NEW note, NEW link,
           Stays(row, note, link)
    PROVE  InPostUrl(ByModel(row, answer, note).cites) = link
<1>1. PICK words : words = Without(answer.words, note.quoted)
  OBVIOUS
<1>2. PICK kept : kept = [answer EXCEPT !.words = words]
  OBVIOUS
<1>3. kept.cites = answer.cites
  BY <1>2
<1>4. PICK new : new = DraftOf(row, kept, note)
  OBVIOUS
<1>5. RowFine(new) /\ InPostUrl(new.cites) = link
  BY <1>3, <1>4, DraftFine, DraftKeepsLink
<1>6. [new EXCEPT !.writer = "again", !.author = "again"].cites = new.cites
  BY <1>5 DEF RowFine, ReworkFields
<1>7. ByModel(row, answer, note) = [new EXCEPT !.writer = "again", !.author = "again"]
  BY <1>1, <1>2, <1>4 DEF ByModel, DraftByModel
<1> QED
  BY <1>5, <1>6, <1>7

LEMMA PlainEdits == ASSUME NEW u PROVE EditsOfUrl(u, Note) = u
<1>1. PICK none : none = Note.replaces
  OBVIOUS
<1>2. DOMAIN none = {}
  <2>1. none = <<>>
    BY <1>1 DEF Note
  <2> QED
    BY <2>1, Nothing
<1>3. {i \in DOMAIN none : none[i].from = u.page} = {}
  BY <1>2
<1> QED
  BY <1>1, <1>3 DEF EditsOfUrl

\* The row of the job has a link that stays.
LinkOf(link) ==
    LET note == rwJob.note
    IN /\ rwJob.row.kind = "draft" /\ link = InPostUrl(rwJob.row.cites) /\ MayStay(link)
       /\ EditsOfUrl(link, note) = link

LEMMA LinkOfStays ==
    ASSUME NEW link, LinkOf(link)
    PROVE  Stays(rwJob.row, rwJob.note, link) /\ Stays(rwJob.row, Note, link)
BY PlainEdits DEF LinkOf, Stays, MayStay

LEMMA PasteKeepsLink ==
    ASSUME RowsInv, PasteText, Saves, NEW link, LinkOf(link)
    PROVE  InPostUrl(rwRow'.cites) = link
<1>1. PICK row, body : row = rwJob.row /\ body = [words |-> rwJob.note.paste, cites |-> rwJob.note.links]
  OBVIOUS
<1>2. PICK done : done = ByHand(row, body, Note, "operator")
  OBVIOUS
<1>3. Refuse("empty", <<>>) \/ SaveRework(done, <<>>)
  BY <1>1, <1>2 DEF PasteText
<1>4. RowFine(row) /\ Listing(body.cites)
  BY <1>1 DEF RowsInv, JobFine, PasteText
<1>5. row.kind = "draft" /\ Stays(row, Note, link)
  BY <1>1, LinkOfStays DEF LinkOf
<1>6. InPostUrl(done.cites) = link
  BY <1>2, <1>4, <1>5, HandKeepsLink
<1>7. ~Refuse("empty", <<>>)
  BY DEF Refuse, Saves, RowsInv, JobFine, NoJob
<1> QED
  BY <1>3, <1>6, <1>7 DEF SaveRework

LEMMA KeywordsKeepLink ==
    ASSUME RowsInv, EditByKeywords, Saves, NEW link, LinkOf(link)
    PROVE  InPostUrl(rwRow'.cites) = link
<1>1. PICK row, note, edited, done :
          /\ row = rwJob.row /\ note = rwJob.note
          /\ edited = Edited(Body(row), note)
          /\ done = ByHand(row, edited, note, row.author)
  OBVIOUS
<1>2. Refuse("edits", <<>>) \/ SaveRework(done, <<>>)
  BY <1>1 DEF EditByKeywords, SaveEdited
<1>3. RowFine(row)
  BY <1>1 DEF RowsInv, JobFine, EditByKeywords
<1>4. Listing(edited.cites)
  <2>1. Listing(row.cites)
    BY <1>3 DEF RowFine
  <2>2. edited = Edited([words |-> row.words, cites |-> row.cites], note)
    BY <1>1 DEF Body
  <2> QED
    BY <2>1, <2>2, EditsFine
<1>5. row.kind = "draft" /\ Stays(row, note, link)
  BY <1>1, LinkOfStays DEF LinkOf
<1>6. InPostUrl(done.cites) = link
  BY <1>1, <1>3, <1>4, <1>5, HandKeepsLink
<1>7. ~Refuse("edits", <<>>)
  BY DEF Refuse, Saves, RowsInv, JobFine, NoJob
<1> QED
  BY <1>2, <1>6, <1>7 DEF SaveRework

LEMMA FirstKeepsLink ==
    ASSUME RowsInv, NEW answer \in ReworkAnswers, FirstAnswer(answer), Saves, NEW link, LinkOf(link)
    PROVE  InPostUrl(rwRow'.cites) = link
<1>1. PICK row, note : row = rwJob.row /\ note = rwJob.note
  OBVIOUS
<1>2. RowFine(row) /\ DOMAIN note = DOMAIN Note /\ Listing(note.links)
  BY <1>1 DEF RowsInv, JobFine, FirstAnswer
<1>3. DOMAIN answer = {"words", "cites"} /\ Listing(answer.cites)
  BY ReworkAssumption, ListsAreListings
<1>4. row.kind = "draft" /\ Stays(row, note, link) /\ Stays(row, Note, link)
  BY <1>1, LinkOfStays DEF LinkOf
<1>5. PICK fresh, written, edited, byHand :
          /\ fresh = ByModel(row, answer, Note)
          /\ written = ByModel(row, answer, note)
          /\ edited = Edited(Body(written), note)
          /\ byHand = ByHand(row, edited, note, "again")
  OBVIOUS
<1>6. InPostUrl(fresh.cites) = link /\ InPostUrl(written.cites) = link /\ RowFine(written)
  BY <1>2, <1>3, <1>4, <1>5, ModelFine, ModelKeepsLink
<1>7. Listing(edited.cites)
  <2>1. Listing(written.cites)
    BY <1>6 DEF RowFine
  <2>2. edited = Edited([words |-> written.words, cites |-> written.cites], note)
    BY <1>5 DEF Body
  <2> QED
    BY <2>1, <2>2, EditsFine
<1>8. InPostUrl(byHand.cites) = link
  BY <1>2, <1>4, <1>5, <1>7, HandKeepsLink
<1>9. PICK done : done = WithEdits(written)
  OBVIOUS
<1>10. done = written \/ done = byHand
  BY <1>1, <1>5, <1>9 DEF WithEdits, EditWritten
<1>11. InPostUrl(done.cites) = link
  BY <1>6, <1>8, <1>10
<1>12. Refuse("writer", answer.words) \/ SaveRework(fresh, answer.words) \/ SettleAnswer(answer, done)
  BY <1>1, <1>5, <1>9 DEF FirstAnswer
<1>13. ~Refuse("writer", answer.words) /\ ~Refuse("edits", answer.words)
  BY DEF Refuse, Saves, RowsInv, JobFine, NoJob
<1>14. ~(rwJob' = [rwJob EXCEPT !.st = "again", !.said = answer.words])
  BY DEF Saves, RowsInv, JobFine, NoJob
<1>15. SaveRework(fresh, answer.words) \/ SaveRework(done, answer.words)
  BY <1>12, <1>13, <1>14 DEF SettleAnswer
<1> QED
  BY <1>6, <1>11, <1>15 DEF SaveRework

LEMMA SecondKeepsLink ==
    ASSUME RowsInv, NEW answer \in ReworkAnswers, SecondAnswer(answer), Saves, NEW link, LinkOf(link)
    PROVE  InPostUrl(rwRow'.cites) = link
<1>1. PICK row, note, louder : row = rwJob.row /\ note = rwJob.note /\ louder = Louder(note)
  OBVIOUS
<1>2. RowFine(row) /\ DOMAIN note = DOMAIN Note
  BY <1>1 DEF RowsInv, JobFine, SecondAnswer
<1>3. DOMAIN answer = {"words", "cites"} /\ Listing(answer.cites)
  BY ReworkAssumption, ListsAreListings
<1>4. row.kind = "draft" /\ Stays(row, louder, link)
  <2>1. louder.replaces = note.replaces
    BY <1>1, <1>2 DEF Louder, Note
  <2>2. EditsOfUrl(link, louder) = EditsOfUrl(link, note)
    BY <2>1 DEF EditsOfUrl
  <2>3. Stays(row, note, link)
    BY <1>1, LinkOfStays
  <2> QED
    BY <1>1, <2>2, <2>3 DEF LinkOf, Stays
<1>5. PICK done : done = ByModel(row, answer, louder)
  OBVIOUS
<1>6. InPostUrl(done.cites) = link
  BY <1>2, <1>3, <1>4, <1>5, ModelKeepsLink
<1>7. Refuse("writer", answer.words) \/ Refuse("quotes", answer.words) \/ SaveRework(done, answer.words)
  BY <1>1, <1>5 DEF SecondAnswer, SettleQuotes
<1>8. ~Refuse("writer", answer.words) /\ ~Refuse("quotes", answer.words)
  BY DEF Refuse, Saves, RowsInv, JobFine, NoJob
<1> QED
  BY <1>6, <1>7, <1>8 DEF SaveRework

LEMMA LinkKept ==
    ASSUME RowsInv, [ReworkNext]_reworkVars
    PROVE  LinkStays
<1>1. PICK link : link = InPostUrl(rwJob.row.cites)
  OBVIOUS
<1>2. SUFFICES ASSUME Saves, LinkOf(link) PROVE InPostUrl(rwRow'.cites) = link
  BY <1>1 DEF LinkStays, LinkOf
<1>3. CASE UNCHANGED reworkVars
  BY <1>2, <1>3 DEF reworkVars, Saves
<1>4. CASE PasteText
  BY <1>2, <1>4, PasteKeepsLink
<1>5. CASE EditByKeywords
  BY <1>2, <1>5, KeywordsKeepLink
<1>6. CASE WriterFails
  <2>1. ~Refuse("writer", <<>>)
    BY <1>2 DEF Refuse, Saves, RowsInv, JobFine, NoJob
  <2> QED
    BY <1>6, <2>1 DEF WriterFails
<1>7. ASSUME NEW answer \in ReworkAnswers, FirstAnswer(answer) PROVE InPostUrl(rwRow'.cites) = link
  BY <1>2, <1>7, FirstKeepsLink
<1>8. ASSUME NEW answer \in ReworkAnswers, SecondAnswer(answer) PROVE InPostUrl(rwRow'.cites) = link
  BY <1>2, <1>8, SecondKeepsLink
<1>9. ASSUME NEW note \in ReworkNotes, StartRework(note) PROVE FALSE
  BY <1>2, <1>9 DEF StartRework, Saves
<1>10. ASSUME NEW choice \in UrlChoices, ChangeUrl(choice) PROVE FALSE
  BY <1>2, <1>10 DEF ChangeUrl, Saves
<1>11. ASSUME NEW u \in Sites, SiteGoesDown(u) \/ SiteComesBack(u) PROVE FALSE
  BY <1>2, <1>11 DEF SiteGoesDown, SiteComesBack, Saves
<1> QED
  BY <1>3, <1>4, <1>5, <1>6, <1>7, <1>8, <1>9, <1>10, <1>11 DEF ReworkNext, ReworkStep

\* attach_rework_draft_links, promote_link_option: no paste, edit or writer puts
\* another link in the place of the one a draft has, if that answers and no edit changes it.
THEOREM LinkSafe == ReworkSpec => PickedLinkStays
<1>1. ReworkInit => RowsInv
  BY ReworkStarts
<1>2. RowsInv /\ [ReworkNext]_reworkVars => RowsInv'
  BY ReworkKeeps
<1>3. RowsInv /\ [ReworkNext]_reworkVars => LinkStays
  BY LinkKept
<1> QED
  BY <1>1, <1>2, <1>3, PTL DEF ReworkSpec, PickedLinkStays

-------------------------------------------------------------------------------
(* A text links what was found and allowed *)

\* The places at which a list has something for the first time.
FirstPlaces(urls) == {i \in DOMAIN urls : \A j \in 1..(i - 1) : urls[j] # urls[i]}

\* Each address once, where it comes first.
LEMMA DistinctKeeps ==
    ASSUME NEW S, NEW urls \in Seq(S)
    PROVE  /\ Distinct(urls) \in Seq(S)
           /\ Distinct(urls) = Keep(urls, FirstPlaces(urls))
<1>1. PICK none : none = <<>>
  OBVIOUS
<1>2. Listing(none) /\ Len(none) = 0 /\ DOMAIN none = {} /\ none \in Seq(S)
  BY <1>1, Nothing, EmptyIn
<1>3. PICK len : len = Len(urls)
  OBVIOUS
<1>4. len \in Nat /\ DOMAIN urls = 1..len /\ Listing(urls)
  BY <1>3, AnyListing
<1>5. PICK places : places = {i \in DOMAIN urls : /\ \A k \in DOMAIN none : none[k] # urls[i]
                                                  /\ \A j \in 1..(i - 1) : urls[j] # urls[i]}
  OBVIOUS
<1>6. PICK kept, upto, all : /\ kept = Keep(urls, places)
                             /\ upto = UpTo(len - Len(none), kept)
                             /\ all = none \o upto
  OBVIOUS
<1>7. Distinct(urls) = all
  BY <1>1, <1>3, <1>5, <1>6 DEF Distinct, Take, Unlike
<1>8. kept \in Seq(S) /\ Listing(kept) /\ Len(kept) \in Nat /\ Len(kept) <= len
  BY <1>3, <1>4, <1>6, KeepIsKept, KeptList, KeepShortens
<1>9. upto = kept
  <2>1. UpTo(len, kept) = SubSeq(kept, 1, Len(kept))
    BY <1>4, <1>8 DEF UpTo
  <2>2. SubSeq(kept, 1, Len(kept)) = kept
    BY <1>8
  <2>3. len - Len(none) = len
    BY <1>2, <1>4
  <2> QED
    BY <1>6, <2>1, <2>2, <2>3
<1>10. all = kept
  BY <1>1, <1>6, <1>8, <1>9
<1>11. places = FirstPlaces(urls)
  BY <1>2, <1>5 DEF FirstPlaces
<1> QED
  BY <1>6, <1>7, <1>8, <1>10, <1>11

LEMMA FirstFits ==
    ASSUME NEW S, NEW list \in Seq(S)
    PROVE  /\ FirstOf(list, AllowedTweetCite) = NoUrl
                 \/ FirstOf(list, AllowedTweetCite) \in {u \in S : AllowedTweetCite(u)}
           /\ list # <<>> /\ AllowedTweetCite(list[1]) => FirstOf(list, AllowedTweetCite) = list[1]
<1>1. PICK places : places = {i \in DOMAIN list : AllowedTweetCite(list[i])}
  OBVIOUS
<1>2. PICK kept : kept = Keep(list, places)
  OBVIOUS
<1>3. FirstOf(list, AllowedTweetCite) = FirstOption(kept)
  BY <1>1, <1>2 DEF FirstOf, Only
<1>4. Listing(list) /\ \A i \in places \cap DOMAIN list : list[i] \in {u \in S : AllowedTweetCite(u)}
  BY <1>1, AnyListing
<1>5. kept \in Seq({u \in S : AllowedTweetCite(u)})
  BY <1>2, <1>4, KeepFits
<1>6. FirstOption(kept) = NoUrl \/ FirstOption(kept) \in {u \in S : AllowedTweetCite(u)}
  <2>1. CASE kept = <<>>
    BY <2>1 DEF FirstOption
  <2>2. CASE kept # <<>>
    <3>1. kept[1] \in {u \in S : AllowedTweetCite(u)}
      BY <1>5, <2>2
    <3> QED
      BY <2>2, <3>1 DEF FirstOption
  <2> QED
    BY <2>1, <2>2
<1>7. ASSUME list # <<>>, AllowedTweetCite(list[1]) PROVE FirstOption(kept) = list[1]
  <2>1. 1 \in places
    BY <1>1, <1>7
  <2>2. kept # <<>> /\ kept[1] = list[1]
    BY <1>2, <1>4, <1>7, <2>1, KeepFirst
  <2> QED
    BY <2>2 DEF FirstOption
<1> QED
  BY <1>3, <1>6, <1>7
-------------------------------------------------------------------------------
(* What may be cited *)

\* What is picked was found: an address of the text is one of the pack.
LEMMA LinkOptionsFit ==
    ASSUME NEW A, \A u, v \in A : SamePublisherUrl(u, v) => u = v,
           NEW F, F \subseteq A, NEW pack \in Seq(F), NEW inText \in Seq(A)
    PROVE  PickLinkOptions(pack, inText) \in Seq(F)
<1>1. PICK listed, urls : /\ listed = Only(pack, LAMBDA u : ~Junk(u) /\ HostLooksLikeDns(u))
                          /\ urls = Only(inText, LAMBDA u : ~Junk(u) /\ ~IsNew(listed, u)) \o listed
  OBVIOUS
<1>2. PICK fits : fits = {i \in DOMAIN pack : ~Junk(pack[i]) /\ HostLooksLikeDns(pack[i])}
  OBVIOUS
<1>3. listed \in Seq(F)
  <2>1. listed = Keep(pack, fits)
    BY <1>1, <1>2 DEF Only
  <2> QED
    BY <2>1, KeepIsKept
<1>4. PICK cited : cited = {i \in DOMAIN inText : ~Junk(inText[i]) /\ ~IsNew(listed, inText[i])}
  OBVIOUS
<1>6. urls = Keep(inText, cited) \o listed
  BY <1>1, <1>4 DEF Only
<1>8. PickLinkOptions(pack, inText) = PickedOf(urls)
  BY <1>1 DEF PickLinkOptions, PickedOf
<1>9. ASSUME NEW i \in cited \cap DOMAIN inText PROVE inText[i] \in F
  <2>1. PICK k \in DOMAIN listed : SamePublisherUrl(listed[k], inText[i])
    BY <1>4, <1>9 DEF IsNew
  <2>2. listed[k] \in F /\ inText[i] \in A
    BY <1>3, <1>9, <2>1
  <2>3. listed[k] = inText[i]
    BY <2>1, <2>2
  <2> QED
    BY <2>2, <2>3
<1>10. Keep(inText, cited) \in Seq(F)
  BY <1>9, AnyListing, KeepFits
<1>11. urls \in Seq(F)
  BY <1>3, <1>6, <1>10
<1>12. PickedOf(urls) \in Seq(F)
  BY <1>11, PickedAll
<1> QED
  BY <1>8, <1>12

LEMMA CiteOptionsFit ==
    ASSUME NEW A, \A u, v \in A : SamePublisherUrl(u, v) => u = v,
           NEW F, F \subseteq A, NEW pack \in Seq(F), NEW inText \in Seq(A)
    PROVE  PickTweetCiteOptions(pack, inText) \in Seq({u \in F : AllowedTweetCite(u)})
<1>1. PICK listed, urls :
          /\ listed = Only(pack, AllowedTweetCite)
          /\ urls = Only(inText, LAMBDA u : ~Junk(u) /\ AllowedTweetCite(u) /\ ~IsNew(listed, u)) \o listed
  OBVIOUS
<1>2. PICK fits, FA : /\ fits = {i \in DOMAIN pack : AllowedTweetCite(pack[i])}
                      /\ FA = {u \in F : AllowedTweetCite(u)}
  OBVIOUS
<1>3. listed \in Seq(FA)
  <2>1. \A i \in fits \cap DOMAIN pack : pack[i] \in FA
    BY <1>2
  <2>2. listed = Keep(pack, fits)
    BY <1>1, <1>2 DEF Only
  <2> QED
    BY <2>1, <2>2, AnyListing, KeepFits
<1>4. PICK cited : cited = {i \in DOMAIN inText : /\ ~Junk(inText[i]) /\ AllowedTweetCite(inText[i])
                                                  /\ ~IsNew(listed, inText[i])}
  OBVIOUS
<1>6. urls = Keep(inText, cited) \o listed
  BY <1>1, <1>4 DEF Only
<1>8. PICK none : none = <<>>
  OBVIOUS
<1>9. PickTweetCiteOptions(pack, inText) = Take(none, urls, LinkCap, SamePublisherDomain)
  BY <1>1, <1>8 DEF PickTweetCiteOptions
<1>10. ASSUME NEW i \in cited \cap DOMAIN inText PROVE inText[i] \in FA
  <2>1. PICK k \in DOMAIN listed : SamePublisherUrl(listed[k], inText[i])
    BY <1>4, <1>10 DEF IsNew
  <2>2. listed[k] \in FA /\ inText[i] \in A /\ listed[k] \in A
    BY <1>2, <1>3, <1>10, <2>1
  <2>3. listed[k] = inText[i]
    BY <2>1, <2>2
  <2> QED
    BY <2>2, <2>3
<1>11. Keep(inText, cited) \in Seq(FA)
  BY <1>10, AnyListing, KeepFits
<1>12. urls \in Seq(FA)
  BY <1>3, <1>6, <1>11
<1>13. LinkCap \in Nat /\ none \in Seq(FA)
  BY <1>8, EmptyIn, CitesAssumption
<1>14. Take(none, urls, LinkCap, SamePublisherDomain) \in Seq(FA)
  BY <1>12, <1>13, SitesTaken
<1> QED
  BY <1>2, <1>9, <1>14

LEMMA AngleFits ==
    ASSUME NEW S, NEW urls \in Seq(S)
    PROVE  OnAngle(urls) \in Seq(S)
<1>1. PICK places : places = {i \in DOMAIN urls : ~Junk(urls[i]) /\ urls[i] \notin OffAngle}
  OBVIOUS
<1>2. OnAngle(urls) = Keep(urls, places)
  BY <1>1 DEF OnAngle, Only
<1> QED
  BY <1>2, KeepIsKept

\* The addresses in a text.
LEMMA TextUrlsFit ==
    ASSUME NEW text \in Seq(Paras)
    PROVE  TextUrls(text) \in Seq(UrlsMet)
<1>1. PICK urls : urls = [i \in DOMAIN text |-> text[i].url]
  OBVIOUS
<1>2. DOMAIN text = 1..Len(text) /\ Len(text) \in Nat /\ \A i \in 1..Len(text) : text[i].url \in UrlsMet \cup NoAddress
  BY DEF Paras
<1>3. urls \in Seq(UrlsMet \cup NoAddress)
  <2>1. \A i \in 1..Len(text) : urls[i] \in UrlsMet \cup NoAddress
    BY <1>1, <1>2
  <2>2. urls = [i \in 1..Len(text) |-> urls[i]]
    BY <1>1, <1>2
  <2> QED
    BY <1>2, <2>1, <2>2, IsASeq
<1>4. PICK places : places = {i \in DOMAIN urls : urls[i] # NoUrl}
  OBVIOUS
<1>5. TextUrls(text) = Keep(urls, places)
  BY <1>1, <1>4 DEF TextUrls, Only
<1>6. \A i \in places \cap DOMAIN urls : urls[i] \in UrlsMet
  BY <1>3, <1>4 DEF NoAddress
<1> QED
  BY <1>3, <1>5, <1>6, AnyListing, KeepFits

LEMMA OperatorUrlsFit ==
    ASSUME NEW r, NEW S, r.https \in Seq(S)
    PROVE  OperatorUrls(r) \in Seq({u \in S : AllowedTweetCite(u)})
<1>1. PICK https, A : https = r.https /\ A = {u \in S : AllowedTweetCite(u)}
  OBVIOUS
<1>2. https \in Seq(S)
  BY <1>1
<1>3. PICK places : places = {i \in DOMAIN https : AllowedTweetCite(https[i])}
  OBVIOUS
<1>4. PICK none, kept : none = <<>> /\ kept = Keep(https, places)
  OBVIOUS
<1>5. OperatorUrls(r) = Take(none, kept, Len(https), SamePublisherUrl)
  BY <1>1, <1>3, <1>4 DEF OperatorUrls, Only
<1>6. Len(https) \in Nat /\ none \in Seq(A)
  BY <1>2, <1>4, EmptyIn
<1>7. kept \in Seq(A)
  <2>1. \A i \in places \cap DOMAIN https : https[i] \in A
    BY <1>1, <1>2, <1>3
  <2> QED
    BY <1>2, <1>4, <2>1, AnyListing, KeepFits
<1>8. Take(none, kept, Len(https), SamePublisherUrl) \in Seq(A)
  BY <1>6, <1>7, UrlsTaken
<1> QED
  BY <1>1, <1>5, <1>8

\* What the operator gives are addresses.
LEMMA GivenMet ==
    ASSUME NEW r \in Requests
    PROVE  /\ AskedFor(r) \subseteq UrlsMet
           /\ r.https \in Seq(AskedFor(r))
           /\ BriefCite(r) = NoUrl \/ BriefCite(r) \in {u \in AskedFor(r) : AllowedTweetCite(u)}
           /\ Cite(r) = NoUrl \/ Cite(r) \in {u \in AskedFor(r) : AllowedTweetCite(u)}
           /\ r.surface = "X" => Cite(r) = BriefCite(r)
           /\ r.surface = "X" \/ r.surface = "LinkedIn"
           /\ r.kind \in Kinds
<1>1. IsList(r.https) /\ (r.surface = "X" \/ r.surface = "LinkedIn") /\ r.kind \in Kinds
  BY GroundedAssumption
<1>2. PICK here : here = {r.https[i] : i \in DOMAIN r.https}
  OBVIOUS
<1>3. r.https \in Seq(here) /\ here = ToSet(r.https)
  BY <1>1, <1>2 DEF IsList, ToSet
<1>4. AskedFor(r) = here \cup ({r.forced} \ NoAddress)
  BY <1>2, <1>3 DEF AskedFor
<1>5. AskedFor(r) \subseteq UrlsMet
  BY <1>3, <1>4 DEF UrlsMet, GivenUrls
<1>6. r.https \in Seq(AskedFor(r))
  BY <1>3, <1>4, SeqMonotonic
<1>7. BriefCite(r) = NoUrl \/ BriefCite(r) \in {u \in AskedFor(r) : AllowedTweetCite(u)}
  BY <1>6, FirstFits DEF BriefCite
<1>8. Cite(r) = NoUrl \/ Cite(r) \in {u \in AskedFor(r) : AllowedTweetCite(u)}
  <2>1. CASE Cite(r) = BriefCite(r)
    BY <1>7, <2>1
  <2>2. CASE r.forced # NoUrl /\ AllowedTweetCite(r.forced) /\ Cite(r) = r.forced
    BY <1>4, <2>2 DEF NoAddress
  <2> QED
    BY <2>1, <2>2 DEF Cite
<1>9. r.surface = "X" => Cite(r) = BriefCite(r)
  BY DEF Cite
<1> QED
  BY <1>1, <1>5, <1>6, <1>7, <1>8, <1>9

\* The options of a draft were found, answer, and the cite leads them when it answers.
LEMMA DraftOptionsFit ==
    ASSUME NEW F, F \subseteq UrlsMet, NEW cite, cite = NoUrl \/ cite \in F,
           NEW pack \in Seq(F), NEW pool \in Seq(F), NEW text \in Seq(Paras)
    PROVE  /\ DraftOptions(cite, pack, pool, text) \in Seq(F)
           /\ \A i \in DOMAIN DraftOptions(cite, pack, pool, text) : Answers(DraftOptions(cite, pack, pool, text)[i], gLive)
           /\ cite # NoUrl /\ AllowedTweetCite(cite) /\ ~XNonStatus(cite) /\ Answers(cite, gLive)
              => /\ DraftOptions(cite, pack, pool, text) # <<>>
                 /\ DraftOptions(cite, pack, pool, text)[1] = cite
<1>1. PICK onPack, onPool, urls : onPack = OnAngle(pack) /\ onPool = OnAngle(pool) /\ urls = TextUrls(text)
  OBVIOUS
<1>2. onPack \in Seq(F) /\ onPool \in Seq(F) /\ urls \in Seq(UrlsMet)
  BY <1>1, AngleFits, TextUrlsFit
<1>3. PICK picked : picked = PickLinkOptions(onPack, urls)
  OBVIOUS
<1>4. picked \in Seq(F)
  <2>1. \A u, v \in UrlsMet : SamePublisherUrl(u, v) => u = v
    BY GroundedAssumption
  <2> QED
    BY <1>2, <1>3, <2>1, LinkOptionsFit
<1>5. PICK led : led = IF cite = NoUrl THEN picked ELSE PromoteLinkOption(picked, cite)
  OBVIOUS
<1>6. led \in Seq(F) /\ (cite # NoUrl => led # <<>> /\ led[1] = cite)
  <2>1. CASE cite = NoUrl
    BY <1>4, <1>5, <2>1
  <2>2. CASE cite # NoUrl
    <3>1. cite \in F
      BY <2>2
    <3>2. /\ PromoteLinkOption(picked, cite) \in Seq(F)
          /\ Len(PromoteLinkOption(picked, cite)) \in 1..LinkCap
          /\ PromoteLinkOption(picked, cite)[1] = cite
      BY <1>4, <3>1, Promoted
    <3>3. Len(<<>>) = 0
      BY Nothing
    <3> QED
      BY <1>5, <2>2, <3>2, <3>3, CitesAssumption
  <2> QED
    BY <2>1, <2>2
<1>7. PICK live : live = gLive
  OBVIOUS
<1>8. DraftOptions(cite, pack, pool, text) = ReachableOptions(led, onPool, live)
  BY <1>1, <1>3, <1>5, <1>7 DEF DraftOptions
<1>9. /\ ReachableOptions(led, onPool, live) \in Seq({u \in F : Answers(u, live)})
      /\ led # <<>> /\ AllowedTweetCite(led[1]) /\ ~XNonStatus(led[1]) /\ Answers(led[1], live)
         => /\ ReachableOptions(led, onPool, live) # <<>>
            /\ ReachableOptions(led, onPool, live)[1] = led[1]
  <2>1. Listing(led) /\ Listing(onPool)
    BY <1>2, <1>6, AnyListing
  <2>2. ReachableOptions(led, onPool, live) \in Seq({u \in F : Answers(u, live)})
    BY <1>2, <1>6, ReachedFits
  <2> QED
    BY <2>1, <2>2, ReachedFirst
<1>10. PICK draft : draft = ReachableOptions(led, onPool, live)
  OBVIOUS
<1>11. draft \in Seq(F) /\ \A i \in DOMAIN draft : Answers(draft[i], live)
  <2>1. draft \in Seq({u \in F : Answers(u, live)})
    BY <1>9, <1>10
  <2>2. {u \in F : Answers(u, live)} \subseteq F
    OBVIOUS
  <2>3. draft \in Seq(F)
    BY <2>1, <2>2, SeqMonotonic
  <2>4. \A i \in DOMAIN draft : Answers(draft[i], live)
    BY <2>1
  <2> QED
    BY <2>3, <2>4
<1> QED
  BY <1>6, <1>7, <1>8, <1>9, <1>10, <1>11

\* The first element of a list that is in G is in P.
Leads(list, G, P) ==
    \E i \in DOMAIN list : list[i] \in G \cap P /\ \A j \in 1..(i - 1) : list[j] \notin G

\* What stands before another list leads.
LEMMA LeadsBefore ==
    ASSUME NEW S, NEW pack \in Seq(S), NEW rest \in Seq(S), NEW G, \E i \in DOMAIN pack : pack[i] \in G
    PROVE  Leads(pack \o rest, G, ToSet(pack))
<1>1. PICK all : all = pack \o rest
  OBVIOUS
<1>2. DOMAIN pack = 1..Len(pack) /\ Len(pack) \in Nat
  OBVIOUS
<1>3. PICK those : those = {i \in DOMAIN pack : pack[i] \in G}
  OBVIOUS
<1>4. those \subseteq Nat /\ those # {}
  BY <1>2, <1>3
<1>5. PICK least \in those : \A n \in those : least <= n
  BY <1>4, LeastNatural
<1>6. least \in 1..Len(pack) /\ pack[least] \in G
  BY <1>2, <1>3, <1>5
<1>7. \A i \in 1..Len(pack) : i \in DOMAIN all /\ all[i] = pack[i]
  BY <1>1, <1>2
<1>8. ASSUME NEW j \in 1..(least - 1) PROVE all[j] \notin G
  <2>1. j \in 1..Len(pack) /\ ~(least <= j)
    BY <1>2, <1>6
  <2>2. j \notin those
    BY <1>5, <2>1
  <2> QED
    BY <1>2, <1>3, <1>7, <2>1, <2>2
<1>9. all[least] \in G \cap ToSet(pack)
  BY <1>2, <1>6, <1>7 DEF ToSet
<1> QED
  BY <1>1, <1>6, <1>7, <1>8, <1>9 DEF Leads

\* It leads what is kept of the list too, if the first of G is.
LEMMA LeadsOn ==
    ASSUME NEW S, NEW list \in Seq(S), NEW places, NEW G, NEW P, Leads(list, G, P),
           \A i \in DOMAIN list : list[i] \in G /\ (\A j \in 1..(i - 1) : list[j] \notin G) => i \in places
    PROVE  Leads(Keep(list, places), G, P)
<1>1. PICK kept, len : kept = Keep(list, places) /\ len = Len(kept)
  OBVIOUS
<1>2. kept \in Seq(S) /\ IsKept(kept, list, places)
  BY <1>1, KeepIsKept
<1>3. DOMAIN kept = 1..len /\ len \in Nat /\ DOMAIN list = 1..Len(list) /\ Len(list) \in Nat
  BY <1>1, <1>2
<1>4. PICK at \in [1..len -> places \cap DOMAIN list] :
          /\ \A k \in 1..len : kept[k] = list[at[k]]
          /\ \A j, k \in 1..len : j < k => at[j] < at[k]
          /\ \A i \in places \cap DOMAIN list : \E k \in 1..len : at[k] = i
  BY <1>1, <1>2 DEF IsKept
<1>5. PICK i \in DOMAIN list : list[i] \in G \cap P /\ \A j \in 1..(i - 1) : list[j] \notin G
  BY DEF Leads
<1>6. i \in places
  BY <1>5
<1>7. PICK k \in 1..len : at[k] = i
  BY <1>4, <1>6
<1>8. kept[k] \in G \cap P
  BY <1>4, <1>5, <1>7
<1>9. ASSUME NEW j \in 1..(k - 1) PROVE kept[j] \notin G
  <2>1. j \in 1..len /\ j < k
    BY <1>3
  <2>2. at[j] \in 1..Len(list) /\ at[j] < i
    BY <1>3, <1>4, <1>7, <2>1
  <2>3. at[j] \in 1..(i - 1)
    BY <1>3, <2>2
  <2> QED
    BY <1>4, <1>5, <2>1, <2>3
<1> QED
  BY <1>1, <1>3, <1>8, <1>9 DEF Leads

LEMMA LeadsEach ==
    ASSUME NEW S, NEW list \in Seq(S), NEW G, NEW P, Leads(list, G, P)
    PROVE  Leads(Distinct(list), G, P)
<1>1. PICK places : places = FirstPlaces(list)
  OBVIOUS
<1>2. ASSUME NEW i \in DOMAIN list, list[i] \in G, \A j \in 1..(i - 1) : list[j] \notin G
      PROVE  i \in places
  BY <1>1, <1>2 DEF FirstPlaces
<1>3. Leads(Keep(list, places), G, P)
  BY <1>2, LeadsOn
<1> QED
  BY <1>1, <1>3, DistinctKeeps

\* What refills the options of a draft: an address that answers.
Refills(u, live) == ~Junk(u) /\ AllowedTweetCite(u) /\ Answers(u, live)

\* The options of a draft begin with one of those it has been given, if one answers, or else
\* with the first of the pool.
LEMMA ReachedLed ==
    ASSUME NEW S, NEW P, NEW options \in Seq(P), NEW pool \in Seq(S), NEW live,
           Leads(pool, {u \in S : Refills(u, live)}, P), ReachableOptions(options, pool, live) # <<>>
    PROVE  ReachableOptions(options, pool, live)[1] \in P
<1>1. PICK kept, first : kept = FilterReachable(options, live) /\ first = UpTo(LinkCap, kept)
  OBVIOUS
<1>2. LinkCap \in Nat /\ LinkCap \in Int /\ LinkCap >= 1
  BY CitesAssumption
<1>3. kept \in Seq(P)
  BY <1>1, FilteredFits
<1>4. first \in Seq(P)
  BY <1>1, <1>2, <1>3, UpToIn
<1>5. PICK places : places = {i \in DOMAIN pool : /\ ~Junk(pool[i]) /\ AllowedTweetCite(pool[i])
                                                  /\ Answers(pool[i], live)}
  OBVIOUS
<1>6. PICK spare, others : spare = Keep(pool, places) /\ others = Unlike(first, spare, SamePublisherDomain)
  OBVIOUS
<1>7. PICK more : more = UpTo(LinkCap - Len(first), Keep(spare, others))
  OBVIOUS
<1>8. ReachableOptions(options, pool, live) = first \o more
  BY <1>1, <1>5, <1>6, <1>7 DEF ReachableOptions, RefillFromPool, Only, Take
<1>9. PICK G : G = {u \in S : Refills(u, live)}
  OBVIOUS
<1>10. Leads(spare, G, P) /\ spare \in Seq(G)
  <2>1. ASSUME NEW i \in DOMAIN pool PROVE i \in places <=> pool[i] \in G
    <3>1. pool[i] \in S
      OBVIOUS
    <3> QED
      BY <1>5, <1>9, <3>1 DEF Refills
  <2>2. Leads(pool, G, P)
    BY <1>9
  <2>3. Leads(spare, G, P)
    BY <1>6, <2>1, <2>2, LeadsOn
  <2>4. Listing(pool) /\ \A i \in places \cap DOMAIN pool : pool[i] \in G
    BY <2>1, AnyListing
  <2>5. spare \in Seq(G)
    BY <1>6, <2>4, KeepFits
  <2> QED
    BY <2>3, <2>5
<1>11. spare # <<>> /\ spare[1] \in P
  <2>1. PICK i \in DOMAIN spare : spare[i] \in G \cap P /\ \A j \in 1..(i - 1) : spare[j] \notin G
    BY <1>10 DEF Leads
  <2>2. DOMAIN spare = 1..Len(spare) /\ Len(spare) \in Nat
    BY <1>10
  <2>3. 1 \in DOMAIN spare /\ spare[1] \in G
    BY <1>10, <2>1, <2>2
  <2>4. i = 1
    <3>1. ~(1 \in 1..(i - 1))
      BY <2>1, <2>3
    <3> QED
      BY <2>1, <2>2, <3>1
  <2>5. spare # <<>>
    BY <1>10, <2>3
  <2> QED
    BY <2>1, <2>4, <2>5
<1>12. CASE first # <<>>
  <2>1. Listing(first) /\ Listing(more)
    <3>1. Listing(spare)
      BY <1>10, AnyListing
    <3>2. Listing(Keep(spare, others))
      BY <3>1, KeptList
    <3>3. LinkCap - Len(first) \in Int
      BY <1>2, <1>4
    <3>4. Listing(more)
      BY <1>7, <3>2, <3>3, UpToList
    <3> QED
      BY <1>4, <3>4, AnyListing
  <2>2. \A i \in DOMAIN first : (first \o more)[i] = first[i]
    BY <2>1, Joined
  <2>3. 1 \in DOMAIN first /\ first[1] \in P
    BY <1>4, <1>12
  <2> QED
    BY <1>8, <2>2, <2>3
<1>13. CASE first = <<>>
  <2>1. Len(first) = 0 /\ DOMAIN first = {}
    BY <1>13, Nothing
  <2>2. Listing(spare)
    BY <1>10, AnyListing
  <2>3. 1 \in others
    <3>1. 1 \in DOMAIN spare
      BY <1>10, <1>11
    <3> QED
      BY <1>6, <2>1, <3>1 DEF Unlike
  <2>4. PICK rest : rest = Keep(spare, others)
    OBVIOUS
  <2>5. rest # <<>> /\ rest[1] = spare[1] /\ Listing(rest)
    BY <1>11, <2>2, <2>3, <2>4, KeepFirst, KeptList
  <2>6. more = UpTo(LinkCap, rest)
    BY <1>2, <1>7, <2>1, <2>4
  <2>7. Listing(more) /\ \A k \in DOMAIN more : more[k] = rest[k]
    BY <1>2, <2>5, <2>6, UpToList
  <2>8. first \o more = more
    <3>1. PICK T : more \in Seq(T)
      BY <2>7 DEF Listing
    <3> QED
      BY <1>13, <3>1
  <2>9. 1 \in DOMAIN more
    <3>1. more # <<>>
      BY <1>8, <2>8
    <3>2. PICK T : more \in Seq(T)
      BY <2>7 DEF Listing
    <3> QED
      BY <3>1, <3>2
  <2>10. more[1] = spare[1]
    BY <2>5, <2>7, <2>9
  <2> QED
    BY <1>8, <1>11, <2>8, <2>10
<1> QED
  BY <1>12, <1>13

\* A draft is linked to its pack or its cite as long as an address of the pack answers.
LEMMA DraftOptionsLed ==
    ASSUME NEW F, F \subseteq UrlsMet, NEW cite, cite = NoUrl \/ cite \in F,
           NEW pack \in Seq(F), NEW rest \in Seq(F), NEW text \in Seq(Paras),
           FilterReachable(OnAngle(pack), gLive) # <<>>,
           DraftOptions(cite, pack, Distinct(pack \o rest), text) # <<>>
    PROVE  DraftOptions(cite, pack, Distinct(pack \o rest), text)[1] \in ToSet(pack) \cup {cite}
<1>1. PICK live, P, all, pool : /\ live = gLive /\ P = ToSet(pack) \cup {cite}
                                /\ all = pack \o rest /\ pool = Distinct(all)
  OBVIOUS
<1>2. all \in Seq(F) /\ pack \in Seq(ToSet(pack)) /\ ToSet(pack) \subseteq F
  <2>1. Listing(pack)
    BY AnyListing
  <2>2. pack \in Seq(ToSet(pack))
    BY <2>1 DEF Listing, ToSet
  <2>3. ToSet(pack) \subseteq F
    BY DEF ToSet
  <2>4. all \in Seq(F)
    BY <1>1
  <2> QED
    BY <2>2, <2>3, <2>4
<1>3. pool \in Seq(F)
  BY <1>1, <1>2, DistinctKeeps
<1>4. PICK onPack, onPool, urls : onPack = OnAngle(pack) /\ onPool = OnAngle(pool) /\ urls = TextUrls(text)
  OBVIOUS
<1>5. onPack \in Seq(ToSet(pack)) /\ onPool \in Seq(F) /\ urls \in Seq(UrlsMet)
  BY <1>2, <1>3, <1>4, AngleFits, TextUrlsFit
<1>6. PICK picked : picked = PickLinkOptions(onPack, urls)
  OBVIOUS
<1>7. picked \in Seq(ToSet(pack))
  <2>1. \A u, v \in UrlsMet : SamePublisherUrl(u, v) => u = v
    BY GroundedAssumption
  <2>2. ToSet(pack) \subseteq UrlsMet
    BY <1>2
  <2> QED
    BY <1>5, <1>6, <2>1, <2>2, LinkOptionsFit
<1>8. PICK led : led = IF cite = NoUrl THEN picked ELSE PromoteLinkOption(picked, cite)
  OBVIOUS
<1>9. picked \in Seq(P)
  BY <1>1, <1>7, SeqMonotonic
<1>10. led \in Seq(P)
  <2>1. cite \in P
    BY <1>1
  <2>2. PromoteLinkOption(picked, cite) \in Seq(P)
    BY <1>9, <2>1, Promoted
  <2> QED
    BY <1>8, <1>9, <2>2
<1>11. PICK draft : draft = ReachableOptions(led, onPool, live)
  OBVIOUS
<1>12. DraftOptions(cite, pack, pool, text) = draft
  BY <1>1, <1>4, <1>6, <1>8, <1>11 DEF DraftOptions
<1>13. PICK G : G = {u \in F : Refills(u, live) /\ u \notin OffAngle}
  OBVIOUS
<1>14. \E i \in DOMAIN pack : pack[i] \in G
  <2>1. PICK some : some = {i \in DOMAIN pack : ~Junk(pack[i]) /\ pack[i] \notin OffAngle}
    OBVIOUS
  <2>2. onPack = Keep(pack, some)
    BY <1>4, <2>1 DEF OnAngle, Only
  <2>3. PICK those : those = {i \in DOMAIN onPack : /\ AllowedTweetCite(onPack[i]) /\ ~XNonStatus(onPack[i])
                                                    /\ Answers(onPack[i], live)}
    OBVIOUS
  <2>4. FilterReachable(onPack, live) = Keep(onPack, those)
    BY <2>3 DEF FilterReachable, Only
  <2>5. PICK reached : reached = Keep(onPack, those)
    OBVIOUS
  <2>6. reached # <<>>
    BY <1>1, <1>4, <2>4, <2>5
  <2>7. reached \in Seq(ToSet(pack))
    BY <1>5, <2>5, KeepIsKept
  <2>8. 1 \in DOMAIN reached
    BY <2>6, <2>7
  <2>9. Listing(onPack) /\ Listing(pack)
    BY <1>5, AnyListing
  <2>10. PICK k \in those \cap DOMAIN onPack : reached[1] = onPack[k]
    BY <2>5, <2>8, <2>9, KeptList
  <2>11. PICK i \in some \cap DOMAIN pack : onPack[k] = pack[i]
    BY <2>2, <2>9, <2>10, KeptList
  <2>12. Refills(pack[i], live) /\ pack[i] \notin OffAngle /\ pack[i] \in F
    BY <2>1, <2>3, <2>10, <2>11 DEF Refills
  <2> QED
    BY <1>13, <2>11, <2>12
<1>15. Leads(pool, G, ToSet(pack))
  <2>1. Leads(all, G, ToSet(pack))
    BY <1>1, <1>14, LeadsBefore
  <2> QED
    BY <1>1, <1>2, <2>1, LeadsEach
<1>16. Leads(onPool, G, ToSet(pack))
  <2>1. PICK some : some = {i \in DOMAIN pool : ~Junk(pool[i]) /\ pool[i] \notin OffAngle}
    OBVIOUS
  <2>2. onPool = Keep(pool, some)
    BY <1>4, <2>1 DEF OnAngle, Only
  <2>3. \A i \in DOMAIN pool : pool[i] \in G => i \in some
    BY <1>13, <2>1 DEF Refills
  <2> QED
    BY <1>3, <1>15, <2>2, <2>3, LeadsOn
<1>17. PICK S : S = {u \in F : u \notin OffAngle}
  OBVIOUS
<1>18. onPool \in Seq(S) /\ G = {u \in S : Refills(u, live)}
  <2>1. PICK some : some = {i \in DOMAIN pool : ~Junk(pool[i]) /\ pool[i] \notin OffAngle}
    OBVIOUS
  <2>2. onPool = Keep(pool, some)
    BY <1>4, <2>1 DEF OnAngle, Only
  <2>3. Listing(pool) /\ \A i \in some \cap DOMAIN pool : pool[i] \in S
    BY <1>3, <1>17, <2>1, AnyListing
  <2>4. onPool \in Seq(S)
    BY <2>2, <2>3, KeepFits
  <2> QED
    BY <1>13, <1>17, <2>4
<1>19. Leads(onPool, G, P)
  BY <1>1, <1>16 DEF Leads
<1>20. Leads(onPool, {u \in S : Refills(u, live)}, P)
  BY <1>18, <1>19
<1>21. draft # <<>>
  BY <1>1, <1>12
<1>22. draft[1] \in P
  BY <1>10, <1>11, <1>18, <1>20, <1>21, ReachedLed
<1> QED
  BY <1>1, <1>12, <1>22

LEMMA EnsuredFit ==
    ASSUME NEW S, NEW options \in Seq(S), NEW urls \in Seq(S), Len(options) <= LinkCap
    PROVE  EnsureOptions(options, urls) \in Seq(S)
BY EnsuredAll

\* Those of a tweet may be cited, and the operator's cite leads them.
LEMMA TweetOptionsFit ==
    ASSUME NEW r \in Requests, NEW F, F \subseteq UrlsMet, AskedFor(r) \subseteq F,
           NEW pack \in Seq(F), NEW text \in Seq(Paras)
    PROVE  /\ TweetOptions(r, pack, text) \in Seq({u \in F : AllowedTweetCite(u)})
           /\ BriefCite(r) # NoUrl => /\ TweetOptions(r, pack, text) # <<>>
                                      /\ TweetOptions(r, pack, text)[1] = BriefCite(r)
<1>1. PICK onPack, urls, FA : /\ onPack = OnAngle(pack) /\ urls = TextUrls(text)
                              /\ FA = {u \in F : AllowedTweetCite(u)}
  OBVIOUS
<1>2. onPack \in Seq(F) /\ urls \in Seq(UrlsMet)
  BY <1>1, AngleFits, TextUrlsFit
<1>3. PICK picked : picked = PickTweetCiteOptions(onPack, urls)
  OBVIOUS
<1>4. picked \in Seq(FA)
  <2>1. \A u, v \in UrlsMet : SamePublisherUrl(u, v) => u = v
    BY GroundedAssumption
  <2> QED
    BY <1>1, <1>2, <1>3, <2>1, CiteOptionsFit
<1>5. Len(picked) <= LinkCap
  BY <1>2, <1>3, AnyListing, CiteOptionsPicked
<1>6. OperatorUrls(r) \in Seq(FA)
  <2>1. r.https \in Seq(F)
    BY GivenMet, SeqMonotonic
  <2> QED
    BY <1>1, <2>1, OperatorUrlsFit
<1>7. PICK asked : asked = EnsureOptions(picked, OperatorUrls(r))
  OBVIOUS
<1>8. asked \in Seq(FA)
  BY <1>4, <1>5, <1>6, <1>7, EnsuredFit
<1>9. PICK cite : cite = BriefCite(r)
  OBVIOUS
<1>10. TweetOptions(r, pack, text) = IF cite = NoUrl THEN asked ELSE PromoteLinkOption(asked, cite)
  BY <1>1, <1>3, <1>7, <1>9 DEF TweetOptions
<1>11. CASE cite = NoUrl
  BY <1>1, <1>8, <1>9, <1>10, <1>11
<1>12. CASE cite # NoUrl
  <2>1. cite \in FA
    BY <1>1, <1>9, <1>12, GivenMet
  <2>2. /\ PromoteLinkOption(asked, cite) \in Seq(FA)
        /\ Len(PromoteLinkOption(asked, cite)) \in 1..LinkCap
        /\ PromoteLinkOption(asked, cite)[1] = cite
    BY <1>8, <2>1, Promoted
  <2>3. Len(<<>>) = 0
    BY Nothing
  <2> QED
    BY <1>1, <1>9, <1>10, <1>12, <2>2, <2>3, CitesAssumption
<1> QED
  BY <1>11, <1>12
-------------------------------------------------------------------------------
(* What is found *)

LEMMA OnlySome ==
    ASSUME NEW S, NEW list \in Seq(S), NEW places
    PROVE  Keep(list, places) \in Seq(S)
BY KeepIsKept

LEMMA FoundMet ==
    ASSUME NEW find \in Finds
    PROVE  /\ find.serp \in Seq(UrlsMet) /\ find.browsed \in Seq(UrlsMet) /\ find.listed \in Seq(UrlsMet)
           /\ find.inside \in Seq(UrlsMet) /\ find.posts \in Seq(UrlsMet)
<1>1. ASSUME NEW list \in ListsOf(find) PROVE list \in Seq(UrlsMet)
  <2>1. list \in Seq(ToSet(list))
    BY GroundedAssumption DEF IsList
  <2>2. PICK here : here = UNION {ToSet(l) : l \in ListsOf(find)}
    OBVIOUS
  <2>3. ToSet(list) \subseteq here
    BY <2>2
  <2>4. here \subseteq UNION {UNION {ToSet(l) : l \in ListsOf(f)} : f \in Finds}
    BY <2>2
  <2>5. ToSet(list) \subseteq UrlsMet
    BY <2>3, <2>4 DEF UrlsMet, FoundUrls
  <2> QED
    BY <2>1, <2>5, SeqMonotonic
<1> QED
  BY <1>1 DEF ListsOf

LEMMA CandidatesMet ==
    ASSUME NEW r \in Requests, NEW find \in Finds, NEW cite \in UrlsMet
    PROVE  ShortCandidates(r, cite, find) \in Seq(UrlsMet)
<1>1. PICK inside, urls, searched, posts :
          /\ inside = find.inside /\ urls = OperatorUrls(r)
          /\ searched = Searched(r, cite, find) /\ posts = find.posts
  OBVIOUS
<1>2. inside \in Seq(UrlsMet) /\ posts \in Seq(UrlsMet) /\ searched \in Seq(UrlsMet)
  BY <1>1, FoundMet, EmptyIn DEF Searched
<1>3. urls \in Seq(UrlsMet)
  <2>1. r.https \in Seq(UrlsMet)
    BY GivenMet, SeqMonotonic
  <2>2. OperatorUrls(r) \in Seq({u \in UrlsMet : AllowedTweetCite(u)})
    BY <2>1, OperatorUrlsFit
  <2>3. {u \in UrlsMet : AllowedTweetCite(u)} \subseteq UrlsMet
    OBVIOUS
  <2> QED
    BY <1>1, <2>2, <2>3, SeqMonotonic
<1>4. PICK a, b, c, d :
          /\ a = {i \in DOMAIN inside : inside[i] # cite /\ ~XStatus(inside[i])}
          /\ b = {i \in DOMAIN urls : urls[i] # cite}
          /\ c = {i \in DOMAIN searched : (searched[i] # cite /\ ~XStatus(searched[i])) /\ AllowedTweetCite(searched[i])}
          /\ d = {i \in DOMAIN posts : XStatus(posts[i]) /\ posts[i] # cite}
  OBVIOUS
<1>5. PICK all : all = <<cite>> \o Keep(inside, a) \o Keep(urls, b) \o Keep(searched, c) \o Keep(posts, d)
  OBVIOUS
<1>6. ShortCandidates(r, cite, find) = Distinct(all)
  BY <1>1, <1>4, <1>5 DEF ShortCandidates, Only
<1>7. PICK one : one = <<cite>>
  OBVIOUS
<1>8. one \in Seq(UrlsMet)
  BY <1>7
<1>9. /\ Keep(inside, a) \in Seq(UrlsMet) /\ Keep(urls, b) \in Seq(UrlsMet)
      /\ Keep(searched, c) \in Seq(UrlsMet) /\ Keep(posts, d) \in Seq(UrlsMet)
  BY <1>2, <1>3, OnlySome
<1>10. all \in Seq(UrlsMet)
  BY <1>5, <1>7, <1>8, <1>9
<1> QED
  BY <1>6, <1>10, DistinctKeeps

LEMMA AssembledMet ==
    ASSUME NEW cite \in UrlsMet, NEW candidates \in Seq(UrlsMet)
    PROVE  AssembleAndProbe(cite, candidates) \in Seq(UrlsMet)
<1>1. PICK capped, probed, live : /\ capped = CapUrlsByDomain(candidates, LinkCap) /\ live = gLive
                                  /\ probed = FilterReachable(capped, live)
  OBVIOUS
<1>2. capped \in Seq(UrlsMet)
  BY <1>1, Capped
<1>3. probed \in Seq(UrlsMet)
  BY <1>1, <1>2, FilteredFits
<1>4. <<cite>> \o probed \in Seq(UrlsMet)
  BY <1>3
<1>5. AssembleAndProbe(cite, candidates) \in {probed, <<cite>> \o probed}
  BY <1>1 DEF AssembleAndProbe
<1> QED
  BY <1>3, <1>4, <1>5

LEMMA ProbedMet ==
    ASSUME NEW r, NEW cite \in UrlsMet, NEW urls \in Seq(UrlsMet)
    PROVE  ProbeAgain(r, cite, urls) \in Seq(UrlsMet)
<1>1. PICK again, live : live = gLive /\ again = FilterReachable(urls, live)
  OBVIOUS
<1>2. again \in Seq(UrlsMet)
  BY <1>1, FilteredFits
<1>3. <<cite>> \o again \in Seq(UrlsMet)
  BY <1>2
<1>4. ProbeAgain(r, cite, urls) \in {again, <<cite>> \o again}
  BY <1>1 DEF ProbeAgain
<1> QED
  BY <1>2, <1>3, <1>4

LEMMA OpenedMet ==
    ASSUME NEW find \in Finds, NEW landed \in FoundUrls \cup NoAddress
    PROVE  Opened(find, landed) \in Seq(UrlsMet) /\ Browsed(find, landed) \in Seq(UrlsMet)
<1>1. PICK serp, browsed, listed : serp = find.serp /\ browsed = find.browsed /\ listed = find.listed
  OBVIOUS
<1>2. serp \in Seq(UrlsMet) /\ browsed \in Seq(UrlsMet) /\ listed \in Seq(UrlsMet)
  BY <1>1, FoundMet
<1>3. PICK all, some : all = serp \o browsed \o listed /\ some = {i \in DOMAIN all : ~Junk(all[i])}
  OBVIOUS
<1>4. PICK kept, urls : kept = Keep(all, some) /\ urls = UpTo(LinkCap, Distinct(kept))
  OBVIOUS
<1>5. PackFromLoad(find) = urls
  BY <1>1, <1>3, <1>4 DEF PackFromLoad, Only
<1>6. all \in Seq(UrlsMet)
  BY <1>2, <1>3
<1>7. kept \in Seq(UrlsMet)
  BY <1>4, <1>6, OnlySome
<1>8. Distinct(kept) \in Seq(UrlsMet) /\ LinkCap \in Int
  BY <1>7, DistinctKeeps, CitesAssumption
<1>9. urls \in Seq(UrlsMet)
  BY <1>4, <1>8, UpToIn
<1>10. urls # <<>> => Tail(urls) \in Seq(UrlsMet)
  BY <1>9
<1>11. Opened(find, landed) = urls \/ (urls # <<>> /\ Opened(find, landed) = Tail(urls))
  BY <1>5 DEF Opened, OpensItself
<1>12. Browsed(find, landed) = browsed \/ (landed # NoUrl /\ Browsed(find, landed) = <<landed>>)
  BY <1>1 DEF Browsed
<1>13. landed # NoUrl => <<landed>> \in Seq(UrlsMet)
  BY DEF UrlsMet, NoAddress
<1> QED
  BY <1>2, <1>9, <1>10, <1>11, <1>12, <1>13

-------------------------------------------------------------------------------
(* What is written *)

LEMMA Shapes ==
    ASSUME NEW text \in Seq(Paras)
    PROVE  /\ Commentary(text) \in Seq(Paras)
           /\ ScrubInvented(text) \in Seq(Paras)
           /\ StripMush(text) \in Seq(Paras)
<1>1. PICK a, b, c : /\ a = {i \in DOMAIN text : text[i].at # "line"}
                     /\ b = {i \in DOMAIN text : text[i].url = NoUrl \/ ~Junk(text[i].url)}
                     /\ c = {i \in DOMAIN text : text[i].says # "mush"}
  OBVIOUS
<1>2. Commentary(text) = Keep(text, a)
  BY <1>1 DEF Commentary, Only
<1>3. ScrubInvented(text) = Keep(text, b)
  BY <1>1 DEF ScrubInvented, Only
<1>4. StripMush(text) = Keep(text, c)
  BY <1>1 DEF StripMush, Only
<1> QED
  BY <1>2, <1>3, <1>4, OnlySome

LEMMA UrlDropped ==
    ASSUME NEW p \in Paras
    PROVE  WithoutUrl(p) \in Paras /\ WithoutUrl(p).quote = p.quote
<1>1. p.says \in Says /\ p.quote \in Quotations
  BY DEF Paras
<1>2. PICK at : at = IF p.at = "parens" THEN "hole" ELSE "none"
  OBVIOUS
<1>3. at \in CitePlaces /\ at # "line"
  BY <1>2 DEF CitePlaces
<1>4. WithoutUrl(p) = [says |-> p.says, url |-> NoUrl, at |-> at, quote |-> p.quote]
  BY <1>2 DEF WithoutUrl
<1> QED
  BY <1>1, <1>3, <1>4 DEF Paras, NoAddress

LEMMA InParagraph ==
    ASSUME NEW p \in Paras, NEW first
    PROVE  InOneParagraph(p, first) \in Paras
<1>1. /\ p.says \in Says /\ p.quote \in Quotations /\ p.url \in UrlsMet \cup NoAddress /\ p.at \in CitePlaces
      /\ p.at = "line" => p.quote = NoQuote
  BY DEF Paras
<1>2. PICK says, at : /\ says = IF p.says = "beat" \/ (p.says = "tags" /\ ~first) THEN "aside" ELSE p.says
                      /\ at = IF p.at = "line" THEN "inline" ELSE p.at
  OBVIOUS
<1>3. says \in Says /\ at \in CitePlaces /\ at # "line"
  BY <1>1, <1>2 DEF Says, CitePlaces
<1>4. InOneParagraph(p, first) = [says |-> says, url |-> p.url, at |-> at, quote |-> p.quote]
  BY <1>2 DEF InOneParagraph
<1> QED
  BY <1>1, <1>3, <1>4 DEF Paras

LEMMA PackScrubbed ==
    ASSUME NEW text \in Seq(Paras), NEW pack
    PROVE  ScrubOutsidePack(text, pack) \in Seq(Paras)
<1>1. PICK places : places = {i \in DOMAIN text : ~(text[i].at = "line" /\ (text[i].url # NoUrl /\ IsNew(pack, text[i].url)))}
  OBVIOUS
<1>2. PICK kept : kept = Keep(text, places)
  OBVIOUS
<1>3. kept \in Seq(Paras)
  BY <1>2, OnlySome
<1>4. PICK now : now = [i \in 1..Len(kept) |-> IF kept[i].url # NoUrl /\ IsNew(pack, kept[i].url)
                                               THEN WithoutUrl(kept[i]) ELSE kept[i]]
  OBVIOUS
<1>5. DOMAIN kept = 1..Len(kept) /\ Len(kept) \in Nat /\ \A i \in 1..Len(kept) : kept[i] \in Paras
  BY <1>3
<1>6. \A i \in 1..Len(kept) : now[i] \in Paras
  BY <1>4, <1>5, UrlDropped
<1>7. now = [i \in 1..Len(kept) |-> now[i]]
  BY <1>4
<1>8. now \in Seq(Paras)
  BY <1>5, <1>6, <1>7, IsASeq
<1>9. ScrubOutsidePack(text, pack) \in {Commentary(text), now}
  BY <1>1, <1>2, <1>4, <1>5 DEF ScrubOutsidePack, Only
<1> QED
  BY <1>8, <1>9, Shapes

LEMMA PasteStripped ==
    ASSUME NEW text \in Seq(Paras), text # <<>>
    PROVE  StripSubjectPaste(text) \in Seq(Paras)
<1>1. PICK len : len = Len(text)
  OBVIOUS
<1>2. len \in Nat /\ len # 0 /\ \A i \in 1..len : text[i] \in Paras
  BY <1>1
<1>3. PICK now : now = [i \in 1..(len - 1) |-> InOneParagraph(text[i + 1], i = 1)]
  OBVIOUS
<1>4. ASSUME NEW i \in 1..(len - 1) PROVE now[i] \in Paras
  <2>1. i + 1 \in 1..len
    BY <1>2
  <2>2. PICK p, first : p = text[i + 1] /\ (first <=> i = 1) /\ first \in BOOLEAN
    OBVIOUS
  <2>3. p \in Paras
    BY <1>2, <2>1, <2>2
  <2>4. InOneParagraph(p, first) \in Paras
    BY <2>3, InParagraph
  <2>5. InOneParagraph(p, first) = InOneParagraph(text[i + 1], i = 1)
    BY <2>2 DEF InOneParagraph
  <2> QED
    BY <1>3, <2>4, <2>5
<1>5. now = [i \in 1..(len - 1) |-> now[i]] /\ len - 1 \in Nat
  BY <1>2, <1>3
<1>6. now \in Seq(Paras)
  BY <1>4, <1>5, IsASeq
<1>7. StripSubjectPaste(text) \in {text, now}
  BY <1>1, <1>3 DEF StripSubjectPaste
<1> QED
  BY <1>6, <1>7

LEMMA Coerced ==
    ASSUME NEW text \in Seq(Paras)
    PROVE  CoerceTweet(text) \in Seq(Paras)
<1>1. PICK places : places = {i \in DOMAIN text : text[i].says # "essay"}
  OBVIOUS
<1>2. PICK beats : beats = UpTo(MaxBeats, Keep(text, places))
  OBVIOUS
<1>3. Keep(text, places) \in Seq(Paras) /\ MaxBeats \in Int
  BY OnlySome, GroundedAssumption
<1>4. beats \in Seq(Paras)
  BY <1>2, <1>3, UpToIn
<1>5. Stub \in Seq(Paras)
  <2>1. PICK p : p = [says |-> "subject", url |-> NoUrl, at |-> "none", quote |-> NoQuote]
    OBVIOUS
  <2>2. NoQuote \in Quotations
    BY DEF Quotations
  <2>3. p \in Paras
    BY <2>1, <2>2 DEF Paras, Says, CitePlaces, NoAddress
  <2>4. Stub = <<p>>
    BY <2>1 DEF Stub
  <2> QED
    BY <2>3, <2>4
<1>6. CoerceTweet(text) \in {beats, Stub}
  BY <1>1, <1>2 DEF CoerceTweet, Only
<1> QED
  BY <1>4, <1>5, <1>6

\* An answer that is taken is made of the paragraphs of a text.
LEMMA ScrubFits ==
    ASSUME NEW r, NEW answer \in Seq(Paras)
    PROVE  Scrub(r, answer).ok => Scrub(r, answer).text \in Seq(Paras)
<1>1. ScrubFarce(answer).text \in Seq(Paras)
  <2>1. PICK text : text = Commentary(answer)
    OBVIOUS
  <2>2. text \in Seq(Paras) /\ CoerceTweet(text) \in Seq(Paras)
    BY <2>1, Coerced, Shapes
  <2>3. ScrubFarce(answer).text \in {text, CoerceTweet(text)}
    BY <2>1 DEF ScrubFarce, Scrubbed
  <2> QED
    BY <2>2, <2>3
<1>2. ScrubDraft(answer, gPack).ok => ScrubDraft(answer, gPack).text \in Seq(Paras)
  <2>1. PICK pack, clean : pack = gPack /\ clean = ScrubOutsidePack(ScrubInvented(answer), pack)
    OBVIOUS
  <2>2. clean \in Seq(Paras)
    BY <2>1, PackScrubbed, Shapes
  <2>3. PICK text : text = StripMush(StripSubjectPaste(clean))
    OBVIOUS
  <2>4. \/ ScrubDraft(answer, pack) = Refused
        \/ clean # <<>> /\ ScrubDraft(answer, pack) = Scrubbed(text)
    BY <2>1, <2>3 DEF ScrubDraft
  <2>5. clean # <<>> => text \in Seq(Paras)
    BY <2>2, <2>3, PasteStripped, Shapes
  <2> QED
    BY <2>1, <2>4, <2>5 DEF Refused, Scrubbed
<1>3. ScrubTweet(answer).ok => ScrubTweet(answer).text \in Seq(Paras)
  <2>1. PICK stripped, text : stripped = StripMush(answer) /\ text = IF stripped = <<>> THEN answer ELSE stripped
    OBVIOUS
  <2>2. text \in Seq(Paras)
    BY <2>1, Shapes
  <2>3. CoerceTweet(text) \in Seq(Paras)
    BY <2>2, Coerced
  <2>4. ScrubTweet(answer) \in {Refused, Scrubbed(text), Scrubbed(CoerceTweet(text))}
    BY <2>1 DEF ScrubTweet
  <2> QED
    BY <2>2, <2>3, <2>4 DEF Refused, Scrubbed
<1>4. Scrub(r, answer) \in {ScrubFarce(answer), ScrubDraft(answer, gPack), ScrubTweet(answer), Refused}
  BY DEF Scrub
<1> QED
  BY <1>1, <1>2, <1>3, <1>4 DEF Refused

\* The line of the link quotes nothing: no quotation is cut out with it.
LEMMA QuotesStay ==
    ASSUME NEW text \in Seq(Paras)
    PROVE  /\ SetInPostUrl(text) \in Seq(Paras)
           /\ Quotes(text) \subseteq Quotes(SetInPostUrl(text))
<1>1. PICK places : places = {i \in DOMAIN text : text[i].at # "line"}
  OBVIOUS
<1>2. PICK prose : prose = Keep(text, places)
  OBVIOUS
<1>3. Commentary(text) = prose
  BY <1>1, <1>2 DEF Commentary, Only
<1>4. prose \in Seq(Paras)
  BY <1>2, OnlySome
<1>5. DOMAIN prose = 1..Len(prose) /\ Len(prose) \in Nat /\ \A i \in 1..Len(prose) : prose[i] \in Paras
  BY <1>4
<1>6. PICK now : now = [i \in 1..Len(prose) |-> IF prose[i].url = NoUrl THEN prose[i] ELSE WithoutUrl(prose[i])]
  OBVIOUS
<1>7. SetInPostUrl(text) = now
  BY <1>3, <1>5, <1>6 DEF SetInPostUrl
<1>8. \A i \in 1..Len(prose) : now[i] \in Paras /\ now[i].quote = prose[i].quote
  BY <1>5, <1>6, UrlDropped
<1>9. now = [i \in 1..Len(prose) |-> now[i]]
  BY <1>6
<1>10. now \in Seq(Paras)
  BY <1>5, <1>8, <1>9, IsASeq
<1>11. ASSUME NEW q \in Quotes(text) PROVE q \in Quotes(now)
  <2>1. PICK i \in DOMAIN text : text[i].quote = q
    BY DEF Quotes
  <2>2. q # NoQuote /\ text[i] \in Paras
    BY <2>1 DEF Quotes
  <2>3. text[i].at # "line"
    BY <2>1, <2>2 DEF Paras
  <2>4. i \in places \cap DOMAIN text
    BY <1>1, <2>1, <2>3
  <2>5. \E k \in DOMAIN Keep(text, places) : Keep(text, places)[k] = text[i]
    BY <2>4, AnyListing, KeepFinds
  <2>6. PICK k \in 1..Len(prose) : prose[k] = text[i]
    BY <1>2, <1>5, <2>5
  <2>7. now[k].quote = q /\ k \in DOMAIN now
    BY <1>6, <1>8, <2>1, <2>6
  <2> QED
    BY <2>2, <2>7 DEF Quotes
<1> QED
  BY <1>7, <1>10, <1>11
-------------------------------------------------------------------------------
(* The builds *)

\* What a session has found.
Sessions == [extracted : Seq(UrlsMet), browsed : Seq(UrlsMet)]

\* The turns of a writer without tools find nothing, those with a pack search nothing.
TurnsFine ==
    \/ gTurns = NothingFound
    \/ UsesTools(gReq) /\ (gPack = <<>> \/ gTurns.extracted = <<>>)

TextsFine ==
    /\ gReq \in Requests
    /\ gPack \in Seq(UrlsMet) /\ gLoad \in Sessions /\ gTurns \in Sessions
    /\ TurnsFine /\ (gAt \in {"idle", "probe", "load"} => gTurns = NothingFound)
    /\ gText \in Seq(Paras)
    /\ gAt = "finish" => Required(gReq) \subseteq Quotes(gText)

TextsInv == TextsFine /\ GroundedInv

LEMMA NothingSavedYet ==
    ASSUME gAt' # "saved"
    PROVE  GroundedInv'
BY DEF GroundedInv, CiteLeads, PackLeads, OptionsHaveASource, Researched

LEMMA NothingIsFound == NothingFound \in Sessions
BY EmptyIn DEF NothingFound, Sessions

\* A step to another place, with what is known kept.
LEMMA Gone ==
    ASSUME TextsInv, NEW at, at \in {"probe", "load", "failed"}, gAt \in {"idle", "probe"} \/ at = "failed",
           Goto(at), gReq' = gReq
    PROVE  TextsInv'
<1>1. gAt' = at /\ gPack' = gPack /\ gLoad' = gLoad /\ gTurns' = gTurns /\ gText' = gText
  BY DEF Goto, knownVars
<1>2. TextsFine'
  BY <1>1 DEF TextsInv, TextsFine, TurnsFine, UsesTools, Cite, BriefCite
<1>3. GroundedInv'
  BY <1>1, NothingSavedYet
<1> QED
  BY <1>2, <1>3 DEF TextsInv

LEMMA FailGoes ==
    ASSUME TextsInv, Fail, gReq' = gReq
    PROVE  TextsInv'
BY Gone DEF Fail

\* What LOAD leaves behind, before the writer has its first turn.
LEMMA KnownFine ==
    ASSUME TextsInv, gAt = "load", NEW urls \in Seq(UrlsMet), NEW extracted \in Seq(UrlsMet), NEW browsed \in Seq(UrlsMet),
           Known(urls, extracted, browsed), gAt' = "write", gText' = gText, gReq' = gReq
    PROVE  TextsInv'
<1>1. gPack' = urls /\ gTurns' = NothingFound /\ gLoad' \in Sessions
  <2>1. Distinct(extracted) \in Seq(UrlsMet) /\ Distinct(browsed) \in Seq(UrlsMet)
    BY DistinctKeeps
  <2> QED
    BY <2>1 DEF Known, Sessions, TextsInv, TextsFine
<1>2. TextsFine'
  <2>1. gReq' \in Requests /\ gText' \in Seq(Paras) /\ gAt' # "finish"
    BY DEF TextsInv, TextsFine
  <2>2. TurnsFine'
    BY <1>1 DEF TurnsFine, NothingFound
  <2> QED
    BY <1>1, <2>1, <2>2, NothingIsFound DEF TextsFine, NothingFound
<1>3. GroundedInv'
  BY NothingSavedYet
<1> QED
  BY <1>2, <1>3 DEF TextsInv

LEMMA RepoMet == Repo \in UrlsMet
BY DEF UrlsMet

LEMMA LoadedCite ==
    ASSUME TextsInv, NEW find \in Finds, LoadCite(find)
    PROVE  TextsInv'
<1>1. PICK r, cite, candidates : r = gReq /\ cite = Cite(gReq) /\ candidates = ShortCandidates(r, cite, find)
  OBVIOUS
<1>2. r \in Requests /\ cite # NoUrl /\ gReq' = gReq /\ gAt = "load"
  BY <1>1 DEF TextsInv, TextsFine, LoadCite
<1>3. cite \in UrlsMet
  BY <1>1, <1>2, GivenMet
<1>4. candidates \in Seq(UrlsMet)
  BY <1>1, <1>2, <1>3, CandidatesMet
<1>5. PICK urls : urls = ProbeAgain(r, cite, AssembleAndProbe(cite, candidates))
  OBVIOUS
<1>6. urls \in Seq(UrlsMet)
  BY <1>3, <1>4, <1>5, AssembledMet, ProbedMet
<1>7. PICK first, extracted, browsed :
          first = SearchedFirst(r, cite, find) /\ extracted = first \o candidates /\ browsed = find.browsed
  OBVIOUS
<1>8. first \in Seq(UrlsMet) /\ browsed \in Seq(UrlsMet)
  BY <1>7, FoundMet, EmptyIn DEF SearchedFirst
<1>9. extracted \in Seq(UrlsMet)
  BY <1>4, <1>7, <1>8
<1>10. Fail \/ (Known(urls, extracted, browsed) /\ gAt' = "write" /\ gText' = gText)
  BY <1>1, <1>5, <1>7 DEF LoadCite
<1> QED
  BY <1>2, <1>6, <1>8, <1>9, <1>10, FailGoes, KnownFine

LEMMA Researching ==
    ASSUME TextsInv, NEW find \in Finds, NEW landed \in FoundUrls \cup NoAddress, LoadResearch(find, landed)
    PROVE  TextsInv'
<1>1. PICK live, opened, urls : live = gLive /\ opened = Opened(find, landed) /\ urls = FilterReachable(opened, live)
  OBVIOUS
<1>2. PICK serp, browsed : serp = find.serp /\ browsed = Browsed(find, landed)
  OBVIOUS
<1>3. opened \in Seq(UrlsMet) /\ browsed \in Seq(UrlsMet)
  BY <1>1, <1>2, OpenedMet
<1>4. urls \in Seq(UrlsMet)
  BY <1>1, <1>3, FilteredFits
<1>5. serp \in Seq(UrlsMet)
  BY <1>2, FoundMet
<1>6. Known(urls, serp, browsed) /\ gAt = "load" /\ gAt' = "write" /\ gText' = gText /\ gReq' = gReq
  BY <1>1, <1>2 DEF LoadResearch
<1> QED
  BY <1>3, <1>4, <1>5, <1>6, KnownFine

LEMMA LoadedPack ==
    ASSUME TextsInv, NEW find \in Finds, LoadPack(find)
    PROVE  TextsInv'
<1>1. PICK live, listed, none, repo, answering :
          /\ live = gLive /\ listed = find.listed /\ none = <<>> /\ repo = <<Repo>>
          /\ answering = FilterReachable(listed, live)
  OBVIOUS
<1>2. listed \in Seq(UrlsMet) /\ none \in Seq(UrlsMet) /\ repo \in Seq(UrlsMet)
  BY <1>1, FoundMet, EmptyIn, RepoMet
<1>3. answering \in Seq(UrlsMet)
  BY <1>1, <1>2, FilteredFits
<1>4. gReq.kind \in Kinds
  BY GivenMet DEF TextsInv, TextsFine
<1>5. PICK urls : urls = CASE gReq.kind = "self" -> repo
                           [] gReq.kind = "farce" -> none
                           [] gReq.kind = "pack" /\ gReq.surface = "X" -> listed
                           [] OTHER -> answering
  OBVIOUS
<1>6. urls \in {repo, none, listed, answering}
  BY <1>5
<1>7. urls \in Seq(UrlsMet)
  BY <1>2, <1>3, <1>6
<1>8. Known(urls, none, none) /\ gAt = "load" /\ gAt' = "write" /\ gText' = gText /\ gReq' = gReq
  BY <1>1, <1>5 DEF LoadPack
<1> QED
  BY <1>2, <1>7, <1>8, KnownFine

LEMMA NothingTwice == Distinct(<<>> \o <<>>) = <<>>
<1>1. PICK none : none = <<>>
  OBVIOUS
<1>2. none \o none \in Seq({})
  BY <1>1, EmptyIn
<1>3. PICK twice : twice = none \o none
  OBVIOUS
<1>4. Distinct(twice) \in Seq({})
  BY <1>2, <1>3, DistinctKeeps
<1> QED
  BY <1>1, <1>3, <1>4

\* A writer's turn, whatever its answer.
LEMMA TurnTaken ==
    ASSUME TextsInv, NEW turn \in Turns, TakeTurn(TurnOf(gReq, gPack, turn)), gReq' = gReq, gPack' = gPack
    PROVE  gTurns' \in Sessions /\ TurnsFine'
<1>1. PICK now, before : now = TurnOf(gReq, gPack, turn) /\ before = gTurns
  OBVIOUS
<1>2. turn \in Sessions
  <2>1. CASE turn = NothingFound
    BY <2>1, NothingIsFound
  <2>2. CASE turn # NothingFound
    <3>1. PICK find \in Finds : turn = [extracted |-> find.serp, browsed |-> find.browsed]
      BY <2>2 DEF Turns
    <3>2. find.serp \in Seq(UrlsMet) /\ find.browsed \in Seq(UrlsMet)
      BY FoundMet
    <3> QED
      BY <3>1, <3>2 DEF Sessions
  <2> QED
    BY <2>1, <2>2
<1>3. now \in Sessions
  <2>1. PICK searched : searched = IF gPack = <<>> THEN turn.extracted ELSE <<>>
    OBVIOUS
  <2>2. searched \in Seq(UrlsMet) /\ turn.browsed \in Seq(UrlsMet)
    BY <1>2, <2>1, EmptyIn DEF Sessions
  <2>3. now = NothingFound \/ now = [extracted |-> searched, browsed |-> turn.browsed]
    BY <1>1, <2>1 DEF TurnOf
  <2> QED
    BY <2>2, <2>3, NothingIsFound DEF Sessions
<1>4. before \in Sessions
  BY <1>1 DEF TextsInv, TextsFine
<1>5. gTurns' = [extracted |-> Distinct(before.extracted \o now.extracted),
                 browsed |-> Distinct(before.browsed \o now.browsed)]
  BY <1>1 DEF TakeTurn
<1>6. gTurns' \in Sessions
  <2>1. PICK a, b : a = before.extracted \o now.extracted /\ b = before.browsed \o now.browsed
    OBVIOUS
  <2>2. a \in Seq(UrlsMet) /\ b \in Seq(UrlsMet)
    BY <1>3, <1>4, <2>1 DEF Sessions
  <2>3. Distinct(a) \in Seq(UrlsMet) /\ Distinct(b) \in Seq(UrlsMet)
    BY <2>2, DistinctKeeps
  <2> QED
    BY <1>5, <2>1, <2>3 DEF Sessions
<1>7. CASE ~UsesTools(gReq)
  <2>1. now = NothingFound /\ before = NothingFound
    BY <1>1, <1>7 DEF TurnOf, TextsInv, TextsFine, TurnsFine
  <2>2. gTurns' = NothingFound
    BY <1>5, <2>1, NothingTwice DEF NothingFound
  <2> QED
    BY <1>6, <2>2 DEF TurnsFine, NothingFound
<1>8. CASE UsesTools(gReq)
  <2>1. UsesTools(gReq)'
    BY <1>8 DEF UsesTools, Cite, BriefCite
  <2>2. ASSUME gPack # <<>> PROVE gTurns'.extracted = <<>>
    <3>1. now.extracted = <<>>
      BY <1>1, <1>8, <2>2 DEF TurnOf
    <3>2. before.extracted = <<>>
      BY <1>1, <2>2 DEF TextsInv, TextsFine, TurnsFine, NothingFound
    <3> QED
      BY <1>5, <3>1, <3>2, NothingTwice
  <2> QED
    BY <1>6, <2>1, <2>2 DEF TurnsFine
<1> QED
  BY <1>6, <1>7, <1>8

\* A text that is taken to be finished has what was asked for, one that is refused is as before.
LEMMA TextTaken ==
    ASSUME TextsInv, NEW turn \in Turns, TakeTurn(TurnOf(gReq, gPack, turn)),
           NEW text \in Seq(Paras), gText' = text,
           gAt' = "finish" => MissingQuotes(gReq, text) = {},
           gAt' \in {"finish", "louder", "retry", "failed"}, gPack' = gPack, gLoad' = gLoad, gReq' = gReq
    PROVE  TextsInv'
<1>1. gAt' = "finish" => Required(gReq) \subseteq Quotes(text)
  BY DEF MissingQuotes
<1>2. gAt' = "finish" => Required(gReq)' \subseteq Quotes(gText)'
  BY <1>1 DEF Required, Quotes, AskedOnce
<1>3. gTurns' \in Sessions /\ TurnsFine'
  BY TurnTaken
<1>4. gReq' \in Requests /\ gPack' \in Seq(UrlsMet) /\ gLoad' \in Sessions
  BY DEF TextsInv, TextsFine
<1>5. TextsFine'
  BY <1>2, <1>3, <1>4 DEF TextsFine
<1>6. GroundedInv'
  BY NothingSavedYet
<1> QED
  BY <1>5, <1>6 DEF TextsInv

LEMMA Written ==
    ASSUME TextsInv, NEW answer \in Writings, NEW turn \in Turns, Write(answer, turn)
    PROVE  TextsInv'
<1>1. PICK scrubbed : scrubbed = Scrub(gReq, answer)
  OBVIOUS
<1>2. /\ TakeText(scrubbed) /\ TakeTurn(TurnOf(gReq, gPack, turn))
      /\ gReq' = gReq /\ gPack' = gPack /\ gLoad' = gLoad
  BY <1>1 DEF Write
<1>3. scrubbed.ok => scrubbed.text \in Seq(Paras)
  <2>1. PICK r : r = gReq
    OBVIOUS
  <2>2. answer \in Seq(Paras)
    BY GroundedAssumption
  <2> QED
    BY <1>1, <2>1, <2>2, ScrubFits
<1>4. PICK text : text = IF scrubbed.ok THEN scrubbed.text ELSE gText
  OBVIOUS
<1>5. text \in Seq(Paras)
  BY <1>3, <1>4 DEF TextsInv, TextsFine
<1>6. /\ gText' = text /\ gAt' \in {"finish", "louder", "retry", "failed"}
      /\ gAt' = "finish" => MissingQuotes(gReq, text) = {}
  BY <1>2, <1>4 DEF TakeText
<1> QED
  BY <1>2, <1>5, <1>6, TextTaken

LEMMA WrittenLouder ==
    ASSUME TextsInv, NEW answer \in Writings, NEW turn \in Turns, WriteLouder(answer, turn)
    PROVE  TextsInv'
<1>1. PICK scrubbed : scrubbed = Scrub(gReq, answer)
  OBVIOUS
<1>2. /\ TakeQuotedText(scrubbed) /\ TakeTurn(TurnOf(gReq, gPack, turn))
      /\ gReq' = gReq /\ gPack' = gPack /\ gLoad' = gLoad
  BY <1>1 DEF WriteLouder
<1>3. scrubbed.ok => scrubbed.text \in Seq(Paras)
  <2>1. PICK r : r = gReq
    OBVIOUS
  <2>2. answer \in Seq(Paras)
    BY GroundedAssumption
  <2> QED
    BY <1>1, <2>1, <2>2, ScrubFits
<1>4. PICK text : text = IF scrubbed.ok /\ MissingQuotes(gReq, scrubbed.text) = {} THEN scrubbed.text ELSE gText
  OBVIOUS
<1>5. text \in Seq(Paras)
  BY <1>3, <1>4 DEF TextsInv, TextsFine
<1>6. /\ gText' = text /\ gAt' \in {"finish", "failed"}
      /\ gAt' = "finish" => MissingQuotes(gReq, text) = {}
  BY <1>2, <1>4 DEF TakeQuotedText, RefuseText
<1> QED
  BY <1>2, <1>5, <1>6, TextTaken

\* What the session found is what LOAD found and, of a writer with tools, what its turns did.
Found == Loaded \cup ToSet(gTurns.extracted) \cup ToSet(gTurns.browsed)

\* The pool, and what it may be without.
LEMMA PoolFits ==
    ASSUME TextsInv, NEW F, Found \subseteq F
    PROVE  /\ gPack \in Seq(F)
           /\ \E rest \in Seq(F) : RefillPool = Distinct(gPack \o rest) /\ RefillPool \in Seq(F)
<1>1. PICK pack, a, b, c, d : /\ pack = gPack /\ a = gLoad.extracted /\ b = gTurns.extracted
                              /\ c = gLoad.browsed /\ d = gTurns.browsed
  OBVIOUS
<1>2. pack \in Seq(UrlsMet) /\ a \in Seq(UrlsMet) /\ b \in Seq(UrlsMet) /\ c \in Seq(UrlsMet) /\ d \in Seq(UrlsMet)
  BY <1>1 DEF TextsInv, TextsFine, Sessions
<1>3. /\ ToSet(pack) \subseteq F /\ ToSet(a) \subseteq F /\ ToSet(b) \subseteq F
      /\ ToSet(c) \subseteq F /\ ToSet(d) \subseteq F
  BY <1>1 DEF Found, Loaded
<1>4. ASSUME NEW list \in Seq(UrlsMet), ToSet(list) \subseteq F PROVE list \in Seq(F)
  <2>1. Listing(list)
    BY AnyListing
  <2>2. list \in Seq(ToSet(list))
    BY <2>1 DEF Listing, ToSet
  <2> QED
    BY <1>4, <2>2, SeqMonotonic
<1>5. pack \in Seq(F) /\ a \in Seq(F) /\ b \in Seq(F) /\ c \in Seq(F) /\ d \in Seq(F)
  BY <1>2, <1>3, <1>4
<1>6. PICK rest : rest = a \o b \o c \o d
  OBVIOUS
<1>7. rest \in Seq(F)
  BY <1>5, <1>6
<1>8. PICK all : all = pack \o rest
  OBVIOUS
<1>9. all = pack \o a \o b \o c \o d
  <2>1. PICK ab, abc : ab = a \o b /\ abc = ab \o c
    OBVIOUS
  <2>2. ab \in Seq(F)
    BY <1>5, <2>1
  <2>3. abc \in Seq(F)
    BY <1>5, <2>1, <2>2
  <2>4. pack \in Seq(F) /\ abc \in Seq(F) /\ d \in Seq(F)
    BY <1>5, <2>3
  <2>5. pack \o (abc \o d) = (pack \o abc) \o d
    BY <2>4
  <2>6. pack \in Seq(F) /\ ab \in Seq(F) /\ c \in Seq(F)
    BY <1>5, <2>2
  <2>7. pack \o (ab \o c) = (pack \o ab) \o c
    BY <2>6
  <2>8. pack \in Seq(F) /\ a \in Seq(F) /\ b \in Seq(F)
    BY <1>5
  <2>9. pack \o (a \o b) = (pack \o a) \o b
    BY <2>8
  <2> QED
    BY <1>6, <1>8, <2>1, <2>5, <2>7, <2>9, Zenon
<1>10. RefillPool = Distinct(all)
  BY <1>1, <1>9 DEF RefillPool
<1>11. all \in Seq(F)
  BY <1>5, <1>7, <1>8
<1>12. Distinct(all) \in Seq(F)
  BY <1>11, DistinctKeeps
<1> QED
  BY <1>1, <1>5, <1>7, <1>8, <1>10, <1>12

\* What a text is linked to when it is saved.
LEMMA FinishedWell ==
    ASSUME TextsInv, gReq.kind \in {"load", "pack"}, NEW saved, saved = Finished(gReq), saved.options # <<>>
    PROVE  LET F == Found \cup AskedFor(gReq)
           IN /\ ToSet(saved.options) \subseteq F
              /\ saved.link \in ToSet(saved.options)
              /\ gReq.surface = "LinkedIn" => \A u \in ToSet(saved.options) : Answers(u, gLive)
              /\ Cite(gReq) # NoUrl /\ (gReq.surface = "LinkedIn" => FilterReachable(<<Cite(gReq)>>, gLive) # <<>>)
                 => saved.link = Cite(gReq) /\ saved.options[1] = Cite(gReq)
              /\ gReq.surface = "LinkedIn" /\ FilterReachable(OnAngle(gPack), gLive) # <<>>
                 => saved.link \in ToSet(gPack) \cup {Cite(gReq)}
<1>1. PICK r, pack, pool, text, live : r = gReq /\ pack = gPack /\ pool = RefillPool /\ text = gText /\ live = gLive
  OBVIOUS
<1>2. PICK F : F = Found \cup AskedFor(r)
  OBVIOUS
<1>3. r \in Requests /\ text \in Seq(Paras)
  BY <1>1 DEF TextsInv, TextsFine
<1>4. /\ AskedFor(r) \subseteq UrlsMet /\ r.https \in Seq(AskedFor(r))
      /\ BriefCite(r) = NoUrl \/ BriefCite(r) \in {u \in AskedFor(r) : AllowedTweetCite(u)}
      /\ Cite(r) = NoUrl \/ Cite(r) \in {u \in AskedFor(r) : AllowedTweetCite(u)}
      /\ r.surface = "X" => Cite(r) = BriefCite(r)
      /\ r.surface = "X" \/ r.surface = "LinkedIn"
  BY <1>3, GivenMet
<1>5. Found \subseteq UrlsMet
  BY DEF TextsInv, TextsFine, Sessions, Found, Loaded, ToSet
<1>6. /\ F \subseteq UrlsMet /\ pool \in Seq(F) /\ pack \in Seq(F) /\ AskedFor(r) \subseteq F
      /\ \E rest \in Seq(F) : pool = Distinct(pack \o rest)
  <2>1. Found \subseteq F /\ F \subseteq UrlsMet /\ AskedFor(r) \subseteq F
    BY <1>2, <1>4, <1>5
  <2> QED
    BY <1>1, <2>1, PoolFits
<1>7. NoUrl \notin UrlsMet
  BY GroundedAssumption
<1>8. CASE r.surface = "LinkedIn"
  <2>1. PICK cite, draft : cite = Cite(r) /\ draft = DraftOptions(cite, pack, pool, text)
    OBVIOUS
  <2>2. saved = [link |-> FirstOption(draft), options |-> draft]
    BY <1>1, <1>8, <2>1 DEF Finished
  <2>3. cite = NoUrl \/ cite \in F
    BY <1>4, <1>6, <2>1
  <2>4. /\ draft \in Seq(F) /\ \A i \in DOMAIN draft : Answers(draft[i], gLive)
        /\ cite # NoUrl /\ AllowedTweetCite(cite) /\ ~XNonStatus(cite) /\ Answers(cite, gLive)
           => draft # <<>> /\ draft[1] = cite
    <3>1. F \subseteq UrlsMet /\ pack \in Seq(F) /\ pool \in Seq(F) /\ text \in Seq(Paras)
      BY <1>3, <1>6
    <3>2. DraftOptions(cite, pack, pool, text) \in Seq(F)
      BY <2>3, <3>1, DraftOptionsFit
    <3>3. \A i \in DOMAIN DraftOptions(cite, pack, pool, text) : Answers(DraftOptions(cite, pack, pool, text)[i], gLive)
      BY <2>3, <3>1, DraftOptionsFit
    <3>4. cite # NoUrl /\ AllowedTweetCite(cite) /\ ~XNonStatus(cite) /\ Answers(cite, gLive)
           => /\ DraftOptions(cite, pack, pool, text) # <<>>
              /\ DraftOptions(cite, pack, pool, text)[1] = cite
      BY <2>3, <3>1, DraftOptionsFit
    <3> QED
      BY <2>1, <3>2, <3>3, <3>4
  <2>5. saved.options = draft /\ draft # <<>> /\ saved.link = draft[1]
    BY <2>2 DEF FirstOption
  <2>6. 1 \in DOMAIN draft /\ \A i \in DOMAIN draft : draft[i] \in F /\ Answers(draft[i], gLive)
    BY <2>4, <2>5
  <2>7. ASSUME cite # NoUrl, FilterReachable(<<cite>>, live) # <<>>
        PROVE  AllowedTweetCite(cite) /\ ~XNonStatus(cite) /\ Answers(cite, live)
    <3>1. PICK one : one = <<cite>>
      OBVIOUS
    <3>2. PICK places : places = {i \in DOMAIN one : /\ AllowedTweetCite(one[i]) /\ ~XNonStatus(one[i])
                                                    /\ Answers(one[i], live)}
      OBVIOUS
    <3>3. PICK kept : kept = Keep(one, places)
      OBVIOUS
    <3>4. FilterReachable(one, live) = kept
      BY <3>2, <3>3 DEF FilterReachable, Only
    <3>5. Listing(one) /\ DOMAIN one = {1} /\ one[1] = cite
      BY <3>1, Alone
    <3>6. Listing(kept) /\ \A k \in DOMAIN kept : \E i \in places \cap DOMAIN one : kept[k] = one[i]
      BY <3>5, <3>3, KeptList
    <3>7. kept # <<>>
      BY <2>7, <3>1, <3>4
    <3>8. PICK S : kept \in Seq(S)
      BY <3>6 DEF Listing
    <3>9. 1 \in DOMAIN kept
      BY <3>7, <3>8
    <3>10. PICK i \in places \cap DOMAIN one : kept[1] = one[i]
      BY <3>6, <3>9
    <3> QED
      BY <3>2, <3>5, <3>10
  <2>8. cite # NoUrl /\ FilterReachable(<<cite>>, live) # <<>> => saved.link = cite /\ saved.options[1] = cite
    BY <1>1, <2>4, <2>5, <2>7
  <2>9. /\ ToSet(saved.options) \subseteq F
        /\ saved.link \in ToSet(saved.options)
        /\ \A u \in ToSet(saved.options) : Answers(u, gLive)
    BY <2>5, <2>6 DEF ToSet
  <2>10. FilterReachable(OnAngle(pack), live) # <<>> => saved.link \in ToSet(pack) \cup {cite}
    <3>1. PICK rest \in Seq(F) : pool = Distinct(pack \o rest)
      BY <1>6
    <3>2. DraftOptions(cite, pack, Distinct(pack \o rest), text) # <<>>
      BY <2>1, <2>5, <3>1
    <3>3. FilterReachable(OnAngle(pack), live) # <<>>
          => DraftOptions(cite, pack, Distinct(pack \o rest), text)[1] \in ToSet(pack) \cup {cite}
      BY <1>1, <1>3, <1>6, <2>3, <3>2, DraftOptionsLed
    <3> QED
      BY <2>1, <2>5, <3>1, <3>3
  <2> QED
    BY <1>1, <1>2, <1>8, <2>1, <2>8, <2>9, <2>10
<1>9. CASE r.surface = "X"
  <2>1. PICK cite, tweetPack, tweet, link : /\ cite = BriefCite(r) /\ tweetPack = TweetPack(r)
                                            /\ tweet = TweetOptions(r, tweetPack, text) /\ link = TweetLink(r, tweet)
    OBVIOUS
  <2>2. saved = [link |-> link, options |-> tweet]
    BY <1>1, <1>9, <2>1 DEF Finished
  <2>3. tweetPack \in Seq(F)
    <3>1. OperatorUrls(r) \in Seq(F)
      <4>1. OperatorUrls(r) \in Seq({u \in AskedFor(r) : AllowedTweetCite(u)})
        BY <1>4, OperatorUrlsFit
      <4>2. {u \in AskedFor(r) : AllowedTweetCite(u)} \subseteq F
        BY <1>6
      <4> QED
        BY <4>1, <4>2, SeqMonotonic
    <3>2. PICK all : all = pack \o pool \o OperatorUrls(r)
      OBVIOUS
    <3>3. all \in Seq(F)
      BY <1>6, <3>1, <3>2
    <3>4. CapUrlsByDomain(all, LinkCap) \in Seq(F)
      BY <3>3, Capped
    <3>5. tweetPack = pack \/ tweetPack = CapUrlsByDomain(all, LinkCap)
      BY <1>1, <2>1, <3>2 DEF TweetPack
    <3> QED
      BY <1>6, <3>4, <3>5
  <2>4. /\ tweet \in Seq({u \in F : AllowedTweetCite(u)})
        /\ cite # NoUrl => tweet # <<>> /\ tweet[1] = cite
    BY <1>3, <1>6, <2>1, <2>3, TweetOptionsFit
  <2>5. saved.options = tweet /\ tweet # <<>> /\ saved.link = link
    BY <2>2
  <2>6. 1 \in DOMAIN tweet /\ \A i \in DOMAIN tweet : tweet[i] \in F /\ AllowedTweetCite(tweet[i])
    BY <2>4, <2>5
  <2>7. link = tweet[1]
    <3>1. CASE cite # NoUrl
      BY <2>1, <2>4, <3>1 DEF TweetLink
    <3>2. CASE cite = NoUrl
      <4>1. FirstOf(tweet, AllowedTweetCite) = tweet[1]
        BY <2>4, <2>5, <2>6, FirstFits
      <4> QED
        BY <2>1, <3>2, <4>1 DEF TweetLink
    <3> QED
      BY <3>1, <3>2
  <2>8. ToSet(saved.options) \subseteq F /\ saved.link \in ToSet(saved.options)
    BY <2>5, <2>6, <2>7 DEF ToSet
  <2>9. Cite(r) # NoUrl => saved.link = Cite(r) /\ saved.options[1] = Cite(r)
    BY <1>4, <1>9, <2>1, <2>4, <2>5, <2>7
  <2> QED
    BY <1>1, <1>2, <1>9, <2>8, <2>9
<1> QED
  BY <1>4, <1>8, <1>9

LEMMA FinishedFine ==
    ASSUME TextsInv, Finish
    PROVE  TextsInv'
<1>1. PICK saved : saved = Finished(gReq)
  OBVIOUS
<1>2. SaveText(saved) /\ gReq' = gReq /\ gLive' = gLive /\ gAt = "finish"
  BY <1>1 DEF Finish
<1>3. CASE Fail
  BY <1>2, <1>3, FailGoes
<1>4. CASE ~Fail
  <2>1. /\ gReq.kind \in {"load", "pack"} => saved.options # <<>>
        /\ gSaved' = saved /\ gAt' = "saved" /\ gPack' = gPack /\ gLoad' = gLoad /\ gTurns' = gTurns
        /\ gText' = IF gReq.kind = "farce" THEN gText ELSE SetInPostUrl(gText)
    BY <1>2, <1>4 DEF SaveText, LinkOptionsFloor, knownVars
  <2>2. PICK text : text = gText
    OBVIOUS
  <2>3. text \in Seq(Paras) /\ Required(gReq) \subseteq Quotes(text)
    BY <1>2, <2>2 DEF TextsInv, TextsFine
  <2>4. SetInPostUrl(text) \in Seq(Paras) /\ Quotes(text) \subseteq Quotes(SetInPostUrl(text))
    BY <2>3, QuotesStay
  <2>5. gText' \in Seq(Paras)
    BY <2>1, <2>2, <2>3, <2>4
  <2>6. TextsFine'
    BY <1>2, <2>1, <2>5 DEF TextsInv, TextsFine, TurnsFine, UsesTools, Cite, BriefCite
  <2>7. GroundedInv'
    <3>1. CASE gReq.kind \notin {"load", "pack"}
      BY <1>2, <3>1 DEF GroundedInv, CiteLeads, PackLeads, OptionsHaveASource, Researched
    <3>2. CASE gReq.kind \in {"load", "pack"}
      <4>1. saved.options # <<>>
        BY <2>1, <3>2
      <4>2. PICK F : F = Found \cup AskedFor(gReq)
        OBVIOUS
      <4>3. /\ ToSet(saved.options) \subseteq F
            /\ saved.link \in ToSet(saved.options)
            /\ gReq.surface = "LinkedIn" => \A u \in ToSet(saved.options) : Answers(u, gLive)
            /\ Cite(gReq) # NoUrl /\ (gReq.surface = "LinkedIn" => FilterReachable(<<Cite(gReq)>>, gLive) # <<>>)
               => saved.link = Cite(gReq) /\ saved.options[1] = Cite(gReq)
            /\ gReq.surface = "LinkedIn" /\ FilterReachable(OnAngle(gPack), gLive) # <<>>
               => saved.link \in ToSet(gPack) \cup {Cite(gReq)}
        BY <1>1, <3>2, <4>1, <4>2, FinishedWell
      <4>4. /\ Loaded' = Loaded /\ Options' = ToSet(saved.options) /\ Cite(gReq)' = Cite(gReq)
            /\ Required(gReq)' = Required(gReq) /\ gLive' = gLive /\ gPack' = gPack /\ gTurns' = gTurns
            /\ AskedFor(gReq)' = AskedFor(gReq) /\ gReq' = gReq /\ gSaved' = saved
        BY <1>2, <2>1 DEF Loaded, Options, Cite, BriefCite, Required, AskedOnce, AskedFor
      <4>5. OptionsHaveASource'
        <5>1. CASE gTurns = NothingFound
          <6>1. Found = Loaded
            BY <5>1, EmptyIn DEF Found, NothingFound, ToSet
          <6> QED
            BY <4>2, <4>3, <4>4, <6>1 DEF OptionsHaveASource
        <5>2. CASE UsesTools(gReq) /\ (gPack = <<>> \/ gTurns.extracted = <<>>)
          <6>1. gReq.surface = "LinkedIn" /\ Cite(gReq) = NoUrl
            BY <3>2, <5>2 DEF UsesTools
          <6>2. ToSet(saved.options) \subseteq Loaded \cup AskedFor(gReq) \cup ToSet(gTurns.browsed)
                                               \cup (IF gPack = <<>> THEN ToSet(gTurns.extracted) ELSE {})
            <7>1. gPack # <<>> => ToSet(gTurns.extracted) = {}
              BY <5>2 DEF ToSet
            <7> QED
              BY <4>2, <4>3, <7>1 DEF Found
          <6> QED
            BY <4>4, <6>1, <6>2 DEF OptionsHaveASource
        <5> QED
          BY <5>1, <5>2 DEF TextsInv, TextsFine, TurnsFine
      <4>6. gSaved'.link \in Options'
        BY <4>3, <4>4
      <4>7. gReq'.surface = "LinkedIn" => \A u \in Options' : Answers(u, gLive')
        BY <4>3, <4>4
      <4>8. Required(gReq)' \subseteq Quotes(gText)'
        <5>1. gText' = SetInPostUrl(text)
          BY <2>1, <2>2, <3>2
        <5>2. Quotes(gText)' = Quotes(SetInPostUrl(text))
          BY <5>1 DEF Quotes
        <5> QED
          BY <2>3, <2>4, <4>4, <5>2
      <4>9. CiteLeads'
        <5>1. ASSUME Cite(gReq)' # NoUrl, gReq'.surface = "LinkedIn" => FilterReachable(<<Cite(gReq)'>>, gLive') # <<>>
              PROVE  gSaved'.link = Cite(gReq)' /\ gSaved'.options[1] = Cite(gReq)'
          <6>1. Cite(gReq) # NoUrl /\ (gReq.surface = "LinkedIn" => FilterReachable(<<Cite(gReq)>>, gLive) # <<>>)
            BY <4>4, <5>1
          <6> QED
            BY <4>3, <4>4, <6>1
        <5> QED
          BY <5>1 DEF CiteLeads
      <4>10. PackLeads'
        <5>1. ASSUME gReq'.surface = "LinkedIn", FilterReachable(OnAngle(gPack)', gLive') # <<>>
              PROVE  gSaved'.link \in ToSet(gPack)' \cup {Cite(gReq)'}
          <6>1. OnAngle(gPack)' = OnAngle(gPack) /\ ToSet(gPack)' = ToSet(gPack)
            BY <4>4 DEF OnAngle, Only, ToSet
          <6> QED
            BY <4>3, <4>4, <5>1, <6>1
        <5> QED
          BY <5>1 DEF PackLeads
      <4> QED
        BY <4>5, <4>6, <4>7, <4>8, <4>9, <4>10 DEF GroundedInv
    <3> QED
      BY <3>1, <3>2
  <2> QED
    BY <2>6, <2>7 DEF TextsInv
<1> QED
  BY <1>3, <1>4

LEMMA Beginning ==
    ASSUME TextsInv, NEW kind, NEW surface, NEW at, at \in {"probe", "load"}, Begin(kind, surface, at)
    PROVE  TextsInv'
<1>1. Goto(at) /\ gReq' = gReq /\ gAt = "idle"
  BY DEF Begin
<1> QED
  BY <1>1, Gone

LEMMA GroundedKeeps ==
    ASSUME TextsInv, [GroundedNext]_groundedVars
    PROVE  TextsInv'
<1>1. CASE UNCHANGED groundedVars
  <2>1. /\ gAt' = gAt /\ gReq' = gReq /\ gLive' = gLive /\ gPack' = gPack /\ gLoad' = gLoad /\ gTurns' = gTurns
        /\ gText' = gText /\ gSaved' = gSaved
    BY <1>1 DEF groundedVars, knownVars
  <2>2. TextsFine'
    BY <2>1 DEF TextsInv, TextsFine, TurnsFine, UsesTools, Cite, BriefCite
  <2>3. /\ Loaded' = Loaded /\ Options' = Options /\ Cite(gReq)' = Cite(gReq) /\ Required(gReq)' = Required(gReq)
        /\ Quotes(gText)' = Quotes(gText) /\ Researched' = Researched /\ AskedFor(gReq)' = AskedFor(gReq)
        /\ OnAngle(gPack)' = OnAngle(gPack)
    <3>1. Loaded' = Loaded /\ Options' = Options /\ Researched' = Researched /\ AskedFor(gReq)' = AskedFor(gReq)
      BY <2>1 DEF Loaded, Options, Researched, AskedFor
    <3>2. Cite(gReq)' = Cite(gReq)
      BY <2>1 DEF Cite, BriefCite
    <3>3. Required(gReq)' = Required(gReq)
      BY <2>1 DEF Required, AskedOnce
    <3>4. Quotes(gText)' = Quotes(gText)
      BY <2>1 DEF Quotes
    <3>5. OnAngle(gPack)' = OnAngle(gPack)
      BY <2>1 DEF OnAngle, Only
    <3> QED
      BY <3>1, <3>2, <3>3, <3>4, <3>5
  <2>4. CiteLeads' /\ PackLeads'
    BY <2>1, <2>3 DEF TextsInv, GroundedInv, CiteLeads, PackLeads
  <2>6. OptionsHaveASource'
    BY <2>1, <2>3 DEF TextsInv, GroundedInv, OptionsHaveASource
  <2>5. GroundedInv'
    BY <2>1, <2>3, <2>4, <2>6 DEF TextsInv, GroundedInv
  <2> QED
    BY <2>2, <2>5 DEF TextsInv
<1>2. CASE \/ StartBuild \/ DraftAboutItc \/ DraftTweetAboutItc \/ DraftAboutItcy \/ TweetAboutItcy \/ TweetFarce
  <2>1. PICK kind, surface, at : Begin(kind, surface, at) /\ at \in {"probe", "load"}
    BY <1>2 DEF StartBuild, DraftAboutItc, DraftTweetAboutItc, DraftAboutItcy, TweetAboutItcy, TweetFarce
  <2> QED
    BY <2>1, Beginning
<1>3. CASE ProbeCite
  <2>1. (Goto("load") \/ Fail) /\ gReq' = gReq /\ gAt = "probe"
    BY <1>3 DEF ProbeCite
  <2>2. CASE Goto("load")
    BY <2>1, <2>2, Gone
  <2>3. CASE Fail
    BY <2>1, <2>3, FailGoes
  <2> QED
    BY <2>1, <2>2, <2>3
<1>4. CASE ModelIsDown
  BY <1>4, FailGoes DEF ModelIsDown
<1>5. CASE Finish
  BY <1>5, FinishedFine
<1>6. ASSUME NEW find \in Finds, LoadCite(find) PROVE TextsInv'
  BY <1>6, LoadedCite
<1>7. ASSUME NEW find \in Finds, LoadPack(find) PROVE TextsInv'
  BY <1>7, LoadedPack
<1>8. ASSUME NEW find \in Finds, NEW landed \in FoundUrls \cup NoAddress, LoadResearch(find, landed) PROVE TextsInv'
  BY <1>8, Researching
<1>9. ASSUME NEW answer \in Writings, NEW turn \in Turns, Write(answer, turn) PROVE TextsInv'
  BY <1>9, Written
<1>10. ASSUME NEW answer \in Writings, NEW turn \in Turns, WriteLouder(answer, turn) PROVE TextsInv'
  BY <1>10, WrittenLouder
<1>11. ASSUME NEW u \in Web \ Walled, Outage(u) PROVE TextsInv'
  <2>1. /\ gAt' = gAt /\ gAt # "saved" /\ gReq' = gReq /\ gText' = gText
        /\ gPack' = gPack /\ gLoad' = gLoad /\ gTurns' = gTurns
    BY <1>11 DEF Outage, Busy, knownVars
  <2>2. TextsFine'
    BY <2>1 DEF TextsInv, TextsFine, TurnsFine, UsesTools, Cite, BriefCite
  <2> QED
    BY <2>1, <2>2, NothingSavedYet DEF TextsInv
<1> QED
  BY <1>1, <1>2, <1>3, <1>4, <1>5, <1>6, <1>7, <1>8, <1>9, <1>10, <1>11 DEF GroundedNext

\* rag.rs, tools/session.rs, tweet.rs, draft_url.rs: whatever is asked for, loaded, written and
\* written again, what a saved text offers to link was found by LOAD or given, or it is a draft
\* without a cite whose writer opened it, or searched for it with an empty pack; the cite of the
\* operator leads, or else the pack as long as it answers; a draft offers what still answered,
\* and the quotations that were asked for are in the text.
THEOREM GroundedSafe == GroundedSpec => []GroundedInv
<1>1. TextsInv => GroundedInv
  BY DEF TextsInv
<1>2. GroundedInit => TextsInv
  <2>1. SUFFICES ASSUME GroundedInit PROVE TextsInv
    OBVIOUS
  <2>2. /\ gAt = "idle" /\ gReq \in Requests /\ gPack = <<>> /\ gText = <<>>
        /\ gLoad = NothingFound /\ gTurns = NothingFound
    BY <2>1 DEF GroundedInit
  <2>3. TextsFine
    BY <2>2, EmptyIn, NothingIsFound DEF TextsFine, TurnsFine
  <2>4. GroundedInv
    BY <2>2 DEF GroundedInv, CiteLeads, PackLeads, OptionsHaveASource, Researched
  <2> QED
    BY <2>3, <2>4 DEF TextsInv
<1>3. TextsInv /\ [GroundedNext]_groundedVars => TextsInv'
  BY GroundedKeeps
<1> QED
  BY <1>1, <1>2, <1>3, PTL DEF GroundedSpec

-------------------------------------------------------------------------------
(* Names, handles and what a text tags *)

LEMMA LeastOf ==
    ASSUME NEW T, T \subseteq Nat
    PROVE  /\ T = {} => Least(T) = 0
           /\ T # {} => Least(T) \in T
  BY LeastNatural DEF Least

LEMMA SeqIsText == ASSUME NEW S, NEW s \in Seq(S) PROVE IsText(s) /\ ToSet(s) \subseteq S
  BY DEF IsText, ToSet

-------------------------------------------------------------------------------
(* The registry *)

\* A row in memory has what its row in the file has.
Covers(m, f) ==
    /\ m.name = f.name
    /\ f.liUrl # None => m.liUrl = f.liUrl
    /\ f.xUrl # None => m.xUrl = f.xUrl

RegistryInv ==
    /\ IsRegistry(hFile) /\ IsRegistry(hMem) /\ Len(hMem) = Len(hFile)
    /\ \A i \in DOMAIN hFile : Covers(hMem[i], hFile[i])
    /\ NoTwins(hFile)

\* A registry with one row more.
Extends(more, rows, e) ==
    /\ IsRegistry(more) /\ Len(more) = Len(rows) + 1
    /\ DOMAIN more = 1..(Len(rows) + 1) /\ DOMAIN rows = 1..Len(rows) /\ Len(rows) \in Nat
    /\ more[Len(rows) + 1] = e /\ \A i \in DOMAIN rows : more[i] = rows[i]

\* A registry with one row filled in.
Fills(new, rows) ==
    /\ IsRegistry(new) /\ Len(new) = Len(rows) /\ DOMAIN new = DOMAIN rows
    /\ \A k \in DOMAIN rows : Covers(new[k], rows[k])
FilledAt(rows, i, e) == [rows EXCEPT ![i] = MergeMissingFields(@, e)]

LEMMA Appending ==
    ASSUME NEW rows, IsRegistry(rows), NEW e, IsRow(e)
    PROVE  Extends(Append(rows, e), rows, e)
<1>0. PICK more : more = Append(rows, e)
  OBVIOUS
<1>1. PICK S : S = ToSet(rows) \cup {e}
  OBVIOUS
<1>2. rows \in Seq(S)
  <2>1. rows \in Seq(ToSet(rows)) /\ ToSet(rows) \subseteq S
    BY <1>1 DEF IsRegistry, IsText
  <2> QED
    BY <2>1, SeqMonotonic
<1>3. e \in S
  BY <1>1
<1>4. /\ more \in Seq(S) /\ Len(more) = Len(rows) + 1 /\ more[Len(rows) + 1] = e
      /\ \A i \in 1..Len(rows) : more[i] = rows[i]
  BY <1>0, <1>2, <1>3, AppendProperties
<1>5. DOMAIN more = 1..(Len(rows) + 1) /\ DOMAIN rows = 1..Len(rows) /\ Len(rows) \in Nat
  BY <1>2, <1>4
<1>6. \A i \in DOMAIN more : IsRow(more[i])
  BY <1>4, <1>5 DEF IsRegistry
<1>7. IsText(more)
  BY <1>4, SeqIsText
<1> QED
  BY <1>0, <1>4, <1>5, <1>6, <1>7 DEF IsRegistry, Extends

LEMMA Merged ==
    ASSUME NEW rows, IsRegistry(rows), NEW e, NEW i \in DOMAIN rows
    PROVE  Fills(FilledAt(rows, i, e), rows)
<1>0. PICK new : new = FilledAt(rows, i, e)
  OBVIOUS
<1>1. PICK old, m : old = rows[i] /\ m = MergeMissingFields(old, e)
  OBVIOUS
<1>2. DOMAIN old = RowFields /\ IsText(old.name)
  BY <1>1 DEF IsRegistry, IsRow
<1>3. m = [f \in RowFields |-> IF f # "name" /\ old[f] = None THEN e[f] ELSE old[f]]
  BY <1>1, <1>2 DEF MergeMissingFields
<1>4. /\ DOMAIN m = RowFields /\ m["name"] = old["name"]
      /\ old["liUrl"] # None => m["liUrl"] = old["liUrl"]
      /\ old["xUrl"] # None => m["xUrl"] = old["xUrl"]
  BY <1>3 DEF RowFields
<1>5. IsRow(m) /\ Covers(m, old)
  BY <1>2, <1>4 DEF IsRow, Covers
<1>6. new = [rows EXCEPT ![i] = m]
  BY <1>0, <1>1 DEF FilledAt
<1>7. PICK S : S = ToSet(rows) \cup {m}
  OBVIOUS
<1>8. rows \in Seq(S) /\ m \in S
  <2>1. rows \in Seq(ToSet(rows)) /\ ToSet(rows) \subseteq S
    BY <1>7 DEF IsRegistry, IsText
  <2> QED
    BY <1>7, <2>1, SeqMonotonic
<1>9. i \in 1..Len(rows) /\ DOMAIN rows = 1..Len(rows)
  BY <1>8
<1>10. /\ new \in Seq(S) /\ Len(new) = Len(rows)
       /\ \A j \in 1..Len(rows) : new[j] = IF j = i THEN m ELSE rows[j]
  BY <1>6, <1>8, <1>9, ExceptSeq
<1>11. DOMAIN new = 1..Len(rows)
  BY <1>10
<1>12. ASSUME NEW k \in DOMAIN rows
       PROVE  IsRow(new[k]) /\ Covers(new[k], rows[k])
  <2>1. CASE k = i
    BY <1>1, <1>5, <1>9, <1>10, <2>1
  <2>2. CASE k # i
    BY <1>9, <1>10, <2>2 DEF IsRegistry, Covers
  <2> QED
    BY <2>1, <2>2
<1>13. IsText(new)
  BY <1>10, SeqIsText
<1> QED
  BY <1>0, <1>9, <1>10, <1>11, <1>12, <1>13 DEF IsRegistry, Fills

\* What /handle_add is given is nothing or a row.
LEMMA ParsedRow ==
    ASSUME NEW line \in AddLines, NEW e, e = ParseHandleAdd(line), e # None
    PROVE  IsRow(e)
<1>1. PICK given, name : given = HandlesGiven(line) /\ name = NameGiven(line, given.li, given.x)
  OBVIOUS
<1>2. PICK liUrl, xUrl : e = Row(name, given.li, given.x, liUrl, xUrl)
  BY <1>1 DEF ParseHandleAdd
<1>3. IsText(name)
  <2>1. IsText(line.name)
    BY HandlesAssumption
  <2>2. \A h : IsText(<<h>>)
    <3>1. \A h : <<h>> \in Seq({h})
      OBVIOUS
    <3> QED
      BY <3>1, SeqIsText
  <2>3. IsText(<<>>)
    <3>1. <<>> \in Seq({})
      OBVIOUS
    <3> QED
      BY <3>1, SeqIsText
  <2> QED
    BY <1>1, <2>1, <2>2, <2>3 DEF NameGiven
<1>4. DOMAIN e = RowFields /\ e.name = name
  BY <1>2 DEF Row, RowFields
<1> QED
  BY <1>3, <1>4 DEF IsRow

\* The index of a duplicate, or 0 when the row matches none.
LEMMA Duplicates ==
    ASSUME NEW rows, IsRegistry(rows), NEW e, NEW n, n = DuplicateIndex(rows, e)
    PROVE  /\ n # 0 => n \in DOMAIN rows
           /\ n = 0 => \A i \in DOMAIN rows : ~EntriesMatch(rows[i], e)
<1>1. PICK here : here = {i \in DOMAIN rows : EntriesMatch(rows[i], e)}
  OBVIOUS
<1>2. here \subseteq Nat /\ 0 \notin here /\ here \subseteq DOMAIN rows
  BY <1>1 DEF IsRegistry, IsText
<1>3. n = Least(here)
  BY <1>1 DEF DuplicateIndex, First
<1>4. (here = {} => n = 0) /\ (here # {} => n \in here)
  BY <1>2, <1>3, LeastOf
<1> QED
  BY <1>1, <1>2, <1>4

\* A new row is no twin of a row of the file, because the copy in memory has all of them.
LEMMA AddedInv ==
    ASSUME RegistryInv, NEW e, IsRow(e), DuplicateIndex(hMem, e) = 0,
           hFile' = Append(hFile, e), hMem' = UpsertEntry(hMem, e)
    PROVE  RegistryInv'
<1>1. hMem' = Append(hMem, e)
  BY DEF UpsertEntry
<1>2. PICK file, mem, n : file = hFile' /\ mem = hMem' /\ n = Len(hFile)
  OBVIOUS
<1>3. /\ IsRegistry(file) /\ Len(file) = n + 1 /\ DOMAIN file = 1..(n + 1) /\ DOMAIN hFile = 1..n /\ n \in Nat
      /\ file[n + 1] = e /\ \A i \in DOMAIN hFile : file[i] = hFile[i]
  <2>1. IsRegistry(hFile)
    BY DEF RegistryInv
  <2>2. file = Append(hFile, e)
    BY <1>2
  <2>3. IsRow(e)
    OBVIOUS
  <2>4. Extends(file, hFile, e)
    BY <2>1, <2>2, <2>3, Appending
  <2> QED
    BY <1>2, <2>4 DEF Extends
<1>4. /\ IsRegistry(mem) /\ Len(mem) = n + 1 /\ DOMAIN hMem = 1..n
      /\ mem[n + 1] = e /\ \A i \in DOMAIN hMem : mem[i] = hMem[i]
  <2>1. IsRegistry(hMem)
    BY DEF RegistryInv
  <2>2. mem = Append(hMem, e)
    BY <1>1, <1>2
  <2>3. IsRow(e)
    OBVIOUS
  <2>4. Extends(mem, hMem, e)
    BY <2>1, <2>2, <2>3, Appending
  <2>5. Len(hMem) = n
    BY <1>2 DEF RegistryInv
  <2> QED
    BY <2>1, <2>4, <2>5 DEF Extends
<1>5. \A i \in DOMAIN file : Covers(mem[i], file[i])
  <2> TAKE i \in DOMAIN file
  <2>1. CASE i = n + 1
    BY <1>3, <1>4, <2>1 DEF Covers
  <2>2. CASE i # n + 1
    BY <1>3, <1>4, <2>2 DEF RegistryInv
  <2> QED
    BY <2>1, <2>2
<1>6. \A i \in DOMAIN hFile : ~EntriesMatch(hFile[i], e) /\ ~EntriesMatch(e, hFile[i])
  <2> TAKE i \in DOMAIN hFile
  <2>1. ~EntriesMatch(hMem[i], e)
    BY <1>3, <1>4, Duplicates DEF RegistryInv
  <2>2. Covers(hMem[i], hFile[i])
    BY DEF RegistryInv
  <2> QED
    BY <2>1, <2>2 DEF EntriesMatch, Covers
<1>7. NoTwins(file)
  <2> SUFFICES ASSUME NEW i \in DOMAIN file, NEW j \in DOMAIN file, EntriesMatch(file[i], file[j]), i # j
               PROVE  FALSE
    BY DEF NoTwins
  <2>1. CASE i # n + 1 /\ j # n + 1
    <3>1. i \in DOMAIN hFile /\ j \in DOMAIN hFile
      BY <1>3, <2>1
    <3>2. EntriesMatch(hFile[i], hFile[j])
      BY <1>3, <3>1
    <3> QED
      BY <3>1, <3>2 DEF RegistryInv, NoTwins
  <2>2. CASE i = n + 1
    BY <1>3, <1>6, <2>2
  <2>3. CASE j = n + 1
    BY <1>3, <1>6, <2>3
  <2> QED
    BY <2>1, <2>2, <2>3
<1> QED
  BY <1>2, <1>3, <1>4, <1>5, <1>7 DEF RegistryInv

LEMMA HandleAddInv ==
    ASSUME RegistryInv, NEW line \in AddLines, HandleAdd(line)
    PROVE  RegistryInv'
<1>1. PICK e : e = ParseHandleAdd(line)
  OBVIOUS
<1>2. CASE UNCHANGED <<hFile, hMem>>
  BY <1>2 DEF RegistryInv
<1>3. CASE e # None /\ DuplicateIndex(hMem, e) = 0 /\ AppendHandleToml(e) /\ hMem' = UpsertEntry(hMem, e)
  <2>1. IsRow(e)
    BY <1>1, <1>3, ParsedRow
  <2> QED
    BY <1>3, <2>1, AddedInv DEF AppendHandleToml
<1>4. CASE e # None /\ DuplicateIndex(hMem, e) # 0 /\ hMem' = UpsertEntry(hMem, e) /\ UNCHANGED hFile
  <2>1. PICK n : n = DuplicateIndex(hMem, e)
    OBVIOUS
  <2>2. n \in DOMAIN hMem
    BY <1>4, <2>1, Duplicates DEF RegistryInv
  <2>3. hMem' = [hMem EXCEPT ![n] = MergeMissingFields(@, e)]
    BY <1>4, <2>1 DEF UpsertEntry
  <2>4. PICK mem : mem = hMem'
    OBVIOUS
  <2>8. IsRegistry(hMem)
    BY DEF RegistryInv
  <2>9. mem = FilledAt(hMem, n, e)
    BY <2>3, <2>4 DEF FilledAt
  <2>5. Fills(mem, hMem)
    BY <2>2, <2>8, <2>9, Merged
  <2>6. DOMAIN hFile = DOMAIN hMem
    BY DEF RegistryInv, IsRegistry, IsText
  <2>7. \A k \in DOMAIN hFile : Covers(mem[k], hFile[k])
    BY <2>5, <2>6 DEF RegistryInv, Covers, Fills
  <2> QED
    BY <1>4, <2>4, <2>5, <2>7 DEF RegistryInv, Fills
<1> QED
  BY <1>1, <1>2, <1>3, <1>4 DEF HandleAdd, AddEntry

LEMMA RestartInv == ASSUME RegistryInv, RestartHandles PROVE RegistryInv'
<1>1. hMem' = hFile /\ hFile' = hFile
  BY DEF RestartHandles
<1> QED
  BY <1>1 DEF RegistryInv, Covers

-------------------------------------------------------------------------------
(* Placing a handle *)

\* A text whose tokens are another's, or some that were put in.
MadeOf(out, text, more) == out \in Seq(ToSet(text) \cup more)

LEMMA FoundAt ==
    ASSUME NEW text, IsText(text), NEW phrase, IsText(phrase)
    PROVE  Find(text, phrase) \in Nat /\ (Find(text, phrase) # 0 => Find(text, phrase) \in 1..(Len(text) + 1))
<1>1. Len(text) \in Nat /\ Len(phrase) \in Nat
  BY DEF IsText
<1>2. PICK at : at = {i \in 1..(Len(text) + 1 - Len(phrase)) :
                          SubSeq(text, i, i + Len(phrase) - 1)
                              = [j \in DOMAIN phrase |-> [k |-> "word", v |-> phrase[j]]]}
  OBVIOUS
<1>3. at \subseteq Nat /\ at \subseteq 1..(Len(text) + 1)
  BY <1>1, <1>2
<1>4. Find(text, phrase) = 0 \/ Find(text, phrase) = Least(at)
  BY <1>2 DEF Find
<1>5. at = {} => Least(at) = 0
  BY <1>3, LeastOf
<1>6. at # {} => Least(at) \in at
  BY <1>3, LeastOf
<1>7. CASE Find(text, phrase) = 0
  BY <1>7
<1>8. CASE Find(text, phrase) = Least(at) /\ at = {}
  BY <1>5, <1>8
<1>9. CASE Find(text, phrase) = Least(at) /\ at # {}
  BY <1>3, <1>6, <1>9
<1> QED
  BY <1>4, <1>7, <1>8, <1>9

LEMMA Replaced ==
    ASSUME NEW text, IsText(text), NEW i \in 1..(Len(text) + 1), NEW n \in Nat, NEW h
    PROVE  MadeOf(ReplaceAtWords(text, i, n, h), text, {At(h)})
<1>1. PICK S : S = ToSet(text) \cup {At(h)}
  OBVIOUS
<1>2. Len(text) \in Nat /\ \A j \in 1..Len(text) : text[j] \in S
  BY <1>1 DEF IsText, ToSet
<1>3. PICK left, right, m : /\ left = SubSeq(text, 1, i - 1) /\ right = SubSeq(text, i + n, Len(text))
                            /\ m = <<At(h)>>
  OBVIOUS
<1>4. left \in Seq(S)
  <2>1. 1 \in Int /\ i - 1 \in Int /\ \A j \in 1..(i - 1) : text[j] \in S
    BY <1>2
  <2> QED
    BY <1>3, <2>1, SubSeqProperties
<1>5. right \in Seq(S)
  <2>1. i + n \in Int /\ Len(text) \in Int /\ \A j \in (i + n)..Len(text) : text[j] \in S
    BY <1>2
  <2> QED
    BY <1>3, <2>1, SubSeqProperties
<1>6. m \in Seq(S)
  BY <1>1, <1>3
<1>7. left \o m \in Seq(S)
  BY <1>4, <1>6, ConcatProperties
<1>8. (left \o m) \o right \in Seq(S)
  BY <1>5, <1>7, ConcatProperties
<1> QED
  BY <1>1, <1>3, <1>8 DEF ReplaceAtWords, MadeOf

LEMMA HeldText == ASSUME NEW text, IsText(text), NEW more PROVE MadeOf(text, text, more)
<1>1. text \in Seq(ToSet(text)) /\ ToSet(text) \subseteq ToSet(text) \cup more
  BY DEF IsText
<1> QED
  BY <1>1, SeqMonotonic DEF MadeOf

LEMMA HeldIsText == ASSUME NEW out, NEW text, NEW more, MadeOf(out, text, more) PROVE IsText(out)
<1>1. PICK S : S = ToSet(text) \cup more
  OBVIOUS
<1> QED
  BY <1>1, SeqIsText DEF MadeOf

LEMMA HeldTwice ==
    ASSUME NEW out, NEW mid, NEW text, NEW more, NEW also, MadeOf(mid, text, more), MadeOf(out, mid, also)
    PROVE  MadeOf(out, text, more \cup also)
<1>1. PICK S : S = ToSet(text) \cup (more \cup also)
  OBVIOUS
<1>2. ToSet(mid) \subseteq ToSet(text) \cup more
  BY DEF MadeOf, ToSet
<1>3. ToSet(mid) \cup also \subseteq S
  BY <1>1, <1>2
<1>4. PICK T : T = ToSet(mid) \cup also
  OBVIOUS
<1>5. out \in Seq(T) /\ T \subseteq S
  BY <1>3, <1>4 DEF MadeOf
<1>6. out \in Seq(S)
  BY <1>5, SeqMonotonic
<1> QED
  BY <1>1, <1>6 DEF MadeOf

LEMMA BrandMentioned ==
    ASSUME NEW text, IsText(text)
    PROVE  MadeOf(EnsureBrandMention(text), text, {At(BrandHandle)})
<1>1. IsText(Brand) /\ IsText(BrandItc)
  BY HandlesAssumption
<1>2. PICK long, short : long = Find(text, BrandItc) /\ short = Find(text, Brand)
  OBVIOUS
<1>3. long # 0 => long \in 1..(Len(text) + 1)
  BY <1>1, <1>2, FoundAt
<1>4. short # 0 => short \in 1..(Len(text) + 1)
  BY <1>1, <1>2, FoundAt
<1>5. /\ Len(Brand) \in Nat /\ Len(BrandItc) \in Nat /\ Len(Brand) + 1 \in Nat /\ Len(BrandItc) + 1 \in Nat
  BY <1>1 DEF IsText
<1>6. PICK out : out = EnsureBrandMention(text)
  OBVIOUS
<1>7. \/ long # 0 /\ out = ReplaceAtWords(text, long, Len(BrandItc) + 1, BrandHandle)
      \/ short # 0 /\ out = ReplaceAtWords(text, short, Len(Brand) + 1, BrandHandle)
      \/ out = text
      \/ long # 0 /\ out = ReplaceAtWords(text, long, Len(BrandItc), BrandHandle)
      \/ short # 0 /\ out = ReplaceAtWords(text, short, Len(Brand), BrandHandle)
  BY <1>2, <1>6 DEF EnsureBrandMention
<1>8. CASE long # 0 /\ out = ReplaceAtWords(text, long, Len(BrandItc) + 1, BrandHandle)
  BY <1>3, <1>5, <1>6, <1>8, Replaced
<1>9. CASE short # 0 /\ out = ReplaceAtWords(text, short, Len(Brand) + 1, BrandHandle)
  BY <1>4, <1>5, <1>6, <1>9, Replaced
<1>10. CASE out = text
  BY <1>6, <1>10, HeldText
<1>11. CASE long # 0 /\ out = ReplaceAtWords(text, long, Len(BrandItc), BrandHandle)
  BY <1>3, <1>5, <1>6, <1>11, Replaced
<1>12. CASE short # 0 /\ out = ReplaceAtWords(text, short, Len(Brand), BrandHandle)
  BY <1>4, <1>5, <1>6, <1>12, Replaced
<1> QED
  BY <1>7, <1>8, <1>9, <1>10, <1>11, <1>12

LEMMA LabelsAreTexts ==
    ASSUME NEW name, IsText(name), NEW i \in DOMAIN NameLabels(name)
    PROVE  IsText(NameLabels(name)[i])
<1>1. PICK first : first = <<name[1]>>
  OBVIOUS
<1>2. IsText(first)
  <2>1. first \in Seq({name[1]})
    BY <1>1
  <2> QED
    BY <2>1, SeqIsText
<1>3. NameLabels(name) = <<name, first>> \/ NameLabels(name) = <<name>>
  BY <1>1 DEF NameLabels
<1> QED
  BY <1>2, <1>3

LEMMA FirstRow ==
    ASSUME NEW here, here \subseteq Nat, NEW n, n = Least(here), n # 0
    PROVE  n \in here
BY LeastOf

LEMMA NamedHandle ==
    ASSUME NEW text, IsText(text), NEW h, NEW rows, IsRegistry(rows), NEW kind
    PROVE  MadeOf(EnsureNamedHandleInBody(text, h, rows, kind), text, {At(h)})
<1>1. PICK row : row = {i \in DOMAIN rows : h = IF kind = "post" THEN rows[i].li ELSE rows[i].x}
  OBVIOUS
<1>2. PICK n : n = Least(row)
  OBVIOUS
<1>3. PICK labels : labels = IF n = 0 THEN <<>> ELSE NameLabels(rows[n].name)
  OBVIOUS
<1>4. PICK places : places = {i \in DOMAIN labels : Find(text, labels[i]) # 0}
  OBVIOUS
<1>5. PICK found : found = Least(places)
  OBVIOUS
<1>6. PICK out : out = EnsureNamedHandleInBody(text, h, rows, kind)
  OBVIOUS
<1>7. \/ out = text
      \/ found # 0 /\ out = ReplaceAtWords(text, Find(text, labels[found]), Len(labels[found]), h)
      \/ out = <<At(h)>>
      \/ out = <<At(h)>> \o text
  BY <1>1, <1>2, <1>3, <1>4, <1>5, <1>6 DEF EnsureNamedHandleInBody, First
<1>8. CASE out = text
  BY <1>6, <1>8, HeldText
<1>9. CASE found # 0 /\ out = ReplaceAtWords(text, Find(text, labels[found]), Len(labels[found]), h)
  <2>1. n \in DOMAIN rows
    <3>1. n # 0
      <4>1. SUFFICES ASSUME n = 0 PROVE FALSE
        OBVIOUS
      <4>2. places = {}
        BY <1>3, <1>4, <4>1
      <4> QED
        BY <1>5, <1>9, <4>2 DEF Least
    <3>2. row \subseteq Nat /\ row \subseteq DOMAIN rows
      BY <1>1 DEF IsRegistry, IsText
    <3> QED
      BY <1>2, <3>1, <3>2, FirstRow
  <2>2. IsText(rows[n].name)
    BY <2>1 DEF IsRegistry, IsRow
  <2>3. n # 0
    BY <2>1 DEF IsRegistry, IsText
  <2>4. labels = NameLabels(rows[n].name)
    BY <1>3, <2>3
  <2>5. DOMAIN labels \subseteq Nat
    BY <2>4 DEF NameLabels
  <2>6. places \subseteq Nat
    BY <1>4, <2>5
  <2>7. found \in places
    BY <1>5, <1>9, <2>6, FirstRow
  <2>8. found \in DOMAIN labels /\ Find(text, labels[found]) # 0
    BY <1>4, <2>7
  <2>9. PICK label : label = labels[found]
    OBVIOUS
  <2>10. IsText(label)
    BY <2>2, <2>4, <2>8, <2>9, LabelsAreTexts
  <2>11. Find(text, label) \in 1..(Len(text) + 1)
    BY <2>8, <2>9, <2>10, FoundAt
  <2>12. Len(label) \in Nat
    BY <2>10 DEF IsText
  <2> QED
    BY <1>6, <1>9, <2>9, <2>11, <2>12, Replaced
<1>10. PICK S : S = ToSet(text) \cup {At(h)}
  OBVIOUS
<1>11. PICK at : at = <<At(h)>>
  OBVIOUS
<1>12. at \in Seq(S)
  BY <1>10, <1>11
<1>13. text \in Seq(S)
  BY <1>10, HeldText DEF MadeOf
<1>14. at \o text \in Seq(S)
  BY <1>12, <1>13, ConcatProperties
<1>15. CASE out = <<At(h)>>
  BY <1>6, <1>10, <1>11, <1>12, <1>15 DEF MadeOf
<1>16. CASE out = <<At(h)>> \o text
  BY <1>6, <1>10, <1>11, <1>14, <1>16 DEF MadeOf
<1> QED
  BY <1>7, <1>8, <1>9, <1>15, <1>16

\* The handles a text of that kind may be given.
PackOf(pack, rows, kind) ==
    IF kind = "post" THEN {At(BrandHandle), At(LinkedInHandleForPack(pack, rows))} ELSE {At(pack.x)}

LEMMA PlaceHolds ==
    ASSUME NEW text, IsText(text), NEW pack, NEW rows, IsRegistry(rows), NEW kind
    PROVE  MadeOf(Place(text, pack, rows, kind), text, PackOf(pack, rows, kind))
<1>1. CASE kind = "post"
  <2>1. PICK mid, out : mid = EnsureBrandMention(text) /\ out = EnsureLinkedInHandleFromPack(mid, pack, rows)
    OBVIOUS
  <2>2. MadeOf(mid, text, {At(BrandHandle)})
    BY <2>1, BrandMentioned
  <2>3. IsText(mid)
    BY <2>2, HeldIsText
  <2>4. PICK h : h = LinkedInHandleForPack(pack, rows)
    OBVIOUS
  <2>5. MadeOf(out, mid, {At(h)})
    <3>1. out = mid \/ out = EnsureNamedHandleInBody(mid, h, rows, "post")
      BY <2>1, <2>4 DEF EnsureLinkedInHandleFromPack
    <3>2. CASE out = mid
      BY <2>3, <3>2, HeldText
    <3>3. CASE out = EnsureNamedHandleInBody(mid, h, rows, "post")
      BY <2>3, <3>3, NamedHandle
    <3> QED
      BY <3>1, <3>2, <3>3
  <2>6. MadeOf(out, text, {At(BrandHandle)} \cup {At(h)})
    BY <2>2, <2>5, HeldTwice
  <2>7. {At(BrandHandle)} \cup {At(h)} = PackOf(pack, rows, kind)
    BY <1>1, <2>4 DEF PackOf
  <2>8. out = Place(text, pack, rows, kind)
    BY <1>1, <2>1 DEF Place
  <2> QED
    BY <2>6, <2>7, <2>8
<1>2. CASE kind # "post"
  <2>1. PICK out : out = Place(text, pack, rows, kind)
    OBVIOUS
  <2>2. out = text \/ out = EnsureNamedHandleInBody(text, pack.x, rows, "tweet")
    BY <1>2, <2>1 DEF Place, EnsureXHandleFromPack
  <2>3. PackOf(pack, rows, kind) = {At(pack.x)}
    BY <1>2 DEF PackOf
  <2>4. CASE out = text
    BY <2>1, <2>4, HeldText
  <2>5. CASE out = EnsureNamedHandleInBody(text, pack.x, rows, "tweet")
    BY <2>1, <2>3, <2>5, NamedHandle
  <2> QED
    BY <2>2, <2>4, <2>5
<1> QED
  BY <1>1, <1>2

\* What PlacedOnItsPlatform says of a post.
Tagged(text) == {text[i].v : i \in {j \in DOMAIN text : text[j].k = "at"}}
Allowed(p, h) ==
    \/ p.kind = "tweet" /\ h = p.pack.x
    \/ p.kind = "post" /\ h \in {BrandHandle, p.pack.li}
    \/ p.kind = "post" /\ p.pack.li = None /\ p.pack.x # None
PlacedRight(p) == \A h \in Tagged(p.after) \ Tagged(p.before) : Allowed(p, h)

LEMMA PlacedIsRight == PlacedOnItsPlatform <=> PlacedRight(hPost)
BY DEF PlacedOnItsPlatform, PlacedRight, Placed, Tagged, Allowed

LEMMA PostIsRight ==
    ASSUME NEW brief, NEW kind \in {"post", "tweet"}, NEW pack, NEW text, IsText(text), IsRegistry(hMem)
    PROVE  /\ PlacedRight(PostWith(brief, kind, pack, text))
           /\ IsText(PostWith(brief, kind, pack, text).after)
           /\ PostWith(brief, kind, pack, text).kind = kind
<1>1. PICK p, out : p = PostWith(brief, kind, pack, text) /\ out = Place(text, pack, hMem, kind)
  OBVIOUS
<1>2. p.kind = kind /\ p.pack = pack /\ p.before = text /\ p.after = out
  BY <1>1 DEF PostWith
<1>3. MadeOf(out, text, PackOf(pack, hMem, kind))
  BY <1>1, PlaceHolds
<1>4. IsText(out)
  BY <1>3, HeldIsText
<1>5. \A h : At(h).v = h
  BY DEF At
<1>6. \A h \in Tagged(out) \ Tagged(text) : At(h) \in PackOf(pack, hMem, kind)
  <2> SUFFICES ASSUME NEW h \in Tagged(out), h \notin Tagged(text)
               PROVE  At(h) \in PackOf(pack, hMem, kind)
    OBVIOUS
  <2>1. PICK i \in DOMAIN out : out[i].k = "at" /\ out[i].v = h
    BY DEF Tagged
  <2>2. PICK t : t = out[i]
    OBVIOUS
  <2>3. t \in ToSet(text) \cup PackOf(pack, hMem, kind)
    BY <1>3, <2>2 DEF MadeOf
  <2>4. t \notin ToSet(text)
    BY <2>1, <2>2 DEF ToSet, Tagged
  <2>5. t \in PackOf(pack, hMem, kind)
    BY <2>3, <2>4
  <2>6. PICK g : t = At(g)
    BY <2>5 DEF PackOf
  <2>7. g = h
    BY <1>5, <2>1, <2>2, <2>6
  <2> QED
    BY <2>5, <2>6, <2>7
<1>7. \A h \in Tagged(out) \ Tagged(text) : Allowed(p, h)
  <2> SUFFICES ASSUME NEW h \in Tagged(out) \ Tagged(text)
               PROVE  Allowed(p, h)
    OBVIOUS
  <2>1. At(h) \in PackOf(pack, hMem, kind)
    BY <1>6
  <2>2. CASE kind = "tweet"
    <3>1. At(h) = At(pack.x)
      BY <2>1, <2>2 DEF PackOf
    <3>2. h = pack.x
      BY <1>5, <3>1
    <3> QED
      BY <1>2, <2>2, <3>2 DEF Allowed
  <2>3. CASE kind = "post"
    <3>1. At(h) = At(BrandHandle) \/ At(h) = At(LinkedInHandleForPack(pack, hMem))
      BY <2>1, <2>3 DEF PackOf
    <3>2. h = BrandHandle \/ h = LinkedInHandleForPack(pack, hMem)
      BY <1>5, <3>1
    <3>3. \/ LinkedInHandleForPack(pack, hMem) = pack.li
          \/ pack.li = None /\ pack.x # None
          \/ pack.li = None /\ pack.x = None /\ LinkedInHandleForPack(pack, hMem) = None
      BY DEF LinkedInHandleForPack
    <3> QED
      BY <1>2, <2>3, <3>2, <3>3 DEF Allowed
  <2> QED
    BY <2>2, <2>3
<1> QED
  BY <1>1, <1>2, <1>4, <1>7 DEF PlacedRight

HInv ==
    /\ RegistryInv
    /\ PlacedRight(hPost)
    /\ IsText(hPost.after)
    /\ hPost.kind \in {"none", "post", "tweet"}

LEMMA HandlesStart == HandlesInit => HInv
<1> SUFFICES ASSUME HandlesInit PROVE HInv
  OBVIOUS
<1>1. RegistryInv
  BY HandlesAssumption DEF HandlesInit, RegistryInv, Covers
<1>2. hPost.after = <<>> /\ hPost.kind = "none"
  BY DEF HandlesInit, NoPost
<1>3. PICK after : after = <<>>
  OBVIOUS
<1>4. IsText(after)
  <2>1. after \in Seq({})
    BY <1>3
  <2> QED
    BY <2>1, SeqIsText
<1>5. Tagged(<<>>) = {}
  BY DEF Tagged
<1> QED
  BY <1>1, <1>2, <1>3, <1>4, <1>5 DEF HInv, PlacedRight

LEMMA HandlesStep == HInv /\ [HandlesNext]_handlesVars => HInv'
<1> SUFFICES ASSUME HInv, [HandlesNext]_handlesVars PROVE HInv'
  OBVIOUS
<1> USE DEF HInv
<1>1. ASSUME hPost' = hPost, RegistryInv' PROVE HInv'
  BY <1>1 DEF PlacedRight, Allowed
<1>2. ASSUME UNCHANGED <<hFile, hMem>>,
             NEW brief, NEW kind \in {"post", "tweet"}, NEW pack, NEW text, IsText(text),
             hPost' = PostWith(brief, kind, pack, text)
      PROVE  HInv'
  <2>1. PICK p : p = PostWith(brief, kind, pack, text)
    OBVIOUS
  <2>2. PlacedRight(p) /\ IsText(p.after) /\ p.kind = kind
    BY <1>2, <2>1, PostIsRight DEF RegistryInv
  <2>3. hPost' = p
    BY <1>2, <2>1
  <2>4. PlacedRight(hPost)'
    BY <2>2, <2>3 DEF PlacedRight, Allowed
  <2>5. RegistryInv'
    BY <1>2 DEF RegistryInv
  <2> QED
    BY <1>2, <2>2, <2>3, <2>4, <2>5
<1>3. ASSUME NEW line \in AddLines, HandleAdd(line) PROVE HInv'
  BY <1>1, <1>3, HandleAddInv DEF HandleAdd
<1>4. CASE RestartHandles
  BY <1>1, <1>4, RestartInv DEF RestartHandles
<1>5. ASSUME NEW brief \in Briefs, NEW kind \in {"post", "tweet"}, NEW model \in ModelPacks, NEW text \in Bodies,
             WritePost(brief, kind, model, text)
      PROVE  HInv'
  <2>1. IsText(text)
    BY HandlesAssumption
  <2>2. PICK pack : pack = ApplyBriefHandlesToPack(model, brief, hMem)
    OBVIOUS
  <2>3. hPost' = PostWith(brief, kind, pack, text) /\ UNCHANGED <<hFile, hMem>>
    BY <1>5, <2>2 DEF WritePost
  <2> QED
    BY <1>2, <2>1, <2>3
<1>6. CASE PlaceAgain
  <2>1. PICK brief, kind, pack, text : /\ brief = hPost.brief /\ kind = hPost.kind /\ text = hPost.after
                                       /\ pack = ApplyBriefHandlesToPack(hPost.pack, hPost.brief, hMem)
    OBVIOUS
  <2>2. hPost' = PostWith(brief, kind, pack, text) /\ UNCHANGED <<hFile, hMem>>
    BY <1>6, <2>1 DEF PlaceAgain
  <2>3. kind \in {"post", "tweet"} /\ IsText(text)
    BY <1>6, <2>1 DEF PlaceAgain
  <2> QED
    BY <1>2, <2>2, <2>3
<1>7. CASE UNCHANGED handlesVars
  <2>1. hPost' = hPost /\ RegistryInv'
    BY <1>7 DEF handlesVars, RegistryInv
  <2> QED
    BY <1>1, <2>1
<1> QED
  BY <1>3, <1>4, <1>5, <1>6, <1>7 DEF HandlesNext

\* handles.rs: over any commands, texts and restarts, the file names nobody twice and a post or
\* tweet tags, beyond what it had, only the brand and the one the brief is about, as the platform
\* knows them.
THEOREM HandlesSafe == HandlesSpec => []HandlesInv
<1>1. HInv => HandlesInv
  BY PlacedIsRight DEF HInv, HandlesInv, FileHasNoTwins, RegistryInv
<1> QED
  BY <1>1, HandlesStart, HandlesStep, PTL DEF HandlesSpec

-------------------------------------------------------------------------------
-------------------------------------------------------------------------------
(* No handle twice *)

\* Where a text says a handle.
SaidAt(text, h) == {i \in DOMAIN text : text[i] = At(h)}

LEMMA TextIsListing == ASSUME NEW text PROVE IsText(text) <=> Listing(text)
  BY DEF IsText, Listing, ToSet

LEMMA TimesFinite ==
    ASSUME NEW text, IsText(text), NEW h
    PROVE  /\ IsFiniteSet(SaidAt(text, h)) /\ Times(text, h) = Cardinality(SaidAt(text, h))
           /\ Times(text, h) \in Nat
<1>1. Len(text) \in Nat /\ DOMAIN text = 1..Len(text)
  BY DEF IsText
<1>2. IsFiniteSet(1..Len(text))
  BY <1>1, FS_Interval
<1>3. SaidAt(text, h) \in SUBSET (1..Len(text))
  BY <1>1 DEF SaidAt
<1>4. IsFiniteSet(SaidAt(text, h))
  BY <1>2, <1>3, FS_Subset
<1>5. Cardinality(SaidAt(text, h)) \in Nat
  BY <1>4, FS_CardinalityType
<1>6. Times(text, h) = Cardinality(SaidAt(text, h))
  BY DEF Times, SaidAt
<1> QED
  BY <1>4, <1>5, <1>6

LEMMA NeverSaid ==
    ASSUME NEW text, IsText(text), NEW h, \A i \in DOMAIN text : text[i] # At(h)
    PROVE  Times(text, h) = 0
<1>1. SaidAt(text, h) = {}
  BY DEF SaidAt
<1> QED
  BY <1>1, TimesFinite, FS_EmptySet

LEMMA JoinedText ==
    ASSUME NEW s, NEW t, IsText(s), IsText(t)
    PROVE  IsText(s \o t)
<1>1. Listing(s) /\ Listing(t)
  BY TextIsListing
<1>2. Listing(s \o t)
  BY <1>1, JoinedLists
<1> QED
  BY <1>2, TextIsListing

LEMMA TimesJoined ==
    ASSUME NEW s, NEW t, IsText(s), IsText(t), NEW h
    PROVE  Times(s \o t, h) = Times(s, h) + Times(t, h)
<1>1. PICK both : both = s \o t
  OBVIOUS
<1>2. Listing(s) /\ Listing(t)
  BY TextIsListing
<1>3. /\ Listing(both)
      /\ Len(both) = Len(s) + Len(t) /\ Len(s) \in Nat /\ Len(t) \in Nat
      /\ DOMAIN s = 1..Len(s) /\ DOMAIN t = 1..Len(t) /\ DOMAIN both = 1..(Len(s) + Len(t))
      /\ \A i \in DOMAIN s : i \in DOMAIN both /\ both[i] = s[i]
  BY <1>1, <1>2, JoinedLists
<1>4. \A i \in DOMAIN both : (i \in DOMAIN s /\ both[i] = s[i]) \/ (i - Len(s) \in DOMAIN t /\ both[i] = t[i - Len(s)])
  BY <1>1, <1>2, JoinedLists
<1>5. IsText(both)
  BY <1>3, TextIsListing
<1>6. PICK A, B, C : A = SaidAt(s, h) /\ B = SaidAt(t, h) /\ C = SaidAt(both, h)
  OBVIOUS
<1>7. PICK m : m = Len(s) /\ m \in Nat
  BY <1>3
<1>8. \A j \in DOMAIN t : m + j \in DOMAIN both /\ both[m + j] = t[j] /\ m + j \notin DOMAIN s
  <2> SUFFICES ASSUME NEW j \in DOMAIN t
               PROVE  m + j \in DOMAIN both /\ both[m + j] = t[j] /\ m + j \notin DOMAIN s
    OBVIOUS
  <2>1. j \in 1..Len(t) /\ Len(t) \in Nat
    BY <1>3
  <2>2. m + j \in DOMAIN both /\ m + j \notin DOMAIN s /\ (m + j) - Len(s) = j
    BY <1>3, <1>7, <2>1
  <2> QED
    BY <1>4, <2>2
<1>9. PICK shift : shift = [j \in B |-> m + j]
  OBVIOUS
<1>10. PICK D : D = {m + j : j \in B}
  OBVIOUS
<1>11. B \subseteq DOMAIN t /\ B \subseteq Nat
  BY <1>3, <1>6 DEF SaidAt
<1>12. shift \in Bijection(B, D)
  <2>1. shift \in [B -> D]
    BY <1>9, <1>10
  <2>2. \A j, k \in B : shift[j] = shift[k] => j = k
    BY <1>7, <1>9, <1>11
  <2>3. \A d \in D : \E j \in B : shift[j] = d
    BY <1>9, <1>10
  <2> QED
    BY <2>1, <2>2, <2>3 DEF Bijection, Injection, IsInjective, Surjection
<1>13. IsFiniteSet(A) /\ IsFiniteSet(B) /\ Times(s, h) = Cardinality(A) /\ Times(t, h) = Cardinality(B)
       /\ Cardinality(A) \in Nat /\ Cardinality(B) \in Nat /\ Times(both, h) = Cardinality(C)
  BY <1>5, <1>6, TimesFinite
<1>14. IsFiniteSet(D) /\ Cardinality(D) = Cardinality(B)
  <2>1. ExistsBijection(B, D)
    BY <1>12 DEF ExistsBijection
  <2> QED
    BY <1>13, <2>1, FS_Bijection
<1>15. A \cap D = {}
  <2>1. A \subseteq DOMAIN s
    BY <1>6 DEF SaidAt
  <2> QED
    BY <1>8, <1>10, <1>11, <2>1
<1>16. C = A \cup D
  <2>1. ASSUME NEW i \in C PROVE i \in A \cup D
    <3>1. i \in DOMAIN both /\ both[i] = At(h)
      BY <1>6, <2>1 DEF SaidAt
    <3>2. CASE i \in DOMAIN s /\ both[i] = s[i]
      BY <1>6, <3>1, <3>2 DEF SaidAt
    <3>3. CASE i - Len(s) \in DOMAIN t /\ both[i] = t[i - Len(s)]
      <4>1. PICK j : j = i - Len(s)
        OBVIOUS
      <4>2. j \in B
        BY <1>6, <3>1, <3>3, <4>1 DEF SaidAt
      <4>3. i = m + j
        BY <1>3, <1>7, <3>1, <4>1
      <4> QED
        BY <1>10, <4>2, <4>3
    <3> QED
      BY <1>4, <3>1, <3>2, <3>3
  <2>2. A \subseteq C
    BY <1>3, <1>6 DEF SaidAt
  <2>3. D \subseteq C
    <3> SUFFICES ASSUME NEW j \in B PROVE m + j \in C
      BY <1>10
    <3>1. t[j] = At(h) /\ j \in DOMAIN t
      BY <1>6 DEF SaidAt
    <3> QED
      BY <1>6, <1>8, <3>1 DEF SaidAt
  <2> QED
    BY <2>1, <2>2, <2>3
<1>17. Cardinality(C) = Cardinality(A) + Cardinality(D) - Cardinality({})
  BY <1>13, <1>14, <1>15, <1>16, FS_Union
<1>18. Cardinality({}) = 0
  BY FS_EmptySet
<1> QED
  BY <1>1, <1>13, <1>14, <1>17, <1>18

\* A text is what stands before i, the n tokens from there, and the rest.
CutAt(text, i, n, left, mid, right) ==
    /\ left = SubSeq(text, 1, i - 1) /\ mid = SubSeq(text, i, i + n - 1) /\ right = SubSeq(text, i + n, Len(text))
    /\ IsText(left) /\ IsText(mid) /\ IsText(right)
    /\ DOMAIN mid = 1..n /\ \A j \in 1..n : mid[j] = text[i + j - 1]
    /\ text = (left \o mid) \o right

LEMMA CutInThree ==
    ASSUME NEW text, IsText(text), NEW i \in Nat \ {0}, NEW n \in Nat, i + n <= Len(text) + 1
    PROVE  \E left, mid, right : CutAt(text, i, n, left, mid, right)
<1>0. PICK left, mid, right : /\ left = SubSeq(text, 1, i - 1) /\ mid = SubSeq(text, i, i + n - 1)
                              /\ right = SubSeq(text, i + n, Len(text))
  OBVIOUS
<1>1. PICK S : S = ToSet(text)
  OBVIOUS
<1>2. PICK len : len = Len(text) /\ len \in Nat
  BY DEF IsText
<1>3. text \in Seq(S) /\ (\A j \in 1..len : text[j] \in S) /\ DOMAIN text = 1..len
  BY <1>1, <1>2 DEF IsText, ToSet
<1>4. left \in Seq(S) /\ Len(left) = i - 1 /\ \A j \in 1..(i - 1) : left[j] = text[j]
  <2>1. 1 \in Int /\ i - 1 \in Int /\ (\A j \in 1..(i - 1) : text[j] \in S) /\ 1 <= (i - 1) + 1
    BY <1>2, <1>3
  <2>2. left \in Seq(S) /\ Len(left) = (IF 1 <= (i - 1) + 1 THEN (i - 1) - 1 + 1 ELSE 0)
        /\ \A j \in 1..((i - 1) - 1 + 1) : left[j] = text[1 + j - 1]
    BY SMTT(30), <1>0, <2>1, SubSeqProperties
  <2>3. (i - 1) - 1 + 1 = i - 1 /\ \A j \in 1..(i - 1) : 1 + j - 1 = j
    OBVIOUS
  <2> QED
    BY <2>1, <2>2, <2>3
<1>5. mid \in Seq(S) /\ Len(mid) = n /\ \A j \in 1..n : mid[j] = text[i + j - 1]
  <2>1. PICK e : e = i + n - 1 /\ e \in Int
    OBVIOUS
  <2>2. i \in Int /\ (\A j \in i..e : text[j] \in S) /\ i <= e + 1
    BY <1>2, <1>3, <2>1
  <2>3. mid = SubSeq(text, i, e)
    BY <1>0, <2>1
  <2>4. mid \in Seq(S) /\ Len(mid) = (IF i <= e THEN e - i + 1 ELSE 0)
        /\ \A j \in 1..(e - i + 1) : mid[j] = text[i + j - 1]
    BY <2>1, <2>2, <2>3, SubSeqProperties
  <2>5. e - i + 1 = n /\ Len(mid) = n
    BY <2>1, <2>2, <2>4
  <2> QED
    BY <2>4, <2>5
<1>6. right \in Seq(S) /\ Len(right) = len - (i + n) + 1 /\ \A j \in 1..(len - (i + n) + 1) : right[j] = text[(i + n) + j - 1]
  <2>1. PICK q : q = i + n /\ q \in Int
    OBVIOUS
  <2>2. len \in Int /\ (\A j \in q..len : text[j] \in S) /\ q <= len + 1
    BY <1>2, <1>3, <2>1
  <2>3. right = SubSeq(text, q, len)
    BY <1>0, <1>2, <2>1
  <2>4. right \in Seq(S) /\ Len(right) = (IF q <= len THEN len - q + 1 ELSE 0)
        /\ \A j \in 1..(len - q + 1) : right[j] = text[q + j - 1]
    BY <2>1, <2>2, <2>3, SubSeqProperties
  <2>5. Len(right) = len - q + 1
    BY <2>1, <2>2, <2>4
  <2> QED
    BY <2>1, <2>4, <2>5
<1>7. PICK front : front = left \o mid
  OBVIOUS
<1>8. /\ front \in Seq(S) /\ Len(front) = (i - 1) + n
      /\ \A j \in 1..(i - 1) : front[j] = left[j]
      /\ \A j \in 1..n : front[(i - 1) + j] = mid[j]
  <2>1. /\ front \in Seq(S) /\ Len(front) = Len(left) + Len(mid)
        /\ \A j \in 1..Len(left) : front[j] = left[j]
        /\ \A j \in 1..Len(mid) : front[Len(left) + j] = mid[j]
    <3>1. left \in Seq(S) /\ mid \in Seq(S)
      BY <1>4, <1>5
    <3> QED
      BY <1>7, <3>1, ConcatProperties
  <2> QED
    BY <1>4, <1>5, <2>1
<1>9. \A j \in 1..((i - 1) + n) : front[j] = text[j]
  <2> SUFFICES ASSUME NEW j \in 1..((i - 1) + n) PROVE front[j] = text[j]
    OBVIOUS
  <2>1. CASE j <= i - 1
    <3>1. j \in 1..(i - 1)
      BY <2>1
    <3> QED
      BY <1>4, <1>8, <3>1
  <2>2. CASE ~(j <= i - 1)
    <3>1. j - (i - 1) \in 1..n /\ i + (j - (i - 1)) - 1 = j /\ (i - 1) + (j - (i - 1)) = j
      BY <2>2
    <3>2. front[(i - 1) + (j - (i - 1))] = mid[j - (i - 1)]
      BY <1>8, <3>1
    <3>3. mid[j - (i - 1)] = text[i + (j - (i - 1)) - 1]
      BY <1>5, <3>1
    <3> QED
      BY <3>1, <3>2, <3>3
  <2> QED
    BY <2>1, <2>2
<1>10. PICK whole : whole = front \o right
  OBVIOUS
<1>11. PICK m : m = (i - 1) + n /\ m \in Nat
  OBVIOUS
<1>12. /\ whole \in Seq(S) /\ Len(whole) = len
       /\ \A j \in 1..m : whole[j] = front[j]
       /\ \A j \in 1..(len - m) : whole[m + j] = right[j]
  <2>1. /\ whole \in Seq(S) /\ Len(whole) = Len(front) + Len(right)
        /\ \A j \in 1..Len(front) : whole[j] = front[j]
        /\ \A j \in 1..Len(right) : whole[Len(front) + j] = right[j]
    <3>1. front \in Seq(S) /\ right \in Seq(S)
      BY <1>6, <1>8
    <3> QED
      BY <1>10, <3>1, ConcatProperties
  <2>2. Len(front) = m /\ Len(right) = len - m
    BY <1>2, <1>6, <1>8, <1>11
  <2>3. m + (len - m) = len
    BY <1>2, <1>11
  <2> QED
    BY <2>1, <2>2, <2>3
<1>13. \A j \in 1..len : whole[j] = text[j]
  <2> SUFFICES ASSUME NEW j \in 1..len PROVE whole[j] = text[j]
    OBVIOUS
  <2>1. CASE j <= m
    BY <1>9, <1>11, <1>12, <2>1
  <2>2. CASE ~(j <= m)
    <3>0. PICK k : k = j - m
      OBVIOUS
    <3>1. k \in 1..(len - m) /\ m + k = j
      BY <1>2, <1>11, <2>2, <3>0
    <3>2. whole[m + k] = right[k]
      BY <1>12, <3>1
    <3>3. k \in 1..(len - (i + n) + 1) /\ (i + n) + k - 1 = m + k
      BY <1>2, <1>11, <3>1
    <3>4. right[k] = text[(i + n) + k - 1]
      BY <1>6, <3>3
    <3> QED
      BY <3>1, <3>2, <3>3, <3>4
  <2> QED
    BY <2>1, <2>2
<1>14. whole = text
  <2>1. whole \in Seq(S) /\ text \in Seq(S) /\ Len(whole) = Len(text) /\ \A j \in 1..Len(whole) : whole[j] = text[j]
    BY <1>2, <1>3, <1>12, <1>13
  <2> QED
    BY <2>1, SeqEqual
<1>15. IsText(left) /\ IsText(mid) /\ IsText(right)
  BY <1>4, <1>5, <1>6, SeqIsText
<1>16. DOMAIN mid = 1..n
  BY <1>5
<1> QED
  BY <1>0, <1>5, <1>7, <1>10, <1>14, <1>15, <1>16 DEF CutAt

\* None of the n tokens from i is the handle h.
Clear(text, i, n, h) == \A j \in 1..n : text[i + j - 1] # At(h)

\* The words of a phrase that is found are no handles.
LEMMA FoundWords ==
    ASSUME NEW text, IsText(text), NEW phrase, IsText(phrase), NEW i, i = Find(text, phrase), i # 0
    PROVE  /\ i \in Nat \ {0} /\ Len(phrase) \in Nat /\ i + Len(phrase) <= Len(text) + 1
           /\ \A h : Clear(text, i, Len(phrase), h)
<1>1. PICK n : n = Len(phrase) /\ n \in Nat
  BY DEF IsText
<1>2. PICK words : words = [j \in DOMAIN phrase |-> [k |-> "word", v |-> phrase[j]]]
  OBVIOUS
<1>3. Len(text) \in Nat /\ DOMAIN phrase = 1..n
  BY <1>1 DEF IsText
<1>4. PICK at : at = {j \in 1..(Len(text) + 1 - n) : SubSeq(text, j, j + n - 1) = words}
  OBVIOUS
<1>5. Find(text, phrase) = 0 \/ Find(text, phrase) = Least(at)
  BY <1>1, <1>2, <1>4 DEF Find
<1>6. at \subseteq Nat
  BY <1>3, <1>4
<1>7. i \in at
  <2>1. i = Least(at)
    BY <1>5
  <2>2. at # {}
    BY <1>6, <2>1, LeastOf
  <2> QED
    BY <1>6, <2>1, <2>2, LeastOf
<1>8. i \in 1..(Len(text) + 1 - n) /\ SubSeq(text, i, i + n - 1) = words
  BY <1>4, <1>7
<1>9. i \in Nat \ {0} /\ i + n <= Len(text) + 1
  BY <1>1, <1>3, <1>8
<1>10. PICK left, mid, right : CutAt(text, i, n, left, mid, right)
  BY <1>1, <1>9, CutInThree
<1>11. \A j \in 1..n : mid[j] = text[i + j - 1]
  BY <1>10 DEF CutAt
<1>12. ASSUME NEW h, NEW j \in 1..n PROVE text[i + j - 1] # At(h)
  <2>1. text[i + j - 1] = [k |-> "word", v |-> phrase[j]]
    BY <1>2, <1>3, <1>8, <1>10, <1>11 DEF CutAt
  <2>2. text[i + j - 1].k = "word"
    BY <2>1
  <2>3. At(h).k = "at"
    BY DEF At
  <2> QED
    BY <2>2, <2>3
<1> QED
  BY <1>1, <1>9, <1>12 DEF Clear

\* A handle in place of n tokens, none of which is the handle g.
LEMMA ReplacedTimes ==
    ASSUME NEW text, IsText(text), NEW i \in Nat \ {0}, NEW n \in Nat, i + n <= Len(text) + 1, NEW h, NEW g,
           Clear(text, i, n, g)
    PROVE  Times(ReplaceAtWords(text, i, n, h), g) = Times(text, g) + (IF g = h THEN 1 ELSE 0)
<1>0. PICK left, mid, right : CutAt(text, i, n, left, mid, right)
  BY CutInThree
<1>1. PICK one : one = <<At(h)>>
  OBVIOUS
<1>2. /\ IsText(left) /\ IsText(mid) /\ IsText(right)
      /\ DOMAIN mid = 1..n /\ \A j \in 1..n : mid[j] = text[i + j - 1]
      /\ text = (left \o mid) \o right
  BY <1>0 DEF CutAt
<1>3. IsText(one) /\ DOMAIN one = {1} /\ one[1] = At(h)
  <2>1. one \in Seq({At(h)}) /\ DOMAIN one = 1..1 /\ one[1] = At(h) /\ 1..1 = {1}
    BY <1>1
  <2> QED
    BY <2>1, SeqIsText
<1>4. Times(mid, g) = 0
  BY <1>2, NeverSaid DEF Clear
<1>5. Times(text, g) = (Times(left, g) + Times(mid, g)) + Times(right, g)
  <2>1. IsText(left \o mid)
    BY <1>2, JoinedText
  <2>2. Times((left \o mid) \o right, g) = Times(left \o mid, g) + Times(right, g)
    BY <1>2, <2>1, TimesJoined
  <2>3. Times(left \o mid, g) = Times(left, g) + Times(mid, g)
    BY <1>2, TimesJoined
  <2> QED
    BY <1>2, <2>2, <2>3
<1>6. Times(ReplaceAtWords(text, i, n, h), g) = (Times(left, g) + Times(one, g)) + Times(right, g)
  <2>1. IsText(left \o one)
    BY <1>2, <1>3, JoinedText
  <2>2. Times((left \o one) \o right, g) = Times(left \o one, g) + Times(right, g)
    BY <1>2, <2>1, TimesJoined
  <2>3. Times(left \o one, g) = Times(left, g) + Times(one, g)
    BY <1>2, <1>3, TimesJoined
  <2>4. ReplaceAtWords(text, i, n, h) = (left \o one) \o right
    BY <1>0, <1>1 DEF ReplaceAtWords, CutAt
  <2> QED
    BY <2>2, <2>3, <2>4
<1>7. Times(one, g) = IF g = h THEN 1 ELSE 0
  <2>1. At(h).v = h /\ At(g).v = g
    BY DEF At
  <2>2. CASE g # h
    <3>1. \A j \in DOMAIN one : one[j] # At(g)
      BY <1>3, <2>1, <2>2
    <3> QED
      BY <1>3, <2>2, <3>1, NeverSaid
  <2>3. CASE g = h
    <3>1. SaidAt(one, g) = {1}
      BY <1>3, <2>3 DEF SaidAt
    <3>2. Cardinality({1}) = 1
      BY FS_Singleton
    <3>3. Times(one, g) = Cardinality(SaidAt(one, g))
      BY <1>3, TimesFinite
    <3> QED
      BY <2>3, <3>1, <3>2, <3>3
  <2> QED
    BY <2>2, <2>3
<1>8. Times(left, g) \in Nat /\ Times(right, g) \in Nat
  BY <1>2, TimesFinite
<1> QED
  BY <1>4, <1>5, <1>6, <1>7, <1>8

LEMMA Unmentioned ==
    ASSUME NEW text, IsText(text), NEW h, ~Mentions(text, h)
    PROVE  Times(text, h) = 0
<1>1. At(h).k = "at" /\ At(h).v = h
  BY DEF At
<1>2. \A i \in DOMAIN text : text[i] # At(h)
  BY <1>1 DEF Mentions
<1> QED
  BY <1>2, NeverSaid

\* Nothing of text is said more often in out, but what was not said at all and now is once.
SaysOnce(out, text) == \A g : Times(out, g) = Times(text, g) \/ (Times(text, g) = 0 /\ Times(out, g) = 1)

LEMMA BrandOnce ==
    ASSUME NEW text, IsText(text)
    PROVE  /\ \A g : g # BrandHandle => Times(EnsureBrandMention(text), g) = Times(text, g)
           /\ SaysOnce(EnsureBrandMention(text), text)
<1>1. IsText(Brand) /\ IsText(BrandItc)
  BY HandlesAssumption
<1>2. PICK long, short, out : long = Find(text, BrandItc) /\ short = Find(text, Brand) /\ out = EnsureBrandMention(text)
  OBVIOUS
<1>3. PICK names : names = {<<long, BrandItc>>, <<short, Brand>>}
  OBVIOUS
<1>4. \A p \in names : IsText(p[2]) /\ p[1] = Find(text, p[2])
  BY <1>1, <1>2, <1>3
<1>5. \/ \E p \in names : /\ p[1] # 0 /\ p[1] + Len(p[2]) <= Len(text) /\ text[p[1] + Len(p[2])] = At(BrandHandle)
                          /\ out = ReplaceAtWords(text, p[1], Len(p[2]) + 1, BrandHandle)
      \/ out = text
      \/ ~Mentions(text, BrandHandle) /\ \E p \in names : p[1] # 0 /\ out = ReplaceAtWords(text, p[1], Len(p[2]), BrandHandle)
  BY <1>2, <1>3 DEF EnsureBrandMention
<1>6. ASSUME NEW p \in names, p[1] # 0, p[1] + Len(p[2]) <= Len(text), text[p[1] + Len(p[2])] = At(BrandHandle),
             out = ReplaceAtWords(text, p[1], Len(p[2]) + 1, BrandHandle), NEW g
      PROVE  Times(out, g) = Times(text, g)
  <2>1. PICK i, phrase, n : i = p[1] /\ phrase = p[2] /\ n = Len(phrase)
    OBVIOUS
  <2>2. /\ i \in Nat \ {0} /\ n \in Nat /\ i + n <= Len(text)
        /\ \A h : Clear(text, i, n, h)
    BY <1>4, <1>6, <2>1, FoundWords
  <2>3. text[i + n] = At(BrandHandle) /\ out = ReplaceAtWords(text, i, n + 1, BrandHandle)
    BY <1>6, <2>1
  <2>4. PICK len : len = Len(text) /\ len \in Nat
    BY DEF IsText
  <2>5. n + 1 \in Nat /\ i + (n + 1) <= Len(text) + 1 /\ i + n <= Len(text) + 1 /\ i + n \in Nat \ {0} /\ (i + n) + 1 <= Len(text) + 1
    BY <2>2, <2>4
  <2>6. At(BrandHandle).v = BrandHandle /\ At(g).v = g
    BY DEF At
  <2>7. CASE g # BrandHandle
    <3>1. Clear(text, i, n + 1, g)
      <4> SUFFICES ASSUME NEW j \in 1..(n + 1) PROVE text[i + j - 1] # At(g)
        BY DEF Clear
      <4>1. CASE j \in 1..n
        BY <2>2, <4>1 DEF Clear
      <4>2. CASE j = n + 1
        <5>1. i + j - 1 = i + n
          BY <2>2, <4>2
        <5> QED
          BY <2>3, <2>6, <2>7, <5>1
      <4>3. j \in 1..n \/ j = n + 1
        BY <2>2
      <4> QED
        BY <4>1, <4>2, <4>3
    <3>2. Times(out, g) = Times(text, g) + (IF g = BrandHandle THEN 1 ELSE 0)
      BY <2>2, <2>3, <2>5, <3>1, ReplacedTimes
    <3>3. Times(text, g) \in Nat
      BY TimesFinite
    <3> QED
      BY <2>7, <3>2, <3>3
  <2>8. CASE g = BrandHandle
    <3>1. PICK one : one = <<At(BrandHandle)>>
      OBVIOUS
    <3>2. PICK left, whole, right : CutAt(text, i, n + 1, left, whole, right)
      BY <2>2, <2>5, CutInThree
    <3>4. /\ IsText(left) /\ IsText(whole) /\ IsText(right) /\ DOMAIN whole = 1..(n + 1)
          /\ \A j \in 1..(n + 1) : whole[j] = text[i + j - 1]
          /\ text = (left \o whole) \o right
      BY <3>2 DEF CutAt
    <3>5. Times(whole, g) = 1
      <4>1. n + 1 \in 1..(n + 1) /\ i + (n + 1) - 1 = i + n
        BY <2>2
      <4>2. whole[n + 1] = At(g)
        BY <2>3, <2>8, <3>4, <4>1
      <4>3. ASSUME NEW j \in 1..(n + 1), j # n + 1 PROVE whole[j] # At(g)
        <5>1. j \in 1..n
          BY <2>2, <4>3
        <5>2. whole[j] = text[i + j - 1] /\ text[i + j - 1] # At(g)
          BY <2>2, <3>4, <4>3, <5>1 DEF Clear
        <5> QED
          BY <5>2
      <4>4. SaidAt(whole, g) = {n + 1}
        BY <3>4, <4>1, <4>2, <4>3 DEF SaidAt
      <4>5. Cardinality({n + 1}) = 1
        BY FS_Singleton
      <4> QED
        BY <3>4, <4>4, <4>5, TimesFinite
    <3>6. IsText(one) /\ Times(one, g) = 1
      <4>1. one \in Seq({At(g)}) /\ DOMAIN one = 1..1 /\ one[1] = At(g) /\ 1..1 = {1}
        BY <2>8, <3>1
      <4>2. IsText(one)
        BY <4>1, SeqIsText
      <4>3. SaidAt(one, g) = {1}
        BY <4>1 DEF SaidAt
      <4>4. Cardinality({1}) = 1
        BY FS_Singleton
      <4> QED
        BY <4>2, <4>3, <4>4, TimesFinite
    <3>7. Times((left \o whole) \o right, g) = (Times(left, g) + Times(whole, g)) + Times(right, g)
      <4>1. IsText(left \o whole)
        BY <3>4, JoinedText
      <4>2. Times((left \o whole) \o right, g) = Times(left \o whole, g) + Times(right, g)
        BY <3>4, <4>1, TimesJoined
      <4>3. Times(left \o whole, g) = Times(left, g) + Times(whole, g)
        BY <3>4, TimesJoined
      <4> QED
        BY <4>2, <4>3
    <3>8. Times((left \o one) \o right, g) = (Times(left, g) + Times(one, g)) + Times(right, g)
      <4>1. IsText(left \o one)
        BY <3>4, <3>6, JoinedText
      <4>2. Times((left \o one) \o right, g) = Times(left \o one, g) + Times(right, g)
        BY <3>4, <4>1, TimesJoined
      <4>3. Times(left \o one, g) = Times(left, g) + Times(one, g)
        BY <3>4, <3>6, TimesJoined
      <4> QED
        BY <4>2, <4>3
    <3>9. out = (left \o one) \o right
      BY <2>3, <3>1, <3>2 DEF ReplaceAtWords, CutAt
    <3> QED
      BY <3>4, <3>5, <3>6, <3>7, <3>8, <3>9
  <2> QED
    BY <2>7, <2>8
<1>7. ASSUME ~Mentions(text, BrandHandle), NEW p \in names, p[1] # 0,
             out = ReplaceAtWords(text, p[1], Len(p[2]), BrandHandle), NEW g
      PROVE  IF g = BrandHandle THEN Times(text, g) = 0 /\ Times(out, g) = 1 ELSE Times(out, g) = Times(text, g)
  <2>1. PICK i, phrase, n : i = p[1] /\ phrase = p[2] /\ n = Len(phrase)
    OBVIOUS
  <2>2. /\ i \in Nat \ {0} /\ n \in Nat /\ i + n <= Len(text) + 1
        /\ \A h : Clear(text, i, n, h)
    BY <1>4, <1>7, <2>1, FoundWords
  <2>3. out = ReplaceAtWords(text, i, n, BrandHandle)
    BY <1>7, <2>1
  <2>4. Clear(text, i, n, g)
    BY <2>2
  <2>5. Times(out, g) = Times(text, g) + (IF g = BrandHandle THEN 1 ELSE 0)
    BY <2>2, <2>3, <2>4, ReplacedTimes
  <2>6. Times(text, g) \in Nat
    BY TimesFinite
  <2>7. g = BrandHandle => Times(text, g) = 0
    BY <1>7, Unmentioned
  <2> QED
    BY <2>5, <2>6, <2>7
<1>8. ASSUME NEW g
      PROVE  IF g = BrandHandle THEN Times(out, g) = Times(text, g) \/ (Times(text, g) = 0 /\ Times(out, g) = 1)
                                ELSE Times(out, g) = Times(text, g)
  <2>1. CASE \E p \in names : /\ p[1] # 0 /\ p[1] + Len(p[2]) <= Len(text) /\ text[p[1] + Len(p[2])] = At(BrandHandle)
                              /\ out = ReplaceAtWords(text, p[1], Len(p[2]) + 1, BrandHandle)
    BY <1>6, <2>1
  <2>2. CASE ~Mentions(text, BrandHandle) /\ \E p \in names : p[1] # 0 /\ out = ReplaceAtWords(text, p[1], Len(p[2]), BrandHandle)
    BY <1>7, <2>2
  <2>3. CASE out = text
    BY <2>3
  <2> QED
    BY <1>5, <2>1, <2>2, <2>3
<1> QED
  BY <1>2, <1>8 DEF SaysOnce


LEMMA TimesOne ==
    ASSUME NEW h, NEW g
    PROVE  IsText(<<At(h)>>) /\ Times(<<At(h)>>, g) = IF g = h THEN 1 ELSE 0
<1>1. PICK one : one = <<At(h)>>
  OBVIOUS
<1>2. IsText(one) /\ DOMAIN one = {1} /\ one[1] = At(h)
  <2>1. one \in Seq({At(h)}) /\ DOMAIN one = 1..1 /\ one[1] = At(h) /\ 1..1 = {1}
    BY <1>1
  <2> QED
    BY <2>1, SeqIsText
<1>3. At(h).v = h /\ At(g).v = g
  BY DEF At
<1>4. CASE g # h
  <2>1. \A j \in DOMAIN one : one[j] # At(g)
    BY <1>2, <1>3, <1>4
  <2> QED
    BY <1>1, <1>2, <1>4, <2>1, NeverSaid
<1>5. CASE g = h
  <2>1. SaidAt(one, g) = {1}
    BY <1>2, <1>5 DEF SaidAt
  <2>2. Cardinality({1}) = 1
    BY FS_Singleton
  <2>3. Times(one, g) = Cardinality(SaidAt(one, g))
    BY <1>2, TimesFinite
  <2> QED
    BY <1>1, <1>2, <1>5, <2>1, <2>2, <2>3
<1> QED
  BY <1>4, <1>5

LEMMA NamedOnce ==
    ASSUME NEW text, IsText(text), NEW h, NEW rows, IsRegistry(rows), NEW kind
    PROVE  /\ \A g : g # h => Times(EnsureNamedHandleInBody(text, h, rows, kind), g) = Times(text, g)
           /\ SaysOnce(EnsureNamedHandleInBody(text, h, rows, kind), text)
<1>1. PICK row : row = {i \in DOMAIN rows : h = IF kind = "post" THEN rows[i].li ELSE rows[i].x}
  OBVIOUS
<1>2. PICK n : n = Least(row)
  OBVIOUS
<1>3. PICK labels : labels = IF n = 0 THEN <<>> ELSE NameLabels(rows[n].name)
  OBVIOUS
<1>4. PICK places : places = {i \in DOMAIN labels : Find(text, labels[i]) # 0}
  OBVIOUS
<1>5. PICK found : found = Least(places)
  OBVIOUS
<1>6. PICK out : out = EnsureNamedHandleInBody(text, h, rows, kind)
  OBVIOUS
<1>7. \/ out = text
      \/ ~Mentions(text, h) /\ found # 0 /\ out = ReplaceAtWords(text, Find(text, labels[found]), Len(labels[found]), h)
      \/ ~Mentions(text, h) /\ text = <<>> /\ out = <<At(h)>>
      \/ ~Mentions(text, h) /\ out = <<At(h)>> \o text
  BY <1>1, <1>2, <1>3, <1>4, <1>5, <1>6 DEF EnsureNamedHandleInBody, First
<1>8. SUFFICES ASSUME NEW g
               PROVE  IF g = h THEN Times(out, g) = Times(text, g) \/ (Times(text, g) = 0 /\ Times(out, g) = 1)
                               ELSE Times(out, g) = Times(text, g)
  BY <1>6 DEF SaysOnce
<1>9. Times(text, g) \in Nat /\ (~Mentions(text, h) /\ g = h => Times(text, g) = 0)
  BY TimesFinite, Unmentioned
<1>10. CASE out = text
  BY <1>10
<1>11. CASE ~Mentions(text, h) /\ found # 0 /\ out = ReplaceAtWords(text, Find(text, labels[found]), Len(labels[found]), h)
  <2>1. n \in DOMAIN rows
    <3>1. n # 0
      <4>1. SUFFICES ASSUME n = 0 PROVE FALSE
        OBVIOUS
      <4>2. places = {}
        BY <1>3, <1>4, <4>1
      <4> QED
        BY <1>5, <1>11, <4>2 DEF Least
    <3>2. row \subseteq Nat /\ row \subseteq DOMAIN rows
      BY <1>1 DEF IsRegistry, IsText
    <3> QED
      BY <1>2, <3>1, <3>2, FirstRow
  <2>2. IsText(rows[n].name)
    BY <2>1 DEF IsRegistry, IsRow
  <2>3. n # 0
    BY <2>1 DEF IsRegistry, IsText
  <2>4. labels = NameLabels(rows[n].name)
    BY <1>3, <2>3
  <2>5. DOMAIN labels \subseteq Nat
    BY <2>4 DEF NameLabels
  <2>6. places \subseteq Nat
    BY <1>4, <2>5
  <2>7. found \in places
    BY <1>5, <1>11, <2>6, FirstRow
  <2>8. found \in DOMAIN labels /\ Find(text, labels[found]) # 0
    BY <1>4, <2>7
  <2>9. PICK label, i, len : label = labels[found] /\ i = Find(text, label) /\ len = Len(label)
    OBVIOUS
  <2>10. IsText(label)
    BY <2>2, <2>4, <2>8, <2>9, LabelsAreTexts
  <2>11. /\ i \in Nat \ {0} /\ len \in Nat /\ i + len <= Len(text) + 1
         /\ \A k : Clear(text, i, len, k)
    BY <2>8, <2>9, <2>10, FoundWords
  <2>12. out = ReplaceAtWords(text, i, len, h)
    BY <1>11, <2>9
  <2>13. Clear(text, i, len, g)
    BY <2>11
  <2>14. Times(out, g) = Times(text, g) + (IF g = h THEN 1 ELSE 0)
    BY <2>11, <2>12, <2>13, ReplacedTimes
  <2> QED
    BY <1>9, <1>11, <2>14
<1>12. PICK one : one = <<At(h)>> /\ IsText(one) /\ Times(one, g) = IF g = h THEN 1 ELSE 0
  BY TimesOne
<1>13. CASE ~Mentions(text, h) /\ text = <<>> /\ out = <<At(h)>>
  <2>1. Times(text, g) = 0
    <3>1. \A j \in DOMAIN text : text[j] # At(g)
      BY <1>13
    <3> QED
      BY <3>1, NeverSaid
  <2> QED
    BY <1>12, <1>13, <2>1
<1>14. CASE ~Mentions(text, h) /\ out = <<At(h)>> \o text
  <2>1. Times(one \o text, g) = Times(one, g) + Times(text, g)
    BY <1>12, TimesJoined
  <2>2. out = one \o text
    BY <1>12, <1>14
  <2> QED
    BY <1>9, <1>12, <1>14, <2>1, <2>2
<1> QED
  BY <1>7, <1>10, <1>11, <1>13, <1>14

LEMMA PlaceOnce ==
    ASSUME NEW text, IsText(text), NEW pack, NEW rows, IsRegistry(rows), NEW kind
    PROVE  SaysOnce(Place(text, pack, rows, kind), text)
<1>1. PICK out : out = Place(text, pack, rows, kind)
  OBVIOUS
<1>2. CASE kind = "post"
  <2>1. PICK mid, h : mid = EnsureBrandMention(text) /\ h = LinkedInHandleForPack(pack, rows)
    OBVIOUS
  <2>2. out = mid \/ (h # BrandHandle /\ out = EnsureNamedHandleInBody(mid, h, rows, "post"))
    BY <1>1, <1>2, <2>1 DEF Place, EnsureLinkedInHandleFromPack
  <2>3. IsText(mid)
    BY <2>1, BrandMentioned, HeldIsText
  <2>4. SaysOnce(mid, text) /\ \A g : g # BrandHandle => Times(mid, g) = Times(text, g)
    BY <2>1, BrandOnce
  <2>5. CASE h # BrandHandle /\ out = EnsureNamedHandleInBody(mid, h, rows, "post")
    <3>1. SaysOnce(out, mid) /\ \A g : g # h => Times(out, g) = Times(mid, g)
      BY <2>3, <2>5, NamedOnce
    <3>2. ASSUME NEW g PROVE Times(out, g) = Times(text, g) \/ (Times(text, g) = 0 /\ Times(out, g) = 1)
      <4>1. CASE g = h
        BY <2>4, <2>5, <3>1, <4>1 DEF SaysOnce
      <4>2. CASE g # h
        BY <2>4, <3>1, <4>2 DEF SaysOnce
      <4> QED
        BY <4>1, <4>2
    <3> QED
      BY <1>1, <3>2 DEF SaysOnce
  <2>6. CASE out = mid
    BY <1>1, <2>4, <2>6
  <2> QED
    BY <2>2, <2>5, <2>6
<1>3. CASE kind # "post"
  <2>1. out = text \/ out = EnsureNamedHandleInBody(text, pack.x, rows, "tweet")
    BY <1>1, <1>3 DEF Place, EnsureXHandleFromPack
  <2>2. CASE out = text
    BY <1>1, <2>2 DEF SaysOnce
  <2>3. CASE out = EnsureNamedHandleInBody(text, pack.x, rows, "tweet")
    BY <1>1, <2>3, NamedOnce
  <2> QED
    BY <2>1, <2>2, <2>3
<1> QED
  BY <1>2, <1>3

\* ensure_linkedin_brand_mention, ensure_linkedin_handle_from_pack, ensure_x_handle_from_pack: over
\* any registry, brief, text and any number of reworks, a handle that is in a text is not put in
\* again, and one that is put in is put in once.
THEOREM HandlesOnce == HandlesSpec => HandlesLandOnce
<1>1. HInv /\ PlaceAgain
        => \A h \in {t.v : t \in Range(Tokens(hPost'.after, "at"))} :
               Times(hPost'.after, h) > 1 => Times(hPost'.after, h) = Times(hPost'.before, h)
  <2> SUFFICES ASSUME HInv, PlaceAgain, NEW h, Times(hPost'.after, h) > 1
               PROVE  Times(hPost'.after, h) = Times(hPost'.before, h)
    OBVIOUS
  <2>1. PICK p, kind, pack, text : /\ kind = hPost.kind /\ text = hPost.after /\ p = hPost'
                                   /\ pack = ApplyBriefHandlesToPack(hPost.pack, hPost.brief, hMem)
    OBVIOUS
  <2>2. p.before = text /\ p.after = Place(text, pack, hMem, kind)
    BY <2>1 DEF PlaceAgain, PostWith
  <2>3. IsText(text) /\ IsRegistry(hMem)
    BY <2>1 DEF HInv, RegistryInv
  <2>4. SaysOnce(p.after, p.before)
    BY <2>2, <2>3, PlaceOnce
  <2>5. Times(p.after, h) = Times(p.before, h) \/ Times(p.after, h) = 1
    BY <2>4 DEF SaysOnce
  <2> QED
    BY <2>1, <2>5
<1>2. HInv /\ [HandlesNext]_handlesVars
        => [PlaceAgain => \A h \in {t.v : t \in Range(Tokens(hPost'.after, "at"))} :
                Times(hPost'.after, h) > 1 => Times(hPost'.after, h) = Times(hPost'.before, h)]_handlesVars
  BY <1>1
<1> QED
  BY <1>2, HandlesStart, HandlesStep, PTL DEF HandlesSpec, HandlesLandOnce
===============================================================================
