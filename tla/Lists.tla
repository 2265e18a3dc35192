--------------------------------- MODULE Lists ---------------------------------
(***************************************************************************)
(* Lists, as the loops of the program make them: what of a list stays,     *)
(* what is taken from another one, and how a list is sorted.  What a loop  *)
(* decides is a set of places of the list or a sequence of them.           *)
(***************************************************************************)
EXTENDS Naturals, Sequences, FiniteSets, SequencesExt

IsList(s) == s \in Seq(ToSet(s))

\* The elements of a list at some places, those that fit, in their order.
Keep(list, places) ==
    LET kept[n \in 0..Len(list)] ==
            IF n = 0 THEN <<>>
            ELSE IF n \in places THEN Append(kept[n - 1], list[n]) ELSE kept[n - 1]
    IN kept[Len(list)]
Only(list, Fits(_)) == Keep(list, {i \in DOMAIN list : Fits(list[i])})

UpTo(n, list) == SubSeq(list, 1, IF Len(list) < n THEN Len(list) ELSE n)

\* Where urls has what nothing of the list, and nothing before it, is the same as.
Unlike(list, urls, Same(_, _)) ==
    {i \in DOMAIN urls : /\ \A k \in DOMAIN list : ~Same(list[k], urls[i])
                         /\ \A j \in 1..(i - 1) : ~Same(urls[j], urls[i])}

\* list with the addresses of urls that are the same as none it has then, up to cap of them.
Take(list, urls, cap, Same(_, _)) == list \o UpTo(cap - Len(list), Keep(urls, Unlike(list, urls, Same)))

\* The pairs of places of a list at which R holds of its elements.
PairsOf(list, R(_, _)) == {p \in (DOMAIN list) \X (DOMAIN list) : R(list[p[1]], list[p[2]])}

\* The places 1..len, in turn, but for one that max of those before it are the same as.
CappedPlaces(len, same, max) ==
    LET kept[n \in 0..len] ==
            IF n = 0 THEN {}
            ELSE IF Cardinality({i \in kept[n - 1] : <<i, n>> \in same}) >= max
                 THEN kept[n - 1] ELSE kept[n - 1] \cup {n}
    IN kept[len]

\* A stable sort of the places 1..len, by insertion: less has the pairs of which the first comes first.
InsertPlace(order, i, less) ==
    LET before == {k \in DOMAIN order : <<i, order[k]>> \notin less}
    IN Keep(order, before) \o <<i>> \o Keep(order, DOMAIN order \ before)
SortedPlaces(len, less) ==
    LET order[n \in 0..len] == IF n = 0 THEN <<>> ELSE InsertPlace(order[n - 1], n, less)
    IN order[len]

AtPlaces(list, places) == [k \in DOMAIN places |-> list[places[k]]]
Sorted(list, Less(_, _)) == AtPlaces(list, SortedPlaces(Len(list), PairsOf(list, Less)))
================================================================================
