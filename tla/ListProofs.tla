------------------------------- MODULE ListProofs -------------------------------
(***************************************************************************)
(* What the loops of Lists compute.  They are recursive functions over the *)
(* places of a list; what holds of every step is shown by way of the least *)
(* step that goes wrong (LeastNatural, Induct), and that the functions     *)
(* exist by LoopExists.                                                    *)
(*                                                                         *)
(* Keep gives the list at the places it is told, in order (KeepIsKept).    *)
(* A sort gives every place at most once (SortedOnce), a capped choice no  *)
(* more than the cap of what is the same (AtMostOfOne).  DrawnAt is what   *)
(* all of them have in common: a list is made of elements of another one,  *)
(* none of them taken twice.                                               *)
(***************************************************************************)
EXTENDS Lists, FunctionTheorems, SequenceTheorems, FiniteSetTheorems, WellFoundedInduction, TLAPS

-------------------------------------------------------------------------------
(* Loops over a list *)

LEMMA LeastNatural ==
    ASSUME NEW T, T \subseteq Nat, T # {}
    PROVE  \E least \in T : \A n \in T : least <= n
<1>1. IsWellFoundedOn(OpToRel(<, Nat), Nat)
  BY NatLessThanWellFounded
<1>2. PICK least \in T : \A n \in T : ~(<<n, least>> \in OpToRel(<, Nat))
  BY <1>1, WFMin
<1>3. \A x, y \in Nat : <<y, x>> \in OpToRel(<, Nat) <=> y < x
  BY DEF OpToRel
<1>4. PICK R : /\ \A n \in T : ~(<<n, least>> \in R)
               /\ \A x, y \in Nat : <<y, x>> \in R <=> y < x
  BY <1>2, <1>3
<1>5. \A n \in T : ~(n < least)
  BY <1>4
<1> QED
  BY <1>5

\* Induction over the numbers up to len.
LEMMA Induct ==
    ASSUME NEW len \in Nat, NEW T, 0 \in T, \A n \in 1..len : n - 1 \in T => n \in T
    PROVE  0..len \subseteq T
<1>1. PICK bad : bad = {n \in 0..len : n \notin T}
  OBVIOUS
<1>2. SUFFICES ASSUME bad # {} PROVE FALSE
  BY <1>1
<1>3. bad \subseteq Nat
  BY <1>1
<1>4. PICK n \in bad : \A k \in bad : n <= k
  BY <1>2, <1>3, LeastNatural
<1>5. n \in 1..len /\ n \notin T
  BY <1>1, <1>4
<1>6. n - 1 \in 0..len /\ ~(n <= n - 1)
  BY <1>5
<1>7. n - 1 \notin bad
  BY <1>4, <1>6
<1>8. n - 1 \in T
  BY <1>1, <1>6, <1>7
<1> QED
  BY <1>5, <1>8

IsLoop(f, len, X, base, step) ==
    f \in [0..len -> X] /\ f[0] = base /\ \A n \in 1..len : f[n] = step[<<f[n - 1], n>>]

\* A loop that stays in X has a value at every step.
LEMMA LoopExists ==
    ASSUME NEW len \in Nat, NEW X, NEW base \in X, NEW step \in [X \X (1..len) -> X]
    PROVE  \E f : IsLoop(f, len, X, base, step)
<1> DEFINE Upto(n, f) == IsLoop(f, n, X, base, step)
<1> USE DEF IsLoop
<1>1. PICK T : T = {n \in 0..len : \E f : Upto(n, f)}
  OBVIOUS
<1>2. 0 \in T
  <2>1. PICK f : f = [n \in 0..0 |-> base]
    OBVIOUS
  <2>2. Upto(0, f)
    BY <2>1
  <2> QED
    BY <1>1, <2>2
<1>3. ASSUME NEW n \in 1..len, n - 1 \in T
      PROVE  n \in T
  <2>1. PICK f : Upto(n - 1, f)
    BY <1>1, <1>3
  <2>2. PICK last : last = step[<<f[n - 1], n>>]
    OBVIOUS
  <2>3. last \in X
    BY <2>1, <2>2
  <2>4. PICK g : g = [k \in 0..n |-> IF k = n THEN last ELSE f[k]]
    OBVIOUS
  <2>5. g \in [0..n -> X] /\ g[n] = last /\ \A k \in 0..(n - 1) : g[k] = f[k]
    BY <2>1, <2>3, <2>4
  <2>6. g[0] = base
    BY <2>1, <2>5
  <2>7. ASSUME NEW k \in 1..n
        PROVE  g[k] = step[<<g[k - 1], k>>]
    <3>1. k - 1 \in 0..(n - 1)
      OBVIOUS
    <3>2. g[k - 1] = f[k - 1]
      BY <2>5, <3>1
    <3>3. CASE k = n
      BY <2>1, <2>2, <2>5, <3>2, <3>3
    <3>4. CASE k # n
      <4>1. k \in 1..(n - 1) /\ k \in 0..(n - 1)
        BY <3>4
      <4> QED
        BY <2>1, <2>5, <3>2, <4>1
    <3> QED
      BY <3>3, <3>4
  <2>8. Upto(n, g)
    BY <2>3, <2>5, <2>6, <2>7
  <2> QED
    BY <1>1, <2>8
<1>4. 0..len \subseteq T
  <2> HIDE DEF Upto
  <2> QED
    BY <1>2, <1>3, Induct
<1>5. len \in 0..len
  OBVIOUS
<1>6. PICK f : Upto(len, f)
  BY <1>1, <1>4, <1>5
<1> HIDE DEF IsLoop
<1> QED
  BY <1>6

-------------------------------------------------------------------------------
(* Keep *)

\* kept is what list has at places, in order.
IsKept(kept, list, places) ==
    \E at \in [1..Len(kept) -> places \cap DOMAIN list] :
        /\ \A k \in 1..Len(kept) : kept[k] = list[at[k]]
        /\ \A j, k \in 1..Len(kept) : j < k => at[j] < at[k]
        /\ \A i \in places \cap DOMAIN list : \E k \in 1..Len(kept) : at[k] = i

LEMMA KeptGrows ==
    ASSUME NEW S, NEW list \in Seq(S), NEW places, NEW n \in 1..Len(list),
           NEW kept \in Seq(S), IsKept(kept, list, places \cap (1..(n - 1))), n \in places
    PROVE  /\ Append(kept, list[n]) \in Seq(S)
           /\ IsKept(Append(kept, list[n]), list, places \cap (1..n))
<1>1. PICK more, len : more = Append(kept, list[n]) /\ len = Len(kept)
  OBVIOUS
<1>2. list[n] \in S /\ len \in Nat /\ DOMAIN list = 1..Len(list) /\ Len(list) \in Nat
  BY <1>1
<1>3. /\ more \in Seq(S) /\ Len(more) = len + 1 /\ more[len + 1] = list[n]
      /\ \A k \in 1..len : more[k] = kept[k]
  BY <1>1, <1>2, AppendProperties
<1>4. PICK before, upto : /\ before = (places \cap (1..(n - 1))) \cap DOMAIN list
                          /\ upto = (places \cap (1..n)) \cap DOMAIN list
  OBVIOUS
<1>5. before \subseteq Nat /\ upto = before \cup {n} /\ \A i \in before : i < n
  BY <1>2, <1>4
<1>6. PICK at \in [1..Len(kept) -> (places \cap (1..(n - 1))) \cap DOMAIN list] :
          /\ \A k \in 1..Len(kept) : kept[k] = list[at[k]]
          /\ \A j, k \in 1..Len(kept) : j < k => at[j] < at[k]
          /\ \A i \in (places \cap (1..(n - 1))) \cap DOMAIN list : \E k \in 1..Len(kept) : at[k] = i
  BY DEF IsKept
<1>7. /\ at \in [1..len -> before]
      /\ \A k \in 1..len : kept[k] = list[at[k]]
      /\ \A j, k \in 1..len : j < k => at[j] < at[k]
      /\ \A i \in before : \E k \in 1..len : at[k] = i
  BY <1>1, <1>4, <1>6
<1>8. PICK now : now = [k \in 1..(len + 1) |-> IF k = len + 1 THEN n ELSE at[k]]
  OBVIOUS
<1>9. now[len + 1] = n /\ \A k \in 1..len : now[k] = at[k] /\ at[k] \in before
  BY <1>2, <1>7, <1>8
<1>10. now \in [1..(len + 1) -> upto]
  <2>1. ASSUME NEW k \in 1..(len + 1) PROVE now[k] \in upto
    <3>1. k = len + 1 \/ k \in 1..len
      BY <1>2
    <3> QED
      BY <1>5, <1>9, <3>1
  <2> QED
    BY <1>8, <2>1
<1>11. ASSUME NEW k \in 1..(len + 1) PROVE more[k] = list[now[k]]
  <2>1. k = len + 1 \/ k \in 1..len
    BY <1>2
  <2> QED
    BY <1>3, <1>7, <1>9, <2>1
<1>12. ASSUME NEW j \in 1..(len + 1), NEW k \in 1..(len + 1), j < k PROVE now[j] < now[k]
  <2>1. j \in 1..len
    BY <1>2, <1>12
  <2>2. CASE k = len + 1
    BY <1>5, <1>9, <2>1, <2>2
  <2>3. CASE k # len + 1
    <3>1. k \in 1..len
      BY <1>2, <2>3
    <3> QED
      BY <1>7, <1>9, <1>12, <2>1, <3>1
  <2> QED
    BY <2>2, <2>3
<1>13. ASSUME NEW i \in upto PROVE \E k \in 1..(len + 1) : now[k] = i
  <2>1. CASE i = n
    BY <1>2, <1>9, <2>1
  <2>2. CASE i # n
    <3>1. PICK k \in 1..len : at[k] = i
      BY <1>5, <1>7, <2>2
    <3> QED
      BY SMTT(30), <1>2, <1>9, <3>1
  <2> QED
    BY <2>1, <2>2
<1>14. IsKept(more, list, places \cap (1..n))
  <2>1. now \in [1..Len(more) -> (places \cap (1..n)) \cap DOMAIN list]
    BY <1>3, <1>4, <1>10
  <2>2. \A k \in 1..Len(more) : more[k] = list[now[k]]
    BY <1>3, <1>11
  <2>3. \A j, k \in 1..Len(more) : j < k => now[j] < now[k]
    BY <1>3, <1>12
  <2>4. \A i \in (places \cap (1..n)) \cap DOMAIN list : \E k \in 1..Len(more) : now[k] = i
    BY <1>3, <1>4, <1>13
  <2> QED
    BY <2>1, <2>2, <2>3, <2>4 DEF IsKept
<1> QED
  BY <1>1, <1>3, <1>14

LEMMA KeepIsKept ==
    ASSUME NEW S, NEW list \in Seq(S), NEW places
    PROVE  Keep(list, places) \in Seq(S) /\ IsKept(Keep(list, places), list, places)
<1>1. PICK len : len = Len(list)
  OBVIOUS
<1>2. len \in Nat /\ DOMAIN list = 1..len /\ \A n \in 1..len : list[n] \in S
  BY <1>1
<1>3. PICK X, none : X = Seq(S) /\ none = <<>>
  OBVIOUS
<1>4. none \in X
  BY <1>3
<1>5. PICK step : step = [p \in X \X (1..len) |-> IF p[2] \in places THEN Append(p[1], list[p[2]]) ELSE p[1]]
  OBVIOUS
<1>6. step \in [X \X (1..len) -> X]
  <2>1. ASSUME NEW p \in X \X (1..len) PROVE step[p] \in X
    <3>1. p[1] \in Seq(S) /\ p[2] \in 1..len /\ list[p[2]] \in S
      BY <1>2, <1>3
    <3>2. Append(p[1], list[p[2]]) \in Seq(S)
      BY <3>1, AppendProperties
    <3> QED
      BY <1>3, <1>5, <3>1, <3>2
  <2> QED
    BY <1>5, <2>1
<1>7. PICK f \in [0..len -> X] : f[0] = none /\ \A n \in 1..len : f[n] = step[<<f[n - 1], n>>]
  <2>1. len \in Nat
    BY <1>2
  <2>2. PICK f : IsLoop(f, len, X, none, step)
    BY <1>4, <1>6, <2>1, LoopExists
  <2> QED
    BY <2>2 DEF IsLoop
<1> DEFINE Loop(g) == g = [n \in 0..len |->
                              IF n = 0 THEN <<>>
                              ELSE IF n \in places THEN Append(g[n - 1], list[n]) ELSE g[n - 1]]
<1>8. Loop(CHOOSE g : Loop(g))
  <2>1. ASSUME NEW n \in 1..len PROVE f[n] = IF n \in places THEN Append(f[n - 1], list[n]) ELSE f[n - 1]
    <3>1. <<f[n - 1], n>> \in X \X (1..len)
      BY <1>2, <1>7
    <3> QED
      BY <1>5, <1>7, <3>1
  <2>2. PICK h : h = [n \in 0..len |-> IF n = 0 THEN <<>>
                                       ELSE IF n \in places THEN Append(f[n - 1], list[n]) ELSE f[n - 1]]
    OBVIOUS
  <2>3. \A n \in 0..len : f[n] = h[n]
    <3> TAKE n \in 0..len
    <3>1. CASE n = 0
      BY <1>3, <1>7, <2>2, <3>1
    <3>2. CASE n # 0
      <4>1. n \in 1..len
        BY <1>2, <3>2
      <4>2. f[n] = IF n \in places THEN Append(f[n - 1], list[n]) ELSE f[n - 1]
        BY <2>1, <4>1
      <4>3. h[n] = IF n \in places THEN Append(f[n - 1], list[n]) ELSE f[n - 1]
        BY <2>2, <3>2
      <4> QED
        BY <4>2, <4>3
    <3> QED
      BY <3>1, <3>2
  <2>4. f = h
    <3>1. h = [n \in 0..len |-> h[n]]
      BY <2>2
    <3>2. f = [n \in 0..len |-> f[n]]
      BY <1>7
    <3> QED
      BY <2>3, <3>1, <3>2
  <2>5. Loop(f)
    BY <2>2, <2>4
  <2> HIDE DEF Loop
  <2> QED
    BY <2>5
<1>9. PICK g : Loop(g) /\ Keep(list, places) = g[len]
  <2>1. Keep(list, places) = (CHOOSE g : Loop(g))[len]
    BY <1>1 DEF Keep
  <2> HIDE DEF Loop
  <2> QED
    BY <1>8, <2>1
<1>10. PICK T : T = {n \in 0..len : g[n] \in Seq(S) /\ IsKept(g[n], list, places \cap (1..n))}
  OBVIOUS
<1>11. 0 \in T
  <2>1. g[0] = <<>> /\ 0 \in 0..len
    BY <1>2, <1>9
  <2>2. PICK at : at = [k \in {} |-> k]
    OBVIOUS
  <2>3. at \in [1..0 -> {}] /\ 1..0 = {} /\ Len(<<>>) = 0 /\ (places \cap (1..0)) \cap DOMAIN list = {}
    BY <2>2
  <2>4. IsKept(<<>>, list, places \cap (1..0))
    BY <2>3 DEF IsKept
  <2>5. <<>> \in Seq(S)
    OBVIOUS
  <2>6. g[0] \in Seq(S) /\ IsKept(g[0], list, places \cap (1..0))
    BY <2>1, <2>4, <2>5
  <2> QED
    BY <1>10, <2>1, <2>6
<1>12. ASSUME NEW n \in 1..len, n - 1 \in T PROVE n \in T
  <2>1. PICK kept : kept = g[n - 1]
    OBVIOUS
  <2>2. kept \in Seq(S) /\ IsKept(kept, list, places \cap (1..(n - 1)))
    BY <1>10, <1>12, <2>1
  <2>3. g[n] = IF n \in places THEN Append(kept, list[n]) ELSE kept
    <3>1. n \in 0..len /\ n # 0
      BY <1>2
    <3>2. g[n] = IF n \in places THEN Append(g[n - 1], list[n]) ELSE g[n - 1]
      BY <1>9, <3>1
    <3> QED
      BY <2>1, <3>2
  <2>4. g[n] \in Seq(S) /\ IsKept(g[n], list, places \cap (1..n))
    <3>1. CASE n \in places
      <4>1. n \in 1..Len(list) /\ kept \in Seq(S) /\ list \in Seq(S)
        BY <1>1, <2>2
      <4>2. /\ Append(kept, list[n]) \in Seq(S)
            /\ IsKept(Append(kept, list[n]), list, places \cap (1..n))
        BY <2>2, <3>1, <4>1, KeptGrows
      <4> QED
        BY <2>3, <3>1, <4>2
    <3>2. CASE n \notin places
      <4>1. places \cap (1..(n - 1)) = places \cap (1..n)
        BY <1>2, <3>2
      <4> QED
        BY <2>2, <2>3, <3>2, <4>1
    <3> QED
      BY <3>1, <3>2
  <2>5. n \in 0..len
    BY <1>2
  <2> QED
    BY <1>10, <2>4, <2>5
<1>13. 0..len \subseteq T
  BY <1>2, <1>11, <1>12, Induct
<1>14. len \in T
  BY <1>2, <1>13
<1>15. (places \cap (1..len)) \cap DOMAIN list = places \cap DOMAIN list
  BY <1>2
<1>16. g[len] \in Seq(S) /\ IsKept(g[len], list, places)
  BY <1>10, <1>14, <1>15 DEF IsKept
<1> QED
  BY <1>9, <1>16

-------------------------------------------------------------------------------
(* Lists, cut and joined *)

\* A list, of whatever it lists.
Listing(list) == list \in Seq({list[i] : i \in DOMAIN list})

LEMMA AnyListing ==
    ASSUME NEW S, NEW list \in Seq(S)
    PROVE  Listing(list)
<1>1. PICK T : T = {list[i] : i \in DOMAIN list}
  OBVIOUS
<1>2. Len(list) \in Nat /\ DOMAIN list = 1..Len(list) /\ list = [i \in 1..Len(list) |-> list[i]]
  OBVIOUS
<1>3. \A i \in 1..Len(list) : list[i] \in T
  BY <1>1, <1>2
<1>4. list \in Seq(T)
  BY <1>2, <1>3, IsASeq
<1> QED
  BY <1>1, <1>4 DEF Listing

\* Two lists list things of one set.
LEMMA InOneSet ==
    ASSUME NEW s, NEW t, Listing(s), Listing(t)
    PROVE  \E S : s \in Seq(S) /\ t \in Seq(S)
<1>1. PICK A, B : A = {s[i] : i \in DOMAIN s} /\ B = {t[i] : i \in DOMAIN t}
  OBVIOUS
<1>2. s \in Seq(A) /\ t \in Seq(B)
  BY <1>1 DEF Listing
<1>3. s \in Seq(A \cup B) /\ t \in Seq(A \cup B)
  BY <1>2, SeqMonotonic
<1> QED
  BY <1>3

\* The first n elements of a list.
LEMMA CutList ==
    ASSUME NEW list, Listing(list), NEW n \in Int
    PROVE  /\ Listing(UpTo(n, list))
           /\ DOMAIN UpTo(n, list) \subseteq DOMAIN list
           /\ \A k \in DOMAIN UpTo(n, list) : UpTo(n, list)[k] = list[k]
           /\ Len(UpTo(n, list)) \in Nat
           /\ Len(UpTo(n, list)) <= Len(list)
           /\ n >= 0 => Len(UpTo(n, list)) <= n
           /\ n <= 0 => Len(UpTo(n, list)) = 0
           /\ n >= 1 /\ Len(list) >= 1 => Len(UpTo(n, list)) >= 1
<1>1. PICK S : list \in Seq(S)
  BY DEF Listing
<1>2. PICK m, upto : /\ m = (IF Len(list) < n THEN Len(list) ELSE n)
                     /\ upto = UpTo(n, list)
  OBVIOUS
<1>3. Len(list) \in Nat /\ DOMAIN list = 1..Len(list) /\ m \in Int /\ m <= Len(list) /\ m <= n
  BY <1>1, <1>2
<1>4. upto = SubSeq(list, 1, m)
  BY <1>2 DEF UpTo
<1>5. \A i \in 1..m : list[i] \in S
  BY <1>1, <1>3
<1>6. /\ upto \in Seq(S) /\ Len(upto) = (IF 1 <= m + 1 THEN m ELSE 0)
      /\ \A i \in 1..m : upto[i] = list[i]
  <2>1. CASE m >= 0
    BY <1>1, <1>3, <1>4, <1>5, <2>1, SubSeqProperties
  <2>2. CASE m < 0
    BY <1>1, <1>3, <1>4, <1>5, <2>2, SubSeqProperties
  <2> QED
    BY <1>3, <2>1, <2>2
<1>7. DOMAIN upto = 1..Len(upto) /\ Len(upto) \in Nat
  BY <1>6
<1>8. DOMAIN upto \subseteq 1..m
  BY <1>3, <1>6, <1>7
<1>9. \A k \in DOMAIN upto : k \in DOMAIN list /\ upto[k] = list[k]
  BY <1>3, <1>6, <1>8
<1>10. Len(upto) <= Len(list) /\ (n >= 0 => Len(upto) <= n) /\ (n <= 0 => Len(upto) = 0)
       /\ (n >= 1 /\ Len(list) >= 1 => Len(upto) >= 1)
  <2>1. PICK l, k : l = Len(list) /\ k = Len(upto) /\ l \in Nat
    BY <1>3
  <2>2. m \in Int /\ m <= l /\ m <= n /\ (m = l \/ m = n) /\ (m >= 0 => k = m) /\ (m < 0 => k = 0)
    <3>1. m = IF l < n THEN l ELSE n
      BY <1>2, <2>1
    <3>2. m \in Int /\ k = IF 1 <= m + 1 THEN m ELSE 0
      BY <1>3, <1>6, <2>1
    <3> QED
      BY <2>1, <3>1, <3>2
  <2>3. k <= l /\ (n >= 0 => k <= n) /\ (n <= 0 => k = 0) /\ (n >= 1 /\ l >= 1 => k >= 1)
    BY <2>1, <2>2
  <2> QED
    BY <2>1, <2>3
<1>12. Listing(upto)
  BY <1>6, AnyListing
<1> QED
  BY <1>2, <1>7, <1>9, <1>10, <1>12

\* A list behind another one.
LEMMA JoinedLists ==
    ASSUME NEW s, NEW t, Listing(s), Listing(t)
    PROVE  /\ Listing(s \o t)
           /\ Len(s \o t) = Len(s) + Len(t) /\ Len(s) \in Nat /\ Len(t) \in Nat
           /\ DOMAIN s = 1..Len(s) /\ DOMAIN t = 1..Len(t) /\ DOMAIN (s \o t) = 1..(Len(s) + Len(t))
           /\ \A i \in DOMAIN s : i \in DOMAIN (s \o t) /\ (s \o t)[i] = s[i]
           /\ \A i \in DOMAIN (s \o t) : \/ i \in DOMAIN s /\ (s \o t)[i] = s[i]
                                         \/ i - Len(s) \in DOMAIN t /\ (s \o t)[i] = t[i - Len(s)]
<1>1. PICK S : s \in Seq(S) /\ t \in Seq(S)
  BY InOneSet
<1>2. PICK both : both = s \o t
  OBVIOUS
<1>3. /\ both \in Seq(S) /\ Len(both) = Len(s) + Len(t)
      /\ \A i \in 1..Len(s) : both[i] = s[i]
      /\ \A i \in 1..Len(t) : both[Len(s) + i] = t[i]
  BY <1>1, <1>2, ConcatProperties
<1>4. /\ Len(s) \in Nat /\ Len(t) \in Nat /\ DOMAIN s = 1..Len(s) /\ DOMAIN t = 1..Len(t)
      /\ DOMAIN both = 1..(Len(s) + Len(t))
  BY <1>1, <1>3
<1>5. ASSUME NEW i \in DOMAIN both
      PROVE  (i \in DOMAIN s /\ both[i] = s[i]) \/ (i - Len(s) \in DOMAIN t /\ both[i] = t[i - Len(s)])
  <2>1. CASE i <= Len(s)
    BY <1>3, <1>4, <2>1
  <2>2. CASE i > Len(s)
    <3>1. i - Len(s) \in 1..Len(t) /\ Len(s) + (i - Len(s)) = i
      BY <1>4, <2>2
    <3>2. both[Len(s) + (i - Len(s))] = t[i - Len(s)]
      BY <1>3, <3>1
    <3> QED
      BY <1>4, <3>1, <3>2
  <2> QED
    BY <1>4, <2>1, <2>2
<1>8. Listing(both)
  BY <1>3, AnyListing
<1>9. \A i \in DOMAIN s : i \in DOMAIN both /\ both[i] = s[i]
  BY <1>3, <1>4
<1> QED
  BY <1>2, <1>3, <1>4, <1>5, <1>8, <1>9

LEMMA LoneList ==
    ASSUME NEW u
    PROVE  Listing(<<u>>) /\ Len(<<u>>) = 1 /\ DOMAIN <<u>> = {1} /\ <<u>>[1] = u
<1>1. <<u>> \in Seq({u}) /\ Len(<<u>>) = 1 /\ <<u>>[1] = u /\ DOMAIN <<u>> = 1..1
  OBVIOUS
<1>2. 1..1 = {1}
  OBVIOUS
<1>4. Listing(<<u>>)
  BY <1>1, AnyListing
<1> QED
  BY <1>1, <1>2, <1>4

LEMMA EmptyList ==
    Listing(<<>>) /\ Len(<<>>) = 0 /\ DOMAIN <<>> = {}
<1>1. <<>> \in Seq({}) /\ DOMAIN <<>> = {} /\ Len(<<>>) = 0
  OBVIOUS
<1>3. Listing(<<>>)
  BY <1>1, AnyListing
<1> QED
  BY <1>1, <1>3

-------------------------------------------------------------------------------
(* Lists drawn from another one *)

\* The elements of list are elements of from, each at a place of its own, all among places.
DrawnAt(list, from, places) ==
    /\ Listing(list)
    /\ \E at \in [DOMAIN list -> places \cap DOMAIN from] :
          /\ \A k \in DOMAIN list : list[k] = from[at[k]]
          /\ \A j, k \in DOMAIN list : at[j] = at[k] => j = k

LEMMA KeepDraws ==
    ASSUME NEW list, Listing(list), NEW places
    PROVE  DrawnAt(Keep(list, places), list, places)
<1>1. PICK S : list \in Seq(S)
  BY DEF Listing
<1>2. PICK kept : kept = Keep(list, places)
  OBVIOUS
<1>3. kept \in Seq(S) /\ IsKept(kept, list, places)
  BY <1>1, <1>2, KeepIsKept
<1>4. DOMAIN kept = 1..Len(kept) /\ Len(kept) \in Nat /\ DOMAIN list = 1..Len(list) /\ Len(list) \in Nat
  BY <1>1, <1>3
<1>5. PICK at \in [1..Len(kept) -> places \cap DOMAIN list] :
          /\ \A k \in 1..Len(kept) : kept[k] = list[at[k]]
          /\ \A j, k \in 1..Len(kept) : j < k => at[j] < at[k]
  BY <1>3 DEF IsKept
<1>6. ASSUME NEW j \in 1..Len(kept), NEW k \in 1..Len(kept), at[j] = at[k]
      PROVE  j = k
  <2>1. at[j] \in Nat
    BY <1>4, <1>5
  <2>2. ~(j < k) /\ ~(k < j)
    BY <1>5, <1>6, <2>1
  <2> QED
    BY <1>4, <2>2
<1>7. Listing(kept)
  BY <1>3, AnyListing
<1> QED
  BY SMTT(30), <1>2, <1>4, <1>5, <1>6, <1>7 DEF DrawnAt

LEMMA UpToDraws ==
    ASSUME NEW list, Listing(list), NEW n \in Int
    PROVE  DrawnAt(UpTo(n, list), list, DOMAIN list)
<1>1. PICK upto : upto = UpTo(n, list)
  OBVIOUS
<1>2. Listing(upto) /\ DOMAIN upto \subseteq DOMAIN list /\ \A k \in DOMAIN upto : upto[k] = list[k]
  BY <1>1, CutList
<1>3. PICK at : at = [k \in DOMAIN upto |-> k]
  OBVIOUS
<1>4. at \in [DOMAIN upto -> DOMAIN list \cap DOMAIN list]
  BY <1>2, <1>3
<1>5. \A k \in DOMAIN upto : upto[k] = list[at[k]]
  BY <1>2, <1>3
<1>6. \A j, k \in DOMAIN upto : at[j] = at[k] => j = k
  BY <1>3
<1> QED
  BY <1>1, <1>2, <1>4, <1>5, <1>6 DEF DrawnAt

\* What is drawn from a list that is drawn from another one is drawn from that one.
LEMMA DrawnThrough ==
    ASSUME NEW list, NEW mid, NEW from, NEW P, NEW Q, DrawnAt(list, mid, P), DrawnAt(mid, from, Q)
    PROVE  DrawnAt(list, from, Q)
<1>1. PICK a \in [DOMAIN list -> P \cap DOMAIN mid] :
          /\ \A k \in DOMAIN list : list[k] = mid[a[k]]
          /\ \A j, k \in DOMAIN list : a[j] = a[k] => j = k
  BY DEF DrawnAt
<1>2. PICK b \in [DOMAIN mid -> Q \cap DOMAIN from] :
          /\ \A k \in DOMAIN mid : mid[k] = from[b[k]]
          /\ \A j, k \in DOMAIN mid : b[j] = b[k] => j = k
  BY DEF DrawnAt
<1>3. PICK at : at = [k \in DOMAIN list |-> b[a[k]]]
  OBVIOUS
<1>4. \A k \in DOMAIN list : a[k] \in DOMAIN mid /\ at[k] = b[a[k]]
  BY <1>1, <1>3
<1>5. at \in [DOMAIN list -> Q \cap DOMAIN from]
  BY <1>2, <1>3, <1>4
<1>6. \A k \in DOMAIN list : list[k] = from[at[k]]
  BY <1>1, <1>2, <1>4
<1>7. \A j, k \in DOMAIN list : at[j] = at[k] => j = k
  BY <1>1, <1>2, <1>4
<1> QED
  BY <1>5, <1>6, <1>7 DEF DrawnAt

\* It is drawn from the places its elements can be at.
LEMMA DrawnWhere ==
    ASSUME NEW list, NEW from, NEW P, NEW Q, DrawnAt(list, from, P),
           \A k \in DOMAIN list, i \in P \cap DOMAIN from : list[k] = from[i] => i \in Q
    PROVE  DrawnAt(list, from, Q)
<1>1. PICK at \in [DOMAIN list -> P \cap DOMAIN from] :
          /\ \A k \in DOMAIN list : list[k] = from[at[k]]
          /\ \A j, k \in DOMAIN list : at[j] = at[k] => j = k
  BY DEF DrawnAt
<1>2. \A k \in DOMAIN list : at[k] \in Q \cap DOMAIN from
  BY <1>1
<1>3. at \in [DOMAIN list -> Q \cap DOMAIN from]
  BY <1>1, <1>2
<1> QED
  BY <1>1, <1>3 DEF DrawnAt

\* Lists drawn from different places of one list can be joined.
LEMMA JoinDraws ==
    ASSUME NEW s, NEW t, NEW from, NEW P, NEW Q, DrawnAt(s, from, P), DrawnAt(t, from, Q), P \cap Q = {}
    PROVE  DrawnAt(s \o t, from, P \cup Q)
<1>1. PICK a \in [DOMAIN s -> P \cap DOMAIN from] :
          /\ \A k \in DOMAIN s : s[k] = from[a[k]]
          /\ \A j, k \in DOMAIN s : a[j] = a[k] => j = k
  BY DEF DrawnAt
<1>2. PICK b \in [DOMAIN t -> Q \cap DOMAIN from] :
          /\ \A k \in DOMAIN t : t[k] = from[b[k]]
          /\ \A j, k \in DOMAIN t : b[j] = b[k] => j = k
  BY DEF DrawnAt
<1>3. Listing(s) /\ Listing(t)
  BY DEF DrawnAt
<1>4. PICK both, n : both = s \o t /\ n = Len(s)
  OBVIOUS
<1>5. /\ Listing(both) /\ n \in Nat /\ DOMAIN s = 1..n /\ DOMAIN t = 1..Len(t) /\ Len(t) \in Nat
      /\ DOMAIN both = 1..(n + Len(t))
      /\ \A i \in DOMAIN both : (i \in DOMAIN s /\ both[i] = s[i]) \/ (i - n \in DOMAIN t /\ both[i] = t[i - n])
  BY <1>3, <1>4, JoinedLists
<1>6. PICK at : at = [k \in DOMAIN both |-> IF k \in DOMAIN s THEN a[k] ELSE b[k - n]]
  OBVIOUS
<1>7. ASSUME NEW k \in DOMAIN both
      PROVE  \/ k \in DOMAIN s /\ at[k] = a[k] /\ both[k] = s[k]
             \/ k \notin DOMAIN s /\ k - n \in DOMAIN t /\ at[k] = b[k - n] /\ both[k] = t[k - n]
  <2>1. CASE k \in DOMAIN s
    <3>1. k - n \notin DOMAIN t
      BY <1>5, <2>1
    <3> QED
      BY <1>5, <1>6, <2>1, <3>1
  <2>2. CASE k \notin DOMAIN s
    BY <1>5, <1>6, <2>2
  <2> QED
    BY <2>1, <2>2
<1>8. at \in [DOMAIN both -> (P \cup Q) \cap DOMAIN from]
  BY <1>1, <1>2, <1>6, <1>7
<1>9. \A k \in DOMAIN both : both[k] = from[at[k]]
  BY <1>1, <1>2, <1>7
<1>10. ASSUME NEW j \in DOMAIN both, NEW k \in DOMAIN both, at[j] = at[k]
       PROVE  j = k
  <2>1. CASE j \in DOMAIN s /\ k \in DOMAIN s
    BY <1>1, <1>7, <1>10, <2>1
  <2>2. CASE j \notin DOMAIN s /\ k \notin DOMAIN s
    <3>1. j - n = k - n
      BY <1>2, <1>7, <1>10, <2>2
    <3> QED
      BY <1>5, <3>1
  <2>3. CASE j \in DOMAIN s /\ k \notin DOMAIN s
    BY <1>1, <1>2, <1>7, <1>10, <2>3
  <2>4. CASE j \notin DOMAIN s /\ k \in DOMAIN s
    BY <1>1, <1>2, <1>7, <1>10, <2>4
  <2> QED
    BY <2>1, <2>2, <2>3, <2>4
<1>11. DrawnAt(both, from, P \cup Q)
  BY <1>5, <1>8, <1>9, <1>10 DEF DrawnAt
<1> QED
  BY <1>4, <1>11

\* The elements of a list at different places.
EachOnce(order) == \A j, k \in DOMAIN order : order[j] = order[k] => j = k

LEMMA AtPlacesDraws ==
    ASSUME NEW list, Listing(list), NEW order \in Seq(DOMAIN list), EachOnce(order)
    PROVE  DrawnAt(AtPlaces(list, order), list, DOMAIN list)
<1>1. PICK S : list \in Seq(S)
  BY DEF Listing
<1>2. PICK out : out = AtPlaces(list, order)
  OBVIOUS
<1>3. out = [k \in DOMAIN order |-> list[order[k]]]
  BY <1>2 DEF AtPlaces
<1>4. Len(order) \in Nat /\ DOMAIN order = 1..Len(order) /\ \A k \in 1..Len(order) : order[k] \in DOMAIN list
  OBVIOUS
<1>5. \A i \in DOMAIN list : list[i] \in S
  BY <1>1
<1>6. out = [k \in 1..Len(order) |-> list[order[k]]]
  BY <1>3, <1>4
<1>7. \A k \in 1..Len(order) : list[order[k]] \in S
  BY <1>4, <1>5
<1>8. out \in Seq(S)
  BY <1>4, <1>6, <1>7, IsASeq
<1>9. Listing(out)
  BY <1>8, AnyListing
<1>10. DOMAIN out = DOMAIN order
  BY <1>3
<1>11. PICK at : at = [k \in DOMAIN out |-> order[k]]
  OBVIOUS
<1>12. at \in [DOMAIN out -> DOMAIN list \cap DOMAIN list]
  BY <1>4, <1>10, <1>11
<1>13. \A k \in DOMAIN out : out[k] = list[at[k]]
  BY <1>3, <1>10, <1>11
<1>14. \A j, k \in DOMAIN out : at[j] = at[k] => j = k
  BY <1>10, <1>11 DEF EachOnce
<1> QED
  BY <1>2, <1>9, <1>12, <1>13, <1>14 DEF DrawnAt

\* What is drawn from places that differ differs.
LEMMA DrawnDistinct ==
    ASSUME NEW list, NEW from, NEW P, DrawnAt(list, from, P), EachOnce(from)
    PROVE  EachOnce(list)
<1>1. PICK at \in [DOMAIN list -> P \cap DOMAIN from] :
          /\ \A k \in DOMAIN list : list[k] = from[at[k]]
          /\ \A j, k \in DOMAIN list : at[j] = at[k] => j = k
  BY DEF DrawnAt
<1>2. \A k \in DOMAIN list : at[k] \in DOMAIN from
  BY <1>1
<1> QED
  BY <1>1, <1>2 DEF EachOnce

\* ... and is of the same things.
LEMMA DrawnType ==
    ASSUME NEW S, NEW list, NEW from \in Seq(S), NEW P, DrawnAt(list, from, P)
    PROVE  list \in Seq(S)
<1>1. PICK at \in [DOMAIN list -> P \cap DOMAIN from] : \A k \in DOMAIN list : list[k] = from[at[k]]
  BY DEF DrawnAt
<1>2. PICK A : list \in Seq(A)
  BY DEF DrawnAt, Listing
<1>3. DOMAIN list = 1..Len(list) /\ Len(list) \in Nat /\ list = [k \in 1..Len(list) |-> list[k]]
  BY <1>2
<1>4. \A k \in 1..Len(list) : list[k] \in S
  BY <1>1, <1>3
<1> QED
  BY <1>3, <1>4, IsASeq

-------------------------------------------------------------------------------
(* Sorting *)

\* A new place is put among the others, once.
LEMMA Inserted ==
    ASSUME NEW n \in Nat, NEW order \in Seq(1..n), EachOnce(order), NEW less
    PROVE  LET more == InsertPlace(order, n + 1, less)
           IN more \in Seq(1..(n + 1)) /\ EachOnce(more)
<1>1. PICK before, rest : /\ before = {k \in DOMAIN order : <<n + 1, order[k]>> \notin less}
                          /\ rest = DOMAIN order \ before
  OBVIOUS
<1>2. PICK low, new, high, m : /\ low = Keep(order, before) /\ new = <<n + 1>>
                               /\ high = Keep(order, rest) /\ m = Len(order) + 1
  OBVIOUS
<1>3. PICK all : all = order \o new
  OBVIOUS
<1>4. Listing(order) /\ Len(order) \in Nat /\ DOMAIN order = 1..Len(order)
  BY AnyListing
<1>5. Listing(new) /\ Len(new) = 1 /\ DOMAIN new = {1} /\ new[1] = n + 1
  BY <1>2, LoneList
<1>6. /\ Listing(all) /\ DOMAIN all = 1..m /\ m \in Nat /\ m \notin DOMAIN order
      /\ \A i \in DOMAIN order : i \in DOMAIN all /\ all[i] = order[i]
      /\ \A i \in DOMAIN all : \/ i \in DOMAIN order /\ all[i] = order[i]
                               \/ i = m /\ all[i] = n + 1
  <2>1. /\ Listing(order \o new) /\ DOMAIN (order \o new) = 1..(Len(order) + Len(new))
        /\ \A i \in DOMAIN order : i \in DOMAIN (order \o new) /\ (order \o new)[i] = order[i]
        /\ \A i \in DOMAIN (order \o new) : \/ i \in DOMAIN order /\ (order \o new)[i] = order[i]
                                            \/ i - Len(order) \in DOMAIN new /\ (order \o new)[i] = new[i - Len(order)]
    BY <1>4, <1>5, JoinedLists
  <2>2. m \in Nat /\ m \notin DOMAIN order /\ DOMAIN all = 1..m
    BY <1>2, <1>3, <1>4, <1>5, <2>1
  <2>3. ASSUME NEW i \in DOMAIN all, i - Len(order) \in DOMAIN new PROVE i = m /\ new[i - Len(order)] = n + 1
    <3>1. i - Len(order) = 1 /\ i \in Nat
      BY <1>5, <2>2, <2>3
    <3> QED
      BY <1>2, <1>4, <1>5, <3>1
  <2> QED
    BY <1>3, <2>1, <2>2, <2>3
<1>7. all[m] = n + 1
  <2>1. m \in 1..m
    BY <1>2, <1>4
  <2> QED
    BY <1>6, <2>1
<1>8. EachOnce(all)
  <2>1. \A i \in DOMAIN order : order[i] # n + 1
    BY <1>4
  <2> QED
    BY <1>6, <2>1 DEF EachOnce
<1>9. DrawnAt(order, all, DOMAIN order)
  <2>1. PICK at : at = [k \in DOMAIN order |-> k]
    OBVIOUS
  <2>2. at \in [DOMAIN order -> DOMAIN order \cap DOMAIN all]
    BY <1>6, <2>1
  <2>3. \A k \in DOMAIN order : order[k] = all[at[k]]
    BY <1>6, <2>1
  <2>4. \A j, k \in DOMAIN order : at[j] = at[k] => j = k
    BY <2>1
  <2> QED
    BY <1>4, <2>2, <2>3, <2>4 DEF DrawnAt
<1>10. ASSUME NEW places, places \subseteq DOMAIN order
       PROVE  DrawnAt(Keep(order, places), all, places)
  <2>1. PICK kept : kept = Keep(order, places)
    OBVIOUS
  <2>2. DrawnAt(kept, order, places)
    BY <1>4, <2>1, KeepDraws
  <2>3. PICK at \in [DOMAIN kept -> places \cap DOMAIN order] :
            /\ \A k \in DOMAIN kept : kept[k] = order[at[k]]
            /\ \A j, k \in DOMAIN kept : at[j] = at[k] => j = k
    BY <2>2 DEF DrawnAt
  <2>4. \A k \in DOMAIN kept : kept[k] = all[at[k]] /\ at[k] \in places \cap DOMAIN all
    BY <1>6, <2>3
  <2>5. at \in [DOMAIN kept -> places \cap DOMAIN all]
    BY <2>3, <2>4
  <2> QED
    BY SMTT(30), <2>1, <2>2, <2>3, <2>4, <2>5 DEF DrawnAt
<1>11. DrawnAt(low, all, before) /\ DrawnAt(high, all, rest)
  BY <1>1, <1>2, <1>10
<1>12. DrawnAt(new, all, {m})
  <2>1. PICK at : at = [k \in DOMAIN new |-> m]
    OBVIOUS
  <2>2. m \in DOMAIN all
    BY <1>2, <1>4, <1>6
  <2>3. at \in [DOMAIN new -> {m} \cap DOMAIN all]
    BY <2>1, <2>2
  <2>4. \A k \in DOMAIN new : new[k] = all[at[k]]
    BY <1>5, <1>7, <2>1
  <2>5. \A j, k \in DOMAIN new : at[j] = at[k] => j = k
    BY <1>5
  <2> QED
    BY <1>5, <2>3, <2>4, <2>5 DEF DrawnAt
<1>13. before \cap {m} = {} /\ (before \cup {m}) \cap rest = {}
  BY <1>1, <1>6
<1>14. PICK P, half : P = before \cup {m} /\ half = low \o new
  OBVIOUS
<1>15. DrawnAt(half, all, P)
  BY <1>11, <1>12, <1>13, <1>14, JoinDraws
<1>16. P \cap rest = {}
  BY <1>13, <1>14
<1>17. DrawnAt(half \o high, all, P \cup rest)
  BY <1>11, <1>15, <1>16, JoinDraws
<1>18. InsertPlace(order, n + 1, less) = half \o high
  BY <1>1, <1>2, <1>14 DEF InsertPlace
<1>19. PICK more : more = half \o high
  OBVIOUS
<1>20. DrawnAt(more, all, P \cup rest)
  BY <1>17, <1>19
<1>21. EachOnce(more)
  BY <1>8, <1>20, DrawnDistinct
<1>22. all \in Seq(1..(n + 1))
  <2>1. 1..n \subseteq 1..(n + 1) /\ n + 1 \in 1..(n + 1)
    OBVIOUS
  <2>2. order \in Seq(1..(n + 1))
    BY <2>1, SeqMonotonic
  <2>3. new \in Seq(1..(n + 1))
    BY <1>2, <2>1
  <2> QED
    BY <1>3, <2>2, <2>3, ConcatProperties
<1>23. more \in Seq(1..(n + 1))
  BY <1>20, <1>22, DrawnType
<1> QED
  BY <1>18, <1>19, <1>21, <1>23

\* A sort lists every place at most once.
LEMMA SortedOnce ==
    ASSUME NEW len \in Nat, NEW less
    PROVE  SortedPlaces(len, less) \in Seq(1..len) /\ EachOnce(SortedPlaces(len, less))
<1>1. PICK X, none : X = Seq(Nat) /\ none = <<>>
  OBVIOUS
<1>2. none \in X
  BY <1>1
<1>3. PICK step : step = [p \in X \X (1..len) |-> InsertPlace(p[1], p[2], less)]
  OBVIOUS
<1>4. step \in [X \X (1..len) -> X]
  <2>1. ASSUME NEW p \in X \X (1..len) PROVE step[p] \in X
    <3>1. PICK order, n, before, rest :
              /\ order = p[1] /\ n = p[2]
              /\ before = {k \in DOMAIN order : <<n, order[k]>> \notin less}
              /\ rest = DOMAIN order \ before
      OBVIOUS
    <3>2. order \in Seq(Nat) /\ n \in Nat
      BY <1>1, <2>1, <3>1
    <3>3. Keep(order, before) \in Seq(Nat)
      BY <3>2, KeepIsKept
    <3>4. Keep(order, rest) \in Seq(Nat)
      BY <3>2, KeepIsKept
    <3>5. <<n>> \in Seq(Nat)
      BY <3>2
    <3>6. Keep(order, before) \o <<n>> \in Seq(Nat)
      BY <3>3, <3>5, ConcatProperties
    <3>7. (Keep(order, before) \o <<n>>) \o Keep(order, rest) \in Seq(Nat)
      BY <3>4, <3>6, ConcatProperties
    <3>8. InsertPlace(order, n, less) = (Keep(order, before) \o <<n>>) \o Keep(order, rest)
      BY <3>1 DEF InsertPlace
    <3> QED
      BY <1>1, <1>3, <2>1, <3>1, <3>7, <3>8
  <2> QED
    BY <1>3, <2>1
<1>5. PICK f \in [0..len -> X] : f[0] = none /\ \A n \in 1..len : f[n] = step[<<f[n - 1], n>>]
  <2>1. PICK f : IsLoop(f, len, X, none, step)
    BY <1>2, <1>4, LoopExists
  <2> QED
    BY <2>1 DEF IsLoop
<1>6. ASSUME NEW n \in 1..len PROVE f[n] = InsertPlace(f[n - 1], n, less)
  <2>1. <<f[n - 1], n>> \in X \X (1..len)
    BY <1>5
  <2> QED
    BY <1>3, <1>5, <2>1
<1> DEFINE Loop(g) == g = [n \in 0..len |-> IF n = 0 THEN <<>> ELSE InsertPlace(g[n - 1], n, less)]
<1>7. Loop(CHOOSE g : Loop(g))
  <2>1. PICK h : h = [n \in 0..len |-> IF n = 0 THEN <<>> ELSE InsertPlace(f[n - 1], n, less)]
    OBVIOUS
  <2>2. \A n \in 0..len : f[n] = h[n]
    <3> TAKE n \in 0..len
    <3>1. CASE n = 0
      BY <1>1, <1>5, <2>1, <3>1
    <3>2. CASE n # 0
      <4>1. n \in 1..len
        BY <3>2
      <4>2. f[n] = InsertPlace(f[n - 1], n, less)
        BY <1>6, <4>1
      <4>3. h[n] = InsertPlace(f[n - 1], n, less)
        BY <2>1, <3>2
      <4> QED
        BY <4>2, <4>3
    <3> QED
      BY <3>1, <3>2
  <2>3. f = h
    <3>1. h = [n \in 0..len |-> h[n]]
      BY <2>1
    <3>2. f = [n \in 0..len |-> f[n]]
      BY <1>5
    <3> QED
      BY <2>2, <3>1, <3>2
  <2>4. Loop(f)
    BY <2>1, <2>3
  <2> HIDE DEF Loop
  <2> QED
    BY <2>4
<1>8. PICK g : Loop(g) /\ SortedPlaces(len, less) = g[len]
  <2>1. SortedPlaces(len, less) = (CHOOSE g : Loop(g))[len]
    BY DEF SortedPlaces
  <2> HIDE DEF Loop
  <2> QED
    BY <1>7, <2>1
<1>9. PICK T : T = {n \in 0..len : g[n] \in Seq(1..n) /\ EachOnce(g[n])}
  OBVIOUS
<1>10. 0 \in T
  <2>1. g[0] = <<>> /\ 0 \in 0..len
    BY <1>8
  <2>2. <<>> \in Seq(1..0) /\ EachOnce(<<>>)
    BY DEF EachOnce
  <2> QED
    BY <1>9, <2>1, <2>2
<1>11. ASSUME NEW n \in 1..len, n - 1 \in T PROVE n \in T
  <2>1. PICK order, m : order = g[n - 1] /\ m = n - 1
    OBVIOUS
  <2>2. order \in Seq(1..m) /\ EachOnce(order) /\ m \in Nat /\ n = m + 1
    BY <1>9, <1>11, <2>1
  <2>3. g[n] = InsertPlace(order, m + 1, less)
    <3>1. n \in 0..len /\ n # 0
      OBVIOUS
    <3>2. g[n] = InsertPlace(g[n - 1], n, less)
      BY <1>8, <3>1
    <3> QED
      BY <2>1, <2>2, <3>2
  <2>4. InsertPlace(order, m + 1, less) \in Seq(1..(m + 1)) /\ EachOnce(InsertPlace(order, m + 1, less))
    BY <2>2, Inserted
  <2>5. n \in 0..len
    OBVIOUS
  <2> QED
    BY <1>9, <2>2, <2>3, <2>4, <2>5
<1>12. 0..len \subseteq T
  BY <1>10, <1>11, Induct
<1>13. len \in T
  BY <1>12
<1> QED
  BY <1>8, <1>9, <1>13

\* A sorted list has the elements of the list.
LEMMA SortDraws ==
    ASSUME NEW list, Listing(list), NEW less
    PROVE  DrawnAt(AtPlaces(list, SortedPlaces(Len(list), less)), list, DOMAIN list)
<1>1. Len(list) \in Nat /\ DOMAIN list = 1..Len(list)
  BY DEF Listing
<1>2. PICK order : order = SortedPlaces(Len(list), less)
  OBVIOUS
<1>3. order \in Seq(DOMAIN list) /\ EachOnce(order)
  BY <1>1, <1>2, SortedOnce
<1> QED
  BY <1>2, <1>3, AtPlacesDraws

-------------------------------------------------------------------------------
(* Capped choices *)

\* Those before m, of some places, that m is the same as.
SameBefore(places, m, same) == {i \in places : i < m /\ <<i, m>> \in same}

\* No place has as many as max before it that it is the same as.
LEMMA AtMostOfOne ==
    ASSUME NEW len \in Nat, NEW same, NEW max \in Nat
    PROVE  /\ CappedPlaces(len, same, max) \subseteq 1..len
           /\ \A m \in CappedPlaces(len, same, max) :
                 /\ IsFiniteSet(SameBefore(CappedPlaces(len, same, max), m, same))
                 /\ Cardinality(SameBefore(CappedPlaces(len, same, max), m, same)) < max
<1>1. PICK X, none : X = SUBSET (1..len) /\ none = {}
  OBVIOUS
<1>2. none \in X
  BY <1>1
<1>3. PICK step : step = [p \in X \X (1..len) |->
                             IF Cardinality({i \in p[1] : <<i, p[2]>> \in same}) >= max
                             THEN p[1] ELSE p[1] \cup {p[2]}]
  OBVIOUS
<1>4. step \in [X \X (1..len) -> X]
  BY <1>1, <1>3
<1>5. PICK f \in [0..len -> X] : f[0] = none /\ \A n \in 1..len : f[n] = step[<<f[n - 1], n>>]
  <2>1. PICK f : IsLoop(f, len, X, none, step)
    BY <1>2, <1>4, LoopExists
  <2> QED
    BY <2>1 DEF IsLoop
<1> DEFINE Next(kept, n) == IF Cardinality({i \in kept : <<i, n>> \in same}) >= max
                            THEN kept ELSE kept \cup {n}
<1>6. ASSUME NEW n \in 1..len PROVE f[n] = Next(f[n - 1], n)
  <2>1. <<f[n - 1], n>> \in X \X (1..len)
    BY <1>5
  <2> QED
    BY ZenonT(40), <1>3, <1>5, <2>1
<1> DEFINE Loop(g) == g = [n \in 0..len |-> IF n = 0 THEN {} ELSE Next(g[n - 1], n)]
<1>7. Loop(CHOOSE g : Loop(g))
  <2>1. PICK h : h = [n \in 0..len |-> IF n = 0 THEN {} ELSE Next(f[n - 1], n)]
    OBVIOUS
  <2>2. \A n \in 0..len : f[n] = h[n]
    <3> HIDE DEF Next
    <3> TAKE n \in 0..len
    <3>1. CASE n = 0
      BY <1>1, <1>5, <2>1, <3>1
    <3>2. CASE n # 0
      <4>1. n \in 1..len
        BY <3>2
      <4>2. f[n] = Next(f[n - 1], n)
        BY <1>6, <4>1
      <4>3. h[n] = Next(f[n - 1], n)
        BY <2>1, <3>2
      <4> QED
        BY <4>2, <4>3
    <3> QED
      BY <3>1, <3>2
  <2>3. f = h
    <3>1. h = [n \in 0..len |-> h[n]]
      BY <2>1
    <3>2. f = [n \in 0..len |-> f[n]]
      BY <1>5
    <3> QED
      BY <2>2, <3>1, <3>2
  <2>4. Loop(f)
    BY <2>1, <2>3
  <2> HIDE DEF Loop
  <2> QED
    BY <2>4
<1>8. PICK g : Loop(g) /\ CappedPlaces(len, same, max) = g[len]
  <2>1. CappedPlaces(len, same, max) = (CHOOSE g : Loop(g))[len]
    BY DEF CappedPlaces
  <2> HIDE DEF Loop
  <2> QED
    BY <1>7, <2>1
<1>9. PICK T : T = {n \in 0..len : /\ g[n] \subseteq 1..n
                                   /\ \A m \in g[n] : ~(Cardinality(SameBefore(g[n], m, same)) >= max)}
  OBVIOUS
<1>10. 0 \in T
  <2>1. g[0] = {} /\ 0 \in 0..len
    BY <1>8
  <2> QED
    BY <1>9, <2>1
<1>11. ASSUME NEW n \in 1..len, n - 1 \in T PROVE n \in T
  <2>1. PICK kept, more : kept = g[n - 1] /\ more = g[n]
    OBVIOUS
  <2>2. kept \subseteq 1..(n - 1) /\ \A m \in kept : ~(Cardinality(SameBefore(kept, m, same)) >= max)
    BY <1>9, <1>11, <2>1
  <2>3. more = Next(kept, n)
    <3>1. n \in 0..len /\ n # 0
      OBVIOUS
    <3> HIDE DEF Next
    <3>2. g[n] = Next(g[n - 1], n)
      BY <1>8, <3>1
    <3> QED
      BY <2>1, <3>2
  <2>4. more \subseteq 1..n
    BY <2>2, <2>3
  <2>5. more \subseteq kept \cup {n}
    BY <2>3
  <2>6. ASSUME NEW m \in kept PROVE SameBefore(more, m, same) = SameBefore(kept, m, same)
    <3>1. kept \subseteq more /\ m \in 1..(n - 1) /\ n \in Nat
      BY <2>2, <2>3
    <3>2. ~(n < m)
      BY <3>1
    <3> QED
      BY <2>5, <3>1, <3>2 DEF SameBefore
  <2>7. ASSUME n \in more PROVE ~(Cardinality(SameBefore(more, n, same)) >= max)
    <3>1. PICK before : before = {i \in kept : <<i, n>> \in same}
      OBVIOUS
    <3>2. n \notin kept
      BY <2>2
    <3>3. ~(Cardinality(before) >= max)
      BY <2>3, <2>7, <3>1, <3>2
    <3>4. SameBefore(more, n, same) = before
      <4>1. \A i \in kept : i < n
        BY <2>2
      <4>2. ~(n < n) /\ kept \subseteq more
        BY <2>3
      <4> QED
        BY <2>5, <3>1, <4>1, <4>2 DEF SameBefore
    <3> QED
      BY <3>3, <3>4
  <2>8. \A m \in more : ~(Cardinality(SameBefore(more, m, same)) >= max)
    <3> TAKE m \in more
    <3>1. CASE m \in kept
      BY <2>2, <2>6, <3>1
    <3>2. CASE m = n
      BY <2>7, <3>2
    <3> QED
      BY <2>5, <3>1, <3>2
  <2>9. n \in 0..len
    OBVIOUS
  <2> QED
    BY <1>9, <2>1, <2>4, <2>8, <2>9
<1>12. 0..len \subseteq T
  BY <1>10, <1>11, Induct
<1>13. len \in T
  BY <1>12
<1>14. PICK K : K = CappedPlaces(len, same, max)
  OBVIOUS
<1>15. K \subseteq 1..len /\ \A m \in K : ~(Cardinality(SameBefore(K, m, same)) >= max)
  BY <1>8, <1>9, <1>13, <1>14
<1>16. ASSUME NEW m \in K
       PROVE  IsFiniteSet(SameBefore(K, m, same)) /\ Cardinality(SameBefore(K, m, same)) < max
  <2>1. PICK before : before = SameBefore(K, m, same)
    OBVIOUS
  <2>2. IsFiniteSet(1..len)
    BY FS_Interval
  <2>3. before \in SUBSET (1..len)
    BY <1>15, <2>1 DEF SameBefore
  <2>4. IsFiniteSet(before)
    BY <2>2, <2>3, FS_Subset
  <2>5. Cardinality(before) \in Nat
    BY <2>4, FS_CardinalityType
  <2>6. ~(Cardinality(before) >= max)
    BY <1>15, <2>1
  <2> QED
    BY <2>1, <2>4, <2>5, <2>6
<1> QED
  BY <1>14, <1>15, <1>16

\* A number of a finite set of numbers that none of them exceeds.
LEMMA Greatest ==
    ASSUME NEW len \in Nat, NEW S, S \subseteq 1..len, S # {}
    PROVE  \E last \in S : \A n \in S : n <= last
<1>1. PICK T : T = {k \in Nat : \E n \in S : k = len - n}
  OBVIOUS
<1>2. T \subseteq Nat /\ T # {}
  <2>1. PICK n \in S : TRUE
    OBVIOUS
  <2>2. len - n \in Nat
    OBVIOUS
  <2> QED
    BY <1>1, <2>1, <2>2
<1>3. PICK k \in T : \A j \in T : k <= j
  BY <1>2, LeastNatural
<1>4. PICK last \in S : k = len - last
  BY <1>1, <1>3
<1>5. ASSUME NEW n \in S PROVE n <= last
  <2>1. n \in 1..len /\ last \in 1..len
    OBVIOUS
  <2>2. len - n \in Nat
    BY <2>1
  <2>3. len - n \in T
    BY <1>1, <2>2
  <2>4. len - last <= len - n
    BY <1>3, <1>4, <2>3
  <2> QED
    BY <2>1, <2>4
<1> QED
  BY <1>5

\* Places that are all the same, among those a cap has left, are at most as many as the cap.
LEMMA CappedSame ==
    ASSUME NEW len \in Nat, NEW same, NEW max \in Nat \ {0},
           NEW S, S \subseteq CappedPlaces(len, same, max), \A i, j \in S : <<i, j>> \in same
    PROVE  IsFiniteSet(S) /\ Cardinality(S) <= max
<1>1. PICK K : K = CappedPlaces(len, same, max)
  OBVIOUS
<1>2. K \subseteq 1..len /\ \A m \in K : /\ IsFiniteSet(SameBefore(K, m, same))
                                         /\ Cardinality(SameBefore(K, m, same)) < max
  <2>1. max \in Nat
    OBVIOUS
  <2> QED
    BY <1>1, <2>1, AtMostOfOne
<1>3. S \subseteq 1..len /\ S \subseteq K
  BY <1>1, <1>2
<1>4. IsFiniteSet(1..len)
  BY FS_Interval
<1>5. IsFiniteSet(S)
  BY <1>3, <1>4, FS_Subset
<1>6. CASE S = {}
  BY <1>5, <1>6, FS_EmptySet
<1>7. CASE S # {}
  <2>1. PICK last \in S : \A n \in S : n <= last
    BY <1>3, <1>7, Greatest
  <2>2. PICK rest, before : rest = S \ {last} /\ before = SameBefore(K, last, same)
    OBVIOUS
  <2>3. IsFiniteSet(rest) /\ Cardinality(rest) = Cardinality(S) - 1
    BY <1>5, <2>1, <2>2, FS_RemoveElement
  <2>4. \A n \in rest : n \in K /\ n < last /\ <<n, last>> \in same
    BY <1>3, <2>1, <2>2
  <2>5. rest \in SUBSET before
    BY <2>2, <2>4 DEF SameBefore
  <2>6. IsFiniteSet(before) /\ Cardinality(before) < max
    BY <1>2, <1>3, <2>1, <2>2
  <2>7. Cardinality(rest) <= Cardinality(before)
    BY <2>5, <2>6, FS_Subset
  <2>8. Cardinality(S) \in Nat /\ Cardinality(before) \in Nat /\ Cardinality(rest) \in Nat
    BY <1>5, <2>3, <2>6, FS_CardinalityType
  <2>9. Cardinality(S) <= max
    BY <2>3, <2>6, <2>7, <2>8
  <2> QED
    BY <1>5, <2>9
<1> QED
  BY <1>6, <1>7

\* Of places that are the same a cap of one leaves one.
LEMMA CappedOnce ==
    ASSUME NEW len \in Nat, NEW same,
           NEW i \in CappedPlaces(len, same, 1), NEW j \in CappedPlaces(len, same, 1),
           <<i, j>> \in same, <<j, i>> \in same
    PROVE  i = j
<1>1. PICK K : K = CappedPlaces(len, same, 1)
  OBVIOUS
<1>2. 1 \in Nat
  OBVIOUS
<1>3. K \subseteq 1..len /\ \A m \in K : /\ IsFiniteSet(SameBefore(K, m, same))
                                         /\ Cardinality(SameBefore(K, m, same)) < 1
  BY <1>1, <1>2, AtMostOfOne
<1>4. ASSUME NEW m \in K PROVE SameBefore(K, m, same) = {}
  <2>1. PICK before : before = SameBefore(K, m, same)
    OBVIOUS
  <2>2. IsFiniteSet(before) /\ Cardinality(before) < 1
    BY <1>3, <2>1
  <2>3. Cardinality(before) \in Nat
    BY <2>2, FS_CardinalityType
  <2>4. Cardinality(before) = 0
    BY <2>2, <2>3
  <2>5. before = {}
    BY <2>2, <2>4, FS_EmptySet
  <2> QED
    BY <2>1, <2>5
<1>5. ~(i < j) /\ ~(j < i)
  BY <1>1, <1>4 DEF SameBefore
<1>6. i \in 1..len /\ j \in 1..len
  BY <1>1, <1>3
<1> QED
  BY <1>5, <1>6

\* What is drawn from a list has no more of a kind than the list has.
LEMMA DrawnFewer ==
    ASSUME NEW list, NEW from, NEW P, DrawnAt(list, from, P),
           NEW S, S \subseteq DOMAIN list, NEW T, IsFiniteSet(T),
           \A k \in S, i \in DOMAIN from : list[k] = from[i] => i \in T
    PROVE  Cardinality(S) <= Cardinality(T)
<1>1. PICK at \in [DOMAIN list -> P \cap DOMAIN from] :
          /\ \A k \in DOMAIN list : list[k] = from[at[k]]
          /\ \A j, k \in DOMAIN list : at[j] = at[k] => j = k
  BY DEF DrawnAt
<1>2. PICK f : f = [k \in S |-> at[k]]
  OBVIOUS
<1>3. \A k \in S : f[k] = at[k] /\ at[k] \in T
  BY <1>1, <1>2
<1>4. f \in [S -> T]
  BY <1>2, <1>3
<1>5. \A j, k \in S : f[j] = f[k] => j = k
  BY <1>1, <1>3
<1>6. f \in Injection(S, T)
  BY <1>4, <1>5, Fun_IsInj
<1> QED
  BY <1>6, FS_Injection
================================================================================
