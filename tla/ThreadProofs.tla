----------------------------- MODULE ThreadProofs -----------------------------
(***************************************************************************)
(* Proofs about the layout of a thread, for any lines and any limit of a   *)
(* post.                                                                   *)
(*                                                                         *)
(* What it makes: every loop of the layout gives texts of words at places  *)
(* of the text, and there are two at most (LayoutInProse).                 *)
(*                                                                         *)
(* What it keeps: the lines are taken apart into a head and a trailer      *)
(* without loss (PeelTrailerTells, PromotedTells), and each step of the    *)
(* layout leaves every word in the root or in what is left of the text     *)
(* (TakeBeatsTold, GrowRootSays, RebalanceSays, PeelTailSays).  Up to the  *)
(* growth of the root the invariant also says that no article ends a       *)
(* paragraph of what is left: a word prefix of articles only would drop    *)
(* what follows.  Hence LayoutSays: a thread says what its lines say.      *)
(***************************************************************************)
EXTENDS XThread, ListProofs

-----------------------------------------------------------------------------
(* The layout of a thread: its words are words of the text.                   *)

\* Tokens whose word, if they are one, is of the places N.
TokenKinds == Written \cup {"head", "para", "gap"}
Tokens(N) == {x \in [k : TokenKinds, n : Nat] : IsWord(x) => x.n \in N}
Prose(N) == Seq(Tokens(N))
Word(N) == {w \in Prose(N) : Len(w) >= 1 /\ \A i \in DOMAIN w : IsWord(w[i])}

LEMMA PartOfList ==
    ASSUME NEW S, NEW s \in Seq(S), NEW m \in Nat \ {0}, NEW n \in Int, n <= Len(s)
    PROVE  SubSeq(s, m, n) \in Seq(S)
<1>1. \A i \in m..n : s[i] \in S
  OBVIOUS
<1> QED
  BY <1>1, SubSeqProperties

LEMMA CutInSeq ==
    ASSUME NEW S, NEW s \in Seq(S), NEW n \in 0..Len(s)
    PROVE  Cut(s, n) \in Seq(S) /\ From(s, n + 1) \in Seq(S)
  BY PartOfList DEF Cut, From

LEMMA JoinInSeq ==
    ASSUME NEW S, NEW s \in Seq(S), NEW t \in Seq(S)
    PROVE  s \o t \in Seq(S)
  OBVIOUS

LEMMA MinIsIn ==
    ASSUME NEW S, S \subseteq Nat, S # {}
    PROVE  Min(S) \in S /\ \A n \in S : Min(S) <= n
<1>1. \E least \in S : \A n \in S : least <= n
  BY LeastNatural
<1> QED
  BY <1>1 DEF Min

LEMMA MaxIsIn ==
    ASSUME NEW S, NEW len \in Nat, S \subseteq 0..len, S # {}
    PROVE  Max(S) \in S /\ \A n \in S : n <= Max(S)
<1>1. \E last \in S : \A n \in S : n <= last
  <2>1. CASE \E n \in S : n # 0
    <3>1. PICK T : T = S \ {0}
      OBVIOUS
    <3>2. T \subseteq 1..len /\ T # {}
      BY <2>1, <3>1
    <3>3. PICK last \in T : \A n \in T : n <= last
      BY <3>2, Greatest
    <3> QED
      BY <3>1, <3>2, <3>3
  <2>2. CASE \A n \in S : n = 0
    <3>1. PICK n \in S : n = 0
      BY <2>2
    <3> QED
      BY <2>2, <3>1
  <2> QED
    BY <2>1, <2>2
<1>2. PICK last \in S : \A n \in S : n <= last
  BY <1>1
<1>3. \E x \in S : \A y \in S : x >= y
  BY <1>2
<1>4. Max(S) \in S /\ \A y \in S : Max(S) >= y
  BY <1>3 DEF Max
<1> QED
  BY <1>4

LEMMA PlainTokens ==
    ASSUME NEW N
    PROVE  Para \in Tokens(N) /\ Gap \in Tokens(N)
<1>1. Para.k = "para" /\ Gap.k = "gap" /\ Para.n = 0 /\ Gap.n = 0
  BY DEF Para, Gap
<1>2. ~IsWord(Para) /\ ~IsWord(Gap)
  BY <1>1 DEF IsWord
<1>3. Para \in [k : TokenKinds, n : Nat] /\ Gap \in [k : TokenKinds, n : Nat]
  BY DEF Para, Gap, TokenKinds
<1> QED
  BY <1>2, <1>3 DEF Tokens

LEMMA WordsAtAre ==
    ASSUME NEW t, NEW S, t \in Seq(S)
    PROVE  WordsAt(t) \subseteq 1..Len(t) /\ WordsAt(t) \subseteq Nat
  BY DEF WordsAt

LEMMA TrimmedInProse ==
    ASSUME NEW N, NEW t \in Prose(N)
    PROVE  TrimStart(t) \in Prose(N) /\ TrimEnd(t) \in Prose(N) /\ Trimmed(t) \in Prose(N)
<1>1. ASSUME NEW s \in Prose(N) PROVE TrimStart(s) \in Prose(N)
  <2>1. CASE WordsAt(s) = {}
    BY <2>1 DEF TrimStart, Prose
  <2>2. CASE WordsAt(s) # {}
    <3>1. WordsAt(s) \subseteq 1..Len(s) /\ Len(s) \in Nat
      BY WordsAtAre DEF Prose
    <3>2. Min(WordsAt(s)) \in 1..Len(s)
      BY <2>2, <3>1, MinIsIn
    <3>3. SubSeq(s, Min(WordsAt(s)), Len(s)) \in Seq(Tokens(N))
      BY <3>1, <3>2, PartOfList DEF Prose
    <3> QED
      BY <2>2, <3>3 DEF TrimStart, From, Prose
  <2> QED
    BY <2>1, <2>2
<1>2. TrimEnd(t) \in Prose(N)
  <2>1. CASE WordsAt(t) = {}
    BY <2>1 DEF TrimEnd, Prose
  <2>2. CASE WordsAt(t) # {}
    <3>1. WordsAt(t) \subseteq 1..Len(t) /\ Len(t) \in Nat
      BY WordsAtAre DEF Prose
    <3>2. WordsAt(t) \subseteq 0..Len(t)
      BY <3>1
    <3>3. Max(WordsAt(t)) \in 1..Len(t)
      BY <2>2, <3>1, <3>2, MaxIsIn
    <3>4. SubSeq(t, 1, Max(WordsAt(t))) \in Seq(Tokens(N))
      BY <3>1, <3>3, PartOfList DEF Prose
    <3> QED
      BY <2>2, <3>4 DEF TrimEnd, Cut, Prose
  <2> QED
    BY <2>1, <2>2
<1> QED
  BY <1>1, <1>2 DEF Trimmed

LEMMA AfterInProse ==
    ASSUME NEW N, NEW a \in Prose(N), NEW b \in Prose(N)
    PROVE  AfterPara(a, b) \in Prose(N) /\ AfterSpace(a, b) \in Prose(N)
<1>1. <<Para>> \in Prose(N) /\ <<Gap>> \in Prose(N)
  BY PlainTokens DEF Prose
<1>2. AfterPara(a, b) \in Prose(N)
  BY <1>1 DEF AfterPara, Prose
<1>3. AfterSpace(a, b) \in Prose(N)
  BY <1>1 DEF AfterSpace, Prose
<1> QED
  BY <1>2, <1>3

\* What holds at the start of a loop and across its steps holds at its end.
LEMMA LoopStays ==
    ASSUME NEW len \in Nat, NEW X, NEW g, g[0] \in X, \A n \in 1..len : g[n - 1] \in X => g[n] \in X
    PROVE  \A n \in 0..len : g[n] \in X
<1>1. PICK T : T = {n \in 0..len : g[n] \in X}
  OBVIOUS
<1>2. 0 \in T /\ \A n \in 1..len : n - 1 \in T => n \in T
  BY <1>1
<1>3. 0..len \subseteq T
  BY <1>2, Induct
<1> QED
  BY <1>1, <1>3

LEMMA JoinBeatsRuns ==
    ASSUME NEW N, NEW beats \in Seq(Prose(N))
    PROVE  \E run : /\ run[0] = <<>> /\ run[Len(beats)] = JoinBeats(beats)
                    /\ \A n \in 0..Len(beats) : run[n] \in Prose(N)
                    /\ \A n \in 1..Len(beats) : run[n] = AfterPara(run[n - 1], beats[n])
<1>1. PICK len, X, base : len = Len(beats) /\ X = Prose(N) /\ base = <<>>
  OBVIOUS
<1>2. len \in Nat /\ base \in X
  BY <1>1 DEF Prose
<1>3. ASSUME NEW x \in X, NEW n \in 1..len PROVE AfterPara(x, beats[n]) \in X
  <2>1. beats[n] \in Prose(N)
    BY <1>1
  <2> QED
    BY <1>1, <2>1, AfterInProse
<1>4. PICK step : step = [p \in X \X (1..len) |-> AfterPara(p[1], beats[p[2]])]
  OBVIOUS
<1>5. step \in [X \X (1..len) -> X]
  <2>1. \A p \in X \X (1..len) : p[1] \in X /\ p[2] \in 1..len
    OBVIOUS
  <2>2. \A p \in X \X (1..len) : step[p] \in X
    BY <1>3, <1>4, <2>1
  <2> QED
    BY <1>4, <2>2
<1>6. PICK f \in [0..len -> X] : f[0] = base /\ \A n \in 1..len : f[n] = step[<<f[n - 1], n>>]
  <2>1. PICK f : IsLoop(f, len, X, base, step)
    BY <1>2, <1>5, LoopExists
  <2> QED
    BY <2>1 DEF IsLoop
<1> DEFINE Loop(g) == g = [n \in 0..len |-> IF n = 0 THEN <<>> ELSE AfterPara(g[n - 1], beats[n])]
<1>7. Loop(f)
  <2>1. ASSUME NEW n \in 1..len PROVE f[n] = AfterPara(f[n - 1], beats[n])
    <3>1. <<f[n - 1], n>> \in X \X (1..len)
      BY <1>2
    <3> QED
      BY <1>4, <1>6, <3>1
  <2>2. ASSUME NEW n \in 0..len PROVE f[n] = IF n = 0 THEN <<>> ELSE AfterPara(f[n - 1], beats[n])
    BY <1>1, <1>2, <1>6, <2>1
  <2> QED
    BY <2>2
<1>8. PICK g : Loop(g) /\ JoinBeats(beats) = g[len]
  <2>1. JoinBeats(beats) = (CHOOSE g : Loop(g))[len]
    BY <1>1 DEF JoinBeats
  <2> HIDE DEF Loop
  <2> QED
    BY <1>7, <2>1
<1>9. ASSUME NEW n \in 1..len, g[n - 1] \in X PROVE g[n] \in X
  <2>1. g[n] = AfterPara(g[n - 1], beats[n])
    BY <1>2, <1>8
  <2> QED
    BY <1>3, <1>9, <2>1
<1>10. g[0] \in X
  BY <1>1, <1>2, <1>8
<1>11. \A n \in 0..len : g[n] \in X
  <2> HIDE DEF Loop
  <2> QED
    BY <1>2, <1>9, <1>10, LoopStays
<1>12. g[0] = base /\ g[len] = JoinBeats(beats)
  BY <1>1, <1>2, <1>8
<1>13. ASSUME NEW n \in 1..len PROVE g[n] = AfterPara(g[n - 1], beats[n])
  BY <1>2, <1>8
<1> HIDE DEF Loop
<1> QED
  BY <1>1, <1>11, <1>12, <1>13

LEMMA JoinBeatsInProse ==
    ASSUME NEW N, NEW beats \in Seq(Prose(N))
    PROVE  JoinBeats(beats) \in Prose(N)
<1>1. PICK len : len = Len(beats)
  OBVIOUS
<1>2. len \in Nat /\ len \in 0..len
  BY <1>1 DEF Prose
<1> QED
  BY <1>1, <1>2, JoinBeatsRuns

LEMMA JoinWordsRuns ==
    ASSUME NEW N, NEW words \in Seq(Prose(N))
    PROVE  \E run : /\ run[0] = <<>> /\ run[Len(words)] = JoinWords(words)
                    /\ \A n \in 0..Len(words) : run[n] \in Prose(N)
                    /\ \A n \in 1..Len(words) : run[n] = AfterSpace(run[n - 1], words[n])
<1>1. PICK len, X, base : len = Len(words) /\ X = Prose(N) /\ base = <<>>
  OBVIOUS
<1>2. len \in Nat /\ base \in X
  BY <1>1 DEF Prose
<1>3. ASSUME NEW x \in X, NEW n \in 1..len PROVE AfterSpace(x, words[n]) \in X
  <2>1. words[n] \in Prose(N)
    BY <1>1
  <2> QED
    BY <1>1, <2>1, AfterInProse
<1>4. PICK step : step = [p \in X \X (1..len) |-> AfterSpace(p[1], words[p[2]])]
  OBVIOUS
<1>5. step \in [X \X (1..len) -> X]
  <2>1. \A p \in X \X (1..len) : p[1] \in X /\ p[2] \in 1..len
    OBVIOUS
  <2>2. \A p \in X \X (1..len) : step[p] \in X
    BY <1>3, <1>4, <2>1
  <2> QED
    BY <1>4, <2>2
<1>6. PICK f \in [0..len -> X] : f[0] = base /\ \A n \in 1..len : f[n] = step[<<f[n - 1], n>>]
  <2>1. PICK f : IsLoop(f, len, X, base, step)
    BY <1>2, <1>5, LoopExists
  <2> QED
    BY <2>1 DEF IsLoop
<1> DEFINE Loop(g) == g = [n \in 0..len |-> IF n = 0 THEN <<>> ELSE AfterSpace(g[n - 1], words[n])]
<1>7. Loop(f)
  <2>1. ASSUME NEW n \in 1..len PROVE f[n] = AfterSpace(f[n - 1], words[n])
    <3>1. <<f[n - 1], n>> \in X \X (1..len)
      BY <1>2
    <3> QED
      BY <1>4, <1>6, <3>1
  <2>2. ASSUME NEW n \in 0..len PROVE f[n] = IF n = 0 THEN <<>> ELSE AfterSpace(f[n - 1], words[n])
    BY <1>1, <1>2, <1>6, <2>1
  <2> QED
    BY <2>2
<1>8. PICK g : Loop(g) /\ JoinWords(words) = g[len]
  <2>1. JoinWords(words) = (CHOOSE g : Loop(g))[len]
    BY <1>1 DEF JoinWords
  <2> HIDE DEF Loop
  <2> QED
    BY <1>7, <2>1
<1>9. ASSUME NEW n \in 1..len, g[n - 1] \in X PROVE g[n] \in X
  <2>1. g[n] = AfterSpace(g[n - 1], words[n])
    BY <1>2, <1>8
  <2> QED
    BY <1>3, <1>9, <2>1
<1>10. g[0] \in X
  BY <1>1, <1>2, <1>8
<1>11. \A n \in 0..len : g[n] \in X
  <2> HIDE DEF Loop
  <2> QED
    BY <1>2, <1>9, <1>10, LoopStays
<1>12. g[0] = base /\ g[len] = JoinWords(words)
  BY <1>1, <1>2, <1>8
<1>13. ASSUME NEW n \in 1..len PROVE g[n] = AfterSpace(g[n - 1], words[n])
  BY <1>2, <1>8
<1> HIDE DEF Loop
<1> QED
  BY <1>1, <1>11, <1>12, <1>13

LEMMA JoinWordsInProse ==
    ASSUME NEW N, NEW words \in Seq(Prose(N))
    PROVE  JoinWords(words) \in Prose(N)
<1>1. PICK len : len = Len(words)
  OBVIOUS
<1>2. len \in Nat /\ len \in 0..len
  BY <1>1 DEF Prose
<1> QED
  BY <1>1, <1>2, JoinWordsRuns

LEMMA BeatsInProse ==
    ASSUME NEW N, NEW t \in Prose(N)
    PROVE  Beats(t) \in Seq(Prose(N))
<1>1. PICK list : list = [i \in DOMAIN t |-> SubSeq(t, i, BeatEnd(t, i))]
  OBVIOUS
<1>2. t \in Seq(Tokens(N)) /\ Len(t) \in Nat /\ DOMAIN t = 1..Len(t)
  BY DEF Prose
<1>3. ASSUME NEW i \in 1..Len(t) PROVE list[i] \in Prose(N)
  <2>1. PICK S : S = {j \in i..Len(t) : t[j].k = "para"} \cup {Len(t) + 1}
    OBVIOUS
  <2>2. S \subseteq Nat /\ Len(t) + 1 \in S
    BY <1>2, <2>1
  <2>3. Min(S) \in Nat /\ Min(S) <= Len(t) + 1
    BY <2>2, MinIsIn
  <2>4. BeatEnd(t, i) \in Int /\ BeatEnd(t, i) <= Len(t)
    BY <1>2, <2>1, <2>3 DEF BeatEnd
  <2>5. SubSeq(t, i, BeatEnd(t, i)) \in Seq(Tokens(N))
    BY <1>2, <2>4, PartOfList
  <2> QED
    BY <1>1, <1>2, <2>5 DEF Prose
<1>4. list \in Seq(Prose(N))
  <2>1. list = [i \in 1..Len(t) |-> list[i]]
    BY <1>1, <1>2
  <2> QED
    BY <1>2, <1>3, <2>1, IsASeq
<1> QED
  BY <1>1, <1>4, KeepIsKept DEF Beats

\* A token of a text, and where it is torn.
LEMMA JoinedIsWord ==
    ASSUME NEW N, NEW t \in Prose(N), NEW i \in 1..(Len(t) - 1), Joined(t, i)
    PROVE  IsWord(t[i]) /\ IsWord(t[i + 1])
  BY DEF Joined, IsWord

LEMMA FirstWordIs ==
    ASSUME NEW N, NEW t \in Prose(N), t # <<>>, IsWord(t[1])
    PROVE  /\ FirstWordLen(t) \in 1..Len(t)
           /\ Cut(t, FirstWordLen(t)) \in Word(N)
           /\ From(t, FirstWordLen(t) + 1) \in Prose(N)
<1>1. t \in Seq(Tokens(N)) /\ Len(t) \in Nat /\ Len(t) >= 1 /\ DOMAIN t = 1..Len(t)
  BY DEF Prose
<1>2. PICK n : n = FirstWordLen(t)
  OBVIOUS
<1>3. n \in 1..Len(t) /\ (n = 1 \/ (n = 2 /\ Len(t) >= 2 /\ Joined(t, 1)))
  BY <1>1, <1>2 DEF FirstWordLen
<1>4. \A i \in 1..n : t[i] \in Tokens(N) /\ IsWord(t[i])
  <2>1. CASE n = 1
    BY <1>1, <1>3, <2>1
  <2>2. CASE n = 2
    <3>1. IsWord(t[1]) /\ IsWord(t[1 + 1])
      BY <1>1, <1>3, <2>2, JoinedIsWord
    <3> QED
      BY <1>1, <1>3, <2>2, <3>1
  <2> QED
    BY <1>3, <2>1, <2>2
<1>5. PICK w : w = Cut(t, n)
  OBVIOUS
<1>6. w \in Seq(Tokens(N)) /\ Len(w) = n /\ \A i \in 1..n : w[i] = t[i]
  BY <1>1, <1>3, <1>4, <1>5, SubSeqProperties DEF Cut
<1>7. w \in Prose(N) /\ Len(w) >= 1 /\ \A i \in DOMAIN w : IsWord(w[i])
  BY <1>3, <1>4, <1>6 DEF Prose
<1>8. w \in Word(N)
  BY <1>7 DEF Word
<1>9. From(t, n + 1) \in Prose(N)
  BY <1>1, <1>3, CutInSeq DEF Prose
<1> QED
  BY <1>2, <1>3, <1>5, <1>8, <1>9

LEMMA SplitWordsInProse ==
    ASSUME NEW N, NEW t \in Prose(N)
    PROVE  SplitWords(t) \in Seq(Word(N))
<1>1. PICK list, starts : /\ list = [i \in DOMAIN t |-> Cut(From(t, i), FirstWordLen(From(t, i)))]
                          /\ starts = {i \in WordsAt(t) : i = 1 \/ ~Joined(t, i - 1)}
  OBVIOUS
<1>2. t \in Seq(Tokens(N)) /\ Len(t) \in Nat /\ DOMAIN t = 1..Len(t) /\ starts \subseteq DOMAIN t
  BY <1>1 DEF Prose, WordsAt
<1>3. ASSUME NEW i \in starts PROVE list[i] \in Word(N)
  <2>1. i \in 1..Len(t) /\ IsWord(t[i])
    BY <1>1, <1>2 DEF WordsAt
  <2>2. PICK rest : rest = From(t, i)
    OBVIOUS
  <2>3. \A j \in i..Len(t) : t[j] \in Tokens(N)
    BY <1>2, <2>1
  <2>4. rest \in Seq(Tokens(N)) /\ Len(rest) = Len(t) - i + 1 /\ rest[1] = t[i]
    BY <1>2, <2>1, <2>2, <2>3, SubSeqProperties DEF From
  <2>5. rest \in Prose(N) /\ rest # <<>> /\ IsWord(rest[1])
    BY <1>2, <2>1, <2>4 DEF Prose
  <2>6. Cut(rest, FirstWordLen(rest)) \in Word(N)
    BY <2>5, FirstWordIs
  <2> QED
    BY <1>1, <1>2, <2>1, <2>2, <2>6
<1>4. Keep(list, starts) \in Seq(Word(N))
  <2>1. PICK S : S = {list[i] : i \in DOMAIN t}
    OBVIOUS
  <2>2. list \in Seq(S)
    <3>1. list = [i \in 1..Len(t) |-> list[i]] /\ \A i \in 1..Len(t) : list[i] \in S
      BY <1>1, <1>2, <2>1
    <3> QED
      BY <1>2, <3>1, IsASeq
  <2>3. PICK kept : kept = Keep(list, starts)
    OBVIOUS
  <2>4. kept \in Seq(S) /\ IsKept(kept, list, starts)
    BY <2>2, <2>3, KeepIsKept
  <2>5. Len(kept) \in Nat /\ kept = [k \in 1..Len(kept) |-> kept[k]]
    BY <2>4
  <2>6. ASSUME NEW k \in 1..Len(kept) PROVE kept[k] \in Word(N)
    <3>1. PICK i \in starts : kept[k] = list[i]
      BY <2>4 DEF IsKept
    <3> QED
      BY <1>3, <3>1
  <2>7. kept \in Seq(Word(N))
    BY <2>5, <2>6, IsASeq
  <2> QED
    BY <2>3, <2>7
<1> QED
  BY <1>1, <1>4 DEF SplitWords

LEMMA WordIsProse ==
    ASSUME NEW N
    PROVE  /\ Word(N) \subseteq Prose(N)
           /\ \A words \in Seq(Word(N)) : words \in Seq(Prose(N))
  BY DEF Word

LEMMA EmojiEndIs ==
    ASSUME NEW N, NEW t \in Prose(N), NEW i \in 1..Len(t)
    PROVE  EmojiEnd(t, i) \in i..Len(t)
<1>1. PICK S : S = {j \in i..Len(t) : \A h \in (i + 1)..j : t[h].k = "emoji"}
  OBVIOUS
<1>2. Len(t) \in Nat
  BY DEF Prose
<1>3. S \subseteq 0..Len(t) /\ S # {} /\ S \subseteq i..Len(t)
  <2>1. i \in i..Len(t) /\ \A h \in (i + 1)..i : FALSE
    BY <1>2
  <2>2. i \in S
    BY <1>1, <2>1
  <2> QED
    BY <1>1, <1>2, <2>2
<1>4. Max(S) \in S
  BY <1>2, <1>3, MaxIsIn
<1> QED
  BY <1>1, <1>3, <1>4 DEF EmojiEnd

LEMMA LeadingSentenceInProse ==
    ASSUME NEW N, NEW text \in Prose(N)
    PROVE  TakeLeadingSentence(text) \in [first : Prose(N), rest : Prose(N)]
<1>1. PICK t : t = TrimStart(text)
  OBVIOUS
<1>2. t \in Prose(N) /\ Len(t) \in Nat /\ DOMAIN t = 1..Len(t)
  BY <1>1, TrimmedInProse DEF Prose
<1> DEFINE Halves(i) == [first |-> Trimmed(Cut(t, i)), rest |-> TrimStart(From(t, i + 1))]
<1>3. ASSUME NEW i \in 0..Len(t) PROVE Halves(i) \in [first : Prose(N), rest : Prose(N)]
  <2>1. Cut(t, i) \in Prose(N) /\ From(t, i + 1) \in Prose(N)
    BY <1>2, CutInSeq DEF Prose
  <2>2. Trimmed(Cut(t, i)) \in Prose(N) /\ TrimStart(From(t, i + 1)) \in Prose(N)
    BY <2>1, TrimmedInProse
  <2> QED
    BY <2>2
<1>4. PICK ends, paras :
          ends = {i \in DOMAIN t : t[i].k \in Stops} /\ paras = {i \in DOMAIN t : t[i].k = "para"}
  OBVIOUS
<1>5. ends \subseteq 1..Len(t) /\ paras \subseteq 1..Len(t) /\ ends \subseteq Nat /\ paras \subseteq Nat
  BY <1>2, <1>4
<1>6. PICK i \in 0..Len(t) : TakeLeadingSentence(text) = Halves(i)
  <2>1. CASE ends # {}
    <3>1. Min(ends) \in 1..Len(t)
      BY <1>5, <2>1, MinIsIn
    <3>2. EmojiEnd(t, Min(ends)) \in Min(ends)..Len(t)
      BY <1>2, <3>1, EmojiEndIs
    <3>3. TakeLeadingSentence(text) = Halves(EmojiEnd(t, Min(ends)))
      BY <1>1, <1>4, <2>1 DEF TakeLeadingSentence
    <3> QED
      BY <1>2, <3>1, <3>2, <3>3
  <2>2. CASE ends = {} /\ paras # {}
    <3>1. Min(paras) \in 1..Len(t)
      BY <1>5, <2>2, MinIsIn
    <3>2. TakeLeadingSentence(text) = Halves(Min(paras))
      BY <1>1, <1>4, <2>2 DEF TakeLeadingSentence
    <3> QED
      BY <1>2, <3>1, <3>2
  <2>3. CASE ends = {} /\ paras = {}
    <3>1. TakeLeadingSentence(text) = Halves(Len(t))
      BY <1>1, <1>4, <2>3 DEF TakeLeadingSentence
    <3> QED
      BY <1>2, <3>1
  <2> QED
    BY <2>1, <2>2, <2>3
<1> QED
  BY <1>3, <1>6

LEMMA LastSentenceEndInProse ==
    ASSUME NEW N, NEW t \in Prose(N), NEW c \in SplitAtLastSentenceEnd(t)
    PROVE  c.keep \in Prose(N) /\ c.frag \in Prose(N)
<1>1. PICK ends : ends = {EmojiEnd(t, i) : i \in {j \in DOMAIN t : t[j].k \in Stops}}
  OBVIOUS
<1>2. Len(t) \in Nat /\ DOMAIN t = 1..Len(t)
  BY DEF Prose
<1>3. ends # {} /\ c = [keep |-> TrimEnd(Cut(t, Max(ends))), frag |-> TrimStart(From(t, Max(ends) + 1))]
  <2>1. c \in (IF ends = {} \/ Trimmed(From(t, Max(ends) + 1)) = <<>> THEN {}
               ELSE {[keep |-> TrimEnd(Cut(t, Max(ends))), frag |-> TrimStart(From(t, Max(ends) + 1))]})
    BY <1>1 DEF SplitAtLastSentenceEnd
  <2> QED
    BY <2>1
<1>4. ends \subseteq 0..Len(t)
  BY <1>1, <1>2, EmojiEndIs
<1>5. Max(ends) \in 0..Len(t)
  BY <1>2, <1>3, <1>4, MaxIsIn
<1>6. Cut(t, Max(ends)) \in Prose(N) /\ From(t, Max(ends) + 1) \in Prose(N)
  BY <1>5, CutInSeq DEF Prose
<1>7. TrimEnd(Cut(t, Max(ends))) \in Prose(N) /\ TrimStart(From(t, Max(ends) + 1)) \in Prose(N)
  BY <1>6, TrimmedInProse
<1> QED
  BY <1>3, <1>7

LEMMA TailInProse ==
    ASSUME NEW N, NEW t \in Prose(N), NEW n \in Nat
    PROVE  From(t, n + 1) \in Prose(N)
<1>1. Len(t) \in Int /\ n + 1 \in Nat \ {0} /\ t \in Seq(Tokens(N))
  BY DEF Prose
<1> QED
  BY <1>1, PartOfList DEF From, Prose

\* As many as fit, of any number.
LEMMA FittingIs ==
    ASSUME NEW len \in Nat, NEW fit, NEW S, S = {n \in 0..len : \A m \in 1..n : m \in fit}
    PROVE  Max(S) \in 0..len
<1>1. 0 \in S
  OBVIOUS
<1> QED
  BY <1>1, MaxIsIn

LEMMA WordsFittingIs ==
    ASSUME NEW N, NEW words \in Seq(Word(N)), NEW limit
    PROVE  WordsFitting(words, limit) \in 0..Len(words)
<1>1. PICK S, fit : /\ S = {n \in 0..Len(words) : \A m \in 1..n : FitsLimit(JoinWords(Cut(words, m)), limit)}
                    /\ fit = {m \in 1..Len(words) : FitsLimit(JoinWords(Cut(words, m)), limit)}
  OBVIOUS
<1>2. Len(words) \in Nat
  OBVIOUS
<1>3. S = {n \in 0..Len(words) : \A m \in 1..n : m \in fit}
  BY <1>1, <1>2
<1>4. Max(S) \in 0..Len(words)
  BY <1>2, <1>3, FittingIs
<1> QED
  BY <1>1, <1>4 DEF WordsFitting

LEMMA WordsOfInProse ==
    ASSUME NEW N, NEW words \in Seq(Word(N)), NEW n \in 0..Len(words)
    PROVE  JoinWords(Cut(words, n)) \in Prose(N) /\ JoinWords(From(words, n + 1)) \in Prose(N)
<1>1. Cut(words, n) \in Seq(Word(N)) /\ From(words, n + 1) \in Seq(Word(N))
  BY CutInSeq
<1>2. Cut(words, n) \in Seq(Prose(N)) /\ From(words, n + 1) \in Seq(Prose(N))
  BY <1>1, WordIsProse
<1> QED
  BY <1>2, JoinWordsInProse

LEMMA HeadAndTailInProse ==
    ASSUME NEW N, NEW word \in Word(N)
    PROVE  HeadOf(word) \in Prose(N) /\ TailOf(word) \in Prose(N)
<1>1. word \in Seq(Tokens(N)) /\ Len(word) \in Nat /\ Len(word) >= 1 /\ DOMAIN word = 1..Len(word)
  BY DEF Word, Prose
<1>2. ASSUME NEW x, x \in Tokens(N), IsWord(x), NEW kind \in TokenKinds
      PROVE  [x EXCEPT !.k = kind] \in Tokens(N)
  <2>1. x \in [k : TokenKinds, n : Nat] /\ x.n \in N
    BY <1>2 DEF Tokens
  <2>2. PICK y : y = [x EXCEPT !.k = kind]
    OBVIOUS
  <2>3. y \in [k : TokenKinds, n : Nat] /\ y.n = x.n
    BY <2>1, <2>2
  <2>4. y.n \in N
    BY <2>1, <2>3
  <2> QED
    BY <2>2, <2>3, <2>4 DEF Tokens
<1>3. "dot" \in TokenKinds /\ "head" \in TokenKinds /\ "tail" \in TokenKinds
  BY DEF TokenKinds, Written
<1>4. word[1] \in Tokens(N) /\ IsWord(word[1]) /\ word[Len(word)] \in Tokens(N) /\ IsWord(word[Len(word)])
  BY <1>1 DEF Word
<1>5. [word[1] EXCEPT !.k = "dot"] \in Tokens(N) /\ [word[1] EXCEPT !.k = "head"] \in Tokens(N)
      /\ [word[Len(word)] EXCEPT !.k = "tail"] \in Tokens(N)
  BY <1>2, <1>3, <1>4
<1>6. HeadOf(word) = <<[word[1] EXCEPT !.k = "dot"]>> \/ HeadOf(word) = <<[word[1] EXCEPT !.k = "head"]>>
  BY DEF HeadOf
<1>7. TailOf(word) = <<[word[Len(word)] EXCEPT !.k = "tail"]>>
  BY DEF TailOf
<1>8. \A x \in Tokens(N) : <<x>> \in Prose(N)
  BY DEF Prose
<1>9. HeadOf(word) \in Prose(N)
  BY <1>5, <1>6, <1>8
<1> QED
  BY <1>5, <1>7, <1>8, <1>9

LEMMA TrimToLimitInProse ==
    ASSUME NEW N, NEW t \in Prose(N), NEW limit
    PROVE  TrimToLimit(t, limit) \in Prose(N)
<1>1. PICK words, n : words = SplitWords(t) /\ n = WordsFitting(words, limit)
  OBVIOUS
<1>2. words \in Seq(Word(N)) /\ n \in 0..Len(words)
  BY <1>1, SplitWordsInProse, WordsFittingIs
<1>3. \/ TrimToLimit(t, limit) = Trimmed(t)
      \/ TrimToLimit(t, limit) = JoinWords(Cut(words, n))
      \/ TrimToLimit(t, limit) = <<>>
      \/ words # <<>> /\ TrimToLimit(t, limit) = HeadOf(words[1])
  BY <1>1 DEF TrimToLimit
<1>4. CASE TrimToLimit(t, limit) = Trimmed(t)
  BY <1>4, TrimmedInProse
<1>5. CASE TrimToLimit(t, limit) = JoinWords(Cut(words, n))
  BY <1>2, <1>5, WordsOfInProse
<1>6. CASE TrimToLimit(t, limit) = <<>>
  BY <1>6 DEF Prose
<1>7. CASE words # <<>> /\ TrimToLimit(t, limit) = HeadOf(words[1])
  <2>1. words[1] \in Word(N)
    BY <1>2, <1>7
  <2> QED
    BY <1>7, <2>1, HeadAndTailInProse
<1> QED
  BY <1>3, <1>4, <1>5, <1>6, <1>7

\* What is cut off fits, or is nothing of a text without words.
LEMMA CutOffHasWords ==
    ASSUME NEW N, NEW t \in Prose(N), NEW limit, ~FitsLimit(t, limit),
           WordsFitting(SplitWords(t), limit) = 0, TrimToLimit(t, limit) # <<>>
    PROVE  SplitWords(t) # <<>>
  BY DEF TrimToLimit

LEMMA DanglingTailIs ==
    ASSUME NEW N, NEW words \in Seq(Word(N)), NEW n \in 0..Len(words)
    PROVE  TrimDanglingPrefixTail(words, n) \in 0..Len(words)
<1>1. PICK S : S = {m \in 0..n : m = 0 \/ words[m][1].k # "art"}
  OBVIOUS
<1>2. S \subseteq 0..n /\ 0 \in S /\ n \in Nat
  BY <1>1
<1>3. Max(S) \in 0..n
  BY <1>2, MaxIsIn
<1> QED
  BY <1>1, <1>3 DEF TrimDanglingPrefixTail

Parts(N) == [piece : Prose(N), rest : Prose(N)]

LEMMA PartIs ==
    ASSUME NEW N, NEW a \in Prose(N), NEW b \in Prose(N)
    PROVE  [piece |-> a, rest |-> b] \in Parts(N)
  BY DEF Parts

LEMMA NoProse ==
    ASSUME NEW N
    PROVE  <<>> \in Prose(N) /\ <<>> \in Seq(Prose(N))
  BY DEF Prose

LEMMA CutBetweenInProse ==
    ASSUME NEW N, NEW t \in Prose(N), NEW words \in Seq(Word(N)), NEW fit, NEW n \in 0..Len(words),
           NEW cut \in Prose(N), cut = <<>> \/ words # <<>> \/ fit > 0
    PROVE  CutBetweenWords(t, words, fit, n, cut) \in Parts(N)
<1>1. CASE n > 0
  BY <1>1, WordsOfInProse, PartIs DEF CutBetweenWords
<1>2. CASE ~(n > 0) /\ fit > 0
  <2>1. TrimStart(From(t, Len(cut) + 1)) \in Prose(N)
    <3>1. From(t, Len(cut) + 1) \in Prose(N)
      BY TailInProse DEF Prose
    <3> QED
      BY <3>1, TrimmedInProse
  <2>2. PICK rest : rest = IF Cut(t, Len(cut)) = cut THEN TrimStart(From(t, Len(cut) + 1)) ELSE <<>>
    OBVIOUS
  <2>3. rest \in Prose(N)
    BY <2>1, <2>2, NoProse
  <2>4. CutBetweenWords(t, words, fit, n, cut) = [piece |-> cut, rest |-> rest]
    BY <1>2, <2>2 DEF CutBetweenWords
  <2> QED
    BY <2>3, <2>4, PartIs
<1>3. CASE ~(n > 0) /\ ~(fit > 0) /\ cut = <<>>
  BY <1>3, PartIs DEF CutBetweenWords
<1>4. CASE ~(n > 0) /\ ~(fit > 0) /\ cut # <<>>
  <2>1. words[1] \in Word(N)
    BY <1>4
  <2>2. Len(words[1]) \in Nat
    BY <2>1 DEF Word, Prose
  <2>4. From(t, Len(words[1]) + 1) \in Prose(N)
    BY <2>2, TailInProse
  <2>5. TailOf(words[1]) \o From(t, Len(words[1]) + 1) \in Prose(N)
    BY <2>1, <2>4, HeadAndTailInProse, JoinInSeq DEF Prose
  <2> QED
    BY <1>4, <2>5, PartIs DEF CutBetweenWords
<1> QED
  BY <1>1, <1>2, <1>3, <1>4

LEMMA WordPrefixInProse ==
    ASSUME NEW N, NEW text \in Prose(N), NEW limit
    PROVE  SplitWordPrefix(text, limit) \in Parts(N)
<1>1. PICK t, words : t = Trimmed(text) /\ words = SplitWords(t)
  OBVIOUS
<1>2. PICK fit, cut : fit = WordsFitting(words, limit) /\ cut = TrimToLimit(t, limit)
  OBVIOUS
<1>3. t \in Prose(N) /\ words \in Seq(Word(N)) /\ fit \in 0..Len(words) /\ cut \in Prose(N)
  BY <1>1, <1>2, TrimmedInProse, SplitWordsInProse, WordsFittingIs, TrimToLimitInProse
<1>4. CASE FitsLimit(t, limit)
  <2>1. SplitWordPrefix(text, limit) = [piece |-> t, rest |-> <<>>]
    BY <1>1, <1>4 DEF SplitWordPrefix
  <2> QED
    BY <1>3, <2>1, NoProse, PartIs
<1>5. CASE ~FitsLimit(t, limit)
  <2>1. PICK n : n = TrimDanglingPrefixTail(words, fit)
    OBVIOUS
  <2>2. n \in 0..Len(words)
    BY <1>3, <2>1, DanglingTailIs
  <2>3. SplitWordPrefix(text, limit) = CutBetweenWords(t, words, fit, n, cut)
    BY <1>1, <1>2, <1>5, <2>1 DEF SplitWordPrefix
  <2>4. cut = <<>> \/ words # <<>> \/ fit > 0
    BY <1>1, <1>2, <1>3, <1>5, CutOffHasWords
  <2> QED
    BY <1>3, <2>2, <2>3, <2>4, CutBetweenInProse
<1> QED
  BY <1>4, <1>5

LEMMA TakeSentenceInProse ==
    ASSUME NEW N, NEW part \in Parts(N), NEW limit
    PROVE  TakeSentence(part, limit) \in Parts(N)
<1>1. PICK next : next = TakeLeadingSentence(part.rest)
  OBVIOUS
<1>2. part.piece \in Prose(N) /\ part.rest \in Prose(N)
  BY DEF Parts
<1>3. next.first \in Prose(N) /\ next.rest \in Prose(N)
  BY <1>1, <1>2, LeadingSentenceInProse
<1>4. [piece |-> AfterSpace(part.piece, next.first), rest |-> next.rest] \in Parts(N)
  BY <1>2, <1>3, AfterInProse, PartIs
<1> QED
  BY <1>1, <1>4 DEF TakeSentence

LEMMA SentencesRuns ==
    ASSUME NEW N, NEW t \in Prose(N), NEW limit
    PROVE  \E run : /\ run[0].piece = <<>> /\ run[0].rest = t /\ run[Len(t)] = SentencesFitting(t, limit)
                    /\ \A n \in 0..Len(t) : run[n] \in Parts(N)
                    /\ \A n \in 1..Len(t) : run[n] = TakeSentence(run[n - 1], limit)
<1>1. PICK len, X, base : len = Len(t) /\ X = Parts(N) /\ base = [piece |-> <<>>, rest |-> t]
  OBVIOUS
<1>2. len \in Nat /\ base \in X
  <2>1. len \in Nat
    BY <1>1 DEF Prose
  <2>2. base \in X
    BY <1>1, NoProse, PartIs
  <2> QED
    BY <2>1, <2>2
<1>3. ASSUME NEW x \in X, NEW n \in 1..len PROVE TakeSentence(x, limit) \in X
  BY <1>1, TakeSentenceInProse
<1>4. PICK step : step = [p \in X \X (1..len) |-> TakeSentence(p[1], limit)]
  OBVIOUS
<1>5. step \in [X \X (1..len) -> X]
  <2>1. \A p \in X \X (1..len) : p[1] \in X /\ p[2] \in 1..len
    OBVIOUS
  <2>2. \A p \in X \X (1..len) : step[p] \in X
    BY <1>3, <1>4, <2>1
  <2> QED
    BY <1>4, <2>2
<1>6. PICK f \in [0..len -> X] : f[0] = base /\ \A n \in 1..len : f[n] = step[<<f[n - 1], n>>]
  <2>1. PICK f : IsLoop(f, len, X, base, step)
    BY <1>2, <1>5, LoopExists
  <2> QED
    BY <2>1 DEF IsLoop
<1> DEFINE Loop(g) == g = [n \in 0..len |->
                  IF n = 0 THEN [piece |-> <<>>, rest |-> t] ELSE TakeSentence(g[n - 1], limit)]
<1>7. Loop(f)
  <2>1. ASSUME NEW n \in 1..len PROVE f[n] = TakeSentence(f[n - 1], limit)
    <3>1. <<f[n - 1], n>> \in X \X (1..len)
      BY <1>2
    <3> QED
      BY <1>4, <1>6, <3>1
  <2>2. ASSUME NEW n \in 0..len
        PROVE  f[n] = IF n = 0 THEN [piece |-> <<>>, rest |-> t] ELSE TakeSentence(f[n - 1], limit)
    BY <1>1, <1>2, <1>6, <2>1
  <2> QED
    BY <2>2
<1>8. PICK g : Loop(g) /\ SentencesFitting(t, limit) = g[len]
  <2>1. SentencesFitting(t, limit) = (CHOOSE g : Loop(g))[len]
    BY <1>1 DEF SentencesFitting
  <2> HIDE DEF Loop
  <2> QED
    BY <1>7, <2>1
<1>9. ASSUME NEW n \in 1..len, g[n - 1] \in X PROVE g[n] \in X
  <2>1. g[n] = TakeSentence(g[n - 1], limit)
    BY <1>2, <1>8
  <2> QED
    BY <1>3, <1>9, <2>1
<1>10. g[0] \in X
  BY <1>1, <1>2, <1>8
<1>11. \A n \in 0..len : g[n] \in X
  <2> HIDE DEF Loop
  <2> QED
    BY <1>2, <1>9, <1>10, LoopStays
<1>12. g[0].piece = <<>> /\ g[0].rest = t /\ g[len] = SentencesFitting(t, limit)
  BY <1>1, <1>2, <1>8
<1>13. ASSUME NEW n \in 1..len PROVE g[n] = TakeSentence(g[n - 1], limit)
  BY <1>2, <1>8
<1> HIDE DEF Loop
<1> QED
  BY <1>1, <1>11, <1>12, <1>13

LEMMA SentencesInProse ==
    ASSUME NEW N, NEW t \in Prose(N), NEW limit
    PROVE  SentencesFitting(t, limit) \in Parts(N)
<1>1. PICK len : len = Len(t)
  OBVIOUS
<1>2. len \in Nat /\ len \in 0..len
  BY <1>1 DEF Prose
<1>3. PICK run : /\ run[Len(t)] = SentencesFitting(t, limit)
                 /\ \A n \in 0..Len(t) : run[n] \in Parts(N)
  BY SentencesRuns
<1> QED
  BY <1>1, <1>2, <1>3

LEMMA SentencePrefixInProse ==
    ASSUME NEW N, NEW t \in Prose(N), NEW limit
    PROVE  TakeSentencePrefix(t, limit) \in Parts(N)
<1>1. [piece |-> <<>>, rest |-> t] \in Parts(N) /\ [piece |-> t, rest |-> <<>>] \in Parts(N)
  BY NoProse, PartIs
<1>2. SentencesFitting(t, limit) \in Parts(N)
  BY SentencesInProse
<1> QED
  BY <1>1, <1>2 DEF TakeSentencePrefix

-----------------------------------------------------------------------------
(* The root and what is left.                                                 *)

Halves(N) == [root : Prose(N), left : Prose(N)]

LEMMA SplitIs ==
    ASSUME NEW N, NEW a \in Prose(N), NEW b \in Prose(N)
    PROVE  [root |-> a, left |-> b] \in Halves(N)
  BY DEF Halves

LEMMA BeatsOfInProse ==
    ASSUME NEW N, NEW beats \in Seq(Prose(N)), NEW n \in 0..Len(beats)
    PROVE  JoinBeats(Cut(beats, n)) \in Prose(N) /\ From(beats, n + 1) \in Seq(Prose(N))
<1>1. Cut(beats, n) \in Seq(Prose(N)) /\ From(beats, n + 1) \in Seq(Prose(N))
  BY CutInSeq
<1> QED
  BY <1>1, JoinBeatsInProse

LEMMA SentencesOfBeatInProse ==
    ASSUME NEW N, NEW kept \in Prose(N), NEW part \in Parts(N), NEW beats \in Seq(Prose(N)), beats # <<>>
    PROVE  SentencesOfBeat(kept, part, beats) \in Halves(N)
<1>1. part.piece \in Prose(N) /\ part.rest \in Prose(N)
  BY DEF Parts
<1>2. beats[1] \in Prose(N) /\ Tail(beats) \in Seq(Prose(N))
  OBVIOUS
<1>3. JoinBeats(Tail(beats)) \in Prose(N) /\ JoinBeats(beats) \in Prose(N)
  BY <1>2, JoinBeatsInProse
<1>4. [root |-> AfterPara(kept, part.piece), left |-> AfterPara(part.rest, JoinBeats(Tail(beats)))] \in Halves(N)
  BY <1>1, <1>3, AfterInProse, SplitIs
<1>5. [root |-> TrimToLimit(beats[1], XCharLimit), left |-> JoinBeats(Tail(beats))] \in Halves(N)
  BY <1>2, <1>3, TrimToLimitInProse, SplitIs
<1>6. [root |-> kept, left |-> JoinBeats(beats)] \in Halves(N)
  BY <1>3, SplitIs
<1> QED
  BY <1>4, <1>5, <1>6 DEF SentencesOfBeat

LEMMA BeatsFittingIs ==
    ASSUME NEW N, NEW beats \in Seq(Prose(N))
    PROVE  BeatsFitting(beats) \in 0..Len(beats)
<1>1. PICK S, fit : /\ S = {n \in 0..Len(beats) : \A m \in 1..n : FitsX(JoinBeats(Cut(beats, m)))}
                    /\ fit = {m \in 1..Len(beats) : FitsX(JoinBeats(Cut(beats, m)))}
  OBVIOUS
<1>2. Len(beats) \in Nat
  OBVIOUS
<1>3. S = {n \in 0..Len(beats) : \A m \in 1..n : m \in fit}
  BY <1>1, <1>2
<1>4. Max(S) \in 0..Len(beats)
  BY <1>2, <1>3, FittingIs
<1> QED
  BY <1>1, <1>4 DEF BeatsFitting

LEMMA TakeBeatsInProse ==
    ASSUME NEW N, NEW head \in Prose(N)
    PROVE  TakeBeatsFitting(head) \in Halves(N)
<1>1. PICK beats, n : beats = Beats(head) /\ n = BeatsFitting(beats)
  OBVIOUS
<1>2. beats \in Seq(Prose(N)) /\ n \in 0..Len(beats) /\ Len(beats) \in Nat
  BY <1>1, BeatsInProse, BeatsFittingIs
<1>3. PICK kept : kept = JoinBeats(Cut(beats, n))
  OBVIOUS
<1>4. kept \in Prose(N)
  BY <1>2, <1>3, BeatsOfInProse
<1>5. CASE n = Len(beats)
  <2>1. TakeBeatsFitting(head) = [root |-> kept, left |-> <<>>]
    BY <1>1, <1>3, <1>5 DEF TakeBeatsFitting
  <2> QED
    BY <1>4, <2>1, NoProse, SplitIs
<1>6. CASE n # Len(beats)
  <2>1. beats[n + 1] \in Prose(N)
    BY <1>2, <1>6
  <2>2. PICK rest, part : /\ rest = From(beats, n + 1)
                          /\ part = TakeSentencePrefix(beats[n + 1], RemainingAfter(kept))
    OBVIOUS
  <2>3. part \in Parts(N)
    BY <2>1, <2>2, SentencePrefixInProse
  <2>4. rest \in Seq(Prose(N))
    BY <1>2, <2>2, BeatsOfInProse
  <2>5. rest # <<>>
    <3>1. \A i \in (n + 1)..Len(beats) : beats[i] \in Prose(N)
      BY <1>2
    <3>2. Len(rest) = Len(beats) - (n + 1) + 1
      BY <1>2, <1>6, <2>2, <3>1, SubSeqProperties DEF From
    <3> QED
      BY <1>2, <1>6, <3>2
  <2>6. TakeBeatsFitting(head) = SentencesOfBeat(kept, part, rest)
    BY <1>1, <1>3, <1>6, <2>2 DEF TakeBeatsFitting
  <2> QED
    BY <1>4, <2>3, <2>4, <2>5, <2>6, SentencesOfBeatInProse
<1> QED
  BY <1>5, <1>6

LEMMA DroppedInProse ==
    ASSUME NEW N, NEW head \in Prose(N)
    PROVE  FitByDroppingBeats(head) \in Prose(N)
<1>1. PICK beats, fit : /\ beats = Beats(head)
                        /\ fit = {n \in 1..(Len(beats) - 1) : FitsX(JoinBeats(Cut(beats, n)))}
  OBVIOUS
<1>2. beats \in Seq(Prose(N)) /\ Len(beats) \in Nat
  BY <1>1, BeatsInProse
<1>3. CASE beats = <<>>
  BY <1>1, <1>3, NoProse DEF FitByDroppingBeats, DropBeats
<1>4. CASE beats # <<>> /\ fit = {}
  <2>1. beats[1] \in Prose(N)
    BY <1>2, <1>4
  <2>2. TrimToLimit(beats[1], XCharLimit) \in Prose(N)
    BY <2>1, TrimToLimitInProse
  <2>3. DropBeats(beats) = TrimToLimit(beats[1], XCharLimit)
    BY <1>1, <1>4 DEF DropBeats
  <2> QED
    BY <1>1, <2>2, <2>3 DEF FitByDroppingBeats
<1>5. CASE beats # <<>> /\ fit # {}
  <2>1. fit \subseteq 0..Len(beats)
    BY <1>1, <1>2
  <2>2. Max(fit) \in 0..Len(beats)
    BY <1>2, <1>5, <2>1, MaxIsIn
  <2>3. JoinBeats(Cut(beats, Max(fit))) \in Prose(N)
    BY <1>2, <2>2, BeatsOfInProse
  <2>4. DropBeats(beats) = JoinBeats(Cut(beats, Max(fit)))
    BY <1>1, <1>5 DEF DropBeats
  <2> QED
    BY <1>1, <2>3, <2>4 DEF FitByDroppingBeats
<1> QED
  BY <1>3, <1>4, <1>5

LEMMA GrowWithChunkInProse ==
    ASSUME NEW N, NEW r \in Halves(N), NEW chunk \in Prose(N), NEW rest \in Prose(N)
    PROVE  GrowWithChunk(r, chunk, rest) \in Halves(N)
<1>1. r.root \in Prose(N) /\ r.left \in Prose(N)
  BY DEF Halves
<1>2. [root |-> AfterSpace(r.root, chunk), left |-> rest] \in Halves(N)
  BY <1>1, AfterInProse, SplitIs
<1>3. ASSUME NEW part \in Parts(N) PROVE GrowWithPart(r, part, rest) \in Halves(N)
  <2>1. part.piece \in Prose(N) /\ part.rest \in Prose(N)
    BY DEF Parts
  <2>2. [root |-> AfterSpace(r.root, part.piece), left |-> AfterPara(part.rest, rest)] \in Halves(N)
    BY <1>1, <2>1, AfterInProse, SplitIs
  <2> QED
    BY <2>2 DEF GrowWithPart
<1>4. GrowWithPart(r, SplitWordPrefix(chunk, RoomAfter(r.root)), rest) \in Halves(N)
  BY <1>3, WordPrefixInProse
<1> QED
  BY <1>2, <1>4 DEF GrowWithChunk

\* A text with something left of it when it is trimmed starts with a word then.
LEMMA TrimmedStarts ==
    ASSUME NEW N, NEW t \in Prose(N), Trimmed(t) # <<>>
    PROVE  TrimStart(t) # <<>> /\ IsWord(TrimStart(t)[1])
<1>1. t \in Seq(Tokens(N)) /\ Len(t) \in Nat /\ WordsAt(t) \subseteq 1..Len(t) /\ WordsAt(t) \subseteq Nat
  BY WordsAtAre DEF Prose
<1>2. WordsAt(t) # {}
  <2>1. SUFFICES ASSUME WordsAt(t) = {} PROVE FALSE
    OBVIOUS
  <2>2. TrimEnd(t) = <<>>
    BY <2>1 DEF TrimEnd
  <2>3. WordsAt(<<>>) = {}
    BY DEF WordsAt
  <2>4. Trimmed(t) = <<>>
    BY <2>2, <2>3 DEF Trimmed, TrimStart
  <2> QED
    BY <2>4
<1>3. PICK i : i = Min(WordsAt(t))
  OBVIOUS
<1>4. i \in WordsAt(t) /\ i \in 1..Len(t)
  BY <1>1, <1>2, <1>3, MinIsIn
<1>5. IsWord(t[i])
  BY <1>4 DEF WordsAt
<1>6. PICK s : s = SubSeq(t, i, Len(t))
  OBVIOUS
<1>7. \A j \in i..Len(t) : t[j] \in Tokens(N)
  BY <1>1, <1>4
<1>8. s \in Seq(Tokens(N)) /\ Len(s) = Len(t) - i + 1 /\ s[1] = t[i]
  BY <1>1, <1>4, <1>6, <1>7, SubSeqProperties
<1>9. TrimStart(t) = s
  BY <1>2, <1>3, <1>6 DEF TrimStart, From
<1> QED
  BY <1>1, <1>4, <1>5, <1>8, <1>9

LEMMA GrowOnInProse ==
    ASSUME NEW N, NEW r \in Halves(N), NEW trailer
    PROVE  GrowOn(r, trailer) \in Halves(N)
<1>1. r.root \in Prose(N) /\ r.left \in Prose(N)
  BY DEF Halves
<1>2. CASE Trimmed(r.left) = <<>> \/ ReplyFits(r.left, trailer)
  BY <1>2 DEF GrowOn
<1>3. CASE Trimmed(r.left) # <<>> /\ ~ReplyFits(r.left, trailer)
  <2>1. PICK left, n : left = TrimStart(r.left) /\ n = FirstWordLen(left)
    OBVIOUS
  <2>2. left \in Prose(N) /\ left # <<>> /\ IsWord(left[1])
    BY <1>1, <1>3, <2>1, TrimmedInProse, TrimmedStarts
  <2>3. Cut(left, n) \in Prose(N) /\ From(left, n + 1) \in Prose(N)
    BY <2>1, <2>2, FirstWordIs, WordIsProse
  <2>4. [root |-> AfterSpace(r.root, Cut(left, n)), left |-> TrimStart(From(left, n + 1))] \in Halves(N)
    BY <1>1, <2>3, AfterInProse, TrimmedInProse, SplitIs
  <2>5. GrowWithWord(r) \in Halves(N)
    BY <2>1, <2>4 DEF GrowWithWord
  <2>6. PICK next : next = TakeLeadingSentence(r.left)
    OBVIOUS
  <2>7. next.first \in Prose(N) /\ next.rest \in Prose(N)
    BY <1>1, <2>6, LeadingSentenceInProse
  <2>8. GrowWithChunk(r, next.first, next.rest) \in Halves(N)
    BY <2>7, GrowWithChunkInProse
  <2>9. GrowOnce(r) \in Halves(N)
    BY <2>5, <2>6, <2>8 DEF GrowOnce
  <2> QED
    BY <1>3, <2>9 DEF GrowOn
<1> QED
  BY <1>2, <1>3

LEMMA GrowRootRuns ==
    ASSUME NEW N, NEW r \in Halves(N), NEW trailer
    PROVE  \E run : /\ run[0] = r /\ run[XCharLimit + 1] = GrowRoot(r, trailer)
                    /\ \A n \in 0..(XCharLimit + 1) : run[n] \in Halves(N)
                    /\ \A n \in 1..(XCharLimit + 1) : run[n] = GrowOn(run[n - 1], trailer)
<1>1. PICK len, X, base : len = XCharLimit + 1 /\ X = Halves(N) /\ base = r
  OBVIOUS
<1>2. len \in Nat /\ base \in X
  BY <1>1, XThreadAssumption
<1>3. ASSUME NEW x \in X, NEW n \in 1..len PROVE GrowOn(x, trailer) \in X
  BY <1>1, GrowOnInProse
<1>4. PICK step : step = [p \in X \X (1..len) |-> GrowOn(p[1], trailer)]
  OBVIOUS
<1>5. step \in [X \X (1..len) -> X]
  <2>1. \A p \in X \X (1..len) : p[1] \in X /\ p[2] \in 1..len
    OBVIOUS
  <2>2. \A p \in X \X (1..len) : step[p] \in X
    BY <1>3, <1>4, <2>1
  <2> QED
    BY <1>4, <2>2
<1>6. PICK f \in [0..len -> X] : f[0] = base /\ \A n \in 1..len : f[n] = step[<<f[n - 1], n>>]
  <2>1. PICK f : IsLoop(f, len, X, base, step)
    BY <1>2, <1>5, LoopExists
  <2> QED
    BY <2>1 DEF IsLoop
<1> DEFINE Loop(g) == g = [n \in 0..len |-> IF n = 0 THEN r ELSE GrowOn(g[n - 1], trailer)]
<1>7. Loop(f)
  <2>1. ASSUME NEW n \in 1..len PROVE f[n] = GrowOn(f[n - 1], trailer)
    <3>1. <<f[n - 1], n>> \in X \X (1..len)
      BY <1>2
    <3> QED
      BY <1>4, <1>6, <3>1
  <2>2. ASSUME NEW n \in 0..len PROVE f[n] = IF n = 0 THEN r ELSE GrowOn(f[n - 1], trailer)
    BY <1>1, <1>2, <1>6, <2>1
  <2> QED
    BY <2>2
<1>8. PICK g : Loop(g) /\ GrowRoot(r, trailer) = g[len]
  <2>1. GrowRoot(r, trailer) = (CHOOSE g : Loop(g))[len]
    BY <1>1 DEF GrowRoot
  <2> HIDE DEF Loop
  <2> QED
    BY <1>7, <2>1
<1>9. ASSUME NEW n \in 1..len, g[n - 1] \in X PROVE g[n] \in X
  <2>1. g[n] = GrowOn(g[n - 1], trailer)
    BY <1>2, <1>8
  <2> QED
    BY <1>3, <1>9, <2>1
<1>10. g[0] \in X
  BY <1>1, <1>2, <1>8
<1>11. \A n \in 0..len : g[n] \in X
  <2> HIDE DEF Loop
  <2> QED
    BY <1>2, <1>9, <1>10, LoopStays
<1>12. g[0] = base /\ g[len] = GrowRoot(r, trailer)
  BY <1>1, <1>2, <1>8
<1>13. ASSUME NEW n \in 1..len PROVE g[n] = GrowOn(g[n - 1], trailer)
  BY <1>2, <1>8
<1> HIDE DEF Loop
<1> QED
  BY <1>1, <1>11, <1>12, <1>13

LEMMA GrowRootInProse ==
    ASSUME NEW N, NEW r \in Halves(N), NEW trailer
    PROVE  GrowRoot(r, trailer) \in Halves(N)
<1>1. PICK len : len = (XCharLimit + 1)
  OBVIOUS
<1>2. len \in Nat /\ len \in 0..len
  BY <1>1, XThreadAssumption
<1> QED
  BY <1>1, <1>2, GrowRootRuns

LEMMA GiveBackInProse ==
    ASSUME NEW N, NEW r \in Halves(N), NEW trailer
    PROVE  GiveBack(r, trailer) \in Halves(N)
<1>1. r.root \in Prose(N) /\ r.left \in Prose(N)
  BY DEF Halves
<1>2. CASE r.root = <<>>
  BY <1>2 DEF GiveBack
<1>3. CASE r.root # <<>>
  <2>1. Len(r.root) \in Nat \ {0} /\ r.root \in Seq(Tokens(N))
    BY <1>1, <1>3 DEF Prose
  <2>2. Last(r.root) \in Tokens(N)
    BY <2>1 DEF Last
  <2>3. <<Last(r.root)>> \in Prose(N)
    BY <2>2 DEF Prose
  <2>4. <<Last(r.root)>> \o Trimmed(r.left) \in Prose(N)
    BY <1>1, <2>3, TrimmedInProse, JoinInSeq DEF Prose
  <2>5. SubSeq(r.root, 1, Len(r.root) - 1) \in Seq(Tokens(N))
    BY <2>1, PartOfList
  <2>6. Front(r.root) \in Prose(N)
    BY <2>5 DEF Front, Prose
  <2>7. [root |-> TrimEnd(Front(r.root)), left |-> <<Last(r.root)>> \o Trimmed(r.left)] \in Halves(N)
    BY <2>4, <2>6, TrimmedInProse, SplitIs
  <2> QED
    BY <2>7 DEF GiveBack
<1> QED
  BY <1>2, <1>3

LEMMA RebalanceRuns ==
    ASSUME NEW N, NEW r \in Halves(N), NEW trailer
    PROVE  \E run : /\ run[0] = r /\ run[Len(r.root)] = RebalanceDanglingTail(r, trailer)
                    /\ \A n \in 0..Len(r.root) : run[n] \in Halves(N)
                    /\ \A n \in 1..Len(r.root) : run[n] = GiveBack(run[n - 1], trailer)
<1>1. PICK len, X, base : len = Len(r.root) /\ X = Halves(N) /\ base = r
  OBVIOUS
<1>2. len \in Nat /\ base \in X
  BY <1>1 DEF Halves, Prose
<1>3. ASSUME NEW x \in X, NEW n \in 1..len PROVE GiveBack(x, trailer) \in X
  BY <1>1, GiveBackInProse
<1>4. PICK step : step = [p \in X \X (1..len) |-> GiveBack(p[1], trailer)]
  OBVIOUS
<1>5. step \in [X \X (1..len) -> X]
  <2>1. \A p \in X \X (1..len) : p[1] \in X /\ p[2] \in 1..len
    OBVIOUS
  <2>2. \A p \in X \X (1..len) : step[p] \in X
    BY <1>3, <1>4, <2>1
  <2> QED
    BY <1>4, <2>2
<1>6. PICK f \in [0..len -> X] : f[0] = base /\ \A n \in 1..len : f[n] = step[<<f[n - 1], n>>]
  <2>1. PICK f : IsLoop(f, len, X, base, step)
    BY <1>2, <1>5, LoopExists
  <2> QED
    BY <2>1 DEF IsLoop
<1> DEFINE Loop(g) == g = [n \in 0..len |-> IF n = 0 THEN r ELSE GiveBack(g[n - 1], trailer)]
<1>7. Loop(f)
  <2>1. ASSUME NEW n \in 1..len PROVE f[n] = GiveBack(f[n - 1], trailer)
    <3>1. <<f[n - 1], n>> \in X \X (1..len)
      BY <1>2
    <3> QED
      BY <1>4, <1>6, <3>1
  <2>2. ASSUME NEW n \in 0..len PROVE f[n] = IF n = 0 THEN r ELSE GiveBack(f[n - 1], trailer)
    BY <1>1, <1>2, <1>6, <2>1
  <2> QED
    BY <2>2
<1>8. PICK g : Loop(g) /\ RebalanceDanglingTail(r, trailer) = g[len]
  <2>1. RebalanceDanglingTail(r, trailer) = (CHOOSE g : Loop(g))[len]
    BY <1>1 DEF RebalanceDanglingTail
  <2> HIDE DEF Loop
  <2> QED
    BY <1>7, <2>1
<1>9. ASSUME NEW n \in 1..len, g[n - 1] \in X PROVE g[n] \in X
  <2>1. g[n] = GiveBack(g[n - 1], trailer)
    BY <1>2, <1>8
  <2> QED
    BY <1>3, <1>9, <2>1
<1>10. g[0] \in X
  BY <1>1, <1>2, <1>8
<1>11. \A n \in 0..len : g[n] \in X
  <2> HIDE DEF Loop
  <2> QED
    BY <1>2, <1>9, <1>10, LoopStays
<1>12. g[0] = base /\ g[len] = RebalanceDanglingTail(r, trailer)
  BY <1>1, <1>2, <1>8
<1>13. ASSUME NEW n \in 1..len PROVE g[n] = GiveBack(g[n - 1], trailer)
  BY <1>2, <1>8
<1> HIDE DEF Loop
<1> QED
  BY <1>1, <1>11, <1>12, <1>13

LEMMA RebalanceInProse ==
    ASSUME NEW N, NEW r \in Halves(N), NEW trailer
    PROVE  RebalanceDanglingTail(r, trailer) \in Halves(N)
<1>1. PICK len : len = Len(r.root)
  OBVIOUS
<1>2. len \in Nat /\ len \in 0..len
  BY <1>1 DEF Halves, Prose
<1> QED
  BY <1>1, <1>2, RebalanceRuns

LEMMA PeelTailInProse ==
    ASSUME NEW N, NEW r \in Halves(N), NEW trailer
    PROVE  PeelIncompleteTail(r, trailer) \in Halves(N)
<1>1. r.root \in Prose(N) /\ r.left \in Prose(N)
  BY DEF Halves
<1>2. PICK cuts : cuts = IF EndsSentence(r.root) THEN {} ELSE SplitAtLastSentenceEnd(r.root)
  OBVIOUS
<1>3. ASSUME NEW c \in cuts
      PROVE  [root |-> c.keep, left |-> AfterPara(c.frag, Trimmed(r.left))] \in Halves(N)
  <2>1. c \in SplitAtLastSentenceEnd(r.root)
    BY <1>2
  <2>2. c.keep \in Prose(N) /\ c.frag \in Prose(N)
    BY <1>1, <2>1, LastSentenceEndInProse
  <2> QED
    BY <1>1, <2>2, TrimmedInProse, AfterInProse, SplitIs
<1>4. \/ PeelIncompleteTail(r, trailer) = r
      \/ \E c \in cuts : PeelIncompleteTail(r, trailer)
                                  = [root |-> c.keep, left |-> AfterPara(c.frag, Trimmed(r.left))]
  <2>1. CASE cuts = {}
    BY <1>2, <2>1 DEF PeelIncompleteTail
  <2>2. CASE cuts # {}
    <3>1. PICK c : c = CHOOSE d \in cuts : TRUE
      OBVIOUS
    <3>2. c \in cuts
      BY <2>2, <3>1
    <3>3. PeelIncompleteTail(r, trailer) = r
          \/ PeelIncompleteTail(r, trailer) = [root |-> c.keep, left |-> AfterPara(c.frag, Trimmed(r.left))]
      BY <1>2, <3>1 DEF PeelIncompleteTail
    <3> QED
      BY <3>2, <3>3
  <2> QED
    BY <2>1, <2>2
<1> QED
  BY <1>3, <1>4

-----------------------------------------------------------------------------
(* The texts of a thread.                                                     *)

\* One text or two.
Thread(N) == {texts \in Seq(Prose(N)) : Len(texts) <= 2}

LEMMA TwoTexts ==
    ASSUME NEW N, NEW a \in Prose(N), NEW places
    PROVE  /\ <<a>> \in Thread(N) /\ <<>> \in Thread(N)
           /\ \A b \in Prose(N) : Keep(<<a, b>>, places) \in Thread(N)
<1>1. <<a>> \in Thread(N) /\ <<>> \in Thread(N)
  BY DEF Thread
<1>2. ASSUME NEW b \in Prose(N) PROVE Keep(<<a, b>>, places) \in Thread(N)
  <2>1. PICK two, kept : two = <<a, b>> /\ kept = Keep(two, places)
    OBVIOUS
  <2>2. two \in Seq(Prose(N)) /\ DOMAIN two = 1..2
    BY <2>1
  <2>3. kept \in Seq(Prose(N)) /\ IsKept(kept, two, places)
    BY <2>1, <2>2, KeepIsKept
  <2>4. PICK at \in [1..Len(kept) -> places \cap DOMAIN two] : \A j, k \in 1..Len(kept) : j < k => at[j] < at[k]
    BY <2>3 DEF IsKept
  <2>5. Len(kept) \in Nat
    BY <2>3
  <2>6. Len(kept) <= 2
    <3>1. SUFFICES ASSUME Len(kept) > 2 PROVE FALSE
      BY <2>5
    <3>2. 1 \in 1..Len(kept) /\ 2 \in 1..Len(kept) /\ 3 \in 1..Len(kept)
      BY <2>5, <3>1
    <3>3. at[1] \in 1..2 /\ at[2] \in 1..2 /\ at[3] \in 1..2
      BY <2>2, <2>4, <3>2
    <3>4. at[1] < at[2] /\ at[2] < at[3]
      BY <2>4, <3>2
    <3> QED
      BY <3>3, <3>4
  <2> QED
    BY <2>1, <2>3, <2>6 DEF Thread
<1> QED
  BY <1>1, <1>2

LEMMA ForwardFillInProse ==
    ASSUME NEW N, NEW head \in Prose(N), NEW trailer \in Prose(N)
    PROVE  ForwardFillSplit(head, trailer) \in Thread(N)
<1>1. PICK grown : grown = GrowRoot(TakeBeatsFitting(head), trailer)
  OBVIOUS
<1>2. grown \in Halves(N)
  BY <1>1, TakeBeatsInProse, GrowRootInProse
<1>3. PICK r : r = PeelIncompleteTail(RebalanceDanglingTail(grown, trailer), trailer)
  OBVIOUS
<1>4. r \in Halves(N)
  BY <1>2, <1>3, RebalanceInProse, PeelTailInProse
<1>5. r.root \in Prose(N) /\ AfterPara(Trimmed(r.left), trailer) \in Prose(N)
  BY <1>4, TrimmedInProse, AfterInProse DEF Halves
<1>6. RootAndReply(r, trailer) \in Thread(N)
  <2>1. PICK two : two = <<r.root, AfterPara(Trimmed(r.left), trailer)>>
    OBVIOUS
  <2>2. RootAndReply(r, trailer) = Keep(two, {i \in DOMAIN two : two[i] # <<>>})
    BY <2>1 DEF RootAndReply, Only
  <2> QED
    BY <1>5, <2>1, <2>2, TwoTexts
<1> QED
  BY <1>1, <1>3, <1>6 DEF ForwardFillSplit

Peeled(N) == [lines : Seq(Prose(N)), tags : Seq(Prose(N)), url : Prose(N)]

LEMMA TagsFromIs ==
    ASSUME NEW N, NEW line \in Prose(N), TagsFrom(line) # 0
    PROVE  TagsFrom(line) \in 2..Len(line)
<1>1. PICK from : from = {i \in 2..Len(line) : \A j \in i..Len(line) : line[j].k = "tag"}
  OBVIOUS
<1>2. from \subseteq 2..Len(line) /\ from \subseteq Nat
  BY <1>1 DEF Prose
<1>3. from # {} /\ TagsFrom(line) = Min(from)
  BY <1>1 DEF TagsFrom
<1> QED
  BY <1>2, <1>3, MinIsIn

LEMMA PeelLineInProse ==
    ASSUME NEW N, NEW p \in Peeled(N)
    PROVE  PeelLine(p) \in Peeled(N)
<1>1. p.lines \in Seq(Prose(N)) /\ p.tags \in Seq(Prose(N)) /\ p.url \in Prose(N)
  BY DEF Peeled
<1>2. CASE p.lines = <<>>
  BY <1>2 DEF PeelLine
<1>3. CASE p.lines # <<>>
  <2>1. PICK rest, line, at : rest = Front(p.lines) /\ line = Last(p.lines) /\ at = TagsFrom(line)
    OBVIOUS
  <2>2. Len(p.lines) \in Nat \ {0} /\ line \in Prose(N)
    BY <1>1, <1>3, <2>1 DEF Last
  <2>3. rest \in Seq(Prose(N))
    <3>1. SubSeq(p.lines, 1, Len(p.lines) - 1) \in Seq(Prose(N))
      BY <1>1, <2>2, PartOfList
    <3> QED
      BY <2>1, <3>1 DEF Front
  <2>4. \A lines \in Seq(Prose(N)), tags \in Seq(Prose(N)), url \in Prose(N) :
            /\ [p EXCEPT !.lines = lines] \in Peeled(N)
            /\ [p EXCEPT !.lines = lines, !.tags = tags] \in Peeled(N)
            /\ [p EXCEPT !.lines = lines, !.url = url] \in Peeled(N)
    BY DEF Peeled
  <2>5. <<line>> \o p.tags \in Seq(Prose(N))
    BY <1>1, <2>2
  <2>6. CASE at # 0
    <3>1. at \in 2..Len(line) /\ Len(line) \in Nat
      BY <2>1, <2>2, <2>6, TagsFromIs DEF Prose
    <3>2. at - 1 \in 0..Len(line)
      BY <3>1
    <3>3. Cut(line, at - 1) \in Prose(N) /\ From(line, (at - 1) + 1) \in Prose(N)
      BY <2>2, <3>2, CutInSeq DEF Prose
    <3>4. (at - 1) + 1 = at
      BY <3>1
    <3>5. Append(rest, Cut(line, at - 1)) \in Seq(Prose(N))
      BY <2>3, <3>3
    <3>6. <<From(line, at)>> \o p.tags \in Seq(Prose(N))
      BY <1>1, <3>3, <3>4
    <3> QED
      BY <1>3, <2>1, <2>2, <2>3, <2>4, <2>5, <3>5, <3>6 DEF PeelLine
  <2>7. CASE at = 0
    BY <1>3, <2>1, <2>2, <2>3, <2>4, <2>5, <2>7 DEF PeelLine
  <2> QED
    BY <2>6, <2>7
<1> QED
  BY <1>2, <1>3

LEMMA PeelLinesRuns ==
    ASSUME NEW N, NEW lines \in Seq(Prose(N))
    PROVE  \E run : /\ run[0] = [lines |-> lines, tags |-> <<>>, url |-> <<>>]
                    /\ run[2 * Len(lines)] = PeelLines(lines)
                    /\ \A n \in 0..(2 * Len(lines)) : run[n] \in Peeled(N)
                    /\ \A n \in 1..(2 * Len(lines)) : run[n] = PeelLine(run[n - 1])
<1>1. PICK len, X, base : /\ len = 2 * Len(lines) /\ X = Peeled(N)
                          /\ base = [lines |-> lines, tags |-> <<>>, url |-> <<>>]
  OBVIOUS
<1>2. len \in Nat /\ base \in X
  BY <1>1, NoProse DEF Peeled
<1>3. ASSUME NEW x \in X, NEW n \in 1..len PROVE PeelLine(x) \in X
  BY <1>1, PeelLineInProse
<1>4. PICK step : step = [p \in X \X (1..len) |-> PeelLine(p[1])]
  OBVIOUS
<1>5. step \in [X \X (1..len) -> X]
  <2>1. \A p \in X \X (1..len) : p[1] \in X /\ p[2] \in 1..len
    OBVIOUS
  <2>2. \A p \in X \X (1..len) : step[p] \in X
    BY <1>3, <1>4, <2>1
  <2> QED
    BY <1>4, <2>2
<1>6. PICK f \in [0..len -> X] : f[0] = base /\ \A n \in 1..len : f[n] = step[<<f[n - 1], n>>]
  <2>1. PICK f : IsLoop(f, len, X, base, step)
    BY <1>2, <1>5, LoopExists
  <2> QED
    BY <2>1 DEF IsLoop
<1> DEFINE Loop(g) == g = [n \in 0..len |->
                  IF n = 0 THEN [lines |-> lines, tags |-> <<>>, url |-> <<>>] ELSE PeelLine(g[n - 1])]
<1>7. Loop(f)
  <2>1. ASSUME NEW n \in 1..len PROVE f[n] = PeelLine(f[n - 1])
    <3>1. <<f[n - 1], n>> \in X \X (1..len)
      BY <1>2
    <3> QED
      BY <1>4, <1>6, <3>1
  <2>2. ASSUME NEW n \in 0..len
        PROVE  f[n] = IF n = 0 THEN [lines |-> lines, tags |-> <<>>, url |-> <<>>] ELSE PeelLine(f[n - 1])
    BY <1>1, <1>2, <1>6, <2>1
  <2> QED
    BY <2>2
<1>8. PICK g : Loop(g) /\ PeelLines(lines) = g[len]
  <2>1. PeelLines(lines) = (CHOOSE g : Loop(g))[len]
    BY <1>1 DEF PeelLines
  <2> HIDE DEF Loop
  <2> QED
    BY <1>7, <2>1
<1>9. ASSUME NEW n \in 1..len, g[n - 1] \in X PROVE g[n] \in X
  <2>1. g[n] = PeelLine(g[n - 1])
    BY <1>2, <1>8
  <2> QED
    BY <1>3, <1>9, <2>1
<1>10. g[0] \in X
  BY <1>1, <1>2, <1>8
<1>11. \A n \in 0..len : g[n] \in X
  <2> HIDE DEF Loop
  <2> QED
    BY <1>2, <1>9, <1>10, LoopStays
<1>12. g[0] = base /\ g[len] = PeelLines(lines)
  BY <1>1, <1>2, <1>8
<1>13. ASSUME NEW n \in 1..len PROVE g[n] = PeelLine(g[n - 1])
  BY <1>2, <1>8
<1> HIDE DEF Loop
<1> QED
  BY <1>1, <1>11, <1>12, <1>13

LEMMA PeelLinesInProse ==
    ASSUME NEW N, NEW lines \in Seq(Prose(N))
    PROVE  PeelLines(lines) \in Peeled(N)
<1>1. PICK len : len = (2 * Len(lines))
  OBVIOUS
<1>2. len \in Nat /\ len \in 0..len
  BY <1>1 DEF Prose
<1> QED
  BY <1>1, <1>2, PeelLinesRuns

LEMMA PeelTrailerInProse ==
    ASSUME NEW N, NEW lines \in Seq(Prose(N))
    PROVE  PeelTrailer(lines) \in [lines : Seq(Prose(N)), trailer : Prose(N)]
<1>1. PICK p : p = PeelLines(lines)
  OBVIOUS
<1>2. p.lines \in Seq(Prose(N)) /\ p.tags \in Seq(Prose(N)) /\ p.url \in Prose(N)
  BY <1>1, PeelLinesInProse DEF Peeled
<1>3. AfterPara(JoinBeats(p.tags), p.url) \in Prose(N)
  BY <1>2, JoinBeatsInProse, AfterInProse
<1> QED
  BY <1>1, <1>2, <1>3 DEF PeelTrailer

\* join_soft_wrap_lines: the lines it makes are of the words of those it takes.
LEMMA SoftWrapsInProse ==
    ASSUME NEW N, NEW lines \in Seq(Prose(N))
    PROVE  JoinSoftWraps(lines) \in Seq(Prose(N))
<1> DEFINE LineBefore(n) == IF n = 1 THEN <<>> ELSE lines[n - 1]
           Joining(x, n) == AfterBreak(x, LineBefore(n), lines[n])
<1>1. PICK len, X, base : len = Len(lines) /\ X = Prose(N) /\ base = <<>>
  OBVIOUS
<1>2. len \in Nat /\ base \in X
  BY <1>1, NoProse
<1>3. ASSUME NEW x \in X, NEW n \in 1..len PROVE Joining(x, n) \in X
  <2>1. PICK line, prev : line = lines[n] /\ prev = LineBefore(n)
    OBVIOUS
  <2>2. x \in Prose(N) /\ line \in Prose(N)
    BY <1>1, <2>1
  <2>3. x \o line \in Prose(N)
    BY <2>2, JoinInSeq DEF Prose
  <2>4. AfterPara(x, line) \in Prose(N)
    BY <2>2, AfterInProse
  <2> QED
    BY <1>1, <2>1, <2>3, <2>4 DEF AfterBreak
<1> HIDE DEF Joining
<1>4. PICK step : step = [p \in X \X (1..len) |-> Joining(p[1], p[2])]
  OBVIOUS
<1>5. step \in [X \X (1..len) -> X]
  <2>1. \A p \in X \X (1..len) : p[1] \in X /\ p[2] \in 1..len
    OBVIOUS
  <2>2. \A p \in X \X (1..len) : step[p] \in X
    BY <1>3, <1>4, <2>1
  <2> QED
    BY <1>4, <2>2
<1>6. PICK f \in [0..len -> X] : f[0] = base /\ \A n \in 1..len : f[n] = step[<<f[n - 1], n>>]
  <2>1. PICK f : IsLoop(f, len, X, base, step)
    BY <1>2, <1>5, LoopExists
  <2> QED
    BY <2>1 DEF IsLoop
<1> DEFINE Loop(g) == g = [n \in 0..len |-> IF n = 0 THEN <<>> ELSE Joining(g[n - 1], n)]
<1>7. Loop(f)
  <2>1. ASSUME NEW n \in 1..len PROVE f[n] = Joining(f[n - 1], n)
    <3>1. <<f[n - 1], n>> \in X \X (1..len)
      BY <1>2
    <3> QED
      BY <1>4, <1>6, <3>1
  <2>2. ASSUME NEW n \in 0..len PROVE f[n] = IF n = 0 THEN <<>> ELSE Joining(f[n - 1], n)
    BY <1>1, <1>2, <1>6, <2>1
  <2> QED
    BY <2>2
<1>8. PICK g : Loop(g) /\ JoinSoftWraps(lines) = Beats(g[len])
  <2>1. JoinSoftWraps(lines) = Beats((CHOOSE g : Loop(g))[len])
    BY <1>1 DEF JoinSoftWraps, Joining
  <2> HIDE DEF Loop
  <2> QED
    BY <1>7, <2>1
<1>9. ASSUME NEW n \in 1..len, g[n - 1] \in X PROVE g[n] \in X
  <2>1. g[n] = Joining(g[n - 1], n)
    BY <1>2, <1>8
  <2> QED
    BY <1>3, <1>9, <2>1
<1>10. g[0] \in X
  BY <1>1, <1>2, <1>8
<1>11. \A n \in 0..len : g[n] \in X
  <2> HIDE DEF Loop
  <2> QED
    BY <1>2, <1>9, <1>10, LoopStays
<1>12. g[len] \in Prose(N)
  BY <1>1, <1>2, <1>11
<1> HIDE DEF Loop
<1> QED
  BY <1>8, <1>12, BeatsInProse

\* layout_x_thread: whatever the text, its words stand in the text, and it has two texts at most.
LEMMA LayoutInProse ==
    ASSUME NEW N, NEW lines \in Seq(Prose(N))
    PROVE  LayoutXThread(lines) \in Thread(N)
<1>1. PICK peeled : peeled = PeelTrailer(lines)
  OBVIOUS
<1>2. peeled.lines \in Seq(Prose(N)) /\ peeled.trailer \in Prose(N)
  BY <1>1, PeelTrailerInProse
<1>3. PICK head, one : head = PromoteLineBreaks(peeled.lines) /\ one = AfterPara(head, peeled.trailer)
  OBVIOUS
<1>4. head \in Prose(N)
  BY <1>2, <1>3, JoinBeatsInProse DEF PromoteLineBreaks
<1>5. one \in Prose(N)
  BY <1>2, <1>3, <1>4, AfterInProse
<1>6. <<>> \in Thread(N) /\ <<one>> \in Thread(N) /\ <<FitByDroppingBeats(head)>> \in Thread(N)
  BY <1>4, <1>5, DroppedInProse, TwoTexts
<1>7. ForwardFillSplit(head, peeled.trailer) \in Thread(N)
  BY <1>2, <1>4, ForwardFillInProse
<1> QED
  BY <1>1, <1>3, <1>6, <1>7 DEF LayoutXThread

-----------------------------------------------------------------------------
(* No word is lost.                                                           *)

\* The words of a text, and of texts.
Tells(t) == {t[i] : i \in WordsAt(t)}
TellsAll(texts) == UNION {Tells(texts[i]) : i \in DOMAIN texts}

LEMMA TellsIs ==
    ASSUME NEW N, NEW t \in Prose(N)
    PROVE  /\ Len(t) \in Nat
           /\ \A x : x \in Tells(t) <=> \E i \in 1..Len(t) : x = t[i] /\ IsWord(t[i])
<1>1. DOMAIN t = 1..Len(t) /\ Len(t) \in Nat
  BY DEF Prose
<1> QED
  BY <1>1 DEF Tells, WordsAt

LEMMA TellsNone == Tells(<<>>) = {} /\ Tells(<<Para>>) = {} /\ Tells(<<Gap>>) = {}
<1>1. Para.k = "para" /\ Gap.k = "gap"
  BY DEF Para, Gap
<1>2. ~IsWord(Para) /\ ~IsWord(Gap)
  BY <1>1 DEF IsWord
<1> QED
  BY <1>2 DEF Tells, WordsAt

LEMMA JoinIs ==
    ASSUME NEW N, NEW a \in Prose(N), NEW b \in Prose(N)
    PROVE  /\ a \o b \in Prose(N) /\ Len(a \o b) = Len(a) + Len(b)
           /\ \A i \in 1..Len(a) : (a \o b)[i] = a[i]
           /\ \A i \in 1..Len(b) : (a \o b)[Len(a) + i] = b[i]
<1>1. PICK m, n, c : m = Len(a) /\ n = Len(b) /\ c = a \o b
  OBVIOUS
<1>2. a \in Seq(Tokens(N)) /\ b \in Seq(Tokens(N)) /\ m \in Nat /\ n \in Nat
  BY <1>1 DEF Prose
<1>3. c \in Seq(Tokens(N)) /\ Len(c) = m + n
  BY <1>1, <1>2
<1>4. \A i \in 1..m : c[i] = a[i]
  BY <1>1, <1>2
<1>5. \A i \in 1..n : c[m + i] = b[i]
  BY <1>1, <1>2
<1> QED
  BY <1>1, <1>3, <1>4, <1>5 DEF Prose

LEMMA TellsJoin ==
    ASSUME NEW N, NEW a \in Prose(N), NEW b \in Prose(N)
    PROVE  a \o b \in Prose(N) /\ Tells(a \o b) = Tells(a) \cup Tells(b)
<1>1. PICK m, n, c : m = Len(a) /\ n = Len(b) /\ c = a \o b
  OBVIOUS
<1>2. a \in Seq(Tokens(N)) /\ b \in Seq(Tokens(N)) /\ m \in Nat /\ n \in Nat
  BY <1>1 DEF Prose
<1>3. c \in Seq(Tokens(N)) /\ Len(c) = m + n
  BY <1>1, <1>2
<1>4. \A i \in 1..m : i \in 1..(m + n) /\ c[i] = a[i]
  BY <1>1, <1>2
<1>5. \A i \in 1..n : m + i \in 1..(m + n) /\ c[m + i] = b[i]
  BY <1>1, <1>2
<1>6. \A i \in 1..(m + n) : i \in 1..m \/ \E j \in 1..n : i = m + j
  <2> TAKE i \in 1..(m + n)
  <2>1. CASE i > m
    <3>1. i - m \in 1..n /\ i = m + (i - m)
      BY <1>2, <2>1
    <3> QED
      BY <3>1
  <2> QED
    BY <1>2, <2>1
<1>7. c \in Prose(N)
  BY <1>3 DEF Prose
<1>8. ASSUME NEW x, x \in Tells(c) PROVE x \in Tells(a) \cup Tells(b)
  <2>1. PICK i \in 1..(m + n) : x = c[i] /\ IsWord(c[i])
    BY <1>3, <1>7, <1>8, TellsIs
  <2>2. CASE i \in 1..m
    BY <1>1, <1>4, <2>1, <2>2, TellsIs
  <2>3. CASE \E j \in 1..n : i = m + j
    <3>1. PICK j \in 1..n : i = m + j
      BY <2>3
    <3> QED
      BY <1>1, <1>5, <2>1, <3>1, TellsIs
  <2> QED
    BY <1>6, <2>2, <2>3
<1>9. ASSUME NEW x, x \in Tells(a) PROVE x \in Tells(c)
  <2>1. PICK i \in 1..m : x = a[i] /\ IsWord(a[i])
    BY <1>1, <1>9, TellsIs
  <2> QED
    BY <1>3, <1>4, <1>7, <2>1, TellsIs
<1>10. ASSUME NEW x, x \in Tells(b) PROVE x \in Tells(c)
  <2>1. PICK i \in 1..n : x = b[i] /\ IsWord(b[i])
    BY <1>1, <1>10, TellsIs
  <2>2. m + i \in 1..Len(c) /\ x = c[m + i] /\ IsWord(c[m + i])
    BY <1>3, <1>5, <2>1
  <2> QED
    BY <1>7, <2>2, TellsIs
<1> QED
  BY <1>1, <1>7, <1>8, <1>9, <1>10

\* A text is what is cut of it and what is left.
LEMMA PartsOfList ==
    ASSUME NEW N, NEW t \in Prose(N), NEW n \in 0..Len(t)
    PROVE  /\ Cut(t, n) \in Prose(N) /\ From(t, n + 1) \in Prose(N)
           /\ Len(Cut(t, n)) = n /\ Len(From(t, n + 1)) = Len(t) - n
           /\ \A i \in 1..n : Cut(t, n)[i] = t[i]
           /\ \A i \in 1..(Len(t) - n) : From(t, n + 1)[i] = t[n + i]
           /\ t = Cut(t, n) \o From(t, n + 1)
<1>1. t \in Seq(Tokens(N)) /\ Len(t) \in Nat /\ n \in Nat
  BY DEF Prose
<1>2. PICK a, b, m : a = Cut(t, n) /\ b = From(t, n + 1) /\ m = Len(t)
  OBVIOUS
<1>3. a \in Seq(Tokens(N)) /\ b \in Seq(Tokens(N))
  BY <1>1, <1>2, CutInSeq
<1>4. \A i \in 1..n : t[i] \in Tokens(N)
  BY <1>1
<1>5. \A i \in (n + 1)..m : t[i] \in Tokens(N)
  BY <1>1, <1>2
<1>6. Len(a) = n /\ \A i \in 1..n : a[i] = t[i]
  BY <1>1, <1>2, <1>4, SubSeqProperties DEF Cut
<1>7. Len(b) = m - n /\ \A i \in 1..(m - n) : b[i] = t[n + 1 + i - 1]
  BY <1>1, <1>2, <1>5, SubSeqProperties DEF From
<1>8. \A i \in 1..(m - n) : n + 1 + i - 1 = n + i
  BY <1>1, <1>2
<1>9. \A i \in 1..(m - n) : b[i] = t[n + i]
  BY <1>7, <1>8
<1>10. t = a \o b
  <2>1. PICK c : c = a \o b
    OBVIOUS
  <2>2. c \in Seq(Tokens(N)) /\ Len(c) = m
    BY <1>1, <1>2, <1>3, <1>6, <1>7, <2>1
  <2>3. ASSUME NEW i \in 1..m PROVE c[i] = t[i]
    <3>1. CASE i <= n
      BY <1>1, <1>2, <1>3, <1>6, <2>1, <3>1
    <3>2. CASE i > n
      <4>1. i - n \in 1..(m - n) /\ n + (i - n) = i
        BY <1>1, <1>2, <3>2
      <4>2. c[i] = b[i - n]
        BY <1>1, <1>2, <1>3, <1>6, <1>7, <2>1, <3>2
      <4> QED
        BY <1>9, <4>1, <4>2
    <3> QED
      BY <1>1, <1>2, <3>1, <3>2
  <2>4. c = t
    BY <1>1, <1>2, <2>2, <2>3
  <2> QED
    BY <2>1, <2>4
<1> QED
  BY <1>2, <1>3, <1>6, <1>7, <1>9, <1>10 DEF Prose

LEMMA TellsCut ==
    ASSUME NEW N, NEW t \in Prose(N), NEW n \in 0..Len(t)
    PROVE  Tells(t) = Tells(Cut(t, n)) \cup Tells(From(t, n + 1))
<1>1. Cut(t, n) \in Prose(N) /\ From(t, n + 1) \in Prose(N) /\ t = Cut(t, n) \o From(t, n + 1)
  BY PartsOfList
<1>2. PICK a, b : a = Cut(t, n) /\ b = From(t, n + 1)
  OBVIOUS
<1>3. Tells(a \o b) = Tells(a) \cup Tells(b)
  BY <1>1, <1>2, TellsJoin
<1>4. t = a \o b
  BY <1>1, <1>2
<1> QED
  BY <1>2, <1>3, <1>4

LEMMA TellsTrim ==
    ASSUME NEW N, NEW t \in Prose(N)
    PROVE  Tells(TrimStart(t)) = Tells(t) /\ Tells(TrimEnd(t)) = Tells(t) /\ Tells(Trimmed(t)) = Tells(t)
<1>1. ASSUME NEW s \in Prose(N) PROVE Tells(TrimStart(s)) = Tells(s)
  <2>1. CASE WordsAt(s) = {}
    <3>1. Tells(s) = {}
      BY <2>1 DEF Tells
    <3> QED
      BY <2>1, <3>1, TellsNone DEF TrimStart
  <2>2. CASE WordsAt(s) # {}
    <3>1. WordsAt(s) \subseteq 1..Len(s) /\ WordsAt(s) \subseteq Nat /\ Len(s) \in Nat
      BY WordsAtAre DEF Prose
    <3>2. PICK i : i = Min(WordsAt(s))
      OBVIOUS
    <3>3. i \in 1..Len(s) /\ \A j \in WordsAt(s) : i <= j
      BY <2>2, <3>1, <3>2, MinIsIn
    <3>4. i - 1 \in 0..Len(s) /\ (i - 1) + 1 = i
      BY <3>1, <3>3
    <3>5. Tells(s) = Tells(Cut(s, i - 1)) \cup Tells(From(s, i))
      BY <3>4, TellsCut
    <3>6. Tells(Cut(s, i - 1)) = {}
      <4>1. PICK c : c = Cut(s, i - 1)
        OBVIOUS
      <4>2. c \in Prose(N) /\ Len(c) = i - 1 /\ \A j \in 1..(i - 1) : c[j] = s[j]
        BY <3>4, <4>1, PartsOfList
      <4>3. \A j \in 1..(i - 1) : ~IsWord(s[j])
        <5> TAKE j \in 1..(i - 1)
        <5>1. j \notin WordsAt(s) /\ j \in DOMAIN s
          BY <3>1, <3>3
        <5> QED
          BY <5>1 DEF WordsAt
      <4> QED
        BY <4>1, <4>2, <4>3, TellsIs
    <3>7. TrimStart(s) = From(s, i)
      BY <2>2, <3>2 DEF TrimStart
    <3> QED
      BY <3>5, <3>6, <3>7
  <2> QED
    BY <2>1, <2>2
<1>2. Tells(TrimEnd(t)) = Tells(t)
  <2>1. CASE WordsAt(t) = {}
    <3>1. Tells(t) = {}
      BY <2>1 DEF Tells
    <3> QED
      BY <2>1, <3>1, TellsNone DEF TrimEnd
  <2>2. CASE WordsAt(t) # {}
    <3>1. WordsAt(t) \subseteq 1..Len(t) /\ WordsAt(t) \subseteq 0..Len(t) /\ Len(t) \in Nat
      BY WordsAtAre DEF Prose
    <3>2. PICK i : i = Max(WordsAt(t))
      OBVIOUS
    <3>3. i \in 1..Len(t) /\ \A j \in WordsAt(t) : j <= i
      BY <2>2, <3>1, <3>2, MaxIsIn
    <3>4. i \in 0..Len(t)
      BY <3>3
    <3>5. Tells(t) = Tells(Cut(t, i)) \cup Tells(From(t, i + 1))
      BY <3>4, TellsCut
    <3>6. Tells(From(t, i + 1)) = {}
      <4>1. PICK c : c = From(t, i + 1)
        OBVIOUS
      <4>2. c \in Prose(N) /\ Len(c) = Len(t) - i /\ \A j \in 1..(Len(t) - i) : c[j] = t[i + j]
        BY <3>4, <4>1, PartsOfList
      <4>3. \A j \in 1..(Len(t) - i) : ~IsWord(t[i + j])
        <5> TAKE j \in 1..(Len(t) - i)
        <5>1. i + j \notin WordsAt(t) /\ i + j \in 1..Len(t)
          BY <3>1, <3>3
        <5>2. DOMAIN t = 1..Len(t)
          BY DEF Prose
        <5> QED
          BY <5>1, <5>2 DEF WordsAt
      <4>4. \A j \in 1..Len(c) : ~IsWord(c[j])
        BY <4>2, <4>3
      <4> QED
        BY <4>1, <4>2, <4>4, TellsIs
    <3>7. TrimEnd(t) = Cut(t, i)
      BY <2>2, <3>2 DEF TrimEnd
    <3> QED
      BY <3>5, <3>6, <3>7
  <2> QED
    BY <2>1, <2>2
<1>3. TrimEnd(t) \in Prose(N)
  BY TrimmedInProse
<1> QED
  BY <1>1, <1>2, <1>3 DEF Trimmed

LEMMA TellsAfter ==
    ASSUME NEW N, NEW a \in Prose(N), NEW b \in Prose(N)
    PROVE  /\ Tells(AfterPara(a, b)) = Tells(a) \cup Tells(b)
           /\ Tells(AfterSpace(a, b)) = Tells(a) \cup Tells(b)
<1>1. PICK para, gap : para = <<Para>> /\ gap = <<Gap>>
  OBVIOUS
<1>2. para \in Prose(N) /\ gap \in Prose(N) /\ Tells(para) = {} /\ Tells(gap) = {}
  BY <1>1, PlainTokens, TellsNone DEF Prose
<1>3. \A m \in Prose(N) : /\ a \o m \in Prose(N) /\ Tells(a \o m) = Tells(a) \cup Tells(m)
                         /\ a \o m \o b = (a \o m) \o b
                         /\ Tells((a \o m) \o b) = Tells(a \o m) \cup Tells(b)
  BY TellsJoin
<1>4. \A m \in Prose(N) : Tells(m) = {} => Tells(a \o m \o b) = Tells(a) \cup Tells(b)
  BY <1>3
<1>5. /\ Tells(a \o para \o b) = Tells(a) \cup Tells(b)
      /\ Tells(a \o gap \o b) = Tells(a) \cup Tells(b)
      /\ Tells(a \o b) = Tells(a) \cup Tells(b)
  BY <1>2, <1>4, TellsJoin
<1>6. Tells(AfterPara(a, b)) = Tells(a) \cup Tells(b)
  <2>1. CASE a = <<>>
    BY <2>1, TellsNone DEF AfterPara
  <2>2. CASE a # <<>> /\ b = <<>>
    BY <2>2, TellsNone DEF AfterPara
  <2>3. CASE a # <<>> /\ b # <<>>
    BY <1>1, <1>5, <2>3 DEF AfterPara
  <2> QED
    BY <2>1, <2>2, <2>3
<1>7. Tells(AfterSpace(a, b)) = Tells(a) \cup Tells(b)
  <2>1. AfterSpace(a, b) = a \o gap \o b \/ AfterSpace(a, b) = a \o b
    BY <1>1 DEF AfterSpace
  <2> QED
    BY <1>5, <2>1
<1> QED
  BY <1>6, <1>7

\* What a loop tells, that puts the texts of a list together one by one.
LEMMA TellsLoop ==
    ASSUME NEW N, NEW texts \in Seq(Prose(N)), NEW run, run[0] = <<>>,
           \A n \in 1..Len(texts) : Tells(run[n]) = Tells(run[n - 1]) \cup Tells(texts[n])
    PROVE  Tells(run[Len(texts)]) = TellsAll(texts)
<1>1. PICK len, T : len = Len(texts) /\ T = {n \in 0..len : Tells(run[n]) = UNION {Tells(texts[i]) : i \in 1..n}}
  OBVIOUS
<1>2. len \in Nat /\ DOMAIN texts = 1..len
  BY <1>1
<1>3. 0 \in T
  <2>1. 0 \in 0..len /\ 1..0 = {}
    BY <1>2
  <2>2. UNION {Tells(texts[i]) : i \in 1..0} = {}
    BY <2>1
  <2> QED
    BY <1>1, <2>1, <2>2, TellsNone
<1>4. ASSUME NEW n \in 1..len, n - 1 \in T PROVE n \in T
  <2>1. Tells(run[n - 1]) = UNION {Tells(texts[i]) : i \in 1..(n - 1)}
    BY <1>1, <1>4
  <2>2. Tells(run[n]) = Tells(run[n - 1]) \cup Tells(texts[n])
    BY <1>1
  <2>3. 1..n = (1..(n - 1)) \cup {n}
    BY <1>2
  <2>4. UNION {Tells(texts[i]) : i \in 1..n} = (UNION {Tells(texts[i]) : i \in 1..(n - 1)}) \cup Tells(texts[n])
    BY <2>3
  <2>5. n \in 0..len
    BY <1>2
  <2> QED
    BY <1>1, <2>1, <2>2, <2>4, <2>5
<1>5. 0..len \subseteq T
  BY <1>2, <1>3, <1>4, Induct
<1>6. len \in T
  BY <1>2, <1>5
<1> QED
  BY <1>1, <1>2, <1>6 DEF TellsAll

LEMMA TellsJoined ==
    ASSUME NEW N, NEW texts \in Seq(Prose(N))
    PROVE  Tells(JoinBeats(texts)) = TellsAll(texts) /\ Tells(JoinWords(texts)) = TellsAll(texts)
<1>1. PICK len : len = Len(texts)
  OBVIOUS
<1>2. len \in Nat /\ \A n \in 1..len : n - 1 \in 0..len /\ texts[n] \in Prose(N)
  BY <1>1
<1>3. Tells(JoinBeats(texts)) = TellsAll(texts)
  <2>1. PICK run : /\ run[0] = <<>> /\ run[len] = JoinBeats(texts)
                   /\ \A n \in 0..len : run[n] \in Prose(N)
                   /\ \A n \in 1..len : run[n] = AfterPara(run[n - 1], texts[n])
    BY <1>1, JoinBeatsRuns
  <2>2. \A n \in 1..len : Tells(run[n]) = Tells(run[n - 1]) \cup Tells(texts[n])
    BY <1>2, <2>1, TellsAfter
  <2> QED
    BY <1>1, <2>1, <2>2, TellsLoop
<1>4. Tells(JoinWords(texts)) = TellsAll(texts)
  <2>1. PICK run : /\ run[0] = <<>> /\ run[len] = JoinWords(texts)
                   /\ \A n \in 0..len : run[n] \in Prose(N)
                   /\ \A n \in 1..len : run[n] = AfterSpace(run[n - 1], texts[n])
    BY <1>1, JoinWordsRuns
  <2>2. \A n \in 1..len : Tells(run[n]) = Tells(run[n - 1]) \cup Tells(texts[n])
    BY <1>2, <2>1, TellsAfter
  <2> QED
    BY <1>1, <2>1, <2>2, TellsLoop
<1> QED
  BY <1>3, <1>4

\* A beat goes from after a blank line to before one.
LEMMA BeatIs ==
    ASSUME NEW N, NEW t \in Prose(N), NEW i \in 1..Len(t), t[i].k # "para"
    PROVE  /\ BeatEnd(t, i) \in i..Len(t)
           /\ BeatEnd(t, i) = Len(t) \/ t[BeatEnd(t, i) + 1].k = "para"
           /\ \A j \in i..Len(t) : (\A h \in i..j : t[h].k # "para") => j <= BeatEnd(t, i)
<1>1. Len(t) \in Nat
  BY DEF Prose
<1>2. PICK S, e : S = {j \in i..Len(t) : t[j].k = "para"} \cup {Len(t) + 1} /\ e = Min(S)
  OBVIOUS
<1>3. S \subseteq Nat /\ S # {} /\ S \subseteq i..(Len(t) + 1) /\ i \notin S
  BY <1>1, <1>2
<1>4. e \in S /\ e \in i..(Len(t) + 1) /\ e # i
  BY <1>2, <1>3, MinIsIn
<1>5. BeatEnd(t, i) = e - 1
  BY <1>2 DEF BeatEnd
<1>6. e = Len(t) + 1 \/ (e \in i..Len(t) /\ t[e].k = "para")
  BY <1>2, <1>4
<1>7. PICK last : last = e - 1
  OBVIOUS
<1>8. last \in i..Len(t) /\ last + 1 = e
  BY <1>1, <1>4, <1>7
<1>9. last = Len(t) \/ t[last + 1].k = "para"
  BY <1>1, <1>6, <1>8
<1>10. ASSUME NEW j \in i..Len(t), \A h \in i..j : t[h].k # "para" PROVE j <= last
  <2>1. SUFFICES ASSUME j > last PROVE FALSE
    BY <1>1, <1>8
  <2>2. e \in i..j
    BY <1>1, <1>8, <2>1
  <2> QED
    BY <1>1, <1>6, <1>10, <2>2
<1> QED
  BY <1>5, <1>7, <1>8, <1>9, <1>10

LEMMA BeatsAre ==
    ASSUME NEW N, NEW t \in Prose(N)
    PROVE  /\ \A k \in DOMAIN Beats(t) : \E i \in 1..Len(t) : \E e \in i..Len(t) :
                   Beats(t)[k] = SubSeq(t, i, e) /\ (e = Len(t) \/ t[e + 1].k = "para")
           /\ \A j \in 1..Len(t) : t[j].k # "para" =>
                   \E k \in DOMAIN Beats(t) : \E i \in 1..j : \E e \in j..Len(t) :
                       Beats(t)[k] = SubSeq(t, i, e)
<1>1. Len(t) \in Nat /\ DOMAIN t = 1..Len(t)
  BY DEF Prose
<1>2. PICK list, starts : /\ list = [i \in DOMAIN t |-> SubSeq(t, i, BeatEnd(t, i))]
                          /\ starts = {i \in DOMAIN t : t[i].k # "para" /\ (i = 1 \/ t[i - 1].k = "para")}
  OBVIOUS
<1>3. PICK S : S = {list[i] : i \in 1..Len(t)}
  OBVIOUS
<1>4. list \in Seq(S) /\ DOMAIN list = 1..Len(t)
  <2>1. list = [i \in 1..Len(t) |-> list[i]] /\ \A i \in 1..Len(t) : list[i] \in S
    BY <1>1, <1>2, <1>3
  <2> QED
    BY <1>1, <2>1, IsASeq
<1>5. PICK beats : beats = Keep(list, starts)
  OBVIOUS
<1>6. Beats(t) = beats
  BY <1>2, <1>5 DEF Beats
<1>7. beats \in Seq(S) /\ IsKept(beats, list, starts)
  BY <1>4, <1>5, KeepIsKept
<1>8. DOMAIN beats = 1..Len(beats)
  BY <1>7
<1>9. PICK at \in [1..Len(beats) -> starts \cap DOMAIN list] :
          /\ \A k \in 1..Len(beats) : beats[k] = list[at[k]]
          /\ \A i \in starts \cap DOMAIN list : \E k \in 1..Len(beats) : at[k] = i
  BY <1>7 DEF IsKept
<1>10. ASSUME NEW k \in DOMAIN beats
       PROVE  \E i \in 1..Len(t) : \E e \in i..Len(t) :
                  beats[k] = SubSeq(t, i, e) /\ (e = Len(t) \/ t[e + 1].k = "para")
  <2>1. PICK i \in 1..Len(t) : i \in starts /\ beats[k] = list[i]
    BY <1>4, <1>8, <1>9
  <2>2. PICK e : e = BeatEnd(t, i)
    OBVIOUS
  <2>3. t[i].k # "para"
    BY <1>2, <2>1
  <2>4. e \in i..Len(t) /\ (e = Len(t) \/ t[e + 1].k = "para")
    BY <2>2, <2>3, BeatIs
  <2>5. beats[k] = SubSeq(t, i, e)
    BY <1>1, <1>2, <2>1, <2>2
  <2> QED
    BY <2>4, <2>5
<1>11. ASSUME NEW j \in 1..Len(t), t[j].k # "para"
       PROVE  \E k \in DOMAIN beats : \E i \in 1..j : \E e \in j..Len(t) : beats[k] = SubSeq(t, i, e)
  <2>1. PICK R : R = {i \in 1..j : \A h \in i..j : t[h].k # "para"}
    OBVIOUS
  <2>2. R \subseteq Nat /\ R \subseteq 1..j /\ j \in R
    BY <1>1, <1>11, <2>1
  <2>3. PICK i : i = Min(R)
    OBVIOUS
  <2>4. i \in R /\ \A h \in R : i <= h
    BY <2>2, <2>3, MinIsIn
  <2>5. i \in 1..j /\ i \in 1..Len(t) /\ \A h \in i..j : t[h].k # "para"
    BY <1>1, <2>1, <2>4
  <2>6. i = 1 \/ t[i - 1].k = "para"
    <3>1. SUFFICES ASSUME i # 1, t[i - 1].k # "para" PROVE FALSE
      OBVIOUS
    <3>2. i - 1 \in 1..j
      BY <2>5, <3>1
    <3>3. \A h \in (i - 1)..j : h = i - 1 \/ h \in i..j
      BY <2>5
    <3>4. i - 1 \in R
      BY <2>1, <2>5, <3>1, <3>2, <3>3
    <3>5. i <= i - 1
      BY <2>4, <3>4
    <3> QED
      BY <2>5, <3>5
  <2>7. t[i].k # "para" /\ i \in starts \cap DOMAIN list
    BY <1>1, <1>2, <1>4, <2>5, <2>6
  <2>8. PICK k \in 1..Len(beats) : beats[k] = list[i]
    BY <1>9, <2>7
  <2>9. PICK e : e = BeatEnd(t, i)
    OBVIOUS
  <2>10. e \in i..Len(t) /\ j <= e
    BY <1>1, <2>5, <2>7, <2>9, BeatIs
  <2>11. e \in j..Len(t) /\ beats[k] = SubSeq(t, i, e)
    BY <1>1, <1>2, <2>5, <2>8, <2>9, <2>10
  <2> QED
    BY <1>8, <2>5, <2>11
<1> QED
  BY <1>6, <1>10, <1>11

\* A stretch of a text.
LEMMA StretchIs ==
    ASSUME NEW N, NEW t \in Prose(N), NEW i \in 1..Len(t), NEW e \in i..Len(t)
    PROVE  /\ SubSeq(t, i, e) \in Prose(N) /\ Len(SubSeq(t, i, e)) = e - i + 1
           /\ \A j \in 1..(e - i + 1) : SubSeq(t, i, e)[j] = t[i + j - 1]
<1>1. t \in Seq(Tokens(N)) /\ Len(t) \in Nat
  BY DEF Prose
<1>2. \A j \in i..e : t[j] \in Tokens(N)
  BY <1>1
<1> QED
  BY <1>1, <1>2, SubSeqProperties DEF Prose

LEMMA TellsOfBeats ==
    ASSUME NEW N, NEW t \in Prose(N)
    PROVE  TellsAll(Beats(t)) = Tells(t)
<1>1. Len(t) \in Nat
  BY DEF Prose
<1>2. PICK beats : beats = Beats(t)
  OBVIOUS
<1>3. ASSUME NEW x, x \in TellsAll(beats) PROVE x \in Tells(t)
  <2>1. PICK k \in DOMAIN beats : x \in Tells(beats[k])
    BY <1>3 DEF TellsAll
  <2>2. PICK i \in 1..Len(t) : \E e \in i..Len(t) : beats[k] = SubSeq(t, i, e)
    BY <1>2, BeatsAre
  <2>3. PICK e \in i..Len(t) : beats[k] = SubSeq(t, i, e)
    BY <2>2
  <2>4. PICK part : part = SubSeq(t, i, e)
    OBVIOUS
  <2>5. part \in Prose(N) /\ Len(part) = e - i + 1 /\ \A j \in 1..(e - i + 1) : part[j] = t[i + j - 1]
    BY <2>4, StretchIs
  <2>6. PICK j \in 1..(e - i + 1) : x = part[j] /\ IsWord(part[j])
    BY <2>1, <2>3, <2>4, <2>5, TellsIs
  <2>7. i + j - 1 \in 1..Len(t) /\ x = t[i + j - 1] /\ IsWord(t[i + j - 1])
    BY <1>1, <2>5, <2>6
  <2> QED
    BY <2>7, TellsIs
<1>4. ASSUME NEW x, x \in Tells(t) PROVE x \in TellsAll(beats)
  <2>1. PICK j \in 1..Len(t) : x = t[j] /\ IsWord(t[j])
    BY <1>4, TellsIs
  <2>2. t[j].k # "para"
    BY <2>1 DEF IsWord
  <2>3. PICK k \in DOMAIN beats : \E i \in 1..j : \E e \in j..Len(t) : beats[k] = SubSeq(t, i, e)
    BY <1>2, <2>2, BeatsAre
  <2>4. PICK i \in 1..j, e \in j..Len(t) : beats[k] = SubSeq(t, i, e)
    BY <2>3
  <2>5. i \in 1..Len(t) /\ e \in i..Len(t)
    BY <1>1, <2>4
  <2>6. PICK part : part = SubSeq(t, i, e)
    OBVIOUS
  <2>7. part \in Prose(N) /\ Len(part) = e - i + 1 /\ \A h \in 1..(e - i + 1) : part[h] = t[i + h - 1]
    BY <2>5, <2>6, StretchIs
  <2>8. j - i + 1 \in 1..(e - i + 1) /\ i + (j - i + 1) - 1 = j
    BY <1>1, <2>4, <2>5
  <2>9. part[j - i + 1] = t[j]
    BY <2>7, <2>8
  <2>10. x \in Tells(part)
    BY <2>1, <2>7, <2>8, <2>9, TellsIs
  <2> QED
    BY <2>4, <2>6, <2>10 DEF TellsAll
<1> QED
  BY <1>2, <1>3, <1>4

\* The words split_whitespace makes of a text, where each starts.
LEMMA WordsAre ==
    ASSUME NEW N, NEW t \in Prose(N)
    PROVE  \E at \in [1..Len(SplitWords(t)) -> {i \in 1..Len(t) : IsWord(t[i]) /\ (i = 1 \/ ~Joined(t, i - 1))}] :
               /\ \A k \in 1..Len(SplitWords(t)) :
                      SplitWords(t)[k] = Cut(From(t, at[k]), FirstWordLen(From(t, at[k])))
               /\ \A j, k \in 1..Len(SplitWords(t)) : j < k => at[j] < at[k]
               /\ \A i \in 1..Len(t) : IsWord(t[i]) /\ (i = 1 \/ ~Joined(t, i - 1)) =>
                      \E k \in 1..Len(SplitWords(t)) : at[k] = i
<1>1. Len(t) \in Nat /\ DOMAIN t = 1..Len(t)
  BY DEF Prose
<1>2. PICK list, starts : /\ list = [i \in DOMAIN t |-> Cut(From(t, i), FirstWordLen(From(t, i)))]
                          /\ starts = {i \in WordsAt(t) : i = 1 \/ ~Joined(t, i - 1)}
  OBVIOUS
<1>3. PICK S : S = {list[i] : i \in 1..Len(t)}
  OBVIOUS
<1>4. list \in Seq(S) /\ DOMAIN list = 1..Len(t)
  <2>1. list = [i \in 1..Len(t) |-> list[i]] /\ \A i \in 1..Len(t) : list[i] \in S
    BY <1>1, <1>2, <1>3
  <2> QED
    BY <1>1, <2>1, IsASeq
<1>5. PICK words : words = Keep(list, starts)
  OBVIOUS
<1>6. SplitWords(t) = words
  BY <1>2, <1>5 DEF SplitWords
<1>7. IsKept(words, list, starts)
  BY <1>4, <1>5, KeepIsKept
<1>8. starts \cap DOMAIN list = {i \in 1..Len(t) : IsWord(t[i]) /\ (i = 1 \/ ~Joined(t, i - 1))}
  BY <1>1, <1>2, <1>4 DEF WordsAt
<1>9. PICK at \in [1..Len(words) -> starts \cap DOMAIN list] :
          /\ \A k \in 1..Len(words) : words[k] = list[at[k]]
          /\ \A j, k \in 1..Len(words) : j < k => at[j] < at[k]
          /\ \A i \in starts \cap DOMAIN list : \E k \in 1..Len(words) : at[k] = i
  BY <1>7 DEF IsKept
<1>10. \A k \in 1..Len(words) : words[k] = Cut(From(t, at[k]), FirstWordLen(From(t, at[k])))
  <2> TAKE k \in 1..Len(words)
  <2>1. at[k] \in DOMAIN t
    BY <1>1, <1>4, <1>9
  <2> QED
    BY <1>2, <1>9, <2>1
<1> QED
  BY <1>6, <1>8, <1>9, <1>10

\* The word at a place of a text.
LEMMA WordAt ==
    ASSUME NEW N, NEW t \in Prose(N), NEW i \in 1..Len(t), IsWord(t[i])
    PROVE  \E w, n : /\ w = Cut(From(t, i), FirstWordLen(From(t, i))) /\ w \in Word(N)
                      /\ n = Len(w) /\ n \in 1..(Len(t) - i + 1)
                      /\ \A j \in 1..n : w[j] = t[i + j - 1]
                      /\ n = IF i < Len(t) /\ Joined(t, i) THEN 2 ELSE 1
<1>1. Len(t) \in Nat
  BY DEF Prose
<1>2. PICK rest : rest = From(t, i)
  OBVIOUS
<1>3. rest \in Prose(N) /\ Len(rest) = Len(t) - i + 1 /\ \A j \in 1..(Len(t) - i + 1) : rest[j] = t[i + j - 1]
  <2>1. Len(t) \in i..Len(t)
    BY <1>1
  <2> QED
    BY <1>2, <2>1, StretchIs DEF From
<1>4. rest[1] = t[i] /\ rest # <<>>
  BY <1>1, <1>3
<1>5. PICK n, w : n = FirstWordLen(rest) /\ w = Cut(rest, n)
  OBVIOUS
<1>6. n \in 1..Len(rest) /\ w \in Word(N)
  BY <1>3, <1>4, <1>5, FirstWordIs
<1>7. Len(w) = n /\ \A j \in 1..n : w[j] = rest[j]
  <2>1. n \in 0..Len(rest)
    BY <1>6
  <2> QED
    BY <1>3, <1>5, <2>1, PartsOfList
<1>8. n = IF Len(rest) >= 2 /\ Joined(rest, 1) THEN 2 ELSE 1
  BY <1>5 DEF FirstWordLen
<1>9. i < Len(t) <=> Len(rest) >= 2
  BY <1>1, <1>3
<1>10. i < Len(t) => (Joined(rest, 1) <=> Joined(t, i))
  <2>1. i < Len(t) => rest[1] = t[i] /\ rest[1 + 1] = t[i + 1]
    BY <1>1, <1>3
  <2> QED
    BY <2>1 DEF Joined
<1>11. n = IF i < Len(t) /\ Joined(t, i) THEN 2 ELSE 1
  BY <1>8, <1>9, <1>10
<1>12. \A j \in 1..n : w[j] = t[i + j - 1]
  BY <1>3, <1>6, <1>7
<1> QED
  BY <1>2, <1>3, <1>5, <1>6, <1>7, <1>11, <1>12

LEMMA TellsOfWords ==
    ASSUME NEW N, NEW t \in Prose(N)
    PROVE  TellsAll(SplitWords(t)) = Tells(t)
<1>1. Len(t) \in Nat
  BY DEF Prose
<1>2. PICK words, starts : /\ words = SplitWords(t)
                           /\ starts = {i \in 1..Len(t) : IsWord(t[i]) /\ (i = 1 \/ ~Joined(t, i - 1))}
  OBVIOUS
<1>3. PICK at \in [1..Len(words) -> starts] :
          /\ \A k \in 1..Len(words) : words[k] = Cut(From(t, at[k]), FirstWordLen(From(t, at[k])))
          /\ \A i \in starts : \E k \in 1..Len(words) : at[k] = i
  BY <1>2, WordsAre
<1>4. words \in Seq(Word(N)) /\ DOMAIN words = 1..Len(words)
  BY <1>2, SplitWordsInProse
<1>5. ASSUME NEW x, x \in TellsAll(words) PROVE x \in Tells(t)
  <2>1. PICK k \in 1..Len(words) : x \in Tells(words[k])
    BY <1>4, <1>5 DEF TellsAll
  <2>2. PICK i : i = at[k]
    OBVIOUS
  <2>3. i \in 1..Len(t) /\ IsWord(t[i])
    BY <1>2, <1>3, <2>2
  <2>4. PICK w, n : /\ w = Cut(From(t, i), FirstWordLen(From(t, i))) /\ w \in Word(N)
                    /\ n = Len(w) /\ n \in 1..(Len(t) - i + 1) /\ \A j \in 1..n : w[j] = t[i + j - 1]
    BY <2>3, WordAt
  <2>5. words[k] = w /\ w \in Prose(N)
    BY <1>3, <2>2, <2>4, WordIsProse
  <2>6. PICK j \in 1..n : x = w[j] /\ IsWord(w[j])
    BY <2>1, <2>4, <2>5, TellsIs
  <2>7. i + j - 1 \in 1..Len(t) /\ x = t[i + j - 1] /\ IsWord(t[i + j - 1])
    BY <1>1, <2>3, <2>4, <2>6
  <2> QED
    BY <2>7, TellsIs
<1>6. ASSUME NEW x, x \in Tells(t) PROVE x \in TellsAll(words)
  <2>1. PICK i \in 1..Len(t) : x = t[i] /\ IsWord(t[i])
    BY <1>6, TellsIs
  <2>2. PICK s \in starts : s = i \/ (s + 1 = i /\ Joined(t, s))
    <3>1. CASE i \in starts
      BY <3>1
    <3>2. CASE i \notin starts
      <4>1. i # 1 /\ Joined(t, i - 1)
        BY <1>2, <2>1, <3>2
      <4>2. PICK s : s = i - 1
        OBVIOUS
      <4>3. s \in 1..Len(t) /\ s + 1 = i /\ Joined(t, s)
        BY <1>1, <2>1, <4>1, <4>2
      <4>4. t[s].k \in {"head", "dot"}
        BY <4>3 DEF Joined
      <4>5. IsWord(t[s])
        BY <4>4 DEF IsWord
      <4>6. s = 1 \/ ~Joined(t, s - 1)
        <5>1. SUFFICES ASSUME s # 1, Joined(t, s - 1) PROVE FALSE
          OBVIOUS
        <5>2. (s - 1) + 1 = s
          BY <4>3
        <5>3. t[s].k = "tail"
          BY <5>1, <5>2 DEF Joined
        <5> QED
          BY <4>4, <5>3
      <4>7. s \in starts
        BY <1>2, <4>3, <4>5, <4>6
      <4> QED
        BY <4>3, <4>7
    <3> QED
      BY <3>1, <3>2
  <2>3. s \in 1..Len(t) /\ IsWord(t[s])
    BY <1>2, <2>2
  <2>4. PICK w, n : /\ w = Cut(From(t, s), FirstWordLen(From(t, s))) /\ w \in Word(N)
                    /\ n = Len(w) /\ n \in 1..(Len(t) - s + 1) /\ \A j \in 1..n : w[j] = t[s + j - 1]
                    /\ n = IF s < Len(t) /\ Joined(t, s) THEN 2 ELSE 1
    BY <2>3, WordAt
  <2>5. i - s + 1 \in 1..n /\ s + (i - s + 1) - 1 = i
    <3>1. CASE s = i
      BY <1>1, <2>1, <2>4, <3>1
    <3>2. CASE s + 1 = i /\ Joined(t, s)
      <4>1. s < Len(t) /\ n = 2
        BY <1>1, <2>1, <2>3, <2>4, <3>2
      <4> QED
        BY <2>3, <3>2, <4>1
    <3> QED
      BY <2>2, <3>1, <3>2
  <2>6. w[i - s + 1] = t[i]
    BY <2>4, <2>5
  <2>7. w \in Prose(N)
    BY <2>4, WordIsProse
  <2>8. x \in Tells(w)
    BY <2>1, <2>4, <2>5, <2>6, <2>7, TellsIs
  <2>9. PICK k \in 1..Len(words) : words[k] = w
    <3>1. PICK k \in 1..Len(words) : at[k] = s
      BY <1>3, <2>2
    <3> QED
      BY <1>3, <2>4, <3>1
  <2> QED
    BY <1>4, <2>8, <2>9 DEF TellsAll
<1> QED
  BY <1>2, <1>5, <1>6

\* Where the first sentence ends.
PartedAt(text, i) ==
    LET t == TrimStart(text) IN
    /\ i \in 0..Len(t)
    /\ TakeLeadingSentence(text).first = Trimmed(Cut(t, i))
    /\ TakeLeadingSentence(text).rest = TrimStart(From(t, i + 1))
    /\ t # <<>> => i >= 1
    /\ i = Len(t) \/ t[i].k \in Stops \cup {"emoji", "para"}

LEMMA LeadingSentenceIs ==
    ASSUME NEW N, NEW text \in Prose(N)
    PROVE  \E i : PartedAt(text, i)
<1>1. PICK t : t = TrimStart(text)
  OBVIOUS
<1>2. t \in Prose(N) /\ Len(t) \in Nat /\ DOMAIN t = 1..Len(t)
  BY <1>1, TrimmedInProse DEF Prose
<1> DEFINE Parted(i) == [first |-> Trimmed(Cut(t, i)), rest |-> TrimStart(From(t, i + 1))]
<1>3. PICK ends, paras :
          ends = {i \in DOMAIN t : t[i].k \in Stops} /\ paras = {i \in DOMAIN t : t[i].k = "para"}
  OBVIOUS
<1>4. ends \subseteq 1..Len(t) /\ paras \subseteq 1..Len(t) /\ ends \subseteq Nat /\ paras \subseteq Nat
  BY <1>2, <1>3
<1>5. PICK i \in 0..Len(t) : /\ TakeLeadingSentence(text) = Parted(i) /\ (t # <<>> => i >= 1)
                             /\ (i = Len(t) \/ t[i].k \in Stops \cup {"emoji", "para"})
  <2>1. CASE ends # {}
    <3>1. PICK m, e : m = Min(ends) /\ e = EmojiEnd(t, m)
      OBVIOUS
    <3>2. m \in 1..Len(t) /\ m \in ends
      BY <1>4, <2>1, <3>1, MinIsIn
    <3>3. PICK S : S = {j \in m..Len(t) : \A h \in (m + 1)..j : t[h].k = "emoji"}
      OBVIOUS
    <3>4. m \in S /\ S \subseteq 0..Len(t)
      <4>1. m \in m..Len(t) /\ (m + 1)..m = {}
        BY <3>2
      <4> QED
        BY <1>2, <3>2, <3>3, <4>1
    <3>5. e \in S
      BY <1>2, <3>1, <3>3, <3>4, MaxIsIn DEF EmojiEnd
    <3>6. e \in m..Len(t) /\ (e = m \/ t[e].k = "emoji")
      BY <3>2, <3>3, <3>5
    <3>7. TakeLeadingSentence(text) = Parted(e)
      BY <1>1, <1>3, <2>1, <3>1 DEF TakeLeadingSentence
    <3>8. t[e].k \in Stops \cup {"emoji", "para"}
      BY <1>3, <3>2, <3>6
    <3>9. e \in 0..Len(t) /\ e >= 1
      BY <1>2, <3>2, <3>6
    <3> QED
      BY <3>7, <3>8, <3>9
  <2>2. CASE ends = {} /\ paras # {}
    <3>1. PICK m : m = Min(paras)
      OBVIOUS
    <3>2. m \in 1..Len(t) /\ m \in paras
      BY <1>4, <2>2, <3>1, MinIsIn
    <3>3. TakeLeadingSentence(text) = Parted(m)
      BY <1>1, <1>3, <2>2, <3>1 DEF TakeLeadingSentence
    <3>4. t[m].k \in Stops \cup {"emoji", "para"}
      BY <1>3, <3>2
    <3>5. m \in 0..Len(t) /\ m >= 1
      BY <1>2, <3>2
    <3> QED
      BY <3>3, <3>4, <3>5
  <2>3. CASE ends = {} /\ paras = {}
    <3>1. TakeLeadingSentence(text) = Parted(Len(t))
      BY <1>1, <1>3, <2>3 DEF TakeLeadingSentence
    <3>2. (t # <<>> => Len(t) >= 1) /\ Len(t) \in 0..Len(t)
      BY <1>2 DEF Prose
    <3> QED
      BY <1>2, <3>1, <3>2
  <2> QED
    BY <2>1, <2>2, <2>3
<1>6. TakeLeadingSentence(text).first = Trimmed(Cut(t, i))
      /\ TakeLeadingSentence(text).rest = TrimStart(From(t, i + 1))
  BY <1>5
<1> QED
  BY <1>1, <1>5, <1>6 DEF PartedAt

LEMMA TellsOfSentence ==
    ASSUME NEW N, NEW text \in Prose(N)
    PROVE  Tells(text) = Tells(TakeLeadingSentence(text).first) \cup Tells(TakeLeadingSentence(text).rest)
<1>0. PICK i : PartedAt(text, i)
  BY LeadingSentenceIs
<1>1. PICK t : /\ t = TrimStart(text) /\ i \in 0..Len(t)
               /\ TakeLeadingSentence(text).first = Trimmed(Cut(t, i))
               /\ TakeLeadingSentence(text).rest = TrimStart(From(t, i + 1))
  BY <1>0 DEF PartedAt
<1>2. t \in Prose(N) /\ Tells(t) = Tells(text)
  BY <1>1, TrimmedInProse, TellsTrim
<1>3. PICK a, b : a = Cut(t, i) /\ b = From(t, i + 1)
  OBVIOUS
<1>4. a \in Prose(N) /\ b \in Prose(N) /\ Tells(t) = Tells(a) \cup Tells(b)
  <2>1. Cut(t, i) \in Prose(N) /\ From(t, i + 1) \in Prose(N)
    BY <1>1, <1>2, PartsOfList
  <2>2. Tells(t) = Tells(Cut(t, i)) \cup Tells(From(t, i + 1))
    BY <1>1, <1>2, TellsCut
  <2> QED
    BY <1>3, <2>1, <2>2
<1>5. Tells(Trimmed(a)) = Tells(a) /\ Tells(TrimStart(b)) = Tells(b)
  BY <1>4, TellsTrim
<1> QED
  BY <1>1, <1>2, <1>3, <1>4, <1>5

\* Pieces of a text, which goes on after the last, and what they tell.
Pieces(N, W) ==
    {p \in Parts(N) : Tells(p.piece) \cup Tells(p.rest) = W /\ ArticlesGoOn(p.rest)}

LEMMA GoesOnIs ==
    ASSUME NEW N, NEW t \in Prose(N)
    PROVE  /\ Len(t) \in Nat /\ ArticlesGoOn(<<>>)
           /\ ArticlesGoOn(t) <=>
                  \A i \in 1..Len(t) : t[i].k = "art" => i + 1 \in 1..Len(t) /\ IsWord(t[i + 1])
<1>1. DOMAIN t = 1..Len(t) /\ Len(t) \in Nat
  BY DEF Prose
<1>2. \A i \in 1..Len(t) : i < Len(t) <=> i + 1 \in 1..Len(t)
  BY <1>1
<1> QED
  BY <1>1, <1>2 DEF ArticlesGoOn

LEMMA GoesOnFrom ==
    ASSUME NEW N, NEW t \in Prose(N), ArticlesGoOn(t), NEW n \in 0..Len(t)
    PROVE  /\ ArticlesGoOn(From(t, n + 1))
           /\ n = 0 \/ n = Len(t) \/ t[n].k # "art" => ArticlesGoOn(Cut(t, n))
<1>1. \A i \in 1..Len(t) : t[i].k = "art" => i + 1 \in 1..Len(t) /\ IsWord(t[i + 1])
  BY GoesOnIs
<1>2. Len(t) \in Nat
  BY GoesOnIs
<1>3. PICK a, b : a = Cut(t, n) /\ b = From(t, n + 1)
  OBVIOUS
<1>4. /\ a \in Prose(N) /\ b \in Prose(N) /\ Len(a) = n /\ Len(b) = Len(t) - n
      /\ \A i \in 1..n : a[i] = t[i]
      /\ \A i \in 1..(Len(t) - n) : b[i] = t[n + i]
  BY <1>3, PartsOfList
<1>5. ArticlesGoOn(b)
  <2>1. ASSUME NEW i \in 1..Len(b), b[i].k = "art" PROVE i + 1 \in 1..Len(b) /\ IsWord(b[i + 1])
    <3>1. n + i \in 1..Len(t) /\ t[n + i].k = "art"
      BY <1>2, <1>4, <2>1
    <3>2. n + i + 1 \in 1..Len(t) /\ IsWord(t[n + i + 1])
      BY <1>1, <3>1
    <3>3. i + 1 \in 1..(Len(t) - n) /\ n + (i + 1) = n + i + 1
      BY <1>2, <1>4, <3>2
    <3>4. b[i + 1] = t[n + i + 1]
      BY <1>4, <3>3
    <3> QED
      BY <1>4, <3>2, <3>3, <3>4
  <2> QED
    BY <1>4, <2>1, GoesOnIs
<1>6. ASSUME n = 0 \/ n = Len(t) \/ t[n].k # "art" PROVE ArticlesGoOn(a)
  <2>1. ASSUME NEW i \in 1..Len(a), a[i].k = "art" PROVE i + 1 \in 1..Len(a) /\ IsWord(a[i + 1])
    <3>1. i \in 1..Len(t) /\ t[i].k = "art" /\ i \in 1..n
      BY <1>2, <1>4, <2>1
    <3>2. i + 1 \in 1..Len(t) /\ IsWord(t[i + 1])
      BY <1>1, <3>1
    <3>3. i # n
      BY <1>2, <1>6, <3>1, <3>2
    <3>4. i + 1 \in 1..n
      BY <1>2, <3>1, <3>3
    <3> QED
      BY <1>4, <3>2, <3>4
  <2> QED
    BY <1>4, <2>1, GoesOnIs
<1> QED
  BY <1>3, <1>5, <1>6

LEMMA GoesOnJoined ==
    ASSUME NEW N, NEW a \in Prose(N), NEW b \in Prose(N), ArticlesGoOn(a), ArticlesGoOn(b)
    PROVE  ArticlesGoOn(a \o b)
<1>1. PICK m, n, c : m = Len(a) /\ n = Len(b) /\ c = a \o b
  OBVIOUS
<1>2. m \in Nat /\ n \in Nat /\ a \in Seq(Tokens(N)) /\ b \in Seq(Tokens(N))
  BY <1>1 DEF Prose
<1>3. c \in Prose(N) /\ Len(c) = m + n
  BY <1>1, <1>2, TellsJoin
<1>4. (\A i \in 1..m : c[i] = a[i]) /\ (\A i \in 1..n : c[m + i] = b[i])
  BY <1>1, <1>2
<1>5. ASSUME NEW i \in 1..(m + n), c[i].k = "art" PROVE i + 1 \in 1..(m + n) /\ IsWord(c[i + 1])
  <2>1. CASE i <= m
    <3>1. i \in 1..m /\ a[i].k = "art"
      BY <1>2, <1>4, <1>5, <2>1
    <3>2. i + 1 \in 1..m /\ IsWord(a[i + 1])
      BY <1>1, <3>1, GoesOnIs
    <3> QED
      BY <1>2, <1>4, <3>2
  <2>2. CASE i > m
    <3>1. PICK j : j = i - m
      OBVIOUS
    <3>2. j \in 1..n /\ i = m + j /\ i + 1 = m + (j + 1)
      BY <1>2, <2>2, <3>1
    <3>3. b[j].k = "art"
      BY <1>4, <1>5, <3>2
    <3>4. j + 1 \in 1..n /\ IsWord(b[j + 1])
      BY <1>1, <3>2, <3>3, GoesOnIs
    <3>5. c[m + (j + 1)] = b[j + 1]
      BY <1>4, <3>4
    <3> QED
      BY <1>2, <3>2, <3>4, <3>5
  <2> QED
    BY <1>2, <2>1, <2>2
<1> QED
  BY <1>1, <1>3, <1>5, GoesOnIs

LEMMA GoesOnAfter ==
    ASSUME NEW N, NEW a \in Prose(N), NEW b \in Prose(N), ArticlesGoOn(a), ArticlesGoOn(b)
    PROVE  ArticlesGoOn(AfterPara(a, b))
<1>1. PICK para : para = <<Para>>
  OBVIOUS
<1>2. para \in Prose(N) /\ ArticlesGoOn(para)
  <2>1. Para.k = "para"
    BY DEF Para
  <2> QED
    BY <1>1, <2>1, PlainTokens DEF Prose, ArticlesGoOn
<1>3. a \o para \in Prose(N) /\ ArticlesGoOn(a \o para)
  BY <1>2, TellsJoin, GoesOnJoined
<1>4. ArticlesGoOn(a \o para \o b)
  BY <1>3, GoesOnJoined
<1> QED
  BY <1>1, <1>4 DEF AfterPara

LEMMA GoesOnTrimmed ==
    ASSUME NEW N, NEW t \in Prose(N), ArticlesGoOn(t)
    PROVE  ArticlesGoOn(TrimStart(t)) /\ ArticlesGoOn(TrimEnd(t)) /\ ArticlesGoOn(Trimmed(t))
<1>1. ASSUME NEW s \in Prose(N), ArticlesGoOn(s) PROVE ArticlesGoOn(TrimStart(s))
  <2>1. CASE WordsAt(s) = {}
    BY <2>1, GoesOnIs DEF TrimStart
  <2>2. CASE WordsAt(s) # {}
    <3>1. WordsAt(s) \subseteq 1..Len(s) /\ WordsAt(s) \subseteq Nat
      BY WordsAtAre DEF Prose
    <3>2. PICK i : i = Min(WordsAt(s))
      OBVIOUS
    <3>3. i \in 1..Len(s)
      BY <2>2, <3>1, <3>2, MinIsIn
    <3>4. i - 1 \in 0..Len(s) /\ (i - 1) + 1 = i
      BY <3>3, GoesOnIs
    <3>5. ArticlesGoOn(From(s, i))
      BY <1>1, <3>4, GoesOnFrom
    <3> QED
      BY <2>2, <3>2, <3>5 DEF TrimStart
  <2> QED
    BY <2>1, <2>2
<1>2. ArticlesGoOn(TrimEnd(t))
  <2>1. CASE WordsAt(t) = {}
    BY <2>1, GoesOnIs DEF TrimEnd
  <2>2. CASE WordsAt(t) # {}
    <3>1. /\ WordsAt(t) \subseteq 1..Len(t) /\ WordsAt(t) \subseteq 0..Len(t)
          /\ Len(t) \in Nat /\ DOMAIN t = 1..Len(t)
      BY WordsAtAre DEF Prose
    <3>2. PICK i : i = Max(WordsAt(t))
      OBVIOUS
    <3>3. i \in 1..Len(t) /\ \A j \in WordsAt(t) : j <= i
      BY <2>2, <3>1, <3>2, MaxIsIn
    <3>4. t[i].k # "art"
      <4>1. SUFFICES ASSUME t[i].k = "art" PROVE FALSE
        OBVIOUS
      <4>2. i + 1 \in 1..Len(t) /\ IsWord(t[i + 1])
        BY <3>3, <4>1, GoesOnIs
      <4>3. i + 1 \in WordsAt(t)
        BY <3>1, <4>2 DEF WordsAt
      <4> QED
        BY <3>3, <4>3
    <3>5. i \in 0..Len(t)
      BY <3>3
    <3>6. ArticlesGoOn(Cut(t, i))
      BY <3>4, <3>5, GoesOnFrom
    <3> QED
      BY <2>2, <3>2, <3>6 DEF TrimEnd
  <2> QED
    BY <2>1, <2>2
<1>3. TrimEnd(t) \in Prose(N)
  BY TrimmedInProse
<1> QED
  BY <1>1, <1>2, <1>3 DEF Trimmed

LEMMA GoesOnInSentence ==
    ASSUME NEW N, NEW text \in Prose(N), ArticlesGoOn(text)
    PROVE  /\ ArticlesGoOn(TakeLeadingSentence(text).first)
           /\ ArticlesGoOn(TakeLeadingSentence(text).rest)
<1>0. PICK i : PartedAt(text, i)
  BY LeadingSentenceIs
<1>1. PICK t : /\ t = TrimStart(text) /\ i \in 0..Len(t)
               /\ TakeLeadingSentence(text).first = Trimmed(Cut(t, i))
               /\ TakeLeadingSentence(text).rest = TrimStart(From(t, i + 1))
               /\ i = Len(t) \/ t[i].k \in Stops \cup {"emoji", "para"}
  BY <1>0 DEF PartedAt
<1>2. t \in Prose(N) /\ ArticlesGoOn(t)
  BY <1>1, TrimmedInProse, GoesOnTrimmed
<1>3. i = Len(t) \/ t[i].k # "art"
  BY <1>1 DEF Stops
<1>4. Cut(t, i) \in Prose(N) /\ From(t, i + 1) \in Prose(N)
  BY <1>1, <1>2, PartsOfList
<1>5. ArticlesGoOn(Cut(t, i)) /\ ArticlesGoOn(From(t, i + 1))
  BY <1>1, <1>2, <1>3, GoesOnFrom
<1>6. ArticlesGoOn(Trimmed(Cut(t, i))) /\ ArticlesGoOn(TrimStart(From(t, i + 1)))
  BY <1>4, <1>5, GoesOnTrimmed
<1> QED
  BY <1>1, <1>6

LEMMA PiecesOfSentence ==
    ASSUME NEW N, NEW W, NEW part \in Pieces(N, W), NEW limit
    PROVE  TakeSentence(part, limit) \in Pieces(N, W)
<1>1. PICK next : next = TakeLeadingSentence(part.rest)
  OBVIOUS
<1>2. /\ part \in Parts(N) /\ part.piece \in Prose(N) /\ part.rest \in Prose(N)
      /\ Tells(part.piece) \cup Tells(part.rest) = W /\ ArticlesGoOn(part.rest)
  BY DEF Pieces, Parts
<1>3. next.first \in Prose(N) /\ next.rest \in Prose(N)
  BY <1>1, <1>2, LeadingSentenceInProse
<1>4. Tells(part.rest) = Tells(next.first) \cup Tells(next.rest) /\ ArticlesGoOn(next.rest)
  BY <1>1, <1>2, TellsOfSentence, GoesOnInSentence
<1>5. PICK longer : longer = AfterSpace(part.piece, next.first)
  OBVIOUS
<1>6. longer \in Prose(N) /\ Tells(longer) = Tells(part.piece) \cup Tells(next.first)
  <2>1. PICK a, b : a = part.piece /\ b = next.first
    OBVIOUS
  <2>2. a \in Prose(N) /\ b \in Prose(N) /\ longer = AfterSpace(a, b)
    BY <1>2, <1>3, <1>5, <2>1
  <2>3. AfterSpace(a, b) \in Prose(N)
    BY <2>2, AfterInProse
  <2>4. Tells(AfterSpace(a, b)) = Tells(a) \cup Tells(b)
    BY <2>2, TellsAfter
  <2> QED
    BY <2>1, <2>2, <2>3, <2>4
<1>7. PICK new : new = [piece |-> longer, rest |-> next.rest]
  OBVIOUS
<1>8. new.piece = longer /\ new.rest = next.rest /\ new \in Parts(N)
  BY <1>3, <1>6, <1>7, PartIs
<1>9. Tells(new.piece) \cup Tells(new.rest) = W /\ ArticlesGoOn(new.rest)
  BY <1>2, <1>4, <1>6, <1>8
<1>10. new \in Pieces(N, W)
  BY <1>8, <1>9 DEF Pieces
<1> QED
  BY <1>1, <1>5, <1>7, <1>10 DEF TakeSentence

LEMMA PiecesOfSentences ==
    ASSUME NEW N, NEW t \in Prose(N), ArticlesGoOn(t), NEW limit
    PROVE  SentencesFitting(t, limit) \in Pieces(N, Tells(t))
<1>1. PICK X, len : X = Pieces(N, Tells(t)) /\ len = Len(t)
  OBVIOUS
<1>2. len \in Nat
  BY <1>1, GoesOnIs
<1>3. PICK run : /\ run[0].piece = <<>> /\ run[0].rest = t /\ run[len] = SentencesFitting(t, limit)
                 /\ \A n \in 0..len : run[n] \in Parts(N)
                 /\ \A n \in 1..len : run[n] = TakeSentence(run[n - 1], limit)
  BY <1>1, SentencesRuns
<1>4. run[0] \in X
  <2>1. run[0] \in Parts(N)
    BY <1>2, <1>3
  <2>2. Tells(run[0].piece) \cup Tells(run[0].rest) = Tells(t) /\ ArticlesGoOn(run[0].rest)
    BY <1>3, TellsNone
  <2> QED
    BY <1>1, <2>1, <2>2 DEF Pieces
<1>5. ASSUME NEW n \in 1..len, run[n - 1] \in X PROVE run[n] \in X
  BY <1>1, <1>3, <1>5, PiecesOfSentence
<1>6. \A n \in 0..len : run[n] \in X
  BY <1>2, <1>4, <1>5, LoopStays
<1> QED
  BY <1>1, <1>2, <1>3, <1>6

LEMMA PiecesOfBeat ==
    ASSUME NEW N, NEW t \in Prose(N), ArticlesGoOn(t), NEW limit
    PROVE  TakeSentencePrefix(t, limit) \in Pieces(N, Tells(t))
<1>1. PICK a, b : a = [piece |-> <<>>, rest |-> t] /\ b = [piece |-> t, rest |-> <<>>]
  OBVIOUS
<1>2. a \in Parts(N) /\ b \in Parts(N)
  BY <1>1, NoProse, PartIs
<1>3. a.piece = <<>> /\ a.rest = t /\ b.piece = t /\ b.rest = <<>>
  BY <1>1
<1>4. /\ Tells(a.piece) \cup Tells(a.rest) = Tells(t) /\ ArticlesGoOn(a.rest)
      /\ Tells(b.piece) \cup Tells(b.rest) = Tells(t) /\ ArticlesGoOn(b.rest)
  BY <1>3, TellsNone, GoesOnIs
<1>5. a \in Pieces(N, Tells(t)) /\ b \in Pieces(N, Tells(t))
  BY <1>2, <1>4 DEF Pieces
<1>6. SentencesFitting(t, limit) \in Pieces(N, Tells(t))
  BY PiecesOfSentences
<1> QED
  BY <1>1, <1>5, <1>6 DEF TakeSentencePrefix

\* The places of the words, those of a torn word once.
Says(t) == {t[i].n : i \in WordsAt(t)}

LEMMA SaysIs == \A t : Says(t) = {x.n : x \in Tells(t)}
  BY DEF Says, Tells

LEMMA TellsCutList ==
    ASSUME NEW N, NEW words \in Seq(Prose(N)), NEW n \in 0..Len(words)
    PROVE  /\ Cut(words, n) \in Seq(Prose(N)) /\ From(words, n + 1) \in Seq(Prose(N))
           /\ Len(Cut(words, n)) = n /\ Len(From(words, n + 1)) = Len(words) - n
           /\ \A i \in 1..n : Cut(words, n)[i] = words[i]
           /\ \A i \in 1..(Len(words) - n) : From(words, n + 1)[i] = words[n + i]
           /\ TellsAll(words) = TellsAll(Cut(words, n)) \cup TellsAll(From(words, n + 1))
<1>1. PICK a, b, len : a = Cut(words, n) /\ b = From(words, n + 1) /\ len = Len(words)
  OBVIOUS
<1>2. len \in Nat /\ DOMAIN words = 1..len /\ n \in 0..len
  BY <1>1
<1>3. a \in Seq(Prose(N)) /\ b \in Seq(Prose(N))
  BY <1>1, CutInSeq
<1>4. Len(a) = n /\ \A i \in 1..n : a[i] = words[i]
  <2>1. \A i \in 1..n : words[i] \in Prose(N)
    BY <1>1, <1>2
  <2> QED
    BY <1>1, <1>2, <2>1, SubSeqProperties DEF Cut
<1>5. Len(b) = len - n /\ \A i \in 1..(len - n) : b[i] = words[n + i]
  <2>1. \A i \in (n + 1)..len : words[i] \in Prose(N)
    BY <1>1, <1>2
  <2>2. Len(b) = len - n /\ \A i \in 1..(len - n) : b[i] = words[n + 1 + i - 1]
    BY <1>1, <1>2, <2>1, SubSeqProperties DEF From
  <2>3. \A i \in 1..(len - n) : n + 1 + i - 1 = n + i
    BY <1>2
  <2> QED
    BY <2>2, <2>3
<1>6. DOMAIN a = 1..n /\ DOMAIN b = 1..(len - n)
  BY <1>3, <1>4, <1>5
<1>7. \A x : x \in TellsAll(a) <=> \E i \in 1..n : x \in Tells(words[i])
  BY <1>4, <1>6 DEF TellsAll
<1>8. \A x : x \in TellsAll(b) <=> \E i \in 1..(len - n) : x \in Tells(words[n + i])
  BY <1>5, <1>6 DEF TellsAll
<1>9. \A x : x \in TellsAll(words) <=> \E i \in 1..len : x \in Tells(words[i])
  BY <1>2 DEF TellsAll
<1>10. \A i \in 1..len : i \in 1..n \/ \E j \in 1..(len - n) : i = n + j
  <2> TAKE i \in 1..len
  <2>1. CASE i > n
    <3>1. i - n \in 1..(len - n) /\ i = n + (i - n)
      BY <1>2, <2>1
    <3> QED
      BY <3>1
  <2> QED
    BY <1>2, <2>1
<1>11. (\A i \in 1..n : i \in 1..len) /\ (\A j \in 1..(len - n) : n + j \in 1..len)
  BY <1>2
<1>12. TellsAll(words) = TellsAll(a) \cup TellsAll(b)
  BY <1>7, <1>8, <1>9, <1>10, <1>11
<1> QED
  BY <1>1, <1>3, <1>4, <1>5, <1>12

\* As many words of a text as there are, and the others.
LEMMA TellsOfSplit ==
    ASSUME NEW N, NEW t \in Prose(N), NEW n \in 0..Len(SplitWords(t))
    PROVE  Tells(t) = Tells(JoinWords(Cut(SplitWords(t), n))) \cup Tells(JoinWords(From(SplitWords(t), n + 1)))
<1>1. PICK words, a, b : words = SplitWords(t) /\ a = Cut(words, n) /\ b = From(words, n + 1)
  OBVIOUS
<1>2. words \in Seq(Prose(N)) /\ n \in 0..Len(words)
  BY <1>1, SplitWordsInProse, WordIsProse
<1>3. a \in Seq(Prose(N)) /\ b \in Seq(Prose(N)) /\ TellsAll(words) = TellsAll(a) \cup TellsAll(b)
  BY <1>1, <1>2, TellsCutList
<1>4. Tells(JoinWords(a)) = TellsAll(a) /\ Tells(JoinWords(b)) = TellsAll(b) /\ TellsAll(words) = Tells(t)
  BY <1>1, <1>3, TellsJoined, TellsOfWords
<1> QED
  BY <1>1, <1>3, <1>4

\* An article goes on, but for the last token of the text.
GoesOnWithin(t) == \A i \in 1..(Len(t) - 1) : t[i].k = "art" => IsWord(t[i + 1])

\* Words one after another, the last of them as it ends.
WordsWithin(N, word) ==
    {x \in Prose(N) : GoesOnWithin(x) /\ x # <<>> /\ x[Len(x)] = word[Len(word)]}

LEMMA WordsGrow ==
    ASSUME NEW N, NEW x \in Prose(N), GoesOnWithin(x), NEW w \in Word(N)
    PROVE  AfterSpace(x, w) \in WordsWithin(N, w)
<1>1. PICK m, n : m = Len(x) /\ n = Len(w)
  OBVIOUS
<1>2. /\ x \in Seq(Tokens(N)) /\ w \in Seq(Tokens(N)) /\ w \in Prose(N) /\ m \in Nat /\ n \in Nat /\ n >= 1
      /\ \A i \in 1..n : IsWord(w[i])
  BY <1>1 DEF Word, Prose
<1>3. AfterSpace(x, w) \in Prose(N)
  BY <1>2, AfterInProse
<1>4. CASE AfterSpace(x, w) = x \o w
  <2>1. PICK c : c = x \o w
    OBVIOUS
  <2>2. c \in Seq(Tokens(N)) /\ Len(c) = m + n
    BY <1>1, <1>2, <2>1
  <2>3. (\A i \in 1..m : c[i] = x[i]) /\ (\A i \in 1..n : c[m + i] = w[i])
    BY <1>1, <1>2, <2>1
  <2>4. ASSUME NEW i \in 1..(m + n - 1), c[i].k = "art" PROVE IsWord(c[i + 1])
    <3>1. CASE i < m
      <4>1. i \in 1..(m - 1) /\ i \in 1..m /\ i + 1 \in 1..m
        BY <1>2, <3>1
      <4> QED
        BY <1>1, <2>3, <2>4, <4>1 DEF GoesOnWithin
    <3>2. CASE i >= m
      <4>1. PICK j : j = i + 1 - m
        OBVIOUS
      <4>2. j \in 1..n /\ i + 1 = m + j
        BY <1>2, <3>2, <4>1
      <4> QED
        BY <1>2, <2>3, <4>2
    <3> QED
      BY <1>2, <3>1, <3>2
  <2>5. c[m + n] = w[n] /\ c # <<>>
    BY <1>2, <2>2, <2>3
  <2>6. GoesOnWithin(c)
    <3>1. \A i \in 1..(Len(c) - 1) : i \in 1..(m + n - 1)
      BY <1>2, <2>2
    <3> QED
      BY <2>4, <3>1 DEF GoesOnWithin
  <2> QED
    BY <1>1, <1>3, <1>4, <2>1, <2>2, <2>5, <2>6 DEF WordsWithin
<1>5. CASE AfterSpace(x, w) # x \o w
  <2>1. x # <<>> /\ Joined(<<Last(x), w[1]>>, 1) /\ AfterSpace(x, w) = x \o <<Gap>> \o w
    BY <1>5 DEF AfterSpace
  <2>2. m >= 1 /\ Last(x) = x[m]
    BY <1>1, <1>2, <2>1 DEF Last
  <2>3. x[m].k # "art"
    BY <2>1, <2>2 DEF Joined
  <2>4. PICK gap, c : gap = <<Gap>> /\ c = x \o gap \o w
    OBVIOUS
  <2>5. Len(gap) = 1 /\ gap[1].k = "gap" /\ gap \in Seq(Tokens(N))
    BY <2>4, PlainTokens DEF Gap
  <2>6. c \in Seq(Tokens(N)) /\ Len(c) = m + 1 + n
    BY <1>1, <1>2, <2>4, <2>5
  <2>7. (\A i \in 1..m : c[i] = x[i]) /\ c[m + 1].k = "gap" /\ (\A i \in 1..n : c[m + 1 + i] = w[i])
    BY <1>1, <1>2, <2>4, <2>5
  <2>8. ASSUME NEW i \in 1..(m + n), c[i].k = "art" PROVE IsWord(c[i + 1])
    <3>1. CASE i < m
      <4>1. i \in 1..(m - 1) /\ i \in 1..m /\ i + 1 \in 1..m
        BY <1>2, <3>1
      <4> QED
        BY <1>1, <2>7, <2>8, <4>1 DEF GoesOnWithin
    <3>2. CASE i = m
      <4>1. m \in 1..m
        BY <1>2, <2>2
      <4> QED
        BY <2>3, <2>7, <2>8, <3>2, <4>1
    <3>3. CASE i > m
      <4>1. PICK j : j = i - m
        OBVIOUS
      <4>2. j \in 1..n /\ i + 1 = m + 1 + j
        BY <1>2, <3>3, <4>1
      <4> QED
        BY <1>2, <2>7, <4>2
    <3> QED
      BY <1>2, <3>1, <3>2, <3>3
  <2>9. c[m + 1 + n] = w[n] /\ c # <<>>
    BY <1>2, <2>6, <2>7
  <2>10. \A i \in 1..(Len(c) - 1) : i \in 1..(m + n)
    BY <1>2, <2>6
  <2>11. GoesOnWithin(c)
    BY <2>8, <2>10 DEF GoesOnWithin
  <2> QED
    BY <1>1, <1>3, <2>1, <2>4, <2>6, <2>9, <2>11 DEF WordsWithin
<1> QED
  BY <1>4, <1>5

LEMMA GoesOnWords ==
    ASSUME NEW N, NEW words \in Seq(Word(N)),
           words # <<>> => words[Len(words)][Len(words[Len(words)])].k # "art"
    PROVE  ArticlesGoOn(JoinWords(words))
<1>1. PICK len : len = Len(words)
  OBVIOUS
<1>2. len \in Nat /\ words \in Seq(Prose(N)) /\ \A n \in 1..len : words[n] \in Word(N)
  BY <1>1, WordIsProse
<1>3. PICK run : /\ run[0] = <<>> /\ run[len] = JoinWords(words)
                 /\ \A n \in 0..len : run[n] \in Prose(N)
                 /\ \A n \in 1..len : run[n] = AfterSpace(run[n - 1], words[n])
  BY <1>1, <1>2, JoinWordsRuns
<1>4. PICK X : X = {x \in Prose(N) : GoesOnWithin(x)}
  OBVIOUS
<1>5. run[0] \in X
  <2>1. GoesOnWithin(<<>>)
    BY DEF GoesOnWithin
  <2> QED
    BY <1>3, <1>4, <2>1, NoProse
<1>6. ASSUME NEW n \in 1..len, run[n - 1] \in X PROVE run[n] \in WordsWithin(N, words[n])
  <2>1. PICK x, w : x = run[n - 1] /\ w = words[n]
    OBVIOUS
  <2>2. x \in Prose(N) /\ GoesOnWithin(x) /\ w \in Word(N)
    BY <1>2, <1>4, <1>6, <2>1
  <2>3. AfterSpace(x, w) \in WordsWithin(N, w)
    BY <2>2, WordsGrow
  <2> QED
    BY <1>3, <2>1, <2>3
<1>7. \A n \in 0..len : run[n] \in X
  <2>1. ASSUME NEW n \in 1..len, run[n - 1] \in X PROVE run[n] \in X
    BY <1>4, <1>6, <2>1 DEF WordsWithin
  <2> QED
    BY <1>2, <1>5, <2>1, LoopStays
<1>8. CASE len = 0
  BY <1>3, <1>8, NoProse, GoesOnIs
<1>9. CASE len # 0
  <2>1. len \in 1..len /\ len - 1 \in 0..len /\ words # <<>>
    BY <1>1, <1>2, <1>9
  <2>2. PICK t : t = run[len]
    OBVIOUS
  <2>3. t \in WordsWithin(N, words[len])
    BY <1>6, <1>7, <2>1, <2>2
  <2>4. t \in Prose(N) /\ GoesOnWithin(t) /\ t # <<>> /\ t[Len(t)].k # "art"
    BY <1>1, <2>1, <2>3 DEF WordsWithin
  <2>5. ASSUME NEW i \in 1..Len(t), t[i].k = "art" PROVE i + 1 \in 1..Len(t) /\ IsWord(t[i + 1])
    <3>1. Len(t) \in Nat /\ i # Len(t)
      BY <2>4, <2>5, GoesOnIs
    <3>2. i \in 1..(Len(t) - 1) /\ i + 1 \in 1..Len(t)
      BY <3>1
    <3> QED
      BY <2>4, <2>5, <3>2 DEF GoesOnWithin
  <2>6. ArticlesGoOn(t)
    BY <2>4, <2>5, GoesOnIs
  <2> QED
    BY <1>3, <2>2, <2>6
<1> QED
  BY <1>8, <1>9

\* The words of a text that goes on do not end with an article.
LEMMA LastWordEnds ==
    ASSUME NEW N, NEW t \in Prose(N), ArticlesGoOn(t), SplitWords(t) # <<>>
    PROVE  LET last == SplitWords(t)[Len(SplitWords(t))] IN last[Len(last)].k # "art"
<1>1. Len(t) \in Nat /\ \A i \in 1..Len(t) : t[i].k = "art" => i + 1 \in 1..Len(t) /\ IsWord(t[i + 1])
  BY GoesOnIs
<1>2. PICK words, len, starts :
          /\ words = SplitWords(t) /\ len = Len(words)
          /\ starts = {i \in 1..Len(t) : IsWord(t[i]) /\ (i = 1 \/ ~Joined(t, i - 1))}
  OBVIOUS
<1>3. words \in Seq(Word(N)) /\ len \in Nat /\ len >= 1
  BY <1>2, SplitWordsInProse
<1>4. PICK at \in [1..len -> starts] :
          /\ \A k \in 1..len : words[k] = Cut(From(t, at[k]), FirstWordLen(From(t, at[k])))
          /\ \A j, k \in 1..len : j < k => at[j] < at[k]
          /\ \A i \in starts : \E k \in 1..len : at[k] = i
  BY <1>2, WordsAre
<1>5. PICK i : i = at[len]
  OBVIOUS
<1>6. i \in starts /\ i \in 1..Len(t) /\ IsWord(t[i])
  BY <1>2, <1>3, <1>4, <1>5
<1>7. PICK w, n : /\ w = Cut(From(t, i), FirstWordLen(From(t, i))) /\ w \in Word(N)
                  /\ n = Len(w) /\ n \in 1..(Len(t) - i + 1) /\ \A j \in 1..n : w[j] = t[i + j - 1]
                  /\ n = IF i < Len(t) /\ Joined(t, i) THEN 2 ELSE 1
  BY <1>6, WordAt
<1>8. words[len] = w
  BY <1>3, <1>4, <1>5, <1>7
<1>9. w[n].k # "art"
  <2>1. CASE n = 2
    <3>1. Joined(t, i) /\ w[2] = t[i + 2 - 1]
      BY <1>7, <2>1
    <3>2. i + 2 - 1 = i + 1
      BY <1>6
    <3> QED
      BY <2>1, <3>1, <3>2 DEF Joined
  <2>2. CASE n # 2
    <3>1. n = 1 /\ w[1] = t[i + 1 - 1] /\ i + 1 - 1 = i
      BY <1>6, <1>7, <2>2
    <3>2. SUFFICES ASSUME t[i].k = "art" PROVE FALSE
      BY <3>1
    <3>3. i + 1 \in 1..Len(t) /\ IsWord(t[i + 1])
      BY <1>1, <1>6, <3>2
    <3>4. ~Joined(t, i)
      BY <3>2 DEF Joined
    <3>5. PICK s : s = i + 1
      OBVIOUS
    <3>6. s \in starts
      <4>1. s \in 1..Len(t) /\ IsWord(t[s]) /\ s - 1 = i
        BY <1>6, <3>3, <3>5
      <4> QED
        BY <1>2, <3>4, <4>1
    <3>7. PICK k \in 1..len : at[k] = i + 1
      BY <1>4, <3>5, <3>6
    <3>8. k = len \/ at[k] < at[len]
      BY <1>3, <1>4
    <3> QED
      BY <1>5, <1>6, <3>7, <3>8
  <2> QED
    BY <2>1, <2>2
<1> QED
  BY <1>2, <1>7, <1>8, <1>9

LEMMA GoesOnRest ==
    ASSUME NEW N, NEW t \in Prose(N), ArticlesGoOn(t), NEW n \in 0..Len(SplitWords(t))
    PROVE  ArticlesGoOn(JoinWords(From(SplitWords(t), n + 1)))
<1>1. PICK words, rest, len, m : /\ words = SplitWords(t) /\ rest = From(words, n + 1)
                                 /\ len = Len(words) /\ m = Len(rest)
  OBVIOUS
<1>2. words \in Seq(Word(N)) /\ len \in Nat /\ n \in 0..len /\ words \in Seq(Prose(N))
  BY <1>1, SplitWordsInProse, WordIsProse
<1>3. m = len - n /\ \A i \in 1..(len - n) : rest[i] = words[n + i]
  BY <1>1, <1>2, TellsCutList
<1>4. rest \in Seq(Word(N))
  BY <1>1, <1>2, CutInSeq
<1>5. ASSUME rest # <<>> PROVE rest[m][Len(rest[m])].k # "art"
  <2>1. m \in Nat /\ m # 0
    BY <1>1, <1>4, <1>5
  <2>2. m \in 1..(len - n) /\ n + m = len /\ words # <<>>
    <3>1. m \in 1..(len - n) /\ n + m = len /\ len >= 1
      BY <1>2, <1>3, <2>1
    <3>2. words # <<>>
      BY <1>1, <1>2, <3>1
    <3> QED
      BY <3>1, <3>2
  <2>3. rest[m] = words[len]
    BY <1>3, <2>2
  <2>4. words[len][Len(words[len])].k # "art"
    BY <1>1, <2>2, LastWordEnds
  <2> QED
    BY <2>3, <2>4
<1> QED
  BY <1>1, <1>4, <1>5, GoesOnWords

\* A text that starts with a word, and the first of its words.
LEMMA FirstWord ==
    ASSUME NEW N, NEW t \in Prose(N), t # <<>>, IsWord(t[1])
    PROVE  /\ SplitWords(t) # <<>>
           /\ Len(SplitWords(t)[1]) \in 1..Len(t)
           /\ SplitWords(t)[1] = Cut(t, Len(SplitWords(t)[1]))
           /\ Len(SplitWords(t)[1]) <= 2
<1>1. PICK words, len, starts :
          /\ words = SplitWords(t) /\ len = Len(words)
          /\ starts = {i \in 1..Len(t) : IsWord(t[i]) /\ (i = 1 \/ ~Joined(t, i - 1))}
  OBVIOUS
<1>2. words \in Seq(Word(N)) /\ len \in Nat /\ Len(t) \in Nat /\ Len(t) >= 1
  BY <1>1, SplitWordsInProse DEF Prose
<1>3. PICK at \in [1..len -> starts] :
          /\ \A k \in 1..len : words[k] = Cut(From(t, at[k]), FirstWordLen(From(t, at[k])))
          /\ \A j, k \in 1..len : j < k => at[j] < at[k]
          /\ \A i \in starts : \E k \in 1..len : at[k] = i
  BY <1>1, WordsAre
<1>4. 1 \in starts
  BY <1>1, <1>2
<1>5. PICK k \in 1..len : at[k] = 1
  BY <1>3, <1>4
<1>6. 1 \in 1..len /\ (k = 1 \/ at[1] < at[k]) /\ at[1] \in 1..Len(t)
  BY <1>1, <1>2, <1>3, <1>5
<1>7. at[1] = 1
  BY <1>5, <1>6
<1>8. PICK w, n : /\ w = Cut(From(t, 1), FirstWordLen(From(t, 1))) /\ w \in Word(N)
                  /\ n = Len(w) /\ n \in 1..(Len(t) - 1 + 1) /\ \A j \in 1..n : w[j] = t[1 + j - 1]
                  /\ n = IF 1 < Len(t) /\ Joined(t, 1) THEN 2 ELSE 1
  <2>1. 1 \in 1..Len(t)
    BY <1>2
  <2> QED
    BY <2>1, WordAt
<1>9. words[1] = w /\ words # <<>>
  BY <1>1, <1>3, <1>6, <1>7, <1>8
<1>10. n \in 1..Len(t) /\ n <= 2
  BY <1>2, <1>8
<1>11. w = Cut(t, n)
  <2>1. PICK c : c = Cut(t, n)
    OBVIOUS
  <2>2. n \in 0..Len(t)
    BY <1>10
  <2>3. c \in Prose(N) /\ Len(c) = n /\ \A j \in 1..n : c[j] = t[j]
    BY <2>1, <2>2, PartsOfList
  <2>4. \A j \in 1..n : w[j] = t[j]
    <3>1. \A j \in 1..n : 1 + j - 1 = j
      BY <1>10
    <3> QED
      BY <1>8, <3>1
  <2>5. w \in Seq(Tokens(N)) /\ c \in Seq(Tokens(N)) /\ Len(w) = Len(c) /\ \A j \in 1..Len(c) : w[j] = c[j]
    BY <1>8, <2>3, <2>4 DEF Word, Prose
  <2>6. w = c
    BY <2>5
  <2> QED
    BY <2>1, <2>6
<1> QED
  BY <1>1, <1>8, <1>9, <1>10, <1>11

LEMMA NoSplitWords == SplitWords(<<>>) = <<>>
<1>1. PICK N : N = Nat
  OBVIOUS
<1>2. PICK words, t : t = <<>> /\ words = SplitWords(t)
  OBVIOUS
<1>3. t \in Prose(N) /\ Len(t) = 0
  BY <1>2, NoProse
<1>4. words \in Seq(Word(N)) /\ Len(words) \in Nat
  BY <1>2, <1>3, SplitWordsInProse
<1>5. \E at \in [1..Len(words) -> {i \in 1..Len(t) : IsWord(t[i]) /\ (i = 1 \/ ~Joined(t, i - 1))}] : TRUE
  BY <1>2, <1>3, WordsAre
<1>6. PICK at \in [1..Len(words) -> {}] : TRUE
  BY <1>3, <1>5
<1>7. Len(words) = 0
  <2>1. SUFFICES ASSUME Len(words) # 0 PROVE FALSE
    OBVIOUS
  <2>2. 1 \in 1..Len(words)
    BY <1>4, <2>1
  <2>3. at[1] \in {}
    BY <1>6, <2>2
  <2> QED
    BY <2>3
<1> QED
  BY <1>2, <1>4, <1>7

\* A trimmed text is empty or starts with a word.
LEMMA TrimmedOpens ==
    ASSUME NEW N, NEW t \in Prose(N)
    PROVE  /\ Trimmed(t) = <<>> \/ IsWord(Trimmed(t)[1])
           /\ TrimStart(t) = <<>> \/ IsWord(TrimStart(t)[1])
<1>1. ASSUME NEW s \in Prose(N), TrimStart(s) # <<>> PROVE IsWord(TrimStart(s)[1])
  <2>1. Len(s) \in Nat /\ WordsAt(s) \subseteq 1..Len(s) /\ WordsAt(s) \subseteq Nat
    BY WordsAtAre DEF Prose
  <2>2. WordsAt(s) # {}
    BY <1>1 DEF TrimStart
  <2>3. PICK i : i = Min(WordsAt(s))
    OBVIOUS
  <2>4. i \in WordsAt(s) /\ i \in 1..Len(s)
    BY <2>1, <2>2, <2>3, MinIsIn
  <2>5. IsWord(s[i]) /\ Len(s) \in i..Len(s)
    BY <2>1, <2>4 DEF WordsAt
  <2>6. \A j \in 1..(Len(s) - i + 1) : SubSeq(s, i, Len(s))[j] = s[i + j - 1]
    BY <2>4, <2>5, StretchIs
  <2>7. 1 \in 1..(Len(s) - i + 1) /\ i + 1 - 1 = i
    BY <2>1, <2>4
  <2>8. SubSeq(s, i, Len(s))[1] = s[i]
    BY <2>6, <2>7
  <2>9. TrimStart(s) = SubSeq(s, i, Len(s))
    BY <2>2, <2>3 DEF TrimStart, From
  <2> QED
    BY <2>5, <2>8, <2>9
<1>2. TrimEnd(t) \in Prose(N)
  BY TrimmedInProse
<1> QED
  BY <1>1, <1>2 DEF Trimmed

\* The articles a text starts with are its first words, each a token.
LEMMA FirstArticlesAre ==
    ASSUME NEW N, NEW t \in Prose(N), t # <<>>, IsWord(t[1]), ArticlesGoOn(t),
           NEW fit \in 1..Len(SplitWords(t)), \A m \in 1..fit : SplitWords(t)[m][1].k = "art"
    PROVE  fit \in 0..Len(t) /\ \A m \in 1..fit : t[m].k = "art" /\ SplitWords(t)[m] = <<t[m]>>
<1>1. PICK words, len, starts :
          /\ words = SplitWords(t) /\ len = Len(words)
          /\ starts = {i \in 1..Len(t) : IsWord(t[i]) /\ (i = 1 \/ ~Joined(t, i - 1))}
  OBVIOUS
<1>2. words \in Seq(Word(N)) /\ len \in Nat /\ Len(t) \in Nat /\ Len(t) >= 1 /\ fit \in 1..len /\ fit \in Nat
  BY <1>1, SplitWordsInProse DEF Prose
<1>3. PICK at \in [1..len -> starts] :
          /\ \A k \in 1..len : words[k] = Cut(From(t, at[k]), FirstWordLen(From(t, at[k])))
          /\ \A j, k \in 1..len : j < k => at[j] < at[k]
          /\ \A i \in starts : \E k \in 1..len : at[k] = i
  BY <1>1, WordsAre
<1>4. \A i \in 1..Len(t) : t[i].k = "art" => i + 1 \in 1..Len(t) /\ IsWord(t[i + 1])
  BY GoesOnIs
<1>5. \A k \in 1..len : at[k] \in 1..Len(t) /\ IsWord(t[at[k]])
  BY <1>1, <1>3
<1>6. ASSUME NEW m \in 1..fit, at[m] = m PROVE t[m].k = "art" /\ words[m] = <<t[m]>>
  <2>1. m \in 1..len /\ m \in 1..Len(t) /\ IsWord(t[m])
    BY <1>2, <1>5, <1>6
  <2>2. PICK w, n : /\ w = Cut(From(t, m), FirstWordLen(From(t, m))) /\ w \in Word(N)
                    /\ n = Len(w) /\ n \in 1..(Len(t) - m + 1) /\ \A j \in 1..n : w[j] = t[m + j - 1]
                    /\ n = IF m < Len(t) /\ Joined(t, m) THEN 2 ELSE 1
    BY <2>1, WordAt
  <2>3. words[m] = w
    BY <1>3, <1>6, <2>1, <2>2
  <2>4. w[1] = t[m]
    <3>1. 1 \in 1..n /\ m + 1 - 1 = m
      BY <2>1, <2>2
    <3> QED
      BY <2>2, <3>1
  <2>5. t[m].k = "art"
    BY <1>1, <2>3, <2>4
  <2>6. n = 1
    BY <2>2, <2>5 DEF Joined
  <2>7. w \in Seq(Tokens(N)) /\ Len(w) = 1
    BY <2>2, <2>6 DEF Word, Prose
  <2>8. w = <<t[m]>>
    BY <2>4, <2>7
  <2> QED
    BY <2>3, <2>5, <2>8
<1>7. PICK T : T = {m \in 0..fit : \A h \in 1..m : at[h] = h}
  OBVIOUS
<1>8. 0 \in T
  BY <1>2, <1>7
<1>9. ASSUME NEW m \in 1..fit, m - 1 \in T PROVE m \in T
  <2>1. \A h \in 1..(m - 1) : at[h] = h
    BY <1>7, <1>9
  <2>2. m \in starts
    <3>1. CASE m = 1
      BY <1>1, <1>2, <3>1
    <3>2. CASE m # 1
      <4>1. PICK l : l = m - 1
        OBVIOUS
      <4>2. l \in 1..fit /\ l \in 1..(m - 1) /\ l + 1 = m
        BY <1>2, <3>2, <4>1
      <4>3. at[l] = l
        BY <2>1, <4>2
      <4>4. t[l].k = "art" /\ l \in 1..Len(t)
        BY <1>2, <1>5, <1>6, <4>2, <4>3
      <4>5. m \in 1..Len(t) /\ IsWord(t[m])
        BY <1>4, <4>2, <4>4
      <4>6. ~Joined(t, l)
        BY <4>4 DEF Joined
      <4> QED
        BY <1>1, <4>1, <4>5, <4>6
    <3> QED
      BY <3>1, <3>2
  <2>3. PICK k \in 1..len : at[k] = m
    BY <1>3, <2>2
  <2>4. k >= m
    <3>1. SUFFICES ASSUME k < m PROVE FALSE
      BY <1>2
    <3>2. k \in 1..(m - 1)
      BY <1>2, <3>1
    <3> QED
      BY <2>1, <2>3, <3>1, <3>2
  <2>5. at[m] <= m /\ m \in 1..len
    <3>1. m \in 1..len /\ at[m] \in 1..Len(t)
      BY <1>2, <1>5
    <3>2. m = k \/ at[m] < at[k]
      BY <1>2, <1>3, <2>4, <3>1
    <3> QED
      BY <1>2, <2>3, <3>1, <3>2
  <2>6. at[m] >= m
    <3>1. CASE m = 1
      BY <1>5, <2>5, <3>1
    <3>2. CASE m # 1
      <4>1. m - 1 \in 1..(m - 1) /\ m - 1 \in 1..len /\ m - 1 < m
        BY <1>2, <3>2
      <4>2. at[m - 1] = m - 1 /\ at[m - 1] < at[m]
        BY <1>3, <2>1, <2>5, <4>1
      <4>3. at[m] \in Nat
        BY <1>5, <2>5
      <4> QED
        BY <1>2, <4>2, <4>3
    <3> QED
      BY <3>1, <3>2
  <2>7. at[m] = m
    <3>1. at[m] \in Nat
      BY <1>5, <2>5
    <3> QED
      BY <2>5, <2>6, <3>1
  <2>8. \A h \in 1..m : h = m \/ h \in 1..(m - 1)
    BY <1>2
  <2> QED
    BY <1>2, <1>7, <2>1, <2>7, <2>8
<1>10. 0..fit \subseteq T
  BY <1>2, <1>8, <1>9, Induct
<1>11. \A m \in 1..fit : at[m] = m
  <2>1. fit \in T
    BY <1>2, <1>10
  <2> QED
    BY <1>7, <2>1
<1>12. fit \in 0..Len(t)
  <2>1. fit \in 1..fit
    BY <1>2
  <2> QED
    BY <1>2, <1>5, <1>11, <2>1
<1> QED
  BY <1>1, <1>6, <1>11, <1>12

LEMMA OneMore ==
    ASSUME NEW N, NEW t \in Prose(N), NEW n \in 1..Len(t)
    PROVE  Cut(t, n - 1) \o <<t[n]>> = Cut(t, n)
<1>0. PICK m : m = n - 1
  OBVIOUS
<1>1. PICK a, b, c : a = Cut(t, m) /\ b = <<t[n]>> /\ c = Cut(t, n)
  OBVIOUS
<1>2. t \in Seq(Tokens(N)) /\ Len(t) \in Nat /\ m \in Nat /\ m + 1 = n /\ m \in 0..Len(t) /\ n \in 0..Len(t)
  BY <1>0 DEF Prose
<1>3. a \in Prose(N) /\ Len(a) = m /\ \A i \in 1..m : a[i] = t[i]
  BY <1>1, <1>2, PartsOfList
<1>4. c \in Prose(N) /\ Len(c) = n /\ \A i \in 1..n : c[i] = t[i]
  BY <1>1, <1>2, PartsOfList
<1>5. b \in Prose(N) /\ Len(b) = 1 /\ b[1] = t[n]
  BY <1>1, <1>2 DEF Prose
<1>55. a \in Prose(N) /\ b \in Prose(N)
  BY <1>3, <1>5
<1>6. PICK d : d = a \o b
  OBVIOUS
<1>7. /\ d \in Prose(N) /\ Len(d) = Len(a) + Len(b)
      /\ \A i \in 1..Len(a) : d[i] = a[i]
      /\ \A i \in 1..Len(b) : d[Len(a) + i] = b[i]
  BY <1>55, <1>6, JoinIs
<1>8. Len(d) = n /\ (\A i \in 1..m : d[i] = t[i]) /\ d[n] = t[n]
  <2>1. 1 \in 1..1
    OBVIOUS
  <2> QED
    BY <1>2, <1>3, <1>5, <1>7, <2>1
<1>9. \A i \in 1..n : i \in 1..m \/ i = n
  BY <1>2
<1>10. \A i \in 1..n : d[i] = c[i]
  BY <1>4, <1>8, <1>9
<1>11. d = c
  BY <1>4, <1>7, <1>8, <1>10 DEF Prose
<1> QED
  BY <1>0, <1>1, <1>6, <1>11

LEMMA ArticlesJoined ==
    ASSUME NEW N, NEW t \in Prose(N), NEW words \in Seq(Prose(N)), NEW fit \in 0..Len(t), fit <= Len(words),
           \A m \in 1..fit : t[m].k = "art" /\ words[m] = <<t[m]>>
    PROVE  JoinWords(Cut(words, fit)) = Cut(t, fit)
<1>1. PICK list : list = Cut(words, fit)
  OBVIOUS
<1>2. fit \in Nat /\ fit \in 0..Len(words) /\ Len(t) \in Nat
  BY DEF Prose
<1>3. list \in Seq(Prose(N)) /\ Len(list) = fit /\ \A m \in 1..fit : list[m] = <<t[m]>>
  BY <1>1, <1>2, TellsCutList
<1>4. PICK run : /\ run[0] = <<>> /\ run[fit] = JoinWords(list)
                 /\ \A n \in 1..fit : run[n] = AfterSpace(run[n - 1], list[n])
  BY <1>3, JoinWordsRuns
<1>5. PICK T : T = {n \in 0..fit : run[n] = Cut(t, n)}
  OBVIOUS
<1>6. 0 \in T
  <2>1. Cut(t, 0) = <<>>
    BY DEF Cut, Prose
  <2> QED
    BY <1>2, <1>4, <1>5, <2>1
<1>7. ASSUME NEW n \in 1..fit, n - 1 \in T PROVE n \in T
  <2>1. PICK m, a, b, c : m = n - 1 /\ a = Cut(t, m) /\ b = <<t[n]>> /\ c = Cut(t, n)
    OBVIOUS
  <2>2. m \in 0..Len(t) /\ n \in 0..Len(t) /\ n \in 1..Len(t) /\ m + 1 = n
    BY <1>2, <2>1
  <2>3. a \in Prose(N) /\ Len(a) = m /\ \A i \in 1..m : a[i] = t[i]
    <3>1. Cut(t, m) \in Prose(N) /\ Len(Cut(t, m)) = m /\ \A i \in 1..m : Cut(t, m)[i] = t[i]
      BY <2>2, PartsOfList
    <3> QED
      BY <2>1, <3>1
  <2>4. c \in Prose(N) /\ Len(c) = n /\ \A i \in 1..n : c[i] = t[i]
    BY <2>1, <2>2, PartsOfList
  <2>5. run[n] = AfterSpace(a, b)
    BY <1>3, <1>4, <1>5, <1>7, <2>1
  <2>6. AfterSpace(a, b) = a \o b
    <3>1. SUFFICES ASSUME a # <<>>, Joined(<<Last(a), b[1]>>, 1) PROVE FALSE
      BY DEF AfterSpace
    <3>2. Len(a) # 0 /\ Last(a) = a[m]
      BY <2>3, <3>1 DEF Prose, Last
    <3>3. m \in 1..m /\ m \in 1..fit
      BY <1>2, <2>2, <2>3, <3>2
    <3>4. Last(a).k = "art"
      BY <2>3, <3>2, <3>3
    <3> QED
      BY <3>1, <3>4 DEF Joined
  <2>7. a \o b = c
    BY <2>1, <2>2, OneMore
  <2>8. n \in 0..fit
    BY <1>2
  <2> QED
    BY <1>5, <2>1, <2>5, <2>6, <2>7, <2>8
<1>8. 0..fit \subseteq T
  BY <1>2, <1>6, <1>7, Induct
<1>9. fit \in T
  BY <1>2, <1>8
<1> QED
  BY <1>1, <1>4, <1>5, <1>9

\* A piece of a text and what is left of it say what it says, and what is left goes on.
SaysOn(W, part) == W \subseteq Says(part.piece) \cup Says(part.rest) /\ ArticlesGoOn(part.rest)

LEMMA SaysWhatTells ==
    ASSUME NEW a, NEW b, NEW c, Tells(a) \subseteq Tells(b) \cup Tells(c)
    PROVE  Says(a) \subseteq Says(b) \cup Says(c)
  BY SaysIs

LEMMA TornWord ==
    ASSUME NEW N, NEW word \in Word(N), Len(word) <= 2
    PROVE  Says(word) \subseteq Says(HeadOf(word)) \cup Says(TailOf(word)) /\ ArticlesGoOn(TailOf(word))
<1>1. word \in Prose(N) /\ Len(word) \in 1..2 /\ \A i \in 1..Len(word) : word[i] \in Tokens(N)
  <2>1. word \in Prose(N) /\ Len(word) >= 1
    BY DEF Word
  <2>2. Len(word) \in Nat /\ \A i \in 1..Len(word) : word[i] \in Tokens(N)
    BY <2>1 DEF Prose
  <2>3. Len(word) \in 1..2
    <3>1. PICK len : len = Len(word)
      OBVIOUS
    <3>2. len \in Nat /\ len >= 1 /\ len <= 2
      BY <2>1, <2>2, <3>1
    <3> QED
      BY <3>1, <3>2
  <2> QED
    BY <2>1, <2>2, <2>3
<1>2. PICK a, b : a = HeadOf(word)[1] /\ b = TailOf(word)[1]
  OBVIOUS
<1>3. HeadOf(word) = <<a>> /\ TailOf(word) = <<b>>
  BY <1>2 DEF HeadOf, TailOf
<1>4. a.n = word[1].n /\ a.k \in {"dot", "head"}
  <2>1. PICK x : x = word[1]
    OBVIOUS
  <2>2. x \in [k : TokenKinds, n : Nat]
    BY <1>1, <2>1 DEF Tokens
  <2>3. a = [x EXCEPT !.k = "dot"] \/ a = [x EXCEPT !.k = "head"]
    BY <1>2, <2>1 DEF HeadOf
  <2>4. a.n = x.n /\ a.k \in {"dot", "head"}
    BY <2>2, <2>3
  <2> QED
    BY <2>1, <2>4
<1>5. b.n = word[Len(word)].n /\ b.k = "tail"
  <2>1. PICK x : x = word[Len(word)]
    OBVIOUS
  <2>2. x \in [k : TokenKinds, n : Nat]
    <3>1. Len(word) \in 1..Len(word)
      BY <1>1
    <3> QED
      BY <1>1, <2>1, <3>1 DEF Tokens
  <2>3. b = [x EXCEPT !.k = "tail"]
    BY <1>2, <2>1 DEF TailOf
  <2>4. b.n = x.n /\ b.k = "tail"
    BY <2>2, <2>3
  <2> QED
    BY <2>1, <2>4
<1>6. IsWord(a) /\ IsWord(b)
  BY <1>4, <1>5 DEF IsWord
<1>7. a.n \in Says(HeadOf(word)) /\ b.n \in Says(TailOf(word))
  <2>1. ASSUME NEW x, IsWord(x) PROVE x.n \in Says(<<x>>)
    <3>1. PICK t : t = <<x>>
      OBVIOUS
    <3>2. 1 \in DOMAIN t /\ t[1] = x
      BY <3>1
    <3>3. 1 \in WordsAt(t)
      BY <2>1, <3>2 DEF WordsAt
    <3> QED
      BY <3>1, <3>2, <3>3 DEF Says
  <2> QED
    BY <1>3, <1>6, <2>1
<1>8. ASSUME NEW x, x \in Says(word) PROVE x \in Says(HeadOf(word)) \cup Says(TailOf(word))
  <2>1. PICK y \in Tells(word) : x = y.n
    BY <1>8, SaysIs
  <2>2. PICK i \in 1..Len(word) : y = word[i]
    BY <1>1, <2>1, TellsIs
  <2>3. i = 1 \/ i = Len(word)
    BY <1>1, <2>2
  <2> QED
    BY <1>4, <1>5, <1>7, <2>1, <2>2, <2>3
<1>9. ArticlesGoOn(TailOf(word))
  BY <1>3, <1>5 DEF ArticlesGoOn
<1> QED
  BY <1>8, <1>9

LEMMA CutBetweenSays ==
    ASSUME NEW N, NEW t \in Prose(N), ArticlesGoOn(t), t = <<>> \/ IsWord(t[1]),
           NEW limit, ~FitsLimit(t, limit),
           NEW words, words = SplitWords(t), NEW fit, fit = WordsFitting(words, limit),
           NEW n, n = TrimDanglingPrefixTail(words, fit), NEW cut, cut = TrimToLimit(t, limit)
    PROVE  SaysOn(Says(t), CutBetweenWords(t, words, fit, n, cut))
<1>1. PICK part : part = CutBetweenWords(t, words, fit, n, cut)
  OBVIOUS
<1>2. words \in Seq(Word(N)) /\ Len(words) \in Nat
  BY SplitWordsInProse
<1>3. fit \in 0..Len(words) /\ fit \in Nat
  BY <1>2, WordsFittingIs
<1>4. n \in 0..Len(words)
  BY <1>2, <1>3, DanglingTailIs
<1>5. CASE n > 0
  <2>1. part.piece = JoinWords(Cut(words, n)) /\ part.rest = JoinWords(From(words, n + 1))
    BY <1>1, <1>5 DEF CutBetweenWords
  <2>2. Tells(t) = Tells(JoinWords(Cut(words, n))) \cup Tells(JoinWords(From(words, n + 1)))
    BY <1>4, TellsOfSplit
  <2>3. ArticlesGoOn(JoinWords(From(words, n + 1)))
    BY <1>4, GoesOnRest
  <2>4. Says(t) \subseteq Says(part.piece) \cup Says(part.rest)
    BY <2>1, <2>2, SaysWhatTells
  <2> QED
    BY <1>1, <2>1, <2>3, <2>4 DEF SaysOn
<1>6. CASE n = 0 /\ fit > 0
  <2>1. fit # Len(words)
    BY <1>6 DEF TrimDanglingPrefixTail
  <2>2. PICK S : S = {m \in 0..fit : m = 0 \/ words[m][1].k # "art"}
    OBVIOUS
  <2>3. S \subseteq 0..fit /\ 0 \in S /\ Max(S) = 0
    BY <1>3, <1>6, <2>1, <2>2 DEF TrimDanglingPrefixTail
  <2>4. \A m \in S : m <= 0
    BY <1>3, <2>3, MaxIsIn
  <2>5. \A m \in 1..fit : words[m][1].k = "art"
    <3> TAKE m \in 1..fit
    <3>1. m \notin S /\ m \in 0..fit
      BY <1>3, <2>4
    <3> QED
      BY <2>2, <3>1
  <2>6. t # <<>>
    <3>1. SUFFICES ASSUME t = <<>> PROVE FALSE
      OBVIOUS
    <3>2. SplitWords(t) = <<>>
      BY <3>1, NoSplitWords
    <3> QED
      BY <1>3, <1>6, <3>2
  <2>7. fit \in 1..Len(SplitWords(t)) /\ IsWord(t[1])
    BY <1>3, <1>6, <2>6
  <2>8. fit \in 0..Len(t) /\ \A m \in 1..fit : t[m].k = "art" /\ words[m] = <<t[m]>>
    BY <2>5, <2>6, <2>7, FirstArticlesAre
  <2>9. cut = JoinWords(Cut(words, fit))
    BY <1>6 DEF TrimToLimit
  <2>10. words \in Seq(Prose(N)) /\ fit <= Len(words)
    BY <1>2, <1>3, WordIsProse
  <2>11. cut = Cut(t, fit)
    BY <2>8, <2>9, <2>10, ArticlesJoined
  <2>12. Len(cut) = fit
    BY <2>8, <2>11, PartsOfList
  <2>13. part.piece = cut /\ part.rest = TrimStart(From(t, fit + 1))
    BY <1>1, <1>6, <2>11, <2>12 DEF CutBetweenWords
  <2>14. From(t, fit + 1) \in Prose(N) /\ ArticlesGoOn(From(t, fit + 1))
    BY <2>8, PartsOfList, GoesOnFrom
  <2>15. Tells(t) = Tells(Cut(t, fit)) \cup Tells(From(t, fit + 1))
    BY <2>8, TellsCut
  <2>16. ArticlesGoOn(part.rest) /\ Tells(part.rest) = Tells(From(t, fit + 1))
    BY <2>13, <2>14, GoesOnTrimmed, TellsTrim
  <2>17. Says(t) \subseteq Says(part.piece) \cup Says(part.rest)
    BY <2>11, <2>13, <2>15, <2>16, SaysWhatTells
  <2> QED
    BY <1>1, <2>16, <2>17 DEF SaysOn
<1>7. CASE n = 0 /\ fit = 0 /\ cut = <<>>
  <2>1. part.rest = t
    BY <1>1, <1>7 DEF CutBetweenWords
  <2> QED
    BY <1>1, <2>1 DEF SaysOn
<1>8. CASE n = 0 /\ fit = 0 /\ cut # <<>>
  <2>1. words # <<>> /\ cut = HeadOf(words[1])
    BY <1>8 DEF TrimToLimit
  <2>2. t # <<>> /\ IsWord(t[1])
    BY <2>1, NoSplitWords
  <2>3. PICK w, len : w = words[1] /\ len = Len(w)
    OBVIOUS
  <2>4. len \in 1..Len(t) /\ w = Cut(t, len) /\ len <= 2
    BY <2>2, <2>3, FirstWord
  <2>5. w \in Word(N)
    BY <1>2, <2>1, <2>3
  <2>6. Says(w) \subseteq Says(HeadOf(w)) \cup Says(TailOf(w)) /\ ArticlesGoOn(TailOf(w))
    BY <2>3, <2>4, <2>5, TornWord
  <2>7. PICK a, b : a = TailOf(w) /\ b = From(t, len + 1)
    OBVIOUS
  <2>8. len \in 0..Len(t)
    BY <2>4
  <2>9. b \in Prose(N) /\ ArticlesGoOn(b)
    BY <2>7, <2>8, PartsOfList, GoesOnFrom
  <2>10. a \in Prose(N)
    BY <2>5, <2>7, HeadAndTailInProse
  <2>11. ArticlesGoOn(a \o b) /\ Tells(a \o b) = Tells(a) \cup Tells(b)
    <3>1. ArticlesGoOn(a)
      BY <2>6, <2>7
    <3>2. ArticlesGoOn(a \o b)
      BY <2>9, <2>10, <3>1, GoesOnJoined
    <3>3. Tells(a \o b) = Tells(a) \cup Tells(b)
      BY <2>9, <2>10, TellsJoin
    <3> QED
      BY <3>2, <3>3
  <2>12. part.piece = HeadOf(w) /\ part.rest = a \o b
    BY <1>1, <1>8, <2>1, <2>3, <2>7 DEF CutBetweenWords
  <2>13. Tells(t) = Tells(w) \cup Tells(b)
    BY <2>4, <2>7, <2>8, TellsCut
  <2>14. Says(t) \subseteq Says(w) \cup Says(b)
    BY <2>13, SaysWhatTells
  <2>15. Says(a \o b) = Says(a) \cup Says(b)
    BY <2>11, SaysIs
  <2>16. Says(t) \subseteq Says(part.piece) \cup Says(part.rest)
    BY <2>6, <2>7, <2>12, <2>14, <2>15
  <2> QED
    BY <1>1, <2>11, <2>12, <2>16 DEF SaysOn
<1> QED
  BY <1>3, <1>4, <1>5, <1>6, <1>7, <1>8

LEMMA WordPrefixSays ==
    ASSUME NEW N, NEW text \in Prose(N), ArticlesGoOn(text), NEW limit
    PROVE  SaysOn(Says(text), SplitWordPrefix(text, limit))
<1>1. PICK t : t = Trimmed(text)
  OBVIOUS
<1>2. t \in Prose(N) /\ ArticlesGoOn(t) /\ Tells(t) = Tells(text)
  BY <1>1, TrimmedInProse, GoesOnTrimmed, TellsTrim
<1>3. Says(t) = Says(text)
  BY <1>2, SaysIs
<1>4. t = <<>> \/ IsWord(t[1])
  BY <1>1, TrimmedOpens
<1>5. CASE FitsLimit(t, limit)
  <2>1. PICK part : part = SplitWordPrefix(text, limit)
    OBVIOUS
  <2>2. part.piece = t /\ part.rest = <<>>
    BY <1>1, <1>5, <2>1 DEF SplitWordPrefix
  <2>3. ArticlesGoOn(<<>>)
    BY <1>2, GoesOnIs
  <2> QED
    BY <1>3, <2>1, <2>2, <2>3 DEF SaysOn
<1>6. CASE ~FitsLimit(t, limit)
  <2>1. PICK words, cut : words = SplitWords(t) /\ cut = TrimToLimit(t, limit)
    OBVIOUS
  <2>2. PICK fit : fit = WordsFitting(words, limit)
    OBVIOUS
  <2>3. PICK n : n = TrimDanglingPrefixTail(words, fit)
    OBVIOUS
  <2>4. SplitWordPrefix(text, limit) = CutBetweenWords(t, words, fit, n, cut)
    BY <1>1, <1>6, <2>1, <2>2, <2>3 DEF SplitWordPrefix
  <2>5. SaysOn(Says(t), CutBetweenWords(t, words, fit, n, cut))
    BY <1>2, <1>4, <1>6, <2>1, <2>2, <2>3, CutBetweenSays
  <2> QED
    BY <1>3, <2>4, <2>5
<1> QED
  BY <1>5, <1>6

LEMMA GoesOnBeats ==
    ASSUME NEW N, NEW t \in Prose(N), ArticlesGoOn(t)
    PROVE  \A k \in DOMAIN Beats(t) : Beats(t)[k] # <<>> /\ ArticlesGoOn(Beats(t)[k])
<1>1. Len(t) \in Nat /\ \A i \in 1..Len(t) : t[i].k = "art" => i + 1 \in 1..Len(t) /\ IsWord(t[i + 1])
  BY GoesOnIs
<1>2. PICK beats : beats = Beats(t)
  OBVIOUS
<1>3. ASSUME NEW k \in DOMAIN beats PROVE beats[k] # <<>> /\ ArticlesGoOn(beats[k])
  <2>1. PICK i \in 1..Len(t) : \E e \in i..Len(t) :
            beats[k] = SubSeq(t, i, e) /\ (e = Len(t) \/ t[e + 1].k = "para")
    BY <1>2, BeatsAre
  <2>2. PICK e \in i..Len(t) : beats[k] = SubSeq(t, i, e) /\ (e = Len(t) \/ t[e + 1].k = "para")
    BY <2>1
  <2>3. PICK s, len : s = SubSeq(t, i, e) /\ len = e - i + 1
    OBVIOUS
  <2>4. s \in Prose(N) /\ Len(s) = len /\ \A j \in 1..len : s[j] = t[i + j - 1]
    BY <2>3, StretchIs
  <2>5. len \in Nat /\ len >= 1
    BY <1>1, <2>3
  <2>6. ASSUME NEW j \in 1..len, s[j].k = "art" PROVE j + 1 \in 1..len /\ IsWord(s[j + 1])
    <3>1. PICK p : p = i + j - 1
      OBVIOUS
    <3>2. p \in 1..Len(t) /\ p <= e /\ t[p].k = "art"
      BY <1>1, <2>3, <2>4, <2>6, <3>1
    <3>3. p + 1 \in 1..Len(t) /\ IsWord(t[p + 1])
      BY <1>1, <3>2
    <3>4. t[p + 1].k # "para"
      BY <3>3 DEF IsWord
    <3>5. p # e
      BY <1>1, <2>2, <3>3, <3>4
    <3>6. j + 1 \in 1..len /\ i + (j + 1) - 1 = p + 1
      BY <1>1, <2>3, <3>1, <3>2, <3>5
    <3>7. s[j + 1] = t[p + 1]
      BY <2>4, <3>6
    <3> QED
      BY <3>3, <3>6, <3>7
  <2>7. ArticlesGoOn(s)
    BY <2>4, <2>6, GoesOnIs
  <2>8. s # <<>>
    BY <2>4, <2>5
  <2> QED
    BY <2>2, <2>3, <2>7, <2>8
<1> QED
  BY <1>2, <1>3

\* A text after another is empty when both are.
LEMMA AfterIsText ==
    ASSUME NEW N, NEW a \in Prose(N), NEW b \in Prose(N), a # <<>> \/ b # <<>>
    PROVE  AfterPara(a, b) # <<>> /\ AfterSpace(a, b) # <<>>
<1>1. PICK m, n : m = Len(a) /\ n = Len(b)
  OBVIOUS
<1>2. m \in Nat /\ n \in Nat /\ (m # 0 \/ n # 0)
  BY <1>1 DEF Prose
<1>3. PICK para, gap : para = <<Para>> /\ gap = <<Gap>>
  OBVIOUS
<1>4. para \in Prose(N) /\ gap \in Prose(N)
  BY <1>3, PlainTokens DEF Prose
<1>5. ASSUME NEW c \in Prose(N), NEW d \in Prose(N), Len(c) # 0 \/ Len(d) # 0 PROVE c \o d # <<>>
  <2>1. Len(c) \in Nat /\ Len(d) \in Nat /\ Len(c \o d) = Len(c) + Len(d)
    BY JoinIs DEF Prose
  <2> QED
    BY <1>5, <2>1
<1>6. ASSUME NEW p \in Prose(N) PROVE a \o p \o b # <<>>
  <2>1. PICK c : c = a \o p
    OBVIOUS
  <2>2. c \in Prose(N) /\ Len(c) = m + Len(p) /\ Len(p) \in Nat
    <3>1. a \o p \in Prose(N) /\ Len(a \o p) = Len(a) + Len(p)
      BY JoinIs
    <3> QED
      BY <1>1, <2>1, <3>1 DEF Prose
  <2>3. Len(c) # 0 \/ Len(b) # 0
    BY <1>1, <1>2, <2>2
  <2> QED
    BY <1>5, <2>1, <2>2, <2>3
<1>7. a \o b # <<>>
  BY <1>1, <1>2, <1>5
<1>8. AfterPara(a, b) # <<>>
  BY <1>3, <1>4, <1>6 DEF AfterPara
<1>9. AfterSpace(a, b) # <<>>
  BY <1>3, <1>4, <1>6, <1>7 DEF AfterSpace
<1> QED
  BY <1>8, <1>9

LEMMA JoinedBeats ==
    ASSUME NEW N, NEW beats \in Seq(Prose(N))
    PROVE  /\ beats # <<>> /\ beats[1] # <<>> => JoinBeats(beats) # <<>>
           /\ (\A k \in DOMAIN beats : ArticlesGoOn(beats[k])) => ArticlesGoOn(JoinBeats(beats))
<1>1. PICK len : len = Len(beats)
  OBVIOUS
<1>2. /\ len \in Nat /\ DOMAIN beats = 1..len
      /\ \A n \in 1..len : n - 1 \in 0..len /\ n \in 0..len /\ beats[n] \in Prose(N)
  BY <1>1
<1>3. PICK run : /\ run[0] = <<>> /\ run[len] = JoinBeats(beats)
                 /\ \A n \in 0..len : run[n] \in Prose(N)
                 /\ \A n \in 1..len : run[n] = AfterPara(run[n - 1], beats[n])
  BY <1>1, JoinBeatsRuns
<1>4. ASSUME beats # <<>>, beats[1] # <<>> PROVE JoinBeats(beats) # <<>>
  <2>1. PICK T : T = {n \in 0..len : n = 0 \/ run[n] # <<>>}
    OBVIOUS
  <2>2. 0 \in T
    BY <1>2, <2>1
  <2>3. ASSUME NEW n \in 1..len, n - 1 \in T PROVE n \in T
    <3>1. PICK a, b : a = run[n - 1] /\ b = beats[n]
      OBVIOUS
    <3>2. a \in Prose(N) /\ b \in Prose(N) /\ run[n] = AfterPara(a, b)
      BY <1>2, <1>3, <3>1
    <3>3. a # <<>> \/ b # <<>>
      <4>1. CASE n = 1
        BY <1>4, <3>1, <4>1
      <4>2. CASE n # 1
        BY <1>2, <2>1, <2>3, <3>1, <4>2
      <4> QED
        BY <4>1, <4>2
    <3>4. run[n] # <<>>
      BY <3>2, <3>3, AfterIsText
    <3> QED
      BY <1>2, <2>1, <3>4
  <2>4. 0..len \subseteq T
    BY <1>2, <2>2, <2>3, Induct
  <2>5. len # 0 /\ len \in T
    BY <1>1, <1>2, <1>4, <2>4
  <2> QED
    BY <1>3, <2>1, <2>5
<1>5. ASSUME \A k \in DOMAIN beats : ArticlesGoOn(beats[k]) PROVE ArticlesGoOn(JoinBeats(beats))
  <2>1. PICK X : X = {x \in Prose(N) : ArticlesGoOn(x)}
    OBVIOUS
  <2>2. run[0] \in X
    BY <1>3, <2>1, NoProse, GoesOnIs
  <2>3. ASSUME NEW n \in 1..len, run[n - 1] \in X PROVE run[n] \in X
    <3>1. PICK a, b : a = run[n - 1] /\ b = beats[n]
      OBVIOUS
    <3>2. a \in Prose(N) /\ b \in Prose(N) /\ ArticlesGoOn(a) /\ ArticlesGoOn(b) /\ run[n] = AfterPara(a, b)
      BY <1>2, <1>3, <1>5, <2>1, <2>3, <3>1
    <3>3. run[n] \in Prose(N) /\ ArticlesGoOn(run[n])
      <4>1. AfterPara(a, b) \in Prose(N)
        BY <3>2, AfterInProse
      <4>2. ArticlesGoOn(AfterPara(a, b))
        BY <3>2, GoesOnAfter
      <4> QED
        BY <3>2, <4>1, <4>2
    <3> QED
      BY <2>1, <3>3
  <2>4. \A n \in 0..len : run[n] \in X
    BY <1>2, <2>2, <2>3, LoopStays
  <2>5. len \in 0..len
    BY <1>2
  <2> QED
    BY <1>3, <2>1, <2>4, <2>5
<1> QED
  BY <1>4, <1>5

\* A beat of words, whose first sentence has room, gives a piece.
LEMMA OpeningFits ==
    ASSUME NEW N, NEW t \in Prose(N), Tells(t) # {}, FitsX(TakeLeadingSentence(t).first)
    PROVE  TakeSentencePrefix(t, XCharLimit).piece # <<>>
<1>1. PICK next, first : next = TakeLeadingSentence(t) /\ first = next.first
  OBVIOUS
<1>2. next.first \in Prose(N) /\ next.rest \in Prose(N)
  BY <1>1, LeadingSentenceInProse
<1>3. first # <<>>
  <2>1. PICK i : PartedAt(t, i)
    BY LeadingSentenceIs
  <2>2. PICK s : s = TrimStart(t)
    OBVIOUS
  <2>3. s \in Prose(N) /\ Tells(s) = Tells(t)
    BY <2>2, TrimmedInProse, TellsTrim
  <2>4. s # <<>>
    BY <2>3, TellsNone
  <2>5. i \in 0..Len(s) /\ i >= 1 /\ first = Trimmed(Cut(s, i))
    BY <1>1, <2>1, <2>2, <2>4 DEF PartedAt
  <2>6. PICK c : c = Cut(s, i)
    OBVIOUS
  <2>7. c \in Prose(N) /\ Len(c) = i /\ \A j \in 1..i : c[j] = s[j]
    BY <2>3, <2>5, <2>6, PartsOfList
  <2>8. IsWord(s[1])
    BY <2>2, <2>4, TrimmedOpens
  <2>9. 1 \in 1..i
    BY <2>5
  <2>10. s[1] \in Tells(c)
    BY <2>7, <2>8, <2>9, TellsIs
  <2>11. Tells(Trimmed(c)) = Tells(c)
    BY <2>7, TellsTrim
  <2>12. Tells(first) # {}
    BY <2>5, <2>6, <2>10, <2>11
  <2> QED
    BY <2>12, TellsNone
<1>4. t # <<>> /\ XCharLimit # 0
  BY TellsNone, XThreadAssumption
<1>5. CASE FitsLimit(t, XCharLimit)
  BY <1>4, <1>5 DEF TakeSentencePrefix
<1>6. CASE ~FitsLimit(t, XCharLimit)
  <2>1. PICK len : len = Len(t)
    OBVIOUS
  <2>2. len \in Nat /\ len # 0
    BY <1>4, <2>1 DEF Prose
  <2>3. PICK run : /\ run[0].piece = <<>> /\ run[0].rest = t /\ run[len] = SentencesFitting(t, XCharLimit)
                   /\ \A n \in 0..len : run[n] \in Parts(N)
                   /\ \A n \in 1..len : run[n] = TakeSentence(run[n - 1], XCharLimit)
    BY <2>1, SentencesRuns
  <2>4. PICK T : T = {n \in 0..len : n = 0 \/ run[n].piece # <<>>}
    OBVIOUS
  <2>5. 0 \in T
    BY <2>2, <2>4
  <2>6. ASSUME NEW n \in 1..len, n - 1 \in T PROVE n \in T
    <3>1. PICK part : part = run[n - 1]
      OBVIOUS
    <3>2. n - 1 \in 0..len /\ n \in 0..len
      BY <2>2
    <3>3. run[n] = TakeSentence(part, XCharLimit) /\ part \in Parts(N)
      BY <2>3, <3>1, <3>2
    <3>4. CASE n = 1
      <4>1. part.piece = <<>> /\ part.rest = t
        BY <2>3, <3>1, <3>4
      <4>2. AfterSpace(<<>>, first) = first
        BY <1>1, <1>2 DEF AfterSpace, Prose
      <4>3. FitsLimit(first, XCharLimit)
        BY <1>1 DEF FitsX
      <4>4. run[n].piece = first
        BY <1>1, <1>4, <3>3, <4>1, <4>2, <4>3 DEF TakeSentence
      <4> QED
        BY <1>3, <2>4, <3>2, <4>4
    <3>5. CASE n # 1
      <4>1. part.piece # <<>>
        BY <2>2, <2>4, <2>6, <3>1, <3>5
      <4>2. PICK more, a, b : /\ more = TakeLeadingSentence(part.rest)
                              /\ a = part.piece /\ b = more.first
        OBVIOUS
      <4>3. a \in Prose(N) /\ part.rest \in Prose(N)
        BY <3>3, <4>2 DEF Parts
      <4>4. b \in Prose(N)
        BY <4>2, <4>3, LeadingSentenceInProse
      <4>5. AfterSpace(a, b) # <<>>
        BY <4>1, <4>2, <4>3, <4>4, AfterIsText
      <4>6. run[n] = part \/ run[n].piece = AfterSpace(a, b)
        BY <3>3, <4>2 DEF TakeSentence
      <4> QED
        BY <2>4, <3>2, <4>1, <4>5, <4>6
    <3> QED
      BY <3>4, <3>5
  <2>7. 0..len \subseteq T
    BY <2>2, <2>5, <2>6, Induct
  <2>8. len \in T
    BY <2>2, <2>7
  <2>9. TakeSentencePrefix(t, XCharLimit) = SentencesFitting(t, XCharLimit)
    BY <1>4, <1>6 DEF TakeSentencePrefix
  <2> QED
    BY <2>2, <2>3, <2>4, <2>8, <2>9
<1> QED
  BY <1>5, <1>6

\* Beats are the first of them and the others.
LEMMA TellsTail ==
    ASSUME NEW N, NEW beats \in Seq(Prose(N)), beats # <<>>
    PROVE  /\ beats[1] \in Prose(N) /\ Tail(beats) \in Seq(Prose(N))
           /\ TellsAll(beats) = Tells(beats[1]) \cup TellsAll(Tail(beats))
           /\ \A k \in DOMAIN Tail(beats) : k + 1 \in DOMAIN beats /\ Tail(beats)[k] = beats[k + 1]
<1>1. PICK len, tail : len = Len(beats) /\ tail = Tail(beats)
  OBVIOUS
<1>2. len \in Nat /\ len >= 1 /\ DOMAIN beats = 1..len
  BY <1>1
<1>3. beats[1] \in Prose(N) /\ tail \in Seq(Prose(N)) /\ DOMAIN tail = 1..(len - 1)
      /\ \A k \in 1..(len - 1) : tail[k] = beats[k + 1]
  BY <1>1, <1>2
<1>4. \A k \in 1..(len - 1) : k + 1 \in 1..len
  BY <1>2
<1>5. \A k \in 1..len : k = 1 \/ (k - 1 \in 1..(len - 1) /\ (k - 1) + 1 = k)
  BY <1>2
<1>6. TellsAll(beats) = UNION {Tells(beats[k]) : k \in 1..len}
  BY <1>2 DEF TellsAll
<1>7. TellsAll(tail) = UNION {Tells(tail[k]) : k \in 1..(len - 1)}
  BY <1>3 DEF TellsAll
<1>8. ASSUME NEW x \in TellsAll(beats) PROVE x \in Tells(beats[1]) \/ x \in TellsAll(tail)
  <2>1. PICK k \in 1..len : x \in Tells(beats[k])
    BY <1>6, <1>8
  <2>2. CASE k = 1
    BY <2>1, <2>2
  <2>3. CASE k # 1
    <3>1. PICK j : j = k - 1
      OBVIOUS
    <3>2. j \in 1..(len - 1) /\ j + 1 = k
      BY <1>5, <2>3, <3>1
    <3>3. tail[j] = beats[k]
      BY <1>3, <3>2
    <3>4. x \in Tells(tail[j])
      BY <2>1, <3>3
    <3> QED
      BY <1>7, <3>2, <3>4
  <2> QED
    BY <2>2, <2>3
<1>9. ASSUME NEW x, x \in Tells(beats[1]) \/ x \in TellsAll(tail) PROVE x \in TellsAll(beats)
  <2>1. CASE x \in Tells(beats[1])
    BY <1>2, <1>6, <2>1
  <2>2. CASE x \in TellsAll(tail)
    <3>1. PICK k \in 1..(len - 1) : x \in Tells(tail[k])
      BY <1>7, <2>2
    <3>2. PICK j : j = k + 1
      OBVIOUS
    <3>3. j \in 1..len /\ tail[k] = beats[j]
      BY <1>3, <1>4, <3>2
    <3>4. x \in Tells(beats[j])
      BY <3>1, <3>3
    <3> QED
      BY <1>6, <3>3, <3>4
  <2> QED
    BY <1>9, <2>1, <2>2
<1>10. TellsAll(beats) = Tells(beats[1]) \cup TellsAll(tail)
  BY <1>8, <1>9
<1> QED
  BY <1>1, <1>2, <1>3, <1>4, <1>10

\* The root and what is left of it tell all of a text, and what is left goes on.
Told(W, r) == W \subseteq Tells(r.root) \cup Tells(r.left) /\ ArticlesGoOn(r.left)

LEMMA ToldIs ==
    ASSUME NEW W, NEW a, NEW b, W \subseteq Tells(a) \cup Tells(b), ArticlesGoOn(b)
    PROVE  Told(W, [root |-> a, left |-> b])
  BY DEF Told

LEMMA SentencesOfBeatTold ==
    ASSUME NEW N, NEW kept \in Prose(N), NEW beats \in Seq(Prose(N)), beats # <<>>,
           \A k \in DOMAIN beats : ArticlesGoOn(beats[k]),
           NEW part \in Pieces(N, Tells(beats[1])),
           kept = <<>> /\ part.piece = <<>> => Tells(beats[1]) = {}
    PROVE  Told(Tells(kept) \cup TellsAll(beats), SentencesOfBeat(kept, part, beats))
<1>1. PICK first, tail, W : first = beats[1] /\ tail = Tail(beats) /\ W = Tells(kept) \cup TellsAll(beats)
  OBVIOUS
<1>2. /\ first \in Prose(N) /\ tail \in Seq(Prose(N)) /\ TellsAll(beats) = Tells(first) \cup TellsAll(tail)
      /\ \A k \in DOMAIN tail : k + 1 \in DOMAIN beats /\ tail[k] = beats[k + 1]
  BY <1>1, TellsTail
<1>3. \A k \in DOMAIN tail : ArticlesGoOn(tail[k])
  BY <1>2
<1>4. PICK rest, all : rest = JoinBeats(tail) /\ all = JoinBeats(beats)
  OBVIOUS
<1>5. rest \in Prose(N) /\ Tells(rest) = TellsAll(tail) /\ ArticlesGoOn(rest)
  <2>1. rest \in Prose(N)
    BY <1>2, <1>4, JoinBeatsInProse
  <2>2. Tells(rest) = TellsAll(tail)
    BY <1>2, <1>4, TellsJoined
  <2>3. ArticlesGoOn(rest)
    BY <1>2, <1>3, <1>4, JoinedBeats
  <2> QED
    BY <2>1, <2>2, <2>3
<1>6. all \in Prose(N) /\ Tells(all) = TellsAll(beats) /\ ArticlesGoOn(all)
  <2>1. all \in Prose(N)
    BY <1>4, JoinBeatsInProse
  <2>2. Tells(all) = TellsAll(beats)
    BY <1>4, TellsJoined
  <2>3. ArticlesGoOn(all)
    BY <1>4, JoinedBeats
  <2> QED
    BY <2>1, <2>2, <2>3
<1>7. PICK piece, more : piece = part.piece /\ more = part.rest
  OBVIOUS
<1>8. /\ piece \in Prose(N) /\ more \in Prose(N) /\ Tells(piece) \cup Tells(more) = Tells(first)
      /\ ArticlesGoOn(more)
  BY <1>1, <1>7 DEF Pieces, Parts
<1>9. CASE piece # <<>>
  <2>1. PICK a, b : a = AfterPara(kept, piece) /\ b = AfterPara(more, rest)
    OBVIOUS
  <2>2. Tells(a) = Tells(kept) \cup Tells(piece)
    BY <1>8, <2>1, TellsAfter
  <2>3. Tells(b) = Tells(more) \cup Tells(rest)
    BY <1>5, <1>8, <2>1, TellsAfter
  <2>4. ArticlesGoOn(b)
    BY <1>5, <1>8, <2>1, GoesOnAfter
  <2>5. W \subseteq Tells(a) \cup Tells(b)
    BY <1>1, <1>2, <1>5, <1>8, <2>2, <2>3
  <2>6. Told(W, [root |-> a, left |-> b])
    BY <2>4, <2>5, ToldIs
  <2>7. SentencesOfBeat(kept, part, beats) = [root |-> a, left |-> b]
    BY <1>1, <1>4, <1>7, <1>9, <2>1 DEF SentencesOfBeat
  <2> QED
    BY <1>1, <2>6, <2>7
<1>10. CASE piece = <<>> /\ kept = <<>>
  <2>1. PICK a : a = TrimToLimit(first, XCharLimit)
    OBVIOUS
  <2>2. W \subseteq Tells(a) \cup Tells(rest)
    BY <1>1, <1>2, <1>5, <1>7, <1>10, TellsNone
  <2>3. Told(W, [root |-> a, left |-> rest])
    BY <1>5, <2>2, ToldIs
  <2>4. SentencesOfBeat(kept, part, beats) = [root |-> a, left |-> rest]
    BY <1>1, <1>4, <1>7, <1>10, <2>1 DEF SentencesOfBeat
  <2> QED
    BY <1>1, <2>3, <2>4
<1>11. CASE piece = <<>> /\ kept # <<>>
  <2>1. Told(W, [root |-> kept, left |-> all])
    BY <1>1, <1>6, ToldIs
  <2>2. SentencesOfBeat(kept, part, beats) = [root |-> kept, left |-> all]
    BY <1>4, <1>7, <1>11 DEF SentencesOfBeat
  <2> QED
    BY <1>1, <2>1, <2>2
<1> QED
  BY <1>9, <1>10, <1>11

LEMMA TakeBeatsTold ==
    ASSUME NEW N, NEW head \in Prose(N), ArticlesGoOn(head), OpensShort(head)
    PROVE  Told(Tells(head), TakeBeatsFitting(head))
<1>1. PICK beats, n : beats = Beats(head) /\ n = BeatsFitting(beats)
  OBVIOUS
<1>2. beats \in Seq(Prose(N)) /\ n \in 0..Len(beats) /\ Len(beats) \in Nat
  BY <1>1, BeatsInProse, BeatsFittingIs
<1>3. PICK front, rest, kept : front = Cut(beats, n) /\ rest = From(beats, n + 1) /\ kept = JoinBeats(front)
  OBVIOUS
<1>4. /\ front \in Seq(Prose(N)) /\ rest \in Seq(Prose(N))
      /\ Len(front) = n /\ Len(rest) = Len(beats) - n
      /\ \A i \in 1..n : front[i] = beats[i]
      /\ \A i \in 1..(Len(beats) - n) : rest[i] = beats[n + i]
      /\ TellsAll(beats) = TellsAll(front) \cup TellsAll(rest)
  <2>1. /\ Cut(beats, n) \in Seq(Prose(N)) /\ From(beats, n + 1) \in Seq(Prose(N))
        /\ Len(Cut(beats, n)) = n /\ Len(From(beats, n + 1)) = Len(beats) - n
        /\ \A i \in 1..n : Cut(beats, n)[i] = beats[i]
        /\ \A i \in 1..(Len(beats) - n) : From(beats, n + 1)[i] = beats[n + i]
        /\ TellsAll(beats) = TellsAll(Cut(beats, n)) \cup TellsAll(From(beats, n + 1))
    BY <1>2, TellsCutList
  <2> QED
    BY <1>3, <2>1
<1>5. \A k \in 1..Len(beats) : beats[k] # <<>> /\ ArticlesGoOn(beats[k])
  BY <1>1, <1>2, GoesOnBeats
<1>6. kept \in Prose(N) /\ Tells(kept) = TellsAll(front)
  BY <1>3, <1>4, JoinBeatsInProse, TellsJoined
<1>7. Tells(head) = Tells(kept) \cup TellsAll(rest)
  BY <1>1, <1>4, <1>6, TellsOfBeats
<1>8. CASE n = Len(beats)
  <2>1. Len(rest) = 0
    BY <1>2, <1>4, <1>8
  <2>2. rest = <<>>
    BY <1>4, <2>1
  <2>3. TellsAll(rest) = {}
    BY <2>2 DEF TellsAll
  <2>4. Tells(head) \subseteq Tells(kept) \cup Tells(<<>>)
    BY <1>7, <2>3
  <2>5. ArticlesGoOn(<<>>)
    BY GoesOnIs
  <2>6. Told(Tells(head), [root |-> kept, left |-> <<>>])
    BY <2>4, <2>5, ToldIs
  <2>7. TakeBeatsFitting(head) = [root |-> kept, left |-> <<>>]
    BY <1>1, <1>3, <1>8 DEF TakeBeatsFitting
  <2> QED
    BY <2>6, <2>7
<1>9. CASE n # Len(beats)
  <2>1. PICK next, part : next = beats[n + 1] /\ part = TakeSentencePrefix(next, RemainingAfter(kept))
    OBVIOUS
  <2>2. n + 1 \in 1..Len(beats) /\ 1 \in 1..(Len(beats) - n)
    BY <1>2, <1>9
  <2>3. next \in Prose(N) /\ ArticlesGoOn(next) /\ rest[1] = next
    BY <1>2, <1>4, <1>5, <2>1, <2>2
  <2>4. part \in Pieces(N, Tells(next))
    BY <2>1, <2>3, PiecesOfBeat
  <2>5. rest # <<>>
    BY <1>2, <1>4, <1>9
  <2>6. \A k \in DOMAIN rest : ArticlesGoOn(rest[k])
    <3>1. DOMAIN rest = 1..(Len(beats) - n)
      BY <1>4
    <3>2. \A k \in 1..(Len(beats) - n) : n + k \in 1..Len(beats)
      BY <1>2
    <3> QED
      BY <1>4, <1>5, <3>1, <3>2
  <2>7. ASSUME kept = <<>>, part.piece = <<>> PROVE Tells(next) = {}
    <3>1. n = 0
      <4>1. SUFFICES ASSUME n # 0 PROVE FALSE
        OBVIOUS
      <4>2. 1 \in 1..n /\ 1 \in 1..Len(beats)
        BY <1>2, <4>1
      <4>3. front[1] # <<>>
        BY <1>4, <1>5, <4>2
      <4>4. front # <<>>
        BY <1>4, <4>1
      <4>5. kept # <<>>
        BY <1>3, <1>4, <4>3, <4>4, JoinedBeats
      <4> QED
        BY <2>7, <4>5
    <3>2. next = Beats(head)[1]
      BY <1>1, <2>1, <3>1
    <3>3. head # <<>>
      <4>1. 1 \in DOMAIN Beats(head)
        BY <1>1, <1>2, <2>2, <3>1
      <4>2. \E i \in 1..Len(head) : TRUE
        BY <4>1, BeatsAre
      <4>3. Len(<<>>) = 0 /\ ~(\E i \in 1..0 : TRUE)
        OBVIOUS
      <4> QED
        BY <4>2, <4>3
    <3>4. FitsX(TakeLeadingSentence(next).first)
      BY <3>2, <3>3 DEF OpensShort
    <3>5. RemainingAfter(kept) = XCharLimit
      BY <2>7 DEF RemainingAfter
    <3>6. part = TakeSentencePrefix(next, XCharLimit)
      BY <2>1, <3>5
    <3> QED
      BY <2>3, <2>7, <3>4, <3>6, OpeningFits
  <2>8. Told(Tells(kept) \cup TellsAll(rest), SentencesOfBeat(kept, part, rest))
    BY <1>4, <1>6, <2>3, <2>4, <2>5, <2>6, <2>7, SentencesOfBeatTold
  <2>9. TakeBeatsFitting(head) = SentencesOfBeat(kept, part, rest)
    BY <1>1, <1>3, <1>9, <2>1 DEF TakeBeatsFitting
  <2> QED
    BY <1>7, <2>8, <2>9
<1> QED
  BY <1>8, <1>9

-----------------------------------------------------------------------------
(* The root grows.                                                            *)

\* The root and what is left of it say all that a text says, and what is left goes on.
SayHalves(N, W) == {r \in Halves(N) : W \subseteq Says(r.root) \cup Says(r.left) /\ ArticlesGoOn(r.left)}

LEMMA SayHalvesIs ==
    ASSUME NEW N, NEW W, NEW a \in Prose(N), NEW b \in Prose(N),
           W \subseteq Says(a) \cup Says(b), ArticlesGoOn(b)
    PROVE  [root |-> a, left |-> b] \in SayHalves(N, W)
<1>1. PICK r : r = [root |-> a, left |-> b]
  OBVIOUS
<1>2. r \in Halves(N) /\ r.root = a /\ r.left = b
  BY <1>1, SplitIs
<1> QED
  BY <1>1, <1>2 DEF SayHalves

LEMMA SayHalvesAre ==
    ASSUME NEW N, NEW W, NEW r \in SayHalves(N, W)
    PROVE  \E a, b : /\ a = r.root /\ b = r.left /\ a \in Prose(N) /\ b \in Prose(N)
                     /\ W \subseteq Says(a) \cup Says(b) /\ ArticlesGoOn(b)
<1>1. r \in Halves(N) /\ W \subseteq Says(r.root) \cup Says(r.left) /\ ArticlesGoOn(r.left)
  BY DEF SayHalves
<1>2. r.root \in Prose(N) /\ r.left \in Prose(N)
  BY <1>1 DEF Halves
<1> QED
  BY <1>1, <1>2

LEMMA SaysAfter ==
    ASSUME NEW N, NEW a \in Prose(N), NEW b \in Prose(N)
    PROVE  /\ Says(AfterPara(a, b)) = Says(a) \cup Says(b)
           /\ Says(AfterSpace(a, b)) = Says(a) \cup Says(b)
           /\ Says(a \o b) = Says(a) \cup Says(b)
           /\ Says(TrimStart(a)) = Says(a) /\ Says(TrimEnd(a)) = Says(a) /\ Says(Trimmed(a)) = Says(a)
<1>1. \A c : Tells(c) = Tells(a) \cup Tells(b) => Says(c) = Says(a) \cup Says(b)
  BY SaysIs
<1>2. \A c : Tells(c) = Tells(a) => Says(c) = Says(a)
  BY SaysIs
<1>3. Tells(AfterPara(a, b)) = Tells(a) \cup Tells(b) /\ Tells(AfterSpace(a, b)) = Tells(a) \cup Tells(b)
  BY TellsAfter
<1>4. Tells(a \o b) = Tells(a) \cup Tells(b)
  BY TellsJoin
<1>5. Tells(TrimStart(a)) = Tells(a) /\ Tells(TrimEnd(a)) = Tells(a) /\ Tells(Trimmed(a)) = Tells(a)
  BY TellsTrim
<1> QED
  BY <1>1, <1>2, <1>3, <1>4, <1>5

LEMMA SaysNone == Says(<<>>) = {}
  BY SaysIs, TellsNone

LEMMA GrowWithChunkSays ==
    ASSUME NEW N, NEW W, NEW r \in SayHalves(N, W), NEW chunk \in Prose(N), NEW rest \in Prose(N),
           ArticlesGoOn(chunk), ArticlesGoOn(rest), Says(r.left) \subseteq Says(chunk) \cup Says(rest)
    PROVE  GrowWithChunk(r, chunk, rest) \in SayHalves(N, W)
<1>1. PICK root, left : /\ root = r.root /\ left = r.left /\ root \in Prose(N) /\ left \in Prose(N)
                        /\ W \subseteq Says(root) \cup Says(left) /\ ArticlesGoOn(left)
  BY SayHalvesAre
<1>2. Says(left) \subseteq Says(chunk) \cup Says(rest)
  BY <1>1
<1>3. PICK longer : longer = AfterSpace(root, chunk)
  OBVIOUS
<1>4. CASE FitsX(longer)
  <2>1. longer \in Prose(N)
    BY <1>1, <1>3, AfterInProse
  <2>2. Says(longer) = Says(root) \cup Says(chunk)
    BY <1>1, <1>3, SaysAfter
  <2>3. W \subseteq Says(longer) \cup Says(rest)
    BY <1>1, <1>2, <2>2
  <2>4. [root |-> longer, left |-> rest] \in SayHalves(N, W)
    BY <2>1, <2>3, SayHalvesIs
  <2> QED
    BY <1>1, <1>3, <1>4, <2>4 DEF GrowWithChunk
<1>5. CASE ~FitsX(longer)
  <2>1. PICK part : part = SplitWordPrefix(chunk, RoomAfter(root))
    OBVIOUS
  <2>2. GrowWithChunk(r, chunk, rest) = GrowWithPart(r, part, rest)
    BY <1>1, <1>3, <1>5, <2>1 DEF GrowWithChunk
  <2>3. PICK piece, more : piece = part.piece /\ more = part.rest
    OBVIOUS
  <2>4. part \in Parts(N) /\ SaysOn(Says(chunk), part)
    BY <2>1, WordPrefixInProse, WordPrefixSays
  <2>5. /\ piece \in Prose(N) /\ more \in Prose(N) /\ ArticlesGoOn(more)
        /\ Says(chunk) \subseteq Says(piece) \cup Says(more)
    BY <2>3, <2>4 DEF Parts, SaysOn
  <2>6. PICK a, b : a = AfterSpace(root, piece) /\ b = AfterPara(more, rest)
    OBVIOUS
  <2>7. a \in Prose(N) /\ b \in Prose(N)
    BY <1>1, <2>5, <2>6, AfterInProse
  <2>8. Says(a) = Says(root) \cup Says(piece)
    BY <1>1, <2>5, <2>6, SaysAfter
  <2>9. Says(b) = Says(more) \cup Says(rest)
    BY <2>5, <2>6, SaysAfter
  <2>10. ArticlesGoOn(b)
    BY <2>5, <2>6, GoesOnAfter
  <2>11. W \subseteq Says(a) \cup Says(b)
    BY <1>1, <1>2, <2>5, <2>8, <2>9
  <2>12. [root |-> a, left |-> b] \in SayHalves(N, W)
    BY <2>7, <2>10, <2>11, SayHalvesIs
  <2> QED
    BY <1>1, <2>2, <2>3, <2>6, <2>12 DEF GrowWithPart
<1> QED
  BY <1>4, <1>5

LEMMA GrowOnSays ==
    ASSUME NEW N, NEW W, NEW r \in SayHalves(N, W), NEW trailer
    PROVE  GrowOn(r, trailer) \in SayHalves(N, W)
<1>1. PICK root, left : /\ root = r.root /\ left = r.left /\ root \in Prose(N) /\ left \in Prose(N)
                        /\ W \subseteq Says(root) \cup Says(left) /\ ArticlesGoOn(left)
  BY SayHalvesAre
<1>2. CASE Trimmed(left) = <<>> \/ ReplyFits(left, trailer)
  BY <1>1, <1>2 DEF GrowOn
<1>3. CASE Trimmed(left) # <<>> /\ ~ReplyFits(left, trailer)
  <2>1. PICK next, chunk, rest : next = TakeLeadingSentence(left) /\ chunk = next.first /\ rest = next.rest
    OBVIOUS
  <2>2. chunk \in Prose(N) /\ rest \in Prose(N)
    BY <1>1, <2>1, LeadingSentenceInProse
  <2>3. ArticlesGoOn(chunk) /\ ArticlesGoOn(rest)
    BY <1>1, <2>1, GoesOnInSentence
  <2>4. Tells(left) = Tells(chunk) \cup Tells(rest)
    BY <1>1, <2>1, TellsOfSentence
  <2>5. Says(left) \subseteq Says(chunk) \cup Says(rest)
    BY <2>4, SaysWhatTells
  <2>6. GrowWithChunk(r, chunk, rest) \in SayHalves(N, W)
    BY <1>1, <2>2, <2>3, <2>5, GrowWithChunkSays
  <2>7. GrowWithWord(r) \in SayHalves(N, W)
    <3>1. PICK t, n : t = TrimStart(left) /\ n = FirstWordLen(t)
      OBVIOUS
    <3>2. t \in Prose(N) /\ t # <<>> /\ IsWord(t[1])
      BY <1>1, <1>3, <3>1, TrimmedInProse, TrimmedStarts
    <3>3. ArticlesGoOn(t)
      BY <1>1, <3>1, GoesOnTrimmed
    <3>4. n \in 1..Len(t) /\ Len(t) \in Nat
      BY <3>1, <3>2, FirstWordIs, GoesOnIs
    <3>5. n \in 0..Len(t)
      BY <3>4
    <3>6. PICK word, more : word = Cut(t, n) /\ more = From(t, n + 1)
      OBVIOUS
    <3>7. word \in Prose(N) /\ more \in Prose(N)
      BY <3>2, <3>5, <3>6, PartsOfList
    <3>8. Tells(t) = Tells(word) \cup Tells(more)
      BY <3>2, <3>5, <3>6, TellsCut
    <3>9. ArticlesGoOn(more)
      BY <3>2, <3>3, <3>5, <3>6, GoesOnFrom
    <3>10. PICK a, b : a = AfterSpace(root, word) /\ b = TrimStart(more)
      OBVIOUS
    <3>11. a \in Prose(N) /\ Says(a) = Says(root) \cup Says(word)
      <4>1. AfterSpace(root, word) \in Prose(N)
        BY <1>1, <3>7, AfterInProse
      <4>2. Says(AfterSpace(root, word)) = Says(root) \cup Says(word)
        BY <1>1, <3>7, SaysAfter
      <4> QED
        BY <3>10, <4>1, <4>2
    <3>12. b \in Prose(N) /\ Says(b) = Says(more)
      BY <3>7, <3>10, TrimmedInProse, SaysAfter
    <3>13. ArticlesGoOn(b)
      BY <3>7, <3>9, <3>10, GoesOnTrimmed
    <3>14. Says(t) \subseteq Says(word) \cup Says(more)
      BY <3>8, SaysWhatTells
    <3>15. Says(t) = Says(left)
      BY <1>1, <3>1, SaysAfter
    <3>16. W \subseteq Says(a) \cup Says(b)
      BY <1>1, <3>11, <3>12, <3>14, <3>15
    <3>17. [root |-> a, left |-> b] \in SayHalves(N, W)
      BY <3>11, <3>12, <3>13, <3>16, SayHalvesIs
    <3> QED
      BY <1>1, <3>1, <3>6, <3>10, <3>17 DEF GrowWithWord
  <2>8. GrowOn(r, trailer) = GrowOnce(r)
    BY <1>1, <1>3 DEF GrowOn
  <2> QED
    BY <1>1, <2>1, <2>6, <2>7, <2>8 DEF GrowOnce
<1> QED
  BY <1>2, <1>3

LEMMA GrowRootSays ==
    ASSUME NEW N, NEW W, NEW r \in SayHalves(N, W), NEW trailer
    PROVE  GrowRoot(r, trailer) \in SayHalves(N, W)
<1>1. PICK len, X : len = XCharLimit + 1 /\ X = SayHalves(N, W)
  OBVIOUS
<1>2. len \in Nat /\ len \in 0..len /\ r \in Halves(N)
  BY <1>1, XThreadAssumption DEF SayHalves
<1>3. PICK run : /\ run[0] = r /\ run[len] = GrowRoot(r, trailer)
                 /\ \A n \in 1..len : run[n] = GrowOn(run[n - 1], trailer)
  BY <1>1, <1>2, GrowRootRuns
<1>4. ASSUME NEW n \in 1..len, run[n - 1] \in X PROVE run[n] \in X
  <2>1. PICK x : x = run[n - 1]
    OBVIOUS
  <2>2. GrowOn(x, trailer) \in X
    BY <1>1, <1>4, <2>1, GrowOnSays
  <2> QED
    BY <1>3, <2>1, <2>2
<1>5. run[0] \in X
  BY <1>1, <1>3
<1>6. \A n \in 0..len : run[n] \in X
  BY <1>2, <1>4, <1>5, LoopStays
<1> QED
  BY <1>1, <1>2, <1>3, <1>6

LEMMA OneItem ==
    ASSUME NEW S, NEW s \in Seq(S), Len(s) = 1
    PROVE  s = <<s[1]>>
  OBVIOUS

\* A text is what stands before its last word, and that word.
LEMMA TellsLast ==
    ASSUME NEW N, NEW t \in Prose(N), t # <<>>
    PROVE  /\ Front(t) \in Prose(N) /\ <<Last(t)>> \in Prose(N)
           /\ Tells(t) = Tells(Front(t)) \cup Tells(<<Last(t)>>)
<1>1. PICK len, n : len = Len(t) /\ n = len - 1
  OBVIOUS
<1>2. /\ len \in Nat /\ len >= 1 /\ n \in 0..len
      /\ n + 1 = len /\ len - n = 1 /\ 1 \in 1..(len - n) /\ n + 1 \in 1..len
  BY <1>1 DEF Prose
<1>3. PICK a, b : a = Cut(t, n) /\ b = From(t, n + 1)
  OBVIOUS
<1>4. /\ a \in Prose(N) /\ b \in Prose(N) /\ Len(b) = len - n /\ \A i \in 1..(len - n) : b[i] = t[n + i]
  BY <1>1, <1>2, <1>3, PartsOfList
<1>5. Tells(t) = Tells(a) \cup Tells(b)
  BY <1>1, <1>2, <1>3, TellsCut
<1>6. Front(t) = a
  BY <1>1, <1>3 DEF Front, Cut
<1>7. <<Last(t)>> = b
  <2>1. Last(t) = t[len]
    BY <1>1 DEF Last
  <2>2. b[1] = t[len] /\ Len(b) = 1
    BY <1>2, <1>4
  <2>3. b = <<b[1]>>
    <3>1. b \in Seq(Tokens(N))
      BY <1>4 DEF Prose
    <3> QED
      BY <2>2, <3>1, OneItem
  <2> QED
    BY <2>1, <2>2, <2>3
<1> QED
  BY <1>4, <1>5, <1>6, <1>7

\* The root and what is left of it say all that a text says.
Halved(N, W) == {r \in Halves(N) : W \subseteq Says(r.root) \cup Says(r.left)}

LEMMA HalvedIs ==
    ASSUME NEW N, NEW W, NEW a \in Prose(N), NEW b \in Prose(N), W \subseteq Says(a) \cup Says(b)
    PROVE  [root |-> a, left |-> b] \in Halved(N, W)
<1>1. PICK r : r = [root |-> a, left |-> b]
  OBVIOUS
<1>2. r \in Halves(N) /\ r.root = a /\ r.left = b
  BY <1>1, SplitIs
<1> QED
  BY <1>1, <1>2 DEF Halved

LEMMA HalvedAre ==
    ASSUME NEW N, NEW W, NEW r \in Halved(N, W)
    PROVE  \E a, b : /\ a = r.root /\ b = r.left /\ a \in Prose(N) /\ b \in Prose(N)
                     /\ W \subseteq Says(a) \cup Says(b)
<1>1. r \in Halves(N) /\ W \subseteq Says(r.root) \cup Says(r.left)
  BY DEF Halved
<1>2. r.root \in Prose(N) /\ r.left \in Prose(N)
  BY <1>1 DEF Halves
<1> QED
  BY <1>1, <1>2

LEMMA GiveBackSays ==
    ASSUME NEW N, NEW W, NEW r \in Halved(N, W), NEW trailer
    PROVE  GiveBack(r, trailer) \in Halved(N, W)
<1>1. PICK root, left : /\ root = r.root /\ left = r.left /\ root \in Prose(N) /\ left \in Prose(N)
                        /\ W \subseteq Says(root) \cup Says(left)
  BY HalvedAre
<1>2. CASE root = <<>>
  BY <1>1, <1>2 DEF GiveBack
<1>3. CASE root # <<>>
  <2>1. PICK front, last : front = Front(root) /\ last = <<Last(root)>>
    OBVIOUS
  <2>2. front \in Prose(N) /\ last \in Prose(N) /\ Tells(root) = Tells(front) \cup Tells(last)
    BY <1>1, <1>3, <2>1, TellsLast
  <2>3. Says(root) \subseteq Says(front) \cup Says(last)
    BY <2>2, SaysWhatTells
  <2>4. PICK rest, a, b : rest = Trimmed(left) /\ a = TrimEnd(front) /\ b = last \o rest
    OBVIOUS
  <2>5. rest \in Prose(N) /\ Says(rest) = Says(left)
    BY <1>1, <2>4, TrimmedInProse, SaysAfter
  <2>6. a \in Prose(N) /\ Says(a) = Says(front)
    BY <2>2, <2>4, TrimmedInProse, SaysAfter
  <2>7. b \in Prose(N)
    BY <2>2, <2>4, <2>5, JoinIs
  <2>8. Says(b) = Says(last) \cup Says(rest)
    BY <2>2, <2>4, <2>5, SaysAfter
  <2>9. W \subseteq Says(a) \cup Says(b)
    BY <1>1, <2>3, <2>5, <2>6, <2>8
  <2>10. [root |-> a, left |-> b] \in Halved(N, W)
    BY <2>6, <2>7, <2>9, HalvedIs
  <2> QED
    BY <1>1, <2>1, <2>4, <2>10 DEF GiveBack
<1> QED
  BY <1>2, <1>3

LEMMA RebalanceSays ==
    ASSUME NEW N, NEW W, NEW r \in Halved(N, W), NEW trailer
    PROVE  RebalanceDanglingTail(r, trailer) \in Halved(N, W)
<1>1. PICK len, X : len = Len(r.root) /\ X = Halved(N, W)
  OBVIOUS
<1>2. r \in Halves(N)
  BY DEF Halved
<1>3. len \in Nat /\ len \in 0..len
  BY <1>1, <1>2 DEF Halves, Prose
<1>4. PICK run : /\ run[0] = r /\ run[len] = RebalanceDanglingTail(r, trailer)
                 /\ \A n \in 1..len : run[n] = GiveBack(run[n - 1], trailer)
  <2>1. \E run : /\ run[0] = r /\ run[Len(r.root)] = RebalanceDanglingTail(r, trailer)
                 /\ \A n \in 0..Len(r.root) : run[n] \in Halves(N)
                 /\ \A n \in 1..Len(r.root) : run[n] = GiveBack(run[n - 1], trailer)
    BY <1>2, RebalanceRuns
  <2> QED
    BY <1>1, <2>1
<1>5. ASSUME NEW n \in 1..len, run[n - 1] \in X PROVE run[n] \in X
  <2>1. PICK x : x = run[n - 1]
    OBVIOUS
  <2>2. GiveBack(x, trailer) \in X
    BY <1>1, <1>5, <2>1, GiveBackSays
  <2> QED
    BY <1>4, <2>1, <2>2
<1>6. run[0] \in X
  BY <1>1, <1>4
<1>7. \A n \in 0..len : run[n] \in X
  BY <1>3, <1>5, <1>6, LoopStays
<1> QED
  BY <1>1, <1>3, <1>4, <1>7

LEMMA TellsLastSentenceEnd ==
    ASSUME NEW N, NEW t \in Prose(N), NEW c \in SplitAtLastSentenceEnd(t)
    PROVE  /\ c.keep \in Prose(N) /\ c.frag \in Prose(N)
           /\ Tells(t) = Tells(c.keep) \cup Tells(c.frag)
<1>1. PICK ends, n : /\ ends = {EmojiEnd(t, i) : i \in {j \in DOMAIN t : t[j].k \in Stops}}
                     /\ n = Max(ends)
  OBVIOUS
<1>2. ends # {} /\ c = [keep |-> TrimEnd(Cut(t, n)), frag |-> TrimStart(From(t, n + 1))]
  BY <1>1 DEF SplitAtLastSentenceEnd
<1>3. Len(t) \in Nat /\ DOMAIN t = 1..Len(t)
  BY DEF Prose
<1>4. ends \subseteq 0..Len(t)
  BY <1>1, <1>3, EmojiEndIs
<1>5. n \in 0..Len(t)
  BY <1>1, <1>2, <1>3, <1>4, MaxIsIn
<1>6. PICK a, b : a = Cut(t, n) /\ b = From(t, n + 1)
  OBVIOUS
<1>7. a \in Prose(N) /\ b \in Prose(N)
  BY <1>5, <1>6, PartsOfList
<1>8. Tells(t) = Tells(a) \cup Tells(b)
  BY <1>5, <1>6, TellsCut
<1>9. TrimEnd(a) \in Prose(N) /\ Tells(TrimEnd(a)) = Tells(a)
  BY <1>7, TrimmedInProse, TellsTrim
<1>10. TrimStart(b) \in Prose(N) /\ Tells(TrimStart(b)) = Tells(b)
  BY <1>7, TrimmedInProse, TellsTrim
<1>11. c.keep = TrimEnd(a) /\ c.frag = TrimStart(b)
  BY <1>2, <1>6
<1> QED
  BY <1>8, <1>9, <1>10, <1>11

LEMMA PeelTailSays ==
    ASSUME NEW N, NEW W, NEW r \in Halved(N, W), NEW trailer
    PROVE  PeelIncompleteTail(r, trailer) \in Halved(N, W)
<1>1. PICK root, left : /\ root = r.root /\ left = r.left /\ root \in Prose(N) /\ left \in Prose(N)
                        /\ W \subseteq Says(root) \cup Says(left)
  BY HalvedAre
<1>2. PICK cuts : cuts = IF EndsSentence(root) THEN {} ELSE SplitAtLastSentenceEnd(root)
  OBVIOUS
<1>3. ASSUME NEW c \in cuts PROVE [root |-> c.keep, left |-> AfterPara(c.frag, Trimmed(left))] \in Halved(N, W)
  <2>1. c \in SplitAtLastSentenceEnd(root)
    BY <1>2
  <2>2. PICK a, f : a = c.keep /\ f = c.frag
    OBVIOUS
  <2>3. a \in Prose(N) /\ f \in Prose(N) /\ Tells(root) = Tells(a) \cup Tells(f)
    BY <1>1, <2>1, <2>2, TellsLastSentenceEnd
  <2>4. Says(root) \subseteq Says(a) \cup Says(f)
    BY <2>3, SaysWhatTells
  <2>5. PICK rest, b : rest = Trimmed(left) /\ b = AfterPara(f, rest)
    OBVIOUS
  <2>6. rest \in Prose(N) /\ Says(rest) = Says(left)
    BY <1>1, <2>5, TrimmedInProse, SaysAfter
  <2>7. b \in Prose(N)
    BY <2>3, <2>5, <2>6, AfterInProse
  <2>8. Says(b) = Says(f) \cup Says(rest)
    BY <2>3, <2>5, <2>6, SaysAfter
  <2>9. W \subseteq Says(a) \cup Says(b)
    BY <1>1, <2>4, <2>6, <2>8
  <2>10. [root |-> a, left |-> b] \in Halved(N, W)
    BY <2>3, <2>7, <2>9, HalvedIs
  <2> QED
    BY <2>2, <2>5, <2>10
<1>4. \/ PeelIncompleteTail(r, trailer) = r
      \/ \E c \in cuts : PeelIncompleteTail(r, trailer)
                                  = [root |-> c.keep, left |-> AfterPara(c.frag, Trimmed(left))]
  <2>1. CASE cuts = {}
    BY <1>1, <1>2, <2>1 DEF PeelIncompleteTail
  <2>2. CASE cuts # {}
    <3>1. PICK c : c = CHOOSE d \in cuts : TRUE
      OBVIOUS
    <3>2. c \in cuts
      BY <2>2, <3>1
    <3>3. PeelIncompleteTail(r, trailer) = r
          \/ PeelIncompleteTail(r, trailer) = [root |-> c.keep, left |-> AfterPara(c.frag, Trimmed(left))]
      BY <1>1, <1>2, <3>1 DEF PeelIncompleteTail
    <3> QED
      BY <3>2, <3>3
  <2> QED
    BY <2>1, <2>2
<1> QED
  BY <1>3, <1>4

-----------------------------------------------------------------------------
(* Lines.                                                                     *)

LEMMA TellsOfLists ==
    ASSUME NEW N, NEW a \in Seq(Prose(N)), NEW b \in Seq(Prose(N))
    PROVE  a \o b \in Seq(Prose(N)) /\ TellsAll(a \o b) = TellsAll(a) \cup TellsAll(b)
<1>1. PICK m, n, c : m = Len(a) /\ n = Len(b) /\ c = a \o b
  OBVIOUS
<1>2. /\ m \in Nat /\ n \in Nat /\ DOMAIN a = 1..m /\ DOMAIN b = 1..n
      /\ c \in Seq(Prose(N)) /\ DOMAIN c = 1..(m + n)
  BY <1>1
<1>3. (\A i \in 1..m : c[i] = a[i]) /\ \A i \in 1..n : c[m + i] = b[i]
  BY <1>1, <1>2
<1>4. \A i \in 1..(m + n) : i \in 1..m \/ (i - m \in 1..n /\ m + (i - m) = i)
  BY <1>2
<1>5. (\A i \in 1..m : i \in 1..(m + n)) /\ \A i \in 1..n : m + i \in 1..(m + n)
  BY <1>2
<1>6. /\ TellsAll(a) = UNION {Tells(a[i]) : i \in 1..m}
      /\ TellsAll(b) = UNION {Tells(b[i]) : i \in 1..n}
      /\ TellsAll(c) = UNION {Tells(c[i]) : i \in 1..(m + n)}
  BY <1>2 DEF TellsAll
<1>7. ASSUME NEW x \in TellsAll(c) PROVE x \in TellsAll(a) \/ x \in TellsAll(b)
  <2>1. PICK i \in 1..(m + n) : x \in Tells(c[i])
    BY <1>6, <1>7
  <2>2. CASE i \in 1..m
    <3>1. x \in Tells(a[i])
      BY <1>3, <2>1, <2>2
    <3> QED
      BY <1>6, <2>2, <3>1
  <2>3. CASE i \notin 1..m
    <3>1. PICK j : j = i - m
      OBVIOUS
    <3>2. j \in 1..n /\ m + j = i
      BY <1>4, <2>3, <3>1
    <3>3. x \in Tells(b[j])
      BY <1>3, <2>1, <3>2
    <3> QED
      BY <1>6, <3>2, <3>3
  <2> QED
    BY <2>2, <2>3
<1>8. ASSUME NEW x, x \in TellsAll(a) \/ x \in TellsAll(b) PROVE x \in TellsAll(c)
  <2>1. CASE x \in TellsAll(a)
    <3>1. PICK i \in 1..m : x \in Tells(a[i])
      BY <1>6, <2>1
    <3>2. x \in Tells(c[i]) /\ i \in 1..(m + n)
      BY <1>3, <1>5, <3>1
    <3> QED
      BY <1>6, <3>2
  <2>2. CASE x \in TellsAll(b)
    <3>1. PICK i \in 1..n : x \in Tells(b[i])
      BY <1>6, <2>2
    <3>2. PICK j : j = m + i
      OBVIOUS
    <3>3. x \in Tells(c[j]) /\ j \in 1..(m + n)
      BY <1>3, <1>5, <3>1, <3>2
    <3> QED
      BY <1>6, <3>3
  <2> QED
    BY <1>8, <2>1, <2>2
<1>9. TellsAll(c) = TellsAll(a) \cup TellsAll(b)
  BY <1>7, <1>8
<1> QED
  BY <1>1, <1>2, <1>9

LEMMA AppendIsJoin ==
    ASSUME NEW S, NEW s \in Seq(S), NEW x \in S
    PROVE  Append(s, x) = s \o <<x>>
  OBVIOUS

LEMMA TellsOfOne ==
    ASSUME NEW N, NEW t \in Prose(N)
    PROVE  <<t>> \in Seq(Prose(N)) /\ TellsAll(<<t>>) = Tells(t) /\ TellsAll(<<>>) = {}
<1>1. PICK one : one = <<t>>
  OBVIOUS
<1>2. one \in Seq(Prose(N)) /\ DOMAIN one = {1} /\ one[1] = t
  BY <1>1
<1>3. TellsAll(one) = Tells(t)
  BY <1>2 DEF TellsAll
<1>4. TellsAll(<<>>) = {}
  BY DEF TellsAll
<1> QED
  BY <1>1, <1>2, <1>3, <1>4

\* Texts and one more, after or before them.
LEMMA TellsOneMore ==
    ASSUME NEW N, NEW t \in Prose(N), NEW texts \in Seq(Prose(N))
    PROVE  /\ TellsAll(<<t>> \o texts) = Tells(t) \cup TellsAll(texts)
           /\ TellsAll(Append(texts, t)) = TellsAll(texts) \cup Tells(t)
<1>1. PICK one : one = <<t>>
  OBVIOUS
<1>2. one \in Seq(Prose(N)) /\ TellsAll(one) = Tells(t)
  BY <1>1, TellsOfOne
<1>3. TellsAll(one \o texts) = TellsAll(one) \cup TellsAll(texts)
  BY <1>2, TellsOfLists
<1>4. TellsAll(texts \o one) = TellsAll(texts) \cup TellsAll(one)
  BY <1>2, TellsOfLists
<1>5. Append(texts, t) = texts \o <<t>>
  BY AppendIsJoin
<1> QED
  BY <1>1, <1>2, <1>3, <1>4, <1>5

\* Lines are those before the last, and the last.
LEMMA TellsOfLines ==
    ASSUME NEW N, NEW lines \in Seq(Prose(N)), lines # <<>>
    PROVE  /\ Front(lines) \in Seq(Prose(N)) /\ Last(lines) \in Prose(N)
           /\ TellsAll(lines) = TellsAll(Front(lines)) \cup Tells(Last(lines))
<1>1. PICK len, n : len = Len(lines) /\ n = len - 1
  OBVIOUS
<1>2. len \in Nat /\ len >= 1 /\ n \in 0..len /\ n + 1 = len /\ len - n = 1 /\ 1 \in 1..(len - n)
  BY <1>1
<1>3. PICK a, b, last : a = Cut(lines, n) /\ b = From(lines, n + 1) /\ last = lines[len]
  OBVIOUS
<1>4. /\ a \in Seq(Prose(N)) /\ b \in Seq(Prose(N)) /\ Len(b) = len - n
      /\ \A i \in 1..(len - n) : b[i] = lines[n + i]
      /\ TellsAll(lines) = TellsAll(a) \cup TellsAll(b)
  <2>1. /\ Cut(lines, n) \in Seq(Prose(N)) /\ From(lines, n + 1) \in Seq(Prose(N))
        /\ Len(From(lines, n + 1)) = len - n
        /\ \A i \in 1..(len - n) : From(lines, n + 1)[i] = lines[n + i]
        /\ TellsAll(lines) = TellsAll(Cut(lines, n)) \cup TellsAll(From(lines, n + 1))
    <3>1. n \in 0..Len(lines)
      BY <1>1, <1>2
    <3>2. /\ Cut(lines, n) \in Seq(Prose(N)) /\ From(lines, n + 1) \in Seq(Prose(N))
          /\ Len(From(lines, n + 1)) = Len(lines) - n
          /\ \A i \in 1..(Len(lines) - n) : From(lines, n + 1)[i] = lines[n + i]
          /\ TellsAll(lines) = TellsAll(Cut(lines, n)) \cup TellsAll(From(lines, n + 1))
      BY <3>1, TellsCutList
    <3> QED
      BY <1>1, <3>2
  <2> QED
    BY <1>3, <2>1
<1>5. last \in Prose(N)
  BY <1>1, <1>2, <1>3
<1>6. Front(lines) = a /\ Last(lines) = last
  BY <1>1, <1>3 DEF Front, Cut, Last
<1>7. b = <<last>>
  <2>1. Len(b) = 1 /\ b[1] = last
    BY <1>2, <1>3, <1>4
  <2> QED
    BY <1>4, <2>1, OneItem
<1>8. TellsAll(b) = Tells(last)
  BY <1>5, <1>7, TellsOfOne
<1> QED
  BY <1>4, <1>5, <1>6, <1>8

\* What the lines that are left, the tags and the address tell.
LinesTell(p) == TellsAll(p.lines) \cup TellsAll(p.tags) \cup Tells(p.url)

LEMMA PeelLineTells ==
    ASSUME NEW N, NEW p \in Peeled(N)
    PROVE  LinesTell(PeelLine(p)) = LinesTell(p)
<1>1. PICK lines, tags, url : lines = p.lines /\ tags = p.tags /\ url = p.url
  OBVIOUS
<1>2. lines \in Seq(Prose(N)) /\ tags \in Seq(Prose(N)) /\ url \in Prose(N)
  BY <1>1 DEF Peeled
<1>3. CASE lines = <<>>
  BY <1>1, <1>3 DEF PeelLine
<1>4. CASE lines # <<>>
  <2>1. PICK rest, line, at : rest = Front(lines) /\ line = Last(lines) /\ at = TagsFrom(line)
    OBVIOUS
  <2>2. rest \in Seq(Prose(N)) /\ line \in Prose(N) /\ TellsAll(lines) = TellsAll(rest) \cup Tells(line)
    BY <1>2, <1>4, <2>1, TellsOfLines
  <2>3. \A l, g, u :
            /\ LinesTell([p EXCEPT !.lines = l]) = TellsAll(l) \cup TellsAll(tags) \cup Tells(url)
            /\ LinesTell([p EXCEPT !.lines = l, !.tags = g]) = TellsAll(l) \cup TellsAll(g) \cup Tells(url)
            /\ LinesTell([p EXCEPT !.lines = l, !.url = u]) = TellsAll(l) \cup TellsAll(tags) \cup Tells(u)
    BY <1>1 DEF LinesTell, Peeled
  <2>4. LinesTell(p) = TellsAll(rest) \cup Tells(line) \cup TellsAll(tags) \cup Tells(url)
    BY <1>1, <2>2 DEF LinesTell
  <2>5. CASE line = <<>>
    <3>1. PeelLine(p) = [p EXCEPT !.lines = rest]
      BY <1>1, <1>4, <2>1, <2>5 DEF PeelLine
    <3>2. Tells(line) = {}
      BY <2>5, TellsNone
    <3> QED
      BY <2>3, <2>4, <3>1, <3>2
  <2>6. CASE line # <<>> /\ url = <<>> /\ IsCiteLine(line)
    <3>1. PeelLine(p) = [p EXCEPT !.lines = rest, !.url = line]
      BY <1>1, <1>4, <2>1, <2>6 DEF PeelLine
    <3>2. Tells(url) = {}
      BY <2>6, TellsNone
    <3>3. LinesTell(PeelLine(p)) = TellsAll(rest) \cup TellsAll(tags) \cup Tells(line)
      BY <2>3, <3>1
    <3> QED
      BY <2>4, <3>2, <3>3
  <2>7. CASE line # <<>> /\ ~(url = <<>> /\ IsCiteLine(line)) /\ IsTagLine(line)
    <3>1. PICK more : more = <<line>> \o tags
      OBVIOUS
    <3>2. PeelLine(p) = [p EXCEPT !.lines = rest, !.tags = more]
      BY <1>1, <1>4, <2>1, <2>7, <3>1 DEF PeelLine
    <3>3. TellsAll(more) = Tells(line) \cup TellsAll(tags)
      BY <1>2, <2>2, <3>1, TellsOneMore
    <3>4. LinesTell(PeelLine(p)) = TellsAll(rest) \cup TellsAll(more) \cup Tells(url)
      BY <2>3, <3>2
    <3> QED
      BY <2>4, <3>3, <3>4
  <2>8. CASE line # <<>> /\ ~(url = <<>> /\ IsCiteLine(line)) /\ ~IsTagLine(line) /\ at # 0
    <3>1. PICK n : n = at - 1
      OBVIOUS
    <3>2. at \in 2..Len(line) /\ Len(line) \in Nat
      BY <2>1, <2>2, <2>8, TagsFromIs DEF Prose
    <3>3. n \in 0..Len(line) /\ n + 1 = at
      BY <3>1, <3>2
    <3>4. PICK front, end : front = Cut(line, n) /\ end = From(line, at)
      OBVIOUS
    <3>5. front \in Prose(N) /\ end \in Prose(N)
      BY <2>2, <3>3, <3>4, PartsOfList
    <3>6. Tells(line) = Tells(front) \cup Tells(end)
      BY <2>2, <3>3, <3>4, TellsCut
    <3>7. PICK less, more : less = Append(rest, front) /\ more = <<end>> \o tags
      OBVIOUS
    <3>8. PeelLine(p) = [p EXCEPT !.lines = less, !.tags = more]
      BY <1>1, <1>4, <2>1, <2>8, <3>1, <3>4, <3>7 DEF PeelLine
    <3>9. TellsAll(more) = Tells(end) \cup TellsAll(tags)
      BY <1>2, <3>5, <3>7, TellsOneMore
    <3>10. TellsAll(less) = TellsAll(rest) \cup Tells(front)
      BY <2>2, <3>5, <3>7, TellsOneMore
    <3>11. LinesTell(PeelLine(p)) = TellsAll(less) \cup TellsAll(more) \cup Tells(url)
      BY <2>3, <3>8
    <3> QED
      BY <2>4, <3>6, <3>9, <3>10, <3>11
  <2>9. CASE line # <<>> /\ ~(url = <<>> /\ IsCiteLine(line)) /\ ~IsTagLine(line) /\ at = 0
    <3>1. PeelLine(p) = p
      BY <1>1, <1>4, <2>1, <2>9 DEF PeelLine
    <3> QED
      BY <3>1
  <2> QED
    BY <2>5, <2>6, <2>7, <2>8, <2>9
<1> QED
  BY <1>3, <1>4

LEMMA PeelTrailerTells ==
    ASSUME NEW N, NEW lines \in Seq(Prose(N))
    PROVE  TellsAll(PeelTrailer(lines).lines) \cup Tells(PeelTrailer(lines).trailer) = TellsAll(lines)
<1>1. PICK len, X : len = 2 * Len(lines) /\ X = {p \in Peeled(N) : LinesTell(p) = TellsAll(lines)}
  OBVIOUS
<1>2. len \in Nat /\ len \in 0..len
  BY <1>1
<1>3. PICK run : /\ run[0] = [lines |-> lines, tags |-> <<>>, url |-> <<>>] /\ run[len] = PeelLines(lines)
                 /\ \A n \in 0..len : run[n] \in Peeled(N)
                 /\ \A n \in 1..len : run[n] = PeelLine(run[n - 1])
  <2>1. \E run : /\ run[0] = [lines |-> lines, tags |-> <<>>, url |-> <<>>]
                 /\ run[2 * Len(lines)] = PeelLines(lines)
                 /\ \A n \in 0..(2 * Len(lines)) : run[n] \in Peeled(N)
                 /\ \A n \in 1..(2 * Len(lines)) : run[n] = PeelLine(run[n - 1])
    BY PeelLinesRuns
  <2> QED
    BY <1>1, <2>1
<1>4. run[0] \in X
  <2>1. run[0].lines = lines /\ run[0].tags = <<>> /\ run[0].url = <<>>
    BY <1>3
  <2>2. TellsAll(<<>>) = {} /\ Tells(<<>>) = {}
    BY TellsNone DEF TellsAll
  <2>3. LinesTell(run[0]) = TellsAll(lines)
    BY <2>1, <2>2 DEF LinesTell
  <2>4. 0 \in 0..len
    BY <1>2
  <2> QED
    BY <1>1, <1>3, <2>3, <2>4
<1>5. ASSUME NEW n \in 1..len, run[n - 1] \in X PROVE run[n] \in X
  <2>1. PICK x : x = run[n - 1]
    OBVIOUS
  <2>2. x \in Peeled(N) /\ LinesTell(x) = TellsAll(lines)
    BY <1>1, <1>5, <2>1
  <2>3. LinesTell(PeelLine(x)) = LinesTell(x) /\ PeelLine(x) \in Peeled(N)
    BY <2>2, PeelLineTells, PeelLineInProse
  <2>4. run[n] = PeelLine(x)
    BY <1>3, <2>1
  <2> QED
    BY <1>1, <2>2, <2>3, <2>4
<1>6. \A n \in 0..len : run[n] \in X
  BY <1>2, <1>4, <1>5, LoopStays
<1>7. PICK p : p = PeelLines(lines)
  OBVIOUS
<1>8. p \in Peeled(N) /\ LinesTell(p) = TellsAll(lines)
  BY <1>1, <1>2, <1>3, <1>6, <1>7
<1>9. PICK tags, joined, url : tags = p.tags /\ joined = JoinBeats(tags) /\ url = p.url
  OBVIOUS
<1>10. tags \in Seq(Prose(N)) /\ url \in Prose(N)
  BY <1>8, <1>9 DEF Peeled
<1>11. joined \in Prose(N) /\ Tells(joined) = TellsAll(tags)
  BY <1>9, <1>10, JoinBeatsInProse, TellsJoined
<1>12. Tells(AfterPara(joined, url)) = TellsAll(tags) \cup Tells(url)
  BY <1>10, <1>11, TellsAfter
<1>13. PeelTrailer(lines).lines = p.lines /\ PeelTrailer(lines).trailer = AfterPara(joined, url)
  BY <1>7, <1>9 DEF PeelTrailer
<1> QED
  BY <1>8, <1>9, <1>12, <1>13 DEF LinesTell

LEMMA PromotedTells ==
    ASSUME NEW N, NEW lines \in Seq(Prose(N))
    PROVE  PromoteLineBreaks(lines) \in Prose(N) /\ Tells(PromoteLineBreaks(lines)) = TellsAll(lines)
  BY JoinBeatsInProse, TellsJoined DEF PromoteLineBreaks

SaysAll(texts) == UNION {Says(texts[i]) : i \in DOMAIN texts}

LEMMA SaysOfTwo ==
    ASSUME NEW N, NEW a \in Prose(N), NEW b \in Prose(N)
    PROVE  Says(a) \cup Says(b) \subseteq SaysAll(Only(<<a, b>>, LAMBDA t : t # <<>>))
<1>1. PICK two, places, kept : /\ two = <<a, b>> /\ places = {i \in DOMAIN two : two[i] # <<>>}
                               /\ kept = Keep(two, places)
  OBVIOUS
<1>2. two \in Seq(Prose(N)) /\ DOMAIN two = 1..2 /\ two[1] = a /\ two[2] = b
  BY <1>1
<1>3. kept \in Seq(Prose(N)) /\ IsKept(kept, two, places)
  BY <1>1, <1>2, KeepIsKept
<1>4. DOMAIN kept = 1..Len(kept)
  BY <1>3
<1>5. ASSUME NEW i \in 1..2, NEW n \in Says(two[i]) PROVE n \in SaysAll(kept)
  <2>1. two[i] # <<>>
    BY <1>5, SaysNone
  <2>2. i \in places \cap DOMAIN two
    BY <1>1, <1>2, <2>1
  <2>3. PICK k \in 1..Len(kept) : kept[k] = two[i]
    BY <1>3, <2>2 DEF IsKept
  <2> QED
    BY <1>4, <1>5, <2>3 DEF SaysAll
<1>6. Only(<<a, b>>, LAMBDA t : t # <<>>) = kept
  BY <1>1 DEF Only
<1>7. 1 \in 1..2 /\ 2 \in 1..2
  OBVIOUS
<1>8. Says(a) \cup Says(b) \subseteq SaysAll(kept)
  BY <1>2, <1>5, <1>7
<1> QED
  BY <1>6, <1>8

LEMMA ForwardFillSays ==
    ASSUME NEW N, NEW head \in Prose(N), ArticlesGoOn(head), OpensShort(head), NEW trailer \in Prose(N)
    PROVE  Says(head) \cup Says(trailer) \subseteq SaysAll(ForwardFillSplit(head, trailer))
<1>1. PICK W, taken : W = Says(head) /\ taken = TakeBeatsFitting(head)
  OBVIOUS
<1>2. taken \in Halves(N)
  BY <1>1, TakeBeatsInProse
<1>3. Told(Tells(head), taken)
  BY <1>1, TakeBeatsTold
<1>4. taken \in SayHalves(N, W)
  <2>1. Tells(head) \subseteq Tells(taken.root) \cup Tells(taken.left) /\ ArticlesGoOn(taken.left)
    BY <1>3 DEF Told
  <2>2. Says(head) \subseteq Says(taken.root) \cup Says(taken.left)
    BY <2>1, SaysWhatTells
  <2> QED
    BY <1>1, <1>2, <2>1, <2>2 DEF SayHalves
<1>5. PICK grown : grown = GrowRoot(taken, trailer)
  OBVIOUS
<1>6. grown \in SayHalves(N, W)
  BY <1>4, <1>5, GrowRootSays
<1>7. grown \in Halved(N, W)
  BY <1>6 DEF SayHalves, Halved
<1>8. PICK given : given = RebalanceDanglingTail(grown, trailer)
  OBVIOUS
<1>9. given \in Halved(N, W)
  BY <1>7, <1>8, RebalanceSays
<1>10. PICK r : r = PeelIncompleteTail(given, trailer)
  OBVIOUS
<1>11. r \in Halved(N, W)
  BY <1>9, <1>10, PeelTailSays
<1>12. PICK root, left : /\ root = r.root /\ left = r.left /\ root \in Prose(N) /\ left \in Prose(N)
                         /\ W \subseteq Says(root) \cup Says(left)
  BY <1>11, HalvedAre
<1>13. PICK rest, reply : rest = Trimmed(left) /\ reply = AfterPara(rest, trailer)
  OBVIOUS
<1>14. rest \in Prose(N) /\ Says(rest) = Says(left)
  BY <1>12, <1>13, TrimmedInProse, SaysAfter
<1>15. reply \in Prose(N)
  BY <1>13, <1>14, AfterInProse
<1>16. Says(reply) = Says(rest) \cup Says(trailer)
  BY <1>13, <1>14, SaysAfter
<1>17. ForwardFillSplit(head, trailer) = Only(<<root, reply>>, LAMBDA t : t # <<>>)
  BY <1>1, <1>5, <1>8, <1>10, <1>12, <1>13 DEF ForwardFillSplit, RootAndReply
<1>18. Says(root) \cup Says(reply) \subseteq SaysAll(Only(<<root, reply>>, LAMBDA t : t # <<>>))
  BY <1>12, <1>15, SaysOfTwo
<1> QED
  BY <1>1, <1>12, <1>14, <1>16, <1>17, <1>18

LEMMA ItemsOf ==
    ASSUME NEW A, NEW s \in Seq(A), NEW S, \A i \in 1..Len(s) : s[i] \in S
    PROVE  s \in Seq(S)
  OBVIOUS

\* Lines are prose at the places of their own words.
LEMMA OwnPlaces ==
    ASSUME NEW N, NEW lines \in Seq(Prose(N))
    PROVE  lines \in Seq(Prose(SaysAll(lines)))
<1>1. PICK M, len : M = SaysAll(lines) /\ len = Len(lines)
  OBVIOUS
<1>2. len \in Nat /\ DOMAIN lines = 1..len
  BY <1>1
<1>3. ASSUME NEW i \in 1..len PROVE lines[i] \in Prose(M)
  <2>1. PICK t, n : t = lines[i] /\ n = Len(t)
    OBVIOUS
  <2>2. t \in Seq(Tokens(N)) /\ n \in Nat /\ DOMAIN t = 1..n
    BY <1>2, <1>3, <2>1 DEF Prose
  <2>3. ASSUME NEW j \in 1..n PROVE t[j] \in Tokens(M)
    <3>1. PICK x : x = t[j]
      OBVIOUS
    <3>2. x \in [k : TokenKinds, n : Nat]
      BY <2>2, <2>3, <3>1 DEF Tokens
    <3>3. IsWord(x) => x.n \in Says(t)
      BY <2>2, <3>1 DEF Says, WordsAt
    <3>4. Says(t) \subseteq M
      BY <1>1, <1>2, <2>1 DEF SaysAll
    <3> QED
      BY <3>1, <3>2, <3>3, <3>4 DEF Tokens
  <2>4. t \in Seq(Tokens(M))
    <3>1. PICK S : S = Tokens(M)
      OBVIOUS
    <3>2. \A j \in 1..n : t[j] \in S
      BY <2>3, <3>1
    <3>3. t \in Seq(S)
      BY <2>1, <2>2, <3>2, ItemsOf
    <3> QED
      BY <3>1, <3>3
  <2> QED
    BY <2>1, <2>4 DEF Prose
<1>4. PICK S : S = Prose(M)
  OBVIOUS
<1>5. \A i \in 1..len : lines[i] \in S
  BY <1>3, <1>4
<1>6. lines \in Seq(S)
  BY <1>1, <1>5, ItemsOf
<1> QED
  BY <1>1, <1>4, <1>6

\* What a text says stands at its places.
LEMMA SaysItsPlaces ==
    ASSUME NEW M, NEW texts \in Seq(Prose(M))
    PROVE  SaysAll(texts) \subseteq M
<1>1. ASSUME NEW i \in DOMAIN texts, NEW p \in Says(texts[i]) PROVE p \in M
  <2>1. PICK t : t = texts[i]
    OBVIOUS
  <2>2. t \in Seq(Tokens(M))
    BY <1>1, <2>1 DEF Prose
  <2>3. PICK j \in WordsAt(t) : p = t[j].n
    BY <1>1, <2>1 DEF Says
  <2>4. j \in DOMAIN t /\ IsWord(t[j])
    BY <2>3 DEF WordsAt
  <2>5. t[j] \in Tokens(M)
    BY <2>2, <2>4
  <2> QED
    BY <2>3, <2>4, <2>5 DEF Tokens
<1> QED
  BY <1>1 DEF SaysAll

\* layout_x_thread: the lines are taken apart into a head and a trailer without loss, and the texts
\* of a thread say what the lines say, no less and no more.
LEMMA LayoutSays ==
    ASSUME NEW N, NEW lines \in Seq(Prose(N)),
           NEW peeled, peeled = PeelTrailer(lines), NEW head, head = PromoteLineBreaks(peeled.lines)
    PROVE  /\ head \in Prose(N) /\ peeled.trailer \in Prose(N)
           /\ Tells(head) \cup Tells(peeled.trailer) = TellsAll(lines)
           /\ peeled.trailer # <<>> /\ OpensShort(head) /\ ArticlesGoOn(head) =>
                  SaysAll(LayoutXThread(lines)) = SaysAll(lines)
<1>1. PICK trailer : trailer = peeled.trailer
  OBVIOUS
<1>2. peeled.lines \in Seq(Prose(N)) /\ trailer \in Prose(N)
  BY <1>1, PeelTrailerInProse
<1>3. head \in Prose(N) /\ Tells(head) = TellsAll(peeled.lines)
  BY <1>2, PromotedTells
<1>4. TellsAll(peeled.lines) \cup Tells(trailer) = TellsAll(lines)
  BY <1>1, PeelTrailerTells
<1>5. Tells(head) \cup Tells(trailer) = TellsAll(lines)
  BY <1>3, <1>4
<1>6. ASSUME trailer # <<>>, OpensShort(head), ArticlesGoOn(head)
      PROVE  SaysAll(LayoutXThread(lines)) = SaysAll(lines)
  <2>1. Says(head) \cup Says(trailer) = SaysAll(lines)
    <3>1. \A t : Says(t) = {x.n : x \in Tells(t)}
      BY SaysIs
    <3>2. {x.n : x \in TellsAll(lines)} = SaysAll(lines)
      BY <3>1 DEF TellsAll, SaysAll
    <3>3. {x.n : x \in Tells(head) \cup Tells(trailer)} = Says(head) \cup Says(trailer)
      BY <3>1
    <3> QED
      BY <1>5, <3>2, <3>3
  <2>2. PICK texts, one : texts = LayoutXThread(lines) /\ one = AfterPara(head, trailer)
    OBVIOUS
  <2>3. one \in Prose(N) /\ one # <<>>
    BY <1>2, <1>3, <1>6, <2>2, AfterInProse, AfterIsText
  <2>4. Says(head) \cup Says(trailer) \subseteq SaysAll(texts)
    <3>1. CASE FitsX(one)
      <4>1. texts = <<one>>
        BY <1>1, <2>2, <2>3, <3>1 DEF LayoutXThread
      <4>2. Says(one) = Says(head) \cup Says(trailer)
        BY <1>2, <1>3, <2>2, SaysAfter
      <4>3. DOMAIN texts = {1} /\ texts[1] = one
        BY <4>1
      <4> QED
        BY <4>2, <4>3 DEF SaysAll
    <3>2. CASE ~FitsX(one)
      <4>1. texts = ForwardFillSplit(head, trailer)
        BY <1>1, <1>6, <2>2, <2>3, <3>2 DEF LayoutXThread
      <4>2. Says(head) \cup Says(trailer) \subseteq SaysAll(ForwardFillSplit(head, trailer))
        BY <1>2, <1>3, <1>6, ForwardFillSays
      <4> QED
        BY <4>1, <4>2
    <3> QED
      BY <3>1, <3>2
  <2>5. SaysAll(texts) \subseteq SaysAll(lines)
    <3>1. PICK M : M = SaysAll(lines)
      OBVIOUS
    <3>2. lines \in Seq(Prose(M))
      BY <3>1, OwnPlaces
    <3>3. texts \in Thread(M)
      BY <2>2, <3>2, LayoutInProse
    <3>4. texts \in Seq(Prose(M))
      BY <3>3 DEF Thread
    <3> QED
      BY <3>1, <3>4, SaysItsPlaces
  <2> QED
    BY <2>1, <2>2, <2>4, <2>5
<1> QED
  BY <1>1, <1>2, <1>3, <1>5, <1>6
===============================================================================
