--------------------------- MODULE PipelineProofs ---------------------------
(***************************************************************************)
(* Proofs about module Pipeline, for every corpus, chunk size and set of   *)
(* workers and every bound: the broker never has a task twice and never    *)
(* loses one, results are final, a task reported done is indexed, and the  *)
(* chunks cover the corpus.                                                *)
(***************************************************************************)
EXTENDS Pipeline, FiniteSetTheorems, SequenceTheorems, WellFoundedInduction, TLAPS

-----------------------------------------------------------------------------
(* Passages *)

\* A set that holds 1 and, below N, each number's successor, holds 1..N.
LEMMA UpTo ==
    ASSUME NEW N \in Nat, NEW G, 1 \in G, \A k \in 1 .. N - 1 : k \in G => k + 1 \in G
    PROVE  1..N \subseteq G
  <1> DEFINE B == {k \in 1..N : k \notin G}
  <1> SUFFICES ASSUME B # {} PROVE FALSE
    OBVIOUS
  <1>1. B \subseteq Nat
    OBVIOUS
  <1>w. IsWellFoundedOn(OpToRel(<, Nat), Nat)
    BY NatLessThanWellFounded
  <1>2. PICK x \in B : \A y \in B : ~ (<< y, x >> \in OpToRel(<, Nat))
    BY <1>1, <1>w, WFMin
  <1>3. x \in 2..N /\ x - 1 \in 1 .. N - 1
    OBVIOUS
  <1>4. x - 1 \in B
    BY <1>3
  <1>5. << x - 1, x >> \in OpToRel(<, Nat)
    BY <1>3 DEF OpToRel
  <1> QED
    BY <1>2, <1>4, <1>5

\* The lesser of two numbers.
LEMMA MinOfTwo ==
    ASSUME NEW x \in Nat, NEW y \in Nat
    PROVE  Min({x, y}) = IF x <= y THEN x ELSE y
  <1> DEFINE z == IF x <= y THEN x ELSE y
  <1>1. z \in {x, y} /\ \A u \in {x, y} : z <= u
    OBVIOUS
  <1>2. \A v \in {x, y} : (\A u \in {x, y} : v <= u) => v = z
    OBVIOUS
  <1> QED
    BY <1>1, <1>2 DEF Min

\* Division by m: what the count of passages means.
LEMMA CountIs ==
    ASSUME NEW w \in Nat, NEW m \in Nat \ {0}, NEW k, k = (w + m - 1) \div m
    PROVE  /\ k \in Nat /\ w <= k * m /\ k * m <= w + m - 1
           /\ \A i \in 1..k : i * m \in Nat /\ (i - 1) * m < w /\ (i - 1) * m \in Nat
  <1>1. k \in Int /\ k * m <= w + m - 1 /\ w + m - 1 < (k + 1) * m
    <2>1. w + m - 1 \in Int /\ m \in Int /\ m > 0
      OBVIOUS
    <2> QED
      BY <2>1
  <1>2. (k + 1) * m = k * m + m /\ k * m \in Int
    BY <1>1
  <1>3. k >= 0
    BY <1>1
  <1>4. ASSUME NEW i \in 1..k PROVE i * m \in Nat /\ (i - 1) * m < w /\ (i - 1) * m \in Nat
    <2>1. i * m <= k * m
      BY <1>1
    <2>2. (i - 1) * m = i * m - m
      OBVIOUS
    <2>3. i * m \in Nat /\ (i - 1) * m \in Nat
      OBVIOUS
    <2> QED
      BY <1>1, <2>1, <2>2, <2>3
  <1> QED
    BY <1>1, <1>2, <1>3, <1>4

\* Passage i of a text.
LEMMA PassageIs ==
    ASSUME NEW w \in Nat, NEW m \in Nat \ {0}
    PROVE  LET k == (w + m - 1) \div m
               p == chunkText(w, m)
           IN  /\ p \in Seq(SUBSET Nat) /\ Len(p) = k /\ k \in Nat
               /\ \A i \in 1..k : \A x \in Nat :
                     x \in p[i] <=> (i - 1) * m < x /\ x <= i * m /\ x <= w
  <1> DEFINE k == (w + m - 1) \div m
             p == chunkText(w, m)
  <1>1. k \in Nat /\ \A i \in 1..k : i * m \in Nat /\ (i - 1) * m \in Nat
    BY CountIs
  <1>2. p = [i \in 1..k |-> (i - 1) * m + 1 .. Min({i * m, w})]
    BY DEF chunkText
  <1> HIDE DEF k, p
  <1>3. ASSUME NEW i \in 1..k
        PROVE  /\ p[i] \in SUBSET Nat
               /\ \A x \in Nat : x \in p[i] <=> (i - 1) * m < x /\ x <= i * m /\ x <= w
    <2>1. i * m \in Nat /\ (i - 1) * m \in Nat
      BY <1>1
    <2>2. Min({i * m, w}) = IF i * m <= w THEN i * m ELSE w
      BY <2>1, MinOfTwo
    <2>3. p[i] = (i - 1) * m + 1 .. (IF i * m <= w THEN i * m ELSE w)
      BY <1>2, <2>2
    <2> QED
      BY <2>1, <2>3
  <1>4. p \in [1..k -> SUBSET Nat]
    BY <1>2, <1>3
  <1>5. p \in Seq(SUBSET Nat) /\ Len(p) = k
    BY <1>1, <1>4
  <1> QED
    BY <1>1, <1>3, <1>5 DEF k, p

\* The passages of a text are the text, and no two share a word.
LEMMA PassagesCover ==
    ASSUME NEW w \in Nat, NEW m \in Nat \ {0}
    PROVE  /\ \A i \in 1..Len(chunkText(w, m)) : chunkText(w, m)[i] \subseteq 1..w
           /\ \A x \in 1..w : \E i \in 1..Len(chunkText(w, m)) : x \in chunkText(w, m)[i]
           /\ \A i, j \in 1..Len(chunkText(w, m)) :
                 i # j => chunkText(w, m)[i] \cap chunkText(w, m)[j] = {}
  <1> DEFINE k == (w + m - 1) \div m
             p == chunkText(w, m)
  <1>1. /\ p \in Seq(SUBSET Nat) /\ Len(p) = k /\ k \in Nat
        /\ \A i \in 1..k : \A x \in Nat :
              x \in p[i] <=> (i - 1) * m < x /\ x <= i * m /\ x <= w
    BY PassageIs
  <1>2. w <= k * m /\ k * m \in Nat
    BY CountIs
  <1> HIDE DEF k, p
  <1>3. \A i \in 1..k : p[i] \subseteq Nat /\ (i - 1) * m \in Nat
    BY <1>1, ElementOfSeq
  <1>4. ASSUME NEW i \in 1..k PROVE p[i] \subseteq 1..w
    BY <1>1, <1>3
  <1>5. ASSUME NEW x \in 1..w PROVE \E i \in 1..k : x \in p[i]
    <2> DEFINE q == (x - 1) \div m
    <2>1. q \in Int /\ q * m <= x - 1 /\ x - 1 < (q + 1) * m
      BY x - 1 \in Int /\ m \in Int /\ m > 0
    <2> HIDE DEF q
    <2>2. q >= 0
      BY <2>1
    <2>3. q < k
      <3>1. q * m < k * m
        BY <1>1, <1>2, <2>1
      <3> QED
        BY <1>1, <2>1, <3>1
    <2>4. q + 1 \in 1..k /\ (q + 1) - 1 = q
      BY <1>1, <2>1, <2>2, <2>3
    <2>5. (q + 1) * m \in Int /\ x <= (q + 1) * m /\ q * m < x
      BY <2>1
    <2>6. x \in p[q + 1]
      BY <1>1, <2>4, <2>5
    <2> QED
      BY <2>4, <2>6
  <1>6. ASSUME NEW i \in 1..k, NEW j \in 1..k, i < j PROVE p[i] \cap p[j] = {}
    <2>1. i * m <= (j - 1) * m /\ i * m \in Nat /\ (j - 1) * m \in Nat
      <3>1. PICK d \in Nat : d = j - 1 /\ i <= d
        BY <1>1, <1>6
      <3>2. i * m <= d * m /\ i * m \in Nat /\ d * m \in Nat
        BY <3>1
      <3> QED
        BY <3>1, <3>2
    <2>2. ASSUME NEW x \in p[i], x \in p[j] PROVE FALSE
      <3>1. x \in Nat
        BY <1>3
      <3>2. x <= i * m /\ (j - 1) * m < x
        BY <1>1, <2>2, <3>1
      <3> QED
        BY <2>1, <3>1, <3>2
    <2> QED
      BY <2>2
  <1>7. \A i, j \in 1..k : i # j => p[i] \cap p[j] = {}
    BY <1>1, <1>6
  <1> QED
    BY <1>1, <1>4, <1>5, <1>7 DEF p

-----------------------------------------------------------------------------
(* Flattening a sequence of sequences *)

\* F holds the elements of the first k sequences of s, each once.
Flat(S, s, k, F) ==
    /\ F \in Seq(S)
    /\ \A t \in 1..Len(F) : \E d \in 1..k : \E i \in 1..Len(s[d]) : F[t] = s[d][i]
    /\ \A d \in 1..k : \A i \in 1..Len(s[d]) : \E t \in 1..Len(F) : F[t] = s[d][i]
    /\ \A t, u \in 1..Len(F) : t # u => F[t] # F[u]

\* No element of the sequences of s occurs in two places.
Apart(s) ==
    \A d, e \in 1..Len(s) : \A i \in 1..Len(s[d]), j \in 1..Len(s[e]) :
        s[d][i] = s[e][j] => d = e /\ i = j

\* The first sequence alone.
LEMMA FlatOne ==
    ASSUME NEW S, NEW s \in Seq(Seq(S)), Apart(s), Len(s) # 0
    PROVE  Flat(S, s, 1, s[1])
  <1>1. 1 \in 1..Len(s) /\ s[1] \in Seq(S)
    BY LenProperties, ElementOfSeq
  <1>2. 1..1 = {1}
    OBVIOUS
  <1>3. \A t, u \in 1..Len(s[1]) : t # u => s[1][t] # s[1][u]
    BY <1>1 DEF Apart
  <1> QED
    BY <1>1, <1>2, <1>3 DEF Flat

\* One sequence more.
LEMMA FlatMore ==
    ASSUME NEW S, NEW s \in Seq(Seq(S)), Apart(s), NEW k \in 1 .. Len(s) - 1,
           NEW F, Flat(S, s, k, F)
    PROVE  Flat(S, s, k + 1, F \o s[k + 1])
  <1> DEFINE r == s[k + 1]
             H == F \o r
  <1>1. /\ Len(s) \in Nat /\ k + 1 \in 1..Len(s) /\ k \in Nat
        /\ \A d \in 1..k : d \in 1..Len(s) /\ d # k + 1 /\ d \in 1 .. k + 1
        /\ \A d \in 1 .. k + 1 : d \in 1..k \/ d = k + 1
    BY LenProperties
  <1>2. r \in Seq(S) /\ F \in Seq(S)
    BY <1>1, ElementOfSeq DEF Flat
  <1>3. Len(r) \in Nat /\ Len(F) \in Nat
    BY <1>2, LenProperties
  <1> HIDE DEF r
  <1>4. /\ H \in Seq(S) /\ Len(H) = Len(F) + Len(r)
        /\ \A i \in 1 .. Len(F) + Len(r) : H[i] = IF i <= Len(F) THEN F[i] ELSE r[i - Len(F)]
    BY <1>2, ConcatProperties
  <1> HIDE DEF H
  <1>5. /\ \A t \in 1..Len(F) : t \in 1..Len(H) /\ H[t] = F[t]
        /\ \A i \in 1..Len(r) : Len(F) + i \in 1..Len(H) /\ H[Len(F) + i] = r[i]
    <2>1. ASSUME NEW t \in 1..Len(F) PROVE t \in 1..Len(H) /\ H[t] = F[t]
      BY <1>3, <1>4
    <2>2. ASSUME NEW i \in 1..Len(r)
          PROVE  Len(F) + i \in 1..Len(H) /\ H[Len(F) + i] = r[i]
      <3>1. /\ Len(F) + i \in 1 .. Len(F) + Len(r) /\ ~(Len(F) + i <= Len(F))
            /\ (Len(F) + i) - Len(F) = i
        BY <1>3
      <3> QED
        BY <1>4, <3>1
    <2> QED
      BY <2>1, <2>2
  <1>6. \A t \in 1..Len(H) : \/ t \in 1..Len(F) /\ H[t] = F[t]
                             \/ t - Len(F) \in 1..Len(r) /\ H[t] = r[t - Len(F)]
    BY <1>3, <1>4
  <1>7. ASSUME NEW t \in 1..Len(H)
        PROVE  \E d \in 1 .. k + 1 : \E i \in 1..Len(s[d]) : H[t] = s[d][i]
    <2>1. CASE t \in 1..Len(F) /\ H[t] = F[t]
      <3>1. PICK d \in 1..k : \E i \in 1..Len(s[d]) : F[t] = s[d][i]
        BY <2>1 DEF Flat
      <3>2. d \in 1 .. k + 1
        BY <1>1
      <3> QED
        BY <2>1, <3>1, <3>2
    <2>2. CASE t - Len(F) \in 1..Len(r) /\ H[t] = r[t - Len(F)]
      <3>1. k + 1 \in 1 .. k + 1
        BY <1>1
      <3> QED
        BY <2>2, <3>1 DEF r
    <2> QED
      BY <1>6, <2>1, <2>2
  <1>8. ASSUME NEW d \in 1 .. k + 1, NEW i \in 1..Len(s[d])
        PROVE  \E t \in 1..Len(H) : H[t] = s[d][i]
    <2>1. CASE d \in 1..k
      <3>1. PICK t \in 1..Len(F) : F[t] = s[d][i]
        BY <2>1 DEF Flat
      <3> QED
        BY <1>5, <3>1
    <2>2. CASE d = k + 1
      <3>1. i \in 1..Len(r) /\ s[d][i] = r[i]
        BY <2>2 DEF r
      <3> QED
        BY <1>5, <3>1
    <2> QED
      BY <1>1, <2>1, <2>2
  <1>9. ASSUME NEW t \in 1..Len(F), NEW i \in 1..Len(r) PROVE F[t] # r[i]
    <2>1. PICK d \in 1..k : \E j \in 1..Len(s[d]) : F[t] = s[d][j]
      BY DEF Flat
    <2>2. PICK j \in 1..Len(s[d]) : F[t] = s[d][j]
      BY <2>1
    <2>3. d \in 1..Len(s) /\ d # k + 1
      BY <1>1
    <2>4. i \in 1..Len(s[k + 1]) /\ r[i] = s[k + 1][i]
      BY DEF r
    <2> QED
      BY <1>1, <2>2, <2>3, <2>4 DEF Apart
  <1>10. \A i, j \in 1..Len(r) : i # j => r[i] # r[j]
    BY <1>1 DEF Apart, r
  <1>11. ASSUME NEW t \in 1..Len(H), NEW u \in 1..Len(H), t # u PROVE H[t] # H[u]
    <2>1. CASE t \in 1..Len(F) /\ u \in 1..Len(F)
      BY <1>5, <1>11, <2>1 DEF Flat
    <2>2. CASE t - Len(F) \in 1..Len(r) /\ u - Len(F) \in 1..Len(r)
                 /\ H[t] = r[t - Len(F)] /\ H[u] = r[u - Len(F)]
      <3>1. t - Len(F) # u - Len(F)
        BY <1>3, <1>11
      <3> QED
        BY <1>10, <2>2, <3>1
    <2>3. CASE t \in 1..Len(F) /\ H[t] = F[t]
                 /\ u - Len(F) \in 1..Len(r) /\ H[u] = r[u - Len(F)]
      BY <1>9, <2>3
    <2>4. CASE u \in 1..Len(F) /\ H[u] = F[u]
                 /\ t - Len(F) \in 1..Len(r) /\ H[t] = r[t - Len(F)]
      BY <1>9, <2>4
    <2> QED
      BY <1>6, <2>1, <2>2, <2>3, <2>4
  <1> QED
    BY <1>4, <1>7, <1>8, <1>11 DEF Flat, H, r

\* FlattenSeq is defined by recursion: the function it recurses on exists.
LEMMA FlattenExists ==
    ASSUME NEW S, NEW s \in Seq(Seq(S)), Len(s) # 0
    PROVE  \E f : /\ f = [i \in 1..Len(s) |-> IF i = 1 THEN s[i] ELSE f[i - 1] \o s[i]]
                  /\ FlattenSeq(s) = f[Len(s)]
  <1> DEFINE R(k, f) == f = [i \in 1..k |-> IF i = 1 THEN s[i] ELSE f[i - 1] \o s[i]]
             G == {k \in Nat : \E f : R(k, f)}
  <1>1. Len(s) \in Nat
    BY LenProperties
  <1>2. 1 \in G
    <2> DEFINE f == [i \in 1..1 |-> s[i]]
    <2>1. R(1, f)
      OBVIOUS
    <2> QED
      BY <2>1
  <1>3. ASSUME NEW k \in 1 .. Len(s) - 1, k \in G PROVE k + 1 \in G
    <2>1. PICK f : R(k, f)
      BY <1>3
    <2> DEFINE g == [i \in 1 .. k + 1 |-> IF i <= k THEN f[i] ELSE f[k] \o s[k + 1]]
    <2>2. ASSUME NEW i \in 1 .. k + 1
          PROVE  g[i] = IF i = 1 THEN s[i] ELSE g[i - 1] \o s[i]
      <3>1. CASE i <= k
        <4>1. i \in 1..k /\ g[i] = f[i]
          BY <3>1
        <4>2. i # 1 => i - 1 \in 1 .. k + 1 /\ i - 1 <= k
          BY <3>1
        <4>3. i # 1 => g[i - 1] = f[i - 1]
          BY <4>2
        <4> HIDE DEF g
        <4> QED
          BY <2>1, <4>1, <4>3
      <3>2. CASE i = k + 1
        <4>1. i # 1 /\ i - 1 = k /\ k \in 1 .. k + 1 /\ ~(i <= k)
          BY <1>3, <3>2
        <4>2. g[k] = f[k] /\ g[i] = f[k] \o s[k + 1]
          <5>1. k <= k /\ k \in Nat
            OBVIOUS
          <5> QED
            BY <4>1, <5>1, <3>2
        <4> HIDE DEF g
        <4> QED
          BY <3>2, <4>1, <4>2
      <3> QED
        BY <3>1, <3>2
    <2>3. R(k + 1, g)
      <3>1. DOMAIN g = 1 .. k + 1 /\ g = [i \in 1 .. k + 1 |-> g[i]]
        OBVIOUS
      <3> HIDE DEF g
      <3> QED
        BY <2>2, <3>1
    <2> HIDE DEF g, R
    <2> QED
      BY <2>3
  <1> HIDE DEF R
  <1>4. Len(s) \in G
    <2> HIDE DEF G
    <2>1. 1 .. Len(s) \subseteq G
      BY <1>1, <1>2, <1>3, UpTo
    <2> QED
      BY <1>1, <2>1
  <1> DEFINE c == CHOOSE f : R(Len(s), f)
  <1>5. R(Len(s), c)
    BY <1>4
  <1>6. FlattenSeq(s) = c[Len(s)]
    BY DEF FlattenSeq, R
  <1> HIDE DEF c
  <1> QED
    BY <1>5, <1>6 DEF R

\* What FlattenSeq computes.
LEMMA FlattenIs ==
    ASSUME NEW S, NEW s \in Seq(Seq(S)), Apart(s)
    PROVE  Flat(S, s, Len(s), FlattenSeq(s))
  <1>0. Len(s) \in Nat
    BY LenProperties
  <1>1. CASE Len(s) = 0
    <2>1. s = << >> /\ FlattenSeq(s) = << >>
      BY <1>1, EmptySeq DEF FlattenSeq
    <2>2. << >> \in Seq(S) /\ Len(<< >>) = 0 /\ 1..0 = {}
      OBVIOUS
    <2>3. Flat(S, s, 0, << >>)
      BY <2>2 DEF Flat
    <2> QED
      BY <1>1, <2>1, <2>3
  <1>2. CASE Len(s) # 0
    <2>1. PICK f : /\ f = [i \in 1..Len(s) |-> IF i = 1 THEN s[i] ELSE f[i - 1] \o s[i]]
                   /\ FlattenSeq(s) = f[Len(s)]
      BY <1>2, FlattenExists
    <2> DEFINE G == {k \in Nat : Flat(S, s, k, f[k])}
    <2>2. 1 \in G
      <3>1. f[1] = s[1]
        BY <1>0, <1>2, <2>1
      <3> QED
        BY <1>2, <3>1, FlatOne
    <2>3. ASSUME NEW k \in 1 .. Len(s) - 1, k \in G PROVE k + 1 \in G
      <3>1. k + 1 \in 1..Len(s) /\ k + 1 # 1 /\ (k + 1) - 1 = k
        BY <1>0
      <3>2. f[k + 1] = f[k] \o s[k + 1]
        BY <2>1, <3>1
      <3>3. Flat(S, s, k + 1, f[k + 1])
        BY <2>3, <3>2, FlatMore
      <3> QED
        BY <3>3
    <2> HIDE DEF G
    <2>4. Len(s) \in 1..Len(s)
      BY <1>0, <1>2
    <2>5. 1..Len(s) \subseteq G
      BY <1>0, <2>2, <2>3, UpTo
    <2> QED
      BY <2>1, <2>4, <2>5 DEF G
  <1> QED
    BY <1>1, <1>2

-----------------------------------------------------------------------------
(* The chunks of the corpus *)

ChunkType == [doc_id : Nat, chunk_id : Nat, text : SUBSET Nat]

\* Passage i of article d, and its chunk.
Passages(d) == chunkText(Corpus[d], chunkSize)
Chunk(d, i) == [doc_id |-> d, chunk_id |-> i - 1, text |-> Passages(d)[i]]

ArticleChunks == [doc \in 1 .. Len(Corpus) |-> taskPayloads(doc)]

\* The payloads of an article are its passages, numbered.
LEMMA ArticleIs ==
    ASSUME NEW d \in 1 .. Len(Corpus)
    PROVE  /\ ArticleChunks[d] \in Seq(ChunkType) /\ Corpus[d] \in Nat /\ d \in Nat
           /\ Len(ArticleChunks[d]) = Len(Passages(d)) /\ Len(Passages(d)) \in Nat
           /\ \A i \in 1..Len(Passages(d)) : ArticleChunks[d][i] = Chunk(d, i) /\ Chunk(d, i) \in ChunkType
  <1>1. Corpus[d] \in Nat /\ d \in Nat
    BY PipelineAssumption, ElementOfSeq, LenProperties
  <1>2. Passages(d) \in Seq(SUBSET Nat) /\ Len(Passages(d)) \in Nat
    <2>1. chunkSize \in Nat \ {0}
      BY PipelineAssumption
    <2> QED
      BY <1>1, <2>1, PassageIs DEF Passages
  <1>3. ArticleChunks[d] = [i \in 1..Len(Passages(d)) |-> Chunk(d, i)]
    BY DEF ArticleChunks, taskPayloads, Passages, Chunk
  <1>4. ASSUME NEW i \in 1..Len(Passages(d)) PROVE Chunk(d, i) \in ChunkType
    <2>1. Passages(d)[i] \in SUBSET Nat /\ i - 1 \in Nat
      BY <1>2, ElementOfSeq
    <2> QED
      BY <1>1, <2>1 DEF Chunk, ChunkType
  <1>5. ArticleChunks[d] \in [1..Len(Passages(d)) -> ChunkType]
    BY <1>3, <1>4
  <1>6. ArticleChunks[d] \in Seq(ChunkType) /\ Len(ArticleChunks[d]) = Len(Passages(d))
    BY <1>2, <1>5
  <1> QED
    BY <1>1, <1>2, <1>3, <1>4, <1>6

\* A task is a passage of an article, and every passage is one task.
LEMMA PayloadIs ==
    /\ Payload \in Seq(ChunkType) /\ NumTasks \in Nat
    /\ \A t \in Task : \E d \in 1 .. Len(Corpus) : \E i \in 1..Len(Passages(d)) :
          Payload[t] = Chunk(d, i)
    /\ \A d \in 1 .. Len(Corpus) : \A i \in 1..Len(Passages(d)) : \E t \in Task :
          Payload[t] = Chunk(d, i)
    /\ \A t, u \in Task : t # u => Payload[t] # Payload[u]
  <1> DEFINE s == ArticleChunks
             N == Len(Corpus)
  <1>1. N \in Nat
    BY PipelineAssumption, LenProperties
  <1>2. s \in [1..N -> Seq(ChunkType)]
    BY ArticleIs DEF ArticleChunks
  <1>3. s \in Seq(Seq(ChunkType)) /\ Len(s) = N
    BY <1>1, <1>2
  <1>4. Apart(s)
    <2> SUFFICES ASSUME NEW d \in 1..N, NEW e \in 1..N,
                        NEW i \in 1..Len(s[d]), NEW j \in 1..Len(s[e]), s[d][i] = s[e][j]
                 PROVE  d = e /\ i = j
      BY <1>3 DEF Apart
    <2>1. s[d][i] = Chunk(d, i) /\ i \in Int
      BY ArticleIs
    <2>2. s[e][j] = Chunk(e, j) /\ j \in Int
      BY ArticleIs
    <2>3. d = e /\ i - 1 = j - 1
      <3>1. Chunk(d, i) = Chunk(e, j)
        BY <2>1, <2>2
      <3>2. Chunk(d, i).doc_id = Chunk(e, j).doc_id /\ Chunk(d, i).chunk_id = Chunk(e, j).chunk_id
        BY <3>1
      <3> QED
        BY <3>2 DEF Chunk
    <2> QED
      BY <2>1, <2>2, <2>3
  <1>5. Flat(ChunkType, s, N, Payload)
    BY <1>3, <1>4, FlattenIs DEF Payload, ArticleChunks
  <1>6. Payload \in Seq(ChunkType) /\ NumTasks \in Nat /\ Task = 1..Len(Payload)
    BY <1>5, LenProperties DEF Flat, NumTasks, Task
  <1>7. ASSUME NEW t \in Task
        PROVE  \E d \in 1..N : \E i \in 1..Len(Passages(d)) : Payload[t] = Chunk(d, i)
    <2>1. PICK d \in 1..N : \E i \in 1..Len(s[d]) : Payload[t] = s[d][i]
      BY <1>5, <1>6 DEF Flat
    <2> QED
      BY <2>1, ArticleIs
  <1>8. ASSUME NEW d \in 1..N, NEW i \in 1..Len(Passages(d))
        PROVE  \E t \in Task : Payload[t] = Chunk(d, i)
    <2>1. i \in 1..Len(s[d]) /\ s[d][i] = Chunk(d, i)
      BY ArticleIs
    <2> HIDE DEF s
    <2>2. \E t \in 1..Len(Payload) : Payload[t] = s[d][i]
      <3>1. \A c \in 1..N : \A j \in 1..Len(s[c]) :
               \E t \in 1..Len(Payload) : Payload[t] = s[c][j]
        BY <1>5 DEF Flat
      <3> QED
        BY <2>1, <3>1
    <2> QED
      BY <1>6, <2>1, <2>2
  <1>9. \A t, u \in Task : t # u => Payload[t] # Payload[u]
    BY <1>5, <1>6 DEF Flat
  <1> QED
    BY <1>6, <1>7, <1>8, <1>9

Words == UNION {{doc} \X (1 .. Corpus[doc]) : doc \in 1 .. Len(Corpus)}

(***************************************************************************)
(* The chunks the producer submits hold every word of the corpus, and no   *)
(* word twice, whatever the articles' lengths and the chunk size: the last *)
(* short passage is not dropped and an empty article does no harm.         *)
(***************************************************************************)
THEOREM ChunksCoverCorpus ==
    /\ WordsOf(Task) = Words
    /\ \A t, u \in Task : t # u => WordsOf({t}) \cap WordsOf({u}) = {}
  <1>0. chunkSize \in Nat \ {0}
    BY PipelineAssumption
  <1>1. ASSUME NEW d \in 1 .. Len(Corpus)
        PROVE  /\ \A i \in 1..Len(Passages(d)) : Passages(d)[i] \subseteq 1 .. Corpus[d]
               /\ \A x \in 1 .. Corpus[d] : \E i \in 1..Len(Passages(d)) : x \in Passages(d)[i]
               /\ \A i, j \in 1..Len(Passages(d)) :
                     i # j => Passages(d)[i] \cap Passages(d)[j] = {}
    <2>1. Corpus[d] \in Nat
      BY ArticleIs
    <2> QED
      BY <1>0, <2>1, PassagesCover DEF Passages
  <1>2. ASSUME NEW T, NEW x
        PROVE  x \in WordsOf(T) <=> \E t \in T : x \in {Payload[t].doc_id} \X Payload[t].text
    BY DEF WordsOf
  <1>3. \A d, i : Chunk(d, i).doc_id = d /\ Chunk(d, i).text = Passages(d)[i]
    BY DEF Chunk
  <1>4. ASSUME NEW x \in WordsOf(Task) PROVE x \in Words
    <2>1. PICK t \in Task : x \in {Payload[t].doc_id} \X Payload[t].text
      BY <1>2
    <2>2. PICK d \in 1 .. Len(Corpus) : \E i \in 1..Len(Passages(d)) : Payload[t] = Chunk(d, i)
      BY PayloadIs
    <2>3. PICK i \in 1..Len(Passages(d)) : Payload[t] = Chunk(d, i)
      BY <2>2
    <2>4. x \in {d} \X Passages(d)[i] /\ Passages(d)[i] \subseteq 1 .. Corpus[d]
      BY <1>1, <1>3, <2>1, <2>3
    <2>5. x \in {d} \X (1 .. Corpus[d])
      BY <2>4
    <2> QED
      BY <2>5 DEF Words
  <1>5. ASSUME NEW x \in Words PROVE x \in WordsOf(Task)
    <2>1. PICK d \in 1 .. Len(Corpus) : x \in {d} \X (1 .. Corpus[d])
      BY DEF Words
    <2>2. PICK y \in 1 .. Corpus[d] : x = << d, y >>
      BY <2>1
    <2>3. PICK i \in 1..Len(Passages(d)) : y \in Passages(d)[i]
      BY <1>1
    <2>4. PICK t \in Task : Payload[t] = Chunk(d, i)
      BY PayloadIs
    <2>5. x \in {Payload[t].doc_id} \X Payload[t].text
      BY <1>3, <2>2, <2>3, <2>4
    <2> QED
      BY <1>2, <2>5
  <1>6. ASSUME NEW t \in Task, NEW u \in Task, t # u,
               NEW x, x \in WordsOf({t}), x \in WordsOf({u})
        PROVE  FALSE
    <2>1. x \in {Payload[t].doc_id} \X Payload[t].text /\ x \in {Payload[u].doc_id} \X Payload[u].text
      BY <1>2, <1>6
    <2>2. PICK d \in 1 .. Len(Corpus) : \E i \in 1..Len(Passages(d)) : Payload[t] = Chunk(d, i)
      BY PayloadIs
    <2>3. PICK i \in 1..Len(Passages(d)) : Payload[t] = Chunk(d, i)
      BY <2>2
    <2>4. PICK e \in 1 .. Len(Corpus) : \E j \in 1..Len(Passages(e)) : Payload[u] = Chunk(e, j)
      BY PayloadIs
    <2>5. PICK j \in 1..Len(Passages(e)) : Payload[u] = Chunk(e, j)
      BY <2>4
    <2>6. x \in {d} \X Passages(d)[i] /\ x \in {e} \X Passages(e)[j]
      BY <1>3, <2>1, <2>3, <2>5
    <2>7. d = e /\ x[2] \in Passages(d)[i] /\ x[2] \in Passages(e)[j]
      BY <2>6
    <2>8. i = j
      BY <1>1, <2>7
    <2>9. Payload[t] = Payload[u]
      BY <2>3, <2>5, <2>7, <2>8
    <2> QED
      BY <1>6, <2>9, PayloadIs
  <1> QED
    BY <1>4, <1>5, <1>6

-----------------------------------------------------------------------------
(* The queue *)

\* No element of a queue is in it twice.
Distinct(q) == \A i, j \in 1..Len(q) : i # j => q[i] # q[j]

\* The elements of a sequence, by position.
LEMMA RangeIs ==
    ASSUME NEW S, NEW q \in Seq(S)
    PROVE  /\ Range(q) = {q[i] : i \in 1..Len(q)} /\ Range(q) \subseteq S
           /\ Len(q) \in Nat
  <1>1. DOMAIN q = 1..Len(q) /\ Len(q) \in Nat
    BY LenProperties
  <1>2. \A i \in 1..Len(q) : q[i] \in S
    BY ElementOfSeq
  <1> QED
    BY <1>1, <1>2 DEF Range

\* Adding at the end.
LEMMA QueueAppend ==
    ASSUME NEW S, NEW q \in Seq(S), NEW x \in S
    PROVE  /\ Append(q, x) \in Seq(S)
           /\ Range(Append(q, x)) = Range(q) \cup {x}
           /\ Distinct(q) /\ x \notin Range(q) => Distinct(Append(q, x))
  <1> DEFINE r == Append(q, x)
  <1>1. /\ r \in Seq(S) /\ Len(r) = Len(q) + 1 /\ r[Len(q) + 1] = x
        /\ \A i \in 1..Len(q) : r[i] = q[i]
    BY AppendProperties
  <1> HIDE DEF r
  <1>2. Range(q) = {q[i] : i \in 1..Len(q)} /\ Range(r) = {r[i] : i \in 1..Len(r)} /\ Len(q) \in Nat
    BY <1>1, RangeIs
  <1>3. \A i \in 1..Len(r) : i \in 1..Len(q) \/ i = Len(q) + 1
    BY <1>1, <1>2
  <1>4. 1..Len(q) \subseteq 1..Len(r) /\ Len(q) + 1 \in 1..Len(r)
    BY <1>1, <1>2
  <1>5. Range(r) = Range(q) \cup {x}
    <2>1. \A y \in Range(r) : y \in Range(q) \cup {x}
      BY <1>1, <1>2, <1>3
    <2>2. \A y \in Range(q) \cup {x} : y \in Range(r)
      BY <1>1, <1>2, <1>4
    <2> QED
      BY <2>1, <2>2
  <1>6. ASSUME Distinct(q), x \notin Range(q), NEW i \in 1..Len(r), NEW j \in 1..Len(r), i # j
        PROVE  r[i] # r[j]
    <2>1. \A k \in 1..Len(q) : q[k] # x
      BY <1>2, <1>6
    <2> QED
      BY <1>1, <1>3, <1>6, <2>1 DEF Distinct
  <1> QED
    BY <1>1, <1>5, <1>6 DEF Distinct, r

\* Taking the head.
LEMMA QueueTail ==
    ASSUME NEW S, NEW q \in Seq(S), q # << >>
    PROVE  /\ Tail(q) \in Seq(S) /\ Head(q) \in S
           /\ Range(q) = Range(Tail(q)) \cup {Head(q)}
           /\ Distinct(q) => Distinct(Tail(q)) /\ Head(q) \notin Range(Tail(q))
  <1> DEFINE r == Tail(q)
  <1>1. /\ Len(q) \in Nat \ {0} /\ r \in Seq(S) /\ Len(r) = Len(q) - 1 /\ Head(q) = q[1]
        /\ \A i \in 1..Len(r) : r[i] = q[i + 1]
    <2>1. Len(q) \in Nat /\ Len(q) # 0
      BY LenProperties, EmptySeq
    <2> QED
      BY <2>1
  <1> HIDE DEF r
  <1>2. Range(q) = {q[i] : i \in 1..Len(q)} /\ Range(r) = {r[i] : i \in 1..Len(r)} /\ Range(q) \subseteq S
    BY <1>1, RangeIs
  <1>3. \A i \in 1..Len(r) : i + 1 \in 1..Len(q) /\ i + 1 # 1
    BY <1>1
  <1>4. \A i \in 1..Len(q) : i = 1 \/ (i - 1 \in 1..Len(r) /\ (i - 1) + 1 = i)
    BY <1>1
  <1>5. 1 \in 1..Len(q)
    BY <1>1
  <1>6. Range(q) = Range(r) \cup {Head(q)}
    <2>1. ASSUME NEW y \in Range(q) PROVE y \in Range(r) \cup {Head(q)}
      <3>1. PICK i \in 1..Len(q) : y = q[i]
        BY <1>2
      <3>2. CASE i = 1
        BY <1>1, <3>1, <3>2
      <3>3. CASE i # 1
        <4>1. i - 1 \in 1..Len(r) /\ r[i - 1] = q[i]
          BY <1>1, <1>4, <3>3
        <4> QED
          BY <1>2, <3>1, <4>1
      <3> QED
        BY <3>2, <3>3
    <2>2. \A y \in Range(r) \cup {Head(q)} : y \in Range(q)
      BY <1>1, <1>2, <1>3, <1>5
    <2> QED
      BY <2>1, <2>2
  <1>7. ASSUME Distinct(q) PROVE Distinct(r) /\ Head(q) \notin Range(r)
    <2>1. ASSUME NEW i \in 1..Len(r), NEW j \in 1..Len(r), i # j PROVE r[i] # r[j]
      <3>1. i + 1 # j + 1
        BY <1>1, <2>1
      <3> QED
        BY <1>1, <1>3, <1>7, <3>1 DEF Distinct
    <2>2. ASSUME NEW i \in 1..Len(r) PROVE r[i] # Head(q)
      BY <1>1, <1>3, <1>5, <1>7 DEF Distinct
    <2> QED
      BY <1>2, <2>1, <2>2 DEF Distinct
  <1> QED
    BY <1>1, <1>2, <1>5, <1>6, <1>7 DEF r

\* Putting a set, in any order, at the front.
LEMMA QueueFront ==
    ASSUME NEW S, NEW q \in Seq(S), NEW T \in SUBSET S, IsFiniteSet(T), NEW o \in SetToSeqs(T)
    PROVE  /\ o \o q \in Seq(S)
           /\ Range(o \o q) = T \cup Range(q)
           /\ Distinct(q) /\ T \cap Range(q) = {} => Distinct(o \o q)
  <1> DEFINE c == Cardinality(T)
             r == o \o q
  <1>1. c \in Nat /\ o \in [1..c -> T] /\ \A i, j \in 1..c : i # j => o[i] # o[j]
    BY FS_CardinalityType DEF SetToSeqs
  <1>2. o \in Seq(S) /\ Len(o) = c /\ Len(q) \in Nat
    BY <1>1, LenProperties
  <1>3. \A y \in T : \E i \in 1..c : o[i] = y
    <2>1. o \in Injection(1..c, T)
      BY <1>1 DEF Injection, IsInjective
    <2>2. IsFiniteSet(1..c) /\ Cardinality(1..c) = c
      BY <1>1, FS_Interval
    <2>3. o \in Surjection(1..c, T)
      BY <2>1, <2>2, FS_Injection
    <2> QED
      BY <2>3 DEF Surjection
  <1> HIDE DEF c
  <1>4. /\ r \in Seq(S) /\ Len(r) = c + Len(q)
        /\ \A i \in 1 .. c + Len(q) : r[i] = IF i <= c THEN o[i] ELSE q[i - c]
    BY <1>2, ConcatProperties
  <1> HIDE DEF r
  <1>5. Range(r) = {r[i] : i \in 1..Len(r)} /\ Range(q) = {q[i] : i \in 1..Len(q)}
    BY <1>4, RangeIs
  <1>6. \A i \in 1..Len(r) : \/ i \in 1..c /\ r[i] = o[i]
                             \/ i - c \in 1..Len(q) /\ r[i] = q[i - c]
    BY <1>1, <1>2, <1>4
  <1>7. /\ \A i \in 1..c : i \in 1..Len(r) /\ r[i] = o[i]
        /\ \A i \in 1..Len(q) : c + i \in 1..Len(r) /\ r[c + i] = q[i]
    <2>1. \A i \in 1..c : i \in 1..Len(r) /\ r[i] = o[i]
      BY <1>1, <1>2, <1>4
    <2>2. ASSUME NEW i \in 1..Len(q) PROVE c + i \in 1..Len(r) /\ r[c + i] = q[i]
      <3>1. c + i \in 1 .. c + Len(q) /\ ~(c + i <= c) /\ (c + i) - c = i
        BY <1>1, <1>2
      <3> QED
        BY <1>4, <3>1
    <2> QED
      BY <2>1, <2>2
  <1>8. Range(r) = T \cup Range(q)
    <2>1. \A y \in Range(r) : y \in T \cup Range(q)
      BY <1>1, <1>5, <1>6
    <2>2. \A y \in Range(q) : y \in Range(r)
      BY <1>5, <1>7
    <2>3. \A y \in T : y \in Range(r)
      BY <1>3, <1>5, <1>7
    <2> QED
      BY <2>1, <2>2, <2>3
  <1>9. ASSUME Distinct(q), T \cap Range(q) = {}, NEW i \in 1..Len(r), NEW j \in 1..Len(r), i # j
        PROVE  r[i] # r[j]
    <2>1. \A k \in 1..c, l \in 1..Len(q) : o[k] # q[l]
      BY <1>1, <1>5, <1>9
    <2>2. i - c = j - c => i = j
      BY <1>1
    <2> QED
      BY <1>1, <1>6, <1>9, <2>1, <2>2 DEF Distinct
  <1> QED
    BY <1>4, <1>8, <1>9 DEF Distinct, r

-----------------------------------------------------------------------------
(* Types *)

BrokerOK ==
    /\ pending \in Seq(Task)
    /\ inflight \subseteq Task /\ silent \subseteq inflight
    /\ done \subseteq Task /\ errors \subseteq done

ProducerOK ==
    /\ producer \in {"submitting", "waiting", "finished", "failed"}
    /\ next \in 1..NumTasks + 1 /\ waiting \subseteq Task

PcType == {"starting", "creating", "idle", "working", "embedded", "stored",
           "failed", "reporting", "leaving", "exited"}
Free == {"starting", "creating", "idle", "exited"}

WorkerOK ==
    /\ pc \in [Worker -> PcType]
    /\ holds \in [Worker -> Task \cup {Nil}]
    /\ \A w \in Worker : holds[w] = Nil <=> pc[w] \in Free

CallType == [worker : Worker, task : Task, error : BOOLEAN]

RestOK ==
    /\ calls \subseteq CallType
    /\ collection \in BOOLEAN /\ qdrant \subseteq Task
    /\ faults \in 0..MaxFaults /\ restarts \in 0..MaxRestarts

\* The type invariant, one part for each actor.
LEMMA TypeParts == TypeOK <=> BrokerOK /\ ProducerOK /\ WorkerOK /\ RestOK
  BY DEF TypeOK, BrokerOK, ProducerOK, WorkerOK, RestOK, PcType, Free, CallType

\* The tasks are the numbers from 1 to NumTasks.
LEMMA TaskIs ==
    /\ NumTasks \in Nat /\ Task \subseteq Nat /\ Nil \notin Task
    /\ \A x \in Nat : x \in Task <=> 1 <= x /\ x <= NumTasks
  <1>1. NumTasks \in Nat /\ Nil \notin Nat
    BY PayloadIs, PipelineAssumption
  <1> QED
    BY <1>1 DEF Task

\* A worker moves on in its loop, and may take or drop a task.
LEMMA WorkerStep ==
    ASSUME WorkerOK, NEW w \in Worker, NEW x \in PcType, NEW t \in Task \cup {Nil},
           t = Nil <=> x \in Free,
           pc' = [pc EXCEPT ![w] = x],
           holds' = [holds EXCEPT ![w] = t] \/ (holds' = holds /\ t = holds[w])
    PROVE  WorkerOK'
  <1>1. pc' \in [Worker -> PcType] /\ holds' \in [Worker -> Task \cup {Nil}]
    BY DEF WorkerOK
  <1>2. pc'[w] = x /\ holds'[w] = t
    BY DEF WorkerOK
  <1>3. \A v \in Worker \ {w} : pc'[v] = pc[v] /\ holds'[v] = holds[v]
    BY DEF WorkerOK
  <1> QED
    BY <1>1, <1>2, <1>3 DEF WorkerOK

\* A fault is counted within its bound.
LEMMA FaultStep ==
    ASSUME RestOK, Fault
    PROVE  faults' \in 0..MaxFaults
  BY PipelineAssumption DEF RestOK, Fault

\* The first states have their types.
LEMMA InitTypeOK == Init => TypeOK
  <1> SUFFICES ASSUME Init PROVE TypeOK
    OBVIOUS
  <1>1. BrokerOK /\ ProducerOK
    BY TaskIs DEF Init, BrokerOK, ProducerOK
  <1>2. WorkerOK
    BY DEF Init, WorkerOK, PcType, Free
  <1>3. collection \in BOOLEAN
    BY DEF Init
  <1>4. RestOK
    BY <1>3, PipelineAssumption DEF Init, RestOK
  <1> QED
    BY <1>1, <1>2, <1>4, TypeParts

\* What handing out a task does to the broker's types.
LEMMA HandOutType ==
    ASSUME BrokerOK, NEW t \in Task, HandOut(t)
    PROVE  BrokerOK'
  <1>1. Tail(pending) \in Seq(Task)
    BY QueueTail DEF BrokerOK, HandOut
  <1> QED
    BY <1>1 DEF BrokerOK, HandOut

\* Every step keeps the types.
LEMMA NextTypeOK == TypeOK /\ [Next]_vars => TypeOK'
  <1> SUFFICES ASSUME BrokerOK, ProducerOK, WorkerOK, RestOK, [Next]_vars
               PROVE  BrokerOK' /\ ProducerOK' /\ WorkerOK' /\ RestOK'
    BY TypeParts, PTL
  <1>b. UNCHANGED broker => BrokerOK'
    BY DEF broker, BrokerOK
  <1>p. UNCHANGED prod => ProducerOK'
    BY DEF prod, ProducerOK
  <1>w. UNCHANGED work => WorkerOK'
    BY DEF work, WorkerOK
  <1>r. UNCHANGED << calls, points, restarts >> /\ faults' \in 0..MaxFaults => RestOK'
    BY DEF RestOK, points
  <1>r0. UNCHANGED << calls, points, faults, restarts >> => RestOK'
    BY DEF RestOK, points
  <1>a. producer = "submitting" /\ next <= NumTasks => next \in Task /\ Append(pending, next) \in Seq(Task)
    BY TaskIs, QueueAppend DEF ProducerOK, BrokerOK
  <1>1. CASE Submit
    <2>1. BrokerOK'
      BY <1>1, <1>a DEF Submit, BrokerOK
    <2>2. ProducerOK'
      BY <1>1, <1>a, TaskIs DEF Submit, ProducerOK
    <2> QED
      BY <1>1, <1>w, <1>r0, <2>1, <2>2 DEF Submit
  <1>2. CASE SubmitError
    <2>1. BrokerOK'
      BY <1>2, <1>a DEF SubmitError, BrokerOK
    <2>2. ProducerOK'
      BY <1>2 DEF SubmitError, ProducerOK
    <2> QED
      BY <1>2, <1>w, <1>r, <2>1, <2>2, FaultStep DEF SubmitError
  <1>3. CASE AllSubmitted \/ WaitOver \/ \E t \in Task : GetResult(t)
    <2>1. ProducerOK'
      BY <1>3 DEF AllSubmitted, WaitOver, GetResult, ProducerOK
    <2> QED
      BY <1>3, <1>b, <1>w, <1>r0, <2>1 DEF AllSubmitted, WaitOver, GetResult
  <1>4. ASSUME NEW c \in calls, Complete(c) PROVE BrokerOK' /\ ProducerOK' /\ WorkerOK' /\ RestOK'
    <2>1. BrokerOK'
      BY <1>4 DEF Complete, Record, BrokerOK, RestOK
    <2>2. RestOK'
      BY <1>4 DEF Complete, RestOK, points
    <2> QED
      BY <1>4, <1>p, <1>w, <2>1, <2>2 DEF Complete
  <1>5. ASSUME NEW t \in Task, Timeout(t) \/ FalseTimeout(t)
        PROVE  BrokerOK' /\ ProducerOK' /\ WorkerOK' /\ RestOK'
    <2>1. BrokerOK'
      BY <1>5 DEF Timeout, FalseTimeout, BrokerOK
    <2> QED
      BY <1>5, <1>p, <1>w, <1>r, <1>r0, <2>1, FaultStep DEF Timeout, FalseTimeout
  <1>6. CASE ReEnqueueStalled
    <2>1. PICK o \in SetToSeqs(silent) : pending' = o \o pending
      BY <1>6 DEF ReEnqueueStalled
    <2>2. IsFiniteSet(silent)
      <3>1. IsFiniteSet(1..NumTasks)
        BY TaskIs, FS_Interval
      <3> QED
        BY <3>1, FS_Subset DEF BrokerOK, Task
    <2>3. pending' \in Seq(Task)
      BY <2>1, <2>2, QueueFront DEF BrokerOK
    <2>4. BrokerOK'
      BY <1>6, <2>3 DEF ReEnqueueStalled, BrokerOK
    <2> QED
      BY <1>6, <1>p, <1>w, <1>r0, <2>4 DEF ReEnqueueStalled
  <1>7. CASE Restart
    <2>1. BrokerOK'
      BY <1>7 DEF Restart, BrokerOK
    <2>2. RestOK'
      BY <1>7, PipelineAssumption DEF Restart, RestOK, points
    <2> QED
      BY <1>7, <1>p, <1>w, <2>1, <2>2 DEF Restart
  <1>8. ASSUME NEW w \in Worker, Work(w) PROVE BrokerOK' /\ ProducerOK' /\ WorkerOK' /\ RestOK'
    <2>h. holds[w] \in Task \cup {Nil} /\ (holds[w] = Nil <=> pc[w] \in Free)
      BY DEF WorkerOK
    <2>1. CASE FindCollection(w) \/ FindError(w)
      <3>1. WorkerOK'
        BY <2>1, <2>h, WorkerStep DEF FindCollection, FindError, PcType, Free
      <3> QED
        BY <2>1, <1>b, <1>p, <1>r, <1>r0, <3>1, FaultStep DEF FindCollection, FindError
    <2>2. CASE CreateCollection(w)
      <3>1. WorkerOK'
        BY <2>2, <2>h, WorkerStep DEF CreateCollection, PcType, Free
      <3>2. RestOK'
        BY <2>2 DEF CreateCollection, RestOK
      <3> QED
        BY <2>2, <1>b, <1>p, <3>1, <3>2 DEF CreateCollection
    <2>3. CASE Poll(w)
      <3>1. PICK t \in Task : /\ HandOut(t) /\ pc' = [pc EXCEPT ![w] = "working"]
                              /\ holds' = [holds EXCEPT ![w] = t]
        BY <2>3 DEF Poll
      <3>2. t # Nil /\ t \in Task \cup {Nil} /\ "working" \in PcType \ Free
        BY TaskIs DEF PcType, Free
      <3>3. WorkerOK'
        BY <3>1, <3>2, WorkerStep
      <3> QED
        BY <2>3, <1>p, <1>r0, <3>1, <3>3, HandOutType DEF Poll
    <2>4. CASE PollLost(w)
      BY <2>4, <1>p, <1>w, <1>r, HandOutType, FaultStep DEF PollLost
    <2>5. CASE Heartbeat(w)
      <3>1. BrokerOK'
        BY <2>5 DEF Heartbeat, BrokerOK
      <3> QED
        BY <2>5, <1>p, <1>w, <1>r0, <3>1 DEF Heartbeat
    <2>6. CASE Embed(w)
      <3>1. WorkerOK'
        BY <2>6, <2>h, WorkerStep DEF Embed, PcType, Free
      <3> QED
        BY <2>6, <1>b, <1>p, <1>r0, <3>1 DEF Embed
    <2>7. CASE Upsert(w) \/ Fail(w)
      <3>1. WorkerOK'
        BY <2>7, <2>h, WorkerStep DEF Upsert, Fail, PcType, Free
      <3>2. holds[w] \in Task
        BY <2>7, <2>h DEF Upsert, Fail, Free
      <3>3. qdrant' \subseteq Task
        BY <2>7, <3>2 DEF Upsert, Fail, upsertVector, RestOK
      <3>4. RestOK'
        BY <2>7, <3>3, FaultStep DEF Upsert, Fail, RestOK
      <3> QED
        BY <2>7, <1>b, <1>p, <3>1, <3>4 DEF Upsert, Fail
    <2>8. CASE Report(w)
      <3>1. WorkerOK'
        BY <2>8, <2>h, WorkerStep DEF Report, PcType, Free
      <3>2. holds[w] \in Task
        BY <2>8, <2>h DEF Report, Free
      <3>3. CompleteCall(w, holds[w], pc[w] = "failed") \in CallType
        BY <3>2 DEF CompleteCall, CallType
      <3>4. RestOK'
        BY <2>8, <3>3 DEF Report, RestOK, points
      <3> QED
        BY <2>8, <1>b, <1>p, <3>1, <3>4 DEF Report
    <2>9. CASE CompleteReturns(w) \/ CompleteError(w)
      <3>0. PICK x \in Free : pc' = [pc EXCEPT ![w] = x] /\ holds' = [holds EXCEPT ![w] = Nil]
        BY <2>9 DEF CompleteReturns, CompleteError, AfterComplete, Free
      <3>1. WorkerOK'
        <4>1. x \in PcType /\ Nil \in Task \cup {Nil}
          BY DEF PcType, Free
        <4> QED
          BY <3>0, <4>1, WorkerStep
      <3>2. RestOK'
        BY <2>9, FaultStep DEF CompleteReturns, CompleteError, RestOK, points
      <3> QED
        BY <2>9, <1>b, <1>p, <3>1, <3>2 DEF CompleteReturns, CompleteError
    <2>10. CASE Crash(w)
      <3>1. WorkerOK'
        <4>1. "exited" \in PcType \cap Free /\ Nil \in Task \cup {Nil}
          BY DEF PcType, Free
        <4>2. pc' = [pc EXCEPT ![w] = "exited"] /\ holds' = [holds EXCEPT ![w] = Nil]
          BY <2>10 DEF Crash
        <4> QED
          BY <4>1, <4>2, WorkerStep
      <3> QED
        BY <2>10, <1>b, <1>p, <1>r, <3>1, FaultStep DEF Crash
    <2> QED
      BY <1>8, <2>1, <2>2, <2>3, <2>4, <2>5, <2>6, <2>7, <2>8, <2>9, <2>10 DEF Work
  <1>9. CASE UNCHANGED vars
    BY <1>9, <1>b, <1>p, <1>w, <1>r0 DEF vars
  <1> QED
    BY <1>1, <1>2, <1>3, <1>4, <1>5, <1>6, <1>7, <1>8, <1>9 DEF Next, Producer, Broker

(***************************************************************************)
(* The types of the broker's, the producer's and the workers' state, for   *)
(* every corpus: in particular a worker holds a task exactly while it      *)
(* works on one, and nothing refers to a task that does not exist.         *)
(***************************************************************************)
THEOREM TypeCorrect == Spec => []TypeOK
  BY InitTypeOK, NextTypeOK, PTL DEF Spec

-----------------------------------------------------------------------------
(* Custody *)

\* The tasks the broker knows of.
Known == Queued \cup inflight \cup done

\* Tasks are submitted in order, so the next one is new to everybody.
Fresh ==
    /\ \A t \in waiting : t < next
    /\ producer = "submitting" => \A t \in Known : t < next

CustodyInv == TypeOK /\ OnePlace /\ Fresh

\* OnePlace in terms of the queue operators above.
LEMMA OnePlaceIs ==
    OnePlace <=> /\ Distinct(pending)
                 /\ Queued \cap inflight = {} /\ Queued \cap done = {} /\ inflight \cap done = {}
  BY DEF OnePlace, Distinct

\* The steps that leave queue, custody and results alone.
Untouched == UNCHANGED << pending, inflight, done, errors >>

\* While the broker knows no more tasks and nothing is submitted, the tasks
\* still to come stay new.
LEMMA FreshStep ==
    ASSUME Fresh, Known' \subseteq Known, UNCHANGED next, waiting' \subseteq waiting,
           producer' = "submitting" => producer = "submitting"
    PROVE  Fresh'
  BY DEF Fresh

\* Handing out moves a task from the queue to the ones in flight.
LEMMA HandOutMoves ==
    ASSUME TypeOK, OnePlace, NEW t \in Task, HandOut(t)
    PROVE  /\ OnePlace' /\ Known' = Known /\ UNCHANGED << done, errors >>
  <1>1. /\ pending \in Seq(Task) /\ pending # << >> /\ t = Head(pending)
        /\ pending' = Tail(pending) /\ inflight' = inflight \cup {t} /\ UNCHANGED << done, errors >>
    BY DEF TypeOK, HandOut
  <1>2. Queued = Queued' \cup {t} /\ Distinct(pending)' /\ t \notin Queued'
    <2>1. Distinct(pending)
      BY OnePlaceIs
    <2>2. /\ Range(pending) = Range(Tail(pending)) \cup {t}
          /\ Distinct(Tail(pending)) /\ t \notin Range(Tail(pending))
      BY <1>1, <2>1, QueueTail
    <2> QED
      BY <1>1, <2>2 DEF Queued, Distinct
  <1>3. OnePlace'
    <2>1. Queued \cap inflight = {} /\ Queued \cap done = {} /\ inflight \cap done = {}
      BY OnePlaceIs
    <2>2. Queued' \cap inflight' = {} /\ Queued' \cap done' = {} /\ inflight' \cap done' = {}
      BY <1>1, <1>2, <2>1
    <2> QED
      BY <1>2, <2>2 DEF OnePlace, Distinct
  <1> QED
    BY <1>1, <1>2, <1>3 DEF Known

\* Every step but a Submit and a restart moves tasks between the places
\* without losing or copying one, and results are only added.
LEMMA CustodyStep ==
    ASSUME CustodyInv, [Next]_vars, ~Restart, ~Submit, ~SubmitError
    PROVE  /\ OnePlace' /\ Known' = Known /\ done \subseteq done' /\ errors = errors' \cap done
           /\ UNCHANGED next /\ (producer' = "submitting" => producer = "submitting")
           /\ restarts' = restarts
           /\ waiting' \subseteq waiting /\ \A t \in waiting \ waiting' : t \in done
  <1>0. TypeOK /\ OnePlace /\ errors \subseteq done
    BY DEF CustodyInv, TypeOK
  <1>1. ASSUME Untouched PROVE OnePlace' /\ Known' = Known /\ done \subseteq done' /\ errors = errors' \cap done
    BY <1>0, <1>1 DEF Untouched, OnePlace, Known, Queued
  <1>2. ASSUME NEW t \in Task, HandOut(t)
        PROVE  OnePlace' /\ Known' = Known /\ done \subseteq done' /\ errors = errors' \cap done
    BY <1>0, <1>2, HandOutMoves
  <1>3. ASSUME NEW w \in Worker, Work(w)
        PROVE  (Untouched \/ \E t \in Task : HandOut(t)) /\ UNCHANGED << prod, restarts >>
    BY <1>3 DEF Work, FindCollection, FindError, CreateCollection, Poll, PollLost, Heartbeat,
                Embed, Upsert, Fail, Report, CompleteReturns, CompleteError, Crash,
                Untouched, broker
  <1>4. ASSUME NEW c \in calls, Complete(c)
        PROVE  /\ OnePlace' /\ Known' = Known /\ done \subseteq done' /\ errors = errors' \cap done
               /\ UNCHANGED << prod, restarts >>
    <2>1. CASE c.task \in inflight
      <3>1. /\ UNCHANGED pending /\ inflight' = inflight \ {c.task} /\ done' = done \cup {c.task}
            /\ errors' = IF c.error THEN errors \cup {c.task} ELSE errors \ {c.task}
        BY <1>4, <2>1 DEF Complete, Record
      <3>2. /\ Distinct(pending)
            /\ Queued \cap inflight = {} /\ Queued \cap done = {} /\ inflight \cap done = {}
        BY <1>0, OnePlaceIs
      <3>3. Queued' = Queued /\ Distinct(pending)'
        BY <3>1, <3>2 DEF Queued, Distinct
      <3>4. OnePlace'
        BY <2>1, <3>1, <3>2, <3>3 DEF OnePlace, Distinct
      <3>5. Known' = Known
        BY <2>1, <3>1, <3>3 DEF Known
      <3>6. errors = errors' \cap done
        BY <1>0, <2>1, <3>1, <3>2
      <3> QED
        BY <1>4, <3>1, <3>4, <3>5, <3>6 DEF Complete
    <2>2. CASE c.task \notin inflight
      <3>1. Untouched
        BY <1>4, <2>2 DEF Complete, Record, Untouched
      <3> QED
        BY <1>1, <1>4, <3>1 DEF Complete
    <2> QED
      BY <2>1, <2>2
  <1>5. ASSUME NEW t \in Task, Timeout(t) \/ FalseTimeout(t)
        PROVE  Untouched /\ UNCHANGED << prod, restarts >>
    BY <1>5 DEF Timeout, FalseTimeout, Untouched
  <1>6. CASE ReEnqueueStalled
    <2>1. PICK o \in SetToSeqs(silent) : pending' = o \o pending
      BY <1>6 DEF ReEnqueueStalled
    <2>2. /\ pending \in Seq(Task) /\ silent \subseteq inflight /\ silent \in SUBSET Task
          /\ inflight' = inflight \ silent /\ UNCHANGED << done, errors, prod, restarts >>
      BY <1>0, <1>6 DEF ReEnqueueStalled, TypeOK
    <2>3. IsFiniteSet(silent)
      <3>1. IsFiniteSet(1..NumTasks)
        BY TaskIs, FS_Interval
      <3> QED
        BY <2>2, <3>1, FS_Subset DEF Task
    <2>4. /\ Distinct(pending)
          /\ Queued \cap inflight = {} /\ Queued \cap done = {} /\ inflight \cap done = {}
      BY <1>0, OnePlaceIs
    <2>5. Queued' = silent \cup Queued /\ Distinct(pending)'
      <3>1. silent \cap Range(pending) = {}
        BY <2>2, <2>4 DEF Queued
      <3>2. Range(o \o pending) = silent \cup Range(pending) /\ Distinct(o \o pending)
        BY <2>2, <2>3, <2>4, <3>1, QueueFront
      <3> QED
        BY <2>1, <3>2 DEF Queued, Distinct
    <2>6. OnePlace'
      BY <2>2, <2>4, <2>5 DEF OnePlace, Distinct
    <2>7. Known' = Known
      BY <2>2, <2>5 DEF Known
    <2> QED
      BY <1>0, <2>2, <2>6, <2>7 DEF prod
  <1>7. CASE AllSubmitted \/ WaitOver \/ \E t \in Task : GetResult(t)
    <2>1. Untouched /\ UNCHANGED << next, restarts >> /\ producer' # "submitting"
      BY <1>7 DEF AllSubmitted, WaitOver, GetResult, Untouched, broker
    <2>2. waiting' \subseteq waiting /\ \A t \in waiting \ waiting' : t \in done
      BY <1>7 DEF AllSubmitted, WaitOver, GetResult
    <2> QED
      BY <1>1, <2>1, <2>2
  <1>8. CASE UNCHANGED vars
    BY <1>1, <1>8 DEF vars, Untouched, broker, prod
  <1> QED
    BY <1>1, <1>2, <1>3, <1>4, <1>5, <1>6, <1>7, <1>8 DEF Next, Producer, Broker, prod

\* A Submit, successful or not, may add the next task to the queue.
LEMMA SubmitStep ==
    ASSUME CustodyInv, Submit \/ SubmitError
    PROVE  /\ OnePlace' /\ next \in Task /\ next \notin Known /\ next \notin waiting
           /\ Known' = Known \/ Known' = Known \cup {next}
           /\ UNCHANGED << done, errors, restarts >>
  <1>1. /\ producer = "submitting" /\ next <= NumTasks /\ UNCHANGED << inflight, done, errors, restarts >>
        /\ pending' \in {pending, Append(pending, next)}
    BY DEF Submit, SubmitError
  <1>2. next \in Task /\ pending \in Seq(Task)
    BY <1>1, TaskIs DEF CustodyInv, TypeOK
  <1>3. next \notin Known /\ next \notin waiting
    BY <1>1, <1>2, TaskIs DEF CustodyInv, Fresh
  <1>4. /\ Distinct(pending)
        /\ Queued \cap inflight = {} /\ Queued \cap done = {} /\ inflight \cap done = {}
    BY OnePlaceIs DEF CustodyInv
  <1>5. /\ Range(Append(pending, next)) = Queued \cup {next} /\ Distinct(Append(pending, next))
    <2>1. next \notin Range(pending)
      BY <1>3 DEF Known, Queued
    <2> QED
      BY <1>2, <1>4, <2>1, QueueAppend DEF Queued
  <1>6. CASE pending' = pending
    <2>1. Queued' = Queued /\ OnePlace'
      BY <1>1, <1>4, <1>6 DEF OnePlace, Distinct, Queued
    <2> QED
      BY <1>1, <1>2, <1>3, <2>1 DEF Known
  <1>7. CASE pending' = Append(pending, next)
    <2>1. Queued' = Queued \cup {next} /\ Distinct(pending)'
      BY <1>5, <1>7 DEF Queued, Distinct
    <2>2. OnePlace'
      BY <1>1, <1>3, <1>4, <2>1 DEF OnePlace, Distinct, Known
    <2>3. Known' = Known \cup {next}
      BY <1>1, <2>1 DEF Known
    <2> QED
      BY <1>1, <1>2, <1>3, <2>2, <2>3
  <1> QED
    BY <1>1, <1>6, <1>7

\* A restart forgets everything.
LEMMA RestartStep ==
    ASSUME Restart
    PROVE  OnePlace' /\ Known' = {} /\ UNCHANGED prod
  <1>1. /\ pending' = << >> /\ inflight' = {} /\ done' = {} /\ UNCHANGED prod
    BY DEF Restart
  <1>2. Range(<< >>) = {} /\ Len(<< >>) = 0 /\ 1..0 = {}
    BY DEF Range
  <1>3. Queued' = {} /\ Distinct(pending)'
    BY <1>1, <1>2 DEF Queued, Distinct
  <1> QED
    BY <1>1, <1>3 DEF OnePlace, Distinct, Known

\* Every step leaves each task in one place.
LEMMA NextCustody == CustodyInv /\ [Next]_vars => CustodyInv'
  <1> SUFFICES ASSUME CustodyInv, [Next]_vars PROVE OnePlace' /\ Fresh'
    BY NextTypeOK DEF CustodyInv
  <1>0. Fresh /\ next \in Nat /\ waiting \subseteq Nat
    BY TaskIs DEF CustodyInv, TypeOK
  <1>1. CASE Submit
    <2>1. /\ OnePlace' /\ next \in Task /\ producer = "submitting"
          /\ Known' = Known \/ Known' = Known \cup {next}
          /\ next' = next + 1 /\ waiting' = waiting \cup {next}
      BY <1>1, SubmitStep DEF Submit
    <2>2. Known \subseteq Nat
      <3>1. Range(pending) \subseteq Task
        BY RangeIs DEF CustodyInv, TypeOK
      <3> QED
        BY <3>1, TaskIs DEF CustodyInv, TypeOK, Known, Queued
    <2>3. \A t \in Known' : t < next'
      <3>1. \A t \in Known : t < next /\ t \in Nat
        BY <1>0, <2>1, <2>2 DEF Fresh
      <3>2. \A t \in Known' : t \in Known \/ t = next
        BY <2>1
      <3> QED
        BY <1>0, <2>1, <3>1, <3>2
    <2>4. \A t \in waiting' : t < next'
      BY <1>0, <2>1 DEF Fresh
    <2>5. Fresh'
      BY <2>3, <2>4 DEF Fresh
    <2> QED
      BY <2>1, <2>5
  <1>2. CASE SubmitError
    <2>1. OnePlace'
      BY <1>2, SubmitStep
    <2>2. producer' = "failed" /\ UNCHANGED << next, waiting >>
      BY <1>2 DEF SubmitError
    <2>3. Fresh'
      BY <1>0, <2>2 DEF Fresh
    <2> QED
      BY <2>1, <2>3
  <1>3. CASE Restart
    <2>1. OnePlace' /\ Known' = {} /\ UNCHANGED << producer, next, waiting >>
      BY <1>3, RestartStep DEF prod
    <2>2. Fresh'
      BY <1>0, <2>1 DEF Fresh
    <2> QED
      BY <2>1, <2>2
  <1>4. CASE ~Submit /\ ~SubmitError /\ ~Restart
    BY <1>0, <1>4, CustodyStep, FreshStep
  <1> QED
    BY <1>1, <1>2, <1>3, <1>4

\* The broker knows no task at first.
LEMMA InitCustody == Init => CustodyInv
  <1> SUFFICES ASSUME Init PROVE OnePlace /\ Fresh
    BY InitTypeOK DEF CustodyInv
  <1>1. /\ pending = << >> /\ inflight = {} /\ done = {} /\ waiting = {}
    BY DEF Init
  <1>2. Range(<< >>) = {} /\ Len(<< >>) = 0 /\ 1..0 = {}
    BY DEF Range
  <1> QED
    BY <1>1, <1>2 DEF OnePlace, Fresh, Known, Queued

\* The invariant about where tasks are holds on every run.
LEMMA CustodyInvariant == Spec => []CustodyInv
  BY InitCustody, NextCustody, PTL DEF Spec

(***************************************************************************)
(* The broker never has a task twice, neither twice in its queue nor in    *)
(* two of pending, inflight and done, however late heartbeats, completions *)
(* and re-enqueues are: for every number of tasks, workers and faults.     *)
(***************************************************************************)
THEOREM TasksInOnePlace == Spec => []OnePlace
  BY CustodyInvariant, PTL DEF CustodyInv

(***************************************************************************)
(* A broker that does not restart loses no task the producer waits for:    *)
(* lost Poll replies, crashes and failures leave it in flight, from where  *)
(* the stall detector takes it back.                                       *)
(***************************************************************************)
THEOREM TasksAreKept == Spec => []NothingLost
  <1>1. Init => NothingLost
    BY DEF Init, NothingLost
  <1>2. CustodyInv /\ NothingLost /\ [Next]_vars => NothingLost'
    <2> SUFFICES ASSUME CustodyInv, restarts = 0 => waiting \subseteq Known, [Next]_vars,
                        restarts' = 0
                 PROVE  waiting' \subseteq Known'
      BY DEF NothingLost, Known
    <2>r. restarts \in Nat
      BY PipelineAssumption DEF CustodyInv, TypeOK
    <2>1. CASE Submit
      <3>1. Known' = Known \cup {next} /\ waiting' = waiting \cup {next} /\ restarts = 0
        <4>1. pending' = Append(pending, next) /\ UNCHANGED << inflight, done, restarts >>
              /\ waiting' = waiting \cup {next}
          BY <2>1 DEF Submit
        <4>2. next \in Task /\ pending \in Seq(Task)
          BY <2>1, SubmitStep DEF CustodyInv, TypeOK
        <4>3. Queued' = Queued \cup {next}
          BY <4>1, <4>2, QueueAppend DEF Queued
        <4> QED
          BY <4>1, <4>3 DEF Known
      <3> QED
        BY <3>1
    <2>2. CASE SubmitError
      BY <2>2, SubmitStep DEF SubmitError
    <2>3. CASE Restart
      BY <2>3, <2>r DEF Restart
    <2>4. CASE ~Submit /\ ~SubmitError /\ ~Restart
      BY <2>4, CustodyStep
    <2> QED
      BY <2>1, <2>2, <2>3, <2>4
  <1> QED
    BY <1>1, <1>2, CustodyInvariant, PTL DEF Spec

(***************************************************************************)
(* As long as the broker lives, the result of a task is final: a second    *)
(* completion, by a worker that was thought dead or by its replacement,    *)
(* changes neither that the task is done nor whether with an error.        *)
(***************************************************************************)
THEOREM ResultsAreFinal == Spec => ResultFinal
  <1>1. CustodyInv /\ [Next]_vars
          => (restarts' = restarts => done \subseteq done' /\ errors = errors' \cap done)
    <2> SUFFICES ASSUME CustodyInv, [Next]_vars, restarts' = restarts
                 PROVE  done \subseteq done' /\ errors = errors' \cap done
      OBVIOUS
    <2>1. CASE Restart
      BY <2>1, PipelineAssumption DEF Restart, CustodyInv, TypeOK
    <2>2. CASE Submit \/ SubmitError
      BY <2>2, SubmitStep DEF CustodyInv, TypeOK
    <2>3. CASE ~Submit /\ ~SubmitError /\ ~Restart
      BY <2>3, CustodyStep
    <2> QED
      BY <2>1, <2>2, <2>3
  <1> QED
    BY <1>1, CustodyInvariant, PTL DEF Spec, ResultFinal

(***************************************************************************)
(* A task that a broker restart has forgotten stays forgotten: no late     *)
(* completion, heartbeat or re-enqueue brings it back, so the producer     *)
(* polls its ID forever, as the README of hw4 says.                        *)
(***************************************************************************)
THEOREM OrphansStayOrphans == Spec => OrphanForever
  <1>1. CustodyInv /\ [Next]_vars => (\A t \in Task : Orphan(t) => Orphan(t)')
    <2> SUFFICES ASSUME CustodyInv, [Next]_vars, NEW t \in Task, t \in waiting, t \notin Known
                 PROVE  t \in waiting' /\ t \notin Known'
      BY DEF Orphan, Known
    <2>1. CASE Restart
      BY <2>1, RestartStep DEF prod
    <2>2. CASE Submit \/ SubmitError
      <3>1. t # next /\ t \in waiting'
        BY <2>2, SubmitStep DEF Submit, SubmitError
      <3> QED
        BY <2>2, <3>1, SubmitStep
    <2>3. CASE ~Submit /\ ~SubmitError /\ ~Restart
      BY <2>3, CustodyStep DEF Known
    <2> QED
      BY <2>1, <2>2, <2>3
  <1> QED
    BY <1>1, CustodyInvariant, PTL DEF Spec, OrphanForever

-----------------------------------------------------------------------------
(* What is in Qdrant *)

\* A worker that has stored its vector, and a completion without an error,
\* stand for a point in Qdrant.
Stored ==
    /\ \A c \in calls : ~c.error => c.task \in qdrant
    /\ \A w \in Worker : pc[w] = "stored" => holds[w] \in qdrant

IndexInv == TypeOK /\ Stored /\ SuccessIndexed

\* Every step keeps what is stored and what is reported in agreement.
LEMMA NextIndex == IndexInv /\ [Next]_vars => IndexInv'
  <1> SUFFICES ASSUME IndexInv, [Next]_vars PROVE Stored' /\ SuccessIndexed'
    BY NextTypeOK DEF IndexInv
  <1>0. /\ Stored /\ SuccessIndexed
        /\ pc \in [Worker -> PcType] /\ holds \in [Worker -> Task \cup {Nil}]
    BY DEF IndexInv, TypeOK, PcType
  <1>1. ASSUME qdrant \subseteq qdrant', done' \ errors' \subseteq done \ errors PROVE SuccessIndexed'
    BY <1>0, <1>1 DEF SuccessIndexed
  <1>2. ASSUME qdrant \subseteq qdrant', calls' \subseteq calls,
               \A w \in Worker : pc'[w] = "stored" => pc[w] = "stored" /\ holds'[w] = holds[w]
        PROVE  Stored'
    BY <1>0, <1>2 DEF Stored
  <1>3. CASE Producer
    BY <1>1, <1>2, <1>3 DEF Producer, Submit, SubmitError, AllSubmitted, GetResult, WaitOver,
                            broker, work, points
  <1>4. ASSUME NEW c \in calls, Complete(c) PROVE Stored' /\ SuccessIndexed'
    <2>1. Stored'
      BY <1>2, <1>4 DEF Complete, work, points
    <2>2. qdrant' = qdrant /\ (~c.error => c.task \in qdrant)
      BY <1>0, <1>4 DEF Complete, points, Stored
    <2>3. SuccessIndexed'
      <3>1. CASE c.task \in inflight
        <4>1. done' = done \cup {c.task}
              /\ errors' = IF c.error THEN errors \cup {c.task} ELSE errors \ {c.task}
          BY <1>4, <3>1 DEF Complete, Record
        <4> QED
          BY <1>0, <2>2, <4>1 DEF SuccessIndexed
      <3>2. CASE c.task \notin inflight
        BY <1>1, <1>4, <2>2, <3>2 DEF Complete, Record
      <3> QED
        BY <3>1, <3>2
    <2> QED
      BY <2>1, <2>3
  <1>5. CASE (\E t \in Task : Timeout(t) \/ FalseTimeout(t)) \/ ReEnqueueStalled \/ Restart
    BY <1>1, <1>2, <1>5 DEF Timeout, FalseTimeout, ReEnqueueStalled, Restart, work, points
  <1>6. ASSUME NEW w \in Worker, Work(w) PROVE Stored' /\ SuccessIndexed'
    <2>1. done' \ errors' \subseteq done \ errors /\ qdrant \subseteq qdrant'
      <3>1. UNCHANGED << done, errors >>
        BY <1>6 DEF Work, FindCollection, FindError, CreateCollection, Poll, PollLost, HandOut,
                    Heartbeat, Embed, Upsert, Fail, Report, CompleteReturns, CompleteError, Crash,
                    broker
      <3>2. UNCHANGED qdrant \/ Upsert(w) \/ Fail(w)
        BY <1>6 DEF Work, FindCollection, FindError, CreateCollection, Poll, PollLost,
                    Heartbeat, Embed, Report, CompleteReturns, CompleteError, Crash, points
      <3>3. Upsert(w) \/ Fail(w) => qdrant' \in {qdrant, qdrant \cup {holds[w]}}
        BY DEF Upsert, Fail, upsertVector
      <3> QED
        BY <3>1, <3>2, <3>3
    <2>2. CASE Upsert(w)
      <3>1. holds[w] \in qdrant' /\ calls' = calls /\ holds' = holds
            /\ \A v \in Worker \ {w} : pc'[v] = pc[v]
        BY <1>0, <2>2 DEF Upsert, upsertVector
      <3> QED
        BY <1>0, <1>1, <2>1, <3>1 DEF Stored
    <2>3. CASE Report(w)
      <3>1. /\ calls' = calls \cup {CompleteCall(w, holds[w], pc[w] = "failed")}
            /\ UNCHANGED << holds, qdrant >> /\ pc[w] \in {"stored", "failed"}
            /\ pc' = [pc EXCEPT ![w] = IF pc[w] = "failed" THEN "leaving" ELSE "reporting"]
        BY <2>3 DEF Report, points
      <3>2. \A v \in Worker : pc'[v] = "stored" => pc[v] = "stored"
        BY <1>0, <3>1
      <3>3. ASSUME NEW d \in calls', ~d.error PROVE d.task \in qdrant
        <4>1. CASE d \in calls
          BY <1>0, <3>3, <4>1 DEF Stored
        <4>2. CASE d = CompleteCall(w, holds[w], pc[w] = "failed")
          <5>1. d.task = holds[w] /\ d.error = (pc[w] = "failed")
            BY <4>2 DEF CompleteCall
          <5>2. pc[w] = "stored"
            BY <3>1, <3>3, <5>1
          <5> QED
            BY <1>0, <5>1, <5>2 DEF Stored
        <4> QED
          BY <3>1, <4>1, <4>2
      <3> QED
        BY <1>0, <1>1, <2>1, <3>1, <3>2, <3>3 DEF Stored
    <2>4. CASE ~Upsert(w) /\ ~Report(w)
      <3>1. calls' \subseteq calls
        BY <1>6, <2>4 DEF Work, FindCollection, FindError, CreateCollection, Poll, PollLost,
                    Heartbeat, Embed, Fail, CompleteReturns, CompleteError, Crash
      <3>2. \A v \in Worker : pc'[v] = "stored" => pc[v] = "stored" /\ holds'[v] = holds[v]
        BY <1>0, <1>6, <2>4 DEF Work, FindCollection, FindError, CreateCollection, Poll, PollLost,
                    Heartbeat, Embed, Fail, CompleteReturns, CompleteError, Crash,
                    AfterComplete, work
      <3> QED
        BY <1>1, <1>2, <2>1, <3>1, <3>2
    <2> QED
      BY <2>2, <2>3, <2>4
  <1>7. CASE UNCHANGED vars
    BY <1>1, <1>2, <1>7 DEF vars, broker, work, points
  <1> QED
    BY <1>3, <1>4, <1>5, <1>6, <1>7 DEF Next, Broker

\* The invariant about what is indexed holds on every run.
LEMMA IndexInvariant == Spec => []IndexInv
  <1>1. Init => IndexInv
    <2>1. Init => Stored /\ SuccessIndexed
      BY DEF Init, Stored, SuccessIndexed
    <2> QED
      BY <2>1, InitTypeOK DEF IndexInv
  <1> QED
    BY <1>1, NextIndex, PTL DEF Spec

(***************************************************************************)
(* A task reported done without an error has its point in Qdrant, also     *)
(* when the report came from a worker whose task had been given away, or   *)
(* after a restart of the broker.                                          *)
(***************************************************************************)
THEOREM SuccessIsIndexed == Spec => []SuccessIndexed
  BY IndexInvariant, PTL DEF IndexInv

-----------------------------------------------------------------------------
(* The whole corpus *)

\* What the producer does not wait for any more was done.
Seen ==
    /\ restarts = 0 => \A t \in Task : t < next => t \in waiting \cup done
    /\ producer \in {"waiting", "finished"} => next = NumTasks + 1
    /\ producer = "finished" => waiting = {}

\* A task the producer no longer waits for was seen done.
LEMMA NextSeen == CustodyInv /\ Seen /\ [Next]_vars => Seen'
  <1> SUFFICES ASSUME CustodyInv, Seen, [Next]_vars PROVE Seen'
    OBVIOUS
  <1>0. /\ restarts \in Nat /\ next \in Nat /\ NumTasks \in Nat /\ next <= NumTasks + 1
    BY PipelineAssumption, TaskIs DEF CustodyInv, TypeOK
  <1>1. CASE Submit
    <2>1. /\ producer = "submitting" /\ next' = next + 1 /\ waiting' = waiting \cup {next}
          /\ UNCHANGED << done, restarts, producer >>
      BY <1>1 DEF Submit
    <2>2. \A t \in Task : t < next' => t < next \/ t = next
      BY <1>0, <2>1, TaskIs
    <2> QED
      BY <2>1, <2>2 DEF Seen
  <1>2. CASE SubmitError
    BY <1>2 DEF SubmitError, Seen
  <1>3. CASE AllSubmitted \/ WaitOver \/ \E t \in Task : GetResult(t)
    <2>1. UNCHANGED << next, done, restarts >> /\ waiting \subseteq waiting' \cup done
      BY <1>3 DEF AllSubmitted, WaitOver, GetResult, broker
    <2>2. producer' \in {"waiting", "finished"} => next = NumTasks + 1
      BY <1>0, <1>3 DEF AllSubmitted, WaitOver, GetResult, Seen
    <2>3. producer' = "finished" => waiting' = {}
      BY <1>3 DEF AllSubmitted, WaitOver, GetResult
    <2> QED
      BY <2>1, <2>2, <2>3 DEF Seen
  <1>4. CASE Restart
    BY <1>0, <1>4 DEF Restart, Seen, prod
  <1>5. CASE ~Producer /\ ~Restart
    <2>1. UNCHANGED << producer, next, waiting >>
      BY <1>5 DEF Next, Broker, Complete, Timeout, FalseTimeout, ReEnqueueStalled, Work,
                  FindCollection, FindError, CreateCollection, Poll, PollLost, Heartbeat, Embed,
                  Upsert, Fail, Report, CompleteReturns, CompleteError, Crash, vars, prod
    <2>2. done \subseteq done' /\ restarts' = restarts
      BY <1>5, CustodyStep DEF Producer
    <2> QED
      BY <2>1, <2>2 DEF Seen
  <1> QED
    BY <1>1, <1>2, <1>3, <1>4, <1>5 DEF Producer

(***************************************************************************)
(* When the producer says that the corpus is indexed, and the broker did   *)
(* not restart meanwhile, every word of every article is in Qdrant or in a *)
(* chunk reported with an error, and no word is in two chunks.             *)
(***************************************************************************)
THEOREM CorpusIsIndexed == Spec => []CorpusIndexed
  <1>1. Init => Seen
    BY TaskIs DEF Init, Seen
  <1>2. CustodyInv /\ IndexInv /\ Seen => CorpusIndexed
    <2> SUFFICES ASSUME CustodyInv, IndexInv, Seen, producer = "finished", restarts = 0
                 PROVE  /\ WordsOf(qdrant \cup errors) = Words
                        /\ \A t, u \in Task : t # u => WordsOf({t}) \cap WordsOf({u}) = {}
      BY DEF CorpusIndexed, Words
    <2>1. \A t \in Task : t < next
      BY TaskIs DEF Seen
    <2>2. Task \subseteq done
      BY <2>1 DEF Seen
    <2>3. qdrant \cup errors = Task
      BY <2>2 DEF IndexInv, SuccessIndexed, TypeOK
    <2> QED
      BY <2>3, ChunksCoverCorpus
  <1> QED
    BY <1>1, <1>2, NextSeen, CustodyInvariant, IndexInvariant, PTL DEF Spec
=============================================================================
