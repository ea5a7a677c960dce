---------------------------- MODULE AnswerProofs ----------------------------
(***************************************************************************)
(* Proofs about AnswerPipeline, for any number of requests, deletions,     *)
(* documents, chunks and models: what is retrieved, in which order models  *)
(* are asked, what of the sources the models see, and how answers are      *)
(* saved with their sources.                                               *)
(***************************************************************************)
EXTENDS AnswerPipeline, FiniteSetTheorems, TLAPS

----------------------------------------------------------------------------
(* Natural numbers and picked elements                                     *)

\* The finite sets below each element are well-founded under inclusion.
LEMMA Smallest ==
    ASSUME NEW T, T \subseteq Nat, T # {}
    PROVE  \E x \in T : \A y \in T : x <= y
  <1> DEFINE Below(x) == T \cap (0 .. x)
             All == {Below(x) : x \in T}
  <1>1. All \subseteq FiniteSubsetsOf(Nat)
    <2>1. ASSUME NEW x \in T PROVE Below(x) \in FiniteSubsetsOf(Nat)
      BY FS_BoundedSetOfNaturals DEF FiniteSubsetsOf
    <2>2. QED
      BY <2>1
  <1>2. PICK U \in All : \A V \in All : ~ (<<V, U>> \in StrictSubsetOrdering(Nat))
    <2>1. All # {}
      OBVIOUS
    <2> HIDE DEF All
    <2>2. QED
      BY <1>1, <2>1, FS_StrictSubsetOrderingWellFounded, WFMin
  <1>3. PICK x \in T : U = Below(x)
    OBVIOUS
  <1>4. ASSUME NEW y \in T, y < x PROVE FALSE
    <2>1. Below(y) \subseteq Below(x) /\ x \in Below(x) /\ x \notin Below(y)
      BY <1>4
    <2>2. <<Below(y), Below(x)>> \in StrictSubsetOrdering(Nat)
      BY <2>1 DEF StrictSubsetOrdering
    <2>3. QED
      BY <1>2, <1>3, <2>2
  <1>5. QED
    BY <1>4

\* Induction, for a set in place of a predicate.
LEMMA Induction ==
    ASSUME NEW T, 0 \in T, \A n \in Nat : n \in T => n + 1 \in T
    PROVE  Nat \subseteq T
  <1> SUFFICES ASSUME Nat \ T # {} PROVE FALSE
    OBVIOUS
  <1>1. PICK x \in Nat \ T : \A y \in Nat \ T : x <= y
    BY Smallest
  <1>2. x - 1 \in Nat /\ x - 1 \notin T /\ x = (x - 1) + 1
    BY <1>1
  <1>3. QED
    BY <1>1, <1>2

\* How many of the indices in I come up to i.
Rank(I, i) == Cardinality({j \in I : j <= i})

\* Picked takes every index of I, once and in order.
LEMMA PickedIs ==
    ASSUME NEW s, NEW I \in SUBSET Nat, IsFiniteSet(I)
    PROVE  /\ Cardinality(I) \in Nat
           /\ \E at \in [1 .. Cardinality(I) -> I] :
                 /\ Picked(s, I) = [n \in 1 .. Cardinality(I) |-> s[at[n]]]
                 /\ \A i \in I : \E n \in 1 .. Cardinality(I) : at[n] = i
                 /\ \A m, n \in 1 .. Cardinality(I) : m < n => at[m] < at[n]
                 /\ \A n \in 1 .. Cardinality(I) : Rank(I, at[n]) = n
  <1> DEFINE Below(i) == {j \in I : j <= i}
             rank == [i \in I |-> Cardinality(Below(i))]
             size == Cardinality(I)
  <1>1. size \in Nat
    BY FS_CardinalityType
  <1>2. \A i \in I : /\ IsFiniteSet(Below(i)) /\ Cardinality(Below(i)) \in 1 .. size
    <2> SUFFICES ASSUME NEW i \in I
                 PROVE  IsFiniteSet(Below(i)) /\ Cardinality(Below(i)) \in 1 .. size
      OBVIOUS
    <2>1. Below(i) \in SUBSET I /\ i \in Below(i)
      OBVIOUS
    <2>2. IsFiniteSet(Below(i)) /\ Cardinality(Below(i)) <= size
      BY <2>1, FS_Subset
    <2>3. Cardinality(Below(i)) \in Nat /\ Cardinality(Below(i)) # 0
      BY <2>1, <2>2, FS_CardinalityType, FS_EmptySet
    <2>4. QED
      BY <1>1, <2>2, <2>3
  <1>3. \A i, j \in I : i < j => rank[i] < rank[j]
    <2> SUFFICES ASSUME NEW i \in I, NEW j \in I, i < j PROVE rank[i] < rank[j]
      OBVIOUS
    <2>1. Below(i) \in SUBSET Below(j) /\ Below(i) # Below(j)
      <3>1. j \in Below(j) /\ j \notin Below(i) /\ \A k \in Below(i) : k \in Below(j)
        OBVIOUS
      <3>2. QED
        BY <3>1
    <2>2. Cardinality(Below(i)) <= Cardinality(Below(j))
          /\ Cardinality(Below(i)) # Cardinality(Below(j))
      BY <1>2, <2>1, FS_Subset
    <2>3. QED
      BY <1>1, <1>2, <2>2
  <1>10. rank \in [I -> 1 .. size]
    BY <1>2
  <1>4. \A i, j \in I : rank[i] = rank[j] => i = j
    <2> HIDE DEF rank
    <2>1. QED
      BY <1>1, <1>3, <1>10
  <1>5. rank \in Surjection(I, 1 .. size)
    <2>1. rank \in Injection(I, 1 .. size)
      BY <1>4, <1>10 DEF Injection, IsInjective
    <2>2. QED
      BY <1>1, <2>1, FS_Interval, FS_Injection
  <1>6. \A n \in 1 .. size : \E i \in I : rank[i] = n
    BY <1>5 DEF Surjection
  <1> DEFINE at == [n \in 1 .. size |-> CHOOSE i \in I : Cardinality(Below(i)) = n]
  <1>7. \A n \in 1 .. size : at[n] \in I /\ rank[at[n]] = n
    BY <1>6
  <1>8. at \in [1 .. size -> I]
    BY <1>7
  <1>9. Picked(s, I) = [n \in 1 .. size |-> s[at[n]]]
    BY DEF Picked
  <1>14. \A n \in 1 .. size : Rank(I, at[n]) = n
    <2> HIDE DEF at
    <2>1. \A i \in I : rank[i] = Rank(I, i)
      BY DEF Rank
    <2>2. QED
      BY <1>7, <2>1
  <1> HIDE DEF at, rank, size
  <1>11. \A i \in I : \E n \in 1 .. size : at[n] = i
    <2> SUFFICES ASSUME NEW i \in I PROVE at[rank[i]] = i
      BY <1>10
    <2>1. rank[i] \in 1 .. size
      BY <1>10
    <2>2. at[rank[i]] \in I /\ rank[at[rank[i]]] = rank[i]
      BY <1>7, <2>1
    <2>3. QED
      BY <1>4, <2>2
  <1>12. \A m, n \in 1 .. size : m < n => at[m] < at[n]
    <2> SUFFICES ASSUME NEW m \in 1 .. size, NEW n \in 1 .. size, m < n PROVE at[m] < at[n]
      OBVIOUS
    <2>1. at[m] \in I /\ at[n] \in I /\ rank[at[m]] = m /\ rank[at[n]] = n
      BY <1>7
    <2>2. at[m] \in Nat /\ at[n] \in Nat
      BY <2>1
    <2>3. ~ (at[n] < at[m])
      <3>1. at[n] < at[m] => rank[at[n]] < rank[at[m]]
        BY <1>3, <2>1
      <3>2. QED
        BY <2>1, <3>1
    <2>4. QED
      BY <2>1, <2>2, <2>3
  <1>13. QED
    BY <1>1, <1>8, <1>9, <1>11, <1>12, <1>14 DEF size

\* Firsts keeps the first of all elements with the same key, in their order, and
\* nothing else.
LEMMA FirstsAre ==
    ASSUME NEW S, NEW s \in Seq(S), NEW key
    PROVE  /\ Firsts(s, key) \in Seq(S) /\ Len(Firsts(s, key)) <= Len(s)
           /\ \A m, n \in DOMAIN Firsts(s, key) :
                 m # n => key[Firsts(s, key)[m]] # key[Firsts(s, key)[n]]
           /\ \A i \in DOMAIN s : \E n \in DOMAIN Firsts(s, key) :
                 key[Firsts(s, key)[n]] = key[s[i]]
           /\ s # <<>> => Firsts(s, key) # <<>> /\ Firsts(s, key)[1] = s[1]
           /\ \A m, n \in DOMAIN Firsts(s, key) : m < n =>
                 \E i, j \in DOMAIN s :
                    i < j /\ Firsts(s, key)[m] = s[i] /\ Firsts(s, key)[n] = s[j]
  <1> DEFINE I == {i \in DOMAIN s : \A j \in 1 .. i - 1 : key[s[j]] # key[s[i]]}
             F == Firsts(s, key)
             size == Cardinality(I)
  <1>1. DOMAIN s = 1 .. Len(s) /\ Len(s) \in Nat
    OBVIOUS
  <1>2. I \in SUBSET Nat /\ I \in SUBSET (1 .. Len(s))
    BY <1>1
  <1>3. IsFiniteSet(I) /\ size <= Len(s)
    <2> HIDE DEF I
    <2>1. IsFiniteSet(1 .. Len(s)) /\ Cardinality(1 .. Len(s)) = Len(s)
      BY <1>1, FS_Interval
    <2>2. QED
      BY <1>2, <2>1, FS_Subset
  <1>4. F = Picked(s, I)
    BY DEF Firsts
  <1>5. size \in Nat
    BY <1>3, FS_CardinalityType
  <1>6. PICK at \in [1 .. size -> I] :
           /\ F = [n \in 1 .. size |-> s[at[n]]]
           /\ \A i \in I : \E n \in 1 .. size : at[n] = i
           /\ \A m, n \in 1 .. size : m < n => at[m] < at[n]
    <2> HIDE DEF I, F
    <2>1. QED
      BY <1>2, <1>3, <1>4, PickedIs DEF size
  <1>7. \A i \in I : i \in 1 .. Len(s) /\ \A j \in 1 .. i - 1 : key[s[j]] # key[s[i]]
    BY <1>1
  <1>8. \A i \in 1 .. Len(s) : \E j \in I : key[s[j]] = key[s[i]]
    <2> SUFFICES ASSUME NEW i \in 1 .. Len(s) PROVE \E j \in I : key[s[j]] = key[s[i]]
      OBVIOUS
    <2> DEFINE Same == {j \in 1 .. Len(s) : key[s[j]] = key[s[i]]}
    <2>1. PICK j \in Same : \A k \in Same : j <= k
      <3>1. Same \subseteq Nat /\ i \in Same
        BY <1>1
      <3> HIDE DEF Same
      <3>2. QED
        BY <3>1, Smallest
    <2>2. \A k \in 1 .. j - 1 : key[s[k]] # key[s[j]]
      BY <1>1, <2>1
    <2>3. QED
      BY <1>1, <2>1, <2>2
  <1>9. s # <<>> => 1 \in I
    BY <1>1
  <1> HIDE DEF I, F, size
  <1>10. \A n \in 1 .. size : at[n] \in I /\ at[n] \in 1 .. Len(s)
    BY <1>6, <1>7
  <1>11. F \in Seq(S) /\ Len(F) = size /\ DOMAIN F = 1 .. size
    <2>1. \A n \in 1 .. size : s[at[n]] \in S
      BY <1>1, <1>10
    <2>2. F \in [1 .. size -> S]
      BY <1>6, <2>1
    <2>3. QED
      BY <1>5, <2>2
  <1>12. ASSUME NEW m \in 1 .. size, NEW n \in 1 .. size, m < n
         PROVE  key[F[m]] # key[F[n]]
    <2>1. at[m] < at[n] /\ at[m] \in 1 .. Len(s) /\ at[n] \in I
      BY <1>6, <1>10, <1>12
    <2>2. at[m] \in 1 .. at[n] - 1
      BY <1>1, <1>7, <2>1
    <2>3. QED
      BY <1>6, <1>7, <2>1, <2>2
  <1>13. \A m, n \in DOMAIN F : m # n => key[F[m]] # key[F[n]]
    <2> SUFFICES ASSUME NEW m \in 1 .. size, NEW n \in 1 .. size, m # n
                 PROVE  key[F[m]] # key[F[n]]
      BY <1>11
    <2>1. m < n \/ n < m
      BY <1>5
    <2>2. QED
      BY <1>12, <2>1
  <1>14. \A i \in DOMAIN s : \E n \in DOMAIN F : key[F[n]] = key[s[i]]
    <2> SUFFICES ASSUME NEW i \in 1 .. Len(s)
                 PROVE  \E n \in 1 .. size : key[F[n]] = key[s[i]]
      BY <1>1, <1>11
    <2>1. PICK j \in I : key[s[j]] = key[s[i]]
      BY <1>8
    <2>2. PICK n \in 1 .. size : at[n] = j
      BY <1>6
    <2>3. QED
      BY <1>6, <2>1, <2>2
  <1>15. ASSUME s # <<>> PROVE F # <<>> /\ F[1] = s[1]
    <2>1. PICK n \in 1 .. size : at[n] = 1
      BY <1>6, <1>9, <1>15
    <2>2. n = 1
      <3>1. 1 < n => 1 \in 1 .. size /\ at[1] < at[n]
        BY <1>5, <1>6
      <3>2. 1 < n => at[1] \in 1 .. Len(s)
        BY <1>5, <1>10
      <3>3. QED
        BY <1>1, <2>1, <3>1, <3>2
    <2>3. QED
      BY <1>5, <1>6, <1>11, <2>1, <2>2
  <1>16. \A m, n \in DOMAIN F : m < n =>
             \E i, j \in DOMAIN s : i < j /\ F[m] = s[i] /\ F[n] = s[j]
    BY <1>1, <1>6, <1>10, <1>11
  <1>17. QED
    BY <1>3, <1>11, <1>13, <1>14, <1>15, <1>16 DEF F

----------------------------------------------------------------------------
(* Retrieval                                                               *)

\* Which chunks of a ranking are near enough.
Near(c, offered) == {i \in DOMAIN Ranking[c] : Ranking[c][i] \in offered}

\* The first of them, as many as the LIMIT lets through, in their order.
LEMMA LimitIs ==
    ASSUME NEW c \in Chats, NEW offered
    PROVE  LET list == Limit(Picked(Ranking[c], Near(c, offered))) IN
           /\ list \in Seq(Chunks \cap offered) /\ Len(list) <= TopK
           /\ \A m, n \in DOMAIN list : m < n =>
                 \E i, j \in Near(c, offered) :
                    i < j /\ list[m] = Ranking[c][i] /\ list[n] = Ranking[c][j]
           /\ \A i \in Near(c, offered) :
                 \/ \E n \in DOMAIN list : list[n] = Ranking[c][i]
                 \/ Cardinality({j \in Near(c, offered) : j < i}) >= TopK
  <1> DEFINE ranking == Ranking[c]
             I == Near(c, offered)
             near == Picked(ranking, I)
             list == Limit(near)
  <1>1. ranking \in Seq(Chunks) /\ TopK \in Nat \ {0}
    BY AnswerAssumption DEF AnswerAssumption, Chunks
  <1>2. I \in SUBSET Nat /\ I \in SUBSET (1 .. Len(ranking)) /\ Len(ranking) \in Nat
    BY <1>1 DEF Near
  <1>3. \A i \in I : ranking[i] \in Chunks \cap offered
    BY <1>1 DEF Near
  <1> HIDE DEF I, ranking
  <1>4. IsFiniteSet(I)
    <2>1. IsFiniteSet(1 .. Len(ranking))
      BY <1>2, FS_Interval
    <2>2. QED
      BY <1>2, <2>1, FS_Subset
  <1>5. PICK at \in [1 .. Cardinality(I) -> I] :
            /\ near = [n \in 1 .. Cardinality(I) |-> ranking[at[n]]]
            /\ \A i \in I : \E n \in 1 .. Cardinality(I) : at[n] = i
            /\ \A m, n \in 1 .. Cardinality(I) : m < n => at[m] < at[n]
            /\ \A n \in 1 .. Cardinality(I) : Rank(I, at[n]) = n
    <2>1. near = Picked(ranking, I)
      OBVIOUS
    <2> HIDE DEF near
    <2>2. QED
      BY <1>2, <1>4, <2>1, PickedIs
  <1> DEFINE size == Cardinality(I)
  <1>6. size \in Nat
    BY <1>4, FS_CardinalityType
  <1>13. /\ at \in [1 .. size -> I]
         /\ near = [n \in 1 .. size |-> ranking[at[n]]]
         /\ \A i \in I : \E n \in 1 .. size : at[n] = i
         /\ \A m, n \in 1 .. size : m < n => at[m] < at[n]
         /\ \A n \in 1 .. size : Rank(I, at[n]) = n
    BY <1>5
  <1> HIDE DEF size, near
  <1>7. near \in Seq(Chunks \cap offered) /\ Len(near) = size
    <2>1. near \in [1 .. size -> Chunks \cap offered]
      BY <1>3, <1>13
    <2>2. QED
      BY <1>6, <2>1
  <1> DEFINE length == Len(list)
  <1>8. /\ list \in Seq(Chunks \cap offered) /\ length <= TopK /\ length <= size
        /\ length = size \/ length = TopK
        /\ DOMAIN list = 1 .. length /\ length \in Nat
        /\ \A n \in 1 .. length : list[n] = near[n]
    BY <1>1, <1>6, <1>7 DEF Limit
  <1> HIDE DEF list, length
  <1>9. ASSUME NEW n \in 1 .. length
        PROVE  n \in 1 .. size /\ at[n] \in I /\ list[n] = ranking[at[n]]
    <2>1. n \in 1 .. size
      BY <1>6, <1>8
    <2>2. QED
      BY <1>8, <1>13, <2>1
  <1>10. ASSUME NEW m \in DOMAIN list, NEW n \in DOMAIN list, m < n
         PROVE  \E i, j \in I : i < j /\ list[m] = ranking[i] /\ list[n] = ranking[j]
    <2>1. m \in 1 .. length /\ n \in 1 .. length
      BY <1>8
    <2>2. m \in 1 .. size /\ n \in 1 .. size /\ at[m] \in I /\ at[n] \in I
      BY <1>9, <2>1
    <2>3. at[m] < at[n] /\ list[m] = ranking[at[m]] /\ list[n] = ranking[at[n]]
      BY <1>9, <1>10, <1>13, <2>1, <2>2
    <2>4. QED
      BY <2>2, <2>3
  <1>11. ASSUME NEW i \in I
         PROVE  \/ \E n \in DOMAIN list : list[n] = ranking[i]
                \/ Cardinality({j \in I : j < i}) >= TopK
    <2>1. PICK n \in 1 .. size : at[n] = i
      BY <1>13
    <2>2. CASE n \in 1 .. length
      BY <1>8, <1>9, <2>1, <2>2
    <2>3. CASE n \notin 1 .. length
      <3>1. n \in Nat /\ n - 1 >= TopK
        BY <1>1, <1>6, <1>8, <2>3
      <3>2. Rank(I, i) = n /\ i \in Nat
        BY <1>2, <1>13, <2>1
      <3> DEFINE upto == {j \in I : j <= i}
                 below == {j \in I : j < i}
      <3>3. below = upto \ {i}
        <4>1. \A j \in I : j < i <=> j <= i /\ j # i
          BY <1>2, <3>2
        <4>2. QED
          BY <4>1
      <3>4. i \in upto /\ upto \in SUBSET I
        BY <3>2
      <3>5. Cardinality(upto) = n
        BY <3>2 DEF Rank
      <3> HIDE DEF upto, below
      <3>6. IsFiniteSet(upto)
        BY <1>4, <3>4, FS_Subset
      <3>7. Cardinality(upto \ {i}) = n - 1
        BY <3>4, <3>5, <3>6, FS_RemoveElement
      <3>8. Cardinality(below) >= TopK
        BY <3>1, <3>3, <3>7
      <3>9. QED
        BY <3>8 DEF below
    <2>4. QED
      BY <2>2, <2>3
  <1>12. QED
    BY <1>8, <1>10, <1>11 DEF length, list, near, ranking, I

\* retrieve_context (rag_service.py), from the chunks its search offers, which is
\* approximate and filtered and may miss any: what a question is given are chunks that
\* were offered, TopK at most, in the order of their distance, no two with the same
\* beginning; and of those offered none is left out but for one with the same
\* beginning or for TopK that are nearer.
THEOREM RetrievalIsRight ==
    ASSUME NEW c \in Chats, NEW offered
    PROVE  LET found == Retrieved(c, offered) IN
           /\ found \in Seq(Chunks \cap offered) /\ Len(found) <= TopK
           /\ \A m, n \in DOMAIN found : m # n => Preview[found[m]] # Preview[found[n]]
           /\ \A m, n \in DOMAIN found : m < n =>
                 \E i, j \in Near(c, offered) :
                    i < j /\ found[m] = Ranking[c][i] /\ found[n] = Ranking[c][j]
           /\ \A i \in Near(c, offered) :
                 \/ \E n \in DOMAIN found : Preview[found[n]] = Preview[Ranking[c][i]]
                 \/ Cardinality({j \in Near(c, offered) : j < i}) >= TopK
  <1> DEFINE list == Limit(Picked(Ranking[c], Near(c, offered)))
             found == Retrieved(c, offered)
             full(i) == Cardinality({j \in Near(c, offered) : j < i}) >= TopK
  <1>1. TopK \in Nat
    BY AnswerAssumption DEF AnswerAssumption
  <1>2. /\ list \in Seq(Chunks \cap offered) /\ Len(list) <= TopK
        /\ \A m, n \in DOMAIN list : m < n =>
              \E i, j \in Near(c, offered) :
                 i < j /\ list[m] = Ranking[c][i] /\ list[n] = Ranking[c][j]
        /\ \A i \in Near(c, offered) :
              (\E n \in DOMAIN list : list[n] = Ranking[c][i]) \/ full(i)
    BY LimitIs
  <1>3. found = Firsts(list, Preview)
    BY DEF Retrieved, Near
  <1> HIDE DEF list, found, full
  <1>4. /\ found \in Seq(Chunks \cap offered) /\ Len(found) <= Len(list)
        /\ \A m, n \in DOMAIN found : m # n => Preview[found[m]] # Preview[found[n]]
        /\ \A i \in DOMAIN list : \E n \in DOMAIN found :
              Preview[found[n]] = Preview[list[i]]
        /\ \A m, n \in DOMAIN found : m < n =>
              \E i, j \in DOMAIN list : i < j /\ found[m] = list[i] /\ found[n] = list[j]
    BY <1>2, <1>3, FirstsAre
  <1>5. Len(found) <= TopK
    BY <1>1, <1>2, <1>4
  <1>6. ASSUME NEW m \in DOMAIN found, NEW n \in DOMAIN found, m < n
        PROVE  \E i, j \in Near(c, offered) :
                  i < j /\ found[m] = Ranking[c][i] /\ found[n] = Ranking[c][j]
    <2>1. PICK i, j \in DOMAIN list : i < j /\ found[m] = list[i] /\ found[n] = list[j]
      BY <1>4, <1>6
    <2>2. QED
      BY <1>2, <2>1
  <1>7. ASSUME NEW i \in Near(c, offered)
        PROVE  (\E n \in DOMAIN found : Preview[found[n]] = Preview[Ranking[c][i]]) \/ full(i)
    <2>1. CASE full(i)
      BY <2>1
    <2>2. ASSUME NEW k \in DOMAIN list, list[k] = Ranking[c][i]
          PROVE  \E n \in DOMAIN found : Preview[found[n]] = Preview[Ranking[c][i]]
      BY <1>4, <2>2
    <2>3. QED
      BY <1>2, <2>1, <2>2
  <1>8. QED
    BY <1>4, <1>5, <1>6, <1>7 DEF found, full

----------------------------------------------------------------------------
(* The models                                                              *)

\* models_to_try (rag_service.py, call_openrouter): the model asked first is the one the
\* client named, if it is known, else the primary one; after it come the
\* fallbacks, all of them, and none is asked twice.
THEOREM ModelsAre ==
    ASSUME NEW m
    PROVE  LET models == ModelsToTry(m) IN
           /\ models \in Seq(Known) /\ Len(models) > 0 /\ IsInjective(models)
           /\ models[1] = UsedModel(m)
           /\ ToSet(models) = {UsedModel(m)} \cup ToSet(Fallbacks)
  <1> DEFINE listed == <<UsedModel(m)>> \o Fallbacks
             names == {UsedModel(m)} \cup ToSet(Fallbacks)
             key == [n \in Known \cup Requested |-> n]
             models == ModelsToTry(m)
  <1>1. Fallbacks \in Seq(ToSet(Fallbacks)) /\ Fallbacks \in Seq(STRING)
    <2>1. Fallbacks \in Seq(STRING)
      BY AnswerAssumption DEF AnswerAssumption
    <2>2. QED
      BY <2>1 DEF ToSet
  <1>2. names \subseteq Known
    BY DEF UsedModel, Known
  <1>3. /\ listed \in Seq(names) /\ listed # <<>> /\ listed[1] = UsedModel(m)
        /\ ToSet(listed) = names
    <2> DEFINE u == UsedModel(m)
               fallbacks == ToSet(Fallbacks)
    <2>1. Fallbacks \in Seq(fallbacks) /\ <<u>> \in Seq({u})
      BY <1>1
    <2>2. /\ listed \in Seq(names) /\ Len(listed) = 1 + Len(Fallbacks) /\ listed[1] = u
          /\ \A i \in 1 .. Len(Fallbacks) : listed[i + 1] = Fallbacks[i]
      BY <2>1
    <2>3. fallbacks = {Fallbacks[i] : i \in 1 .. Len(Fallbacks)} /\ Len(Fallbacks) \in Nat
      BY <2>1 DEF ToSet
    <2>4. ToSet(listed) = {listed[i] : i \in 1 .. Len(listed)}
      BY <2>2 DEF ToSet
    <2> HIDE DEF u, fallbacks, listed
    <2>5. ASSUME NEW x \in fallbacks PROVE x \in ToSet(listed)
      <3>1. PICK i \in 1 .. Len(Fallbacks) : x = Fallbacks[i]
        BY <2>3
      <3>2. i + 1 \in 1 .. Len(listed)
        BY <2>2, <2>3
      <3>3. QED
        BY <2>2, <2>4, <3>1, <3>2
    <2>6. 1 \in 1 .. Len(listed)
      BY <2>2, <2>3
    <2>7. u \in ToSet(listed)
      BY <2>2, <2>4, <2>6
    <2>8. ToSet(listed) \subseteq names
      BY <2>2, <2>4
    <2>9. QED
      BY <2>2, <2>3, <2>5, <2>7, <2>8 DEF u, fallbacks
  <1>4. models = Firsts(listed, key)
    BY DEF ModelsToTry
  <1>5. \A n \in names : key[n] = n
    BY <1>2
  <1> HIDE DEF listed, key, names, models
  <1>6. /\ models \in Seq(names)
        /\ \A i, j \in DOMAIN models : i # j => key[models[i]] # key[models[j]]
        /\ \A i \in DOMAIN listed : \E n \in DOMAIN models : key[models[n]] = key[listed[i]]
        /\ models # <<>> /\ models[1] = listed[1]
    <2>1. /\ models \in Seq(names)
          /\ \A i, j \in DOMAIN models : i # j => key[models[i]] # key[models[j]]
      BY <1>3, <1>4, FirstsAre
    <2>2. \A i \in DOMAIN listed : \E n \in DOMAIN models :
              key[models[n]] = key[listed[i]]
      BY <1>3, <1>4, FirstsAre
    <2>3. models # <<>> /\ models[1] = listed[1]
      BY <1>3, <1>4, FirstsAre
    <2>4. QED
      BY <2>1, <2>2, <2>3
  <1>7. \A i \in DOMAIN models : models[i] \in names
    BY <1>6
  <1>8. IsInjective(models)
    BY <1>5, <1>6, <1>7 DEF IsInjective
  <1>9. ToSet(models) = names
    <2>1. ToSet(models) \subseteq names
      BY <1>7 DEF ToSet
    <2>2. ASSUME NEW x \in names PROVE x \in ToSet(models)
      <3>1. PICK i \in DOMAIN listed : listed[i] = x
        BY <1>3 DEF ToSet
      <3>2. PICK n \in DOMAIN models : key[models[n]] = key[x]
        BY <1>6, <3>1
      <3>3. models[n] = x
        BY <1>5, <1>7, <3>2
      <3>4. QED
        BY <3>2, <3>3 DEF ToSet
    <2>3. QED
      BY <2>1, <2>2
  <1>10. models \in Seq(Known)
    BY <1>2, <1>6
  <1>11. Len(models) > 0
    BY <1>6
  <1>12. QED
    BY <1>3, <1>6, <1>8, <1>9, <1>10, <1>11 DEF models, names

----------------------------------------------------------------------------
(* The prompt                                                              *)

\* Before adds up the entries that come first: there is such a function.
LEMMA BeforeIs ==
    ASSUME NEW s \in Seq(Chunks)
    PROVE  /\ Before(s, 1) = 0
           /\ \A i \in DOMAIN s : /\ Before(s, i) \in Nat
                                  /\ Before(s, i + 1) = Before(s, i) + Length[s[i]]
  <1> DEFINE L == Len(s)
             Sums(n) == {f \in [0 .. n -> Nat] :
                 f = [k \in 0 .. n |-> IF k = 0 THEN 0 ELSE f[k - 1] + Length[s[k]]]}
             T == {n \in Nat : n <= L => Sums(n) # {}}
  <1>1. L \in Nat /\ DOMAIN s = 1 .. L /\ \A i \in 1 .. L : Length[s[i]] \in Nat
    BY AnswerAssumption DEF AnswerAssumption, Chunks
  <1> HIDE DEF L
  <1>2. 0 \in T
    <2> DEFINE f == [k \in 0 .. 0 |-> 0]
    <2>1. f \in [0 .. 0 -> Nat]
      OBVIOUS
    <2>2. f = [k \in 0 .. 0 |-> IF k = 0 THEN 0 ELSE f[k - 1] + Length[s[k]]]
      OBVIOUS
    <2>3. f \in Sums(0)
      BY <2>1, <2>2
    <2>4. QED
      BY <2>3
  <1>3. ASSUME NEW n \in Nat, n \in T PROVE n + 1 \in T
    <2> SUFFICES ASSUME n + 1 <= L PROVE Sums(n + 1) # {}
      OBVIOUS
    <2>1. PICK f \in [0 .. n -> Nat] :
              f = [k \in 0 .. n |-> IF k = 0 THEN 0 ELSE f[k - 1] + Length[s[k]]]
      BY <1>1, <1>3
    <2> DEFINE g == [k \in 0 .. n + 1 |-> IF k = n + 1 THEN f[n] + Length[s[n + 1]] ELSE f[k]]
    <2>2. f[n] \in Nat /\ Length[s[n + 1]] \in Nat
      BY <1>1
    <2>3. g \in [0 .. n + 1 -> Nat]
      BY <2>2
    <2>4. ASSUME NEW k \in 0 .. n + 1
          PROVE  g[k] = IF k = 0 THEN 0 ELSE g[k - 1] + Length[s[k]]
      <3>1. CASE k = n + 1
        BY <3>1
      <3>2. CASE k # n + 1
        <4>1. k \in 0 .. n /\ g[k] = f[k] /\ (k # 0 => k - 1 \in 0 .. n /\ g[k - 1] = f[k - 1])
          BY <3>2
        <4>2. f[k] = IF k = 0 THEN 0 ELSE f[k - 1] + Length[s[k]]
          BY <2>1, <4>1
        <4>3. QED
          BY <4>1, <4>2
      <3>3. QED
        BY <3>1, <3>2
    <2> HIDE DEF g
    <2>5. g = [k \in 0 .. n + 1 |-> IF k = 0 THEN 0 ELSE g[k - 1] + Length[s[k]]]
      BY <2>3, <2>4
    <2>6. QED
      BY <2>3, <2>5
  <1>4. Sums(L) # {}
    <2>1. Nat \subseteq T
      <3> HIDE DEF T
      <3>1. QED
        BY <1>2, <1>3, Induction
    <2> HIDE DEF Sums
    <2>2. QED
      BY <1>1, <2>1
  <1> DEFINE sum == CHOOSE f : f = [k \in 0 .. L |-> IF k = 0 THEN 0 ELSE f[k - 1] + Length[s[k]]]
  <1>5. sum = [k \in 0 .. L |-> IF k = 0 THEN 0 ELSE sum[k - 1] + Length[s[k]]]
    <2>1. PICK f \in [0 .. L -> Nat] :
              f = [k \in 0 .. L |-> IF k = 0 THEN 0 ELSE f[k - 1] + Length[s[k]]]
      BY <1>4
    <2>2. QED
      BY <2>1
  <1>6. \A i : Before(s, i) = sum[i - 1]
    BY DEF Before, L
  <1> HIDE DEF sum
  <1>7. \A n \in Nat : n <= L => sum[n] \in Nat
    <2> DEFINE U == {n \in Nat : n <= L => sum[n] \in Nat}
    <2>1. 0 \in U
      BY <1>1, <1>5
    <2>2. ASSUME NEW n \in Nat, n \in U PROVE n + 1 \in U
      <3>1. n + 1 <= L => sum[n + 1] = sum[n] + Length[s[n + 1]]
        BY <1>1, <1>5
      <3>2. QED
        BY <1>1, <2>2, <3>1
    <2> HIDE DEF U
    <2>3. Nat \subseteq U
      BY <2>1, <2>2, Induction
    <2>4. QED
      BY <2>3 DEF U
  <1>8. Before(s, 1) = 0
    <2>1. sum[0] = 0
      BY <1>1, <1>5
    <2>2. Before(s, 1) = sum[1 - 1] /\ 1 - 1 = 0
      BY <1>6
    <2>3. QED
      BY <2>1, <2>2
  <1>9. ASSUME NEW i \in 1 .. L
        PROVE  Before(s, i) \in Nat /\ Before(s, i + 1) = Before(s, i) + Length[s[i]]
    <2>1. Before(s, i) = sum[i - 1] /\ Before(s, i + 1) = sum[i]
      BY <1>1, <1>6
    <2>2. i - 1 \in Nat /\ i - 1 <= L /\ i \in 0 .. L /\ i # 0
      BY <1>1
    <2>3. QED
      BY <1>5, <1>7, <2>1, <2>2
  <1>10. QED
    BY <1>1, <1>8, <1>9

LEMMA Cancels ==
    ASSUME NEW k \in Nat \ {0}, NEW x \in Int, NEW y \in Int, k * x <= k * y
    PROVE  x <= y
  <1> SUFFICES ASSUME x > y PROVE FALSE
    OBVIOUS
  <1> DEFINE d == x - y
  <1>1. d \in Nat \ {0} /\ x = y + d
    OBVIOUS
  <1> HIDE DEF d
  <1>2. k * x = k * y + k * d
    BY <1>1
  <1>3. k * d > 0
    BY <1>1
  <1>4. QED
    BY <1>2, <1>3, <1>1

\* Of so few entries all are shown, at least in part.
LEMMA ShownIs ==
    ASSUME NEW s \in Seq(Chunks), Len(s) <= TopK
    PROVE  ToSet(s) \subseteq Shown(s)
  <1> DEFINE L == Len(s)
             K == TopK - 1
             room == MaxContextChars - 101
             T == {n \in Nat : n < L => K * Before(s, n + 1) <= n * room}
  <1>1. /\ L \in Nat /\ DOMAIN s = 1 .. L
        /\ \A i \in 1 .. L : s[i] \in Chunks /\ Length[s[i]] \in Nat
        /\ K \in Nat /\ L <= K + 1 /\ room \in Int
    BY AnswerAssumption DEF AnswerAssumption, Chunks
  <1>2. \A i \in 1 .. L : K * Length[s[i]] <= room
    <2> SUFFICES ASSUME NEW i \in 1 .. L PROVE K * Length[s[i]] <= room
      OBVIOUS
    <2>1. (TopK - 1) * Length[s[i]] + 100 < MaxContextChars
      BY <1>1, EntriesFit DEF Chunks
    <2>2. K * Length[s[i]] \in Int /\ K * Length[s[i]] + 100 < MaxContextChars
      BY <1>1, <2>1
    <2> HIDE DEF K
    <2>3. QED
      BY <2>2, AnswerAssumption DEF AnswerAssumption
  <1>3. \A i \in 1 .. L : /\ Before(s, i) \in Nat
                          /\ Before(s, i + 1) = Before(s, i) + Length[s[i]]
    BY <1>1, BeforeIs
  <1>4. Before(s, 1) = 0
    BY BeforeIs
  <1> HIDE DEF L, K, room
  <1>5. 0 \in T
    BY <1>1, <1>4
  <1>6. ASSUME NEW n \in Nat, n \in T PROVE n + 1 \in T
    <2> SUFFICES ASSUME n + 1 < L PROVE K * Before(s, n + 2) <= (n + 1) * room
      OBVIOUS
    <2> DEFINE b == Before(s, n + 1)
               l == Length[s[n + 1]]
    <2>1. n + 1 \in 1 .. L /\ n + 1 + 1 = n + 2
      BY <1>1
    <2>2. b \in Nat /\ l \in Nat /\ Before(s, n + 2) = b + l
      BY <1>1, <1>3, <2>1
    <2>3. K * b <= n * room /\ K * l <= room
      BY <1>1, <1>2, <1>6, <2>1
    <2> HIDE DEF b, l
    <2>4. K * (b + l) = K * b + K * l /\ (n + 1) * room = n * room + room
      BY <1>1, <2>2
    <2>5. K * b \in Int /\ K * l \in Int /\ n * room \in Int
      BY <1>1, <2>2
    <2>6. QED
      BY <1>1, <2>2, <2>3, <2>4, <2>5
  <1>7. Nat \subseteq T
    <2> HIDE DEF T
    <2>1. QED
      BY <1>5, <1>6, Induction
  <1>8. ASSUME NEW i \in 1 .. L PROVE Before(s, i) <= room
    <2> DEFINE b == Before(s, i)
    <2>1. b \in Nat /\ i - 1 \in Nat /\ i - 1 + 1 = i /\ i - 1 <= K
      BY <1>1, <1>3
    <2>2. K * b <= (i - 1) * room
      <3>1. i - 1 \in T
        BY <1>7, <2>1
      <3>2. i - 1 < L
        BY <1>1
      <3>3. K * Before(s, i - 1 + 1) <= (i - 1) * room
        BY <3>1, <3>2
      <3>4. QED
        BY <2>1, <3>3
    <2>3. room >= 0
      <3>1. K * Length[s[i]] >= 0
        BY <1>1
      <3>2. K * Length[s[i]] <= room /\ K * Length[s[i]] \in Int
        BY <1>1, <1>2
      <3>3. QED
        BY <1>1, <3>1, <3>2
    <2>4. CASE K = 0
      BY <1>4, <2>1, <2>3, <2>4
    <2>5. CASE K > 0
      <3>1. (i - 1) * room <= K * room
        BY <1>1, <2>1, <2>3
      <3> HIDE DEF b
      <3>2. K * b <= K * room
        <4>1. K * b \in Int /\ K * room \in Int /\ (i - 1) * room \in Int
          BY <1>1, <2>1
        <4>2. QED
          BY <2>2, <3>1, <4>1
      <3>3. b \in Int /\ K \in Nat \ {0} /\ room \in Int
        BY <1>1, <2>1, <2>5
      <3>4. b <= room
        BY <3>2, <3>3, Cancels
      <3>5. QED
        BY <3>4 DEF b
    <2>6. QED
      BY <1>1, <2>4, <2>5
  <1>9. ASSUME NEW i \in 1 .. L PROVE Before(s, i) + 100 < MaxContextChars
    BY <1>3, <1>8, AnswerAssumption DEF AnswerAssumption, room
  <1>10. QED
    BY <1>1, <1>9 DEF Shown, ToSet

----------------------------------------------------------------------------
(* The sources                                                             *)

Fates == {"none", "kept", "removed"}

\* SavedAsAWhole for one request, and what it takes: nothing is saved before the
\* first commit, and something was after it.
ChatInv(e) ==
    /\ row[e] \in [Roles -> Fates]
    /\ row[e].answer = "kept" =>
          {DocOf[k] : k \in ToSet(chunks[e])} \cap docs = {s.doc : s \in OfChat(e)}
    /\ row[e].answer # "kept" => OfChat(e) = {}
    /\ row[e].question = "none" <=> row[e].answer = "none"
    /\ pc[e] \notin {"saved", "answered", "failed"} => row[e].answer = "none"
    /\ pc[e] \in {"saved", "answered"} => row[e].answer # "none"
    /\ pc[e] = "failed" => Excused(e)

\* What a deletion has loaded are sources of its document.
SeenOK ==
    /\ docs \subseteq Docs /\ DOMAIN removal = Deletions
    /\ \A x \in Deletions : \A s \in removal[x].seen :
          removal[x].doc \in docs => s.doc = removal[x].doc

SourceInv ==
    /\ DOMAIN pc = Chats /\ DOMAIN chunks = Chats /\ DOMAIN row = Chats
    /\ SeenOK
    /\ SourcesHaveDocuments
    /\ \A e \in Chats : ChatInv(e)

LEMMA SourcesInitial == Init => SourceInv
  <1> SUFFICES ASSUME Init PROVE SourceInv
    OBVIOUS
  <1>1. ASSUME NEW e \in Chats PROVE ChatInv(e)
    BY DEF Init, ChatInv, OfChat, Roles, Fates
  <1>2. QED
    BY <1>1 DEF Init, SourceInv, SourcesHaveDocuments, SeenOK, Nothing

\* A request that a step leaves alone.
LEMMA SameChat ==
    ASSUME NEW e \in Chats, ChatInv(e), pc'[e] = pc[e], chunks'[e] = chunks[e], row'[e] = row[e],
           docs' = docs, OfChat(e)' = OfChat(e), closed \subseteq closed', broken \subseteq broken'
    PROVE  ChatInv(e)'
  <1>1. Excused(e) => Excused(e)'
    BY DEF Excused
  <1>2. QED
    BY <1>1 DEF ChatInv

\* Steps that change nothing of this.
LEMMA QuietStep ==
    ASSUME SourceInv, SeenOK', UNCHANGED <<docs, sources, pc, chunks, row, closed, broken>>
    PROVE  SourceInv'
  <1>1. \A e \in Chats : ChatInv(e)'
    BY SameChat DEF SourceInv, OfChat
  <1>2. QED
    BY <1>1 DEF SourceInv, SourcesHaveDocuments

LEMMA SameDeletions ==
    ASSUME SourceInv, UNCHANGED <<docs, removal>>
    PROVE  SeenOK'
  BY DEF SourceInv, SeenOK

\* Steps of a request up to the save.
LEMMA AnotherStage ==
    ASSUME SourceInv, NEW c \in Chats, NEW to, Goes(c, to), UNCHANGED <<docs, sources, removal, history>>,
           pc[c] \notin {"saved", "answered", "failed"}, to \notin {"saved", "answered", "failed"},
           \A e \in Chats : e # c => chunks'[e] = chunks[e],
           DOMAIN chunks' = Chats
    PROVE  SourceInv'
  <1>1. DOMAIN pc' = Chats /\ pc'[c] = to /\ \A e \in Chats \ {c} : pc'[e] = pc[e]
    BY DEF Goes, SourceInv
  <1>2. SourcesHaveDocuments' /\ DOMAIN row' = Chats
    BY DEF SourceInv, SourcesHaveDocuments, history
  <1>3. ASSUME NEW e \in Chats PROVE ChatInv(e)'
    <2>1. CASE e = c
      BY <1>1, <2>1 DEF SourceInv, ChatInv, OfChat, history
    <2>2. CASE e # c
      BY <1>1, <2>2, SameChat DEF SourceInv, OfChat, history
    <2>3. QED
      BY <2>1, <2>2
  <1>4. QED
    BY <1>1, <1>2, <1>3, SameDeletions DEF SourceInv

\* Steps that change neither sources nor messages, and end where the request has a
\* right to be.
LEMMA AnotherEnd ==
    ASSUME SourceInv, NEW c \in Chats, NEW to, Goes(c, to),
           UNCHANGED <<docs, sources, chunks, removal, row, closed>>, broken \subseteq broken',
           \/ to = "answered" /\ pc[c] = "saved"
           \/ to = "failed" /\ Excused(c)'
    PROVE  SourceInv'
  <1>1. DOMAIN pc' = Chats /\ pc'[c] = to /\ \A e \in Chats \ {c} : pc'[e] = pc[e]
    BY DEF Goes, SourceInv
  <1>2. SourcesHaveDocuments'
    BY DEF SourceInv, SourcesHaveDocuments
  <1>3. ASSUME NEW e \in Chats PROVE ChatInv(e)'
    <2>1. CASE e = c
      BY <1>1, <2>1 DEF SourceInv, ChatInv, OfChat
    <2>2. CASE e # c
      BY <1>1, <2>2, SameChat DEF SourceInv, OfChat
    <2>3. QED
      BY <2>1, <2>2
  <1>4. QED
    BY <1>1, <1>2, <1>3, SameDeletions DEF SourceInv

\* The first commit.
LEMMA FirstCommit ==
    ASSUME SourceInv, NEW c \in Chats, Saves(c)
    PROVE  SourceInv'
  <1>1. /\ sources' = sources \cup SourcesOf(c)
        /\ UNCHANGED <<docs, chunks, removal, closed, broken>>
        /\ row' = [row EXCEPT ![c] = [r \in Roles |-> "kept"]]
        /\ pc' = [pc EXCEPT ![c] = "saved"] /\ pc[c] = "save" /\ Exists(c)
    BY DEF Saves, Ends, Goes
  <1>2. \A s \in SourcesOf(c) : s.chat = c /\ s.doc \in docs
    BY <1>1 DEF Exists, SourcesOf
  <1>3. SourcesHaveDocuments'
    BY <1>1, <1>2 DEF SourceInv, SourcesHaveDocuments
  <1>4. /\ DOMAIN pc' = Chats /\ pc'[c] = "saved" /\ \A e \in Chats \ {c} : pc'[e] = pc[e]
        /\ DOMAIN row' = Chats /\ row'[c] = [r \in Roles |-> "kept"]
        /\ \A e \in Chats \ {c} : row'[e] = row[e]
    BY <1>1 DEF SourceInv
  <1>5. OfChat(c)' = SourcesOf(c)
    <2>1. OfChat(c) = {}
      BY <1>1 DEF SourceInv, ChatInv
    <2>2. QED
      BY <1>1, <1>2, <2>1 DEF OfChat
  <1>6. {DocOf[k] : k \in ToSet(chunks[c])} = {s.doc : s \in SourcesOf(c)}
    <2> DEFINE S(k) == [chat |-> c, doc |-> DocOf[k]]
    <2>1. \A k : S(k).doc = DocOf[k]
      OBVIOUS
    <2>2. SourcesOf(c) = {S(k) : k \in ToSet(chunks[c])}
      BY DEF SourcesOf
    <2> HIDE DEF S
    <2>3. QED
      BY <2>1, <2>2
  <1>7. {s.doc : s \in SourcesOf(c)} \subseteq docs
    BY <1>2
  <1>8. ASSUME NEW e \in Chats PROVE ChatInv(e)'
    <2>1. CASE e = c
      <3>1. {DocOf[k] : k \in ToSet(chunks'[c])} \cap docs' = {s.doc : s \in OfChat(c)'}
        BY <1>1, <1>5, <1>6, <1>7
      <3>2. row'[c].answer = "kept" /\ row'[c].question = "kept" /\ row'[c] \in [Roles -> Fates]
        BY <1>4 DEF Roles, Fates
      <3>3. QED
        BY <1>4, <2>1, <3>1, <3>2 DEF ChatInv
    <2>2. CASE e # c
      <3>1. OfChat(e)' = OfChat(e)
        BY <1>1, <1>2, <2>2 DEF OfChat
      <3>2. QED
        BY <1>1, <1>4, <2>2, <3>1, SameChat DEF SourceInv
    <2>3. QED
      BY <2>1, <2>2
  <1>9. QED
    BY <1>1, <1>3, <1>4, <1>8, SameDeletions DEF SourceInv

LEMMA RequestStep ==
    ASSUME SourceInv, NEW c \in Chats, Begins(c) \/ Answering(c)
    PROVE  SourceInv'
  <1>1. CASE Begins(c)
    BY <1>1, AnotherStage DEF Begins, SourceInv
  <1>2. CASE ImageIsRead(c)
    BY <1>2, AnotherStage DEF ImageIsRead, SourceInv
  <1>3. CASE ImageIsNotRead(c)
    <2>1. CASE unread[c] + 1 = VisionModels
      BY <1>3, <2>1, AnotherStage DEF ImageIsNotRead, SourceInv
    <2>2. CASE unread[c] + 1 # VisionModels
      BY <1>3, <2>2, QuietStep, SameDeletions DEF ImageIsNotRead, history
    <2>3. QED
      BY <2>1, <2>2
  <1>4. CASE NoVisionModel(c)
    BY <1>4, AnotherStage DEF NoVisionModel, SourceInv
  <1>5. CASE EmbeddingFails(c)
    BY <1>5, AnotherStage DEF EmbeddingFails, SourceInv
  <1>6. CASE Retrieves(c)
    <2>1. PICK missed \in Misses :
              chunks' = [chunks EXCEPT ![c] =
                  Retrieved(c, {k \in Chunks \ missed : DocOf[k] \in docs})]
      BY <1>6 DEF Retrieves
    <2>2. DOMAIN chunks' = Chats /\ \A e \in Chats : e # c => chunks'[e] = chunks[e]
      BY <2>1 DEF SourceInv
    <2>3. QED
      BY <1>6, <2>2, AnotherStage DEF Retrieves
  <1>7. CASE NoKey(c) \/ ModelAnswers(c)
    BY <1>7, AnotherStage DEF NoKey, ModelAnswers, SourceInv
  <1>8. CASE ModelFails(c)
    <2>1. CASE GivesUp(c)
      BY <1>8, <2>1, AnotherStage DEF ModelFails, SourceInv
    <2>2. CASE ~GivesUp(c)
      BY <1>8, <2>2, QuietStep, SameDeletions DEF ModelFails, history
    <2>3. QED
      BY <2>1, <2>2
  <1>9. CASE Saves(c)
    BY <1>9, FirstCommit
  <1>10. CASE SaveFails(c)
    <2>1. /\ UNCHANGED <<docs, sources, chunks, removal, row, closed>> /\ Goes(c, "failed")
          /\ IF Exists(c) /\ c \notin closed THEN Breaks(c) ELSE UNCHANGED <<faults, broken>>
      BY <1>10 DEF SaveFails, Ends
    <2>2. broken \subseteq broken' /\ Excused(c)'
      <3>1. CASE Exists(c) /\ c \notin closed
        BY <2>1, <3>1 DEF Breaks, Excused
      <3>2. CASE c \in closed
        BY <2>1, <3>2 DEF Excused
      <3>3. CASE ~Exists(c) /\ c \notin closed
        <4>1. PICK s \in SourcesOf(c) : s.doc \notin docs
          BY <3>3 DEF Exists
        <4>2. PICK k \in ToSet(chunks[c]) : s = [chat |-> c, doc |-> DocOf[k]]
          BY <4>1 DEF SourcesOf
        <4>3. DocOf[k] \notin docs
          BY <4>1, <4>2
        <4>4. \E j \in ToSet(chunks[c]) : DocOf[j] \notin docs
          BY <4>2, <4>3
        <4>5. Excused(c)'
          BY <2>1, <4>4 DEF Excused
        <4>6. QED
          BY <2>1, <3>3, <4>5
      <3>4. QED
        BY <3>1, <3>2, <3>3
    <2>3. QED
      BY <2>1, <2>2, AnotherEnd
  <1>11. CASE Counts(c)
    <2>1. Goes(c, "answered") /\ pc[c] = "saved"
      BY <1>11 DEF Counts
    <2>2. UNCHANGED <<docs, sources, chunks, removal, row, closed>>
      BY <1>11 DEF Counts, request, history
    <2>3. broken \subseteq broken'
      BY <1>11 DEF Counts, history
    <2>4. QED
      BY <2>1, <2>2, <2>3, AnotherEnd
  <1>12. CASE CountFails(c)
    <2>1. /\ UNCHANGED <<docs, sources, chunks, removal, row, closed>> /\ Goes(c, "failed")
          /\ pc[c] = "saved"
          /\ IF \A r \in Roles : row[c][r] = "kept" THEN Breaks(c) ELSE UNCHANGED <<faults, broken>>
      BY <1>12 DEF CountFails, request
    <2>2. broken \subseteq broken' /\ Excused(c)'
      <3>1. CASE \A r \in Roles : row[c][r] = "kept"
        BY <2>1, <3>1 DEF Breaks, Excused
      <3>2. CASE ~ \A r \in Roles : row[c][r] = "kept"
        <4>1. \E r \in Roles : row[c][r] = "removed"
          BY <2>1, <3>2 DEF SourceInv, ChatInv, Roles, Fates
        <4>2. QED
          BY <2>1, <3>2, <4>1 DEF Excused
      <3>3. QED
        BY <3>1, <3>2
    <2>3. QED
      BY <2>1, <2>2, AnotherEnd
  <1>13. QED
    BY <1>1, <1>2, <1>3, <1>4, <1>5, <1>6, <1>7, <1>8, <1>9, <1>10, <1>11, <1>12 DEF Answering

\* A message goes with its sources, a conversation with both messages.
LEMMA RemovalStep ==
    ASSUME SourceInv, NEW c \in Chats,
           ConversationGoes(c) \/ \E r \in Roles : MessageGoes(c, r)
    PROVE  SourceInv'
  <1>1. /\ UNCHANGED <<docs, pc, chunks, removal, broken>> /\ closed \subseteq closed'
        /\ DOMAIN row' = Chats /\ \A e \in Chats \ {c} : row'[e] = row[e]
        /\ sources' \subseteq sources /\ \A s \in sources : s.chat # c => s \in sources'
    BY DEF ConversationGoes, MessageGoes, request, SourceInv, OfChat
  <1>2. /\ row'[c] \in [Roles -> Fates]
        /\ \A r \in Roles : /\ row'[c][r] = "none" <=> row[c][r] = "none"
                            /\ row[c][r] = "removed" => row'[c][r] = "removed"
        /\ row'[c].answer # "kept" => OfChat(c)' = {}
        /\ row'[c].answer = "kept" => row[c].answer = "kept" /\ sources' = sources
    <2>0. row[c] \in [Roles -> Fates] /\ (row[c].answer # "kept" => OfChat(c) = {})
      BY DEF SourceInv, ChatInv
    <2>1. CASE ConversationGoes(c)
      <3>1. /\ row'[c] = [r \in Roles |-> IF row[c][r] = "kept" THEN "removed" ELSE row[c][r]]
            /\ sources' = sources \ OfChat(c)
        BY <2>1 DEF ConversationGoes, SourceInv
      <3>2. OfChat(c)' = {}
        BY <3>1 DEF OfChat
      <3>3. QED
        BY <2>0, <3>1, <3>2 DEF Roles, Fates
    <2>2. ASSUME NEW r \in Roles, MessageGoes(c, r)
          PROVE  /\ row'[c] \in [Roles -> Fates]
                 /\ \A q \in Roles : /\ row'[c][q] = "none" <=> row[c][q] = "none"
                                     /\ row[c][q] = "removed" => row'[c][q] = "removed"
                 /\ row'[c].answer # "kept" => OfChat(c)' = {}
                 /\ row'[c].answer = "kept" => row[c].answer = "kept" /\ sources' = sources
      <3>1. /\ row'[c] = [row[c] EXCEPT ![r] = "removed"] /\ row[c][r] = "kept"
            /\ sources' = IF r = "answer" THEN sources \ OfChat(c) ELSE sources
        BY <2>2 DEF MessageGoes, SourceInv
      <3>2. r = "answer" => OfChat(c)' = {}
        BY <3>1 DEF OfChat
      <3>3. r # "answer" => OfChat(c)' = OfChat(c)
        BY <3>1 DEF OfChat
      <3>4. QED
        BY <2>0, <3>1, <3>2, <3>3 DEF Roles, Fates
    <2>3. QED
      BY <2>1, <2>2
  <1>3. SourcesHaveDocuments'
    BY <1>1 DEF SourceInv, SourcesHaveDocuments
  <1>4. ASSUME NEW e \in Chats PROVE ChatInv(e)'
    <2>1. CASE e = c
      <3>1. Excused(c) => Excused(c)'
        BY <1>1, <1>2 DEF Excused
      <3>2. row'[c].answer = "kept" => OfChat(c)' = OfChat(c)
        BY <1>2 DEF OfChat
      <3>3. ChatInv(c) /\ "answer" \in Roles /\ "question" \in Roles
        BY DEF SourceInv, Roles
      <3>4. QED
        BY <1>1, <1>2, <2>1, <3>1, <3>2, <3>3 DEF ChatInv
    <2>2. CASE e # c
      <3>1. OfChat(e)' = OfChat(e)
        BY <1>1, <2>2 DEF OfChat
      <3>2. QED
        BY <1>1, <2>2, <3>1, SameChat DEF SourceInv
    <2>3. QED
      BY <2>1, <2>2
  <1>5. QED
    BY <1>1, <1>3, <1>4, SameDeletions DEF SourceInv

\* Only the document and all of its sources go.
LEMMA DeletionStep ==
    ASSUME SourceInv, NEW x \in Deletions, DeleteLooks(x) \/ DeleteCommits(x)
    PROVE  SourceInv'
  <1>1. CASE DeleteLooks(x)
    <2>1. PICK d \in docs : removal' = [removal EXCEPT ![x] = [doc |-> d, seen |-> Of(d)]]
      BY <1>1 DEF DeleteLooks
    <2>2. SeenOK'
      BY <1>1, <2>1 DEF DeleteLooks, SourceInv, SeenOK, Of
    <2>3. QED
      BY <1>1, <2>2, QuietStep DEF DeleteLooks, request, history
  <1>2. CASE DeleteCommits(x)
    <2> DEFINE d == removal[x].doc
    <2>1. /\ docs' = docs \ {d} /\ UNCHANGED <<pc, chunks, row, closed, broken>>
          /\ sources' = sources \ removal[x].seen /\ Of(d) \subseteq removal[x].seen
          /\ removal' = [removal EXCEPT ![x] = [doc |-> None, seen |-> removal[x].seen]]
          /\ \A s \in removal[x].seen : s.doc = d
      BY <1>2 DEF DeleteCommits, Deletable, request, history, SourceInv, SeenOK
    <2> HIDE DEF d
    <2>2. SourcesHaveDocuments'
      BY <2>1 DEF SourceInv, SourcesHaveDocuments, Of
    <2>3. ASSUME NEW e \in Chats PROVE ChatInv(e)'
      <3>1. ChatInv(e)
        BY DEF SourceInv
      <3>2. Excused(e) => Excused(e)'
        BY <2>1 DEF Excused
      <3>3. OfChat(e)' = {s \in OfChat(e) : s.doc # d}
        BY <2>1 DEF OfChat, Of
      <3>4. {s.doc : s \in OfChat(e)'} = {s.doc : s \in OfChat(e)} \ {d}
        BY <3>3
      <3>5. QED
        BY <2>1, <3>1, <3>2, <3>3, <3>4 DEF ChatInv
    <2>4. SeenOK'
      BY <2>1, AnswerAssumption DEF AnswerAssumption, SourceInv, SeenOK
    <2>5. QED
      BY <2>1, <2>2, <2>3, <2>4 DEF SourceInv
  <1>3. QED
    BY <1>1, <1>2

LEMMA SourceInvariant == Spec => []SourceInv
  <1>1. SourceInv /\ [Next]_vars => SourceInv'
    <2>1. ASSUME SourceInv, UNCHANGED vars PROVE SourceInv'
      BY <2>1, QuietStep, SameDeletions DEF vars, request, history
    <2>2. QED
      BY <2>1, RequestStep, RemovalStep, DeletionStep DEF Next
  <1>2. QED
    BY <1>1, SourcesInitial, PTL DEF Spec

\* save_messages and DocumentRepository.delete: whatever is deleted while its
\* answer is written, a source never refers to a missing document.
THEOREM NoDanglingSource == Spec => []SourcesHaveDocuments
  <1>1. SourceInv => SourcesHaveDocuments
    BY DEF SourceInv
  <1>2. QED
    BY <1>1, SourceInvariant, PTL

\* save_messages: question, answer and a source for every retrieved document that is
\* still there are saved together or not at all, the two commits and whatever is
\* deleted between or after them notwithstanding; and a request fails at the end only
\* with an excuse: a failure of the database or a deletion.
THEOREM AnswersAreSavedAsAWhole == Spec => []SavedAsAWhole
  <1>1. SourceInv => SavedAsAWhole
    BY DEF SourceInv, ChatInv, SavedAsAWhole
  <1>2. QED
    BY <1>1, SourceInvariant, PTL

----------------------------------------------------------------------------
(* The requests                                                            *)

ModelsOf(c) == ModelsToTry(asks[c].model)

\* Where request c stands: the models were asked in the order of the list, and
\* before the last one fails there is another to ask; before the first one the
\* request has no answer, and an image that is still read has a model left.
Standing(c) ==
    /\ Len(tried[c]) <= Len(ModelsOf(c))
    /\ \A i \in 1 .. Len(tried[c]) : tried[c][i] = ModelsOf(c)[i]
    /\ pc[c] \in {"idle", "image", "retrieve"} => tried[c] = <<>>
    /\ pc[c] = "ask" => Len(tried[c]) < Len(ModelsOf(c))
    /\ pc[c] = "save" /\ reply[c] = "apology" =>
          (reason[c] = "key" /\ tried[c] = <<>>) \/ Len(tried[c]) = Len(ModelsOf(c))
    /\ pc[c] = "idle" => unread[c] = 0
    /\ pc[c] = "image" => unread[c] < VisionModels
    /\ Len(chunks[c]) <= TopK

RequestInv == TypeOK /\ \A c \in Chats : Standing(c)

LEMMA RequestInitial == Init => RequestInv
  <1> SUFFICES ASSUME Init PROVE RequestInv
    OBVIOUS
  <1>1. TopK \in Nat \ {0} /\ VisionModels \in Nat \ {0}
    BY AnswerAssumption DEF AnswerAssumption
  <1>2. TypeOK
    BY <1>1, AnswerAssumption
       DEF AnswerAssumption, Init, TypeOK, Ask, NoAsk, Removal, Nothing, Replies, Roles
  <1>3. ASSUME NEW c \in Chats PROVE Standing(c)
    <2>1. /\ tried[c] = <<>> /\ chunks[c] = <<>> /\ unread[c] = 0 /\ pc[c] = "idle"
      BY DEF Init
    <2>2. ModelsOf(c) \in Seq(Known)
      BY ModelsAre DEF ModelsOf
    <2>3. QED
      BY <1>1, <2>1, <2>2 DEF Standing
  <1>4. QED
    BY <1>2, <1>3 DEF RequestInv

\* A step of one request leaves the others where they are.
LEMMA OneRequest ==
    ASSUME RequestInv, TypeOK', NEW c \in Chats, Standing(c)',
           \A e \in Chats \ {c} : /\ pc'[e] = pc[e] /\ asks'[e] = asks[e]
                                  /\ chunks'[e] = chunks[e] /\ unread'[e] = unread[e]
                                  /\ tried'[e] = tried[e] /\ reply'[e] = reply[e]
                                  /\ reason'[e] = reason[e]
    PROVE  RequestInv'
  <1>1. ASSUME NEW e \in Chats \ {c} PROVE Standing(e)'
    BY <1>1 DEF RequestInv, Standing, ModelsOf
  <1>2. QED
    BY <1>1 DEF RequestInv

LEMMA BreaksTypes ==
    ASSUME TypeOK, NEW c \in Chats, Breaks(c)
    PROVE  faults' \in 0 .. MaxFaults /\ broken' \subseteq Chats
  BY AnswerAssumption DEF AnswerAssumption, Breaks, TypeOK

LEMMA RequestSteps ==
    ASSUME RequestInv, NEW c \in Chats, Begins(c) \/ Answering(c)
    PROVE  RequestInv'
  <1> USE DEF Goes, history
  <1> DEFINE M == ModelsOf(c)
  <1>0. /\ TypeOK /\ Standing(c)
        /\ TopK \in Nat \ {0} /\ VisionModels \in Nat \ {0}
    BY AnswerAssumption DEF AnswerAssumption, RequestInv
  <1>a. M \in Seq(Known) /\ Len(M) > 0
    BY ModelsAre DEF ModelsOf
  <1>1. CASE Begins(c)
    <2>1. PICK m \in Requested, image \in BOOLEAN :
              /\ asks' = [asks EXCEPT ![c] = [model |-> m, image |-> image]]
              /\ pc' = [pc EXCEPT ![c] = IF image THEN "image" ELSE "retrieve"]
      BY <1>1 DEF Begins
    <2>2. TypeOK'
      BY <1>0, <1>1, <2>1 DEF Begins, TypeOK, Ask
    <2>3. ModelsOf(c)' \in Seq(Known)
      BY ModelsAre DEF ModelsOf
    <2>4. Standing(c)'
      BY <1>0, <1>1, <2>1, <2>3 DEF Begins, TypeOK, Standing
    <2>5. QED
      BY <1>0, <1>1, <2>1, <2>2, <2>4, OneRequest DEF Begins, TypeOK
  <1>2. CASE ImageIsRead(c)
    <2>1. TypeOK'
      BY <1>0, <1>2 DEF ImageIsRead, TypeOK
    <2>2. Standing(c)'
      BY <1>0, <1>2 DEF ImageIsRead, TypeOK, Standing, ModelsOf
    <2>3. QED
      BY <1>0, <1>2, <2>1, <2>2, OneRequest DEF ImageIsRead, TypeOK
  <1>3. CASE ImageIsNotRead(c)
    <2>1. unread[c] + 1 \in 0 .. VisionModels
      BY <1>0, <1>3 DEF ImageIsNotRead, TypeOK, Standing
    <2>2. TypeOK'
      BY <1>0, <1>3, <2>1 DEF ImageIsNotRead, TypeOK
    <2>3. Standing(c)'
      BY <1>0, <1>3, <2>1 DEF ImageIsNotRead, TypeOK, Standing, ModelsOf
    <2>4. QED
      BY <1>0, <1>3, <2>2, <2>3, OneRequest DEF ImageIsNotRead, TypeOK
  <1>4. CASE NoVisionModel(c)
    <2>1. TypeOK'
      BY <1>0, <1>4 DEF NoVisionModel, TypeOK
    <2>2. Standing(c)'
      BY <1>0, <1>4 DEF NoVisionModel, TypeOK, Standing, ModelsOf
    <2>3. QED
      BY <1>0, <1>4, <2>1, <2>2, OneRequest DEF NoVisionModel, TypeOK
  <1>5. CASE EmbeddingFails(c)
    <2>1. TypeOK'
      BY <1>0, <1>5 DEF EmbeddingFails, TypeOK, Replies
    <2>2. Standing(c)'
      BY <1>0, <1>5 DEF EmbeddingFails, TypeOK, Standing, ModelsOf
    <2>3. QED
      BY <1>0, <1>5, <2>1, <2>2, OneRequest DEF EmbeddingFails, TypeOK
  <1>6. CASE Retrieves(c)
    <2>1. PICK found : /\ found \in Seq(Chunks) /\ Len(found) <= TopK
                       /\ chunks' = [chunks EXCEPT ![c] = found]
      <3>1. PICK missed \in Misses :
                chunks' = [chunks EXCEPT ![c] =
                    Retrieved(c, {k \in Chunks \ missed : DocOf[k] \in docs})]
        BY <1>6 DEF Retrieves
      <3> DEFINE near == {k \in Chunks \ missed : DocOf[k] \in docs}
      <3>2. /\ Retrieved(c, near) \in Seq(Chunks \cap near)
            /\ Len(Retrieved(c, near)) <= TopK
        <4> HIDE DEF near
        <4>1. QED
          BY RetrievalIsRight
      <3>3. Retrieved(c, near) \in Seq(Chunks)
        BY <3>2
      <3>4. QED
        BY <3>1, <3>2, <3>3
    <2>2. TypeOK'
      BY <1>0, <1>6, <2>1 DEF Retrieves, TypeOK
    <2>3. Standing(c)'
      BY <1>0, <1>a, <1>6, <2>1 DEF Retrieves, TypeOK, Standing, ModelsOf
    <2>4. QED
      BY <1>0, <1>6, <2>1, <2>2, <2>3, OneRequest DEF Retrieves, TypeOK
  <1>7. CASE NoKey(c)
    <2>1. TypeOK'
      BY <1>0, <1>7 DEF NoKey, TypeOK, Replies
    <2>2. Standing(c)'
      BY <1>0, <1>7 DEF NoKey, TypeOK, Standing, ModelsOf
    <2>3. QED
      BY <1>0, <1>7, <2>1, <2>2, OneRequest DEF NoKey, TypeOK
  <1>8. CASE ModelAnswers(c) \/ ModelFails(c)
    <2> DEFINE t == tried[c]
               next == M[Len(t) + 1]
    <2>1. /\ pc[c] = "ask" /\ tried' = [tried EXCEPT ![c] = Append(t, next)]
          /\ UNCHANGED <<asks, chunks, unread>>
      BY <1>8 DEF ModelAnswers, ModelFails, Tries, ModelsOf
    <2>2. /\ t \in Seq(Known) /\ Len(t) < Len(M)
          /\ \A i \in 1 .. Len(t) : t[i] = M[i]
      BY <1>0, <2>1 DEF TypeOK, Standing
    <2>3. next \in Known
      BY <1>a, <2>2
    <2>4. /\ Append(t, next) \in Seq(Known) /\ Len(Append(t, next)) = Len(t) + 1
          /\ \A i \in 1 .. Len(t) + 1 : Append(t, next)[i] = M[i]
      BY <1>a, <2>2, <2>3
    <2>5. /\ tried'[c] = Append(t, next) /\ tried' \in [Chats -> Seq(Known)]
          /\ M' = M
      BY <1>0, <2>1, <2>4 DEF TypeOK, ModelsOf
    <2>6. LastModel(c) <=> Len(t) + 1 = Len(M)
      BY DEF LastModel, ModelsOf
    <2> HIDE DEF next, t, M
    <2>7. TypeOK'
      <3>1. CASE ModelAnswers(c)
        BY <1>0, <2>5, <3>1 DEF ModelAnswers, TypeOK, Replies
      <3>2. CASE ModelFails(c)
        BY <1>0, <2>5, <3>2 DEF ModelFails, TypeOK, Replies
      <3>3. QED
        BY <1>8, <3>1, <3>2
    <2>8. Standing(c)'
      <3>1. /\ Len(tried'[c]) <= Len(M) /\ tried'[c] # <<>>
            /\ \A i \in 1 .. Len(tried'[c]) : tried'[c][i] = M[i]
        BY <1>a, <2>2, <2>4, <2>5
      <3>2. pc'[c] = "ask" => Len(tried'[c]) < Len(M)
        BY <1>0, <1>8, <1>a, <2>1, <2>2, <2>4, <2>5, <2>6
           DEF ModelAnswers, ModelFails, GivesUp, TypeOK
      <3>3. pc'[c] = "save" /\ reply'[c] = "apology" => Len(tried'[c]) = Len(M)
        BY <1>0, <1>8, <2>1, <2>4, <2>5, <2>6 DEF ModelAnswers, ModelFails, GivesUp, TypeOK
      <3>4. pc'[c] \in {"ask", "save"}
        BY <1>0, <1>8, <2>1 DEF ModelAnswers, ModelFails, TypeOK
      <3>5. Len(chunks'[c]) <= TopK
        BY <1>0, <2>1 DEF Standing
      <3>6. QED
        BY <2>5, <3>1, <3>2, <3>3, <3>4, <3>5 DEF Standing, M
    <2>9. QED
      BY <1>0, <1>8, <2>1, <2>7, <2>8, OneRequest DEF ModelAnswers, ModelFails, TypeOK
  <1>9. CASE Saves(c) \/ SaveFails(c)
    <2>1. PICK how \in {"saved", "failed"} : Ends(c, how)
      BY <1>9 DEF Saves, SaveFails
    <2>2. /\ sources' \subseteq Source /\ docs' = docs /\ removal' = removal
          /\ row' \in [Chats -> [Roles -> {"none", "kept", "removed"}]]
          /\ closed' = closed /\ faults' \in 0 .. MaxFaults /\ broken' \subseteq Chats
      <3>1. SourcesOf(c) \subseteq Source
        <4>1. \A k \in ToSet(chunks[c]) : DocOf[k] \in Docs
          BY <1>0, AnswerAssumption DEF AnswerAssumption, TypeOK, ToSet, Chunks
        <4>2. QED
          BY <4>1 DEF SourcesOf, Source
      <3>2. CASE Saves(c)
        BY <1>0, <3>1, <3>2 DEF Saves, TypeOK
      <3>3. CASE SaveFails(c)
        <4>1. /\ UNCHANGED <<docs, sources, removal, row, closed>>
              /\ Breaks(c) \/ UNCHANGED <<faults, broken>>
          BY <3>3 DEF SaveFails
        <4>2. faults' \in 0 .. MaxFaults /\ broken' \subseteq Chats
          BY <1>0, <4>1, BreaksTypes DEF TypeOK
        <4>3. QED
          BY <1>0, <4>1, <4>2 DEF TypeOK
      <3>4. QED
        BY <1>9, <3>2, <3>3
    <2>3. TypeOK'
      <3>1. /\ UNCHANGED <<unread, chunks, reply>> /\ pc' = [pc EXCEPT ![c] = how]
            /\ asks' = [asks EXCEPT ![c] = NoAsk] /\ tried' = [tried EXCEPT ![c] = <<>>]
            /\ reason' = [reason EXCEPT ![c] = "none"]
        BY <2>1 DEF Ends
      <3>2. NoAsk \in Ask /\ <<>> \in Seq(Known)
        BY DEF NoAsk, Ask
      <3>3. asks' \in [Chats -> Ask]
        BY <1>0, <3>1, <3>2 DEF TypeOK
      <3>4. tried' \in [Chats -> Seq(Known)]
        BY <1>0, <3>1, <3>2 DEF TypeOK
      <3>5. pc' \in [Chats -> {"idle", "image", "retrieve", "ask", "save", "saved",
                              "answered", "failed", "refused"}]
        BY <1>0, <3>1 DEF TypeOK
      <3>6. reason' \in [Chats -> {"none", "image", "embedding", "key", "models"}]
        BY <1>0, <3>1 DEF TypeOK
      <3>7. /\ chunks' \in [Chats -> Seq(Chunks)] /\ unread' \in [Chats -> 0 .. VisionModels]
            /\ reply' \in [Chats -> Replies]
        BY <1>0, <3>1 DEF TypeOK
      <3>8. /\ docs' \subseteq Docs /\ removal' \in [Deletions -> Removal]
            /\ closed' \subseteq Chats
        BY <1>0, <2>2 DEF TypeOK
      <3>9. QED
        BY <2>2, <3>3, <3>4, <3>5, <3>6, <3>7, <3>8 DEF TypeOK
    <2>4. ModelsOf(c)' \in Seq(Known)
      BY ModelsAre DEF ModelsOf
    <2>5. Standing(c)'
      BY <1>0, <2>1, <2>4 DEF Ends, TypeOK, Standing
    <2>6. QED
      BY <1>0, <2>1, <2>3, <2>5, OneRequest DEF Ends, TypeOK
  <1>10. CASE Counts(c) \/ CountFails(c)
    <2>1. PICK how \in {"answered", "failed"} : Goes(c, how)
      BY <1>10 DEF Counts, CountFails
    <2>2. /\ UNCHANGED <<docs, sources, request, removal, reason, row, closed>>
          /\ faults' \in 0 .. MaxFaults /\ broken' \subseteq Chats
      BY <1>0, <1>10, BreaksTypes DEF Counts, CountFails, TypeOK
    <2>3. TypeOK'
      BY <1>0, <2>1, <2>2 DEF request, TypeOK
    <2>4. Standing(c)'
      BY <1>0, <2>1, <2>2 DEF request, TypeOK, Standing, ModelsOf
    <2>5. QED
      BY <1>0, <2>1, <2>2, <2>3, <2>4, OneRequest DEF request, TypeOK
  <1>11. QED
    BY <1>1, <1>2, <1>3, <1>4, <1>5, <1>6, <1>7, <1>8, <1>9, <1>10 DEF Answering

LEMMA RequestInductive ==
    ASSUME RequestInv, [Next]_vars
    PROVE  RequestInv'
  <1>1. ASSUME NEW x \in Deletions, DeleteLooks(x) \/ DeleteCommits(x) PROVE RequestInv'
    <2>1. UNCHANGED <<pc, request, reason, history>> /\ docs' \subseteq docs /\ sources' \subseteq sources
      BY <1>1 DEF DeleteLooks, DeleteCommits
    <2>2. removal' \in [Deletions -> Removal]
      <3>1. CASE DeleteLooks(x)
        <4>1. PICK d \in docs : removal' = [removal EXCEPT ![x] = [doc |-> d, seen |-> Of(d)]]
          BY <3>1 DEF DeleteLooks
        <4>2. d \in Docs /\ Of(d) \subseteq Source
          BY DEF RequestInv, TypeOK, Of
        <4>3. QED
          BY <4>1, <4>2 DEF RequestInv, TypeOK, Removal
      <3>2. CASE DeleteCommits(x)
        BY <3>2 DEF DeleteCommits, RequestInv, TypeOK, Removal
      <3>3. QED
        BY <1>1, <3>1, <3>2
    <2>3. TypeOK'
      BY <2>1, <2>2 DEF request, history, RequestInv, TypeOK
    <2>4. \A c \in Chats : Standing(c)'
      BY <2>1 DEF request, RequestInv, Standing, ModelsOf
    <2>5. QED
      BY <2>3, <2>4 DEF RequestInv
  <1>2. ASSUME NEW c \in Chats, ConversationGoes(c) \/ \E r \in Roles : MessageGoes(c, r)
        PROVE  RequestInv'
    <2>1. /\ UNCHANGED <<docs, pc, request, removal, reason, faults, broken>>
          /\ sources' \subseteq sources /\ closed' \subseteq closed \cup {c}
          /\ row' \in [Chats -> [Roles -> {"none", "kept", "removed"}]]
      <3>1. CASE ConversationGoes(c)
        <4>1. row[c] \in [Roles -> {"none", "kept", "removed"}]
          BY DEF RequestInv, TypeOK
        <4>2. [r \in Roles |-> IF row[c][r] = "kept" THEN "removed" ELSE row[c][r]]
                  \in [Roles -> {"none", "kept", "removed"}]
          BY <4>1
        <4>3. QED
          BY <3>1, <4>2 DEF ConversationGoes, RequestInv, TypeOK
      <3>2. ASSUME NEW r \in Roles, MessageGoes(c, r)
            PROVE  /\ UNCHANGED <<docs, pc, request, removal, reason, faults, broken>>
                   /\ sources' \subseteq sources /\ closed' \subseteq closed \cup {c}
                   /\ row' \in [Chats -> [Roles -> {"none", "kept", "removed"}]]
        BY <3>2 DEF MessageGoes, RequestInv, TypeOK
      <3>3. QED
        BY <1>2, <3>1, <3>2
    <2>2. TypeOK'
      BY <2>1 DEF request, RequestInv, TypeOK
    <2>3. \A e \in Chats : Standing(e)'
      BY <2>1 DEF request, RequestInv, Standing, ModelsOf
    <2>4. QED
      BY <2>2, <2>3 DEF RequestInv
  <1>3. CASE UNCHANGED vars
    BY <1>3 DEF vars, request, history, RequestInv, TypeOK, Standing, ModelsOf
  <1>4. QED
    BY <1>1, <1>2, <1>3, RequestSteps DEF Next

LEMMA RequestInvariant == Spec => []RequestInv
  BY RequestInitial, RequestInductive, PTL DEF Spec

\* Every variable keeps its type; above all, every model that is asked is one
\* the service knows, and there is one to ask.
THEOREM TypesAreKept == Spec => []TypeOK
  <1>1. RequestInv => TypeOK
    BY DEF RequestInv
  <1>2. QED
    BY <1>1, RequestInvariant, PTL

\* call_openrouter: no model is asked twice, and the requested one first, for
\* any list of fallbacks.
THEOREM ModelsAreAskedInTurn == Spec => []AskedInTurn
  <1>1. RequestInv => AskedInTurn
    <2> SUFFICES ASSUME RequestInv, NEW c \in Chats
                 PROVE  /\ IsInjective(tried[c])
                        /\ tried[c] # <<>> /\ asks[c].model \in Known =>
                              tried[c][1] = asks[c].model
      BY DEF AskedInTurn
    <2> DEFINE M == ModelsOf(c)
               t == tried[c]
    <2>1. /\ M \in Seq(Known) /\ IsInjective(M) /\ M[1] = UsedModel(asks[c].model)
      BY ModelsAre DEF ModelsOf
    <2>2. /\ t \in Seq(Known) /\ Len(t) <= Len(M)
          /\ \A i \in 1 .. Len(t) : t[i] = M[i]
      BY DEF RequestInv, TypeOK, Standing
    <2> HIDE DEF M, t
    <2>3. IsInjective(t)
      BY <2>1, <2>2 DEF IsInjective
    <2>4. t # <<>> => t[1] = M[1]
      BY <2>2
    <2>5. QED
      BY <2>1, <2>3, <2>4 DEF UsedModel, t
  <1>2. QED
    BY <1>1, RequestInvariant, PTL

\* call_openrouter: "All models failed" is said only when all were asked.
THEOREM ApologiesHaveACause == Spec => []EveryApologyHasACause
  <1>1. RequestInv => EveryApologyHasACause
    <2> SUFFICES ASSUME RequestInv, NEW c \in Chats, pc[c] = "save", reply[c] = "apology",
                        ~ (reason[c] = "key" /\ tried[c] = <<>>)
                 PROVE  ToSet(tried[c]) = {UsedModel(asks[c].model)} \cup ToSet(Fallbacks)
      BY DEF EveryApologyHasACause
    <2> DEFINE M == ModelsOf(c)
               t == tried[c]
    <2>1. M \in Seq(Known) /\ ToSet(M) = {UsedModel(asks[c].model)} \cup ToSet(Fallbacks)
      BY ModelsAre DEF ModelsOf
    <2>2. /\ t \in Seq(Known) /\ Len(t) = Len(M)
          /\ \A i \in 1 .. Len(t) : t[i] = M[i]
      BY DEF RequestInv, TypeOK, Standing
    <2> HIDE DEF M, t
    <2>3. t = M
      BY <2>1, <2>2
    <2>4. QED
      BY <2>1, <2>3 DEF t
  <1>2. QED
    BY <1>1, RequestInvariant, PTL

\* retrieve_context and build_prompt: with entries of this size no source is
\* saved that the model has not seen.
THEOREM CitationsWereShown == Spec => []EveryCitationWasShown
  <1>1. RequestInv => EveryCitationWasShown
    BY ShownIs DEF RequestInv, TypeOK, Standing, EveryCitationWasShown
  <1>2. QED
    BY <1>1, RequestInvariant, PTL
============================================================================
