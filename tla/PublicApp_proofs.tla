-------------------------- MODULE PublicApp_proofs --------------------------
(***************************************************************************)
(* Theorems about PublicApp, for any dataset, links, storage and length of *)
(* the session history.                                                    *)
(***************************************************************************)
EXTENDS PublicApp, SequenceTheorems, FiniteSetTheorems, TLAPS
-----------------------------------------------------------------------------
(* Lists.                                                                  *)
LEMMA CountTo == ASSUME NEW n \in Nat PROVE IsFiniteSet(1..n) /\ Cardinality(1..n) = n
BY FS_Interval

(* Distinct ranks of the elements of a finite set leave no rank out.       *)
LEMMA RanksAll ==
  ASSUME NEW D, IsFiniteSet(D), NEW r \in [D -> 1..Cardinality(D)],
         \A i, j \in D : r[i] = r[j] => i = j
  PROVE  \A n \in 1..Cardinality(D) : \E i \in D : r[i] = n
<1> DEFINE T == 1..Cardinality(D)
<1>1. Cardinality(D) \in Nat
  BY FS_CardinalityType
<1>2. IsFiniteSet(T) /\ Cardinality(T) = Cardinality(D)
  BY <1>1, CountTo
<1> HIDE DEF T
<1>3. r \in Injection(D, T)
  BY DEF Injection, IsInjective, T
<1>4. r \in Surjection(D, T)
  BY <1>2, <1>3, FS_Injection
<1>. QED  BY <1>4 DEF Surjection, T

(* What ElementsAt picks: all of kept, in order.                           *)
Picks(list, kept, at) ==
    /\ at \in [1..Cardinality(kept) -> kept]
    /\ \A m, n \in 1..Cardinality(kept) : m < n => at[m] < at[n]
    /\ \A i \in kept : \E n \in 1..Cardinality(kept) : at[n] = i
    /\ \A n \in 1..Cardinality(kept) : ElementsAt(list, kept)[n] = list[at[n]]

LEMMA ElementsAtIs ==
  ASSUME NEW S, NEW list \in Seq(S), NEW kept, kept \subseteq DOMAIN list
  PROVE  /\ Cardinality(kept) \in Nat
         /\ DOMAIN ElementsAt(list, kept) = 1..Cardinality(kept)
         /\ \E at : Picks(list, kept, at)
<1> DEFINE K == Cardinality(kept)
<1>1. DOMAIN list = 1..Len(list) /\ Len(list) \in Nat
  BY LenProperties
<1>2. IsFiniteSet(kept) /\ K \in Nat
  <2>1. IsFiniteSet(DOMAIN list)
    BY <1>1, CountTo
  <2>2. IsFiniteSet(kept)
    BY <2>1, FS_Subset
  <2>. QED  BY <2>2, FS_CardinalityType
<1>3. CASE kept = DOMAIN list
  <2>1. ElementsAt(list, kept) = list
    BY <1>3 DEF ElementsAt
  <2>2. K = Len(list)
    BY <1>1, <1>3, CountTo
  <2> DEFINE at == [n \in 1..Len(list) |-> n]
  <2>3. Picks(list, kept, at)
    BY <1>1, <1>3, <2>1, <2>2 DEF Picks
  <2>. QED  BY <1>1, <1>2, <2>1, <2>2, <2>3
<1>4. CASE kept # DOMAIN list
  <2> DEFINE r == [i \in kept |-> Cardinality(kept \cap 1..i)]
             at == [n \in 1..K |-> CHOOSE i \in kept : Cardinality(kept \cap 1..i) = n]
  <2>1. ElementsAt(list, kept) =
          [n \in 1..K |-> list[CHOOSE i \in kept : Cardinality(kept \cap 1..i) = n]]
    BY <1>4 DEF ElementsAt
  <2>2. \A i \in kept : i \in Nat /\ i >= 1
    BY <1>1
  <2>3. ASSUME NEW i \in kept PROVE r[i] \in 1..K
    <3>1. /\ IsFiniteSet(kept \cap 1..i) /\ Cardinality(kept \cap 1..i) <= K
      BY <1>2, FS_Subset
    <3>2. i \in kept \cap 1..i
      BY <2>2
    <3>3. Cardinality(kept \cap 1..i) \in Nat /\ Cardinality(kept \cap 1..i) # 0
      BY <3>1, <3>2, FS_CardinalityType, FS_EmptySet
    <3>. QED  BY <1>2, <3>1, <3>3
  <2>4. ASSUME NEW i \in kept, NEW j \in kept, i < j PROVE r[i] < r[j]
    <3>1. kept \cap 1..i \subseteq kept \cap 1..j /\ j \notin 1..i /\ j \in kept \cap 1..j
      BY <2>2, <2>4
    <3>2. IsFiniteSet(kept \cap 1..j)
      BY <1>2, FS_Subset
    <3>3. /\ Cardinality(kept \cap 1..i) <= Cardinality(kept \cap 1..j)
          /\ Cardinality(kept \cap 1..i) # Cardinality(kept \cap 1..j)
      BY <3>1, <3>2, FS_Subset
    <3>4. r[i] <= r[j] /\ r[i] # r[j]
      BY <3>3
    <3>5. r[i] \in Int /\ r[j] \in Int
      BY <2>3, <1>2
    <3> HIDE DEF r
    <3>. QED  BY <3>4, <3>5
  <2>5. r \in [kept -> 1..K]
    BY <2>3
  <2>6. \A n \in 1..K : at[n] = CHOOSE i \in kept : r[i] = n
    OBVIOUS
  <2>7. at \in [1..K -> kept] /\ \A n \in 1..K : r[at[n]] = n
    <3>1. \A i, j \in kept : r[i] = r[j] => i = j
      <4> SUFFICES ASSUME NEW i \in kept, NEW j \in kept, i # j PROVE r[i] # r[j]
        OBVIOUS
      <4>1. i < j \/ j < i
        BY <2>2
      <4>2. r[i] \in Int /\ r[j] \in Int
        BY <2>3, <1>2
      <4>3. r[i] < r[j] \/ r[j] < r[i]
        BY <4>1, <2>4
      <4> HIDE DEF r
      <4>. QED  BY <4>2, <4>3
    <3> HIDE DEF r
    <3>2. \A n \in 1..K : \E i \in kept : r[i] = n
      BY <1>2, <2>5, <3>1, RanksAll
    <3>3. \A n \in 1..K : at[n] \in kept /\ r[at[n]] = n
      BY <2>6, <3>2
    <3>. QED  BY <3>3
  <2>8. \A n \in 1..K : ElementsAt(list, kept)[n] = list[at[n]]
    BY <2>1
  <2>9. DOMAIN ElementsAt(list, kept) = 1..K
    BY <2>1
  <2> HIDE DEF r, at
  <2>10. ASSUME NEW m \in 1..K, NEW n \in 1..K, m < n PROVE at[m] < at[n]
    <3>1. at[m] \in kept /\ at[n] \in kept /\ r[at[m]] = m /\ r[at[n]] = n
      BY <2>7
    <3>2. ~(at[n] < at[m]) /\ at[n] # at[m]
      BY <1>2, <2>4, <2>10, <3>1
    <3>. QED  BY <2>2, <3>1, <3>2
  <2>11. ASSUME NEW i \in kept PROVE \E n \in 1..K : at[n] = i
    <3>1. r[i] \in 1..K /\ r[at[r[i]]] = r[i] /\ at[r[i]] \in kept
      BY <2>3, <2>7
    <3>2. at[r[i]] = i
      <4>1. ~(at[r[i]] < i) /\ ~(i < at[r[i]])
        BY <1>2, <2>4, <3>1
      <4>. QED  BY <2>2, <3>1, <4>1
    <3>. QED  BY <3>1, <3>2
  <2>12. Picks(list, kept, at)
    BY <2>7, <2>8, <2>10, <2>11 DEF Picks
  <2>. QED  BY <1>2, <2>9, <2>12
<1>. QED  BY <1>3, <1>4

LEMMA ElementsAtSeq ==
  ASSUME NEW S, NEW list \in Seq(S), NEW kept, kept \subseteq DOMAIN list,
         NEW V, \A i \in kept : list[i] \in V
  PROVE  ElementsAt(list, kept) \in Seq(V) /\ Len(ElementsAt(list, kept)) = Cardinality(kept)
<1> DEFINE e == ElementsAt(list, kept)
           K == Cardinality(kept)
<1>1. K \in Nat /\ DOMAIN e = 1..K
  BY ElementsAtIs
<1>2. PICK at : Picks(list, kept, at)
  BY ElementsAtIs
<1>3. \A n \in 1..K : e[n] \in V
  BY <1>2 DEF Picks
<1>4. e = [n \in DOMAIN e |-> e[n]]
  <2>1. CASE kept = DOMAIN list
    <3>1. e = list
      BY <2>1 DEF ElementsAt
    <3>2. list = [n \in DOMAIN list |-> list[n]]
      BY LenProperties
    <3> HIDE DEF e
    <3>. QED  BY <3>1, <3>2
  <2>2. CASE kept # DOMAIN list
    BY <2>2 DEF ElementsAt
  <2>. QED  BY <2>1, <2>2
<1> HIDE DEF e, K
<1>5. e \in [1..K -> V]
  BY <1>1, <1>3, <1>4
<1>6. e \in Seq(V)
  BY <1>1, <1>5, SeqDef
<1>7. Len(e) = K
  <2>1. DOMAIN e = 1..Len(e) /\ Len(e) \in Nat
    BY <1>6, LenProperties
  <2>. QED  BY <1>1, <2>1, CountTo
<1>. QED  BY <1>6, <1>7 DEF e, K

LEMMA FilterIs ==
  ASSUME NEW S, NEW list \in Seq(S), NEW V
  PROVE  /\ Filter(list, V) \in Seq(S) /\ Filter(list, V) \in Seq(V)
         /\ list \in Seq(V) => Filter(list, V) = list
<1> DEFINE kept == {i \in DOMAIN list : list[i] \in V}
<1>1. \A i \in kept : list[i] \in S /\ list[i] \in V
  BY LenProperties
<1>2. kept \subseteq DOMAIN list /\ Filter(list, V) = ElementsAt(list, kept)
  BY DEF Filter
<1>3. ASSUME list \in Seq(V) PROVE kept = DOMAIN list
  BY <1>3, LenProperties
<1> HIDE DEF kept
<1>4. Filter(list, V) \in Seq(S) /\ Filter(list, V) \in Seq(V)
  BY <1>1, <1>2, ElementsAtSeq
<1>5. list \in Seq(V) => Filter(list, V) = list
  BY <1>2, <1>3 DEF ElementsAt
<1>. QED  BY <1>4, <1>5

LEMMA WithoutIs ==
  ASSUME NEW S, NEW list \in Seq(S), NEW s
  PROVE  Without(list, s) \in Seq(S)
<1> DEFINE kept == {i \in DOMAIN list : list[i] # s}
<1>1. \A i \in kept : list[i] \in S
  BY LenProperties
<1>2. kept \subseteq DOMAIN list /\ Without(list, s) = ElementsAt(list, kept)
  BY DEF Without
<1> HIDE DEF kept
<1>. QED  BY <1>1, <1>2, ElementsAtSeq

LEMMA DistinctIs ==
  ASSUME NEW S, NEW list \in Seq(S)
  PROVE  Distinct(list) \in Seq(S)
<1> DEFINE kept == {i \in DOMAIN list : \A j \in 1..(i - 1) : list[j] # list[i]}
<1>1. \A i \in kept : list[i] \in S
  BY LenProperties
<1>2. kept \subseteq DOMAIN list /\ Distinct(list) = ElementsAt(list, kept)
  BY DEF Distinct
<1> HIDE DEF kept
<1>. QED  BY <1>1, <1>2, ElementsAtSeq

(* The cut at SHORTLIST_MAX.                                               *)
Cut(list) == FirstOf(list, SHORTLIST_MAX)

LEMMA CutIs ==
  ASSUME NEW S, NEW list \in Seq(S)
  PROVE  /\ Cut(list) \in Seq(S) /\ Len(Cut(list)) <= SHORTLIST_MAX
         /\ Len(list) <= SHORTLIST_MAX => Cut(list) = list
         /\ Cut(Cut(list)) = Cut(list)
<1> DEFINE n == IF Len(list) < SHORTLIST_MAX THEN Len(list) ELSE SHORTLIST_MAX
<1>1. Len(list) \in Nat /\ n \in Nat /\ n <= Len(list) /\ n <= SHORTLIST_MAX
  BY LenProperties, UrlAssumption
<1>2. Cut(list) = SubSeq(list, 1, n)
  BY DEF Cut, FirstOf
<1>3. Len(list) <= SHORTLIST_MAX => n = Len(list)
  BY <1>1, UrlAssumption
<1> HIDE DEF n
<1>4. SubSeq(list, 1, n) \in Seq(S) /\ Len(SubSeq(list, 1, n)) = n
  <2>1. \A i \in 1..n : list[i] \in S
    BY <1>1, LenProperties
  <2>. QED  BY <1>1, <2>1, SubSeqProperties
<1>5. Len(list) <= SHORTLIST_MAX => Cut(list) = list
  BY <1>2, <1>3, SubSeqFull
<1>6. ASSUME NEW e \in Seq(S), Len(e) <= SHORTLIST_MAX PROVE Cut(e) = e
  <2>1. Cut(e) = SubSeq(e, 1, Len(e))
    BY <1>6, LenProperties, UrlAssumption DEF Cut, FirstOf
  <2>. QED  BY <2>1, SubSeqFull
<1>. QED  BY <1>1, <1>2, <1>4, <1>5, <1>6
-----------------------------------------------------------------------------
(* Queries and URL states.                                                 *)

(* What a parsed address may hold: what setURLState may be handed.         *)
StateOK(u) ==
    /\ u.view \in Views /\ u.country \in Seq(Countries)
    /\ u.shortlist \in Seq(Slugs) /\ u.detail \in Slugs \cup {None}

LEMMA ParsedOK ==
  ASSUME NEW q \in Queries
  PROVE  /\ StateOK(ParseURL(q)) /\ Len(ParseURL(q).shortlist) <= SHORTLIST_MAX
         /\ Cut(ParseURL(q).shortlist) = ParseURL(q).shortlist
<1>1. q.country \in Seq(Countries \cup {Junk}) /\ q.shortlist \in Seq(Slugs \cup {Junk})
  BY DEF Queries
<1>2. ParseCsv(q.country, Countries) \in Seq(Countries)
  BY <1>1, FilterIs DEF ParseCsv
<1>3. ValidSlugs(q.shortlist) \in Seq(Slugs)
  BY <1>1, FilterIs DEF ValidSlugs, ParseCsv
<1>4. ParseURL(q).shortlist = Cut(ValidSlugs(q.shortlist))
  BY DEF ParseURL, Cut
<1>5. /\ ParseURL(q).shortlist \in Seq(Slugs) /\ Len(ParseURL(q).shortlist) <= SHORTLIST_MAX
      /\ Cut(ParseURL(q).shortlist) = ParseURL(q).shortlist
  BY <1>3, <1>4, CutIs
<1>6. /\ ParseURL(q).view \in Views /\ ParseURL(q).country \in Seq(Countries)
      /\ ParseURL(q).detail \in Slugs \cup {None}
  BY <1>2 DEF ParseURL, Views
<1>. QED  BY <1>5, <1>6 DEF StateOK

(* What is written to the address reads back as it was.                    *)
LEMMA ReadsBack ==
  ASSUME NEW u, StateOK(u)
  PROVE  /\ SerializeURL(u) \in Queries
         /\ ParseURL(SerializeURL(u)).view = u.view
         /\ ParseURL(SerializeURL(u)).country = u.country
         /\ ParseURL(SerializeURL(u)).shortlist = Cut(u.shortlist)
         /\ ParseURL(SerializeURL(u)).detail = u.detail
         /\ Canonical(SerializeURL(u)) = SerializeURL(u)
<1> DEFINE q == SerializeURL(u)
           v == IF u.view = "cards" THEN None ELSE u.view
<1>1. q = [view |-> v, country |-> u.country, shortlist |-> Cut(u.shortlist),
           detail |-> u.detail]
  BY DEF SerializeURL, Cut
<1>2. u.shortlist \in Seq(Slugs) /\ u.country \in Seq(Countries)
  BY DEF StateOK
<1>3. /\ Cut(u.shortlist) \in Seq(Slugs)
      /\ Cut(Cut(u.shortlist)) = Cut(u.shortlist)
  BY <1>2, CutIs
<1>4. /\ Cut(u.shortlist) \in Seq(Slugs \cup {Junk}) /\ u.country \in Seq(Countries \cup {Junk})
  BY <1>2, <1>3, SeqMonotonic
<1>5. v \in Views \cup {None} /\ u.detail \in Slugs \cup {None}
  BY DEF StateOK
<1>6. q \in Queries
  BY <1>1, <1>4, <1>5 DEF Queries
<1>7. ParseCsv(u.country, Countries) = u.country
  BY <1>2, FilterIs DEF ParseCsv
<1>8. ValidSlugs(Cut(u.shortlist)) = Cut(u.shortlist)
  BY <1>3, FilterIs DEF ValidSlugs, ParseCsv
<1>9. /\ (IF v = "matrix" THEN "matrix" ELSE "cards") = u.view
      /\ (IF u.detail \in Slugs THEN u.detail ELSE None) = u.detail
  BY UrlAssumption DEF StateOK, Views
<1> HIDE DEF v
<1>10. ParseURL(q) = [view |-> u.view, country |-> u.country,
                      shortlist |-> Cut(u.shortlist), detail |-> u.detail]
  <2>1. /\ q.view = v /\ q.country = u.country /\ q.shortlist = Cut(u.shortlist)
        /\ q.detail = u.detail
    BY <1>1
  <2>2. ParseURL(q) = [view |-> IF v = "matrix" THEN "matrix" ELSE "cards",
                       country |-> ParseCsv(u.country, Countries),
                       shortlist |-> Cut(ValidSlugs(Cut(u.shortlist))),
                       detail |-> IF u.detail \in Slugs THEN u.detail ELSE None]
    BY <2>1 DEF ParseURL, Cut
  <2>. QED  BY <2>2, <1>3, <1>7, <1>8, <1>9
<1>11. SerializeURL(ParseURL(q)) = [view |-> v, country |-> u.country,
                        shortlist |-> Cut(Cut(u.shortlist)), detail |-> u.detail]
  BY <1>10 DEF SerializeURL, Cut, v
<1> HIDE DEF q
<1>12. Canonical(q) = q
  BY <1>1, <1>3, <1>11 DEF Canonical
<1>. QED  BY <1>6, <1>10, <1>12 DEF q
-----------------------------------------------------------------------------
(* The drawer a query opens.                                               *)
Opens(q) == IF q.detail \in Dataset THEN q.detail ELSE None

HistoryOK(h) ==
    /\ h = [entries |-> h.entries, pos |-> h.pos]
    /\ \E S : h.entries \in Seq(S)
    /\ h.pos \in 1..Len(h.entries)

(* Only the last entry opens a drawer.                                     *)
OnlyLastOpens(h) == \A i \in 1..Len(h.entries) : i < Len(h.entries) => Opens(h.entries[i]) = None

HistoryFine(h) == HistoryOK(h) /\ OnlyLastOpens(h)

-----------------------------------------------------------------------------
(* Parsing and serializing keep what a query opens.                        *)
LEMMA DatasetSlugs == Dataset \subseteq Slugs /\ None \notin Dataset
<1>1. Dataset \subseteq Slugs
  BY GridAssumption, LenProperties DEF Dataset, Members
<1>. QED  BY <1>1, UrlAssumption

LEMMA OverlayIs == ASSUME NEW h PROVE Overlay(h) = Opens(Here(h))
BY DatasetSlugs DEF Overlay, URL, Opens, ParseURL

LEMMA CanonicalOpens == ASSUME NEW q PROVE Opens(Canonical(q)) = Opens(q)
BY DatasetSlugs DEF Canonical, SerializeURL, ParseURL, Opens

(* An entry is replaced.                                                   *)
LEMMA ReplaceOK ==
  ASSUME NEW h, HistoryOK(h), OnlyLastOpens(h), NEW q,
         Opens(q) \in {None, Opens(Here(h))}
  PROVE  /\ HistoryOK(ReplaceState(h, q)) /\ OnlyLastOpens(ReplaceState(h, q))
         /\ Here(ReplaceState(h, q)) = q
<1> DEFINE e == [h.entries EXCEPT ![h.pos] = q]
           x == ReplaceState(h, q)
<1>1. PICK S : h.entries \in Seq(S)
  BY DEF HistoryOK
<1>2. h = [entries |-> h.entries, pos |-> h.pos] /\ h.pos \in 1..Len(h.entries)
  BY DEF HistoryOK
<1>3. x = [entries |-> e, pos |-> h.pos]
  BY <1>2 DEF ReplaceState
<1>4. e \in Seq(S \cup {q}) /\ Len(e) = Len(h.entries)
  <2>1. h.entries \in Seq(S \cup {q})
    BY <1>1
  <2>. QED  BY <2>1, <1>2, ExceptSeq
<1>5. e[h.pos] = q /\ \A i \in 1..Len(h.entries) : i # h.pos => e[i] = h.entries[i]
  BY <1>1, <1>2
<1> HIDE DEF e, x
<1>6. HistoryOK(x)
  BY <1>2, <1>3, <1>4 DEF HistoryOK
<1>7. OnlyLastOpens(x)
  <2> SUFFICES ASSUME NEW i \in 1..Len(h.entries), i < Len(h.entries)
               PROVE  Opens(e[i]) = None
    BY <1>3, <1>4 DEF OnlyLastOpens
  <2>1. Opens(h.entries[i]) = None
    BY DEF OnlyLastOpens
  <2>. QED  BY <2>1, <1>5 DEF Here
<1>8. Here(x) = q
  BY <1>3, <1>5 DEF Here
<1>. QED  BY <1>6, <1>7, <1>8 DEF x

(* An entry is pushed on one that opens nothing.                           *)
LEMMA PushOK ==
  ASSUME NEW h, HistoryOK(h), OnlyLastOpens(h), NEW q, Opens(Here(h)) = None
  PROVE  HistoryOK(PushState(h, q)) /\ OnlyLastOpens(PushState(h, q))
<1> DEFINE below == SubSeq(h.entries, 1, h.pos)
           e == Append(below, q)
           x == PushState(h, q)
<1>1. PICK S : h.entries \in Seq(S)
  BY DEF HistoryOK
<1>2. h.pos \in 1..Len(h.entries)
  BY DEF HistoryOK
<1>3. /\ below \in Seq(S \cup {q}) /\ Len(below) = h.pos
      /\ \A i \in 1..h.pos : below[i] = h.entries[i]
  <2>1. h.entries \in Seq(S \cup {q}) /\ Len(h.entries) \in Nat
    BY <1>1
  <2>. QED  BY <2>1, <1>2, SubSeqProperties
<1> HIDE DEF below
<1>4. /\ e \in Seq(S \cup {q}) /\ Len(e) = h.pos + 1
      /\ \A i \in 1..h.pos : e[i] = h.entries[i]
  BY <1>3, AppendProperties
<1>5. x = [entries |-> e, pos |-> h.pos + 1]
  BY DEF PushState, below
<1> HIDE DEF e, x
<1>6. HistoryOK(x)
  BY <1>1, <1>2, <1>4, <1>5 DEF HistoryOK
<1>7. OnlyLastOpens(x)
  <2> SUFFICES ASSUME NEW i \in 1..Len(e), i < Len(e)
               PROVE  Opens(e[i]) = None
    BY <1>5 DEF OnlyLastOpens
  <2>1. i \in 1..h.pos /\ i \in 1..Len(h.entries)
    BY <1>1, <1>2, <1>4
  <2>2. CASE i = h.pos
    BY <2>1, <2>2, <1>4 DEF Here
  <2>3. CASE i # h.pos
    <3>1. i < Len(h.entries)
      BY <2>1, <2>3, <1>1, <1>2
    <3>. QED  BY <2>1, <3>1, <1>4 DEF OnlyLastOpens
  <2>. QED  BY <2>2, <2>3
<1>. QED  BY <1>6, <1>7 DEF x

(* What setURLState makes of view and detail.                              *)
LEMMA SetURLStateIs ==
  ASSUME NEW h, NEW partial
  PROVE  \E q :
           /\ q.detail = IF "detail" \in DOMAIN partial THEN partial["detail"]
                         ELSE ParseURL(Here(h)).detail
           /\ \/ SetURLState(h, partial) = PushState(h, q)
                   /\ \/ "view" \in DOMAIN partial
                      \/ "detail" \in DOMAIN partial /\ partial["detail"] # None
              \/ SetURLState(h, partial) = ReplaceState(h, q)
                   /\ \/ "detail" \notin DOMAIN partial
                      \/ partial["detail"] \in {None, ParseURL(Here(h)).detail}
<1> DEFINE u == ParseURL(Here(h))
           next == MergeURLState(u, partial)
           q == SerializeURL(next)
<1>1. /\ next.view = IF "view" \in DOMAIN partial THEN partial["view"] ELSE u.view
      /\ next.detail = IF "detail" \in DOMAIN partial THEN partial["detail"] ELSE u.detail
  BY DEF MergeURLState, ParseURL
<1>2. SetURLState(h, partial) = IF InferTransition(u, next) = "push"
                                THEN PushState(h, q) ELSE ReplaceState(h, q)
  BY DEF SetURLState
<1>3. q.detail = next.detail
  BY DEF SerializeURL
<1> HIDE DEF u, next, q
<1>4. CASE InferTransition(u, next) = "push"
  <2>1. u.view # next.view \/ (u.detail # next.detail /\ next.detail # None)
    BY <1>4 DEF InferTransition
  <2>. QED  BY <2>1, <1>1, <1>2, <1>3, <1>4 DEF u
<1>5. CASE InferTransition(u, next) # "push"
  <2>1. u.detail = next.detail \/ next.detail = None
    BY <1>5 DEF InferTransition
  <2>. QED  BY <2>1, <1>1, <1>2, <1>3, <1>5 DEF u
<1>. QED  BY <1>4, <1>5

(* setURLState with other keys leaves the drawer of the entry as it is.    *)
LEMMA SetKeeps ==
  ASSUME NEW h, HistoryOK(h), OnlyLastOpens(h),
         NEW partial, DOMAIN partial \cap {"view", "detail"} = {}
  PROVE  HistoryOK(SetURLState(h, partial)) /\ OnlyLastOpens(SetURLState(h, partial))
<1>1. PICK q : q.detail = ParseURL(Here(h)).detail /\ SetURLState(h, partial) = ReplaceState(h, q)
  BY SetURLStateIs
<1>2. Opens(q) = Opens(Here(h))
  BY <1>1, DatasetSlugs DEF Opens, ParseURL
<1>. QED  BY <1>1, <1>2, ReplaceOK

(* A drawer is dismissed.                                                  *)
LEMMA CloseDrawerOK ==
  ASSUME NEW h, HistoryOK(h), OnlyLastOpens(h)
  PROVE  /\ HistoryOK(CloseDrawer(h)) /\ OnlyLastOpens(CloseDrawer(h))
         /\ Opens(Here(CloseDrawer(h))) = None
<1> DEFINE partial == [detail |-> None]
<1>1. DOMAIN partial = {"detail"} /\ partial["detail"] = None
  OBVIOUS
<1>2. CloseDrawer(h) = SetURLState(h, partial)
  BY DEF CloseDrawer
<1> HIDE DEF partial
<1>3. PICK q : q.detail = None /\ SetURLState(h, partial) = ReplaceState(h, q)
  BY <1>1, SetURLStateIs
<1>4. Opens(q) = None
  BY <1>3, DatasetSlugs DEF Opens
<1>. QED  BY <1>2, <1>3, <1>4, ReplaceOK

(* setURLState of view, or of a slug of the dataset to detail, on an entry *)
(* that opens nothing.                                                     *)
LEMMA SetMoves ==
  ASSUME NEW h, HistoryOK(h), OnlyLastOpens(h), Opens(Here(h)) = None,
         NEW partial, "detail" \in DOMAIN partial => partial["detail"] \in Dataset
  PROVE  HistoryOK(SetURLState(h, partial)) /\ OnlyLastOpens(SetURLState(h, partial))
<1>1. PICK q :
        /\ q.detail = IF "detail" \in DOMAIN partial THEN partial["detail"]
                      ELSE ParseURL(Here(h)).detail
        /\ \/ SetURLState(h, partial) = PushState(h, q)
           \/ SetURLState(h, partial) = ReplaceState(h, q)
                /\ \/ "detail" \notin DOMAIN partial
                   \/ partial["detail"] \in {None, ParseURL(Here(h)).detail}
  BY SetURLStateIs
<1>2. CASE SetURLState(h, partial) = PushState(h, q)
  BY <1>2, PushOK
<1>3. CASE /\ SetURLState(h, partial) = ReplaceState(h, q)
           /\ \/ "detail" \notin DOMAIN partial
              \/ partial["detail"] \in {None, ParseURL(Here(h)).detail}
  <2>1. q.detail = ParseURL(Here(h)).detail
    BY <1>1, <1>3, DatasetSlugs
  <2>2. Opens(q) = Opens(Here(h))
    BY <2>1, DatasetSlugs DEF Opens, ParseURL
  <2>. QED  BY <2>2, <1>3, ReplaceOK
<1>. QED  BY <1>1, <1>2, <1>3

LEMMA NormalizeOK ==
  ASSUME NEW h, HistoryOK(h), OnlyLastOpens(h)
  PROVE  /\ HistoryOK(NormalizeIfNeeded(h)) /\ OnlyLastOpens(NormalizeIfNeeded(h))
         /\ Opens(Here(NormalizeIfNeeded(h))) = Opens(Here(h))
BY ReplaceOK, CanonicalOpens DEF NormalizeIfNeeded

LEMMA TravelOK ==
  ASSUME HistoryOK(history), OnlyLastOpens(history), NEW to \in 1..Len(history.entries),
         NEW h, h = [history EXCEPT !.pos = to]
  PROVE  /\ HistoryOK(h) /\ OnlyLastOpens(h)
         /\ to < Len(history.entries) => Opens(Here(h)) = None
<1>1. h.entries = history.entries /\ h.pos = to
      /\ h = [entries |-> h.entries, pos |-> h.pos]
  BY DEF HistoryOK
<1>. QED  BY <1>1 DEF HistoryOK, OnlyLastOpens, Here
-----------------------------------------------------------------------------
(* The actions that change the history.                                    *)
LEMMA MountOK == ASSUME HistoryFine(history), Mount PROVE HistoryFine(history')
<1> DEFINE h == NormalizeIfNeeded(history)
           partial == [shortlist |-> ReadStored(stored)]
<1>1. history' = h \/ history' = SetURLState(h, partial)
  BY DEF Mount
<1>2. HistoryFine(h)
  BY NormalizeOK DEF HistoryFine
<1>3. DOMAIN partial \cap {"view", "detail"} = {}
  OBVIOUS
<1> HIDE DEF h, partial
<1>. QED  BY <1>1, <1>2, <1>3, SetKeeps DEF HistoryFine

LEMMA ListOK ==
  ASSUME HistoryFine(history), NEW list, Choose(list)
  PROVE  HistoryFine(history')
<1> DEFINE partial == [shortlist |-> list]
<1>1. history' = SetURLState(history, partial)
  BY DEF Choose, Commit
<1>2. DOMAIN partial \cap {"view", "detail"} = {}
  OBVIOUS
<1> HIDE DEF partial
<1>. QED  BY <1>1, <1>2, SetKeeps DEF HistoryFine

(* A click that opens nothing leaves nothing open under what it shows,     *)
(* whenever the drawer goes.                                               *)
LEMMA ClickedKeeps ==
  ASSUME HistoryFine(history), NEW d \in Dismissals,
         NEW partial, DOMAIN partial \cap {"view", "detail"} = {}
  PROVE  HistoryFine(Clicked(d, partial))
<1>1. CASE d = "before"
  <2>1. HistoryFine(CloseDrawer(history))
    BY CloseDrawerOK DEF HistoryFine
  <2>. QED  BY <1>1, <2>1, SetKeeps DEF Clicked, HistoryFine
<1>2. CASE d = "after"
  <2>1. HistoryFine(SetURLState(history, partial))
    BY SetKeeps DEF HistoryFine
  <2>. QED  BY <1>2, <2>1, CloseDrawerOK DEF Clicked, HistoryFine
<1>3. CASE d = "never"
  BY <1>3, SetKeeps DEF Clicked, HistoryFine
<1>. QED  BY <1>1, <1>2, <1>3 DEF Dismissals

(* Nor does one that opens something, once the drawer has gone.            *)
LEMMA ClickedMoves ==
  ASSUME HistoryFine(history), NEW d \in Dismissals,
         Overlay(history) = None \/ d = "before",
         NEW partial, "detail" \in DOMAIN partial => partial["detail"] \in Dataset
  PROVE  HistoryFine(Clicked(d, partial))
<1>1. CASE d = "before"
  <2>1. HistoryFine(CloseDrawer(history)) /\ Opens(Here(CloseDrawer(history))) = None
    BY CloseDrawerOK DEF HistoryFine
  <2>. QED  BY <1>1, <2>1, SetMoves DEF Clicked, HistoryFine
<1>2. CASE d # "before"
  <2>1. Overlay(history) = None /\ d = "never"
    BY <1>2 DEF Dismissals
  <2>2. Opens(Here(history)) = None
    BY <2>1, OverlayIs
  <2>. QED  BY <2>1, <2>2, SetMoves DEF Clicked, HistoryFine
<1>. QED  BY <1>1, <1>2

(* Toggling a star or a chip, clearing the filters and closing the drawer. *)
LEMMA KeepsOK ==
  ASSUME HistoryFine(history),
         \/ \E s \in Dataset : ToggleSlug(s)
         \/ CloseDetail
         \/ \E c \in UniqueCountries : ToggleChip(c)
         \/ \E b \in Buckets : ChoosePrice(b)
         \/ ClearFilters
  PROVE  HistoryFine(history')
<1>1. HistoryFine(CloseDrawer(history))
  BY CloseDrawerOK DEF HistoryFine
<1>2. ASSUME NEW s \in Dataset, ToggleSlug(s) PROVE HistoryFine(history')
  <2> DEFINE partial == [shortlist |-> Toggled(Shortlist, s)]
  <2>1. (\E d \in Dismissals : history' = Clicked(d, partial))
        /\ DOMAIN partial \cap {"view", "detail"} = {}
    BY <1>2 DEF ToggleSlug, Commit
  <2> HIDE DEF partial
  <2>. QED  BY <2>1, ClickedKeeps
<1>3. ASSUME NEW c, ToggleChip(c) PROVE HistoryFine(history')
  <2> DEFINE partial == [country |-> ToggleCountry(URL(history).country, c)]
  <2>1. (\E d \in Dismissals : history' = Clicked(d, partial))
        /\ DOMAIN partial \cap {"view", "detail"} = {}
    BY <1>3 DEF ToggleChip, Commit
  <2> HIDE DEF partial
  <2>. QED  BY <2>1, ClickedKeeps
<1>4. ASSUME ClearFilters PROVE HistoryFine(history')
  <2> DEFINE partial == [country |-> << >>]
  <2>1. (\E d \in Dismissals : history' = Clicked(d, partial))
        /\ DOMAIN partial \cap {"view", "detail"} = {}
    BY <1>4 DEF ClearFilters, Commit
  <2> HIDE DEF partial
  <2>. QED  BY <2>1, ClickedKeeps
<1>5. ASSUME CloseDetail PROVE HistoryFine(history')
  BY <1>1, <1>5 DEF CloseDetail, Commit
<1>6. ASSUME NEW b, ChoosePrice(b) PROVE HistoryFine(history')
  BY <1>1, <1>6 DEF ChoosePrice, Commit
<1>. QED  BY <1>2, <1>3, <1>4, <1>5, <1>6

(* Opening a drawer and switching the view.                                *)
LEMMA MovesOK ==
  ASSUME HistoryFine(history), ~stacked',
         (\E s \in Dataset : OpenDetail(s)) \/ (\E v \in Views : SwitchView(v))
  PROVE  HistoryFine(history')
<1>1. ASSUME NEW s \in Dataset, OpenDetail(s) PROVE HistoryFine(history')
  <2> DEFINE partial == [detail |-> s]
  <2>1. PICK d \in Dismissals : history' = Clicked(d, partial) /\ Stacks(d)
    BY <1>1 DEF OpenDetail, Commit
  <2>2. partial["detail"] \in Dataset
    OBVIOUS
  <2> HIDE DEF partial
  <2>3. Overlay(history) = None \/ d = "before"
    BY <2>1 DEF Stacks
  <2>. QED  BY <2>1, <2>2, <2>3, ClickedMoves
<1>2. ASSUME NEW v \in Views, SwitchView(v) PROVE HistoryFine(history')
  <2> DEFINE partial == [view |-> v]
  <2>1. PICK d \in Dismissals : history' = Clicked(d, partial) /\ Stacks(d)
    BY <1>2 DEF SwitchView, Commit
  <2>2. "detail" \notin DOMAIN partial
    OBVIOUS
  <2> HIDE DEF partial
  <2>3. Overlay(history) = None \/ d = "before"
    BY <2>1 DEF Stacks
  <2>. QED  BY <2>1, <2>2, <2>3, ClickedMoves
<1>. QED  BY <1>1, <1>2

(* Back, and Forward.                                                      *)
LEMMA BackOK ==
  ASSUME HistoryFine(history), Back
  PROVE  HistoryFine(history') /\ Overlay(history') = None
<1> DEFINE h == [history EXCEPT !.pos = history.pos - 1]
<1>1. history' = NormalizeIfNeeded(h) \/ history' = h
  BY DEF Back, Travel
<1>2. history.pos - 1 \in 1..Len(history.entries) /\ history.pos - 1 < Len(history.entries)
  BY DEF Back, HistoryFine, HistoryOK
<1>3. HistoryOK(h) /\ OnlyLastOpens(h) /\ Opens(Here(h)) = None
  BY <1>2, TravelOK DEF HistoryFine
<1> HIDE DEF h
<1>4. HistoryFine(history') /\ Opens(Here(history')) = None
  BY <1>1, <1>3, NormalizeOK DEF HistoryFine
<1>. QED  BY <1>4, OverlayIs

LEMMA ForwardOK ==
  ASSUME HistoryFine(history), Forward
  PROVE  HistoryFine(history')
<1> DEFINE h == [history EXCEPT !.pos = history.pos + 1]
<1>1. history' = NormalizeIfNeeded(h) \/ history' = h
  BY DEF Forward, Travel
<1>2. history.pos + 1 \in 1..Len(history.entries)
  BY DEF Forward, HistoryFine, HistoryOK
<1>3. HistoryOK(h) /\ OnlyLastOpens(h)
  BY <1>2, TravelOK DEF HistoryFine
<1> HIDE DEF h
<1>. QED  BY <1>1, <1>3, NormalizeOK DEF HistoryFine
-----------------------------------------------------------------------------
LEMMA StackedStays == ASSUME [Next]_vars, stacked PROVE stacked'
<1>1. CASE Loading \/ Retry \/ Mount \/ CloseDetail \/ ClearFilters
           \/ AcceptUrl \/ KeepStored \/ MergeLists \/ Back \/ Forward \/ Reload
           \/ UNCHANGED vars
  <2>1. UNCHANGED stacked
    BY <1>1 DEF Loading, LoadOnce, FetchSettles, ChunkSettles, ShowUnavailable, Retry, Mount,
        CloseDetail, ClearFilters, AcceptUrl, KeepStored, MergeLists, Choose, Back, Forward,
        Travel, Reload, vars
  <2>. QED  BY <2>1
<1>2. CASE \E s \in Dataset : ToggleSlug(s) \/ OpenDetail(s)
  BY <1>2 DEF ToggleSlug, OpenDetail, Stacks
<1>3. CASE \E v \in Views : SwitchView(v)
  BY <1>3 DEF SwitchView, Stacks
<1>4. CASE \/ \E c \in UniqueCountries : ToggleChip(c)
           \/ \E b \in Buckets : ChoosePrice(b)
           \/ \E list \in StoredLists \ {NoList} : OtherTab(list)
  BY <1>4 DEF ToggleChip, ChoosePrice, OtherTab
<1>. QED  BY <1>1, <1>2, <1>3, <1>4 DEF Next

LEMMA HistoryStep ==
  ASSUME stacked \/ HistoryFine(history), [Next]_vars
  PROVE  stacked' \/ HistoryFine(history')
<1> SUFFICES ASSUME HistoryFine(history), ~stacked'
             PROVE  HistoryFine(history')
  BY StackedStays
<1>1. CASE \/ Loading \/ Retry
           \/ AcceptUrl \/ Reload
           \/ \E list \in StoredLists \ {NoList} : OtherTab(list)
           \/ UNCHANGED vars
  <2>1. UNCHANGED history
    BY <1>1 DEF Loading, LoadOnce, FetchSettles, ChunkSettles, ShowUnavailable, Retry,
        AcceptUrl, Reload, OtherTab, vars
  <2>. QED  BY <2>1
<1>2. CASE Mount
  BY <1>2, MountOK
<1>3. CASE \/ \E s \in Dataset : ToggleSlug(s)
           \/ CloseDetail
           \/ \E c \in UniqueCountries : ToggleChip(c)
           \/ \E b \in Buckets : ChoosePrice(b)
           \/ ClearFilters
  BY <1>3, KeepsOK
<1>4. CASE (\E s \in Dataset : OpenDetail(s)) \/ (\E v \in Views : SwitchView(v))
  BY <1>4, MovesOK
<1>5. CASE KeepStored \/ MergeLists
  BY <1>5, ListOK DEF KeepStored, MergeLists
<1>6. CASE Back \/ Forward
  BY <1>6, BackOK, ForwardOK
<1>. QED  BY <1>1, <1>2, <1>3, <1>4, <1>5, <1>6 DEF Next

LEMMA HistoryInit == Init => HistoryFine(history)
<1> SUFFICES ASSUME Init
             PROVE  HistoryFine(history)
  OBVIOUS
<1>1. PICK q \in Links : history = [entries |-> <<q>>, pos |-> 1]
  BY DEF Init
<1>2. history.entries \in Seq({q}) /\ Len(history.entries) = 1 /\ history.pos = 1
  BY <1>1
<1>. QED  BY <1>1, <1>2 DEF HistoryFine, HistoryOK, OnlyLastOpens

(* Unless something was opened over a drawer, only the last entry of the   *)
(* history opens one: what was pushed on an entry was pushed after its     *)
(* drawer had been dismissed, and dismissed by a replacement.              *)
Layered == stacked \/ HistoryFine(history)

LEMMA HistoryInductive == Spec => []Layered
<1>1. Init => Layered
  BY HistoryInit DEF Layered
<1>2. Layered /\ [Next]_vars => Layered'
  BY HistoryStep DEF Layered
<1>. QED  BY <1>1, <1>2, PTL DEF Spec
-----------------------------------------------------------------------------
(* The rest of the types.                                                  *)
Typed ==
    /\ booted \in BOOLEAN /\ bucket \in PriceBuckets
    /\ cached \in {"none", "pending", "ready", "rejected"}
    /\ chunks \in [Chunks -> {"none", "ready", "rejected"}]
    /\ failed \in BOOLEAN
    /\ others \in 0..MaxOthers
    /\ undisturbed \in BOOLEAN /\ stacked \in BOOLEAN

LEMMA TypedInit == Init => Typed
<1>1. 0 \in 0..MaxOthers
  BY AppAssumption
<1>. QED  BY <1>1 DEF Init, Typed, PriceBuckets

LEMMA TypedStep == ASSUME Typed, [Next]_vars PROVE Typed'
<1>1. CASE LoadOnce \/ FetchSettles \/ ShowUnavailable \/ Retry
  <2>1. /\ UNCHANGED <<booted, chunks, others, undisturbed, stacked>>
        /\ bucket' \in {bucket, "any"} /\ failed' \in BOOLEAN
    BY <1>1 DEF LoadOnce, FetchSettles, ShowUnavailable, Retry, shortlistVars, Typed
  <2>2. cached' \in {"none", "pending", "ready", "rejected"}
    BY <1>1 DEF LoadOnce, FetchSettles, ShowUnavailable, Retry, InvalidateDataset, Typed
  <2>. QED  BY <2>1, <2>2 DEF Typed, PriceBuckets
<1>2. CASE \E c \in Chunks : ChunkSettles(c)
  <2>1. /\ UNCHANGED <<booted, cached, failed, others, undisturbed, stacked>>
        /\ bucket' \in {bucket, "any"}
        /\ chunks' \in [Chunks -> {"none", "ready", "rejected"}]
    BY <1>2 DEF ChunkSettles, shortlistVars, Typed
  <2>. QED  BY <2>1 DEF Typed, PriceBuckets
<1>3. CASE Mount
  BY <1>3 DEF Mount, loadVars, Typed
<1>4. CASE \/ \E s \in Dataset : ToggleSlug(s)
           \/ CloseDetail
           \/ \E c \in UniqueCountries : ToggleChip(c)
           \/ UNCHANGED vars
  <2>1. UNCHANGED <<booted, bucket, loadVars, others, undisturbed, stacked>>
    BY <1>4 DEF ToggleSlug, CloseDetail, ToggleChip, vars, shortlistVars
  <2>. QED  BY <2>1 DEF Typed, loadVars
<1>5. CASE \/ \E s \in Dataset : OpenDetail(s)
           \/ \E v \in Views : SwitchView(v)
  <2>1. UNCHANGED <<booted, loadVars, others, undisturbed>>
    BY <1>5 DEF OpenDetail, SwitchView
  <2>2. bucket' \in {bucket, "any"} /\ stacked' \in BOOLEAN
    BY <1>5 DEF OpenDetail, SwitchView, BucketAfter, Stacks, Typed
  <2>. QED  BY <2>1, <2>2 DEF Typed, PriceBuckets, loadVars
<1>6. CASE (\E b \in Buckets : ChoosePrice(b)) \/ ClearFilters
  <2>1. UNCHANGED <<booted, loadVars, others, undisturbed, stacked>>
    BY <1>6 DEF ChoosePrice, ClearFilters
  <2>2. bucket' \in PriceBuckets
    BY <1>6, AppAssumption DEF ChoosePrice, ClearFilters, PriceBuckets
  <2>. QED  BY <2>1, <2>2 DEF Typed, loadVars
<1>7. CASE AcceptUrl \/ KeepStored \/ MergeLists
  <2>1. UNCHANGED <<booted, bucket, loadVars, others, undisturbed, stacked>>
    BY <1>7 DEF AcceptUrl, KeepStored, MergeLists, Choose
  <2>. QED  BY <2>1 DEF Typed, loadVars
<1>8. CASE Back \/ Forward
  <2>1. /\ UNCHANGED <<booted, loadVars, others, stacked>>
        /\ bucket' \in {bucket, "any"} /\ undisturbed' \in BOOLEAN
    BY <1>8 DEF Back, Forward, Travel, BucketAfter, Typed
  <2>. QED  BY <2>1 DEF Typed, PriceBuckets, loadVars
<1>9. CASE Reload
  BY <1>9 DEF Reload, Typed, PriceBuckets
<1>10. CASE \E list \in StoredLists \ {NoList} : OtherTab(list)
  <2>1. /\ UNCHANGED <<booted, bucket, loadVars, stacked>> /\ undisturbed' = FALSE
        /\ others < MaxOthers /\ others' = others + 1
    BY <1>10 DEF OtherTab
  <2>2. others' \in 0..MaxOthers
    BY <2>1, AppAssumption DEF Typed
  <2>. QED  BY <2>1, <2>2 DEF Typed, loadVars
<1>. QED  BY <1>1, <1>2, <1>3, <1>4, <1>5, <1>6, <1>7, <1>8, <1>9, <1>10 DEF Next, Loading

LEMMA TypedInductive == Spec => []Typed
<1>1. Typed /\ [Next]_vars => Typed'
  BY TypedStep
<1>. QED  BY TypedInit, <1>1, PTL DEF Spec
-----------------------------------------------------------------------------
(* What the list operations return.                                        *)
LEMMA ToggledIs ==
  ASSUME NEW list \in Seq(Slugs), Len(list) <= SHORTLIST_MAX, NEW s \in Slugs
  PROVE  /\ Toggled(list, s) \in Seq(Slugs)
         /\ s \notin Members(list) =>
              LET now == Cut(Toggled(list, s))
              IN  now[Len(now)] = s /\ Len(now) \in 1..SHORTLIST_MAX
<1>1. Without(list, s) \in Seq(Slugs)
  BY WithoutIs
<1> DEFINE longer == Append(list, s)
           capped == CapWithNewest(longer)
<1>2. /\ longer \in Seq(Slugs) /\ Len(longer) = Len(list) + 1 /\ longer[Len(longer)] = s
      /\ Len(list) \in Nat
  BY AppendProperties, LenProperties
<1> HIDE DEF longer
<1>3. capped \in Seq(Slugs) /\ Len(capped) \in 1..SHORTLIST_MAX /\ capped[Len(capped)] = s
  <2>1. CASE Len(longer) <= SHORTLIST_MAX
    <3>1. capped = longer
      BY <2>1 DEF CapWithNewest
    <3>. QED  BY <2>1, <3>1, <1>2, UrlAssumption
  <2>2. CASE ~(Len(longer) <= SHORTLIST_MAX)
    <3> DEFINE from == Len(longer) - SHORTLIST_MAX + 1
    <3>1. capped = SubSeq(longer, from, Len(longer))
      BY <2>2 DEF CapWithNewest
    <3>2. /\ Len(longer) = SHORTLIST_MAX + 1 /\ SHORTLIST_MAX \in Nat \ {0}
          /\ from = 2 /\ Len(longer) \in Nat
      BY <2>2, <1>2, UrlAssumption
    <3> HIDE DEF from
    <3>3. \A i \in from..Len(longer) : longer[i] \in Slugs
      BY <1>2, <3>2, LenProperties
    <3>4. /\ SubSeq(longer, from, Len(longer)) \in Seq(Slugs)
          /\ Len(SubSeq(longer, from, Len(longer))) = SHORTLIST_MAX
          /\ \A i \in 1..SHORTLIST_MAX :
               SubSeq(longer, from, Len(longer))[i] = longer[from + i - 1]
      BY <3>2, <3>3, SubSeqProperties
    <3>5. capped \in Seq(Slugs) /\ Len(capped) = SHORTLIST_MAX
          /\ capped[SHORTLIST_MAX] = longer[from + SHORTLIST_MAX - 1]
      BY <3>1, <3>2, <3>4
    <3>6. longer[from + SHORTLIST_MAX - 1] = s
      BY <1>2, <3>2
    <3>. QED  BY <3>2, <3>5, <3>6
  <2>. QED  BY <2>1, <2>2
<1>4. Cut(capped) = capped
  BY <1>3, CutIs, UrlAssumption
<1>5. Toggled(list, s) = IF s \in Members(list) THEN Without(list, s) ELSE capped
  BY DEF Toggled, longer
<1> HIDE DEF capped
<1>. QED  BY <1>1, <1>3, <1>4, <1>5

LEMMA ToggleCountryIs ==
  ASSUME NEW list \in Seq(Countries), NEW c \in Countries
  PROVE  ToggleCountry(list, c) \in Seq(Countries)
<1>1. Distinct(list) \in Seq(Countries)
  BY DistinctIs
<1>2. Without(Distinct(list), c) \in Seq(Countries)
  BY <1>1, WithoutIs
<1>3. Append(Distinct(list), c) \in Seq(Countries)
  BY <1>1, AppendProperties
<1>. QED  BY <1>2, <1>3 DEF ToggleCountry

LEMMA MergedListIs ==
  ASSUME NEW mine \in Seq(Slugs), NEW list \in Seq(Slugs)
  PROVE  MergedList(mine, list) \in Seq(Slugs)
<1>1. Distinct(list) \in Seq(Slugs)
  BY DistinctIs
<1>2. Filter(Distinct(list), Slugs \ Members(mine)) \in Seq(Slugs)
  BY <1>1, FilterIs
<1>3. UnionOf(mine, list) \in Seq(Slugs)
  BY <1>2, ConcatProperties DEF UnionOf
<1>. QED  BY <1>3, CutIs DEF MergedList, Cut

LEMMA ReadsStored ==
  ASSUME NEW list \in Seq(Slugs)
  PROVE  /\ list # NoList /\ ReadStored(list) = list /\ SetEqual(list, list)
         /\ list \in Seq(Slugs \cup {Junk})
<1>1. list \in Seq(Slugs \cup {Junk})
  BY SeqMonotonic
<1>2. list # NoList
  BY <1>1, AppAssumption
<1>3. ValidSlugs(list) = list
  BY FilterIs DEF ValidSlugs, ParseCsv
<1>. QED  BY <1>1, <1>2, <1>3 DEF ReadStored, SetEqual
-----------------------------------------------------------------------------
(* The session history: its entries are queries.                           *)
EntriesOK(h) ==
    /\ h = [entries |-> h.entries, pos |-> h.pos]
    /\ h.entries \in Seq(Queries) /\ h.pos \in 1..Len(h.entries)

Shareable(h) == EntriesOK(h) /\ Here(h) = Canonical(Here(h))

LEMMA HereIs ==
  ASSUME NEW h, EntriesOK(h)
  PROVE  /\ Here(h) \in Queries /\ StateOK(URL(h))
         /\ Len(URL(h).shortlist) <= SHORTLIST_MAX
         /\ Cut(URL(h).shortlist) = URL(h).shortlist
<1>1. Here(h) \in Queries
  BY LenProperties DEF EntriesOK, Here
<1>. QED  BY <1>1, ParsedOK DEF URL

LEMMA ReplaceIs ==
  ASSUME NEW h, EntriesOK(h), NEW q \in Queries
  PROVE  /\ EntriesOK(ReplaceState(h, q)) /\ Here(ReplaceState(h, q)) = q
         /\ ReplaceState(h, q).pos = h.pos
<1> DEFINE e == [h.entries EXCEPT ![h.pos] = q]
           x == ReplaceState(h, q)
<1>1. h = [entries |-> h.entries, pos |-> h.pos]
  BY DEF EntriesOK
<1>2. h.entries \in Seq(Queries) /\ h.pos \in 1..Len(h.entries)
  BY DEF EntriesOK
<1>3. x = [entries |-> e, pos |-> h.pos]
  BY <1>1 DEF ReplaceState
<1>4. e \in Seq(Queries) /\ Len(e) = Len(h.entries) /\ e[h.pos] = q
  BY <1>2, ExceptSeq
<1> HIDE DEF e, x
<1>5. EntriesOK(x) /\ Here(x) = q /\ x.pos = h.pos
  BY <1>2, <1>3, <1>4 DEF EntriesOK, Here
<1>. QED  BY <1>5 DEF x

LEMMA PushIs ==
  ASSUME NEW h, EntriesOK(h), NEW q \in Queries
  PROVE  EntriesOK(PushState(h, q)) /\ Here(PushState(h, q)) = q
<1> DEFINE below == SubSeq(h.entries, 1, h.pos)
           e == Append(below, q)
           x == PushState(h, q)
<1>1. h.entries \in Seq(Queries) /\ h.pos \in 1..Len(h.entries) /\ Len(h.entries) \in Nat
  BY LenProperties DEF EntriesOK
<1>2. below \in Seq(Queries) /\ Len(below) = h.pos
  <2>1. \A i \in 1..h.pos : h.entries[i] \in Queries
    BY <1>1, LenProperties
  <2>. QED  BY <1>1, <2>1, SubSeqProperties
<1> HIDE DEF below
<1>3. e \in Seq(Queries) /\ Len(e) = h.pos + 1 /\ e[h.pos + 1] = q
  BY <1>2, AppendProperties
<1>4. x = [entries |-> e, pos |-> h.pos + 1]
  BY DEF PushState, below
<1> HIDE DEF e, x
<1>5. EntriesOK(x) /\ Here(x) = q
  BY <1>1, <1>3, <1>4 DEF EntriesOK, Here
<1>. QED  BY <1>5 DEF x

LEMMA NormalizeIs ==
  ASSUME NEW h, EntriesOK(h)
  PROVE  Shareable(NormalizeIfNeeded(h))
<1> DEFINE q == Canonical(Here(h))
<1>1. StateOK(ParseURL(Here(h)))
  BY HereIs DEF URL
<1>2. q = SerializeURL(ParseURL(Here(h)))
  BY DEF Canonical
<1>3. q \in Queries /\ Canonical(q) = q
  BY <1>1, <1>2, ReadsBack
<1>4. NormalizeIfNeeded(h) = ReplaceState(h, q)
  BY DEF NormalizeIfNeeded
<1> HIDE DEF q
<1>. QED  BY <1>3, <1>4, ReplaceIs DEF Shareable

(* What setURLState is handed, and what it makes of each key.              *)
Keys == {"view", "country", "shortlist", "detail"}
KeyType(k) == CASE k = "view" -> Views [] k = "country" -> Seq(Countries)
                [] k = "shortlist" -> Seq(Slugs) [] k = "detail" -> Slugs \cup {None}
PartialOK(partial) == \A k \in DOMAIN partial : k \in Keys /\ partial[k] \in KeyType(k)

Given(partial, k, old) == IF k \in DOMAIN partial THEN partial[k] ELSE old

LEMMA SetIs ==
  ASSUME NEW h, EntriesOK(h), NEW partial, PartialOK(partial)
  PROVE  LET x == SetURLState(h, partial)
         IN  /\ Shareable(x)
             /\ URL(x).view = Given(partial, "view", URL(h).view)
             /\ URL(x).country = Given(partial, "country", URL(h).country)
             /\ URL(x).shortlist = Cut(Given(partial, "shortlist", URL(h).shortlist))
             /\ URL(x).detail = Given(partial, "detail", URL(h).detail)
             /\ URL(x).view = URL(h).view /\ URL(x).detail \in {None, URL(h).detail}
                  => x.pos = h.pos
<1> DEFINE u == URL(h)
           next == MergeURLState(u, partial)
           q == SerializeURL(next)
           x == SetURLState(h, partial)
<1>1. StateOK(u)
  BY HereIs
<1>2. DOMAIN u = Keys
  BY DEF URL, ParseURL, Keys
<1>3. /\ next.view = Given(partial, "view", u.view)
      /\ next.country = Given(partial, "country", u.country)
      /\ next.shortlist = Given(partial, "shortlist", u.shortlist)
      /\ next.detail = Given(partial, "detail", u.detail)
  BY <1>2 DEF MergeURLState, Given, Keys
<1>4. x = IF InferTransition(u, next) = "push" THEN PushState(h, q) ELSE ReplaceState(h, q)
  BY DEF SetURLState, URL
<1> HIDE DEF u, next
<1>5. StateOK(next)
  BY <1>1, <1>3 DEF StateOK, PartialOK, KeyType, Given
<1>6. /\ q \in Queries /\ Canonical(q) = q
      /\ ParseURL(q).view = next.view /\ ParseURL(q).country = next.country
      /\ ParseURL(q).shortlist = Cut(next.shortlist) /\ ParseURL(q).detail = next.detail
  BY <1>5, ReadsBack
<1> HIDE DEF q, x
<1>7. EntriesOK(x) /\ Here(x) = q
  BY <1>4, <1>6, ReplaceIs, PushIs
<1>8. Shareable(x) /\ URL(x) = ParseURL(q)
  BY <1>6, <1>7 DEF Shareable, URL
<1>9. next.view = u.view /\ next.detail \in {None, u.detail} => x.pos = h.pos
  <2> SUFFICES ASSUME next.view = u.view, next.detail \in {None, u.detail}
               PROVE  x.pos = h.pos
    OBVIOUS
  <2>1. InferTransition(u, next) = "replace"
    BY DEF InferTransition
  <2>2. x = ReplaceState(h, q)
    BY <1>4, <2>1
  <2>. QED  BY <2>2, <1>6, ReplaceIs
<1>. QED  BY <1>3, <1>6, <1>8, <1>9 DEF x, u
-----------------------------------------------------------------------------
(* What a reload asks: the inductive invariant behind ReloadIsQuiet and    *)
(* AddressIsShareable.                                                     *)
ListsOK ==
    /\ stored \in Seq(Slugs \cup {Junk}) \/ stored = NoList
    /\ memo \in Seq(Slugs) \/ memo = NoList
    /\ collision # None => collision \in PendingCollisions
    /\ ~booted => memo = NoList /\ collision = None

(* Until another tab writes, and unless the dialog was left behind: the    *)
(* memo is what the address and the storage hold; before the first mirror  *)
(* the dialog is about the address, or there was nothing to ask.           *)
Mirrored ==
    booted /\ undisturbed =>
        /\ memo # NoList => memo = Shortlist /\ ReadStored(stored) = memo
        /\ collision # None => collision.urlSlugs = Shortlist
        /\ collision = None /\ memo = NoList => ~Collides(Shortlist, ReadStored(stored))

InStep ==
    /\ EntriesOK(history)
    /\ booted => Here(history) = Canonical(Here(history))
    /\ ListsOK /\ Mirrored

(* The mirror after any change of a running app.                           *)
LEMMA MirrorOK ==
  ASSUME InStep, booted, booted', NEW h, Shareable(h), history' = h, MirrorTo(h),
         undisturbed' => undisturbed,
         \/ collision' = None
         \/ collision' = collision /\ (undisturbed' => URL(h).shortlist = Shortlist)
  PROVE  InStep'
<1> DEFINE list == URL(h).shortlist
<1>1. list \in Seq(Slugs) /\ Shortlist' = list
  <2>1. StateOK(URL(h))
    BY HereIs DEF Shareable
  <2>2. Shortlist' = list
    BY DEF Shortlist
  <2>. QED  BY <2>1, <2>2 DEF StateOK
<1>2. MirrorTo(h) <=> IF list = memo THEN UNCHANGED <<stored, memo>>
                      ELSE stored' = list /\ memo' = list
  BY DEF MirrorTo
<1> HIDE DEF list
<1>3. list # NoList /\ ReadStored(list) = list /\ list \in Seq(Slugs \cup {Junk})
  BY <1>1, ReadsStored
<1>4. memo' = list /\ (stored' \in Seq(Slugs \cup {Junk}) \/ stored' = NoList)
  BY <1>2, <1>3 DEF InStep, ListsOK
<1>5. undisturbed' => ReadStored(stored)' = list
  <2> SUFFICES ASSUME undisturbed'
               PROVE  ReadStored(stored)' = list
    OBVIOUS
  <2>1. CASE list = memo
    <3>1. ReadStored(stored) = list /\ stored' = stored
      BY <2>1, <1>2, <1>3 DEF InStep, Mirrored
    <3>. QED  BY <3>1 DEF ReadStored
  <2>2. CASE list # memo
    <3>1. stored' = list
      BY <2>2, <1>2
    <3>. QED  BY <3>1, <1>3 DEF ReadStored
  <2>. QED  BY <2>1, <2>2
<1>6. EntriesOK(history)' /\ (Here(history) = Canonical(Here(history)))'
  BY DEF Shareable
<1>7. ListsOK'
  BY <1>1, <1>4 DEF InStep, ListsOK
<1>8. undisturbed' /\ collision' # None => collision'.urlSlugs = list
  BY DEF InStep, Mirrored, list
<1>9. Mirrored'
  BY <1>1, <1>3, <1>4, <1>5, <1>8 DEF Mirrored
<1>. QED  BY <1>6, <1>7, <1>9 DEF InStep

LEMMA InStepInit == Init => InStep
<1> SUFFICES ASSUME Init
             PROVE  InStep
  OBVIOUS
<1>1. PICK q \in Links : history = [entries |-> <<q>>, pos |-> 1]
  BY DEF Init
<1>2. q \in Queries
  BY <1>1, AppAssumption
<1>3. history.entries = <<q>> /\ history.pos = 1 /\ Len(history.entries) = 1
  BY <1>1
<1>4. EntriesOK(history)
  BY <1>1, <1>2, <1>3 DEF EntriesOK
<1>5. stored \in Seq(Slugs \cup {Junk}) \cup {NoList}
  BY AppAssumption DEF Init
<1>. QED  BY <1>4, <1>5 DEF Init, InStep, ListsOK, Mirrored

(* Mounting: the lists agree, one of them is empty, or it asks.            *)
LEMMA MountInStep == ASSUME InStep, Mount PROVE InStep'
<1> DEFINE h == NormalizeIfNeeded(history)
           mine == URL(h).shortlist
           list == ReadStored(stored)
           partial == [shortlist |-> list]
           hydrated == SetURLState(h, partial)
           final == URL(hydrated).shortlist
<1>1. /\ booted' = TRUE /\ undisturbed' = undisturbed
      /\ collision' = IF Collides(mine, list)
                      THEN [urlSlugs |-> mine, storedSlugs |-> list] ELSE None
      /\ IF Hydrates(mine, list)
         THEN /\ history' = hydrated
              /\ memo' = IF final = list THEN list ELSE final
              /\ stored' = IF final = list THEN stored ELSE final
         ELSE history' = h /\ UNCHANGED <<stored, memo>>
  BY DEF Mount
<1>2. memo = NoList /\ ~booted /\ EntriesOK(history)
  BY DEF Mount, InStep, ListsOK
<1>3. Shareable(h) /\ EntriesOK(h) /\ mine \in Seq(Slugs)
  <2>1. Shareable(h)
    BY <1>2, NormalizeIs
  <2>2. StateOK(URL(h))
    BY <2>1, HereIs DEF Shareable
  <2>. QED  BY <2>1, <2>2 DEF Shareable, StateOK
<1>4. list = NoList \/ list \in Seq(Slugs)
  <2>1. CASE stored = NoList
    BY <2>1 DEF ReadStored
  <2>2. CASE stored \in Seq(Slugs \cup {Junk})
    <3>1. Filter(stored, Slugs) \in Seq(Slugs)
      BY <2>2, FilterIs
    <3>. QED  BY <3>1 DEF ReadStored, ValidSlugs, ParseCsv
  <2>. QED  BY <2>1, <2>2 DEF InStep, ListsOK
<1>5. (Shortlist' = URL(history').shortlist) /\ (ReadStored(stored)' = ReadStored(stored'))
  BY DEF Shortlist, ReadStored
<1> HIDE DEF h, mine, list
<1>6. CASE Hydrates(mine, list)
  <2>1. mine = << >> /\ list # NoList /\ list \in Seq(Slugs)
    BY <1>6, <1>4 DEF Hydrates, SomeStored
  <2>2. PartialOK(partial)
    BY <2>1 DEF PartialOK, Keys, KeyType
  <2> HIDE DEF partial
  <2>3. Shareable(hydrated)
    BY <1>3, <2>2, SetIs
  <2> HIDE DEF hydrated
  <2>4. final \in Seq(Slugs)
    <3>1. StateOK(URL(hydrated))
      BY <2>3, HereIs DEF Shareable
    <3>. QED  BY <3>1 DEF StateOK
  <2>5. collision' = None
    BY <1>1, <2>1 DEF Collides
  <2>6. /\ history' = hydrated /\ memo' = final
        /\ stored' = IF final = list THEN stored ELSE final
    BY <1>1, <1>6
  <2>7. Shortlist' = final
    BY <2>6, <1>5
  <2> HIDE DEF final
  <2>8. final # NoList /\ ReadStored(final) = final /\ final \in Seq(Slugs \cup {Junk})
    BY <2>4, ReadsStored
  <2>9. ReadStored(stored)' = final
    <3>1. CASE final = list
      BY <3>1, <2>6, <1>5 DEF list
    <3>2. CASE final # list
      BY <3>2, <2>6, <2>8, <1>5
    <3>. QED  BY <3>1, <3>2
  <2>10. ListsOK'
    BY <2>4, <2>5, <2>6, <2>8, <1>1 DEF ListsOK, InStep
  <2>11. Mirrored'
    BY <2>5, <2>6, <2>7, <2>8, <2>9 DEF Mirrored
  <2>. QED  BY <2>3, <2>6, <2>10, <2>11 DEF InStep, Shareable
<1>7. CASE ~Hydrates(mine, list)
  <2>1. history' = h /\ stored' = stored /\ memo' = NoList
    BY <1>1, <1>2, <1>7
  <2>2. Shortlist' = mine /\ ReadStored(stored)' = list
    BY <2>1, <1>5 DEF mine, list
  <2>3. CASE Collides(mine, list)
    <3>1. collision' = [urlSlugs |-> mine, storedSlugs |-> list] /\ list \in Seq(Slugs)
      BY <2>3, <1>1, <1>4 DEF Collides, SomeStored
    <3>2. collision' \in PendingCollisions /\ collision' # None
      BY <3>1, <1>3, AppAssumption DEF PendingCollisions
    <3>3. ListsOK'
      BY <3>2, <2>1, <1>1, <1>3 DEF ListsOK, InStep
    <3>4. Mirrored'
      BY <3>1, <3>2, <2>1, <2>2 DEF Mirrored
    <3>. QED  BY <3>3, <3>4, <2>1, <1>3 DEF InStep, Shareable
  <2>4. CASE ~Collides(mine, list)
    <3>1. collision' = None
      BY <2>4, <1>1
    <3>3. ListsOK'
      BY <3>1, <2>1, <1>1 DEF ListsOK, InStep
    <3>4. Mirrored'
      <4>1. ~Collides(Shortlist', ReadStored(stored)')
        BY <2>4, <2>2
      <4>. QED  BY <4>1, <3>1, <2>1 DEF Mirrored, Collides, SomeStored, SetEqual
    <3>. QED  BY <3>3, <3>4, <2>1, <1>3 DEF InStep, Shareable
  <2>. QED  BY <2>3, <2>4
<1>. QED  BY <1>6, <1>7
-----------------------------------------------------------------------------
(* Dismissing the drawer changes nothing but the drawer.                   *)
LEMMA CloseDrawerIs ==
  ASSUME NEW h, EntriesOK(h)
  PROVE  LET x == CloseDrawer(h)
         IN  /\ Shareable(x) /\ x.pos = h.pos
             /\ URL(x).view = URL(h).view /\ URL(x).country = URL(h).country
             /\ URL(x).shortlist = URL(h).shortlist /\ URL(x).detail = None
<1> DEFINE partial == [detail |-> None]
           x == SetURLState(h, partial)
<1>1. PartialOK(partial)
  BY DEF PartialOK, Keys, KeyType
<1>2. Given(partial, "detail", URL(h).detail) = None
  BY DEF Given
<1>3. \A k, old : k # "detail" => Given(partial, k, old) = old
  BY DEF Given
<1> HIDE DEF partial
<1>4. /\ Shareable(x)
      /\ URL(x).view = Given(partial, "view", URL(h).view)
      /\ URL(x).country = Given(partial, "country", URL(h).country)
      /\ URL(x).shortlist = Cut(Given(partial, "shortlist", URL(h).shortlist))
      /\ URL(x).detail = Given(partial, "detail", URL(h).detail)
      /\ URL(x).view = URL(h).view /\ URL(x).detail \in {None, URL(h).detail}
           => x.pos = h.pos
  BY <1>1, SetIs
<1>5. Cut(URL(h).shortlist) = URL(h).shortlist
  BY HereIs
<1>6. CloseDrawer(h) = x
  BY DEF CloseDrawer, partial
<1> HIDE DEF x
<1>. QED  BY <1>2, <1>3, <1>4, <1>5, <1>6

(* setURLState of one key.                                                 *)
LEMMA SetOne ==
  ASSUME NEW h, EntriesOK(h), NEW k \in Keys, NEW v \in KeyType(k),
         NEW partial, DOMAIN partial = {k}, partial[k] = v
  PROVE  LET x == SetURLState(h, partial)
         IN  /\ Shareable(x)
             /\ URL(x).country = IF k = "country" THEN v ELSE URL(h).country
             /\ URL(x).shortlist = IF k = "shortlist" THEN Cut(v) ELSE URL(h).shortlist
             /\ k \notin {"view", "detail"} => x.pos = h.pos
<1> DEFINE x == SetURLState(h, partial)
<1>1. PartialOK(partial)
  BY DEF PartialOK
<1>2. \A key, old : Given(partial, key, old) = IF key = k THEN v ELSE old
  BY DEF Given
<1>3. /\ Shareable(x)
      /\ URL(x).view = Given(partial, "view", URL(h).view)
      /\ URL(x).country = Given(partial, "country", URL(h).country)
      /\ URL(x).shortlist = Cut(Given(partial, "shortlist", URL(h).shortlist))
      /\ URL(x).detail = Given(partial, "detail", URL(h).detail)
      /\ URL(x).view = URL(h).view /\ URL(x).detail \in {None, URL(h).detail}
           => x.pos = h.pos
  BY <1>1, SetIs
<1>4. Cut(URL(h).shortlist) = URL(h).shortlist
  BY HereIs
<1> HIDE DEF x
<1>. QED  BY <1>2, <1>3, <1>4 DEF x

(* A click sets its key and nothing else but the drawer, whenever that is  *)
(* dismissed.                                                              *)
LEMMA ClickedIs ==
  ASSUME EntriesOK(history), NEW d \in Dismissals, NEW k \in Keys, NEW v \in KeyType(k),
         NEW partial, DOMAIN partial = {k}, partial[k] = v
  PROVE  LET x == Clicked(d, partial)
         IN  /\ Shareable(x)
             /\ URL(x).country = IF k = "country" THEN v ELSE URL(history).country
             /\ URL(x).shortlist = IF k = "shortlist" THEN Cut(v) ELSE Shortlist
             /\ k \notin {"view", "detail"} => x.pos = history.pos
<1>1. CASE d = "never"
  <2>1. Clicked(d, partial) = SetURLState(history, partial)
    BY <1>1 DEF Clicked
  <2>. QED  BY <2>1, SetOne DEF Shortlist
<1>2. CASE d = "before"
  <2> DEFINE h == CloseDrawer(history)
  <2>1. Clicked(d, partial) = SetURLState(h, partial)
    BY <1>2 DEF Clicked
  <2>2. /\ EntriesOK(h) /\ h.pos = history.pos
        /\ URL(h).country = URL(history).country /\ URL(h).shortlist = Shortlist
    BY CloseDrawerIs DEF Shareable, Shortlist
  <2> HIDE DEF h
  <2>. QED  BY <2>1, <2>2, SetOne
<1>3. CASE d = "after"
  <2> DEFINE h == SetURLState(history, partial)
  <2>1. Clicked(d, partial) = CloseDrawer(h)
    BY <1>3 DEF Clicked
  <2>2. /\ Shareable(h)
        /\ URL(h).country = IF k = "country" THEN v ELSE URL(history).country
        /\ URL(h).shortlist = IF k = "shortlist" THEN Cut(v) ELSE Shortlist
        /\ k \notin {"view", "detail"} => h.pos = history.pos
    BY SetOne DEF Shortlist
  <2> HIDE DEF h
  <2>3. EntriesOK(h)
    BY <2>2 DEF Shareable
  <2>. QED  BY <2>1, <2>2, <2>3, CloseDrawerIs
<1>. QED  BY <1>1, <1>2, <1>3 DEF Dismissals
-----------------------------------------------------------------------------
(* What the actions of the page commit.                                    *)
PageCommits(h) ==
    /\ booted /\ history' = h /\ MirrorTo(h)
    /\ booted' /\ collision' = collision /\ undisturbed' = undisturbed

LEMMA CommitInStep ==
  ASSUME InStep, NEW h, PageCommits(h), Shareable(h),
         collision # None => URL(h).shortlist = Shortlist
  PROVE  InStep'
BY MirrorOK DEF PageCommits

LEMMA PageInStep ==
  ASSUME InStep, Typed,
         \/ \E s \in Dataset : ToggleSlug(s) \/ OpenDetail(s)
         \/ CloseDetail
         \/ \E v \in Views : SwitchView(v)
         \/ \E c \in UniqueCountries : ToggleChip(c)
         \/ \E b \in Buckets : ChoosePrice(b)
         \/ ClearFilters
  PROVE  InStep'
<1>1. EntriesOK(history)
  BY DEF InStep
<1>2. StateOK(URL(history)) /\ Len(Shortlist) <= SHORTLIST_MAX
  BY <1>1, HereIs DEF Shortlist
<1>3. ASSUME NEW k \in Keys, NEW v \in KeyType(k),
             NEW partial, DOMAIN partial = {k}, partial[k] = v,
             NEW d \in Dismissals, PageCommits(Clicked(d, partial)), collision = None
      PROVE  InStep'
  <2> DEFINE x == Clicked(d, partial)
  <2>1. Shareable(x)
    BY <1>1, <1>3, ClickedIs
  <2>2. PageCommits(x)
    BY <1>3
  <2> HIDE DEF x
  <2>. QED  BY <2>1, <2>2, <1>3, CommitInStep
<1>4. ASSUME NEW s \in Dataset, ToggleSlug(s) PROVE InStep'
  <2> DEFINE list == Toggled(Shortlist, s)
             partial == [shortlist |-> list]
  <2>1. list \in KeyType("shortlist") /\ "shortlist" \in Keys
    BY <1>2, ToggledIs, DatasetSlugs DEF KeyType, Keys, StateOK, Shortlist
  <2>2. (\E d \in Dismissals : PageCommits(Clicked(d, partial))) /\ collision = None
    BY <1>4 DEF ToggleSlug, Commit, PageCommits, Interactive, Shown
  <2>3. DOMAIN partial = {"shortlist"} /\ partial["shortlist"] = list
    OBVIOUS
  <2> HIDE DEF list, partial
  <2>. QED  BY <2>1, <2>2, <2>3, <1>3
<1>5. ASSUME NEW s \in Dataset, OpenDetail(s) PROVE InStep'
  <2> DEFINE partial == [detail |-> s]
  <2>1. s \in KeyType("detail") /\ "detail" \in Keys
    BY DatasetSlugs DEF KeyType, Keys
  <2>2. (\E d \in Dismissals : PageCommits(Clicked(d, partial))) /\ collision = None
    BY <1>5 DEF OpenDetail, Commit, PageCommits, Interactive, Shown
  <2>3. DOMAIN partial = {"detail"} /\ partial["detail"] = s
    OBVIOUS
  <2> HIDE DEF partial
  <2>. QED  BY <2>1, <2>2, <2>3, <1>3
<1>6. ASSUME CloseDetail PROVE InStep'
  <2>1. PageCommits(CloseDrawer(history))
    BY <1>6 DEF CloseDetail, Commit, PageCommits, Shown
  <2>2. Shareable(CloseDrawer(history)) /\ URL(CloseDrawer(history)).shortlist = Shortlist
    BY <1>1, CloseDrawerIs DEF Shortlist
  <2>. QED  BY <2>1, <2>2, CommitInStep
<1>7. ASSUME NEW v \in Views, SwitchView(v) PROVE InStep'
  <2> DEFINE partial == [view |-> v]
  <2>1. v \in KeyType("view") /\ "view" \in Keys
    BY DEF KeyType, Keys
  <2>2. (\E d \in Dismissals : PageCommits(Clicked(d, partial))) /\ collision = None
    BY <1>7 DEF SwitchView, Commit, PageCommits, Interactive, Shown
  <2>3. DOMAIN partial = {"view"} /\ partial["view"] = v
    OBVIOUS
  <2> HIDE DEF partial
  <2>. QED  BY <2>1, <2>2, <2>3, <1>3
<1>8. ASSUME NEW c \in UniqueCountries, ToggleChip(c) PROVE InStep'
  <2> DEFINE list == ToggleCountry(URL(history).country, c)
             partial == [country |-> list]
  <2>0. c \in Countries
    BY GridAssumption DEF UniqueCountries
  <2>1. list \in KeyType("country") /\ "country" \in Keys
    BY <1>2, <2>0, ToggleCountryIs DEF KeyType, Keys, StateOK
  <2>2. (\E d \in Dismissals : PageCommits(Clicked(d, partial))) /\ collision = None
    BY <1>8 DEF ToggleChip, Commit, PageCommits, Interactive, Shown
  <2>3. DOMAIN partial = {"country"} /\ partial["country"] = list
    OBVIOUS
  <2> HIDE DEF list, partial
  <2>. QED  BY <2>1, <2>2, <2>3, <1>3
<1>9. ASSUME NEW b \in Buckets, ChoosePrice(b) PROVE InStep'
  <2>1. CASE UNCHANGED <<history, stored, memo>>
    <3>1. UNCHANGED <<history, stored, memo, booted, collision, undisturbed>>
      BY <1>9, <2>1 DEF ChoosePrice
    <3>. QED  BY <3>1 DEF InStep, ListsOK, Mirrored, Shortlist, ReadStored, Collides,
                          SomeStored, SetEqual
  <2>2. CASE Commit(CloseDrawer(history))
    <3>1. PageCommits(CloseDrawer(history))
      BY <1>9, <2>2 DEF ChoosePrice, Commit, PageCommits, Interactive, Shown
    <3>2. Shareable(CloseDrawer(history)) /\ URL(CloseDrawer(history)).shortlist = Shortlist
      BY <1>1, CloseDrawerIs DEF Shortlist
    <3>. QED  BY <3>1, <3>2, CommitInStep
  <2>. QED  BY <2>1, <2>2, <1>9 DEF ChoosePrice
<1>10. ASSUME ClearFilters PROVE InStep'
  <2> DEFINE partial == [country |-> << >>]
  <2>1. << >> \in KeyType("country") /\ "country" \in Keys
    BY DEF KeyType, Keys
  <2>2. (\E d \in Dismissals : PageCommits(Clicked(d, partial))) /\ collision = None
    BY <1>10 DEF ClearFilters, OffersClear, Commit, PageCommits, Interactive, Shown
  <2>3. DOMAIN partial = {"country"} /\ partial["country"] = << >>
    OBVIOUS
  <2> HIDE DEF partial
  <2>. QED  BY <2>1, <2>2, <2>3, <1>3
<1>. QED  BY <1>4, <1>5, <1>6, <1>7, <1>8, <1>9, <1>10
-----------------------------------------------------------------------------
(* The dialog.                                                             *)
LEMMA AcceptInStep == ASSUME InStep, AcceptUrl PROVE InStep'
<1>1. /\ booted /\ collision.urlSlugs \in Seq(Slugs)
      /\ stored' = collision.urlSlugs /\ memo' = collision.urlSlugs /\ collision' = None
      /\ UNCHANGED <<history, booted, undisturbed>>
  BY DEF AcceptUrl, Asked, Shown, WriteStored, InStep, ListsOK, PendingCollisions
<1> DEFINE list == collision.urlSlugs
<1>2. list # NoList /\ ReadStored(list) = list /\ list \in Seq(Slugs \cup {Junk})
  BY <1>1, ReadsStored
<1>3. undisturbed => Shortlist' = list
  BY <1>1 DEF AcceptUrl, Asked, InStep, Mirrored, Shortlist
<1> HIDE DEF list
<1>4. stored' = list /\ memo' = list /\ list \in Seq(Slugs)
  BY <1>1 DEF list
<1>5. ReadStored(stored)' = list
  BY <1>2, <1>4 DEF ReadStored
<1>6. ListsOK'
  BY <1>1, <1>2, <1>4 DEF ListsOK
<1>7. Mirrored'
  BY <1>1, <1>2, <1>3, <1>4, <1>5 DEF Mirrored
<1>. QED  BY <1>1, <1>6, <1>7 DEF InStep

LEMMA ChooseInStep ==
  ASSUME InStep, booted, NEW list \in Seq(Slugs), Choose(list)
  PROVE  InStep'
<1> DEFINE partial == [shortlist |-> list]
           x == SetURLState(history, partial)
<1>1. PartialOK(partial)
  BY DEF PartialOK, Keys, KeyType
<1>2. /\ history' = x /\ MirrorTo(x) /\ collision' = None
      /\ UNCHANGED <<booted, undisturbed>>
  BY DEF Choose, Commit
<1> HIDE DEF partial
<1>3. Shareable(x)
  BY <1>1, SetIs DEF InStep
<1> HIDE DEF x
<1>. QED  BY <1>2, <1>3, MirrorOK

LEMMA DialogInStep == ASSUME InStep, KeepStored \/ MergeLists PROVE InStep'
<1>1. booted /\ collision.urlSlugs \in Seq(Slugs) /\ collision.storedSlugs \in Seq(Slugs)
  BY DEF KeepStored, MergeLists, Asked, Shown, InStep, ListsOK, PendingCollisions
<1>2. MergedList(collision.urlSlugs, collision.storedSlugs) \in Seq(Slugs)
  BY <1>1, MergedListIs
<1>. QED  BY <1>1, <1>2, ChooseInStep DEF KeepStored, MergeLists

(* Back and Forward; before the app runs only the entry changes.           *)
LEMMA TravelInStep ==
  ASSUME InStep, Typed, NEW to \in 1..Len(history.entries), Travel(to)
  PROVE  InStep'
<1> DEFINE h == [history EXCEPT !.pos = to]
           seen == NormalizeIfNeeded(h)
<1>1. /\ IF booted THEN history' = seen /\ MirrorTo(seen)
         ELSE history' = h /\ UNCHANGED <<stored, memo>>
      /\ undisturbed' = (undisturbed /\ collision = None)
      /\ UNCHANGED <<booted, collision>>
  BY DEF Travel
<1>2. EntriesOK(h)
  BY DEF EntriesOK, InStep
<1> HIDE DEF h
<1>3. Shareable(seen)
  BY <1>2, NormalizeIs
<1> HIDE DEF seen
<1>4. CASE booted
  BY <1>1, <1>3, <1>4, MirrorOK DEF Typed
<1>5. CASE ~booted
  <2>1. history' = h /\ UNCHANGED <<stored, memo, booted, collision>>
    BY <1>1, <1>5
  <2>. QED  BY <2>1, <1>2, <1>5 DEF InStep, ListsOK, Mirrored
<1>. QED  BY <1>4, <1>5

LEMMA InStepStep == ASSUME InStep, Typed, [Next]_vars PROVE InStep'
<1>1. CASE Loading \/ Retry \/ UNCHANGED vars
  <2>1. UNCHANGED <<history, shortlistVars>>
    BY <1>1 DEF Loading, LoadOnce, FetchSettles, ChunkSettles, ShowUnavailable, Retry, vars
  <2>. QED  BY <2>1 DEF shortlistVars, InStep, ListsOK, Mirrored, Shortlist, ReadStored,
                        Collides, SomeStored, SetEqual
<1>2. CASE Mount
  BY <1>2, MountInStep
<1>3. CASE \/ \E s \in Dataset : ToggleSlug(s) \/ OpenDetail(s)
           \/ CloseDetail
           \/ \E v \in Views : SwitchView(v)
           \/ \E c \in UniqueCountries : ToggleChip(c)
           \/ \E b \in Buckets : ChoosePrice(b)
           \/ ClearFilters
  BY <1>3, PageInStep
<1>4. CASE AcceptUrl \/ KeepStored \/ MergeLists
  BY <1>4, AcceptInStep, DialogInStep
<1>5. CASE Back \/ Forward
  <2>1. history.pos \in 1..Len(history.entries) /\ Len(history.entries) \in Nat
    BY LenProperties DEF InStep, EntriesOK
  <2>2. PICK to \in 1..Len(history.entries) : Travel(to)
    BY <1>5, <2>1 DEF Back, Forward
  <2>. QED  BY <2>2, TravelInStep
<1>6. CASE Reload
  <2>1. UNCHANGED <<history, stored>> /\ booted' = FALSE /\ collision' = None /\ memo' = NoList
    BY <1>6 DEF Reload
  <2>. QED  BY <2>1 DEF InStep, ListsOK, Mirrored
<1>7. CASE \E list \in StoredLists \ {NoList} : OtherTab(list)
  <2>1. /\ UNCHANGED <<history, booted, collision, memo>>
        /\ stored' \in StoredLists /\ undisturbed' = FALSE
    BY <1>7 DEF OtherTab
  <2>. QED  BY <2>1, AppAssumption DEF InStep, ListsOK, Mirrored
<1>. QED  BY <1>1, <1>2, <1>3, <1>4, <1>5, <1>6, <1>7 DEF Next

LEMMA InStepInductive == Spec => []InStep
<1>1. InStep /\ Typed /\ [Next]_vars => InStep'
  BY InStepStep
<1>. QED  BY InStepInit, <1>1, TypedInductive, PTL DEF Spec
-----------------------------------------------------------------------------
(* The grid.  One key goes ahead of another: a missing one never does.     *)
Ahead(a, b, direction) ==
    /\ a # None
    /\ b = None \/ IF direction = "asc" THEN a < b ELSE a > b

LEMMA CompareIs ==
  ASSUME NEW a \in Nat \cup {None}, NEW b \in Nat \cup {None}, NEW direction
  PROVE  /\ CompareNumeric(a, b, direction) < 0 <=> Ahead(a, b, direction)
         /\ CompareNumeric(a, b, direction) = 0 <=> a = b
<1>1. CASE a = None \/ b = None
  BY <1>1 DEF CompareNumeric, Ahead
<1>2. CASE a # None /\ b # None
  BY <1>2 DEF CompareNumeric, Ahead
<1>. QED  BY <1>1, <1>2

Direction(sort) == IF sort \in {"name", "price_asc"} THEN "asc" ELSE "desc"

LEMMA KeyIs ==
  ASSUME NEW s \in Dataset, NEW sort \in SortValues
  PROVE  SortKey(s, sort) \in Nat \cup {None}
BY GridAssumption DEF SortKey, SortValues

(* The order of the sort on the positions of a list: by key, then by place.*)
Before(list, sort, j, i) ==
    \/ Ahead(SortKey(list[j], sort), SortKey(list[i], sort), Direction(sort))
    \/ SortKey(list[j], sort) = SortKey(list[i], sort) /\ j < i

LEMMA BeforeTotal ==
  ASSUME NEW list \in Seq(Dataset), NEW sort \in SortValues
  PROVE  /\ \A i \in DOMAIN list : ~Before(list, sort, i, i)
         /\ \A i, j \in DOMAIN list :
              i # j => Before(list, sort, i, j) \/ Before(list, sort, j, i)
         /\ \A i, j, k \in DOMAIN list :
              Before(list, sort, i, j) /\ Before(list, sort, j, k) => Before(list, sort, i, k)
<1> DEFINE key(i) == SortKey(list[i], sort)
           d == Direction(sort)
<1>1. \A i \in DOMAIN list : key(i) \in Nat \cup {None} /\ i \in Nat
  <2> SUFFICES ASSUME NEW i \in DOMAIN list
               PROVE  key(i) \in Nat \cup {None} /\ i \in Nat
    OBVIOUS
  <2>1. list[i] \in Dataset /\ i \in Nat
    BY LenProperties
  <2>. QED  BY <2>1, KeyIs
<1>2. \A i, j \in DOMAIN list :
        Before(list, sort, j, i) <=> Ahead(key(j), key(i), d) \/ (key(j) = key(i) /\ j < i)
  BY DEF Before
<1> HIDE DEF key, d
<1>3. \A i \in DOMAIN list : ~Before(list, sort, i, i)
  BY <1>1, <1>2 DEF Ahead
<1>4. ASSUME NEW i \in DOMAIN list, NEW j \in DOMAIN list, i # j
      PROVE  Before(list, sort, i, j) \/ Before(list, sort, j, i)
  <2>1. key(i) \in Nat \cup {None} /\ key(j) \in Nat \cup {None} /\ i \in Nat /\ j \in Nat
    BY <1>1
  <2>. QED  BY <2>1, <1>2, <1>4 DEF Ahead
<1>5. ASSUME NEW i \in DOMAIN list, NEW j \in DOMAIN list, NEW k \in DOMAIN list,
             Before(list, sort, i, j), Before(list, sort, j, k)
      PROVE  Before(list, sort, i, k)
  <2>1. /\ key(i) \in Nat \cup {None} /\ key(j) \in Nat \cup {None} /\ key(k) \in Nat \cup {None}
        /\ i \in Nat /\ j \in Nat /\ k \in Nat
    BY <1>1
  <2>2. Ahead(key(i), key(j), d) \/ (key(i) = key(j) /\ i < j)
    BY <1>2, <1>5
  <2>3. Ahead(key(j), key(k), d) \/ (key(j) = key(k) /\ j < k)
    BY <1>2, <1>5
  <2>4. Ahead(key(i), key(k), d) \/ (key(i) = key(k) /\ i < k)
    BY <2>1, <2>2, <2>3 DEF Ahead
  <2>. QED  BY <2>4, <1>2
<1>. QED  BY <1>3, <1>4, <1>5

(* Distinct positions come after distinct numbers of positions.            *)
LEMMA SortViewsIs ==
  ASSUME NEW list \in Seq(Dataset), NEW sort \in SortValues
  PROVE  /\ DOMAIN SortViews(list, sort) = DOMAIN list
         /\ \A m, n \in DOMAIN list : m < n =>
              \E j, i \in DOMAIN list :
                 /\ Before(list, sort, j, i)
                 /\ SortViews(list, sort)[m] = list[j] /\ SortViews(list, sort)[n] = list[i]
<1> DEFINE D == DOMAIN list
           behind(i) == {j \in D : LET c == Compare(list[j], list[i], sort)
                                   IN  c < 0 \/ (c = 0 /\ j < i)}
           at(n) == CHOOSE i \in D : Cardinality(behind(i)) = n - 1
           L == Len(list)
<1>1. D = 1..L /\ L \in Nat /\ IsFiniteSet(D) /\ Cardinality(D) = L
  <2>1. D = 1..L /\ L \in Nat
    BY LenProperties
  <2>. QED  BY <2>1, CountTo
<1>2. SortViews(list, sort) = [n \in D |-> list[at(n)]]
  BY DEF SortViews
<1>3. \A i, j \in D : j \in behind(i) <=> Before(list, sort, j, i)
  <2> SUFFICES ASSUME NEW i \in D, NEW j \in D
               PROVE  j \in behind(i) <=> Before(list, sort, j, i)
    OBVIOUS
  <2> DEFINE a == SortKey(list[j], sort)
             b == SortKey(list[i], sort)
             c == CompareNumeric(a, b, Direction(sort))
  <2>1. list[i] \in Dataset /\ list[j] \in Dataset
    BY LenProperties
  <2>2. a \in Nat \cup {None} /\ b \in Nat \cup {None}
    BY <2>1, KeyIs
  <2>3. Compare(list[j], list[i], sort) = c
    BY DEF Compare, Direction
  <2>4. j \in behind(i) <=> c < 0 \/ (c = 0 /\ j < i)
    BY <2>3
  <2>5. Before(list, sort, j, i) <=> Ahead(a, b, Direction(sort)) \/ (a = b /\ j < i)
    BY DEF Before
  <2> HIDE DEF a, b
  <2>6. (c < 0 <=> Ahead(a, b, Direction(sort))) /\ (c = 0 <=> a = b)
    BY <2>2, CompareIs
  <2>. QED  BY <2>4, <2>5, <2>6
<1>4. \A i \in D : behind(i) \subseteq D
  OBVIOUS
<1> HIDE DEF behind
<1>5. \A i \in D : IsFiniteSet(behind(i)) /\ Cardinality(behind(i)) \in Nat
  <2> SUFFICES ASSUME NEW i \in D
               PROVE  IsFiniteSet(behind(i)) /\ Cardinality(behind(i)) \in Nat
    OBVIOUS
  <2>1. IsFiniteSet(behind(i))
    BY <1>1, <1>4, FS_Subset
  <2>. QED  BY <2>1, FS_CardinalityType
<1>6. ASSUME NEW S, NEW i \in D, S \subseteq D, IsFiniteSet(S), behind(i) \subseteq S,
             \E j \in S : j \notin behind(i)
      PROVE  Cardinality(behind(i)) < Cardinality(S)
  <2>1. behind(i) # S
    BY <1>6
  <2>. QED  BY <2>1, <1>6, FS_Subset, FS_CardinalityType
<1>7. ASSUME NEW j \in D, NEW i \in D, Before(list, sort, j, i)
      PROVE  Cardinality(behind(j)) < Cardinality(behind(i))
  <2>1. behind(j) \subseteq behind(i)
    BY <1>3, <1>4, <1>7, BeforeTotal
  <2>2. j \in behind(i) /\ j \notin behind(j)
    BY <1>3, <1>7, BeforeTotal
  <2>. QED  BY <2>1, <2>2, <1>4, <1>5, <1>6
<1>8. ASSUME NEW i \in D PROVE Cardinality(behind(i)) < L
  <2>1. i \notin behind(i)
    BY <1>3, BeforeTotal
  <2>. QED  BY <2>1, <1>1, <1>4, <1>6
<1> DEFINE r == [i \in D |-> Cardinality(behind(i)) + 1]
<1>9. r \in [D -> 1..Cardinality(D)]
  BY <1>1, <1>5, <1>8
<1>10. \A i, j \in D : r[i] = r[j] => i = j
  <2> SUFFICES ASSUME NEW i \in D, NEW j \in D, r[i] = r[j], i # j
               PROVE  FALSE
    OBVIOUS
  <2>1. Cardinality(behind(i)) = Cardinality(behind(j))
    BY <1>5
  <2>2. Before(list, sort, i, j) \/ Before(list, sort, j, i)
    BY BeforeTotal
  <2>. QED  BY <2>1, <2>2, <1>5, <1>7
<1> HIDE DEF r
<1>11. \A n \in 1..Cardinality(D) : \E i \in D : r[i] = n
  BY <1>1, <1>9, <1>10, RanksAll
<1>12. \A n \in D : at(n) \in D /\ Cardinality(behind(at(n))) = n - 1
  <2> SUFFICES ASSUME NEW n \in D
               PROVE  at(n) \in D /\ Cardinality(behind(at(n))) = n - 1
    OBVIOUS
  <2>1. \E i \in D : Cardinality(behind(i)) = n - 1
    BY <1>1, <1>5, <1>11 DEF r
  <2>. QED  BY <2>1
<1> HIDE DEF at, D
<1>13. ASSUME NEW m \in D, NEW n \in D, m < n
       PROVE  Before(list, sort, at(m), at(n))
  <2>1. Cardinality(behind(at(m))) = m - 1 /\ Cardinality(behind(at(n))) = n - 1
        /\ at(m) \in D /\ at(n) \in D
    BY <1>12
  <2>2. m \in Nat /\ n \in Nat
    BY <1>1
  <2>3. at(m) # at(n)
    BY <2>1, <2>2, <1>13
  <2>4. ~Before(list, sort, at(n), at(m))
    <3> SUFFICES ASSUME Before(list, sort, at(n), at(m))
                 PROVE  FALSE
      OBVIOUS
    <3>1. Cardinality(behind(at(n))) < Cardinality(behind(at(m)))
      BY <2>1, <1>7
    <3>2. n - 1 < m - 1
      BY <2>1, <3>1
    <3>. QED  BY <2>2, <3>2, <1>13
  <2>. QED  BY <2>1, <2>3, <2>4, BeforeTotal DEF D
<1>14. DOMAIN SortViews(list, sort) = D
  BY <1>2
<1>15. ASSUME NEW m \in D, NEW n \in D, m < n
       PROVE  \E j, i \in D :
                /\ Before(list, sort, j, i)
                /\ SortViews(list, sort)[m] = list[j] /\ SortViews(list, sort)[n] = list[i]
  BY <1>2, <1>12, <1>13, <1>15
<1>. QED  BY <1>14, <1>15 DEF D

LEMMA CatalogIs == Catalog \in Seq(Dataset)
<1>1. \A i \in 1..Len(Catalog) : Catalog[i] \in Dataset
  BY GridAssumption, LenProperties DEF Dataset, Members
<1>2. Catalog = [i \in 1..Len(Catalog) |-> Catalog[i]] /\ Len(Catalog) \in Nat
  BY GridAssumption, LenProperties
<1>. QED  BY <1>1, <1>2, IsASeq

(* A filtered list keeps the order of the dataset.                         *)
Place(s) == CHOOSE i \in DOMAIN Catalog : Catalog[i] = s

LEMMA FilteredIs ==
  ASSUME NEW V
  PROVE  LET list == Filter(Catalog, V)
         IN  /\ list \in Seq(Dataset)
             /\ \A j, i \in DOMAIN list : j < i => Place(list[j]) < Place(list[i])
<1> DEFINE kept == {i \in DOMAIN Catalog : Catalog[i] \in V}
           list == Filter(Catalog, V)
<1>1. Catalog \in Seq(Dataset)
  BY CatalogIs
<1>2. list \in Seq(Dataset)
  BY <1>1, FilterIs
<1>3. list = ElementsAt(Catalog, kept) /\ kept \subseteq DOMAIN Catalog
  BY DEF Filter
<1> HIDE DEF kept, list
<1>4. DOMAIN list = 1..Cardinality(kept) /\ Cardinality(kept) \in Nat
  BY <1>1, <1>3, ElementsAtIs
<1>5. PICK at : Picks(Catalog, kept, at)
  BY <1>1, <1>3, ElementsAtIs
<1>6. \A n \in DOMAIN list : at[n] \in DOMAIN Catalog /\ list[n] = Catalog[at[n]]
  BY <1>3, <1>4, <1>5 DEF Picks
<1>7. \A n \in DOMAIN list : Place(list[n]) = at[n]
  BY <1>6, GridAssumption DEF Place
<1>8. \A j, i \in DOMAIN list : j < i => at[j] < at[i]
  BY <1>4, <1>5 DEF Picks
<1>. QED  BY <1>2, <1>7, <1>8 DEF list

LEMMA GridInOrder ==
  ASSUME NEW V, NEW sort \in SortValues
  PROVE  InOrder(SortViews(Filter(Catalog, V), sort), sort)
<1> DEFINE list == Filter(Catalog, V)
           grid == SortViews(list, sort)
<1>1. /\ list \in Seq(Dataset)
      /\ \A j, i \in DOMAIN list : j < i => Place(list[j]) < Place(list[i])
  BY FilteredIs
<1> HIDE DEF list
<1>2. /\ DOMAIN grid = DOMAIN list
      /\ \A m, n \in DOMAIN list : m < n =>
           \E j, i \in DOMAIN list :
             Before(list, sort, j, i) /\ grid[m] = list[j] /\ grid[n] = list[i]
  BY <1>1, SortViewsIs
<1> HIDE DEF grid
<1> DEFINE key(i) == SortKey(grid[i], sort)
           precedes(i, j) ==
             CASE sort \in {"name", "price_asc"} -> key(i) < key(j)
               [] OTHER -> key(i) > key(j)
<1>3. ASSUME NEW m \in DOMAIN grid, NEW n \in DOMAIN grid, m < n
      PROVE  \/ key(m) # None /\ key(n) = None
             \/ key(m) = key(n) /\ Place(grid[m]) < Place(grid[n])
             \/ key(m) # None /\ key(n) # None /\ precedes(m, n)
  <2>1. PICK j \in DOMAIN list, i \in DOMAIN list :
          Before(list, sort, j, i) /\ grid[m] = list[j] /\ grid[n] = list[i]
    BY <1>2, <1>3
  <2>2. \/ Ahead(key(m), key(n), Direction(sort))
        \/ key(m) = key(n) /\ j < i
    BY <2>1 DEF Before
  <2>3. CASE key(m) = key(n) /\ j < i
    BY <2>1, <2>3, <1>1
  <2>4. CASE Ahead(key(m), key(n), Direction(sort))
    <3>1. precedes(m, n) = IF Direction(sort) = "asc" THEN key(m) < key(n) ELSE key(m) > key(n)
      BY DEF Direction
    <3> HIDE DEF key, precedes
    <3>. QED  BY <3>1, <2>4 DEF Ahead
  <2>. QED  BY <2>2, <2>3, <2>4
<1>. QED  BY <1>3 DEF InOrder, Place, grid, list

(* Nothing is filtered out without a filter.                               *)
LEMMA NoFilterNoLoss == Members(FilterViews(<< >>, "any")) = Dataset /\ Dataset # {}
<1>1. FilterViews(<< >>, "any") = Filter(Catalog, Dataset)
  BY DEF FilterViews, MatchesBucket
<1>2. Catalog \in Seq(Slugs) /\ Catalog # << >>
  BY GridAssumption
<1>3. Filter(Catalog, Dataset) = Catalog
  BY CatalogIs, FilterIs
<1>4. 1 \in DOMAIN Catalog
  BY <1>2, LenProperties, EmptySeq
<1>. QED  BY <1>1, <1>3, <1>4 DEF Dataset, Members
-----------------------------------------------------------------------------
(* What the reader is told.                                                *)

(* The state keeps its type, the contents of every list included, and the  *)
(* entry shown is one of the history's.                                    *)
THEOREM TypeCorrect == Spec => []TypeOK
<1>1. ASSUME InStep, Typed
      PROVE  TypeOK
  <2>1. /\ history \in [entries : Seq(Queries), pos : Nat]
        /\ history.pos \in DOMAIN history.entries
    BY <1>1, LenProperties DEF InStep, EntriesOK
  <2>2. /\ stored \in Seq(Slugs \cup {Junk}) \cup {NoList}
        /\ memo \in Seq(Slugs) \cup {NoList}
        /\ collision \in PendingCollisions \cup {None}
    BY <1>1 DEF InStep, ListsOK
  <2>. QED  BY <2>1, <2>2, <1>1 DEF Typed, TypeOK
<1>2. InStep /\ Typed => TypeOK
  BY <1>1
<1>. QED  BY <1>2, InStepInductive, TypedInductive, PTL

(* Back never brings a dismissed drawer up again as long as no drawer or   *)
(* view was opened while another drawer was still up, however the links,   *)
(* the drawers, the views and the dialog were gone through before          *)
(* (useURLState.ts inferTransition: clearing detail replaces).             *)
THEOREM BackStaysClosed == Spec => BackNeverReopens
<1>1. ASSUME Layered, Back, ~stacked
      PROVE  Overlay(history') = None
  BY <1>1, BackOK DEF Layered
<1>2. Layered /\ [Next]_vars =>
        [Back /\ booted /\ ~stacked /\ Overlay(history) = None => Overlay(history') = None]_vars
  BY <1>1
<1>. QED  BY HistoryInductive, <1>2, PTL DEF Spec, BackNeverReopens

(* useShortlist: reloading the page where it stands asks nothing, whatever *)
(* lists the link and the storage held and however the dialog was left.    *)
THEOREM ReloadQuiet == Spec => []ReloadIsQuiet
<1>1. InStep => ReloadIsQuiet
  <2> SUFFICES ASSUME InStep, booted, collision = None, undisturbed
               PROVE  ~Collides(Shortlist, ReadStored(stored))
    BY DEF ReloadIsQuiet
  <2>1. CASE memo = NoList
    BY <2>1 DEF InStep, Mirrored
  <2>2. CASE memo # NoList
    <3>1. ReadStored(stored) = Shortlist
      BY <2>2 DEF InStep, Mirrored
    <3>2. SetEqual(Shortlist, Shortlist)
      BY DEF SetEqual
    <3>. QED  BY <3>1, <3>2 DEF Collides
  <2>. QED  BY <2>1, <2>2
<1>. QED  BY <1>1, InStepInductive, PTL

(* useURLState: the address of a running app is a link that reads back as  *)
(* it is, whatever the tab was opened on.                                  *)
THEOREM AddressShareable == Spec => []AddressIsShareable
<1>1. InStep => AddressIsShareable
  BY DEF InStep, AddressIsShareable
<1>. QED  BY <1>1, InStepInductive, PTL
(* useShortlist toggle: the star given at the limit is the one kept.       *)
THEOREM NewestStarKept == Spec => NewestStarSurvives
<1>1. ASSUME InStep, NEW s \in Dataset, ToggleSlug(s), s \notin Members(Shortlist)
      PROVE  LET now == URL(history').shortlist
             IN  /\ now[Len(now)] = s /\ Len(now) <= SHORTLIST_MAX
                 /\ undisturbed => stored' = now
  <2> DEFINE list == Toggled(Shortlist, s)
             partial == [shortlist |-> list]
             now == Cut(list)
  <2>1. EntriesOK(history) /\ StateOK(URL(history)) /\ Len(Shortlist) <= SHORTLIST_MAX
    BY <1>1, HereIs DEF InStep, Shortlist
  <2>2. list \in Seq(Slugs) /\ now[Len(now)] = s /\ Len(now) \in 1..SHORTLIST_MAX
    BY <1>1, <2>1, ToggledIs, DatasetSlugs DEF StateOK, Shortlist
  <2>3. list \in KeyType("shortlist") /\ "shortlist" \in Keys
        /\ DOMAIN partial = {"shortlist"} /\ partial["shortlist"] = list
    BY <2>2 DEF KeyType, Keys
  <2>4. PICK d \in Dismissals : Commit(Clicked(d, partial)) /\ booted
    BY <1>1 DEF ToggleSlug, Interactive, Shown
  <2> DEFINE x == Clicked(d, partial)
  <2> HIDE DEF list, partial
  <2>5. URL(x).shortlist = now /\ history' = x /\ MirrorTo(x)
    BY <2>1, <2>3, <2>4, ClickedIs DEF Commit
  <2> HIDE DEF x, now
  <2>6. undisturbed => stored' = now
    <3> SUFFICES ASSUME undisturbed
                 PROVE  stored' = now
      OBVIOUS
    <3>1. now # Shortlist
      <4>1. Len(now) \in DOMAIN now
        <5>1. now \in Seq(Slugs)
          BY <2>2, CutIs DEF now
        <5>. QED  BY <5>1, <2>2, LenProperties
      <4>. QED  BY <4>1, <2>2, <1>1 DEF Members
    <3>2. now # NoList
      <4>1. now \in Seq(Slugs)
        BY <2>2, CutIs DEF now
      <4>. QED  BY <4>1, ReadsStored
    <3>3. now # memo
      BY <3>1, <3>2, <1>1, <2>4 DEF InStep, Mirrored
    <3>. QED  BY <3>3, <2>4, <2>5 DEF MirrorTo
  <2>. QED  BY <2>2, <2>5, <2>6, UrlAssumption
<1>2. InStep /\ [Next]_vars =>
        [\A s \in Dataset \ Members(Shortlist) : ToggleSlug(s) =>
            LET now == URL(history').shortlist
            IN  /\ now[Len(now)] = s
                /\ Len(now) <= SHORTLIST_MAX
                /\ undisturbed => stored' = now]_vars
  BY <1>1
<1>. QED  BY InStepInductive, <1>2, PTL DEF Spec, NewestStarSurvives

(* FilterBar and CardsView: no filter is a dead end, one click clears them *)
(* all and nothing else, and the grid is in order under any sort.          *)
THEOREM FiltersClear == Spec => FiltersNeverStrand
<1>1. ASSUME Interactive, OnCards
      PROVE  /\ Cards = {} => OffersClear
             /\ \A sort \in SortValues : InOrder(SortViews(Filtered, sort), sort)
  <2>1. Cards = {} => HasActiveFilters
    BY NoFilterNoLoss DEF Cards, Filtered, HasActiveFilters
  <2>2. \A sort \in SortValues : InOrder(SortViews(Filtered, sort), sort)
    BY GridInOrder DEF Filtered, FilterViews
  <2>. QED  BY <2>1, <2>2, <1>1 DEF OffersClear
<1>2. ASSUME InStep, ClearFilters
      PROVE  Cards' = Dataset /\ Shortlist' = Shortlist /\ history'.pos = history.pos
  <2> DEFINE partial == [country |-> << >>]
  <2>1. EntriesOK(history) /\ bucket' = "any"
    BY <1>2 DEF InStep, ClearFilters
  <2>2. << >> \in KeyType("country") /\ "country" \in Keys
        /\ DOMAIN partial = {"country"} /\ partial["country"] = << >>
    BY DEF KeyType, Keys
  <2>3. PICK d \in Dismissals : history' = Clicked(d, partial)
    BY <1>2 DEF ClearFilters, Commit
  <2> DEFINE x == Clicked(d, partial)
  <2> HIDE DEF partial
  <2>4. URL(x).country = << >> /\ URL(x).shortlist = Shortlist /\ x.pos = history.pos
    BY <2>1, <2>2, ClickedIs
  <2> HIDE DEF x
  <2>5. Cards' = Members(FilterViews(URL(x).country, "any")) /\ Shortlist' = URL(x).shortlist
        /\ history' = x
    BY <2>1, <2>3 DEF Cards, Filtered, Shortlist, x
  <2>. QED  BY <2>4, <2>5, NoFilterNoLoss
<1>3. InStep /\ [Next]_vars =>
        [ClearFilters =>
            /\ Cards' = Dataset
            /\ Shortlist' = Shortlist
            /\ history'.pos = history.pos]_vars
  BY <1>2
<1>4. Interactive /\ OnCards =>
            /\ Cards = {} => OffersClear
            /\ \A sort \in SortValues : InOrder(SortViews(Filtered, sort), sort)
  BY <1>1
<1>. QED  BY InStepInductive, <1>3, <1>4, PTL DEF Spec, FiltersNeverStrand
=============================================================================
