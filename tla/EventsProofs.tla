----------------------------- MODULE EventsProofs -----------------------------
(***************************************************************************)
(* Facts about finite sets of numbers, and about the filters and pages of  *)
(* Events.                                                                 *)
(***************************************************************************)
EXTENDS Events, FiniteSetTheorems, WellFoundedInduction, TLAPS

(* A finite set of numbers that is not empty has a least one.              *)
LEMMA FiniteMin ==
    ASSUME NEW S, IsFiniteSet(S), S \subseteq Int, S # {}
    PROVE  \E m \in S : \A n \in S : m <= n
<1> DEFINE Bad == {T \in SUBSET S : T # {} /\ ~ \E m \in T : \A n \in T : m <= n}
<1> SUFFICES ASSUME Bad # {} PROVE FALSE
  OBVIOUS
<1>1. IsWellFoundedOn(StrictSubsetOrdering(S), FiniteSubsetsOf(S))
  BY FS_StrictSubsetOrderingWellFounded
<1>2. FiniteSubsetsOf(S) = SUBSET S
  BY FS_FiniteSubsetsOfFinite
<1>3. PICK T \in Bad : \A U \in Bad : ~(<<U, T>> \in StrictSubsetOrdering(S))
  <2>1. Bad \subseteq FiniteSubsetsOf(S)
    BY <1>2
  <2> HIDE DEF Bad
  <2> QED
    BY <1>1, <2>1, WFMin
<1>4. PICK x \in T : TRUE
  OBVIOUS
<1>5. T \ {x} # {}
  BY <1>4
<1>6. T \ {x} \notin Bad
  BY <1>3, <1>4 DEF StrictSubsetOrdering
<1>7. PICK m \in T \ {x} : \A n \in T \ {x} : m <= n
  BY <1>5, <1>6
<1>8. CASE m <= x
  BY <1>7, <1>8
<1>9. CASE ~(m <= x)
  BY <1>4, <1>7, <1>9
<1> QED
  BY <1>8, <1>9

(* ... and a greatest.                                                     *)
LEMMA FiniteMax ==
    ASSUME NEW S, IsFiniteSet(S), S \subseteq Int, S # {}
    PROVE  \E m \in S : \A n \in S : m >= n
<1> DEFINE f == [n \in S |-> 0 - n]
           N == {0 - n : n \in S}
<1>1. f \in Surjection(S, N)
  BY DEF Surjection
<1>2. IsFiniteSet(N)
  <2> HIDE DEF f, N
  <2> QED
    BY <1>1, FS_Surjection
<1>3. N \subseteq Int /\ N # {}
  OBVIOUS
<1>4. PICK m \in N : \A n \in N : m <= n
  <2> HIDE DEF N
  <2> QED
    BY <1>2, <1>3, FiniteMin
<1>5. PICK k \in S : m = 0 - k
  BY <1>4
<1>6. ASSUME NEW n \in S PROVE k >= n
  <2>1. m <= 0 - n
    BY <1>4
  <2> QED
    BY <1>5, <2>1
<1> QED
  BY <1>6

(* The cursor of a page is the timestamp of one of its rows, and none is    *)
(* older.                                                                  *)
LEMMA OldestIsLeast ==
    ASSUME NEW rows, NEW T, IsFiniteSet(T), T # {}, \A t \in T : rows[t].ts \in Int
    PROVE  /\ \E t \in T : OldestTs(rows, T) = rows[t].ts
           /\ \A t \in T : OldestTs(rows, T) <= rows[t].ts
<1> DEFINE N == {rows[t].ts : t \in T}
           f == [t \in T |-> rows[t].ts]
<1>1. f \in Surjection(T, N)
  BY DEF Surjection
<1>2. IsFiniteSet(N)
  <2> HIDE DEF f, N
  <2> QED
    BY <1>1, FS_Surjection
<1>3. \E ts \in N : \A n \in N : ts <= n
  <2>1. N \subseteq Int /\ N # {}
    OBVIOUS
  <2> HIDE DEF N
  <2> QED
    BY <1>2, <2>1, FiniteMin
<1>4. \E ts \in N : \A t \in T : ts <= rows[t].ts
  BY <1>3
<1> QED
  BY <1>4 DEF OldestTs

(***************************************************************************)
(* In a finite set with a strict total order, as many elements have fewer  *)
(* than n before them as there are, up to n: counting those before is a    *)
(* bijection to the numbers below the size of the set.                     *)
(***************************************************************************)
LEMMA FirstOnes ==
    ASSUME NEW S, IsFiniteSet(S), NEW before \in [S -> SUBSET S], NEW n \in Nat,
           \A x \in S : x \notin before[x],
           \A x, y, z \in S : x \in before[y] /\ y \in before[z] => x \in before[z],
           \A x, y \in S : x = y \/ x \in before[y] \/ y \in before[x]
    PROVE  FillsUpTo({x \in S : Cardinality(before[x]) < n}, n, S)
<1> DEFINE size == Cardinality(S)
           rank == [x \in S |-> Cardinality(before[x])]
           top == IF size < n THEN size ELSE n
           F == {x \in S : Cardinality(before[x]) < n}
<1>1. size \in Nat
  BY FS_CardinalityType
<1>2. \A x \in S : IsFiniteSet(before[x]) /\ Cardinality(before[x]) \in Nat
  BY FS_Subset, FS_CardinalityType
<1>3. ASSUME NEW x \in S PROVE Cardinality(before[x]) < size
  <2>1. before[x] \subseteq S \ {x}
    OBVIOUS
  <2>2. IsFiniteSet(S \ {x}) /\ Cardinality(S \ {x}) = size - 1
    BY FS_RemoveElement
  <2>3. Cardinality(before[x]) <= size - 1
    BY <2>1, <2>2, FS_Subset
  <2> QED
    BY <1>1, <1>2, <2>3
<1>4. ASSUME NEW x \in S, NEW y \in S, x \in before[y]
      PROVE  Cardinality(before[x]) < Cardinality(before[y])
  <2>1. before[x] \subseteq before[y] \ {x}
    BY <1>4
  <2>2. /\ IsFiniteSet(before[y] \ {x})
        /\ Cardinality(before[y] \ {x}) = Cardinality(before[y]) - 1
    BY <1>2, <1>4, FS_RemoveElement
  <2>3. Cardinality(before[x]) <= Cardinality(before[y]) - 1
    BY <2>1, <2>2, FS_Subset
  <2> QED
    BY <1>2, <2>3
<1>5. \A x, y \in S : x # y => rank[x] # rank[y]
  BY <1>2, <1>4
<1>6. rank \in Injection(S, 0 .. size - 1)
  <2>1. rank \in [S -> 0 .. size - 1]
    BY <1>1, <1>2, <1>3
  <2> QED
    BY <1>5, <2>1 DEF Injection, IsInjective
<1>7. rank \in Surjection(S, 0 .. size - 1)
  <2>1. IsFiniteSet(0 .. size - 1) /\ Cardinality(0 .. size - 1) = size
    BY <1>1, FS_Interval
  <2> HIDE DEF rank
  <2> QED
    BY <1>6, <2>1, FS_Injection
<1>8. [x \in F |-> rank[x]] \in Surjection(F, 0 .. top - 1)
  <2>1. \A x \in F : rank[x] \in 0 .. top - 1
    BY <1>1, <1>2, <1>3
  <2>2. ASSUME NEW i \in 0 .. top - 1 PROVE \E x \in F : rank[x] = i
    <3>1. i \in 0 .. size - 1 /\ i < n
      BY <1>1
    <3>2. PICK x \in S : rank[x] = i
      BY <1>7, <3>1 DEF Surjection
    <3> QED
      BY <3>1, <3>2
  <2> QED
    BY <2>1, <2>2 DEF Surjection
<1>9. [x \in F |-> rank[x]] \in Injection(F, 0 .. top - 1)
  <2>1. \A x \in F : rank[x] \in 0 .. top - 1
    BY <1>1, <1>2, <1>3
  <2> QED
    BY <1>5, <2>1 DEF Injection, IsInjective
<1>10. IsFiniteSet(F)
  BY FS_Subset
<1>11. Cardinality(F) = Cardinality(0 .. top - 1)
  <2> DEFINE g == [x \in F |-> rank[x]]
  <2>1. g \in Surjection(F, 0 .. top - 1) /\ g \in Injection(F, 0 .. top - 1)
    BY <1>8, <1>9
  <2> HIDE DEF g, F
  <2> QED
    BY <1>10, <2>1, FS_Surjection
<1>12. Cardinality(0 .. top - 1) = top
  <2>1. top \in Nat
    BY <1>1
  <2>2. 0 \in Int /\ top - 1 \in Int
    BY <2>1
  <2> HIDE DEF top
  <2> QED
    BY <2>1, <2>2, FS_Interval
<1> QED
  BY <1>11, <1>12 DEF FillsUpTo
-----------------------------------------------------------------------------
(***************************************************************************)
(* Filters.                                                                *)
(***************************************************************************)
(* What is a prefix token by token is one for LIKE as well.                 *)
LEMMA PrefixIsLike ==
    ASSUME NEW p \in Text, NEW s \in Text, IsPrefix(p, s)
    PROVE  LikePrefix(p, s)
<1>1. Len(p) <= Len(s) /\ Len(p) \in Nat /\ Len(s) \in Nat
  BY DEF IsPrefix, Text
<1>2. \A i \in 1 .. Len(p) : p[i] = s[i]
  BY DEF IsPrefix, Text
<1>3. DOMAIN p = 1 .. Len(p)
  BY DEF Text
<1>4. CASE \A i \in DOMAIN p : p[i] # "%"
  BY <1>1, <1>2, <1>3, <1>4 DEF LikePrefix
<1>5. CASE ~ \A i \in DOMAIN p : p[i] # "%"
  <2> DEFINE at == [i \in DOMAIN p |-> i]
  <2>1. at \in [DOMAIN p -> 0 .. Len(s)]
    BY <1>1, <1>3
  <2>2. \A i \in DOMAIN p : at[i] = (IF i = 1 THEN 0 ELSE at[i - 1]) + 1 /\ p[i] = s[at[i]]
    BY <1>1, <1>2, <1>3
  <2>3. \A i \in DOMAIN p : at[i] >= (IF i = 1 THEN 0 ELSE at[i - 1])
    BY <1>3
  <2> HIDE DEF at
  <2> QED
    BY <1>5, <2>1, <2>2, <2>3 DEF LikePrefix
<1> QED
  BY <1>4, <1>5

(* The first place of a text with a given token, 0 if there is none.        *)
LEMMA FirstPlace ==
    ASSUME NEW S, NEW s \in Seq(S), NEW t
    PROVE  LET i == PlaceOf(t, s)
           IN \/ i = 0 /\ \A j \in DOMAIN s : s[j] # t
              \/ i \in DOMAIN s /\ s[i] = t /\ \A j \in DOMAIN s : j < i => s[j] # t
<1> DEFINE I == {j \in 1 .. Len(s) : s[j] = t}
           i == PlaceOf(t, s)
<1>1. Len(s) \in Nat /\ DOMAIN s = 1 .. Len(s)
  OBVIOUS
<1>2. i = IF I # {} THEN Min(I) ELSE 0
  BY DEF PlaceOf, SelectInSeq
<1>3. IsFiniteSet(I) /\ I \subseteq Int
  <2>1. IsFiniteSet(1 .. Len(s))
    BY <1>1, FS_Interval
  <2> QED
    BY <2>1, FS_Subset
<1>4. I # {} => Min(I) \in I /\ \A j \in I : Min(I) <= j
  <2> HIDE DEF I
  <2> QED
    BY <1>3, FiniteMin DEF Min
<1>5. CASE I = {}
  BY <1>1, <1>2, <1>5
<1>6. CASE I # {}
  <2>1. i \in I /\ \A j \in I : i <= j
    BY <1>2, <1>4, <1>6
  <2>2. i \in DOMAIN s /\ s[i] = t
    BY <1>1, <2>1
  <2>3. ASSUME NEW j \in DOMAIN s, j < i PROVE s[j] # t
    <3>1. j \in Int /\ i \in Int
      BY <1>1, <2>2
    <3>2. j \in I => i <= j
      BY <2>1
    <3> HIDE DEF i
    <3> QED
      BY <1>1, <2>3, <3>1, <3>2
  <2> QED
    BY <2>2, <2>3
<1> QED
  BY <1>5, <1>6

(* Where the payload keys a query asks for are text or numbers, SQL's       *)
(* casts read them as the other filters do.                                 *)
LEMMA PayloadsAgree ==
    ASSUME NEW payload, NEW k, NEW want, want # None,
           k \in DOMAIN payload => OneText(payload[k])
    PROVE  JsonText(payload, k) = want <=> payload_field_eq(payload, k, want)
<1>1. CASE k \notin DOMAIN payload
  BY <1>1 DEF JsonText, payload_field_eq
<1>2. CASE k \in DOMAIN payload
  <2>1. JsonText(payload, k) = payload[k].text
    BY <1>2 DEF JsonText, OneText
  <2>2. payload[k].kind \in {"string", "number"}
    BY <1>2 DEF OneText
  <2> QED
    BY <1>2, <2>1, <2>2 DEF payload_field_eq
<1> QED
  BY <1>1, <1>2

(* What the filters of S3 and memory find, SQLite's finds too, and the      *)
(* other way round, but for the differences the code has.                   *)
LEMMA FiltersAgree ==
    ASSUME NEW e, NEW p, e.event \in Text, p.event_prefix # None => p.event_prefix \in Text,
           ~TiersDiffer(e, p)
    PROVE  SqliteMatch(e, p) <=> match_event(e, p)
<1>1. p.fts = None
  BY DEF TiersDiffer
<1>2. p.event_prefix # None =>
         (LikePrefix(p.event_prefix, e.event) <=> IsPrefix(p.event_prefix, e.event))
  BY PrefixIsLike DEF TiersDiffer
<1>3. ASSUME NEW k \in payload_filters(p)
      PROVE  JsonText(e.payload, k) = p[k] <=> payload_field_eq(e.payload, k, p[k])
  <2>1. p[k] # None
    BY DEF payload_filters
  <2>2. k \in DOMAIN e.payload => OneText(e.payload[k])
    BY DEF TiersDiffer
  <2> QED
    BY <2>1, <2>2, PayloadsAgree
<1> QED
  BY <1>1, <1>2, <1>3 DEF SqliteMatch, match_event, match_event_filters

(* The part of a name up to its first dot is a prefix of it.               *)
LEMMA PrefixIsPrefix ==
    ASSUME NEW name \in Text
    PROVE  IsPrefix(PrefixOf(name), name) /\ PrefixOf(name) \in Text
<1>1. CASE Dot(name) = 0
  BY <1>1 DEF PrefixOf, IsPrefix, Text
<1>2. CASE Dot(name) # 0
  <2>1. Dot(name) \in 1 .. Len(name)
    <3>1. DOMAIN name = 1 .. Len(name)
      BY DEF Text
    <3>2. Dot(name) = PlaceOf(".", name)
      BY DEF Dot
    <3> QED
      BY <1>2, <3>1, <3>2, FirstPlace DEF Text
  <2> QED
    BY <1>2, <2>1 DEF PrefixOf, IsPrefix, Text
<1> QED
  BY <1>1, <1>2

(* A query that asks for one value of one field only finds the rows that    *)
(* have it, in either store.                                                *)
LEMMA SuggestedFinds ==
    ASSUME NEW e, e.event \in Text,
           NEW field \in {"service", "env", "event_prefix"}, NEW value,
           value = IF field = "event_prefix" THEN PrefixOf(e.event) ELSE e[field]
    PROVE  LET p == [NoFilter(1) EXCEPT ![field] = value]
           IN SqliteMatch(e, p) /\ match_event(e, p)
<1> DEFINE p == [NoFilter(1) EXCEPT ![field] = value]
<1>1. IsPrefix(PrefixOf(e.event), e.event) /\ PrefixOf(e.event) \in Text
  BY PrefixIsPrefix
<1>2. p.fts = None /\ payload_filters(p) = {} /\ p.min_severity = None
      /\ p.since = None /\ p.until = None
  BY DEF NoFilter, payload_filters, WorkKeys
<1>3. \A c \in Columns : p[c] # None => e[c] = p[c]
  BY DEF NoFilter, Columns
<1>4. p.event_prefix # None => p.event_prefix = PrefixOf(e.event)
  BY DEF NoFilter
<1>5. p.event_prefix # None =>
         IsPrefix(p.event_prefix, e.event) /\ LikePrefix(p.event_prefix, e.event)
  BY <1>1, <1>4, PrefixIsLike
<1> HIDE DEF p
<1>6. SqliteMatch(e, p) /\ match_event(e, p)
  BY <1>2, <1>3, <1>5 DEF SqliteMatch, match_event, match_event_filters, InTime
<1> QED
  BY <1>6 DEF p
-----------------------------------------------------------------------------
(***************************************************************************)
(* Pages.                                                                  *)
(***************************************************************************)
(* Rows as both stores have them: at finitely many numbered places, each    *)
(* with a timestamp.                                                       *)
RowsOK(rows) ==
    /\ IsFiniteSet(DOMAIN rows)
    /\ DOMAIN rows \subseteq Int
    /\ \A i \in DOMAIN rows : rows[i].ts \in Int

(* What a page of SQLite leaves out is older than its cursor or ties with   *)
(* it, and a page without cursor leaves nothing out.                        *)
LEMMA PageSplits ==
    ASSUME NEW rows, RowsOK(rows), NEW p, SqliteLimit(p) \in Nat \ {0}, None \notin Int,
           NEW T, IsSqliteAnswer(rows, p, T), NEW cursor,
           cursor = Page(rows, T, SqliteLimit(p)).next_cursor
    PROVE  /\ T \subseteq SqliteFound(rows, p)
           /\ cursor = None => T = SqliteFound(rows, p)
           /\ cursor # None =>
                /\ cursor \in Int
                /\ \E t \in T : rows[t].ts = cursor
                /\ \A t \in T : rows[t].ts >= cursor
                /\ \A i \in SqliteFound(rows, p) \ T : rows[i].ts <= cursor
<1> DEFINE found == SqliteFound(rows, p)
           n == SqliteLimit(p)
<1>1. found \subseteq DOMAIN rows /\ IsFiniteSet(found) /\ Cardinality(found) \in Nat
  BY FS_Subset, FS_CardinalityType DEF SqliteFound, RowsOK
<1>2. T \subseteq found /\ IsFiniteSet(T) /\ Cardinality(T) \in Nat
  BY <1>1, FS_Subset, FS_CardinalityType DEF IsSqliteAnswer
<1>3. Cardinality(T) = IF Cardinality(found) < n THEN Cardinality(found) ELSE n
  BY DEF IsSqliteAnswer, FillsUpTo
<1>4. cursor = IF Cardinality(T) = n THEN OldestTs(rows, T) ELSE None
  BY DEF Page
<1>5. CASE Cardinality(T) = n
  <2>1. T # {}
    BY <1>2, <1>5, FS_EmptySet
  <2>2. \A t \in T : rows[t].ts \in Int
    BY <1>1, <1>2 DEF RowsOK
  <2>3. /\ \E t \in T : cursor = rows[t].ts
        /\ \A t \in T : cursor <= rows[t].ts
    BY <1>2, <1>4, <1>5, <2>1, <2>2, OldestIsLeast
  <2>4. PICK t \in T : rows[t].ts = cursor
    BY <2>3
  <2>5. cursor \in Int
    BY <2>2, <2>4
  <2>6. ASSUME NEW i \in found \ T PROVE rows[i].ts <= cursor
    <3>1. rows[t].ts >= rows[i].ts
      BY <2>4, <2>6 DEF IsSqliteAnswer
    <3>2. rows[i].ts \in Int
      BY <1>1, <2>6 DEF RowsOK
    <3> QED
      BY <2>4, <2>5, <3>1, <3>2
  <2> QED
    BY <1>2, <2>2, <2>3, <2>4, <2>5, <2>6
<1>6. CASE Cardinality(T) # n
  <2>1. Cardinality(T) = Cardinality(found)
    BY <1>3, <1>6
  <2>2. T = found
    BY <1>1, <1>2, <2>1, FS_Subset
  <2> QED
    BY <1>2, <1>4, <1>6, <2>2
<1> QED
  BY <1>5, <1>6

(* Where the filters agree, memory's page is one of SQLite's.               *)
LEMMA MemoryPageIsSqlites ==
    ASSUME NEW rows, RowsOK(rows), NEW p, p.limit \in Nat, 1 <= p.limit, p.limit <= 2000,
           \A i \in DOMAIN rows : SqliteMatch(rows[i], p) <=> match_event(rows[i], p)
    PROVE  /\ IsSqlitePage(rows, p, MemoryPage(rows, p))
           /\ FillsUpTo(MemoryPage(rows, p).rows, p.limit, MemoryFound(rows, p))
<1> DEFINE found == MemoryFound(rows, p)
           before == [i \in found |-> {j \in found : Newer(rows, j, i)}]
           T == {i \in found : Cardinality(before[i]) < p.limit}
<1>1. found = SqliteFound(rows, p)
  BY DEF MemoryFound, SqliteFound
<1>2. found \subseteq DOMAIN rows /\ IsFiniteSet(found)
  BY FS_Subset DEF MemoryFound, RowsOK
<1>3. SqliteLimit(p) = p.limit /\ MemoryLimit(p) = p.limit /\ p.limit \in Nat
  BY DEF SqliteLimit, MemoryLimit
<1>4. \A i \in found : i \in Int /\ rows[i].ts \in Int
  BY <1>2 DEF RowsOK
<1>5. /\ before \in [found -> SUBSET found]
      /\ \A i, j \in found : i \in before[j] <=> Newer(rows, i, j)
  OBVIOUS
<1>6. \A i \in found : ~Newer(rows, i, i)
  BY <1>4 DEF Newer
<1>7. \A i, j, k \in found :
         Newer(rows, i, j) /\ Newer(rows, j, k) => Newer(rows, i, k)
  BY <1>4 DEF Newer
<1>8. \A i, j \in found : i = j \/ Newer(rows, i, j) \/ Newer(rows, j, i)
  BY <1>4 DEF Newer
<1>9. FillsUpTo(T, p.limit, found)
  <2> HIDE DEF found, before
  <2> QED
    BY <1>2, <1>3, <1>5, <1>6, <1>7, <1>8, FirstOnes
<1>10. ASSUME NEW t \in T, NEW i \in found \ T PROVE rows[t].ts >= rows[i].ts
  <2> SUFFICES ASSUME ~(rows[t].ts >= rows[i].ts) PROVE FALSE
    OBVIOUS
  <2>1. Newer(rows, i, t)
    BY <1>4, <1>10 DEF Newer
  <2>2. before[i] \subseteq before[t]
    BY <1>7, <1>10, <2>1
  <2>3. IsFiniteSet(before[t]) /\ IsFiniteSet(before[i])
    BY <1>2, <1>10, FS_Subset
  <2>4. Cardinality(before[i]) <= Cardinality(before[t])
    BY <2>2, <2>3, FS_Subset
  <2>5. Cardinality(before[i]) \in Nat /\ Cardinality(before[t]) \in Nat
    BY <2>3, FS_CardinalityType
  <2>6. Cardinality(before[t]) < p.limit /\ ~(Cardinality(before[i]) < p.limit)
    BY <1>10
  <2> HIDE DEF before, T
  <2> QED
    BY <1>3, <2>4, <2>5, <2>6
<1>11. MemoryPage(rows, p) = Page(rows, T, p.limit)
  <2>1. MemoryLimit(p) = p.limit
    BY <1>3
  <2>2. T = {i \in found : Cardinality({j \in found : Newer(rows, j, i)}) < p.limit}
    OBVIOUS
  <2> HIDE DEF T, found
  <2> QED
    BY <2>1, <2>2 DEF MemoryPage, found
<1>12. MemoryPage(rows, p).rows = T
  BY <1>11 DEF Page
<1>13. IsSqliteAnswer(rows, p, T)
  <2>1. T \subseteq found
    OBVIOUS
  <2> HIDE DEF T
  <2> QED
    BY <1>1, <1>3, <1>9, <1>10, <2>1 DEF IsSqliteAnswer
<1> HIDE DEF T
<1> QED
  BY <1>3, <1>9, <1>11, <1>12, <1>13 DEF IsSqlitePage
=============================================================================
