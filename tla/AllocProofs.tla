---------------------------- MODULE AllocProofs ----------------------------
(***************************************************************************)
(* Theorems on Alloc, for every set of blocks, sizes, limit and bounds of  *)
(* the cache; where no script appends to $php_errormsg at its limit.       *)
(***************************************************************************)
EXTENDS Alloc, FiniteSetTheorems, TLAPS

-----------------------------------------------------------------------------
(* The operations on the list *)

\* The headers of a state are those of finitely many blocks.
LEMMA CountBlocks ==
  ASSUME NEW m, DOMAIN m \subseteq Block
  PROVE  IsFiniteSet(DOMAIN m) /\ Cardinality(DOMAIN m) \in Nat
BY BlockAssumption, FS_Subset, FS_CardinalityType

\* A new block at the head makes the list one longer.
LEMMA LinkIsList ==
  ASSUME NEW m, DOMAIN m \subseteq Block, m \in [DOMAIN m -> Header],
         NEW h, NEW b \in Block \ DOMAIN m, NEW z \in Size, IsList(m, h, TRUE)
  PROVE  IsList(Linked(m, h, b, z), b, TRUE)
<1> DEFINE n == Cardinality(DOMAIN m)
           L == Linked(m, h, b, z)
           M == DOMAIN m \cup {b}
<1>1. n \in Nat /\ IsFiniteSet(DOMAIN m)
  BY CountBlocks
<1>2. DOMAIN L = M /\ Cardinality(M) = n + 1
  BY <1>1, FS_AddElement DEF Linked
<1>3. PICK w \in [1 .. n -> DOMAIN m] : IsWalk(m, h, TRUE, w)
  BY DEF IsList
<1> DEFINE v == [k \in 1 .. n + 1 |-> IF k = 1 THEN b ELSE w[k - 1]]
<1>4. /\ \A c \in DOMAIN m : \E k \in 1 .. n : w[k] = c
      /\ \A k, l \in 1 .. n : w[k] = w[l] => k = l
      /\ h = IF n = 0 THEN NULL ELSE w[1]
      /\ \A k \in 1 .. n : m[w[k]].pNext = IF k = n THEN NULL ELSE w[k + 1]
      /\ \A k \in 1 .. n : m[w[k]].pLast = IF k = 1 THEN NULL ELSE w[k - 1]
  BY <1>3 DEF IsWalk
<1>5. /\ L[b] = [pNext |-> h, pLast |-> NULL, size |-> z]
      /\ \A c \in DOMAIN m : /\ L[c].pNext = m[c].pNext
                             /\ L[c].pLast = IF c = h THEN b ELSE m[c].pLast
  <2>1. L[b] = [pNext |-> h, pLast |-> NULL, size |-> z]
    BY DEF Linked
  <2>2. ASSUME NEW c \in DOMAIN m
        PROVE  L[c].pNext = m[c].pNext /\ L[c].pLast = IF c = h THEN b ELSE m[c].pLast
    <3>1. L[c] = IF c = h THEN [m[c] EXCEPT !.pLast = b] ELSE m[c]
      BY DEF Linked
    <3>2. m[c] \in Header
      OBVIOUS
    <3> QED
      BY <3>1, <3>2 DEF Header
  <2> QED
    BY <2>1, <2>2
<1> HIDE DEF n, L
<1>6. v \in [1 .. n + 1 -> M]
  BY <1>1
<1>7. \A c \in M : \E k \in 1 .. n + 1 : v[k] = c
  <2>1. v[1] = b /\ 1 \in 1 .. n + 1
    BY <1>1
  <2>2. ASSUME NEW c \in DOMAIN m PROVE \E k \in 1 .. n + 1 : v[k] = c
    <3>1. PICK k \in 1 .. n : w[k] = c
      BY <1>4
    <3>2. k + 1 \in 1 .. n + 1 /\ v[k + 1] = c
      BY <1>1, <3>1
    <3> QED
      BY <3>2
  <2> QED
    BY <2>1, <2>2
<1>8. \A k, l \in 1 .. n + 1 : v[k] = v[l] => k = l
  BY <1>1, <1>4
<1>9. \A k \in 1 .. n + 1 : L[v[k]].pNext = IF k = n + 1 THEN NULL ELSE v[k + 1]
  <2>1. L[v[1]].pNext = IF 1 = n + 1 THEN NULL ELSE v[1 + 1]
    BY <1>1, <1>4, <1>5
  <2>2. ASSUME NEW k \in 2 .. n + 1
        PROVE  L[v[k]].pNext = IF k = n + 1 THEN NULL ELSE v[k + 1]
    <3>1. k - 1 \in 1 .. n /\ v[k] = w[k - 1] /\ w[k - 1] \in DOMAIN m
      BY <1>1
    <3>2. m[w[k - 1]].pNext = IF k - 1 = n THEN NULL ELSE w[(k - 1) + 1]
      BY <3>1, <1>4
    <3>3. k # n + 1 => v[k + 1] = w[k]
      BY <1>1
    <3> QED
      BY <1>1, <1>5, <3>1, <3>2, <3>3
  <2>3. \A k \in 1 .. n + 1 : k = 1 \/ k \in 2 .. n + 1
    BY <1>1
  <2> HIDE DEF v
  <2> QED
    BY <2>1, <2>2, <2>3
<1>10. \A k \in 1 .. n + 1 : L[v[k]].pLast = IF k = 1 THEN NULL ELSE v[k - 1]
  <2>1. L[v[1]].pLast = NULL
    BY <1>1, <1>5
  <2>2. ASSUME NEW k \in 2 .. n + 1 PROVE L[v[k]].pLast = v[k - 1]
    <3>1. k - 1 \in 1 .. n /\ v[k] = w[k - 1] /\ w[k - 1] \in DOMAIN m /\ n # 0
      BY <1>1
    <3>2. CASE k = 2
      BY <1>1, <1>4, <1>5, <3>1, <3>2
    <3>3. CASE k # 2
      <4>1. w[k - 1] # h
        BY <1>1, <1>4, <3>1, <3>3
      <4>2. m[w[k - 1]].pLast = w[(k - 1) - 1]
        BY <1>4, <3>1, <3>3
      <4>3. v[k - 1] = w[(k - 1) - 1]
        BY <1>1, <3>3
      <4> QED
        BY <1>5, <3>1, <4>1, <4>2, <4>3
    <3> QED
      BY <3>2, <3>3
  <2>3. \A k \in 1 .. n + 1 : k = 1 \/ k \in 2 .. n + 1
    BY <1>1
  <2> HIDE DEF v
  <2> QED
    BY <2>1, <2>2, <2>3
<1>11. IsWalk(L, b, TRUE, v)
  <2>1. b = IF n + 1 = 0 THEN NULL ELSE v[1]
    BY <1>1
  <2> HIDE DEF v
  <2> QED
    BY <1>2, <1>7, <1>8, <1>9, <1>10, <2>1 DEF IsWalk
<1> QED
  BY <1>2, <1>6, <1>11 DEF IsList, L

\* Without one of its blocks the list has the others, in the same order.
LEMMA UnlinkIsList ==
  ASSUME NEW m, DOMAIN m \subseteq Block, m \in [DOMAIN m -> Header],
         NEW h, NEW b \in DOMAIN m, IsList(m, h, TRUE)
  PROVE  IsList(Unlinked(m, h, b), HeadWithout(m, h, b), TRUE)
<1> DEFINE n == Cardinality(DOMAIN m)
           U == Unlinked(m, h, b)
           M == DOMAIN m \ {b}
           f == HeadWithout(m, h, b)
<1>1. n \in Nat /\ IsFiniteSet(DOMAIN m)
  BY CountBlocks
<1>2. DOMAIN U = M /\ Cardinality(M) = n - 1
  BY <1>1, FS_RemoveElement DEF Unlinked
<1>3. PICK w \in [1 .. n -> DOMAIN m] : IsWalk(m, h, TRUE, w)
  BY DEF IsList
<1>4. /\ \A c \in DOMAIN m : \E k \in 1 .. n : w[k] = c
      /\ \A k, l \in 1 .. n : w[k] = w[l] => k = l
      /\ h = IF n = 0 THEN NULL ELSE w[1]
      /\ \A k \in 1 .. n : m[w[k]].pNext = IF k = n THEN NULL ELSE w[k + 1]
      /\ \A k \in 1 .. n : m[w[k]].pLast = IF k = 1 THEN NULL ELSE w[k - 1]
  BY <1>3 DEF IsWalk
<1>5. PICK q \in 1 .. n : w[q] = b
  BY <1>4
<1> DEFINE v == [k \in 1 .. n - 1 |-> IF k < q THEN w[k] ELSE w[k + 1]]
<1>6. \A c \in M :
        /\ U[c].pNext = IF b # h /\ c = m[b].pLast THEN m[b].pNext ELSE m[c].pNext
        /\ U[c].pLast = IF c = m[b].pNext THEN m[b].pLast ELSE m[c].pLast
  <2> SUFFICES ASSUME NEW c \in M
               PROVE  /\ U[c].pNext = IF b # h /\ c = m[b].pLast THEN m[b].pNext ELSE m[c].pNext
                      /\ U[c].pLast = IF c = m[b].pNext THEN m[b].pLast ELSE m[c].pLast
    OBVIOUS
  <2>1. m[c] \in Header
    OBVIOUS
  <2>2. U[c] = [m[c] EXCEPT
                  !.pNext = IF b # h /\ c = m[b].pLast THEN m[b].pNext ELSE @,
                  !.pLast = IF c = m[b].pNext THEN m[b].pLast ELSE @]
    BY DEF Unlinked
  <2> QED
    BY <2>1, <2>2 DEF Header
<1>7. /\ (b = h) = (q = 1)
      /\ m[b].pNext = IF q = n THEN NULL ELSE w[q + 1]
      /\ m[b].pLast = IF q = 1 THEN NULL ELSE w[q - 1]
      /\ f = IF q = 1 THEN m[b].pNext ELSE h
  BY <1>1, <1>4, <1>5 DEF HeadWithout
<1> HIDE DEF n, U, f
<1>8. /\ v \in [1 .. n - 1 -> M]
      /\ \A k, l \in 1 .. n - 1 : v[k] = v[l] => k = l
  BY <1>1, <1>4, <1>5, SMTT(30)
<1>9. \A c \in M : \E k \in 1 .. n - 1 : v[k] = c
  <2> TAKE c \in M
  <2>1. PICK k \in 1 .. n : w[k] = c
    BY <1>4
  <2>2. CASE k < q
    <3>1. k \in 1 .. n - 1 /\ v[k] = c
      BY <1>1, <2>1, <2>2
    <3> QED
      BY <3>1
  <2>3. CASE k > q
    <3>1. k - 1 \in 1 .. n - 1 /\ v[k - 1] = c
      BY <1>1, <2>1, <2>3
    <3> QED
      BY <3>1
  <2> QED
    BY <1>5, <2>1, <2>2, <2>3
<1>10. f = IF n - 1 = 0 THEN NULL ELSE v[1]
  <2>1. CASE q = 1
    BY <1>1, <1>7, <2>1
  <2>2. CASE q # 1
    BY <1>1, <1>4, <1>7, <2>2
  <2> QED
    BY <2>1, <2>2
<1>11. \A k \in 1 .. n - 1 : U[v[k]].pNext = IF k = n - 1 THEN NULL ELSE v[k + 1]
  <2> TAKE k \in 1 .. n - 1
  <2>1. v[k] \in M /\ w[k] \in Block /\ w[k + 1] \in Block
    BY <1>1, <1>8
  <2>2. CASE k >= q
    <3>1. v[k] = w[k + 1] /\ k + 1 \in 1 .. n
      BY <1>1, <2>2
    <3>2. ~(b # h /\ v[k] = m[b].pLast)
      BY <1>1, <1>4, <1>7, <2>2, <3>1
    <3>3. m[w[k + 1]].pNext = IF k + 1 = n THEN NULL ELSE w[(k + 1) + 1]
      BY <1>4, <3>1
    <3>4. k # n - 1 => v[k + 1] = w[(k + 1) + 1]
      BY <1>1, <2>2
    <3>5. U[v[k]].pNext = m[w[k + 1]].pNext
      BY <1>6, <2>1, <3>1, <3>2
    <3>6. (k + 1 = n) = (k = n - 1)
      BY <1>1
    <3> HIDE DEF v
    <3> QED
      BY <3>3, <3>4, <3>5, <3>6
  <2>3. CASE k < q
    <3>1. v[k] = w[k] /\ k \in 1 .. n
      BY <1>1, <2>3
    <3>2. CASE k = q - 1
      <4>1. b # h /\ v[k] = m[b].pLast
        BY <1>1, <1>7, <3>1, <3>2
      <4>2. U[v[k]].pNext = IF q = n THEN NULL ELSE w[q + 1]
        BY <1>6, <1>7, <2>1, <4>1
      <4>3. k # n - 1 => v[k + 1] = w[q + 1]
        BY <1>1, <3>2
      <4> QED
        BY <1>1, <3>2, <4>2, <4>3
    <3>3. CASE k # q - 1
      <4>1. ~(b # h /\ v[k] = m[b].pLast)
        BY <1>1, <1>4, <1>7, <2>3, <3>1, <3>3
      <4>2. m[w[k]].pNext = w[k + 1] /\ k # n - 1
        BY <1>1, <1>4, <2>3, <3>3
      <4>3. v[k + 1] = w[k + 1]
        BY <1>1, <2>3, <3>3
      <4> QED
        BY <1>6, <2>1, <3>1, <4>1, <4>2, <4>3
    <3> QED
      BY <3>2, <3>3
  <2> QED
    BY <1>1, <2>2, <2>3
<1>12. \A k \in 1 .. n - 1 : U[v[k]].pLast = IF k = 1 THEN NULL ELSE v[k - 1]
  <2> TAKE k \in 1 .. n - 1
  <2>1. v[k] \in M /\ w[k] \in Block /\ w[k + 1] \in Block /\ NULL \notin Block
    BY <1>1, <1>8, BlockAssumption
  <2>2. CASE k < q
    <3>1. v[k] = w[k] /\ k \in 1 .. n
      BY <1>1, <2>2
    <3>2. v[k] # m[b].pNext
      BY <1>1, <1>4, <1>7, <2>1, <2>2, <3>1
    <3>3. k # 1 => v[k - 1] = w[k - 1]
      BY <1>1, <2>2
    <3> QED
      BY <1>4, <1>6, <2>1, <3>1, <3>2, <3>3
  <2>3. CASE k >= q
    <3>1. v[k] = w[k + 1] /\ k + 1 \in 1 .. n
      BY <1>1, <2>3
    <3>2. CASE k = q
      <4>1. v[k] = m[b].pNext
        BY <1>1, <1>7, <3>1, <3>2
      <4>2. k # 1 => v[k - 1] = w[q - 1]
        BY <1>1, <3>2
      <4> QED
        BY <1>6, <1>7, <2>1, <3>2, <4>1, <4>2
    <3>3. CASE k # q
      <4>1. v[k] # m[b].pNext
        BY <1>1, <1>4, <1>7, <2>1, <2>3, <3>1, <3>3
      <4>2. m[w[k + 1]].pLast = w[k]
        BY <1>1, <1>4, <3>1
      <4>3. k # 1 /\ v[k - 1] = w[k]
        BY <1>1, <2>3, <3>3
      <4> QED
        BY <1>6, <2>1, <3>1, <4>1, <4>2, <4>3
    <3> QED
      BY <3>2, <3>3
  <2> QED
    BY <1>1, <2>2, <2>3
<1>13. IsWalk(U, f, TRUE, v)
  <2> HIDE DEF v
  <2> QED
    BY <1>2, <1>8, <1>9, <1>10, <1>11, <1>12 DEF IsWalk
<1> QED
  BY <1>2, <1>8, <1>13 DEF IsList, U, f

\* Freeing the first block leaves the rest of the list.
LEMMA PopIsList ==
  ASSUME NEW m, DOMAIN m \subseteq Block, NEW f \in DOMAIN m, IsList(m, f, FALSE)
  PROVE  IsList([b \in DOMAIN m \ {f} |-> m[b]], m[f].pNext, FALSE)
<1> DEFINE n == Cardinality(DOMAIN m)
           P == [b \in DOMAIN m \ {f} |-> m[b]]
           M == DOMAIN m \ {f}
<1>1. n \in Nat /\ IsFiniteSet(DOMAIN m)
  BY CountBlocks
<1>2. DOMAIN P = M /\ Cardinality(M) = n - 1
  BY <1>1, FS_RemoveElement
<1>3. PICK w \in [1 .. n -> DOMAIN m] : IsWalk(m, f, FALSE, w)
  BY DEF IsList
<1>4. /\ \A c \in DOMAIN m : \E k \in 1 .. n : w[k] = c
      /\ \A k, l \in 1 .. n : w[k] = w[l] => k = l
      /\ f = IF n = 0 THEN NULL ELSE w[1]
      /\ \A k \in 1 .. n : m[w[k]].pNext = IF k = n THEN NULL ELSE w[k + 1]
  BY <1>3 DEF IsWalk
<1>5. n >= 1 /\ w[1] = f
  BY <1>1, <1>4
<1> DEFINE v == [k \in 1 .. n - 1 |-> w[k + 1]]
<1>6. \A b \in M : P[b] = m[b]
  OBVIOUS
<1> HIDE DEF n, P
<1>7. /\ v \in [1 .. n - 1 -> M]
      /\ \A k, l \in 1 .. n - 1 : v[k] = v[l] => k = l
  BY <1>1, <1>4, <1>5
<1>8. \A c \in M : \E k \in 1 .. n - 1 : v[k] = c
  <2> TAKE c \in M
  <2>1. PICK k \in 1 .. n : w[k] = c
    BY <1>4
  <2>2. k - 1 \in 1 .. n - 1 /\ v[k - 1] = c
    BY <1>1, <1>5, <2>1
  <2> QED
    BY <2>2
<1>9. m[f].pNext = IF n - 1 = 0 THEN NULL ELSE v[1]
  BY <1>1, <1>4, <1>5
<1>10. \A k \in 1 .. n - 1 : P[v[k]].pNext = IF k = n - 1 THEN NULL ELSE v[k + 1]
  <2> TAKE k \in 1 .. n - 1
  <2>1. v[k] \in M /\ v[k] = w[k + 1] /\ k + 1 \in 1 .. n
    BY <1>1, <1>7
  <2>2. m[w[k + 1]].pNext = IF k + 1 = n THEN NULL ELSE w[(k + 1) + 1]
    BY <1>4, <2>1
  <2>3. k # n - 1 => v[k + 1] = w[(k + 1) + 1]
    BY <1>1
  <2> QED
    BY <1>1, <1>6, <2>1, <2>2, <2>3
<1>11. IsWalk(P, m[f].pNext, FALSE, v)
  <2> HIDE DEF v
  <2> QED
    BY <1>2, <1>7, <1>8, <1>9, <1>10 DEF IsWalk
<1> QED
  BY <1>2, <1>7, <1>11 DEF IsList, P

\* The size of a block is of no concern to the list, and a list that need not
\* be read backwards is a list.
LEMMA SizedIsList ==
  ASSUME NEW m, m \in [DOMAIN m -> Header], NEW h, NEW c \in Call, IsList(m, h, TRUE)
  PROVE  IsList(Sized(m, c), h, TRUE)
<1>1. DOMAIN Sized(m, c) = DOMAIN m
  BY DEF Sized
<1>2. \A b \in DOMAIN m : /\ Sized(m, c)[b].pNext = m[b].pNext
                          /\ Sized(m, c)[b].pLast = m[b].pLast
  BY DEF Sized, Header
<1>3. PICK w \in [1 .. Cardinality(DOMAIN m) -> DOMAIN m] : IsWalk(m, h, TRUE, w)
  BY DEF IsList
<1>4. IsWalk(Sized(m, c), h, TRUE, w)
  BY <1>1, <1>2, <1>3 DEF IsWalk
<1> QED
  BY <1>1, <1>4 DEF IsList

LEMMA ForwardIsList ==
  ASSUME NEW m, NEW h, IsList(m, h, TRUE)
  PROVE  IsList(m, h, FALSE)
BY DEF IsList, IsWalk

\* An empty list, and no other, begins with NULL.
LEMMA EmptyIsList ==
  ASSUME NEW m, DOMAIN m \subseteq Block, NEW both \in BOOLEAN
  PROVE  /\ DOMAIN m = {} => IsList(m, NULL, both)
         /\ IsList(m, NULL, both) => DOMAIN m = {}
<1>1. DOMAIN m = {} => IsList(m, NULL, both)
  <2> SUFFICES ASSUME DOMAIN m = {} PROVE IsList(m, NULL, both)
    OBVIOUS
  <2>1. Cardinality(DOMAIN m) = 0
    BY FS_EmptySet
  <2> DEFINE w == [k \in 1 .. 0 |-> NULL]
  <2>2. w \in [1 .. Cardinality(DOMAIN m) -> DOMAIN m] /\ IsWalk(m, NULL, both, w)
    BY <2>1 DEF IsWalk
  <2> QED
    BY <2>2 DEF IsList
<1>2. IsList(m, NULL, both) => DOMAIN m = {}
  <2> SUFFICES ASSUME IsList(m, NULL, both) PROVE DOMAIN m = {}
    OBVIOUS
  <2> DEFINE n == Cardinality(DOMAIN m)
  <2>1. n \in Nat /\ IsFiniteSet(DOMAIN m) /\ NULL \notin Block
    BY CountBlocks, BlockAssumption
  <2>2. PICK w \in [1 .. n -> DOMAIN m] : IsWalk(m, NULL, both, w)
    BY DEF IsList
  <2>3. n # 0 => w[1] \in Block /\ NULL = w[1]
    BY <2>1, <2>2 DEF IsWalk
  <2>4. n = 0
    BY <2>1, <2>3
  <2> QED
    BY <2>1, <2>4, FS_EmptySet
<1> QED
  BY <1>1, <1>2

\* Linking and unlinking write pointers only.
LEMMA LinkType ==
  ASSUME NEW m, DOMAIN m \subseteq Block, m \in [DOMAIN m -> Header],
         NEW h \in Block \cup {NULL}, NEW b \in Block \ DOMAIN m, NEW z \in Size
  PROVE  /\ DOMAIN Linked(m, h, b, z) = DOMAIN m \cup {b}
         /\ Linked(m, h, b, z) \in [DOMAIN Linked(m, h, b, z) -> Header]
         /\ \A c \in DOMAIN m : Linked(m, h, b, z)[c].size = m[c].size
<1> DEFINE L == Linked(m, h, b, z)
<1>1. DOMAIN L = DOMAIN m \cup {b}
  BY DEF Linked
<1>2. L[b] \in Header
  BY DEF Linked, Header
<1>3. ASSUME NEW c \in DOMAIN m PROVE L[c] \in Header /\ L[c].size = m[c].size
  <2>1. L[c] = IF c = h THEN [m[c] EXCEPT !.pLast = b] ELSE m[c]
    BY DEF Linked
  <2>2. m[c] \in Header
    OBVIOUS
  <2> QED
    BY <2>1, <2>2 DEF Header
<1>4. L \in [DOMAIN L -> Header]
  BY <1>1, <1>2, <1>3 DEF Linked
<1> QED
  BY <1>1, <1>3, <1>4

LEMMA UnlinkType ==
  ASSUME NEW m, DOMAIN m \subseteq Block, m \in [DOMAIN m -> Header],
         NEW h \in Block \cup {NULL}, NEW b \in DOMAIN m
  PROVE  /\ DOMAIN Unlinked(m, h, b) = DOMAIN m \ {b}
         /\ Unlinked(m, h, b) \in [DOMAIN Unlinked(m, h, b) -> Header]
         /\ \A c \in DOMAIN Unlinked(m, h, b) : Unlinked(m, h, b)[c].size = m[c].size
         /\ HeadWithout(m, h, b) \in Block \cup {NULL}
<1> DEFINE U == Unlinked(m, h, b)
<1>1. DOMAIN U = DOMAIN m \ {b}
  BY DEF Unlinked
<1>2. m[b] \in Header
  OBVIOUS
<1>3. ASSUME NEW c \in DOMAIN U PROVE U[c] \in Header /\ U[c].size = m[c].size
  <2>1. U[c] = [m[c] EXCEPT
                  !.pNext = IF b # h /\ c = m[b].pLast THEN m[b].pNext ELSE @,
                  !.pLast = IF c = m[b].pNext THEN m[b].pLast ELSE @]
    BY <1>1 DEF Unlinked
  <2>2. m[c] \in Header
    BY <1>1
  <2> QED
    BY <1>2, <2>1, <2>2 DEF Header
<1>4. U \in [DOMAIN U -> Header]
  BY <1>1, <1>3 DEF Unlinked
<1>5. HeadWithout(m, h, b) \in Block \cup {NULL}
  BY <1>2 DEF HeadWithout, Header
<1> QED
  BY <1>1, <1>3, <1>4, <1>5

-----------------------------------------------------------------------------
(* The inductive invariant *)

\* Allocations wait only in a request; their blocks are nobody's yet; when
\* the request is over nothing is held.
CallInv ==
  /\ stage # "running" => calls = <<>> /\ held = {}
  /\ \A k \in DOMAIN calls : calls[k].block \notin held

IInv == /\ TypeOK /\ ListInv /\ CacheInv /\ HandedOut /\ ErrorOnce
        /\ WithinReserve /\ NothingLeft /\ CallInv

\* What CHECK_MEMORY_LIMIT leads to, be it the end of the process, the error
\* or the return: for an emalloc that linked a new block and an erealloc that
\* linked a block in the place of ptr.
LEMMA Checked ==
  ASSUME IInv, InRequest, NEW s \in Int, NEW m, NEW c \in Call,
         DOMAIN m \subseteq Block, m \in [DOMAIN m -> Header],
         DOMAIN m = (DOMAIN mem \ {c.ptr}) \cup {c.block},
         \A b \in DOMAIN mem \ {c.ptr} : b # c.block /\ m[b].size = mem[b].size,
         c.ptr \in held \cup {NULL},
         head' = c.block, IsList(m, head', TRUE),
         CheckMemoryLimit(s, m, c),
         UNCHANGED <<loopVars, cache, shutdown_requested>>
  PROVE  IInv'
<1> USE BlockAssumption DEF loopVars
<1>0. /\ TypeOK /\ ListInv /\ CacheInv /\ HandedOut /\ ErrorOnce
      /\ WithinReserve /\ NothingLeft /\ CallInv
      /\ allocated_memory \in Int /\ memory_exhausted \in BOOLEAN /\ calls \in Seq(Call)
      /\ alive \in BOOLEAN
  BY DEF IInv, TypeOK
<1>1. /\ mem' \in {m, Sized(m, c)}
      /\ held' \in {held \ {c.ptr}, (held \ {c.ptr}) \cup {c.block}}
      /\ \/ calls' = calls /\ memory_exhausted' = memory_exhausted
         \/ /\ calls' = Append(calls, c) /\ memory_exhausted' = TRUE
            /\ held' = held \ {c.ptr} /\ calls = <<>>
      /\ allocated_memory' = allocated_memory + s
      /\ alive' \in BOOLEAN
      /\ alive' => allocated_memory' <= memory_limit + Reserve
  <2>1. memory_limit + Reserve \in Int /\ allocated_memory + s \in Int
    BY <1>0, LimitAssumption
  <2>2. ~Silent => calls = <<>>
    BY <1>0 DEF Silent, ErrorOnce
  <2>3. CASE MustExit(allocated_memory + s)
    BY <1>0, <2>1, <2>3 DEF CheckMemoryLimit
  <2>4. CASE ~MustExit(allocated_memory + s)
    <3>1. ASSUME allocated_memory' = allocated_memory + s
          PROVE  allocated_memory' <= memory_limit + Reserve
      BY <2>1, <2>4, <3>1 DEF MustExit
    <3>2. CASE ~Fits(allocated_memory + s) /\ ~Silent
      <4>1. /\ mem' = m /\ held' = held \ {c.ptr} /\ alive' = alive
            /\ calls' = Append(calls, c) /\ memory_exhausted' = TRUE
            /\ allocated_memory' = allocated_memory + s
        BY <2>4, <3>2 DEF CheckMemoryLimit, GiveError
      <4> QED
        BY <1>0, <2>2, <3>1, <3>2, <4>1
    <3>3. CASE Fits(allocated_memory + s) \/ Silent
      <4>1. /\ mem' = Sized(m, c) /\ held' = (held \ {c.ptr}) \cup {c.block}
            /\ alive' = alive /\ calls' = calls /\ memory_exhausted' = memory_exhausted
            /\ allocated_memory' = allocated_memory + s
        BY <2>4, <3>3 DEF CheckMemoryLimit, Return
      <4> QED
        BY <1>0, <3>1, <4>1
    <3> QED
      BY <3>2, <3>3
  <2> QED
    BY <2>3, <2>4
<1>2. /\ DOMAIN mem' = DOMAIN m /\ mem' \in [DOMAIN mem' -> Header]
      /\ \A b \in DOMAIN mem \ {c.ptr} : b # c.block /\ mem'[b].size = mem[b].size
      /\ IsList(mem', head', TRUE)
  <2>1. CASE mem' = m
    BY <2>1
  <2>2. CASE mem' = Sized(m, c)
    <3>1. DOMAIN Sized(m, c) = DOMAIN m
      BY DEF Sized
    <3>2. \A b \in DOMAIN m : Sized(m, c)[b] \in Header
      BY DEF Sized, Header, Call
    <3>3. \A b \in DOMAIN m : b # c.block => Sized(m, c)[b] = m[b]
      BY DEF Sized
    <3>4. IsList(Sized(m, c), head', TRUE)
      BY SizedIsList
    <3>5. Sized(m, c) \in [DOMAIN m -> Header]
      BY <3>1, <3>2 DEF Sized
    <3> QED
      BY <2>2, <3>1, <3>3, <3>4, <3>5
  <2> QED
    BY <1>1, <2>1, <2>2
<1>3. TypeOK'
  <2>1. calls' \in Seq(Call)
    BY <1>0, <1>1
  <2>2. c.block \in Block
    BY DEF Call
  <2>3. allocated_memory' \in Int
    BY <1>0, <1>1
  <2>4. memory_exhausted' \in BOOLEAN
    BY <1>0, <1>1
  <2>5. held' \subseteq Block
    BY <1>0, <1>1, <2>2 DEF TypeOK
  <2> QED
    BY <1>0, <1>1, <1>2, <2>1, <2>2, <2>3, <2>4, <2>5 DEF TypeOK
<1>4. stage' = "running" /\ stage = "running"
  BY DEF InRequest
<1>5. ListInv'
  BY <1>2, <1>4 DEF ListInv
<1>6. Slots' = Slots /\ \A r \in Slots : InSlot(r)' = InSlot(r)
  BY DEF Slots, InSlot
<1>7. \A r \in Slots : InSlot(r) \in DOMAIN mem \ {c.ptr}
  <2>1. \A r \in Slots : InSlot(r) \in DOMAIN mem /\ InSlot(r) \in Block
    BY <1>0 DEF CacheInv, TypeOK
  <2>2. \A r \in Slots : InSlot(r) \notin held
    BY <1>0 DEF HandedOut, InUse
  <2> QED
    BY <2>1, <2>2
<1>8. CacheInv'
  <2> SUFFICES ASSUME NEW r \in Slots
               PROVE  /\ InSlot(r)' \in DOMAIN mem' /\ mem'[InSlot(r)'].size = r[1]
                      /\ \A u \in Slots : InSlot(u)' = InSlot(r)' => u = r
    BY <1>6 DEF CacheInv
  <2> QED
    BY <1>0, <1>2, <1>6, <1>7 DEF CacheInv
<1>9. /\ \A k \in DOMAIN calls : calls[k].block \in DOMAIN mem \ {c.ptr}
      /\ \A p \in held \ {c.ptr} : p \in DOMAIN mem \ {c.ptr}
      /\ \A p \in InUse : \A r \in Slots : InSlot(r) # p
  BY <1>0, <1>7 DEF HandedOut, InUse, CallInv, TypeOK
<1>10. \A k \in DOMAIN calls' :
         \/ k \in DOMAIN calls /\ calls'[k] = calls[k]
         \/ calls'[k] = c /\ calls' # calls
  <2>1. CASE calls' = calls
    BY <2>1
  <2>2. CASE calls' = Append(calls, c)
    <3>1. calls \in Seq(Call)
      BY <1>0
    <3>2. calls' # calls
      BY <2>2, <3>1
    <3> QED
      BY <2>2, <3>1, <3>2
  <2> QED
    BY <1>1, <2>1, <2>2
<1>11. HandedOut'
  <2> SUFFICES ASSUME NEW p \in InUse'
               PROVE  p \in DOMAIN mem' /\ \A r \in Slots : InSlot(r) # p
    BY <1>6 DEF HandedOut
  <2>1. p = c.block \/ p \in held \ {c.ptr} \/ \E k \in DOMAIN calls : p = calls[k].block
    BY <1>1, <1>10 DEF InUse
  <2>2. CASE p = c.block
    BY <1>2, <1>7, <2>2
  <2>3. CASE p \in held \ {c.ptr} \/ \E k \in DOMAIN calls : p = calls[k].block
    BY <1>2, <1>9, <2>3 DEF InUse
  <2> QED
    BY <2>1, <2>2, <2>3
<1>12. ErrorOnce'
  <2>1. CASE calls' = calls
    BY <1>0, <1>1, <2>1 DEF ErrorOnce
  <2>2. CASE calls' # calls
    <3>1. Len(Append(<<>>, c)) = 1
      OBVIOUS
    <3> QED
      BY <1>1, <2>2, <3>1 DEF ErrorOnce
  <2> QED
    BY <2>1, <2>2
<1>13. CallInv'
  <2> SUFFICES ASSUME NEW k \in DOMAIN calls' PROVE calls'[k].block \notin held'
    BY <1>4 DEF CallInv
  <2>1. CASE k \in DOMAIN calls /\ calls'[k] = calls[k]
    <3>1. calls[k].block \notin held
      BY <1>0, <2>1 DEF CallInv
    <3>2. calls[k].block \in DOMAIN mem \ {c.ptr}
      BY <1>9, <2>1
    <3>3. calls[k].block # c.block
      BY <3>2
    <3> QED
      BY <1>1, <2>1, <3>1, <3>3
  <2>2. CASE calls'[k] = c /\ calls' # calls
    BY <1>1, <1>9, <2>2
  <2> QED
    BY <1>10, <2>1, <2>2
<1>14. WithinReserve' /\ NothingLeft'
  BY <1>1, <1>4 DEF WithinReserve, NothingLeft
<1> QED
  BY <1>3, <1>5, <1>8, <1>11, <1>12, <1>13, <1>14 DEF IInv

-----------------------------------------------------------------------------
(* One step for each action *)

-----------------------------------------------------------------------------
(* The count *)

BytesOf(f, D) == UNION {{b} \X (1 .. f[b]) : b \in D}
Weight == [b \in DOMAIN mem |-> Counted(b)]

\* With the bytes, that there are finitely many.
CountInv == InRequest => IsFiniteSet(Bytes) /\ allocated_memory = Cardinality(Bytes)

LEMMA BytesAlike ==
  ASSUME NEW f, NEW g, NEW D, \A b \in D : f[b] = g[b]
  PROVE  BytesOf(f, D) = BytesOf(g, D)
BY DEF BytesOf

LEMMA BytesIs == Bytes = BytesOf(Weight, DOMAIN mem)
BY DEF Bytes, BytesOf, Weight

\* A block has as many bytes as it has weight, and no other block has them.
LEMMA BytesWithout ==
  ASSUME NEW D, NEW f, NEW b \in D, f[b] \in Nat,
         IsFiniteSet(BytesOf(f, D)) \/ IsFiniteSet(BytesOf(f, D \ {b}))
  PROVE  /\ IsFiniteSet(BytesOf(f, D)) /\ Cardinality(BytesOf(f, D)) \in Nat
         /\ IsFiniteSet(BytesOf(f, D \ {b})) /\ Cardinality(BytesOf(f, D \ {b})) \in Nat
         /\ Cardinality(BytesOf(f, D)) = Cardinality(BytesOf(f, D \ {b})) + f[b]
<1> DEFINE R == BytesOf(f, D \ {b})
           own == {b} \X (1 .. f[b])
<1>1. IsFiniteSet(own) /\ Cardinality(own) = f[b]
  <2>1. IsFiniteSet(1 .. f[b]) /\ Cardinality(1 .. f[b]) = IF 1 > f[b] THEN 0 ELSE f[b] - 1 + 1
    BY FS_Interval
  <2>2. IsFiniteSet({b}) /\ Cardinality({b}) = 1
    BY FS_Singleton
  <2>3. IsFiniteSet(own) /\ Cardinality(own) = Cardinality({b}) * Cardinality(1 .. f[b])
    BY <2>1, <2>2, FS_Product
  <2> QED BY <2>1, <2>2, <2>3
<1>2. BytesOf(f, D) = R \cup own
  BY DEF BytesOf
<1>3. R \cap own = {}
  <2>1. \A x \in R : \E c \in D \ {b} : x \in {c} \X (1 .. f[c])
    BY DEF BytesOf
  <2>2. \A x \in R : x[1] # b
    BY <2>1
  <2>3. \A x \in own : x[1] = b
    OBVIOUS
  <2> HIDE DEF R, own
  <2> QED BY <2>2, <2>3
<1> HIDE DEF own
<1>4. IsFiniteSet(R)
  <2>1. R \subseteq BytesOf(f, D)
    BY <1>2
  <2> HIDE DEF R
  <2>2. CASE IsFiniteSet(BytesOf(f, D))
    BY <2>1, <2>2, FS_Subset
  <2> QED BY <2>2 DEF R
<1>5. IsFiniteSet(R \cup own)
      /\ Cardinality(R \cup own) = Cardinality(R) + Cardinality(own) - Cardinality(R \cap own)
  BY <1>1, <1>4, FS_Union
<1>6. Cardinality(R \cap own) = 0
  BY <1>3, FS_EmptySet
<1>7. Cardinality(R) \in Nat /\ Cardinality(R \cup own) \in Nat
  BY <1>4, <1>5, FS_CardinalityType
<1> HIDE DEF R
<1> QED BY <1>1, <1>2, <1>4, <1>5, <1>6, <1>7 DEF R

\* A block that an allocation waits for counts for what that asks for.
LEMMA CountedIs ==
  ASSUME NEW b
  PROVE  /\ (\A k \in DOMAIN calls : calls[k].block # b) => Counted(b) = mem[b].size
         /\ \A c : calls = <<c>> /\ c.block = b => Counted(b) = c.size
<1>1. ASSUME \A k \in DOMAIN calls : calls[k].block # b PROVE Counted(b) = mem[b].size
  BY <1>1 DEF Counted
<1>2. ASSUME NEW c, calls = <<c>>, c.block = b PROVE Counted(b) = c.size
  <2>1. {k \in DOMAIN calls : calls[k].block = b} = {1} /\ calls[1] = c
    BY <1>2
  <2>2. (CHOOSE k \in {1} : TRUE) = 1
    OBVIOUS
  <2> QED BY <2>1, <2>2 DEF Counted
<1> QED BY <1>1, <1>2

LEMMA OneCall ==
  ASSUME IInv
  PROVE  calls = <<>> \/ \E c \in Call : calls = <<c>>
<1>1. calls \in Seq(Call) /\ Len(calls) \in Nat /\ Len(calls) <= 1
  BY DEF IInv, TypeOK, ErrorOnce
<1>2. Len(calls) = 0 \/ Len(calls) = 1
  <2>1. \A k \in Nat : k <= 1 => k = 0 \/ k = 1
    OBVIOUS
  <2> QED BY <1>1, <2>1, Zenon
<1>3. ASSUME Len(calls) = 1 PROVE calls[1] \in Call /\ calls = <<calls[1]>>
  BY <1>1, <1>3
<1> QED BY <1>1, <1>2, <1>3

LEMMA WeightIs ==
  ASSUME IInv
  PROVE  \A b \in DOMAIN mem : Counted(b) \in Nat /\ Weight[b] = Counted(b)
<1> SUFFICES ASSUME NEW b \in DOMAIN mem PROVE Counted(b) \in Nat
  BY DEF Weight
<1>1. mem[b].size \in Nat
  BY SizeAssumption DEF IInv, TypeOK, Header
<1>2. CASE calls = <<>>
  BY <1>1, <1>2, CountedIs
<1>3. ASSUME NEW c \in Call, calls = <<c>> PROVE Counted(b) \in Nat
  <2>1. c.size \in Nat
    BY SizeAssumption DEF Call
  <2>2. CASE c.block = b
    BY <1>3, <2>1, <2>2, CountedIs
  <2>3. CASE c.block # b
    BY <1>1, <1>3, <2>3, CountedIs
  <2> QED BY <2>2, <2>3
<1> QED BY <1>2, <1>3, OneCall

\* Nothing changes what counts.
LEMMA CountStays ==
  ASSUME CountInv, UNCHANGED <<alive, stage, mem, calls, allocated_memory>>
  PROVE  CountInv'
<1>1. Bytes' = Bytes
  BY DEF Bytes, Counted
<1> QED BY <1>1 DEF CountInv, InRequest

\* A block comes, in the place of another or not, and the others stay.
LEMMA CountChecked ==
  ASSUME IInv, IInv', CountInv, InRequest, NEW s \in Int, NEW m, NEW c \in Call,
         m \in [DOMAIN m -> Header], DOMAIN m = (DOMAIN mem \ {c.ptr}) \cup {c.block},
         \A b \in DOMAIN mem \ {c.ptr} : b # c.block /\ m[b].size = mem[b].size,
         \/ c.ptr \in held /\ s = c.size - mem[c.ptr].size
         \/ c.ptr = NULL /\ s = c.size,
         CheckMemoryLimit(s, m, c),
         UNCHANGED loopVars
  PROVE  CountInv'
<1> DEFINE D == DOMAIN mem
           R == D \ {c.ptr}
<1>1. SUFFICES ASSUME alive' PROVE CountInv'
  BY DEF CountInv, InRequest
<1>2. /\ allocated_memory' = allocated_memory + s
      /\ DOMAIN mem' = R \cup {c.block} /\ c.block \notin R
      /\ \A b \in R : mem'[b].size = mem[b].size
      /\ \/ mem'[c.block].size = c.size /\ calls' = calls
         \/ calls = <<>> /\ calls' = <<c>>
  <2>1. CASE ~Fits(allocated_memory + s) /\ ~Silent /\ ~MustExit(allocated_memory + s)
    <3>1. calls = <<>>
      BY <2>1, OneCall DEF IInv, ErrorOnce, Silent
    <3>2. mem' = m /\ calls' = Append(calls, c) /\ allocated_memory' = allocated_memory + s
      BY <1>1, <2>1 DEF CheckMemoryLimit, GiveError
    <3>3. calls' = <<c>>
      BY <3>1, <3>2
    <3> QED BY <3>1, <3>2, <3>3
  <2>2. CASE Return(m, held \ {c.ptr}, c) /\ calls' = calls
             /\ allocated_memory' = allocated_memory + s
    <3>1. mem' = Sized(m, c) /\ m[c.block] \in Header
      BY <2>2 DEF Return
    <3>2. mem' = [b \in DOMAIN m |-> IF b = c.block THEN [m[b] EXCEPT !.size = c.size] ELSE m[b]]
      BY <3>1 DEF Sized
    <3>3. mem'[c.block].size = c.size
      BY <3>1, <3>2 DEF Header
    <3> QED BY <2>2, <3>2, <3>3
  <2> QED BY <1>1, <2>1, <2>2 DEF CheckMemoryLimit
<1>3. \A k \in DOMAIN calls : calls[k].block \in R
  BY BlockAssumption DEF IInv, HandedOut, InUse, CallInv, TypeOK
<1>4. \A b \in R : Counted(b)' = Counted(b)
  <2> SUFFICES ASSUME NEW b \in R PROVE Counted(b)' = Counted(b)
    OBVIOUS
  <2>1. mem'[b].size = mem[b].size /\ b # c.block
    BY <1>2
  <2>2. CASE calls' = calls
    BY <2>1, <2>2 DEF Counted
  <2>3. CASE calls = <<>> /\ calls' = <<c>>
    <3>1. Counted(b) = mem[b].size
      BY <2>3, CountedIs
    <3>2. Counted(b)' = mem'[b].size
      BY <2>1, <2>3 DEF Counted
    <3> QED BY <2>1, <3>1, <3>2
  <2> QED BY <1>2, <2>2, <2>3
<1>5. Counted(c.block)' = c.size
  <2>1. CASE mem'[c.block].size = c.size /\ calls' = calls
    BY <1>2, <1>3, <2>1 DEF Counted
  <2>2. CASE calls' = <<c>>
    <3>1. {k \in DOMAIN calls' : calls'[k].block = c.block} = {1} /\ calls'[1] = c
      BY <2>2
    <3>2. (CHOOSE k \in {1} : TRUE) = 1
      OBVIOUS
    <3> QED BY <3>1, <3>2 DEF Counted
  <2> QED BY <1>2, <2>1, <2>2
<1>6. IsFiniteSet(Bytes) /\ allocated_memory = Cardinality(Bytes) /\ Bytes = BytesOf(Weight, D)
  BY BytesIs DEF CountInv
<1>7. Bytes' = BytesOf(Weight', R \cup {c.block}) /\ Weight'[c.block] = c.size /\ c.size \in Nat
      /\ \A b \in R : Weight'[b] = Weight[b]
  <2>1. Bytes' = BytesOf(Weight', DOMAIN mem')
    BY DEF Bytes, BytesOf, Weight
  <2>2. \A b \in DOMAIN mem' : Weight'[b] = Counted(b)'
    BY DEF Weight
  <2>3. c.size \in Nat
    BY SizeAssumption DEF Call
  <2>4. \A b \in R : Weight[b] = Counted(b)
    BY DEF Weight
  <2> QED BY <1>2, <1>4, <1>5, <2>1, <2>2, <2>3, <2>4
<1>8. BytesOf(Weight', R) = BytesOf(Weight, R)
  BY <1>7, BytesAlike
<1>9. IsFiniteSet(BytesOf(Weight, R)) /\ Cardinality(BytesOf(Weight, R)) \in Nat
      /\ Cardinality(BytesOf(Weight, R)) + c.size = allocated_memory + s
  <2>1. CASE c.ptr \in held /\ s = c.size - mem[c.ptr].size
    <3>1. c.ptr \in D /\ \A k \in DOMAIN calls : calls[k].block # c.ptr
      BY <1>3, <2>1 DEF IInv, HandedOut, InUse
    <3>2. Weight[c.ptr] = mem[c.ptr].size /\ Weight[c.ptr] \in Nat
      BY <3>1, CountedIs, WeightIs
    <3>3. /\ IsFiniteSet(BytesOf(Weight, R)) /\ Cardinality(BytesOf(Weight, R)) \in Nat
          /\ Cardinality(BytesOf(Weight, D)) = Cardinality(BytesOf(Weight, R)) + Weight[c.ptr]
      BY <1>6, <3>1, <3>2, BytesWithout
    <3> HIDE DEF D, R
    <3> QED BY <1>6, <1>7, <2>1, <3>2, <3>3
  <2>2. CASE c.ptr = NULL /\ s = c.size
    <3>1. R = D
      BY <2>2, BlockAssumption, ZenonT(60) DEF IInv, TypeOK
    <3>2. Cardinality(Bytes) \in Nat
      BY <1>6, FS_CardinalityType
    <3> QED BY <1>6, <2>2, <3>1, <3>2
  <2> QED BY <2>1, <2>2
<1> DEFINE E == R \cup {c.block}
<1>10. E \ {c.block} = R /\ c.block \in E
  BY <1>2
<1>11. IsFiniteSet(BytesOf(Weight', E \ {c.block})) /\ Weight'[c.block] \in Nat
  BY <1>7, <1>8, <1>9, <1>10
<1> HIDE DEF E
<1>12. IsFiniteSet(BytesOf(Weight', E))
       /\ Cardinality(BytesOf(Weight', E))
          = Cardinality(BytesOf(Weight', E \ {c.block})) + Weight'[c.block]
  <2>1. PICK g, b : g = Weight' /\ b = c.block
    OBVIOUS
  <2>2. b \in E /\ g[b] \in Nat /\ IsFiniteSet(BytesOf(g, E \ {b}))
    BY <1>10, <1>11, <2>1
  <2>3. IsFiniteSet(BytesOf(g, E))
        /\ Cardinality(BytesOf(g, E)) = Cardinality(BytesOf(g, E \ {b})) + g[b]
    BY <2>2, BytesWithout
  <2> QED BY <2>1, <2>3
<1>13. IsFiniteSet(Bytes') /\ allocated_memory' = Cardinality(Bytes')
  BY <1>2, <1>7, <1>8, <1>9, <1>10, <1>12 DEF E
<1> QED BY <1>13 DEF CountInv

-----------------------------------------------------------------------------
(* The steps *)

\* The process ends as it is.
LEMMA OutOfMemoryStep ==
  ASSUME IInv, OutOfMemory
  PROVE  IInv' /\ CountInv'
<1>1. TypeOK' /\ ListInv' /\ ErrorOnce' /\ WithinReserve' /\ NothingLeft' /\ CallInv'
  BY DEF OutOfMemory, loopVars, IInv, TypeOK, ListInv, ErrorOnce, WithinReserve, NothingLeft,
         CallInv
<1>2. CacheInv' /\ HandedOut'
  BY DEF OutOfMemory, loopVars, IInv, CacheInv, HandedOut, Slots, InSlot, InUse
<1>3. CountInv'
  BY DEF OutOfMemory, CountInv, InRequest
<1> QED
  BY <1>1, <1>2, <1>3 DEF IInv

\* A new block is nobody's.
LEMMA EmallocStep ==
  ASSUME IInv, NEW size \in Size, emalloc(size)
  PROVE  IInv' /\ (CountInv => CountInv')
<1>1. TypeOK /\ InRequest /\ NULL \notin Block /\ ListInv /\ Size \subseteq Nat
  BY BlockAssumption, SizeAssumption DEF IInv, emalloc
<1>2. CASE \E p \in Block \ DOMAIN mem :
             /\ head' = p
             /\ CheckMemoryLimit(size, Linked(mem, head, p, size),
                                 [block |-> p, size |-> size, ptr |-> NULL])
             /\ UNCHANGED <<loopVars, cache, shutdown_requested>>
  <2> PICK p \in Block \ DOMAIN mem :
         /\ head' = p
         /\ CheckMemoryLimit(size, Linked(mem, head, p, size),
                             [block |-> p, size |-> size, ptr |-> NULL])
         /\ UNCHANGED <<loopVars, cache, shutdown_requested>>
    BY <1>2
  <2> DEFINE m == Linked(mem, head, p, size)
             c == [block |-> p, size |-> size, ptr |-> NULL]
  <2>1. c \in Call /\ c.ptr = NULL /\ c.block = p
    BY DEF Call
  <2>2. IsList(mem, head, TRUE)
    BY <1>1 DEF ListInv, InRequest
  <2>3. IsList(m, p, TRUE)
    BY <1>1, <2>2, LinkIsList DEF TypeOK
  <2>4. /\ DOMAIN m = DOMAIN mem \cup {p} /\ m \in [DOMAIN m -> Header]
        /\ \A b \in DOMAIN mem : m[b].size = mem[b].size
    <3>1. mem \in [DOMAIN mem -> Header] /\ DOMAIN mem \subseteq Block
      BY <1>1 DEF TypeOK
    <3>2. head \in Block \cup {NULL}
      BY <1>1 DEF TypeOK
    <3>3. DOMAIN m = DOMAIN mem \cup {p}
      BY DEF Linked
    <3>4. m \in [DOMAIN m -> Header]
      BY <3>1, <3>2, LinkType, Zenon
    <3>5. \A b \in DOMAIN mem : m[b].size = mem[b].size
      BY <3>1, <3>2, LinkType, ZenonT(40)
    <3> QED
      BY <3>3, <3>4, <3>5
  <2>5. DOMAIN mem \ {NULL} = DOMAIN mem
    BY <1>1 DEF TypeOK
  <2>6. size \in Int
    BY <1>1
  <2> HIDE DEF m, c
  <2>7. CheckMemoryLimit(size, m, c)
    BY DEF m, c
  <2>8. \A b \in DOMAIN mem \ {c.ptr} : b # c.block /\ m[b].size = mem[b].size
    BY <2>1, <2>4
  <2>9. DOMAIN m = (DOMAIN mem \ {c.ptr}) \cup {c.block} /\ DOMAIN m \subseteq Block
    BY <1>1, <2>1, <2>4, <2>5 DEF TypeOK
  <2>10. c.ptr \in held \cup {NULL} /\ head' = c.block
    BY <2>1
  <2>11. IsList(m, head', TRUE)
    BY <2>3, <2>10, <2>1
  <2>12. IInv'
    BY <1>1, <2>1, <2>4, <2>6, <2>7, <2>8, <2>9, <2>10, <2>11, Checked
  <2>13. CountInv => CountInv'
    BY <1>1, <2>1, <2>4, <2>6, <2>7, <2>8, <2>9, <2>12, CountChecked DEF c
  <2> QED
    BY <2>12, <2>13
<1>3. CASE OutOfMemory
  BY <1>3, OutOfMemoryStep
<1> QED
  BY <1>2, <1>3 DEF emalloc

\* The block is taken out of the list and put at its head, moved or not.
LEMMA EreallocStep ==
  ASSUME IInv, NEW ptr \in Block, NEW size \in Size, erealloc(ptr, size)
  PROVE  IInv' /\ (CountInv => CountInv')
<1>0. SUFFICES ASSUME ~OutOfMemory PROVE IInv' /\ (CountInv => CountInv')
  BY OutOfMemoryStep
<1>1. /\ TypeOK /\ InRequest /\ NULL \notin Block /\ ListInv /\ Size \subseteq Nat
      /\ ptr \in held /\ ptr \in DOMAIN mem
  BY BlockAssumption, SizeAssumption DEF IInv, erealloc, HandedOut, InUse
<1> DEFINE U == Unlinked(mem, head, ptr)
           h == HeadWithout(mem, head, ptr)
           z == mem[ptr].size
<1>2. PICK p \in (Block \ DOMAIN mem) \cup {ptr} :
        /\ head' = p
        /\ CheckMemoryLimit(size - z, Linked(U, h, p, z),
                            [block |-> p, size |-> size, ptr |-> ptr])
        /\ UNCHANGED <<loopVars, cache, shutdown_requested>>
  BY <1>0 DEF erealloc
<1> DEFINE m == Linked(U, h, p, z)
           c == [block |-> p, size |-> size, ptr |-> ptr]
<1>3. c \in Call /\ c.ptr = ptr /\ c.block = p
  BY DEF Call
<1>4. z \in Size /\ size - z \in Int
  BY <1>1 DEF TypeOK, Header
<1>5. /\ DOMAIN U = DOMAIN mem \ {ptr} /\ U \in [DOMAIN U -> Header]
      /\ \A b \in DOMAIN U : U[b].size = mem[b].size
      /\ h \in Block \cup {NULL} /\ DOMAIN U \subseteq Block
  <2>1. mem \in [DOMAIN mem -> Header] /\ DOMAIN mem \subseteq Block
    BY <1>1 DEF TypeOK
  <2>2. head \in Block \cup {NULL}
    BY <1>1 DEF TypeOK
  <2>3. DOMAIN U = DOMAIN mem \ {ptr} /\ U \in [DOMAIN U -> Header]
    BY <1>1, <2>1, <2>2, UnlinkType, Zenon
  <2>4. (\A b \in DOMAIN U : U[b].size = mem[b].size) /\ h \in Block \cup {NULL}
    BY <1>1, <2>1, <2>2, UnlinkType, ZenonT(40)
  <2> HIDE DEF U, h
  <2> QED
    BY <2>1, <2>3, <2>4
<1>6. IsList(U, h, TRUE)
  <2>1. IsList(mem, head, TRUE)
    BY <1>1 DEF ListInv, InRequest
  <2> QED
    BY <1>1, <2>1, UnlinkIsList DEF TypeOK
<1>7. p \in Block \ DOMAIN U
  BY <1>5
<1> HIDE DEF U, h, z
<1>8. /\ DOMAIN m = DOMAIN U \cup {p} /\ m \in [DOMAIN m -> Header]
      /\ \A b \in DOMAIN U : m[b].size = U[b].size
  <2>1. U \in [DOMAIN U -> Header] /\ DOMAIN U \subseteq Block
    BY <1>5
  <2>2. h \in Block \cup {NULL} /\ p \in Block \ DOMAIN U /\ z \in Size
    BY <1>4, <1>5, <1>7
  <2>3. DOMAIN m = DOMAIN U \cup {p}
    BY DEF Linked
  <2>4. m \in [DOMAIN m -> Header]
    BY <2>1, <2>2, LinkType, Zenon
  <2>5. ASSUME NEW b \in DOMAIN U PROVE m[b].size = U[b].size
    <3>1. m[b] = IF b = h THEN [U[b] EXCEPT !.pLast = p] ELSE U[b]
      BY <2>2 DEF Linked
    <3>2. U[b] \in Header
      BY <2>1
    <3> QED
      BY <3>1, <3>2 DEF Header
  <2> QED
    BY <2>3, <2>4, <2>5
<1>9. IsList(m, p, TRUE)
  BY <1>4, <1>5, <1>6, <1>7, LinkIsList
<1>10. CheckMemoryLimit(size - z, m, c)
  BY <1>2
<1> HIDE DEF m, c
<1>11. \A b \in DOMAIN mem \ {c.ptr} : b # c.block /\ m[b].size = mem[b].size
  BY <1>3, <1>5, <1>7, <1>8
<1>12. DOMAIN m = (DOMAIN mem \ {c.ptr}) \cup {c.block} /\ DOMAIN m \subseteq Block
  BY <1>3, <1>5, <1>7, <1>8
<1>13. c.ptr \in held \cup {NULL} /\ head' = c.block /\ IsList(m, head', TRUE)
  BY <1>1, <1>2, <1>3, <1>9
<1>14. UNCHANGED <<loopVars, cache, shutdown_requested>>
  BY <1>2
<1>15. IInv'
  BY <1>1, <1>3, <1>4, <1>8, <1>10, <1>11, <1>12, <1>13, <1>14, Checked
<1>16. c.size = size /\ c.ptr \in held /\ size - z = c.size - mem[c.ptr].size
  BY <1>1 DEF c, z
<1>17. CountInv => CountInv'
  BY <1>1, <1>3, <1>4, <1>8, <1>10, <1>11, <1>12, <1>14, <1>15, <1>16, CountChecked
<1> QED
  BY <1>15, <1>17

\* The last block of a cache is taken out of it, and was the program's to take.
LEMMA CachedStep ==
  ASSUME IInv, NEW size \in Size, emalloc_cached(size)
  PROVE  IInv'
<1> DEFINE n == Len(cache[size])
           p == cache[size][n]
<1>1. /\ TypeOK /\ ListInv /\ CacheInv /\ HandedOut /\ ErrorOnce
      /\ WithinReserve /\ NothingLeft /\ CallInv
  BY DEF IInv
<1>2. /\ alive /\ stage = "running" /\ size \in CachedSize /\ cache[size] # <<>>
      /\ cache' = [cache EXCEPT ![size] = SubSeq(cache[size], 1, n - 1)]
      /\ held' = held \cup {p}
      /\ UNCHANGED <<alive, loopVars, mem, head, allocated_memory, memory_exhausted,
                     shutdown_requested, calls>>
  BY DEF emalloc_cached, InRequest
<1>3. /\ cache \in [CachedSize -> Seq(Block)] /\ cache[size] \in Seq(Block)
      /\ n \in Nat /\ n >= 1 /\ n <= MAX_CACHED_ENTRIES /\ MAX_CACHED_ENTRIES \in Nat
  BY <1>1, <1>2, LimitAssumption DEF TypeOK
<1>4. /\ SubSeq(cache[size], 1, n - 1) \in Seq(Block)
      /\ Len(SubSeq(cache[size], 1, n - 1)) = n - 1
      /\ \A k \in 1 .. n - 1 : SubSeq(cache[size], 1, n - 1)[k] = cache[size][k]
  BY <1>3
<1>5. <<size, n>> \in Slots /\ InSlot(<<size, n>>) = p
  BY <1>2, <1>3 DEF Slots, InSlot
<1>6. p \in DOMAIN mem /\ p \in Block
  BY <1>1, <1>5 DEF CacheInv, TypeOK
<1> HIDE DEF p, n
<1>7. ASSUME NEW s \in Slots'
      PROVE  s \in Slots /\ s # <<size, n>> /\ InSlot(s)' = InSlot(s)
  <2>1. /\ s \in CachedSize \X (1 .. MAX_CACHED_ENTRIES) /\ s[2] <= Len(cache'[s[1]])
        /\ s[1] \in CachedSize /\ s[2] \in 1 .. MAX_CACHED_ENTRIES /\ s = <<s[1], s[2]>>
    BY DEF Slots
  <2>2. CASE s[1] = size
    <3>1. cache'[s[1]] = SubSeq(cache[size], 1, n - 1)
      BY <1>2, <1>3, <2>2
    <3>2. s[2] \in 1 .. n - 1
      BY <1>3, <1>4, <2>1, <3>1
    <3>3. s \in Slots
      BY <1>2, <1>3, <2>1, <2>2, <3>2 DEF Slots, n
    <3>4. s # <<size, n>>
      BY <1>3, <3>2
    <3> QED
      BY <1>4, <2>2, <3>1, <3>2, <3>3, <3>4 DEF InSlot
  <2>3. CASE s[1] # size
    <3>1. cache'[s[1]] = cache[s[1]]
      BY <1>2, <1>3, <2>1, <2>3
    <3> QED
      BY <1>2, <2>1, <2>3, <3>1 DEF Slots, InSlot
  <2> QED
    BY <2>2, <2>3
<1>8. CacheInv'
  <2> SUFFICES ASSUME NEW s \in Slots'
               PROVE  /\ InSlot(s)' \in DOMAIN mem' /\ mem'[InSlot(s)'].size = s[1]
                      /\ \A r \in Slots' : InSlot(r)' = InSlot(s)' => r = s
    BY DEF CacheInv
  <2> QED
    BY <1>1, <1>2, <1>7 DEF CacheInv
<1>9. HandedOut'
  <2> SUFFICES ASSUME NEW q \in InUse'
               PROVE  q \in DOMAIN mem' /\ \A s \in Slots' : InSlot(s)' # q
    BY DEF HandedOut
  <2>1. q = p \/ q \in InUse
    BY <1>2 DEF InUse
  <2>2. CASE q = p
    BY <1>1, <1>2, <1>5, <1>6, <1>7, <2>2 DEF CacheInv
  <2>3. CASE q \in InUse
    BY <1>1, <1>2, <1>7, <2>3 DEF HandedOut
  <2> QED
    BY <2>1, <2>2, <2>3
<1>10. TypeOK'
  <2>1. cache' \in [CachedSize -> Seq(Block)]
    BY <1>2, <1>3, <1>4
  <2>2. ASSUME NEW z \in CachedSize PROVE Len(cache'[z]) <= MAX_CACHED_ENTRIES
    BY <1>1, <1>2, <1>3, <1>4 DEF TypeOK
  <2>3. held' \subseteq Block
    BY <1>1, <1>2, <1>6 DEF TypeOK
  <2> QED
    BY <1>1, <1>2, <2>1, <2>2, <2>3 DEF TypeOK, loopVars
<1>11. CallInv'
  <2>1. \A k \in DOMAIN calls : calls[k].block # p
    BY <1>1, <1>5 DEF HandedOut, InUse
  <2> QED
    BY <1>1, <1>2, <2>1 DEF CallInv, loopVars
<1>12. ListInv' /\ ErrorOnce' /\ WithinReserve' /\ NothingLeft'
  BY <1>1, <1>2 DEF ListInv, ErrorOnce, WithinReserve, NothingLeft, loopVars
<1> QED
  BY <1>8, <1>9, <1>10, <1>11, <1>12 DEF IInv

\* The block goes to the cache, or out of the list, and is not held any more.
LEMMA EfreeStep ==
  ASSUME IInv, ~ErrormsgGrows, NEW p \in Block, efree(p)
  PROVE  IInv'
<1>1. /\ TypeOK /\ ListInv /\ CacheInv /\ HandedOut /\ ErrorOnce
      /\ WithinReserve /\ NothingLeft /\ CallInv
  BY DEF IInv
<1>2. /\ alive /\ stage = "running" /\ p \in held /\ p \in DOMAIN mem
      /\ held' = held \ {p} /\ mem[p] \in Header /\ mem[p].size \in Nat
      /\ \A s \in Slots : InSlot(s) # p
      /\ UNCHANGED <<alive, loopVars, memory_exhausted, shutdown_requested, calls>>
  BY <1>1, SizeAssumption DEF efree, InRequest, Freeable, HandedOut, InUse, TypeOK, Header
<1>3. /\ CallInv' /\ ErrorOnce' /\ NothingLeft' /\ held' \subseteq Block
      /\ \A q \in InUse' : q \in InUse /\ q # p
  BY <1>1, <1>2 DEF CallInv, ErrorOnce, NothingLeft, loopVars, InUse, TypeOK
<1>4. /\ {head, t} \subseteq Block \cup {NULL} /\ cache \in [CachedSize -> Seq(Block)]
      /\ DOMAIN mem \subseteq Block /\ mem \in [DOMAIN mem -> Header]
      /\ MAX_CACHED_ENTRIES \in Nat /\ memory_limit + Reserve \in Nat
      /\ allocated_memory \in Int
  BY <1>1, LimitAssumption DEF TypeOK
<1>5. CASE /\ Cacheable(mem[p].size)
           /\ cache' = [cache EXCEPT ![mem[p].size] = Append(@, p)]
           /\ UNCHANGED <<mem, head, allocated_memory>>
  <2> DEFINE z == mem[p].size
             n == Len(cache[z])
  <2>1. /\ z \in CachedSize /\ n < MAX_CACHED_ENTRIES /\ n \in Nat
        /\ cache[z] \in Seq(Block) /\ cache' = [cache EXCEPT ![z] = Append(cache[z], p)]
    BY <1>4, <1>5 DEF Cacheable
  <2>2. /\ cache'[z] = Append(cache[z], p) /\ Append(cache[z], p) \in Seq(Block)
        /\ Len(Append(cache[z], p)) = n + 1 /\ Append(cache[z], p)[n + 1] = p
        /\ \A k \in 1 .. n : Append(cache[z], p)[k] = cache[z][k]
    BY <1>4, <2>1
  <2>3. z = mem[p].size
    OBVIOUS
  <2>4. n = Len(cache[z])
    OBVIOUS
  <2> HIDE DEF z, n
  <2>5. ASSUME NEW s \in Slots'
        PROVE  \/ s = <<z, n + 1>> /\ InSlot(s)' = p
               \/ s \in Slots /\ InSlot(s)' = InSlot(s)
    <3>1. /\ s \in CachedSize \X (1 .. MAX_CACHED_ENTRIES) /\ s[2] <= Len(cache'[s[1]])
          /\ s[1] \in CachedSize /\ s[2] \in 1 .. MAX_CACHED_ENTRIES /\ s = <<s[1], s[2]>>
      BY DEF Slots
    <3>2. CASE s[1] # z
      <4>1. cache'[s[1]] = cache[s[1]]
        BY <1>4, <2>1, <3>1, <3>2
      <4> QED
        BY <1>2, <3>1, <4>1 DEF Slots, InSlot
    <3>3. CASE s[1] = z /\ s[2] <= n
      <4>1. s \in Slots
        BY <1>2, <2>4, <3>1, <3>3 DEF Slots
      <4>2. cache'[s[1]][s[2]] = cache[s[1]][s[2]]
        BY <2>1, <2>2, <3>1, <3>3
      <4> QED
        BY <4>1, <4>2 DEF InSlot
    <3>4. CASE s[1] = z /\ s[2] > n
      <4>1. s[2] = n + 1
        BY <2>1, <2>2, <3>1, <3>4
      <4> QED
        BY <2>2, <3>1, <3>4, <4>1 DEF InSlot
    <3> QED
      BY <2>1, <3>1, <3>2, <3>3, <3>4
  <2>6. CacheInv'
    <3> SUFFICES ASSUME NEW s \in Slots'
                 PROVE  /\ InSlot(s)' \in DOMAIN mem' /\ mem'[InSlot(s)'].size = s[1]
                        /\ \A r \in Slots' : InSlot(r)' = InSlot(s)' => r = s
      BY DEF CacheInv
    <3>1. mem' = mem
      BY <1>5
    <3>2. CASE s = <<z, n + 1>> /\ InSlot(s)' = p
      BY <1>2, <2>3, <2>5, <3>1, <3>2
    <3>3. CASE s \in Slots /\ InSlot(s)' = InSlot(s)
      BY <1>1, <1>2, <2>5, <3>1, <3>3 DEF CacheInv
    <3> QED
      BY <2>5, <3>2, <3>3
  <2>7. HandedOut'
    <3> SUFFICES ASSUME NEW q \in InUse'
                 PROVE  q \in DOMAIN mem' /\ \A s \in Slots' : InSlot(s)' # q
      BY DEF HandedOut
    <3> QED
      BY <1>1, <1>3, <1>5, <2>5 DEF HandedOut
  <2>8. TypeOK'
    <3>1. cache' \in [CachedSize -> Seq(Block)]
      BY <1>4, <2>1, <2>2
    <3>2. ASSUME NEW y \in CachedSize PROVE Len(cache'[y]) <= MAX_CACHED_ENTRIES
      <4>1. y # z => cache'[y] = cache[y]
        BY <1>4, <2>1
      <4>2. Len(cache[y]) <= MAX_CACHED_ENTRIES
        BY <1>1 DEF TypeOK
      <4>3. n + 1 <= MAX_CACHED_ENTRIES
        BY <1>4, <2>1
      <4> QED
        BY <2>2, <4>1, <4>2, <4>3
    <3> QED
      BY <1>1, <1>2, <1>3, <1>5, <3>1, <3>2 DEF TypeOK, loopVars
  <2>9. ListInv' /\ WithinReserve'
    BY <1>1, <1>2, <1>5 DEF ListInv, WithinReserve, loopVars
  <2> QED
    BY <1>3, <2>6, <2>7, <2>8, <2>9 DEF IInv
<1>6. CASE /\ ~Cacheable(mem[p].size)
           /\ head' = HeadWithout(mem, head, p) /\ mem' = Unlinked(mem, head, p)
           /\ allocated_memory' = allocated_memory - mem[p].size
           /\ UNCHANGED cache
  <2>1. IsList(mem, head, TRUE)
    BY <1>1, <1>2 DEF ListInv
  <2>2. IsList(mem', head', TRUE)
    BY <1>2, <1>4, <1>6, <2>1, UnlinkIsList
  <2>3. DOMAIN mem' = DOMAIN mem \ {p}
    BY <1>6 DEF Unlinked
  <2>4. mem' \in [DOMAIN mem' -> Header] /\ head' \in Block \cup {NULL}
    <3>1. head \in Block \cup {NULL}
      BY <1>4
    <3>2. Unlinked(mem, head, p) \in [DOMAIN Unlinked(mem, head, p) -> Header]
      BY <1>2, <1>4, <3>1, UnlinkType, Zenon
    <3>3. HeadWithout(mem, head, p) \in Block \cup {NULL}
      BY <1>2, <1>4, <3>1, UnlinkType, Zenon
    <3> QED
      BY <1>6, <3>2, <3>3, Zenon
  <2>5. \A b \in DOMAIN mem' : mem'[b].size = mem[b].size
    <3>1. head \in Block \cup {NULL}
      BY <1>4
    <3>2. \A b \in DOMAIN Unlinked(mem, head, p) : Unlinked(mem, head, p)[b].size = mem[b].size
      BY <1>2, <1>4, <3>1, UnlinkType, ZenonT(40)
    <3> QED
      BY <1>6, <3>2, Zenon
  <2>6. Slots' = Slots /\ \A s \in Slots : InSlot(s)' = InSlot(s)
    BY <1>2, <1>6 DEF Slots, InSlot, loopVars
  <2>7. CacheInv'
    <3> SUFFICES ASSUME NEW s \in Slots
                 PROVE  /\ InSlot(s)' \in DOMAIN mem' /\ mem'[InSlot(s)'].size = s[1]
                        /\ \A r \in Slots : InSlot(r)' = InSlot(s)' => r = s
      BY <2>6 DEF CacheInv
    <3>1. InSlot(s) \in DOMAIN mem' /\ mem[InSlot(s)].size = s[1]
      BY <1>1, <1>2, <2>3 DEF CacheInv
    <3> QED
      BY <1>1, <2>5, <2>6, <3>1 DEF CacheInv
  <2>8. HandedOut'
    <3> SUFFICES ASSUME NEW q \in InUse'
                 PROVE  q \in DOMAIN mem' /\ \A s \in Slots : InSlot(s)' # q
      BY <2>6 DEF HandedOut
    <3> QED
      BY <1>1, <1>3, <2>3, <2>6 DEF HandedOut
  <2>9. TypeOK'
    <3>1. allocated_memory' \in Int
      BY <1>2, <1>4, <1>6
    <3> QED
      BY <1>1, <1>2, <1>3, <1>6, <2>3, <2>4, <3>1 DEF TypeOK, loopVars
  <2>10. ListInv'
    BY <1>2, <2>2 DEF ListInv, loopVars
  <2>11. WithinReserve'
    <3>1. allocated_memory <= memory_limit + Reserve
      BY <1>1, <1>2 DEF WithinReserve
    <3>2. allocated_memory' <= memory_limit + Reserve
      BY <1>2, <1>4, <1>6, <3>1
    <3> QED
      BY <3>2 DEF WithinReserve
  <2> QED
    BY <1>3, <2>7, <2>8, <2>9, <2>10, <2>11 DEF IInv
<1> QED
  BY <1>5, <1>6 DEF efree
\* The block of the error's allocation gets its size, and is the program's.
LEMMA ErrorReturnsStep ==
  ASSUME IInv, ErrorReturns
  PROVE  IInv'
<1> DEFINE c == calls[Len(calls)]
<1>1. /\ TypeOK /\ ListInv /\ CacheInv /\ HandedOut /\ ErrorOnce
      /\ WithinReserve /\ NothingLeft /\ CallInv
  BY DEF IInv
<1>2. /\ alive /\ stage = "running" /\ calls # <<>> /\ calls \in Seq(Call)
      /\ shutdown_requested' \in {"NO", "NORMAL", "ABNORMAL"}
      /\ mem' = Sized(mem, c) /\ held' = held \cup {c.block}
      /\ calls' = SubSeq(calls, 1, Len(calls) - 1)
      /\ UNCHANGED <<alive, loopVars, head, cache, allocated_memory, memory_exhausted>>
  BY <1>1 DEF ErrorReturns, InRequest, Return, TypeOK
<1>3. Len(calls) = 1 /\ calls' = <<>> /\ c \in Call /\ 1 \in DOMAIN calls /\ c = calls[1]
  <2>1. Len(calls) <= 1
    BY <1>1, <1>2 DEF ErrorOnce
  <2>2. Len(calls) \in Nat /\ Len(calls) # 0
    BY <1>2
  <2>3. Len(calls) = 1
    <3>1. \A k \in Nat : k <= 1 /\ k # 0 => k = 1
      OBVIOUS
    <3> QED
      BY <2>1, <2>2, <3>1, Zenon
  <2>4. calls' = <<>>
    BY <1>2, <2>3
  <2> QED
    BY <1>2, <2>3, <2>4
<1> HIDE DEF c
<1>4. c.block \in InUse /\ c.block \in DOMAIN mem /\ c.block \in Block
  BY <1>1, <1>3 DEF InUse, HandedOut, Call
<1>5. /\ DOMAIN mem \subseteq Block /\ mem \in [DOMAIN mem -> Header]
      /\ DOMAIN mem' = DOMAIN mem
  BY <1>1, <1>2 DEF TypeOK, Sized
<1>6. /\ mem' \in [DOMAIN mem' -> Header]
      /\ \A b \in DOMAIN mem : b # c.block => mem'[b].size = mem[b].size
  <2>1. \A b \in DOMAIN mem : Sized(mem, c)[b] \in Header
    BY <1>3, <1>5 DEF Sized, Header, Call
  <2>2. \A b \in DOMAIN mem : b # c.block => Sized(mem, c)[b] = mem[b]
    BY DEF Sized
  <2>3. Sized(mem, c) \in [DOMAIN mem -> Header]
    BY <2>1 DEF Sized
  <2> QED
    BY <1>2, <1>5, <2>2, <2>3
<1>7. ListInv'
  <2>1. IsList(mem, head, TRUE)
    BY <1>1, <1>2 DEF ListInv
  <2>2. IsList(Sized(mem, c), head, TRUE)
    BY <1>3, <1>5, <2>1, SizedIsList
  <2> QED
    BY <1>2, <2>2 DEF ListInv, loopVars
<1>8. /\ Slots' = Slots
      /\ \A s \in Slots : InSlot(s)' = InSlot(s) /\ InSlot(s) # c.block
  BY <1>1, <1>2, <1>4 DEF Slots, InSlot, loopVars, HandedOut
<1>9. CacheInv'
  <2> SUFFICES ASSUME NEW s \in Slots
               PROVE  /\ InSlot(s)' \in DOMAIN mem' /\ mem'[InSlot(s)'].size = s[1]
                      /\ \A r \in Slots : InSlot(r)' = InSlot(s)' => r = s
    BY <1>8 DEF CacheInv
  <2> QED
    BY <1>1, <1>5, <1>6, <1>8 DEF CacheInv
<1>10. HandedOut'
  <2> SUFFICES ASSUME NEW q \in InUse'
               PROVE  q \in DOMAIN mem' /\ \A s \in Slots : InSlot(s)' # q
    BY <1>8 DEF HandedOut
  <2>1. q \in InUse
    BY <1>2, <1>3, <1>4 DEF InUse
  <2> QED
    BY <1>1, <1>5, <1>8, <2>1 DEF HandedOut
<1>11. TypeOK'
  BY <1>1, <1>2, <1>3, <1>4, <1>5, <1>6 DEF TypeOK, loopVars
<1>12. ErrorOnce' /\ CallInv'
  BY <1>2, <1>3 DEF ErrorOnce, CallInv, loopVars
<1>13. WithinReserve' /\ NothingLeft'
  BY <1>1, <1>2 DEF WithinReserve, NothingLeft, loopVars
<1> QED
  BY <1>7, <1>9, <1>10, <1>11, <1>12, <1>13 DEF IInv

\* shutdown_requested is of no concern to the memory.
LEMMA RequestShutdownStep ==
  ASSUME IInv, RequestShutdown
  PROVE  IInv'
<1>1. TypeOK' /\ ListInv' /\ ErrorOnce' /\ WithinReserve' /\ NothingLeft' /\ CallInv'
  BY DEF RequestShutdown, loopVars, IInv, TypeOK, ListInv, ErrorOnce, WithinReserve,
         NothingLeft, CallInv
<1>2. CacheInv' /\ HandedOut'
  BY DEF RequestShutdown, loopVars, IInv, CacheInv, HandedOut, Slots, InSlot, InUse
<1> QED
  BY <1>1, <1>2 DEF IInv

\* The last request left nothing, so the empty list is the list of all blocks.
LEMMA StartStep ==
  ASSUME IInv, start_memory_manager
  PROVE  IInv'
<1>1. /\ TypeOK /\ CallInv /\ NothingLeft /\ stage = "idle" /\ stage' = "running"
      /\ head' = NULL /\ allocated_memory' = 0 /\ memory_exhausted' = FALSE
      /\ cache' = [size \in CachedSize |-> <<>>] /\ shutdown_requested' = "NO"
      /\ UNCHANGED <<alive, i, j, t, mem, held, calls>>
  BY DEF start_memory_manager, IInv
<1>2. mem = <<>> /\ calls = <<>> /\ held = {} /\ DOMAIN mem = {}
  BY <1>1 DEF NothingLeft, CallInv
<1>3. Slots' = {}
  <2>1. \A size \in CachedSize : Len(cache'[size]) = 0
    BY <1>1
  <2> QED
    BY <2>1 DEF Slots
<1>4. InUse' = {}
  BY <1>1, <1>2 DEF InUse
<1>5. ListInv'
  BY <1>1, <1>2, EmptyIsList DEF ListInv
<1>6. CacheInv' /\ HandedOut'
  BY <1>3, <1>4 DEF CacheInv, HandedOut
<1>7. TypeOK'
  <2>1. cache' \in [CachedSize -> Seq(Block)] /\ \A z \in CachedSize : Len(cache'[z]) = 0
    BY <1>1
  <2>2. 0 \in Int /\ allocated_memory' \in Int
    BY <1>1
  <2>3. mem' \in [DOMAIN mem' -> Header] /\ DOMAIN mem' \subseteq Block
    BY <1>1 DEF TypeOK
  <2>4. \A z \in CachedSize : Len(cache'[z]) <= MAX_CACHED_ENTRIES
    BY <2>1, LimitAssumption
  <2> QED
    BY <1>1, <2>1, <2>2, <2>3, <2>4 DEF TypeOK
<1>8. ErrorOnce' /\ NothingLeft' /\ CallInv'
  BY <1>1, <1>2 DEF ErrorOnce, NothingLeft, CallInv
<1>9. WithinReserve'
  BY <1>1, LimitAssumption DEF WithinReserve
<1> QED
  BY <1>5, <1>6, <1>7, <1>8, <1>9 DEF IInv

\* All slots of the cache are still to be freed.
LEMMA ShutdownStep ==
  ASSUME IInv, shutdown_memory_manager
  PROVE  IInv'
<1>1. /\ TypeOK /\ ListInv /\ CacheInv /\ ErrorOnce /\ stage = "running" /\ calls = <<>>
      /\ stage' = "caches" /\ i' = 0 /\ j' = 0 /\ held' = {}
      /\ UNCHANGED <<alive, t, mem, head, cache, allocated_memory, memory_exhausted,
                     shutdown_requested, calls>>
  BY DEF shutdown_memory_manager, InRequest, IInv
<1>2. Slots' \subseteq Slots /\ \A s \in Slots' : InSlot(s)' = InSlot(s)
  BY <1>1 DEF Slots, InSlot
<1>3. InUse' = {}
  BY <1>1 DEF InUse
<1>4. CacheInv'
  <2> SUFFICES ASSUME NEW s \in Slots'
               PROVE  /\ InSlot(s)' \in DOMAIN mem' /\ mem'[InSlot(s)'].size = s[1]
                      /\ \A r \in Slots' : InSlot(r)' = InSlot(s)' => r = s
    BY DEF CacheInv
  <2> QED
    BY <1>1, <1>2 DEF CacheInv
<1>5. HandedOut'
  BY <1>3 DEF HandedOut
<1>6. TypeOK'
  BY <1>1, LimitAssumption DEF TypeOK
<1>7. ListInv' /\ ErrorOnce' /\ WithinReserve' /\ NothingLeft' /\ CallInv'
  BY <1>1 DEF ListInv, ErrorOnce, WithinReserve, NothingLeft, CallInv
<1> QED
  BY <1>4, <1>5, <1>6, <1>7 DEF IInv

\* The block leaves the list, and its slot is not visited again.
LEMMA FreeCachedStep ==
  ASSUME IInv, FreeCached
  PROVE  IInv'
<1> DEFINE n == Len(cache[i])
           p == cache[i][j + 1]
<1>1. /\ TypeOK /\ ListInv /\ CacheInv /\ ErrorOnce /\ CallInv
      /\ stage = "caches" /\ i < MAX_CACHED_MEMORY /\ j < n
      /\ p \in DOMAIN mem
      /\ head' = HeadWithout(mem, head, p) /\ mem' = Unlinked(mem, head, p)
      /\ j' = j + 1
      /\ UNCHANGED <<alive, stage, i, t, cache, allocated_memory, memory_exhausted,
                     shutdown_requested, held, calls>>
  BY DEF FreeCached, IInv
<1>2. /\ i \in CachedSize /\ i \in Nat /\ j \in Nat
      /\ cache \in [CachedSize -> Seq(Block)] /\ n \in Nat /\ n <= MAX_CACHED_ENTRIES
      /\ MAX_CACHED_ENTRIES \in Nat /\ MAX_CACHED_MEMORY \in Nat
      /\ DOMAIN mem \subseteq Block /\ mem \in [DOMAIN mem -> Header]
  BY <1>1, LimitAssumption DEF TypeOK, CachedSize
<1>3. head \in Block \cup {NULL}
  BY <1>1 DEF TypeOK
<1>4. <<i, j + 1>> \in Slots /\ InSlot(<<i, j + 1>>) = p
  BY <1>1, <1>2 DEF Slots, InSlot
<1> HIDE DEF p, n
<1>5. Slots' \subseteq Slots /\ <<i, j + 1>> \notin Slots'
  <2>1. <<i, j + 1>> \notin Slots'
    BY <1>1, <1>2 DEF Slots
  <2>2. ASSUME NEW s \in Slots' PROVE s \in Slots
    <3>1. /\ s \in CachedSize \X (1 .. MAX_CACHED_ENTRIES) /\ s[2] <= Len(cache[s[1]])
          /\ s[2] \in 1 .. MAX_CACHED_ENTRIES
          /\ s[1] > i \/ (s[1] = i /\ s[2] > j + 1)
      BY <1>1 DEF Slots
    <3>2. s[1] > i \/ (s[1] = i /\ s[2] > j)
      BY <1>2, <3>1
    <3> QED
      BY <1>1, <3>1, <3>2 DEF Slots
  <2> QED
    BY <2>1, <2>2
<1>6. \A s \in Slots' : InSlot(s)' = InSlot(s) /\ InSlot(s) # p
  BY <1>1, <1>4, <1>5 DEF InSlot, CacheInv
<1>7. DOMAIN mem' = DOMAIN mem \ {p}
  BY <1>1 DEF Unlinked
<1>8. mem' \in [DOMAIN mem' -> Header]
  <2>1. Unlinked(mem, head, p) \in [DOMAIN Unlinked(mem, head, p) -> Header]
    BY <1>1, <1>2, <1>3, UnlinkType, Zenon
  <2> QED
    BY <1>1, <2>1, Zenon
<1>9. head' \in Block \cup {NULL}
  <2>1. HeadWithout(mem, head, p) \in Block \cup {NULL}
    BY <1>1, <1>2, <1>3, UnlinkType, Zenon
  <2> QED
    BY <1>1, <2>1, Zenon
<1>10. \A b \in DOMAIN mem' : mem'[b].size = mem[b].size
  <2>1. \A b \in DOMAIN Unlinked(mem, head, p) : Unlinked(mem, head, p)[b].size = mem[b].size
    BY <1>1, <1>2, <1>3, UnlinkType, ZenonT(40)
  <2> QED
    BY <1>1, <2>1, Zenon
<1>11. CacheInv'
  <2> SUFFICES ASSUME NEW s \in Slots'
               PROVE  /\ InSlot(s)' \in DOMAIN mem' /\ mem'[InSlot(s)'].size = s[1]
                      /\ \A r \in Slots' : InSlot(r)' = InSlot(s)' => r = s
    BY DEF CacheInv
  <2>1. InSlot(s) \in DOMAIN mem' /\ mem[InSlot(s)].size = s[1]
    BY <1>1, <1>5, <1>6, <1>7 DEF CacheInv
  <2> QED
    BY <1>1, <1>5, <1>6, <1>10, <2>1 DEF CacheInv
<1>12. held = {} /\ calls = <<>> /\ InUse' = {}
  BY <1>1 DEF CallInv, InUse
<1>13. HandedOut'
  BY <1>12 DEF HandedOut
<1>14. ListInv'
  <2>1. IsList(mem, head, TRUE)
    BY <1>1 DEF ListInv
  <2>2. IsList(mem', head', TRUE)
    BY <1>1, <1>2, <2>1, UnlinkIsList
  <2> QED
    BY <1>1, <2>2 DEF ListInv
<1>15. TypeOK'
  <2>1. j' \in 0 .. MAX_CACHED_ENTRIES
    BY <1>1, <1>2
  <2> QED
    BY <1>1, <1>2, <1>7, <1>8, <1>9, <2>1 DEF TypeOK
<1>16. ErrorOnce' /\ WithinReserve' /\ NothingLeft' /\ CallInv'
  BY <1>1 DEF ErrorOnce, WithinReserve, NothingLeft, CallInv
<1> QED
  BY <1>11, <1>13, <1>14, <1>15, <1>16 DEF IInv

\* A cache that was gone through has no slot to be freed; when all have been,
\* the list is what is to be freed.
LEMMA NextCacheStep ==
  ASSUME IInv, NextCache
  PROVE  IInv'
<1>1. /\ TypeOK /\ ListInv /\ CacheInv /\ ErrorOnce /\ CallInv /\ stage = "caches"
      /\ UNCHANGED <<alive, mem, head, cache, allocated_memory, memory_exhausted,
                     shutdown_requested, held, calls>>
  BY DEF NextCache, IInv
<1>2. /\ i \in Nat /\ j \in Nat /\ MAX_CACHED_ENTRIES \in Nat /\ MAX_CACHED_MEMORY \in Nat
      /\ held = {} /\ calls = <<>> /\ InUse' = {}
  BY <1>1, LimitAssumption DEF TypeOK, CallInv, InUse
<1>3. /\ \/ i < MAX_CACHED_MEMORY /\ i' = i + 1 /\ j' = 0 /\ stage' = stage /\ t' = t
            /\ j = Len(cache[i])
         \/ stage' = "list" /\ t' = head /\ i' = i /\ j' = j
  BY DEF NextCache
<1>4. TypeOK'
  BY <1>1, <1>2, <1>3 DEF TypeOK
<1>5. ListInv'
  <2>1. IsList(mem, head, TRUE)
    BY <1>1 DEF ListInv
  <2>2. IsList(mem, head, FALSE)
    BY <2>1, ForwardIsList
  <2> QED
    BY <1>1, <1>3, <2>1, <2>2 DEF ListInv
<1>6. Slots' \subseteq Slots
  <2> SUFFICES ASSUME NEW s \in Slots' PROVE s \in Slots
    OBVIOUS
  <2>1. /\ s \in CachedSize \X (1 .. MAX_CACHED_ENTRIES) /\ s[2] <= Len(cache[s[1]])
        /\ s[1] \in Nat /\ stage' = "caches" /\ s[1] >= i' /\ i' = i + 1
    BY <1>1, <1>2, <1>3 DEF Slots, CachedSize
  <2>2. s[1] > i
    BY <1>2, <2>1
  <2> QED
    BY <1>1, <2>1, <2>2 DEF Slots
<1>7. \A s \in Slots' : InSlot(s)' = InSlot(s)
  BY <1>1 DEF InSlot
<1>8. CacheInv'
  <2> SUFFICES ASSUME NEW s \in Slots'
               PROVE  /\ InSlot(s)' \in DOMAIN mem' /\ mem'[InSlot(s)'].size = s[1]
                      /\ \A r \in Slots' : InSlot(r)' = InSlot(s)' => r = s
    BY DEF CacheInv
  <2> QED
    BY <1>1, <1>6, <1>7 DEF CacheInv
<1>9. HandedOut'
  BY <1>2 DEF HandedOut
<1>10. ErrorOnce' /\ WithinReserve' /\ NothingLeft' /\ CallInv'
  BY <1>1, <1>2, <1>3 DEF ErrorOnce, WithinReserve, NothingLeft, CallInv
<1> QED
  BY <1>4, <1>5, <1>8, <1>9, <1>10 DEF IInv

\* The loop follows pNext of the block it frees; at the end there is none.
LEMMA FreeListedStep ==
  ASSUME IInv, FreeListed
  PROVE  IInv'
<1>1. /\ TypeOK /\ ListInv /\ ErrorOnce /\ CallInv /\ stage = "list"
      /\ UNCHANGED <<alive, i, j, head, cache, allocated_memory, memory_exhausted,
                     shutdown_requested, held, calls>>
  BY DEF FreeListed, IInv
<1>2. /\ IsList(mem, t, FALSE) /\ DOMAIN mem \subseteq Block
      /\ mem \in [DOMAIN mem -> Header] /\ NULL \notin Block
      /\ held = {} /\ calls = <<>> /\ InUse' = {}
  <2>1. IsList(mem, t, FALSE)
    BY <1>1 DEF ListInv
  <2>2. held = {} /\ calls = <<>> /\ InUse' = {}
    BY <1>1 DEF CallInv, InUse
  <2> QED
    BY <1>1, <2>1, <2>2, BlockAssumption DEF TypeOK
<1>3. CASE /\ t \in DOMAIN mem
           /\ t' = mem[t].pNext /\ mem' = [b \in DOMAIN mem \ {t} |-> mem[b]]
           /\ UNCHANGED stage
  <2>1. IsList(mem', t', FALSE)
    BY <1>2, <1>3, PopIsList
  <2>2. ListInv'
    BY <1>1, <1>3, <2>1 DEF ListInv
  <2>3. /\ DOMAIN mem' = DOMAIN mem \ {t} /\ mem' \in [DOMAIN mem' -> Header]
        /\ t' \in Block \cup {NULL}
    BY <1>2, <1>3 DEF Header
  <2>4. TypeOK'
    BY <1>1, <1>2, <1>3, <2>3 DEF TypeOK
  <2>5. Slots' = {}
    BY <1>1, <1>3 DEF Slots
  <2>6. CacheInv' /\ HandedOut'
    BY <1>2, <2>5 DEF CacheInv, HandedOut
  <2>7. ErrorOnce' /\ WithinReserve' /\ NothingLeft' /\ CallInv'
    BY <1>1, <1>3 DEF ErrorOnce, WithinReserve, NothingLeft, CallInv
  <2> QED
    BY <2>2, <2>4, <2>6, <2>7 DEF IInv
<1>4. CASE t = NULL /\ stage' = "idle" /\ UNCHANGED <<t, mem>>
  <2>1. DOMAIN mem = {}
    BY <1>2, <1>4, EmptyIsList
  <2>2. mem = <<>>
    BY <1>2, <2>1
  <2>3. TypeOK'
    BY <1>1, <1>4 DEF TypeOK
  <2>4. Slots' = {}
    BY <1>4 DEF Slots
  <2>5. CacheInv' /\ HandedOut'
    BY <1>2, <2>4 DEF CacheInv, HandedOut
  <2>6. ListInv' /\ ErrorOnce' /\ WithinReserve' /\ NothingLeft' /\ CallInv'
    BY <1>1, <1>4, <2>2 DEF ListInv, ErrorOnce, WithinReserve, NothingLeft, CallInv
  <2> QED
    BY <2>3, <2>5, <2>6 DEF IInv
<1> QED
  BY <1>3, <1>4 DEF FreeListed

\* A block that is freed is counted no more; a cached one still is.
LEMMA EfreeCounts ==
  ASSUME ~ErrormsgGrows, IInv, CountInv, NEW p \in Block, efree(p)
  PROVE  CountInv'
<1>1. CASE UNCHANGED <<mem, allocated_memory>>
  BY <1>1, CountStays DEF efree, loopVars
<1>2. CASE mem' = Unlinked(mem, head, p) /\ allocated_memory' = allocated_memory - mem[p].size
  <2>1. /\ InRequest /\ p \in held /\ p \in DOMAIN mem /\ UNCHANGED <<alive, stage, calls>>
        /\ \A k \in DOMAIN calls : calls[k].block # p
    BY DEF efree, Freeable, IInv, HandedOut, InUse, CallInv, loopVars
  <2> DEFINE D == DOMAIN mem
             U == Unlinked(mem, head, p)
  <2>2. DOMAIN U = D \ {p} /\ \A b \in DOMAIN U : U[b].size = mem[b].size
    <3>1. mem \in [DOMAIN mem -> Header] /\ DOMAIN mem \subseteq Block
          /\ head \in Block \cup {NULL}
      BY DEF IInv, TypeOK
    <3>2. DOMAIN U = DOMAIN mem \ {p}
      BY <2>1, <3>1, UnlinkType, Zenon
    <3>3. \A b \in DOMAIN U : U[b].size = mem[b].size
      BY <2>1, <3>1, UnlinkType, ZenonT(40)
    <3> QED BY <3>2, <3>3
  <2> HIDE DEF U
  <2>3. DOMAIN mem' = D \ {p} /\ \A b \in D \ {p} : mem'[b].size = mem[b].size
    BY <1>2, <2>2 DEF U
  <2>4. \A b \in D \ {p} : Counted(b)' = Counted(b)
    BY <2>1, <2>3 DEF Counted
  <2>5. \A b \in D \ {p} : Weight'[b] = Weight[b]
    BY <2>3, <2>4 DEF Weight
  <2>6. Bytes' = BytesOf(Weight', D \ {p})
    BY <2>3 DEF Bytes, BytesOf, Weight
  <2>7. Bytes' = BytesOf(Weight, D \ {p})
    BY <2>5, <2>6, BytesAlike
  <2>8. Weight[p] = mem[p].size /\ Weight[p] \in Nat
    BY <2>1, CountedIs, WeightIs
  <2>9. IsFiniteSet(Bytes) /\ allocated_memory = Cardinality(Bytes) /\ Bytes = BytesOf(Weight, D)
    BY <2>1, BytesIs DEF CountInv
  <2>10. /\ IsFiniteSet(BytesOf(Weight, D \ {p})) /\ Cardinality(BytesOf(Weight, D \ {p})) \in Nat
         /\ Cardinality(BytesOf(Weight, D)) = Cardinality(BytesOf(Weight, D \ {p})) + Weight[p]
    BY <2>1, <2>8, <2>9, BytesWithout
  <2> HIDE DEF D
  <2>11. IsFiniteSet(Bytes') /\ allocated_memory' = Cardinality(Bytes')
    BY <1>2, <2>7, <2>8, <2>9, <2>10
  <2> QED BY <2>11 DEF CountInv
<1> QED BY <1>1, <1>2 DEF efree

\* The block that was waited for gets the size it has counted for.
LEMMA ErrorReturnsCounts ==
  ASSUME IInv, CountInv, ErrorReturns
  PROVE  CountInv'
<1>1. PICK c \in Call : calls = <<c>>
  BY OneCall DEF ErrorReturns
<1>2. /\ mem' = Sized(mem, c) /\ calls' = <<>>
      /\ UNCHANGED <<alive, stage, allocated_memory>>
  <2>1. Len(calls) = 1 /\ calls[1] = c /\ SubSeq(calls, 1, 0) = <<>>
    BY <1>1
  <2> QED BY <2>1 DEF ErrorReturns, Return, loopVars
<1>3. mem' = [b \in DOMAIN mem |-> IF b = c.block THEN [mem[b] EXCEPT !.size = c.size]
                                   ELSE mem[b]]
  BY <1>2 DEF Sized
<1>4. ASSUME NEW b \in DOMAIN mem PROVE Counted(b)' = Counted(b)
  <2>1. Counted(b)' = mem'[b].size
    BY <1>2 DEF Counted
  <2>2. mem[b] \in Header
    BY DEF IInv, TypeOK
  <2>3. CASE c.block = b
    <3>1. mem'[b].size = c.size
      BY <1>3, <2>2, <2>3 DEF Header
    <3> QED BY <1>1, <2>1, <2>3, <3>1, CountedIs
  <2>4. CASE c.block # b
    <3>1. Counted(b) = mem[b].size
      BY <1>1, <2>4, CountedIs
    <3> QED BY <1>3, <2>1, <2>4, <3>1
  <2> QED BY <2>3, <2>4
<1>5. Bytes' = Bytes
  <2>1. DOMAIN mem' = DOMAIN mem
    BY <1>3
  <2> QED BY <1>4, <2>1 DEF Bytes
<1> QED BY <1>2, <1>5 DEF CountInv, InRequest

LEMMA CountStep ==
  ASSUME ~ErrormsgGrows, IInv, CountInv, [Next]_vars
  PROVE  CountInv'
<1>1. ASSUME NEW size \in Size, emalloc(size) PROVE CountInv'
  BY <1>1, EmallocStep
<1>2. ASSUME NEW size \in Size, NEW p \in Block, erealloc(p, size) PROVE CountInv'
  BY <1>2, EreallocStep
<1>3. ASSUME NEW p \in Block, efree(p) PROVE CountInv'
  BY <1>3, EfreeCounts
<1>4. CASE ErrorReturns
  BY <1>4, ErrorReturnsCounts
<1>5. ASSUME \/ \E size \in Size : emalloc_cached(size)
             \/ RequestShutdown \/ UNCHANGED vars
      PROVE  CountInv'
  BY <1>5, CountStays DEF emalloc_cached, RequestShutdown, loopVars, vars
<1>6. CASE start_memory_manager
  <2>1. mem' = <<>> /\ allocated_memory' = 0
    BY <1>6 DEF start_memory_manager, IInv, NothingLeft
  <2>2. Bytes' = {}
    BY <2>1 DEF Bytes
  <2> QED BY <2>1, <2>2, FS_EmptySet DEF CountInv
<1>7. ASSUME shutdown_memory_manager \/ FreeCached \/ NextCache \/ FreeListed
      PROVE  CountInv'
  BY <1>7 DEF shutdown_memory_manager, FreeCached, NextCache, FreeListed, CountInv, InRequest
<1> QED BY <1>1, <1>2, <1>3, <1>4, <1>5, <1>6, <1>7 DEF Next

-----------------------------------------------------------------------------
(* The theorems *)

\* When no error frees the block that erealloc was given, the invariants hold
\* together, in a request, within its errors, and while its memory is freed.
THEOREM Inductive ==
  ASSUME ~ErrormsgGrows
  PROVE  Spec => []IInv
<1>1. Init => IInv
  <2> SUFFICES ASSUME Init PROVE IInv
    OBVIOUS
  <2>1. DOMAIN mem = {} /\ InUse = {}
    BY DEF Init, InUse
  <2>2. TypeOK
    <3>1. cache \in [CachedSize -> Seq(Block)] /\ \A z \in CachedSize : Len(cache[z]) = 0
      BY DEF Init
    <3>2. \A z \in CachedSize : Len(cache[z]) <= MAX_CACHED_ENTRIES
      BY <3>1, LimitAssumption
    <3>3. i \in 0 .. MAX_CACHED_MEMORY /\ j \in 0 .. MAX_CACHED_ENTRIES
      BY LimitAssumption DEF Init
    <3>4. mem \in [DOMAIN mem -> Header] /\ calls \in Seq(Call)
      BY <2>1 DEF Init
    <3>5. {alive, memory_exhausted} \subseteq BOOLEAN
      BY Zenon DEF Init
    <3>6. /\ stage = "idle" /\ shutdown_requested = "NO" /\ held = {}
          /\ {head, t} \subseteq Block \cup {NULL} /\ allocated_memory \in Int
      BY DEF Init
    <3> QED
      BY <2>1, <3>1, <3>2, <3>3, <3>4, <3>5, <3>6 DEF TypeOK
  <2>3. Slots = {}
    BY DEF Init, Slots
  <2>4. CacheInv /\ HandedOut
    BY <2>1, <2>3 DEF CacheInv, HandedOut
  <2>5. ListInv /\ ErrorOnce /\ WithinReserve /\ NothingLeft /\ CallInv
    BY DEF Init, ListInv, ErrorOnce, WithinReserve, NothingLeft, CallInv
  <2> QED
    BY <2>2, <2>4, <2>5 DEF IInv
<1>2. IInv /\ [Next]_vars => IInv'
  <2> SUFFICES ASSUME IInv, [Next]_vars PROVE IInv'
    OBVIOUS
  <2>1. CASE Next
    <3>1. ASSUME NEW size \in Size, emalloc(size) PROVE IInv'
      BY <3>1, EmallocStep
    <3>2. ASSUME NEW size \in Size, emalloc_cached(size) PROVE IInv'
      BY <3>2, CachedStep
    <3>3. ASSUME NEW size \in Size, NEW p \in Block, erealloc(p, size) PROVE IInv'
      BY <3>3, EreallocStep
    <3>4. ASSUME NEW p \in Block, efree(p) PROVE IInv'
      BY <3>4, EfreeStep
    <3>5. ErrorReturns \/ RequestShutdown => IInv'
      BY ErrorReturnsStep, RequestShutdownStep
    <3>6. start_memory_manager \/ shutdown_memory_manager => IInv'
      BY StartStep, ShutdownStep
    <3>7. FreeCached \/ NextCache \/ FreeListed => IInv'
      BY FreeCachedStep, NextCacheStep, FreeListedStep
    <3> QED
      BY <2>1, <3>1, <3>2, <3>3, <3>4, <3>5, <3>6, <3>7 DEF Next
  <2>2. CASE UNCHANGED vars
    <3>1. TypeOK' /\ ListInv' /\ ErrorOnce' /\ WithinReserve' /\ NothingLeft' /\ CallInv'
      BY <2>2 DEF vars, loopVars, IInv, TypeOK, ListInv, ErrorOnce, WithinReserve,
                  NothingLeft, CallInv
    <3>2. CacheInv' /\ HandedOut'
      BY <2>2 DEF vars, loopVars, IInv, CacheInv, HandedOut, Slots, InSlot, InUse
    <3> QED
      BY <3>1, <3>2 DEF IInv
  <2> QED
    BY <2>1, <2>2
<1> QED
  BY <1>1, <1>2, PTL DEF Spec

\* Counts and caches stay in their bounds, blocks and calls keep their fields.
THEOREM TypeCorrect ==
  ASSUME ~ErrormsgGrows
  PROVE  Spec => []TypeOK
<1>1. IInv => TypeOK
  BY DEF IInv
<1> QED
  BY <1>1, Inductive, PTL

\* Whatever is allocated, freed or cached, and whenever the request ends, the
\* list of alloc.c is whole from both ends, and being freed it is what is left.
THEOREM ListCorrect ==
  ASSUME ~ErrormsgGrows
  PROVE  Spec => []ListInv
<1>1. IInv => ListInv
  BY DEF IInv
<1> QED
  BY <1>1, Inductive, PTL

\* A cached block is a block of its size, of this request, in one slot.
THEOREM CacheCorrect ==
  ASSUME ~ErrormsgGrows
  PROVE  Spec => []CacheInv
<1>1. IInv => CacheInv
  BY DEF IInv
<1> QED
  BY <1>1, Inductive, PTL

\* Memory that emalloc or erealloc gave, or is about to give when the error
\* returns, is not freed and is not given to anyone else.
THEOREM HandedOutCorrect ==
  ASSUME ~ErrormsgGrows
  PROVE  Spec => []HandedOut
<1>1. IInv => HandedOut
  BY DEF IInv
<1> QED
  BY <1>1, Inductive, PTL

\* A request that has been told of the limit, or is ending, gets no more than
\* the reserve.
THEOREM LimitCorrect ==
  ASSUME ~ErrormsgGrows
  PROVE  Spec => []WithinReserve
<1>1. IInv => WithinReserve
  BY DEF IInv
<1> QED
  BY <1>1, Inductive, PTL

\* shutdown_memory_manager frees every block of the request.
THEOREM NothingLeftCorrect ==
  ASSUME ~ErrormsgGrows
  PROVE  Spec => []NothingLeft
<1>1. IInv => NothingLeft
  BY DEF IInv
<1> QED
  BY <1>1, Inductive, PTL

\* In a request what is counted is the sizes of all blocks there are, cached
\* ones included, from each emalloc, efree and erealloc to the next; a block
\* that grows and gives the error counts with its new size from then on.
THEOREM AccountedCorrect ==
  ASSUME ~ErrormsgGrows
  PROVE  Spec => []Accounted
<1>1. Init => CountInv
  BY DEF Init, CountInv, InRequest
<1>2. IInv /\ CountInv /\ [Next]_vars => CountInv'
  BY CountStep
<1>3. CountInv => Accounted
  BY DEF CountInv, Accounted
<1> QED
  BY <1>1, <1>2, <1>3, Inductive, PTL DEF Spec
=============================================================================
