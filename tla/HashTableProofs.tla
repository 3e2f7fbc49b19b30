--------------------------- MODULE HashTableProofs ---------------------------
(* Theorems about HashTable, for every set of buckets, keys, indexes, hash   *)
(* function and sequence of table sizes.                                     *)
EXTENDS HashTableRefines, FiniteSetTheorems, SequenceTheorems, WellFoundedInduction, TLAPS

-----------------------------------------------------------------------------
(* The list *)

\* A bucket put at the tail of a list makes a list.
LEMMA TailList ==
  ASSUME NEW w \in Walks, BackLinks(w), nNumOfElements \in Nat,
         NEW p, p \notin Allocated, p # NULL, NULL \notin Allocated,
         LinkAtTail(p), Allocated' = Allocated \cup {p},
         NEW v, v = [i \in 1 .. nNumOfElements + 1 |->
                       IF i = nNumOfElements + 1 THEN p ELSE w[i]]
  PROVE  v \in Walks' /\ BackLinks(v)'
<1> DEFINE n == nNumOfElements
<1>1. nNumOfElements' = n + 1 /\ n \in Nat /\ n + 1 # 0
  BY DEF LinkAtTail
<1>2. /\ w \in [1 .. n -> Allocated] /\ DOMAIN w = 1 .. n
      /\ \A b \in Allocated : \E i \in 1 .. n : w[i] = b
      /\ \A i, j \in 1 .. n : w[i] = w[j] => i = j
  BY DEF Walks, IsWalk
<1>3. DOMAIN v = 1 .. n + 1 /\ v[n + 1] = p /\ \A i \in 1 .. n : v[i] = w[i]
  BY <1>1
<1>4. v \in [1 .. n + 1 -> Allocated']
  BY <1>2, <1>3
<1>5. \A b \in Allocated' : \E i \in DOMAIN v : v[i] = b
  BY <1>1, <1>2, <1>3
<1>6. \A i, j \in DOMAIN v : v[i] = v[j] => i = j
  BY <1>1, <1>2, <1>3
<1>7. pListHead' = v[1]
  BY <1>1, <1>2, <1>3 DEF LinkAtTail, Walks, IsWalk
<1>8. ASSUME NEW i \in 1 .. n + 1
      PROVE  pListNext'[v[i]] = IF i = n + 1 THEN NULL ELSE v[i + 1]
  <2>1. pListTail = IF n = 0 THEN NULL ELSE w[n]
    BY DEF BackLinks
  <2>2. \A j \in 1 .. n : pListNext[w[j]] = IF j = n THEN NULL ELSE w[j + 1]
    BY <1>2 DEF Walks, IsWalk
  <2>3. CASE i = n + 1
    BY <2>3, <1>3 DEF LinkAtTail
  <2>4. CASE i = n
    BY <2>4, <2>1, <1>1, <1>2, <1>3 DEF LinkAtTail
  <2>5. CASE i \in 1 .. n - 1
    BY <2>5, <2>1, <2>2, <1>1, <1>2, <1>3 DEF LinkAtTail
  <2> QED
    BY <1>1, <2>3, <2>4, <2>5
<1>9. pListTail' = v[n + 1]
  BY <1>3 DEF LinkAtTail
<1>10. ASSUME NEW i \in 1 .. n + 1
       PROVE  pListLast'[v[i]] = IF i = 1 THEN NULL ELSE v[i - 1]
  BY <1>1, <1>2, <1>3 DEF LinkAtTail, BackLinks
<1>11. IsWalk(v)'
  <2> HIDE DEF n
  <2>1. DOMAIN v = 1 .. nNumOfElements'
    BY <1>1, <1>3
  <2>2. pListHead' = IF nNumOfElements' = 0 THEN NULL ELSE v[1]
    BY <1>1, <1>7
  <2>3. \A i \in DOMAIN v : pListNext'[v[i]] = IF i = nNumOfElements' THEN NULL ELSE v[i + 1]
    BY <1>1, <1>3, <1>8
  <2> QED
    BY <2>2, <2>3, <1>5, <1>6 DEF IsWalk
<1>12. BackLinks(v)'
  <2> HIDE DEF n
  <2> QED
    BY <1>1, <1>3, <1>9, <1>10 DEF BackLinks
<1> QED
  BY <1>1, <1>4, <1>11, <1>12 DEF Walks

\* A list without one of its buckets is a list.
LEMMA ShorterList ==
  ASSUME NEW w \in Walks, BackLinks(w), nNumOfElements \in Nat,
         NULL \notin Allocated,
         NEW k \in 1 .. nNumOfElements,
         UnlinkFromList(w[k]), Allocated' = Allocated \ {w[k]},
         NEW v, v = [i \in 1 .. nNumOfElements - 1 |-> IF i < k THEN w[i] ELSE w[i + 1]]
  PROVE  v \in Walks' /\ BackLinks(v)'
<1> DEFINE n == nNumOfElements
           p == w[k]
<1>1. nNumOfElements' = n - 1 /\ n \in Nat /\ k \in 1 .. n /\ n - 1 \in Nat
  BY DEF UnlinkFromList
<1>2. /\ w \in [1 .. n -> Allocated] /\ DOMAIN w = 1 .. n
      /\ \A b \in Allocated : \E i \in 1 .. n : w[i] = b
      /\ \A i, j \in 1 .. n : w[i] = w[j] => i = j
  BY DEF Walks, IsWalk
<1>3. DOMAIN v = 1 .. n - 1 /\ \A i \in 1 .. n - 1 : v[i] = IF i < k THEN w[i] ELSE w[i + 1]
  OBVIOUS
<1>4. v \in [1 .. n - 1 -> Allocated']
  <2>1. \A i \in 1 .. n - 1 : v[i] \in Allocated'
    BY <1>1, <1>2, <1>3
  <2> QED
    BY <2>1
<1>5. \A b \in Allocated' : \E i \in DOMAIN v : v[i] = b
  <2> SUFFICES ASSUME NEW b \in Allocated'
               PROVE  \E i \in DOMAIN v : v[i] = b
    OBVIOUS
  <2>1. PICK i \in 1 .. n : w[i] = b
    BY <1>2
  <2>2. CASE i < k
    BY <2>1, <2>2, <1>1, <1>3
  <2>3. CASE i > k
    <3>1. i - 1 \in 1 .. n - 1 /\ v[i - 1] = w[i]
      BY <2>3, <1>1, <1>3
    <3> QED
      BY <2>1, <3>1, <1>3
  <2> QED
    BY <2>1, <2>2, <2>3, <1>1
<1>6. \A i, j \in DOMAIN v : v[i] = v[j] => i = j
  BY <1>1, <1>2, <1>3
<1>7. /\ pListLast[p] = IF k = 1 THEN NULL ELSE w[k - 1]
      /\ pListNext[p] = IF k = n THEN NULL ELSE w[k + 1]
      /\ pListHead = w[1] /\ pListTail = w[n]
  BY <1>1, <1>2, SMTT(40) DEF Walks, IsWalk, BackLinks
<1>8. pListHead' = IF n - 1 = 0 THEN NULL ELSE v[1]
  <2>1. k # 1 => w[k - 1] # NULL
    BY <1>1, <1>2
  <2> QED
    BY <2>1, <1>1, <1>3, <1>7 DEF UnlinkFromList
<1>9. pListTail' = IF n - 1 = 0 THEN NULL ELSE v[n - 1]
  <2>1. k # n => w[k + 1] # NULL
    BY <1>1, <1>2
  <2> QED
    BY <2>1, <1>1, <1>3, <1>7 DEF UnlinkFromList, TailWithout
<1>10. ASSUME NEW i \in 1 .. n - 1
       PROVE  pListNext'[v[i]] = IF i = n - 1 THEN NULL ELSE v[i + 1]
  <2>1. \A j \in 1 .. n : pListNext[w[j]] = IF j = n THEN NULL ELSE w[j + 1]
    BY <1>2 DEF Walks, IsWalk
  <2>2. pListNext'[v[i]] = IF v[i] = pListLast[p] THEN pListNext[p] ELSE pListNext[v[i]]
    BY <1>4 DEF UnlinkFromList
  <2>3. CASE i < k - 1
    BY <2>1, <2>2, <2>3, <1>1, <1>2, <1>3, <1>7
  <2>4. CASE i = k - 1
    BY <2>1, <2>2, <2>4, <1>1, <1>2, <1>3, <1>7
  <2>5. CASE i >= k
    <3>1. v[i] = w[i + 1] /\ i + 1 \in 1 .. n /\ (i # n - 1 => v[i + 1] = w[i + 2])
      BY <2>5, <1>1, <1>3
    <3>2. w[i + 1] # pListLast[p]
      BY <2>5, <3>1, <1>1, <1>2, <1>7
    <3> QED
      BY <2>1, <2>2, <3>1, <3>2, <1>1
  <2> QED
    BY <2>3, <2>4, <2>5, <1>1
<1>11. ASSUME NEW i \in 1 .. n - 1
       PROVE  pListLast'[v[i]] = IF i = 1 THEN NULL ELSE v[i - 1]
  <2>1. \A j \in 1 .. n : pListLast[w[j]] = IF j = 1 THEN NULL ELSE w[j - 1]
    BY <1>2 DEF BackLinks
  <2>2. pListLast'[v[i]] = IF v[i] = pListNext[p] THEN pListLast[p] ELSE pListLast[v[i]]
    BY <1>4 DEF UnlinkFromList
  <2>3. CASE i < k
    <3>1. v[i] = w[i] /\ i \in 1 .. n /\ (i # 1 => v[i - 1] = w[i - 1])
      BY <2>3, <1>1, <1>3
    <3>2. w[i] # pListNext[p]
      BY <2>3, <3>1, <1>1, <1>2, <1>7
    <3> QED
      BY <2>1, <2>2, <3>1, <3>2, <1>1
  <2>4. CASE i = k
    BY <2>1, <2>2, <2>4, <1>1, <1>2, <1>3, <1>7
  <2>5. CASE i > k
    <3>1. v[i] = w[i + 1] /\ i + 1 \in 1 .. n /\ v[i - 1] = w[i] /\ i # 1
      BY <2>5, <1>1, <1>3
    <3>2. w[i + 1] # pListNext[p]
      <4>1. k \in 1 .. n /\ k + 1 \in 1 .. n /\ k # n /\ i + 1 # k + 1
        BY <2>5, <1>1
      <4>2. pListNext[p] = w[k + 1]
        BY <4>1, <1>7
      <4> QED
        BY <4>1, <4>2, <3>1, <1>2
    <3> QED
      BY <2>1, <2>2, <3>1, <3>2, <1>1
  <2> QED
    BY <2>3, <2>4, <2>5, <1>1
<1>12. IsWalk(v)'
  <2>1. pListHead' = IF nNumOfElements' = 0 THEN NULL ELSE v[1]
    BY <1>1, <1>8
  <2>2. \A i \in DOMAIN v : pListNext'[v[i]] = IF i = nNumOfElements' THEN NULL ELSE v[i + 1]
    BY <1>1, <1>3, <1>10
  <2> QED
    BY <2>1, <2>2, <1>5, <1>6 DEF IsWalk
<1>13. BackLinks(v)'
  <2>1. pListTail' = IF nNumOfElements' = 0 THEN NULL ELSE v[nNumOfElements']
    BY <1>1, <1>9
  <2>2. \A i \in DOMAIN v : pListLast'[v[i]] = IF i = 1 THEN NULL ELSE v[i - 1]
    BY <1>3, <1>11
  <2> QED
    BY <2>1, <2>2 DEF BackLinks
<1> QED
  BY <1>1, <1>4, <1>12, <1>13 DEF Walks

\* Relinking the buckets in any order makes a list.
LEMMA SortedList ==
  ASSUME nNumOfElements \in Nat, nNumOfElements > 1,
         NEW t \in [1 .. nNumOfElements -> Allocated],
         \A b \in Allocated : \E i \in DOMAIN t : t[i] = b,
         \A i, j \in DOMAIN t : t[i] = t[j] => i = j,
         Relink(t), Allocated' = Allocated, nNumOfElements' = nNumOfElements
  PROVE  t \in Walks' /\ BackLinks(t)'
<1>1. DOMAIN t = 1 .. nNumOfElements /\ \A i \in DOMAIN t : t[i] \in Allocated
  OBVIOUS
<1>2. ASSUME NEW i \in DOMAIN t
      PROVE  (CHOOSE j \in DOMAIN t : t[j] = t[i]) = i
  OBVIOUS
<1>3. ASSUME NEW i \in DOMAIN t
      PROVE  /\ pListNext'[t[i]] = IF i = nNumOfElements THEN NULL ELSE t[i + 1]
             /\ pListLast'[t[i]] = IF i = 1 THEN NULL ELSE t[i - 1]
  <2> DEFINE at(b) == CHOOSE j \in DOMAIN t : t[j] = b
  <2>1. /\ pListNext' = [b \in Allocated |->
                            IF at(b) = nNumOfElements THEN NULL ELSE t[at(b) + 1]]
        /\ pListLast' = [b \in Allocated |-> IF at(b) = 1 THEN NULL ELSE t[at(b) - 1]]
    BY DEF Relink
  <2>2. at(t[i]) = i
    BY <1>2
  <2> HIDE DEF at
  <2> QED
    BY <1>1, <2>1, <2>2
<1>4. pListHead' = t[1] /\ pListTail' = t[nNumOfElements]
  BY DEF Relink
<1>5. IsWalk(t)'
  <2>1. \A b \in Allocated' : \E i \in DOMAIN t : t[i] = b
    OBVIOUS
  <2>2. \A i \in DOMAIN t : pListNext'[t[i]] = IF i = nNumOfElements' THEN NULL ELSE t[i + 1]
    BY <1>3
  <2>3. pListHead' = IF nNumOfElements' = 0 THEN NULL ELSE t[1]
    BY <1>4
  <2> QED
    BY <2>1, <2>2, <2>3 DEF IsWalk
<1>6. BackLinks(t)'
  <2>1. \A i \in DOMAIN t : pListLast'[t[i]] = IF i = 1 THEN NULL ELSE t[i - 1]
    BY <1>3
  <2>2. pListTail' = IF nNumOfElements' = 0 THEN NULL ELSE t[nNumOfElements']
    BY <1>4
  <2> QED
    BY <2>1, <2>2 DEF BackLinks
<1> QED
  BY <1>5, <1>6 DEF Walks

\* The number of elements is the number of buckets.
LEMMA WalkCounts ==
  ASSUME NEW w \in Walks, nNumOfElements \in Nat
  PROVE  Cardinality(Allocated) = nNumOfElements /\ IsFiniteSet(Allocated)
<1>1. w \in Bijection(1 .. nNumOfElements, Allocated)
  BY DEF Walks, IsWalk, Bijection, Injection, Surjection, IsInjective
<1>2. ExistsBijection(1 .. nNumOfElements, Allocated)
  BY <1>1 DEF ExistsBijection
<1> QED
  BY <1>2, FS_CountingElements, FS_NatBijection

-----------------------------------------------------------------------------
(* The chains *)

\* A chain is a sequence of buckets, the one of a hash is in the array.
LEMMA TableSize ==
  ASSUME TableType
  PROVE  /\ nTableSize \in Nat \ {0}
         /\ \A h \in Index : /\ h % nTableSize \in 0 .. nTableSize - 1
                              /\ Chain(h) \in Seq(Bucket)
<1>1. PrimeNumbers \in Seq(Nat \ {0}) /\ nHashSizeIndex \in 1 .. Len(PrimeNumbers)
  BY PrimeAssumption DEF TableType
<1>2. nTableSize \in Nat \ {0}
  BY <1>1, ElementOfSeq DEF nTableSize
<1>3. \A h \in Index : h % nTableSize \in 0 .. nTableSize - 1
  BY <1>2, WidthAssumption DEF Index
<1> QED
  BY <1>2, <1>3 DEF Chain, TableType

\* A lookup that stops, stops at a bucket with that key.
LEMMA FoundMatches ==
  ASSUME NEW id, NEW b \in Found(id)
  PROVE  b \in Allocated /\ Id(b) = id
BY DEF Found, FirstIn

\* A lookup of a key in the table does not miss it.
LEMMA FoundIsIt ==
  ASSUME TableType, ChainInv, KeyInv, NEW b \in Allocated
  PROVE  Found(Id(b)) = {b}
<1> DEFINE id == Id(b)
           c == Chain(id[2])
           same == {a \in Allocated : Id(a) = id}
<1>1. id[2] = bucket[b].h /\ id[2] \in Index
  BY DEF Id, TableType
<1>2. same = {b}
  BY DEF KeyInv
<1>3. PICK j \in DOMAIN c : c[j] = b
  BY <1>1, TableSize DEF ChainInv, Chain
<1>4. c \in Seq(Bucket) /\ DOMAIN c = 1 .. Len(c) /\ \A i, k \in DOMAIN c : c[i] = c[k] => i = k
  <2>1. c \in Seq(Bucket)
    BY <1>1, TableSize
  <2> QED
    BY <1>1, <2>1, TableSize, LenProperties DEF ChainInv, Chain
<1>5. FirstIn(c, same) = {j}
  <2> HIDE DEF c, same
  <2> QED
    BY <1>2, <1>3, <1>4 DEF FirstIn
<1>6. Found(id) = {c[i] : i \in FirstIn(c, same)}
  BY DEF Found
<1> HIDE DEF c, same
<1> QED
  BY <1>3, <1>5, <1>6

\* So a lookup that finds nothing means that the key is not in the table.
LEMMA NotFoundIsNew ==
  ASSUME TableType, ChainInv, KeyInv, NEW id, Found(id) = {}
  PROVE  \A b \in Allocated : Id(b) # id
BY FoundIsIt

\* A deletion stops at a bucket of its hash: one with its key, or an index.
LEMMA VictimMatches ==
  ASSUME NEW id, NEW i \in Victims(id)
  PROVE  /\ i \in 1 .. Len(Chain(id[2]))
         /\ Chain(id[2])[i] \in Allocated
         /\ bucket[Chain(id[2])[i]].h = id[2]
         /\ bucket[Chain(id[2])[i]].arKey \in {NULL, id[1]}
BY DEF Victims, FirstIn

\* The sequences t are chains of the buckets S, whose hashes are hv.
IsChaining(t, S, hv, size) ==
  \A i \in 0 .. size - 1 :
    /\ \A b \in S : hv[b] % size = i => \E j \in DOMAIN t[i] : t[i][j] = b
    /\ \A j \in DOMAIN t[i] : t[i][j] \in S /\ hv[t[i][j]] % size = i
    /\ \A j, k \in DOMAIN t[i] : t[i][j] = t[i][k] => j = k

\* Rehashing, from the list w, buckets S with the hashes hv, gives every
\* bucket its place in the chain of its hash, once.
LEMMA RehashedChains ==
  ASSUME NEW S, IsFiniteSet(S), NEW hv \in [S -> Index], NEW w,
         NEW size \in Nat \ {0}, NEW t \in Rehashed(w, hv, size)
  PROVE  t \in [0 .. size - 1 -> Seq(S)] /\ IsChaining(t, S, hv, size)
<1> DEFINE of(i) == {b \in S : hv[b] % size = i}
<1>1. ASSUME NEW i \in 0 .. size - 1, NEW c \in PushedChains(w, hv, size, i)
      PROVE  c \in Enumerations(of(i)) /\ c \in Seq(S)
  <2>1. c \in Enumerations(of(i))
    <3>1. DOMAIN hv = S
      OBVIOUS
    <3> QED
      BY <3>1 DEF PushedChains
  <2>2. IsFiniteSet(of(i)) /\ Cardinality(of(i)) \in Nat
    BY FS_Subset, FS_CardinalityType
  <2>3. c \in [1 .. Cardinality(of(i)) -> of(i)]
    BY <2>1 DEF Enumerations
  <2>4. c \in Seq(of(i))
    <3> HIDE DEF of
    <3> QED
      BY <2>2, <2>3, SeqDef
  <2> QED
    BY <2>1, <2>4, SeqMonotonic
<1>2. \A i \in 0 .. size - 1 : t[i] \in PushedChains(w, hv, size, i)
  BY DEF Rehashed
<1>3. t \in [0 .. size - 1 -> Seq(S)]
  <2>1. DOMAIN t = 0 .. size - 1 /\ t = [i \in DOMAIN t |-> t[i]]
    BY DEF Rehashed
  <2> QED
    BY <1>1, <1>2, <2>1
<1>4. ASSUME NEW i \in 0 .. size - 1
      PROVE  /\ \A b \in S : hv[b] % size = i => \E j \in DOMAIN t[i] : t[i][j] = b
             /\ \A j \in DOMAIN t[i] : t[i][j] \in S /\ hv[t[i][j]] % size = i
             /\ \A j, k \in DOMAIN t[i] : t[i][j] = t[i][k] => j = k
  <2>1. t[i] \in Enumerations(of(i))
    BY <1>1, <1>2
  <2>2. /\ \A b \in of(i) : \E j \in DOMAIN t[i] : t[i][j] = b
        /\ \A j, k \in DOMAIN t[i] : t[i][j] = t[i][k] => j = k
        /\ \A j \in DOMAIN t[i] : t[i][j] \in of(i)
    BY <2>1 DEF Enumerations
  <2> QED
    BY <2>2
<1> QED
  BY <1>3, <1>4 DEF IsChaining

-----------------------------------------------------------------------------
(* The heap *)

\* Blocks of keys and blocks of data are added and removed independently.
LEMMA OwnedSets ==
  \A K, D, K2, D2 : /\ Owned(K, D) \cup Owned(K2, D2) = Owned(K \cup K2, D \cup D2)
                    /\ Owned(K, D) \ Owned(K2, D2) = Owned(K \ K2, D \ D2)
<1>1. "key" # "data"
  OBVIOUS
<1>2. \A x, A, B : x \in Owned(A, B) <=> \/ \E b \in A : x = <<"key", b>>
                                         \/ \E b \in B : x = <<"data", b>>
  BY DEF Owned
<1> QED
  BY <1>1, <1>2

-----------------------------------------------------------------------------
(* Steps *)

\* What a step leaves alone keeps its invariant: the list, ...
LEMMA SameList ==
  ASSUME ListInv, Allocated' = Allocated, UNCHANGED <<listVars, nNumOfElements>>
  PROVE  ListInv'
<1>1. PICK w \in Walks : BackLinks(w)
  BY DEF ListInv
<1>2. w \in Walks'
  BY <1>1 DEF Walks, IsWalk, listVars
<1>3. BackLinks(w)'
  BY <1>1 DEF BackLinks, listVars
<1> QED
  BY <1>2, <1>3 DEF ListInv

\* ... the chains, which depend on the hashes of the buckets, ...
LEMMA SameChains ==
  ASSUME ChainInv, Allocated' = Allocated, UNCHANGED <<arBuckets, nHashSizeIndex>>,
         \A b \in Allocated : bucket'[b].h = bucket[b].h
  PROVE  ChainInv'
<1>1. nTableSize' = nTableSize
  BY DEF nTableSize
<1> QED
  BY <1>1 DEF ChainInv

\* ... and the keys.
LEMMA SameKeys ==
  ASSUME KeyInv, Allocated' = Allocated,
         \A b \in Allocated : bucket'[b].h = bucket[b].h /\ bucket'[b].arKey = bucket[b].arKey
  PROVE  KeyInv'
BY DEF KeyInv, Id

tableVars == <<bucket, listVars, pInternalPointer, arBuckets, nHashSizeIndex,
               nNumOfElements, heap>>

\* A step that changes no field of the table keeps its invariant (the failing
\* returns of every update and delete function).
LEMMA UnchangedTable ==
  ASSUME TableInv, UNCHANGED tableVars
  PROVE  TableInv'
<1>1. Allocated' = Allocated /\ nTableSize' = nTableSize
  BY DEF tableVars, Allocated, nTableSize
<1>2. ListInv' /\ ChainInv' /\ KeyInv'
  BY <1>1, SameList, SameChains, SameKeys DEF TableInv, tableVars
<1>3. HeapInv'
  BY <1>1 DEF TableInv, tableVars, HeapInv, WithKey, WithData
<1>4. TableType' /\ CursorOK'
  BY <1>1 DEF TableInv, tableVars, listVars, TableType, CursorOK
<1> QED
  BY <1>2, <1>3, <1>4 DEF TableInv

\* Moving the cursor to a bucket, or off the list, keeps the invariant.
LEMMA MovedCursor ==
  ASSUME TableInv, NEW q \in Allocated \cup {NULL}, MovePointer(q)
  PROVE  TableInv'
<1>1. Allocated' = Allocated /\ nTableSize' = nTableSize
  BY DEF MovePointer, Allocated, nTableSize
<1>2. ListInv' /\ ChainInv' /\ KeyInv'
  BY <1>1, SameList, SameChains, SameKeys DEF TableInv, MovePointer
<1>3. HeapInv'
  BY <1>1 DEF TableInv, MovePointer, HeapInv, WithKey, WithData
<1>4. TableType' /\ CursorOK'
  BY <1>1 DEF TableInv, MovePointer, listVars, TableType, CursorOK
<1> QED
  BY <1>2, <1>3, <1>4 DEF TableInv

\* Overwriting the data of a bucket, or of the slot it refers to, and turning
\* it into a reference keep the invariant.
LEMMA OverwriteStep ==
  ASSUME TableInv, CallerType, NEW b \in Allocated, NEW v \in Value,
         Overwrite(b, v), UNCHANGED <<structure, heap>>
  PROVE  TableInv' /\ Allocated' = Allocated /\ foreign' \in [Foreign -> Value]
<1>1. CASE bucket[b].bIsPointer
  <2>1. UNCHANGED tableVars /\ foreign' = [foreign EXCEPT ![bucket[b].pData] = v]
    BY <1>1 DEF Overwrite, structure, tableVars
  <2> QED
    BY <2>1, UnchangedTable DEF CallerType, tableVars, Allocated
<1>2. CASE ~bucket[b].bIsPointer
  <2>1. /\ bucket' = [bucket EXCEPT ![b].pData = v] /\ UNCHANGED foreign
        /\ UNCHANGED <<listVars, pInternalPointer, arBuckets, nHashSizeIndex,
                       nNumOfElements, heap>>
    BY <1>2 DEF Overwrite, structure
  <2>2. bucket \in [Allocated -> [arKey : StrKey \cup {NULL}, h : Index,
                                  pData : Value \cup Foreign, bIsPointer : BOOLEAN]]
    BY DEF TableInv, TableType
  <2>3. /\ Allocated' = Allocated /\ nTableSize' = nTableSize
        /\ bucket' \in [Allocated -> [arKey : StrKey \cup {NULL}, h : Index,
                                      pData : Value \cup Foreign, bIsPointer : BOOLEAN]]
        /\ \A a \in Allocated : /\ bucket'[a].h = bucket[a].h
                                /\ bucket'[a].arKey = bucket[a].arKey
                                /\ bucket'[a].bIsPointer = bucket[a].bIsPointer
                                /\ bucket'[a].pData = IF a = b THEN v ELSE bucket[a].pData
    BY <2>1, <2>2 DEF Allocated, nTableSize
  <2>4. ListInv' /\ ChainInv' /\ KeyInv'
    BY <2>1, <2>3, SameList, SameChains, SameKeys DEF TableInv
  <2>5. HeapInv'
    <3>1. WithKey' = WithKey /\ WithData' = WithData
      BY <2>3 DEF WithKey, WithData
    <3> QED
      BY <2>1, <3>1, Zenon DEF TableInv, HeapInv
  <2>6. \A a \in Allocated' : bucket'[a].bIsPointer <=> bucket'[a].pData \in Foreign
    BY <1>2, <2>3, ValueAssumption DEF TableInv, TableType
  <2>7. TableType' /\ CursorOK'
    BY <2>1, <2>3, <2>6 DEF TableInv, listVars, TableType, CursorOK
  <2> QED
    BY <2>1, <2>3, <2>4, <2>5, <2>7 DEF TableInv, CallerType
<1> QED
  BY <1>1, <1>2

\* Turning the slot of a bucket into a reference frees the slot, if the bucket
\* owned it, and keeps the invariant (_php3_hash_pointer_update).
LEMMA MakePointerStep ==
  ASSUME TableInv, NEW b \in Allocated, NEW f \in Foreign,
         MakePointer(b, f), UNCHANGED structure
  PROVE  TableInv' /\ Allocated' = Allocated
<1>1. /\ bucket' = [bucket EXCEPT ![b].pData = f, ![b].bIsPointer = TRUE]
      /\ heap' = heap \ Owned({}, {b})
      /\ UNCHANGED <<listVars, pInternalPointer, arBuckets, nHashSizeIndex, nNumOfElements>>
  BY DEF MakePointer, structure
<1>2. bucket \in [Allocated -> [arKey : StrKey \cup {NULL}, h : Index,
                                pData : Value \cup Foreign, bIsPointer : BOOLEAN]]
  BY DEF TableInv, TableType
<1>3. /\ Allocated' = Allocated /\ nTableSize' = nTableSize
      /\ bucket' \in [Allocated -> [arKey : StrKey \cup {NULL}, h : Index,
                                    pData : Value \cup Foreign, bIsPointer : BOOLEAN]]
      /\ \A a \in Allocated :
           /\ bucket'[a].h = bucket[a].h
           /\ bucket'[a].arKey = bucket[a].arKey
           /\ bucket'[a].bIsPointer = IF a = b THEN TRUE ELSE bucket[a].bIsPointer
           /\ bucket'[a].pData = IF a = b THEN f ELSE bucket[a].pData
  BY <1>1, <1>2 DEF Allocated, nTableSize
<1>4. ListInv' /\ ChainInv' /\ KeyInv'
  BY <1>1, <1>3, SameList, SameChains, SameKeys DEF TableInv
<1>5. HeapInv'
  <2>1. WithKey' = WithKey \ {} /\ WithData' = WithData \ {b}
    BY <1>3 DEF WithKey, WithData
  <2>2. heap' = Owned(WithKey, WithData) \ Owned({}, {b})
    BY <1>1 DEF TableInv, HeapInv
  <2>3. heap' = Owned(WithKey \ {}, WithData \ {b})
    BY <2>2, OwnedSets
  <2> QED
    BY <2>1, <2>3, Zenon DEF HeapInv
<1>6. TableType' /\ CursorOK'
  BY <1>1, <1>3 DEF TableInv, listVars, TableType, CursorOK
<1> QED
  BY <1>3, <1>4, <1>5, <1>6 DEF TableInv

\* A key that is not in the table can be added in a fresh bucket, resize
\* included.
LEMMA NewBucketStep ==
  ASSUME TableInv, NEW id \in AllIds, Found(id) = {},
         NEW p \in Bucket \ Allocated, NEW isPtr \in BOOLEAN,
         NEW d, isPtr => d \in Foreign, ~isPtr => d \in Value,
         NewBucket(p, id, d, isPtr)
  PROVE  TableInv' /\ Allocated' = Allocated \cup {p}
<1> DEFINE Content == [arKey : StrKey \cup {NULL}, h : Index,
                       pData : Value \cup Foreign, bIsPointer : BOOLEAN]
           new == [arKey |-> id[1], h |-> id[2], pData |-> d, bIsPointer |-> isPtr]
           size == nTableSize
<1>1. /\ bucket' = [b \in Allocated \cup {p} |-> IF b = p THEN new ELSE bucket[b]]
      /\ heap' = heap \cup Blocks(p, id, isPtr)
      /\ LinkAtTail(p) /\ ChainAtHead(p, id[2])
  BY DEF NewBucket
<1>2. /\ id[1] \in StrKey \cup {NULL} /\ id[2] \in Index
      /\ id = <<id[1], id[2]>>
      /\ id[1] # NULL => id = KeyId(id[1])
  BY KeyAssumption, HashAssumption, NumericAssumption, WidthAssumption
  DEF AllIds, IndexId, KeyId, IsNumeric
<1>3. new \in Content
  BY <1>2
<1>4. bucket \in [Allocated -> Content] /\ NULL \notin Allocated /\ p # NULL /\ p \in Bucket
  BY BucketAssumption DEF TableInv, TableType
<1>5. /\ Allocated' = Allocated \cup {p}
      /\ bucket' \in [Allocated' -> Content]
      /\ bucket'[p] = new
      /\ \A b \in Allocated : bucket'[b] = bucket[b]
  <2> HIDE DEF new, Content
  <2> QED
    BY <1>1, <1>3, <1>4 DEF Allocated
<1>6. ListInv'
  <2>1. PICK w \in Walks : BackLinks(w)
    BY DEF TableInv, ListInv
  <2>2. PICK v : v = [i \in 1 .. nNumOfElements + 1 |->
                        IF i = nNumOfElements + 1 THEN p ELSE w[i]]
    OBVIOUS
  <2>3. nNumOfElements \in Nat
    BY DEF TableInv, TableType
  <2>4. v \in Walks' /\ BackLinks(v)'
    BY <1>1, <1>4, <1>5, <2>1, <2>2, <2>3, TailList
  <2> QED
    BY <2>4 DEF ListInv
<1>7. \A b \in Allocated : Id(b) # id /\ Id(b)' = Id(b)
  BY <1>5, NotFoundIsNew DEF TableInv, Id
<1>8. Id(p)' = id
  BY <1>2, <1>5 DEF Id
<1>9. KeyInv'
  <2>1. \A b, c \in Allocated' : Id(b)' = Id(c)' => b = c
    BY <1>5, <1>7, <1>8 DEF TableInv, KeyInv
  <2>2. \A b \in Allocated' : bucket'[b].arKey # NULL => Id(b)' = KeyId(bucket'[b].arKey)
    BY <1>2, <1>5, <1>7, <1>8 DEF TableInv, KeyInv
  <2> QED
    BY <2>1, <2>2 DEF KeyInv
<1>10. HeapInv'
  <2> DEFINE K == IF id[1] = NULL THEN {} ELSE {p}
             D == IF isPtr THEN {} ELSE {p}
  <2>1. WithKey' = WithKey \cup K /\ WithData' = WithData \cup D
    BY <1>5 DEF WithKey, WithData
  <2>2. heap' = Owned(WithKey, WithData) \cup Owned(K, D)
    BY <1>1 DEF TableInv, HeapInv, Blocks
  <2> HIDE DEF K, D
  <2>3. heap' = Owned(WithKey \cup K, WithData \cup D)
    BY <2>2, OwnedSets
  <2> QED
    BY <2>1, <2>3, Zenon DEF HeapInv
<1>11. CursorOK'
  BY <1>1, <1>5 DEF TableInv, CursorOK, LinkAtTail
<1>12. size \in Nat \ {0} /\ id[2] % size \in 0 .. size - 1
  BY <1>2, TableSize DEF TableInv
<1>13. /\ ChainInv' /\ nHashSizeIndex' \in 1 .. Len(PrimeNumbers)
       /\ arBuckets' \in [0 .. nTableSize' - 1 -> Seq(Bucket)]
  <2>1. CASE nNumOfElements + 1 > size /\ nHashSizeIndex < Len(PrimeNumbers)
    <3> DEFINE hv == [b \in Allocated' |-> bucket'[b].h]
    <3>1. nHashSizeIndex' = nHashSizeIndex + 1 /\ \E w \in Walks' : arBuckets' \in Rehashed(w, hv, nTableSize')
      BY <1>1, <2>1 DEF ChainAtHead
    <3>2. nHashSizeIndex' \in 1 .. Len(PrimeNumbers)
      BY <2>1, <3>1, PrimeAssumption, LenProperties DEF TableInv, TableType
    <3>3. nTableSize' \in Nat \ {0}
      BY <3>2, PrimeAssumption, ElementOfSeq DEF nTableSize
    <3>4. hv \in [Allocated' -> Index]
      BY <1>5
    <3>5. IsFiniteSet(Allocated') /\ Allocated' \subseteq Bucket
      BY <1>4, <1>5, BucketAssumption, FS_Subset DEF TableInv, TableType
    <3>6. PICK w : arBuckets' \in Rehashed(w, hv, nTableSize')
      BY <3>1
    <3> HIDE DEF hv
    <3>7. /\ arBuckets' \in [0 .. nTableSize' - 1 -> Seq(Allocated')]
          /\ IsChaining(arBuckets', Allocated', hv, nTableSize')
      BY <3>3, <3>4, <3>5, <3>6, RehashedChains
    <3>8. \A b \in Allocated' : hv[b] = bucket'[b].h
      BY DEF hv
    <3>9. ChainInv'
      BY <3>7, <3>8 DEF ChainInv, IsChaining
    <3>10. arBuckets' \in [0 .. nTableSize' - 1 -> Seq(Bucket)]
      BY <3>5, <3>7, SeqMonotonic
    <3> QED
      BY <3>2, <3>9, <3>10
  <2>2. CASE ~(nNumOfElements + 1 > size /\ nHashSizeIndex < Len(PrimeNumbers))
    <3> DEFINE x == id[2] % size
               c == arBuckets[x]
               c2 == <<p>> \o c
    <3>1. UNCHANGED nHashSizeIndex /\ arBuckets' = [arBuckets EXCEPT ![x] = c2]
      BY <1>1, <2>2 DEF ChainAtHead
    <3>2. arBuckets \in [0 .. size - 1 -> Seq(Bucket)] /\ x \in 0 .. size - 1 /\ nTableSize' = size
      BY <1>12, <3>1 DEF TableInv, TableType, nTableSize
    <3>3. c \in Seq(Bucket) /\ Len(c) \in Nat /\ DOMAIN c = 1 .. Len(c)
      BY <3>2, LenProperties
    <3>4. <<p>> \in Seq(Bucket) /\ Len(<<p>>) = 1 /\ <<p>>[1] = p
      BY <1>4
    <3> HIDE DEF c, x, size
    <3>5. /\ c2 \in Seq(Bucket) /\ Len(c2) = Len(c) + 1
          /\ \A j \in 1 .. Len(c) + 1 : c2[j] = IF j = 1 THEN p ELSE c[j - 1]
      BY <3>3, <3>4, ConcatProperties
    <3>6. DOMAIN c2 = 1 .. Len(c) + 1
      BY <3>5, LenProperties
    <3> HIDE DEF c2
    <3>7. arBuckets' \in [0 .. size - 1 -> Seq(Bucket)]
      BY <3>1, <3>2, <3>5
    <3>8. ASSUME NEW i \in 0 .. size - 1
          PROVE  arBuckets'[i] = IF i = x THEN c2 ELSE arBuckets[i]
      BY <3>1, <3>2
    <3>9. bucket'[p].h % size = x
      BY <1>5 DEF x, size
    <3>10. ASSUME NEW i \in 0 .. size - 1
           PROVE  /\ \A b \in Allocated' : bucket'[b].h % size = i =>
                                       \E j \in DOMAIN arBuckets'[i] : arBuckets'[i][j] = b
                  /\ \A j \in DOMAIN arBuckets'[i] :
                       arBuckets'[i][j] \in Allocated' /\ bucket'[arBuckets'[i][j]].h % size = i
                  /\ \A j, k \in DOMAIN arBuckets'[i] : arBuckets'[i][j] = arBuckets'[i][k] => j = k
      <4>1. /\ \A b \in Allocated : bucket[b].h % size = i =>
                                       \E j \in DOMAIN arBuckets[i] : arBuckets[i][j] = b
            /\ \A j \in DOMAIN arBuckets[i] :
                 arBuckets[i][j] \in Allocated /\ bucket[arBuckets[i][j]].h % size = i
            /\ \A j, k \in DOMAIN arBuckets[i] : arBuckets[i][j] = arBuckets[i][k] => j = k
        BY DEF TableInv, ChainInv, size
      <4>2. CASE i # x
        BY <4>1, <4>2, <3>8, <3>9, <1>5
      <4>3. CASE i = x
        <5>1. arBuckets'[i] = c2 /\ arBuckets[i] = c
          BY <4>3, <3>8 DEF c
        <5>2. \A j \in 2 .. Len(c) + 1 : j - 1 \in DOMAIN c /\ c2[j] = c[j - 1]
          BY <3>3, <3>5
        <5>3. \A j \in DOMAIN c : j + 1 \in DOMAIN c2 /\ c2[j + 1] = c[j]
          BY <3>3, <3>5, <3>6
        <5>4. c2[1] = p /\ 1 \in DOMAIN c2 /\ \A j \in DOMAIN c2 : j = 1 \/ j \in 2 .. Len(c) + 1
          BY <3>3, <3>5, <3>6
        <5>5. ASSUME NEW b \in Allocated', bucket'[b].h % size = i
              PROVE  \E j \in DOMAIN c2 : c2[j] = b
          BY <4>1, <5>1, <5>3, <5>4, <5>5, <1>5
        <5>6. ASSUME NEW j \in DOMAIN c2
              PROVE  c2[j] \in Allocated' /\ bucket'[c2[j]].h % size = i
          BY <4>1, <4>3, <5>1, <5>2, <5>4, <3>9, <1>5
        <5>7. ASSUME NEW j \in DOMAIN c2, NEW k \in DOMAIN c2, c2[j] = c2[k]
              PROVE  j = k
          BY <4>1, <5>1, <5>2, <5>4, <5>7, <1>4
        <5> QED
          BY <5>1, <5>5, <5>6, <5>7
      <4> QED
        BY <4>2, <4>3
    <3>11. ChainInv'
      BY <3>2, <3>10 DEF ChainInv
    <3> QED
      BY <3>1, <3>2, <3>7, <3>11 DEF TableInv, TableType
  <2> QED
    BY <2>1, <2>2
<1>14. TableType'
  <2>1. Allocated' \subseteq Bucket /\ \A b \in Allocated' : bucket'[b].bIsPointer <=> bucket'[b].pData \in Foreign
    BY <1>4, <1>5, ValueAssumption DEF TableInv, TableType
  <2>2. /\ pListNext' \in [Allocated' -> Bucket \cup {NULL}]
        /\ pListLast' \in [Allocated' -> Bucket \cup {NULL}]
        /\ {pListHead', pListTail', pInternalPointer'} \subseteq Bucket \cup {NULL}
        /\ nNumOfElements' \in Nat
    BY <1>1, <1>4, <1>5 DEF TableInv, TableType, LinkAtTail
  <2>3. heap' \subseteq {"key", "data"} \X Bucket
    BY <1>1, <1>4 DEF TableInv, TableType, Blocks, Owned
  <2> QED
    BY <1>5, <1>13, <2>1, <2>2, <2>3 DEF TableType
<1> QED
  BY <1>5, <1>6, <1>9, <1>10, <1>11, <1>13, <1>14 DEF TableInv

\* The elements of d, all different, are those of c but e.
LosesOnly(c, d, e) ==
  /\ \A b : (\E j \in DOMAIN d : d[j] = b) <=> b # e /\ \E j \in DOMAIN c : c[j] = b
  /\ \A j, k \in DOMAIN d : d[j] = d[k] => j = k

\* A chain without its i-th element.
LEMMA ShorterChain ==
  ASSUME NEW S, NEW c \in Seq(S), NEW i \in 1 .. Len(c),
         \A j, k \in DOMAIN c : c[j] = c[k] => j = k
  PROVE  Without(c, i) \in Seq(S) /\ LosesOnly(c, Without(c, i), c[i])
<1> DEFINE n == Len(c)
           d == [j \in 1 .. n - 1 |-> IF j < i THEN c[j] ELSE c[j + 1]]
<1>1. n \in Nat /\ DOMAIN c = 1 .. n /\ n - 1 \in Nat /\ \A j \in 1 .. n : c[j] \in S
  BY LenProperties
<1>2. Without(c, i) = d /\ DOMAIN d = 1 .. n - 1
  BY DEF Without
<1>3. \A j \in 1 .. n - 1 : d[j] = IF j < i THEN c[j] ELSE c[j + 1]
  OBVIOUS
<1> HIDE DEF n, d
<1>4. d \in Seq(S)
  <2>1. \A j \in 1 .. n - 1 : d[j] \in S
    BY <1>1, <1>3 DEF n
  <2>2. d = [j \in 1 .. n - 1 |-> d[j]]
    BY DEF d
  <2>3. d \in [1 .. n - 1 -> S]
    BY <2>1, <2>2
  <2> QED
    BY <1>1, <2>3, SeqDef
<1>5. ASSUME NEW b
      PROVE  (\E j \in 1 .. n - 1 : d[j] = b) <=> b # c[i] /\ \E j \in 1 .. n : c[j] = b
  <2>1. ASSUME NEW j \in 1 .. n - 1, d[j] = b
        PROVE  b # c[i] /\ \E k \in 1 .. n : c[k] = b
    <3>1. CASE j < i
      BY <2>1, <3>1, <1>1, <1>3 DEF n
    <3>2. CASE j >= i
      <4>1. j + 1 \in 1 .. n /\ c[j + 1] = b /\ j + 1 # i
        BY <2>1, <3>2, <1>1, <1>3 DEF n
      <4> QED
        BY <4>1, <1>1 DEF n
    <3> QED
      BY <3>1, <3>2, <1>1 DEF n
  <2>2. ASSUME b # c[i], NEW j \in 1 .. n, c[j] = b
        PROVE  \E k \in 1 .. n - 1 : d[k] = b
    <3>1. CASE j < i
      BY <2>2, <3>1, <1>1, <1>3 DEF n
    <3>2. CASE j > i
      <4>1. j - 1 \in 1 .. n - 1 /\ d[j - 1] = b
        BY <2>2, <3>2, <1>1, <1>3 DEF n
      <4> QED
        BY <4>1
    <3> QED
      BY <2>2, <3>1, <3>2, <1>1 DEF n
  <2> QED
    BY <2>1, <2>2
<1>6. \A j, k \in 1 .. n - 1 : d[j] = d[k] => j = k
  BY <1>1, <1>3 DEF n
<1> QED
  BY <1>1, <1>2, <1>4, <1>5, <1>6 DEF LosesOnly

\* Deleting the bucket a deletion stops at keeps the invariant.
LEMMA UnlinkStep ==
  ASSUME TableInv, NEW id, id[2] \in Index, NEW i \in Victims(id),
         Unlink(id, i), UNCHANGED nHashSizeIndex
  PROVE  TableInv' /\ Allocated' = Allocated \ {Chain(id[2])[i]}
<1> DEFINE p == Chain(id[2])[i]
           size == nTableSize
           x == id[2] % size
           c == arBuckets[x]
           Content == [arKey : StrKey \cup {NULL}, h : Index,
                       pData : Value \cup Foreign, bIsPointer : BOOLEAN]
<1>1. /\ arBuckets' = [arBuckets EXCEPT ![x] = Without(c, i)]
      /\ UnlinkFromList(p)
      /\ pInternalPointer' = CursorWithout(p)
      /\ bucket' = [b \in Allocated \ {p} |-> bucket[b]]
      /\ heap' = heap \ Blocks(p, id, bucket[p].bIsPointer)
  BY DEF Unlink, Chain
<1>2. /\ i \in 1 .. Len(c) /\ p = c[i] /\ p \in Allocated
      /\ bucket[p].h = id[2] /\ bucket[p].arKey \in {NULL, id[1]}
  BY VictimMatches DEF Chain
<1>3. /\ size \in Nat \ {0} /\ x \in 0 .. size - 1 /\ c \in Seq(Bucket)
      /\ arBuckets \in [0 .. size - 1 -> Seq(Bucket)]
      /\ nTableSize' = size
  BY TableSize DEF TableInv, TableType, Chain, nTableSize
<1>4. bucket \in [Allocated -> Content] /\ NULL \notin Allocated /\ Allocated \subseteq Bucket
  BY BucketAssumption DEF TableInv, TableType
<1> HIDE DEF p, x, c, Content
<1>5. /\ Allocated' = Allocated \ {p}
      /\ bucket' \in [Allocated' -> Content]
      /\ \A b \in Allocated' : bucket'[b] = bucket[b]
  BY <1>1, <1>4 DEF Allocated
<1>6. ListInv' /\ \/ pListNext[p] = NULL
                  \/ pListNext[p] \in Allocated \ {p}
  <2>1. PICK w \in Walks : BackLinks(w)
    BY DEF TableInv, ListInv
  <2>2. nNumOfElements \in Nat
    BY DEF TableInv, TableType
  <2>3. PICK k \in 1 .. nNumOfElements : w[k] = p
    BY <1>2 DEF Walks, IsWalk
  <2>4. PICK v : v = [j \in 1 .. nNumOfElements - 1 |-> IF j < k THEN w[j] ELSE w[j + 1]]
    OBVIOUS
  <2>5. v \in Walks' /\ BackLinks(v)'
    <3>1. UnlinkFromList(w[k]) /\ Allocated' = Allocated \ {w[k]}
      BY <1>1, <1>5, <2>3
    <3> QED
      BY <1>4, <2>1, <2>2, <2>4, <3>1, ShorterList
  <2>6. pListNext[p] = NULL \/ pListNext[p] \in Allocated \ {p}
    BY <2>2, <2>3 DEF Walks, IsWalk
  <2> QED
    BY <2>5, <2>6 DEF ListInv
<1>7. CursorOK'
  BY <1>1, <1>5, <1>6 DEF TableInv, CursorOK, CursorWithout
<1>8. KeyInv'
  <2>1. \A b \in Allocated' : Id(b)' = Id(b) /\ b \in Allocated
    BY <1>5 DEF Id
  <2>2. \A a, b \in Allocated' : Id(a)' = Id(b)' => a = b
    BY <2>1 DEF TableInv, KeyInv
  <2>3. \A b \in Allocated' : bucket'[b].arKey # NULL => Id(b)' = KeyId(bucket'[b].arKey)
    BY <1>5, <2>1 DEF TableInv, KeyInv
  <2> QED
    BY <2>2, <2>3 DEF KeyInv
<1>9. HeapInv'
  <2> DEFINE K == IF id[1] = NULL THEN {} ELSE {p}
             D == IF bucket[p].bIsPointer THEN {} ELSE {p}
  <2>1. WithKey' = WithKey \ K /\ WithData' = WithData \ D
    BY <1>2, <1>5 DEF WithKey, WithData
  <2>2. heap' = Owned(WithKey, WithData) \ Owned(K, D)
    BY <1>1 DEF TableInv, HeapInv, Blocks
  <2> HIDE DEF K, D
  <2>3. heap' = Owned(WithKey \ K, WithData \ D)
    BY <2>2, OwnedSets
  <2> QED
    BY <2>1, <2>3, Zenon DEF HeapInv
<1>10. /\ Without(c, i) \in Seq(Bucket)
       /\ \A b : (\E j \in DOMAIN Without(c, i) : Without(c, i)[j] = b)
                   <=> b # p /\ \E j \in DOMAIN c : c[j] = b
       /\ \A j, k \in DOMAIN Without(c, i) : Without(c, i)[j] = Without(c, i)[k] => j = k
  <2>1. \A j, k \in DOMAIN c : c[j] = c[k] => j = k
    BY <1>3 DEF TableInv, ChainInv, c
  <2> QED
    <3>1. Without(c, i) \in Seq(Bucket) /\ LosesOnly(c, Without(c, i), c[i])
      BY <1>2, <1>3, <2>1, ShorterChain
    <3>2. LosesOnly(c, Without(c, i), p)
      BY <1>2, <3>1
    <3> QED
      BY <3>1, <3>2 DEF LosesOnly
<1>11. arBuckets' \in [0 .. size - 1 -> Seq(Bucket)]
  BY <1>1, <1>3, <1>10
<1>12. ASSUME NEW s \in 0 .. size - 1
       PROVE  /\ \A b \in Allocated' : bucket'[b].h % size = s =>
                                   \E j \in DOMAIN arBuckets'[s] : arBuckets'[s][j] = b
              /\ \A j \in DOMAIN arBuckets'[s] :
                   arBuckets'[s][j] \in Allocated' /\ bucket'[arBuckets'[s][j]].h % size = s
              /\ \A j, k \in DOMAIN arBuckets'[s] : arBuckets'[s][j] = arBuckets'[s][k] => j = k
  <2>1. /\ \A b \in Allocated : bucket[b].h % size = s =>
                                   \E j \in DOMAIN arBuckets[s] : arBuckets[s][j] = b
        /\ \A j \in DOMAIN arBuckets[s] :
             arBuckets[s][j] \in Allocated /\ bucket[arBuckets[s][j]].h % size = s
        /\ \A j, k \in DOMAIN arBuckets[s] : arBuckets[s][j] = arBuckets[s][k] => j = k
    BY DEF TableInv, ChainInv
  <2>2. CASE s # x
    <3>1. arBuckets'[s] = arBuckets[s]
      BY <1>1, <1>3, <2>2
    <3>2. \A j \in DOMAIN arBuckets[s] : arBuckets[s][j] # p
      BY <1>2, <2>1, <2>2 DEF x
    <3> QED
      BY <1>5, <2>1, <3>1, <3>2
  <2>3. CASE s = x
    <3>1. arBuckets'[s] = Without(c, i) /\ arBuckets[s] = c
      BY <1>1, <1>3, <2>3 DEF c
    <3>2. ASSUME NEW b \in Allocated', bucket'[b].h % size = s
          PROVE  \E j \in DOMAIN Without(c, i) : Without(c, i)[j] = b
      <4>1. b # p /\ \E j \in DOMAIN c : c[j] = b
        BY <1>5, <2>1, <3>1, <3>2
      <4> QED
        BY <4>1, <1>10
    <3>3. ASSUME NEW j \in DOMAIN Without(c, i)
          PROVE  Without(c, i)[j] \in Allocated' /\ bucket'[Without(c, i)[j]].h % size = s
      <4>1. Without(c, i)[j] # p /\ \E k \in DOMAIN c : c[k] = Without(c, i)[j]
        BY <1>10
      <4> QED
        BY <4>1, <1>5, <2>1, <3>1
    <3> QED
      BY <1>10, <3>1, <3>2, <3>3
  <2> QED
    BY <2>2, <2>3
<1>13. ChainInv'
  BY <1>3, <1>12 DEF ChainInv
<1>14. TableType'
  <2>1. /\ pListNext' \in [Allocated' -> Bucket \cup {NULL}]
        /\ pListLast' \in [Allocated' -> Bucket \cup {NULL}]
        /\ {pListHead', pListTail', pInternalPointer'} \subseteq Bucket \cup {NULL}
    BY <1>1, <1>2, <1>5 DEF TableInv, TableType, UnlinkFromList, TailWithout, CursorWithout
  <2>2. nNumOfElements' \in Nat
    <3>1. PICK w \in Walks : TRUE
      BY DEF TableInv, ListInv
    <3>2. PICK k \in 1 .. nNumOfElements : w[k] = p
      BY <1>2, <3>1 DEF Walks, IsWalk
    <3> QED
      BY <1>1, <3>2 DEF TableInv, TableType, UnlinkFromList
  <2>3. \A b \in Allocated' : bucket'[b].bIsPointer <=> bucket'[b].pData \in Foreign
    BY <1>5 DEF TableInv, TableType
  <2>4. heap' \subseteq {"key", "data"} \X Bucket /\ Allocated' \subseteq Bucket
    BY <1>1, <1>4, <1>5 DEF TableInv, TableType
  <2> QED
    BY <1>3, <1>5, <1>11, <2>1, <2>2, <2>3, <2>4 DEF TableInv, TableType, Content
<1> QED
  BY <1>5, <1>6, <1>7, <1>8, <1>9, <1>13, <1>14 DEF TableInv, p

\* The bucket functions of an empty table.
LEMMA EmptyFunction == <<>> \in [{} -> {}] /\ DOMAIN <<>> = {}
OBVIOUS

\* An initialized table satisfies the invariant.
LEMMA EmptyTable ==
  ASSUME bucket = <<>>, pListNext = <<>>, pListLast = <<>>,
         pListHead = NULL, pListTail = NULL, pInternalPointer = NULL,
         nHashSizeIndex \in 1 .. Len(PrimeNumbers),
         arBuckets = [i \in 0 .. nTableSize - 1 |-> <<>>],
         nNumOfElements = 0, heap = {}
  PROVE  TableInv
<1>1. Allocated = {} /\ nTableSize \in Nat \ {0}
  BY EmptyFunction, PrimeAssumption, ElementOfSeq DEF Allocated, nTableSize
<1>2. TableType
  <2>1. arBuckets \in [0 .. nTableSize - 1 -> Seq(Bucket)]
    BY EmptySeq
  <2>2. \A S : <<>> \in [{} -> S]
    BY EmptyFunction
  <2> QED
    BY <1>1, <2>1, <2>2 DEF TableType
<1>3. ListInv
  <2>1. PICK w : w = [i \in 1 .. 0 |-> NULL]
    OBVIOUS
  <2>2. w \in Walks /\ BackLinks(w)
    BY <1>1, <2>1 DEF Walks, IsWalk, BackLinks
  <2> QED
    BY <2>2 DEF ListInv
<1>4. ChainInv
  BY <1>1, EmptyFunction DEF ChainInv
<1>5. KeyInv /\ HeapInv /\ CursorOK
  BY <1>1 DEF KeyInv, HeapInv, CursorOK, Owned, WithKey, WithData
<1> QED
  BY <1>2, <1>3, <1>4, <1>5 DEF TableInv

\* _php3_hash_init leaves a table that satisfies the invariant.
LEMMA EmptiedStep ==
  ASSUME NEW s \in 1 .. Len(PrimeNumbers), Emptied(s), heap' = {}
  PROVE  TableInv'
<1>1. nTableSize' = PrimeNumbers[s]
  BY DEF Emptied, nTableSize
<1>2. arBuckets' = [i \in 0 .. nTableSize' - 1 |-> <<>>]
  BY <1>1 DEF Emptied
<1>3. Allocated' = {} /\ nTableSize' \in Nat \ {0}
  BY <1>1, EmptyFunction, PrimeAssumption, ElementOfSeq DEF Allocated, Emptied
<1>4. TableType'
  <2>1. arBuckets' \in [0 .. nTableSize' - 1 -> Seq(Bucket)]
    BY <1>2, EmptySeq
  <2>2. \A S : <<>> \in [{} -> S]
    BY EmptyFunction
  <2> QED
    BY <1>3, <2>1, <2>2 DEF TableType, Emptied
<1>5. ListInv'
  <2>1. PICK w : w = [i \in 1 .. 0 |-> NULL]
    OBVIOUS
  <2>2. w \in Walks' /\ BackLinks(w)'
    BY <1>3, <2>1 DEF Walks, IsWalk, BackLinks, Emptied
  <2> QED
    BY <2>2 DEF ListInv
<1>6. ChainInv'
  BY <1>2, <1>3, EmptyFunction DEF ChainInv
<1>7. KeyInv' /\ HeapInv' /\ CursorOK'
  BY <1>3 DEF KeyInv, HeapInv, CursorOK, Owned, WithKey, WithData, Emptied
<1> QED
  BY <1>4, <1>5, <1>6, <1>7 DEF TableInv

\* What _php3_hash_destroy frees along the list is everything there is.
LEMMA FreesAll ==
  ASSUME TableInv, NEW w \in Walks
  PROVE  heap \ FreedAlong(w) = {}
<1>1. {w[i] : i \in {j \in DOMAIN w : bucket[w[j]].arKey # NULL}} = WithKey
  BY DEF WithKey, Walks, IsWalk
<1>2. {w[i] : i \in {j \in DOMAIN w : ~bucket[w[j]].bIsPointer}} = WithData
  BY DEF WithData, Walks, IsWalk
<1>3. FreedAlong(w) = heap
  BY <1>1, <1>2 DEF FreedAlong, TableInv, HeapInv
<1> QED
  BY <1>3

\* Sorting keeps the invariant, and so does the renumbering after it.
LEMMA SortStep ==
  ASSUME TableInv, NEW renumber \in BOOLEAN, Sort(renumber)
  PROVE  /\ TableInv'
         /\ nNextFreeElement' = nNextFreeElement \/ nNextFreeElement' \in Index
<1>1. CASE nNumOfElements <= 1 /\ UNCHANGED <<bucket, structure, nNextFreeElement, heap>>
  <2>1. UNCHANGED tableVars /\ UNCHANGED nNextFreeElement
    BY <1>1 DEF structure, tableVars
  <2> QED
    BY <2>1, UnchangedTable
<1>2. CASE /\ nNumOfElements > 1
           /\ \E t \in Enumerations(Allocated) :
                /\ Relink(t)
                /\ IF renumber THEN Renumber(t)
                               ELSE UNCHANGED <<bucket, heap, nNextFreeElement, arBuckets>>
           /\ UNCHANGED <<nHashSizeIndex, nNumOfElements>>
  <2> DEFINE n == nNumOfElements
  <2>1. n \in Nat /\ Cardinality(Allocated) = n /\ IsFiniteSet(Allocated) /\ n < M
    <3>1. n \in Nat /\ \E w \in Walks : TRUE
      BY DEF TableInv, TableType, ListInv
    <3>2. Cardinality(Allocated) = n /\ IsFiniteSet(Allocated)
      BY <3>1, WalkCounts
    <3>3. Cardinality(Allocated) <= Cardinality(Bucket) /\ Cardinality(Bucket) \in Nat
      BY BucketAssumption, FS_Subset, FS_CardinalityType DEF TableInv, TableType
    <3> QED
      BY <3>1, <3>2, <3>3, BucketAssumption, WidthAssumption
  <2>2. PICK t \in Enumerations(Allocated) :
             /\ Relink(t)
             /\ IF renumber THEN Renumber(t)
                            ELSE UNCHANGED <<bucket, heap, nNextFreeElement, arBuckets>>
    BY <1>2
  <2>3. /\ t \in [1 .. n -> Allocated] /\ DOMAIN t = 1 .. n
        /\ \A b \in Allocated : \E i \in 1 .. n : t[i] = b
        /\ \A i, j \in 1 .. n : t[i] = t[j] => i = j
    BY <2>1, <2>2 DEF Enumerations
  <2>4. Allocated \subseteq Bucket /\ NULL \notin Allocated /\ n > 1 /\ n' = n
    BY <1>2, BucketAssumption DEF TableInv, TableType
  <2>5. Allocated' = Allocated
    BY <2>2 DEF Renumber, Allocated
  <2>6. ListInv'
    BY <2>1, <2>2, <2>3, <2>4, <2>5, SortedList DEF ListInv
  <2>7. nTableSize' = nTableSize /\ nTableSize \in Nat \ {0}
    BY <1>2, TableSize DEF TableInv, nTableSize
  <2>8. /\ pListNext' \in [Allocated' -> Bucket \cup {NULL}]
        /\ pListLast' \in [Allocated' -> Bucket \cup {NULL}]
        /\ {pListHead', pListTail', pInternalPointer'} \subseteq Allocated
    <3>1. ASSUME NEW b \in Allocated
          PROVE  (CHOOSE i \in DOMAIN t : t[i] = b) \in 1 .. n
      BY <2>3
    <3> DEFINE at(b) == CHOOSE i \in DOMAIN t : t[i] = b
    <3>2. /\ pListNext' = [b \in Allocated |-> IF at(b) = n THEN NULL ELSE t[at(b) + 1]]
          /\ pListLast' = [b \in Allocated |-> IF at(b) = 1 THEN NULL ELSE t[at(b) - 1]]
      BY <2>2 DEF Relink
    <3>3. \A b \in Allocated : at(b) \in 1 .. n
      BY <3>1
    <3> HIDE DEF at
    <3>4. ASSUME NEW b \in Allocated
          PROVE  /\ (IF at(b) = n THEN NULL ELSE t[at(b) + 1]) \in Bucket \cup {NULL}
                 /\ (IF at(b) = 1 THEN NULL ELSE t[at(b) - 1]) \in Bucket \cup {NULL}
      BY <2>1, <2>3, <2>4, <3>3
    <3>5. pListHead' = t[1] /\ pListTail' = t[n] /\ pInternalPointer' = pListHead'
      BY <2>2 DEF Relink
    <3> QED
      BY <2>1, <2>3, <2>4, <2>5, <3>2, <3>4, <3>5
  <2>9. CursorOK'
    BY <2>5, <2>8 DEF CursorOK
  <2>10. CASE ~renumber
    <3>1. UNCHANGED <<bucket, heap, nNextFreeElement, arBuckets, nHashSizeIndex>>
      BY <1>2, <2>2, <2>10
    <3>2. ChainInv' /\ KeyInv'
      BY <2>5, <3>1, SameChains, SameKeys DEF TableInv
    <3>3. HeapInv'
      BY <2>5, <3>1 DEF TableInv, HeapInv, WithKey, WithData
    <3>4. TableType'
      BY <2>4, <2>5, <2>7, <2>8, <3>1 DEF TableInv, TableType
    <3> QED
      BY <2>6, <2>9, <3>1, <3>2, <3>3, <3>4 DEF TableInv
  <2>11. CASE renumber
    <3> DEFINE at(b) == CHOOSE i \in DOMAIN t : t[i] = b
               hv == [b \in Allocated |-> bucket'[b].h]
               Content == [arKey : StrKey \cup {NULL}, h : Index,
                           pData : Value \cup Foreign, bIsPointer : BOOLEAN]
    <3>1. /\ bucket' = [b \in Allocated |-> [bucket[b] EXCEPT !.arKey = NULL, !.h = at(b) - 1]]
          /\ heap' = heap \ Owned(Allocated, {})
          /\ nNextFreeElement' = n
          /\ arBuckets' \in Rehashed(t, hv, nTableSize)
      BY <2>2, <2>11 DEF Renumber
    <3>2. \A b \in Allocated : at(b) \in 1 .. n /\ t[at(b)] = b
      BY <2>3
    <3>3. \A a, b \in Allocated : at(a) = at(b) => a = b
      BY <3>2
    <3> HIDE DEF at
    <3>4. \A b \in Allocated : at(b) - 1 \in Index
      BY <2>1, <3>2, WidthAssumption DEF Index
    <3>5. bucket \in [Allocated -> Content]
      BY DEF TableInv, TableType
    <3>6. ASSUME NEW b \in Allocated
          PROVE  /\ bucket'[b] \in Content
                 /\ bucket'[b].arKey = NULL /\ bucket'[b].h = at(b) - 1
                 /\ bucket'[b].pData = bucket[b].pData
                 /\ bucket'[b].bIsPointer = bucket[b].bIsPointer
      BY <3>1, <3>4, <3>5
    <3>7. hv \in [Allocated -> Index] /\ \A b \in Allocated : hv[b] = bucket'[b].h
      BY <3>4, <3>6
    <3> HIDE DEF hv, Content
    <3>8. arBuckets' \in [0 .. nTableSize - 1 -> Seq(Allocated)]
            /\ IsChaining(arBuckets', Allocated, hv, nTableSize)
      BY <2>1, <2>7, <3>1, <3>7, RehashedChains
    <3>9. ChainInv'
      BY <2>5, <2>7, <3>7, <3>8 DEF ChainInv, IsChaining
    <3>10. KeyInv'
      <4>1. \A b \in Allocated : Id(b)' = <<NULL, at(b) - 1>>
        BY <3>6 DEF Id
      <4>2. ASSUME NEW a \in Allocated, NEW b \in Allocated, Id(a)' = Id(b)'
            PROVE  a = b
        <5>1. at(a) - 1 = at(b) - 1
          BY <4>1, <4>2
        <5> QED
          BY <2>1, <3>2, <3>3, <5>1
      <4> QED
        BY <2>5, <3>6, <4>2 DEF KeyInv
    <3>11. HeapInv'
      <4>1. WithKey' = WithKey \ Allocated /\ WithData' = WithData \ {}
        BY <2>5, <3>6 DEF WithKey, WithData
      <4>2. heap' = Owned(WithKey, WithData) \ Owned(Allocated, {})
        BY <3>1 DEF TableInv, HeapInv
      <4>3. heap' = Owned(WithKey \ Allocated, WithData \ {})
        BY <4>2, OwnedSets
      <4> QED
        BY <4>1, <4>3, Zenon DEF HeapInv
    <3>12. TableType'
      <4>1. bucket' \in [Allocated' -> Content]
        BY <2>5, <3>1, <3>6
      <4>2. arBuckets' \in [0 .. nTableSize' - 1 -> Seq(Bucket)]
        BY <2>4, <2>7, <3>8, SeqMonotonic
      <4>3. heap' \subseteq {"key", "data"} \X Bucket
        BY <3>1 DEF TableInv, TableType
      <4>4. \A b \in Allocated' : bucket'[b].bIsPointer <=> bucket'[b].pData \in Foreign
        BY <2>5, <3>6 DEF TableInv, TableType
      <4>5. nHashSizeIndex' \in 1 .. Len(PrimeNumbers) /\ nNumOfElements' \in Nat
        BY <1>2 DEF TableInv, TableType
      <4> QED
        BY <2>4, <2>5, <2>8, <4>1, <4>2, <4>3, <4>4, <4>5 DEF TableType, Content
    <3>13. nNextFreeElement' \in Index
      <4>1. \A j \in Nat : j < M => j \in Index
        BY WidthAssumption DEF Index
      <4> QED
        BY <2>1, <3>1, <4>1
    <3> QED
      BY <2>6, <2>9, <3>9, <3>10, <3>11, <3>12, <3>13 DEF TableInv
  <2> QED
    BY <2>10, <2>11
<1> QED
  BY <1>1, <1>2 DEF Sort

-----------------------------------------------------------------------------
(* Operations *)

\* The new next free index is an index again.
LEMMA BumpType ==
  ASSUME nNextFreeElement \in Index, NEW id, id[2] \in Index, BumpNextFree(id)
  PROVE  nNextFreeElement' \in Index
BY WidthAssumption DEF BumpNextFree, Index

\* The identity of a key or of an index is a pair of a key, or NULL, and a
\* hash that is an unsigned long (HANDLE_NUMERIC, pHashFunction).
LEMMA IdTypes ==
  /\ Ids \subseteq AllIds
  /\ \A i \in Index : IndexId(i) \in AllIds
  /\ \A k \in StrKey : KeyId(k) \in AllIds
  /\ \A id \in AllIds : id[2] \in Index
<1>1. UsableIndex \subseteq Index
  BY WidthAssumption
<1>2. \A i \in Index : IndexId(i)[2] \in Index
  BY DEF IndexId
<1>3. ASSUME NEW k \in StrKey
      PROVE  KeyId(k)[2] \in Index
  <2>1. NumericValue[k] \in Index \/ ~IsNumeric(k)
    BY WidthAssumption, NumericAssumption DEF IsNumeric
  <2>2. HashOf[k] \in Index
    BY HashAssumption
  <2> QED
    BY <2>1, <2>2 DEF KeyId, IndexId
<1> QED
  BY <1>1, <1>2, <1>3 DEF Ids, AllIds

\* What the callers keep in step with the table.
CallerKeeps == /\ nNextFreeElement' \in Index
               /\ foreign' \in [Foreign -> Value]
               /\ ret' \in {"SUCCESS", "FAILURE"} \cup Value

\* _php3_hash_add_or_update keeps the invariant, whether it fails, overwrites
\* or inserts.
LEMMA PutStep ==
  ASSUME IInv, NEW id \in AllIds, NEW v \in Value, NEW flag, Put(id, v, flag)
  PROVE  TableInv' /\ CallerKeeps /\ Allocated \subseteq Allocated'
<1> USE DEF CallerKeeps
<1>1. TableInv /\ CallerType /\ nNextFreeElement \in Index /\ foreign \in [Foreign -> Value]
  BY DEF IInv, CallerType
<1>2. CASE Returns("FAILURE") /\ UNCHANGED <<bucket, structure, nNextFreeElement, heap, foreign>>
  <2>1. UNCHANGED tableVars /\ Allocated' = Allocated
    BY <1>2 DEF structure, tableVars, Allocated
  <2> QED
    BY <1>1, <1>2, <2>1, UnchangedTable DEF Returns
<1>3. CASE /\ \E b \in Found(id) : Overwrite(b, v)
           /\ BumpNextFree(id) /\ Returns("SUCCESS") /\ UNCHANGED <<structure, heap>>
  <2>1. PICK b \in Found(id) : Overwrite(b, v)
    BY <1>3
  <2>2. TableInv' /\ Allocated' = Allocated /\ foreign' \in [Foreign -> Value]
    BY <1>1, <1>3, <2>1, FoundMatches, OverwriteStep
  <2>3. nNextFreeElement' \in Index
    BY <1>1, <1>3, BumpType, IdTypes
  <2> QED
    BY <1>3, <2>2, <2>3 DEF Returns
<1>4. CASE /\ Found(id) = {}
           /\ \E p \in Bucket \ Allocated : NewBucket(p, id, v, FALSE)
           /\ BumpNextFree(id) /\ Returns("SUCCESS") /\ UNCHANGED foreign
  <2>1. PICK p \in Bucket \ Allocated : NewBucket(p, id, v, FALSE)
    BY <1>4
  <2>2. TableInv' /\ Allocated' = Allocated \cup {p}
    BY <1>1, <1>4, <2>1, NewBucketStep
  <2>3. nNextFreeElement' \in Index
    BY <1>1, <1>4, BumpType, IdTypes
  <2> QED
    BY <1>1, <1>4, <2>2, <2>3 DEF Returns
<1> QED
  BY <1>2, <1>3, <1>4 DEF Put

\* _php3_hash_pointer_update keeps the invariant, whether it fails, turns a
\* bucket into a reference or inserts one.
LEMMA PutPointerStep ==
  ASSUME IInv, NEW id \in AllIds, NEW f \in Foreign, NEW flag, PutPointer(id, f, flag)
  PROVE  TableInv' /\ CallerKeeps /\ Allocated \subseteq Allocated'
<1> USE DEF CallerKeeps
<1>1. TableInv /\ CallerType /\ nNextFreeElement \in Index /\ foreign \in [Foreign -> Value]
  BY DEF IInv, CallerType
<1>2. CASE Returns("FAILURE") /\ UNCHANGED <<bucket, structure, nNextFreeElement, heap, foreign>>
  <2>1. UNCHANGED tableVars /\ Allocated' = Allocated
    BY <1>2 DEF structure, tableVars, Allocated
  <2> QED
    BY <1>1, <1>2, <2>1, UnchangedTable DEF Returns
<1>3. CASE /\ \E b \in Found(id) : MakePointer(b, f)
           /\ BumpNextFree(id) /\ Returns("SUCCESS") /\ UNCHANGED structure
  <2>1. PICK b \in Found(id) : MakePointer(b, f)
    BY <1>3
  <2>2. TableInv' /\ Allocated' = Allocated /\ foreign' = foreign
    BY <1>1, <1>3, <2>1, FoundMatches, MakePointerStep DEF MakePointer
  <2>3. nNextFreeElement' \in Index
    BY <1>1, <1>3, BumpType, IdTypes
  <2> QED
    BY <1>1, <1>3, <2>2, <2>3 DEF Returns
<1>4. CASE /\ Found(id) = {}
           /\ \E p \in Bucket \ Allocated : NewBucket(p, id, f, TRUE)
           /\ BumpNextFree(id) /\ Returns("SUCCESS") /\ UNCHANGED foreign
  <2>1. PICK p \in Bucket \ Allocated : NewBucket(p, id, f, TRUE)
    BY <1>4
  <2>2. TableInv' /\ Allocated' = Allocated \cup {p}
    BY <1>1, <1>4, <2>1, NewBucketStep
  <2>3. nNextFreeElement' \in Index
    BY <1>1, <1>4, BumpType, IdTypes
  <2> QED
    BY <1>1, <1>4, <2>2, <2>3 DEF Returns
<1> QED
  BY <1>2, <1>3, <1>4 DEF PutPointer

\* _php3_hash_del_key_or_index keeps the invariant, whether it deletes or fails.
LEMMA RemoveStep ==
  ASSUME IInv, NEW id, id[2] \in Index, Remove(id)
  PROVE  TableInv' /\ CallerKeeps
<1> USE DEF CallerKeeps
<1>1. TableInv /\ CallerType /\ nNextFreeElement \in Index /\ foreign \in [Foreign -> Value]
  BY DEF IInv, CallerType
<1>2. CASE Returns("FAILURE") /\ UNCHANGED <<bucket, structure, nNextFreeElement, heap, foreign>>
  <2>1. UNCHANGED tableVars
    BY <1>2 DEF structure, tableVars
  <2> QED
    BY <1>1, <1>2, <2>1, UnchangedTable DEF Returns
<1>3. CASE /\ \E i \in Victims(id) : Unlink(id, i)
           /\ Returns("SUCCESS") /\ UNCHANGED <<nHashSizeIndex, nNextFreeElement, foreign>>
  <2>1. PICK i \in Victims(id) : Unlink(id, i)
    BY <1>3
  <2>2. TableInv'
    BY <1>1, <1>3, <2>1, UnlinkStep
  <2> QED
    BY <1>1, <1>3, <2>2 DEF Returns
<1> QED
  BY <1>2, <1>3 DEF Remove

-----------------------------------------------------------------------------
(* The invariant is inductive as long as a walk does not read a freed bucket. *)

\* An unchanged table, and the part of the state the callers see.
LEMMA SameTable ==
  ASSUME IInv, UNCHANGED <<bucket, structure, nNextFreeElement, heap, foreign>>
  PROVE  /\ TableInv' /\ Allocated' = Allocated
         /\ nNextFreeElement' \in Index /\ foreign' \in [Foreign -> Value]
<1>1. UNCHANGED tableVars
  BY DEF structure, tableVars
<1> QED
  BY <1>1, UnchangedTable DEF IInv, CallerType, tableVars, Allocated

\* The next bucket of a walk is a bucket.
LEMMA NextIsBucket ==
  ASSUME TableInv, NEW b \in Allocated
  PROVE  /\ pListNext[b] \in (Allocated \ {b}) \cup {NULL}
         /\ pListLast[b] \in (Allocated \ {b}) \cup {NULL}
<1>1. PICK w \in Walks : BackLinks(w)
  BY DEF TableInv, ListInv
<1>2. nNumOfElements \in Nat
  BY DEF TableInv, TableType
<1>3. PICK i \in 1 .. nNumOfElements : w[i] = b
  BY <1>1 DEF Walks, IsWalk
<1> QED
  BY <1>1, <1>2, <1>3, SMTT(30) DEF Walks, IsWalk, BackLinks

\* The head and the tail of the list are buckets, or NULL (so are the places
\* _php3_hash_internal_pointer_reset and _end move the cursor to).
LEMMA Ends ==
  ASSUME TableInv
  PROVE  pListHead \in Allocated \cup {NULL} /\ pListTail \in Allocated \cup {NULL}
<1>1. PICK w \in Walks : BackLinks(w)
  BY DEF TableInv, ListInv
<1>2. nNumOfElements \in Nat
  BY DEF TableInv, TableType
<1> QED
  BY <1>1, <1>2 DEF Walks, IsWalk, BackLinks

\* A table _php3_hash_init has returned satisfies the inductive invariant.
LEMMA InitInv ==
  ASSUME Init
  PROVE  IInv /\ NoDangling
<1>1. TableInv
  BY EmptyTable DEF Init, SizeIndexes
<1>2. CallerType
  BY EmptySeq, WidthAssumption DEF Init, CallerType, Index
<1>3. NoDangling
  BY DEF Init, NoDangling, CursorOK, WalkOK
<1> QED
  BY <1>1, <1>2, <1>3 DEF IInv

\* What an entry of a copy is.
LEMMA EntryType ==
  ASSUME IInv, NEW b \in Allocated
  PROVE  Id(b) \in AllIds /\ Data(b) \in Value
<1>1. bucket[b] \in [arKey : StrKey \cup {NULL}, h : Index,
                     pData : Value \cup Foreign, bIsPointer : BOOLEAN]
  BY DEF IInv, TableInv, TableType
<1>2. Id(b) \in AllIds
  <2>1. CASE bucket[b].arKey = NULL
    BY <1>1, <2>1 DEF Id, AllIds, IndexId
  <2>2. CASE bucket[b].arKey # NULL
    BY <1>1, <2>2 DEF IInv, TableInv, KeyInv, AllIds
  <2> QED
    BY <2>1, <2>2
<1>3. Data(b) \in Value
  BY <1>1 DEF IInv, TableInv, TableType, CallerType, Data
<1> QED
  BY <1>2, <1>3

\* Every operation of php3_hash.c, and every iteration of its loops, keeps the
\* inductive invariant, unless a walk reads a freed bucket.
LEMMA NextInv ==
  ASSUME IInv, WalkOK, [Next]_vars
  PROVE  IInv'
<1> USE DEF IInv
<1>1. CallerKeeps /\ UNCHANGED loopVars => CallerType'
  BY DEF CallerKeeps, CallerType, loopVars
<1>2. ASSUME UNCHANGED <<bucket, structure, nNextFreeElement, heap, foreign>>
      PROVE  TableInv' /\ nNextFreeElement' \in Index /\ foreign' \in [Foreign -> Value]
  BY <1>2, SameTable
<1>3. applyNext \in Bucket \cup {NULL} /\ ret \in {"SUCCESS", "FAILURE"} \cup Value
  BY DEF CallerType
<1>4. ASSUME NEW k \in StrKey, NEW v \in Value, NEW f, AddOrUpdate(k, v, f)
      PROVE  IInv'
  BY <1>1, <1>4, IdTypes, PutStep DEF AddOrUpdate
<1>5. ASSUME NEW i \in UsableIndex, NEW v \in Value, NEW f, IndexUpdate(i, v, f)
      PROVE  IInv'
  BY <1>1, <1>5, IdTypes, PutStep, WidthAssumption DEF IndexUpdate
<1>6. ASSUME NEW v \in Value, NextInsert(v)
      PROVE  IInv'
  BY <1>1, <1>6, IdTypes, PutStep, WidthAssumption DEF NextInsert
<1>7. ASSUME NEW k \in StrKey, NEW f \in Foreign, PointerUpdate(k, f)
      PROVE  IInv'
  BY <1>1, <1>7, IdTypes, PutPointerStep DEF PointerUpdate
<1>8. ASSUME NEW i \in UsableIndex, NEW f \in Foreign, PointerIndexUpdate(i, f)
      PROVE  IInv'
  BY <1>1, <1>8, IdTypes, PutPointerStep, WidthAssumption DEF PointerIndexUpdate
<1>9. ASSUME NEW f \in Foreign, PointerNextInsert(f)
      PROVE  IInv'
  BY <1>1, <1>9, IdTypes, PutPointerStep, WidthAssumption DEF PointerNextInsert
<1>10. ASSUME RefuseEmptyKey
       PROVE  IInv'
  BY <1>1, <1>2, <1>10 DEF RefuseEmptyKey, Returns, CallerKeeps
<1>11. ASSUME NEW k \in StrKey, Delete(k)
       PROVE  IInv'
  BY <1>1, <1>11, IdTypes, RemoveStep DEF Delete
<1>12. ASSUME NEW i \in UsableIndex, IndexDelete(i)
       PROVE  IInv'
  BY <1>1, <1>12, IdTypes, RemoveStep, WidthAssumption DEF IndexDelete
<1>13. ASSUME NEW id \in Ids, Find(id)
       PROVE  IInv'
  <2>1. ret' \in {"SUCCESS", "FAILURE"} \cup Value
    <3>1. CASE Found(id) = {}
      BY <1>13, <3>1 DEF Find, Returns
    <3>2. CASE Found(id) # {}
      <4> DEFINE b == CHOOSE b \in Found(id) : TRUE
      <4>1. b \in Found(id) /\ ret' = Data(b)
        BY <1>13, <3>2 DEF Find, Returns
      <4> HIDE DEF b
      <4> QED
        BY <4>1, FoundMatches, EntryType
    <3> QED
      BY <3>1, <3>2
  <2> QED
    BY <1>1, <1>2, <1>13, <2>1 DEF Find, CallerKeeps
<1>14. ASSUME CurrentData
       PROVE  IInv'
  <2>1. ret' \in {"SUCCESS", "FAILURE"} \cup Value
    BY <1>14, EntryType DEF CurrentData, Returns, TableInv, CursorOK
  <2> QED
    BY <1>1, <1>2, <1>14, <2>1 DEF CurrentData, CallerKeeps
<1>15. ASSUME PointerReset \/ PointerEnd \/ MoveForward \/ MoveBackwards
       PROVE  IInv'
  <2>1. PICK q \in Allocated \cup {NULL} : MovePointer(q)
    <3>1. pListHead \in Allocated \cup {NULL} /\ pListTail \in Allocated \cup {NULL}
      BY Ends
    <3>2. ASSUME pInternalPointer # NULL
          PROVE  /\ pListNext[pInternalPointer] \in Allocated \cup {NULL}
                 /\ pListLast[pInternalPointer] \in Allocated \cup {NULL}
      BY <3>2, NextIsBucket DEF TableInv, CursorOK
    <3> QED
      BY <1>15, <3>1, <3>2 DEF PointerReset, PointerEnd, MoveForward, MoveBackwards
  <2>2. TableInv'
    BY <2>1, MovedCursor
  <2>3. CallerType'
    BY <2>1 DEF MovePointer, CallerType, loopVars
  <2> QED
    BY <2>2, <2>3
<1>16. ASSUME NEW renumber \in BOOLEAN, Sort(renumber)
       PROVE  IInv'
  <2>1. TableInv' /\ nNextFreeElement' \in Index
    BY <1>16, SortStep DEF CallerType
  <2>2. ret' = "SUCCESS" /\ UNCHANGED <<foreign, loopVars>>
    BY <1>16 DEF Sort, Returns
  <2> QED
    BY <1>1, <2>1, <2>2 DEF CallerType, CallerKeeps
<1>17. ASSUME ApplyStart \/ ApplyEnd
       PROVE  IInv'
  <2>1. UNCHANGED <<bucket, structure, nNextFreeElement, heap, foreign, ret, pending>>
    BY <1>17 DEF ApplyStart, ApplyEnd
  <2>2. busy' \in {"none", "apply"} /\ applyNext' \in Bucket \cup {NULL}
    BY <1>17, <1>3 DEF ApplyStart, ApplyEnd, TableInv, TableType
  <2> QED
    BY <1>2, <2>1, <2>2 DEF CallerType
<1>18. ASSUME ApplyKeep
       PROVE  IInv'
  <2>1. applyNext \in Allocated /\ applyNext' = pListNext[applyNext]
    BY <1>18 DEF ApplyKeep, WalkOK
  <2>2. applyNext' \in Bucket \cup {NULL}
    BY <2>1 DEF TableInv, TableType
  <2> QED
    BY <1>2, <1>18, <2>2 DEF ApplyKeep, CallerType
<1>19. ASSUME ApplyDelete
       PROVE  IInv'
  <2>1. applyNext \in Allocated /\ applyNext' = pListNext[applyNext] /\ Remove(Id(applyNext))
    BY <1>19 DEF ApplyDelete, WalkOK
  <2>2. applyNext' \in Bucket \cup {NULL}
    BY <2>1 DEF TableInv, TableType
  <2>3. Id(applyNext)[2] \in Index
    BY <2>1, EntryType, IdTypes
  <2>4. TableInv' /\ CallerKeeps
    BY <2>1, <2>3, RemoveStep
  <2> QED
    BY <1>19, <2>2, <2>4 DEF ApplyDelete, CallerType, CallerKeeps
<1>20. ASSUME NEW nSize, Destroy(nSize)
       PROVE  IInv'
  <2>1. PICK w \in Walks : heap' = heap \ FreedAlong(w)
    BY <1>20 DEF Destroy
  <2>2. PICK s \in SizeIndexes(nSize) : Emptied(s)
    BY <1>20 DEF Destroy
  <2>3. heap' = {} /\ s \in 1 .. Len(PrimeNumbers)
    BY <2>1, FreesAll DEF SizeIndexes
  <2>4. TableInv'
    BY <2>2, <2>3, EmptiedStep
  <2>5. nNextFreeElement' \in Index
    BY <2>2, WidthAssumption DEF Emptied, Index
  <2> QED
    BY <1>1, <1>20, <2>4, <2>5 DEF Destroy, Returns, CallerType, CallerKeeps
<1>21. ASSUME CopyStart
       PROVE  IInv'
  <2>1. PICK w \in Walks :
          pending' = [i \in 1 .. nNumOfElements |-> [id |-> Id(w[i]), val |-> Data(w[i])]]
    BY <1>21 DEF CopyStart
  <2>2. PICK s \in SizeIndexes(nTableSize) : Emptied(s)
    BY <1>21 DEF CopyStart
  <2>3. heap' = {} /\ s \in 1 .. Len(PrimeNumbers)
    BY <1>21 DEF CopyStart, SizeIndexes
  <2>4. TableInv'
    BY <2>2, <2>3, EmptiedStep
  <2>5. nNextFreeElement' \in Index
    BY <2>2, WidthAssumption DEF Emptied, Index
  <2>6. pending' \in Seq([id : AllIds, val : Value])
    <3>1. \A i \in 1 .. nNumOfElements : w[i] \in Allocated
      BY <2>1 DEF Walks
    <3>2. \A i \in 1 .. nNumOfElements :
            [id |-> Id(w[i]), val |-> Data(w[i])] \in [id : AllIds, val : Value]
      BY <3>1, EntryType
    <3>3. pending' \in [1 .. nNumOfElements -> [id : AllIds, val : Value]]
      BY <2>1, <3>2
    <3>4. nNumOfElements \in Nat
      BY DEF TableInv, TableType
    <3> DEFINE E == [id : AllIds, val : Value]
    <3> HIDE DEF E
    <3>5. \A n \in Nat : [1 .. n -> E] \subseteq Seq(E)
      BY SeqDef
    <3> QED
      BY <3>3, <3>4, <3>5 DEF E
  <2> QED
    BY <1>21, <2>4, <2>5, <2>6 DEF CopyStart, CallerType
<1>22. ASSUME NEW src \in MergeSources, MergeStart(src)
       PROVE  IInv'
  <2>1. src \in Seq([id : AllIds, val : Value])
    <3>1. src \in Seq(Entry) /\ Entry \subseteq [id : AllIds, val : Value]
      BY SourceAssumption, IdTypes DEF Entry
    <3> QED
      BY <3>1, SeqMonotonic
  <2> QED
    BY <1>2, <1>22, <2>1 DEF MergeStart, CallerType
<1>23. ASSUME LoadStep
       PROVE  IInv'
  <2>1. /\ pending \in Seq([id : AllIds, val : Value]) /\ pending # <<>>
        /\ Put(Head(pending).id, Head(pending).val, IF busy = "copy" THEN "UPDATE" ELSE "ADD")
        /\ pending' = Tail(pending) /\ UNCHANGED <<busy, applyNext>>
    BY <1>23 DEF LoadStep, CallerType
  <2>2. Head(pending) \in [id : AllIds, val : Value] /\ Tail(pending) \in Seq([id : AllIds, val : Value])
    BY <2>1, HeadTailProperties
  <2>3. TableInv' /\ CallerKeeps
    BY <2>1, <2>2, PutStep
  <2> QED
    BY <2>1, <2>2, <2>3 DEF CallerType, CallerKeeps
<1>24. ASSUME LoadEnd
       PROVE  IInv'
  <2>1. pListHead \in Allocated \cup {NULL}
    BY Ends
  <2>2. TableInv'
    <3>1. Allocated' = Allocated /\ nTableSize' = nTableSize
      BY <1>24 DEF LoadEnd, Allocated, nTableSize
    <3>2. ListInv' /\ ChainInv' /\ KeyInv'
      BY <1>24, <3>1, SameList, SameChains, SameKeys DEF TableInv, LoadEnd
    <3>3. HeapInv'
      BY <1>24, <3>1 DEF TableInv, LoadEnd, HeapInv, WithKey, WithData
    <3>4. TableType' /\ CursorOK'
      BY <1>24, <2>1, <3>1 DEF TableInv, LoadEnd, listVars, TableType, CursorOK
    <3> QED
      BY <3>2, <3>3, <3>4 DEF TableInv
  <2> QED
    BY <1>24, <2>2 DEF LoadEnd, CallerType
<1>25. CASE UNCHANGED vars
  BY <1>2, <1>25 DEF vars, structure, listVars, loopVars, CallerType
<1> QED
  BY <1>4, <1>5, <1>6, <1>7, <1>8, <1>9, <1>10, <1>11, <1>12, <1>13, <1>14, <1>15, <1>16,
     <1>17, <1>18, <1>19, <1>20, <1>21, <1>22, <1>23, <1>24, <1>25 DEF Next

-----------------------------------------------------------------------------
(* Theorems.  The first ones hold for every hash function, of every behaviour *)
(* in which _php3_hash_apply has not read a freed bucket.                     *)

\* In every reachable state the table is well-formed.
THEOREM Invariance == Spec /\ []WalkOK => []IInv
<1>1. Init => IInv
  BY InitInv
<1>2. IInv /\ WalkOK /\ [Next]_vars => IInv'
  BY NextInv
<1> QED
  BY <1>1, <1>2, PTL DEF Spec

\* Every field keeps its type; in particular the cursor is never moved along a
\* pointer of a bucket that is not there (_php3_hash_move_forward).
THEOREM TypeCorrect == Spec /\ []WalkOK => []TypeOK
<1>1. IInv => TypeOK
  BY DEF IInv, TableInv, TypeOK
<1> QED
  BY <1>1, Invariance, PTL

\* The doubly linked list is never broken (_php3_hash_del_key_or_index,
\* _php3_hash_sort, and every insertion).
THEOREM ListCorrect == Spec /\ []WalkOK => []ListInv
<1>1. IInv => ListInv
  BY DEF IInv, TableInv
<1> QED
  BY <1>1, Invariance, PTL

\* Every bucket is in the chain of its hash (_php3_hash_rehash, if_full_do_resize).
THEOREM ChainCorrect == Spec /\ []WalkOK => []ChainInv
<1>1. IInv => ChainInv
  BY DEF IInv, TableInv
<1> QED
  BY <1>1, Invariance, PTL

\* Every element of the list is found by its key (_php3_hash_find,
\* _php3_hash_index_find), and by no other.
THEOREM LookupCorrect == Spec /\ []WalkOK => []LookupInv
<1>1. ASSUME IInv, NEW b \in Allocated
      PROVE  ~IsNumeric(bucket[b].arKey)
  <2>1. CASE bucket[b].arKey = NULL
    BY <2>1, KeyAssumption, NumericAssumption DEF IsNumeric
  <2>2. CASE bucket[b].arKey # NULL
    <3>1. <<bucket[b].arKey, bucket[b].h>> = KeyId(bucket[b].arKey)
      BY <1>1, <2>2 DEF IInv, TableInv, KeyInv, Id
    <3> QED
      BY <2>2, <3>1 DEF KeyId, IndexId
  <2> QED
    BY <2>1, <2>2
<1>2. IInv => LookupInv
  BY <1>1, FoundIsIt DEF IInv, TableInv, LookupInv
<1> QED
  BY <1>2, Invariance, PTL

\* No key and no data is leaked or freed early (pefree in php3_hash.c).
THEOREM HeapCorrect == Spec /\ []WalkOK => []HeapInv
<1>1. IInv => HeapInv
  BY DEF IInv, TableInv
<1> QED
  BY <1>1, Invariance, PTL

-----------------------------------------------------------------------------
(* Indexes: where they come from, and the next free one.                     *)

\* Indexes are the callers' or were given by a renumbering sort.
IndexRange ==
  /\ \A b \in Allocated : bucket[b].arKey = NULL => bucket[b].h \in Places
  /\ \A i \in 1 .. Len(pending) : pending[i].id[1] = NULL => pending[i].id[2] \in Places

\* The buckets after a step: they have a key they had, or the one of the step.
OldOr(S) == \A b \in Allocated' : \/ b \in Allocated /\ Id(b)' = Id(b)
                                  \/ Id(b)' \in S

\* _php3_hash_add_or_update adds no key but the one it is given.
LEMMA PutKeys ==
  ASSUME IInv, NEW id \in AllIds, NEW v \in Value, NEW flag, Put(id, v, flag)
  PROVE  OldOr({id})
<1>1. CASE UNCHANGED bucket
  BY <1>1 DEF OldOr, Allocated, Id
<1>2. CASE \E b \in Found(id) : Overwrite(b, v)
  <2>1. PICK b \in Allocated : Overwrite(b, v)
    BY <1>2, FoundMatches
  <2>2. bucket' = bucket \/ bucket' = [bucket EXCEPT ![b].pData = v]
    BY <2>1 DEF Overwrite
  <2>3. DOMAIN bucket' = DOMAIN bucket
    BY <2>2
  <2>4. \A a \in Allocated : bucket'[a].arKey = bucket[a].arKey /\ bucket'[a].h = bucket[a].h
    BY <2>1, <2>2 DEF IInv, TableInv, TableType
  <2> QED
    BY <2>3, <2>4 DEF OldOr, Allocated, Id
<1>3. CASE \E p \in Bucket \ Allocated : NewBucket(p, id, v, FALSE)
  <2>1. PICK p \in Bucket \ Allocated : NewBucket(p, id, v, FALSE)
    BY <1>3
  <2>2. bucket' = [b \in Allocated \cup {p} |->
            IF b = p THEN [arKey |-> id[1], h |-> id[2], pData |-> v, bIsPointer |-> FALSE]
                     ELSE bucket[b]]
    BY <2>1 DEF NewBucket
  <2>3. id = <<id[1], id[2]>>
    BY DEF AllIds, IndexId, KeyId
  <2>4. Allocated' = Allocated \cup {p} /\ Id(p)' = id /\ \A b \in Allocated : Id(b)' = Id(b)
    BY <2>2, <2>3 DEF Allocated, Id
  <2> QED
    BY <2>4 DEF OldOr
<1> QED
  BY <1>1, <1>2, <1>3 DEF Put

\* _php3_hash_pointer_update adds no key but the one it is given.
LEMMA PutPointerKeys ==
  ASSUME IInv, NEW id \in AllIds, NEW f \in Foreign, NEW flag, PutPointer(id, f, flag)
  PROVE  OldOr({id})
<1>1. CASE UNCHANGED bucket
  BY <1>1 DEF OldOr, Allocated, Id
<1>2. CASE \E b \in Found(id) : MakePointer(b, f)
  <2>1. PICK b \in Allocated : MakePointer(b, f)
    BY <1>2, FoundMatches
  <2>2. bucket' = [bucket EXCEPT ![b].pData = f, ![b].bIsPointer = TRUE]
    BY <2>1 DEF MakePointer
  <2>3. \A a \in Allocated : bucket'[a].arKey = bucket[a].arKey /\ bucket'[a].h = bucket[a].h
    BY <2>1, <2>2 DEF IInv, TableInv, TableType
  <2> QED
    BY <2>2, <2>3 DEF OldOr, Allocated, Id
<1>3. CASE \E p \in Bucket \ Allocated : NewBucket(p, id, f, TRUE)
  <2>1. PICK p \in Bucket \ Allocated : NewBucket(p, id, f, TRUE)
    BY <1>3
  <2>2. bucket' = [b \in Allocated \cup {p} |->
            IF b = p THEN [arKey |-> id[1], h |-> id[2], pData |-> f, bIsPointer |-> TRUE]
                     ELSE bucket[b]]
    BY <2>1 DEF NewBucket
  <2>3. id = <<id[1], id[2]>>
    BY DEF AllIds, IndexId, KeyId
  <2>4. Allocated' = Allocated \cup {p} /\ Id(p)' = id /\ \A b \in Allocated : Id(b)' = Id(b)
    BY <2>2, <2>3 DEF Allocated, Id
  <2> QED
    BY <2>4 DEF OldOr
<1> QED
  BY <1>1, <1>2, <1>3 DEF PutPointer

\* A deletion adds no key.
LEMMA RemoveKeys ==
  ASSUME NEW id, Remove(id)
  PROVE  OldOr({}) /\ Allocated' \subseteq Allocated
<1>1. CASE UNCHANGED bucket
  BY <1>1 DEF OldOr, Allocated, Id
<1>2. CASE \E i \in Victims(id) : Unlink(id, i)
  <2>1. PICK p : bucket' = [b \in Allocated \ {p} |-> bucket[b]]
    BY <1>2 DEF Unlink
  <2> QED
    BY <2>1 DEF OldOr, Allocated, Id
<1> QED
  BY <1>1, <1>2 DEF Remove

\* A sort leaves the keys alone or numbers the elements from 0, and the next
\* free index is above them.
LEMMA SortKeys ==
  ASSUME IInv, NEW renumber \in BOOLEAN, Sort(renumber)
  PROVE  /\ OldOr({IndexId(i) : i \in 0 .. Cardinality(Bucket) - 1})
         /\ Allocated' = Allocated
         /\ \/ UNCHANGED <<bucket, nNextFreeElement>>
            \/ \A b \in Allocated : /\ bucket'[b].arKey = NULL
                                    /\ bucket'[b].h \in 0 .. nNextFreeElement' - 1
<1>1. CASE UNCHANGED <<bucket, nNextFreeElement>>
  BY <1>1 DEF OldOr, Allocated, Id
<1>2. CASE ~UNCHANGED <<bucket, nNextFreeElement>>
  <2> DEFINE n == nNumOfElements
  <2>1. n \in Nat /\ Cardinality(Allocated) = n /\ n <= Cardinality(Bucket) /\ Cardinality(Bucket) \in Nat
    <3>1. n \in Nat /\ \E w \in Walks : TRUE
      BY DEF IInv, TableInv, TableType, ListInv
    <3>2. Cardinality(Allocated) = n
      BY <3>1, WalkCounts
    <3>3. Cardinality(Allocated) <= Cardinality(Bucket) /\ Cardinality(Bucket) \in Nat
      BY BucketAssumption, FS_Subset, FS_CardinalityType DEF IInv, TableInv, TableType
    <3> QED
      BY <3>1, <3>2, <3>3
  <2>2. PICK t \in Enumerations(Allocated) : Renumber(t)
    BY <1>2 DEF Sort
  <2>3. /\ t \in [1 .. n -> Allocated] /\ DOMAIN t = 1 .. n
        /\ \A b \in Allocated : \E i \in 1 .. n : t[i] = b
    BY <2>1, <2>2 DEF Enumerations
  <2> DEFINE at(b) == CHOOSE i \in DOMAIN t : t[i] = b
  <2>4. /\ bucket' = [b \in Allocated |-> [bucket[b] EXCEPT !.arKey = NULL, !.h = at(b) - 1]]
        /\ nNextFreeElement' = n
    BY <2>2 DEF Renumber
  <2>5. \A b \in Allocated : at(b) \in 1 .. n
    BY <2>3
  <2> HIDE DEF at
  <2>6. Allocated' = Allocated
    BY <2>4 DEF Allocated
  <2>7. ASSUME NEW b \in Allocated
        PROVE  bucket'[b].arKey = NULL /\ bucket'[b].h = at(b) - 1
    BY <2>4 DEF IInv, TableInv, TableType
  <2>8. ASSUME NEW b \in Allocated
        PROVE  bucket'[b].h \in 0 .. nNextFreeElement' - 1 /\ bucket'[b].h \in 0 .. Cardinality(Bucket) - 1
    <3>1. /\ at(b) - 1 \in 0 .. nNumOfElements - 1
          /\ at(b) - 1 \in 0 .. Cardinality(Bucket) - 1
      BY <2>1, <2>5
    <3> QED
      BY <2>4, <2>7, <3>1
  <2>9. \A b \in Allocated : Id(b)' = IndexId(bucket'[b].h)
    BY <2>7 DEF Id, IndexId
  <2> QED
    BY <2>6, <2>7, <2>8, <2>9 DEF OldOr
<1> QED
  BY <1>1, <1>2

\* The index of a key is a place, if it is one.
LEMMA IdRange ==
  /\ \A id \in Ids : id[1] = NULL => id[2] \in Places
  /\ \A i \in UsableIndex : IndexId(i)[2] \in Places
  /\ \A k \in StrKey : KeyId(k)[1] = NULL => KeyId(k)[2] \in Places
<1>1. \A i : IndexId(i)[2] = i
  BY DEF IndexId
<1>2. ASSUME NEW k \in StrKey, KeyId(k)[1] = NULL
      PROVE  KeyId(k)[2] \in Places
  <2>1. CASE IsNumeric(k)
    <3>1. KeyId(k) = IndexId(NumericValue[k])
      BY <2>1 DEF KeyId
    <3>2. NumericValue[k] \in UsableIndex
      BY <2>1, NumericAssumption DEF IsNumeric
    <3> QED
      BY <1>1, <3>1, <3>2 DEF Places
  <2>2. CASE ~IsNumeric(k)
    BY <1>2, <2>2, KeyAssumption DEF KeyId
  <2> QED
    BY <2>1, <2>2
<1> QED
  BY <1>1, <1>2 DEF Ids, Places

\* Steps that put, and the key they use.
PutsAt(id) ==
  \/ \E v \in Value, f \in Flags \cup {"NEXT_INSERT"} : Put(id, v, f)
  \/ \E g \in Foreign, f \in {"UPDATE", "NEXT_INSERT"} : PutPointer(id, g, f)

\* What a step does to the keys, by cases.
LEMMA KeySteps ==
  ASSUME IInv, WalkOK, IndexRange, Next
  PROVE  \/ /\ \E id \in AllIds : PutsAt(id) /\ (id[1] = NULL => id[2] \in Places)
            /\ pending' = pending \/ (pending # <<>> /\ pending' = Tail(pending))
         \/ /\ \E id : Remove(id)
            /\ UNCHANGED pending
         \/ /\ \E renumber \in BOOLEAN : Sort(renumber)
            /\ UNCHANGED pending
         \/ /\ bucket' = <<>> /\ nNextFreeElement' = 0
            /\ pending' = pending \/ CopyStart
         \/ /\ UNCHANGED <<bucket, nNextFreeElement>>
            /\ pending' = pending \/ pending' \in MergeSources
<1>1. ASSUME NEW k \in StrKey, NEW v \in Value, NEW f \in Flags, AddOrUpdate(k, v, f)
      PROVE  \E id \in AllIds : PutsAt(id) /\ (id[1] = NULL => id[2] \in Places) /\ pending' = pending
  BY <1>1, IdTypes, IdRange DEF AddOrUpdate, PutsAt, loopVars
<1>2. ASSUME NEW i \in UsableIndex, NEW v \in Value, NEW f \in Flags, IndexUpdate(i, v, f)
      PROVE  \E id \in AllIds : PutsAt(id) /\ (id[1] = NULL => id[2] \in Places) /\ pending' = pending
  BY <1>2, IdTypes, IdRange, WidthAssumption DEF IndexUpdate, PutsAt, loopVars
<1>3. ASSUME NEW v \in Value, NextInsert(v)
      PROVE  \E id \in AllIds : PutsAt(id) /\ (id[1] = NULL => id[2] \in Places) /\ pending' = pending
  BY <1>3, IdTypes, IdRange, WidthAssumption DEF NextInsert, PutsAt, loopVars
<1>4. ASSUME NEW k \in StrKey, NEW f \in Foreign, PointerUpdate(k, f)
      PROVE  \E id \in AllIds : PutsAt(id) /\ (id[1] = NULL => id[2] \in Places) /\ pending' = pending
  BY <1>4, IdTypes, IdRange DEF PointerUpdate, PutsAt, loopVars
<1>5. ASSUME NEW i \in UsableIndex, NEW f \in Foreign, PointerIndexUpdate(i, f)
      PROVE  \E id \in AllIds : PutsAt(id) /\ (id[1] = NULL => id[2] \in Places) /\ pending' = pending
  BY <1>5, IdTypes, IdRange, WidthAssumption DEF PointerIndexUpdate, PutsAt, loopVars
<1>6. ASSUME NEW f \in Foreign, PointerNextInsert(f)
      PROVE  \E id \in AllIds : PutsAt(id) /\ (id[1] = NULL => id[2] \in Places) /\ pending' = pending
  BY <1>6, IdTypes, IdRange, WidthAssumption DEF PointerNextInsert, PutsAt, loopVars
<1>7. ASSUME LoadStep
      PROVE  \E id \in AllIds : /\ PutsAt(id) /\ (id[1] = NULL => id[2] \in Places)
                                /\ pending # <<>> /\ pending' = Tail(pending)
  <2>1. /\ pending \in Seq([id : AllIds, val : Value]) /\ pending # <<>>
        /\ Put(Head(pending).id, Head(pending).val, IF busy = "copy" THEN "UPDATE" ELSE "ADD")
        /\ pending' = Tail(pending)
    BY <1>7 DEF LoadStep, IInv, CallerType
  <2>2. Head(pending) \in [id : AllIds, val : Value]
    BY <2>1, HeadTailProperties
  <2>3. Len(pending) \in Nat \ {0} /\ Head(pending) = pending[1]
    BY <2>1, EmptySeq
  <2>4. Head(pending).id[1] = NULL => Head(pending).id[2] \in Places
    BY <2>3 DEF IndexRange
  <2> QED
    BY <2>1, <2>2, <2>4 DEF PutsAt, Flags
<1>8. ASSUME NEW k \in StrKey, Delete(k)
      PROVE  (\E id : Remove(id)) /\ UNCHANGED pending
  BY <1>8 DEF Delete, loopVars
<1>9. ASSUME NEW i \in UsableIndex, IndexDelete(i)
      PROVE  (\E id : Remove(id)) /\ UNCHANGED pending
  BY <1>9 DEF IndexDelete, loopVars
<1>10. ASSUME ApplyDelete
       PROVE  (\E id : Remove(id)) /\ UNCHANGED pending
  BY <1>10 DEF ApplyDelete
<1>11. ASSUME NEW renumber \in BOOLEAN, Sort(renumber)
       PROVE  UNCHANGED pending
  BY <1>11 DEF Sort, loopVars
<1>12. ASSUME (\E n \in Sizes : Destroy(n)) \/ CopyStart
       PROVE  bucket' = <<>> /\ nNextFreeElement' = 0 /\ (pending' = pending \/ CopyStart)
  BY <1>12 DEF Destroy, CopyStart, Emptied, loopVars
<1>13. ASSUME \/ RefuseEmptyKey \/ \E id \in Ids : Find(id)
              \/ CurrentData \/ PointerReset \/ PointerEnd \/ MoveForward \/ MoveBackwards
              \/ ApplyStart \/ ApplyKeep \/ ApplyEnd \/ LoadEnd
       PROVE  UNCHANGED <<bucket, nNextFreeElement, pending>>
  BY <1>13 DEF RefuseEmptyKey, Find, CurrentData, PointerReset, PointerEnd, MoveForward,
     MoveBackwards, MovePointer, ApplyStart, ApplyKeep, ApplyEnd, LoadEnd, loopVars
<1>14. ASSUME NEW src \in MergeSources, MergeStart(src)
       PROVE  UNCHANGED <<bucket, nNextFreeElement>> /\ pending' \in MergeSources
  BY <1>14 DEF MergeStart
<1> QED
  BY <1>1, <1>2, <1>3, <1>4, <1>5, <1>6, <1>7, <1>8, <1>9, <1>10, <1>11, <1>12, <1>13, <1>14
  DEF Next

\* All indexes stay places.
LEMMA RangeStep ==
  ASSUME IInv, WalkOK, IndexRange, Next
  PROVE  IndexRange'
<1> DEFINE BucketsIn == \A b \in Allocated : bucket[b].arKey = NULL => bucket[b].h \in Places
           PendingIn(s) == \A i \in 1 .. Len(s) : s[i].id[1] = NULL => s[i].id[2] \in Places
<1>1. BucketsIn /\ PendingIn(pending) /\ pending \in Seq([id : AllIds, val : Value])
  BY DEF IndexRange, IInv, CallerType
<1>2. ASSUME NEW S, OldOr(S), \A id \in S : id[1] = NULL => id[2] \in Places
      PROVE  BucketsIn'
  BY <1>1, <1>2 DEF OldOr, Id
<1>3. ASSUME pending # <<>>, pending' = Tail(pending)
      PROVE  PendingIn(pending')
  <2>1. /\ Len(Tail(pending)) = Len(pending) - 1 /\ Len(pending) \in Nat
        /\ \A i \in 1 .. Len(Tail(pending)) : Tail(pending)[i] = pending[i + 1]
    BY <1>1, <1>3, HeadTailProperties, LenProperties
  <2> QED
    BY <1>1, <1>3, <2>1
<1>4. CASE /\ \E id \in AllIds : PutsAt(id) /\ (id[1] = NULL => id[2] \in Places)
           /\ pending' = pending \/ (pending # <<>> /\ pending' = Tail(pending))
  <2>1. PICK id \in AllIds : PutsAt(id) /\ (id[1] = NULL => id[2] \in Places)
    BY <1>4
  <2>2. OldOr({id})
    BY <2>1, PutKeys, PutPointerKeys DEF PutsAt
  <2>3. BucketsIn'
    BY <1>2, <2>1, <2>2
  <2>4. PendingIn(pending')
    BY <1>1, <1>3, <1>4
  <2> QED
    BY <2>3, <2>4 DEF IndexRange
<1>5. CASE (\E id : Remove(id)) /\ UNCHANGED pending
  <2>1. OldOr({})
    BY <1>5, RemoveKeys
  <2>2. BucketsIn'
    BY <1>2, <2>1
  <2> QED
    BY <1>1, <1>5, <2>2 DEF IndexRange
<1>6. CASE (\E renumber \in BOOLEAN : Sort(renumber)) /\ UNCHANGED pending
  <2>1. OldOr({IndexId(i) : i \in 0 .. Cardinality(Bucket) - 1})
    BY <1>6, SortKeys
  <2>2. BucketsIn'
    BY <1>2, <2>1 DEF IndexId, Places
  <2> QED
    BY <1>1, <1>6, <2>2 DEF IndexRange
<1>7. CASE bucket' = <<>> /\ (pending' = pending \/ CopyStart)
  <2>1. BucketsIn'
    BY <1>7, EmptyFunction DEF Allocated
  <2>2. CASE CopyStart
    <3>1. PICK w \in Walks :
            pending' = [i \in 1 .. nNumOfElements |-> [id |-> Id(w[i]), val |-> Data(w[i])]]
      BY <2>2 DEF CopyStart
    <3>2. nNumOfElements \in Nat /\ w \in [1 .. nNumOfElements -> Allocated]
      BY <3>1 DEF IInv, TableInv, TableType, Walks
    <3>3. Len(pending') = nNumOfElements
      BY <3>1, <3>2
    <3>4. \A i \in 1 .. nNumOfElements : pending'[i].id = Id(w[i]) /\ w[i] \in Allocated
      BY <3>1, <3>2
    <3>5. PendingIn(pending')
      BY <1>1, <3>3, <3>4 DEF Id
    <3> QED
      BY <2>1, <3>5 DEF IndexRange
  <2> QED
    BY <1>1, <1>7, <2>1, <2>2 DEF IndexRange
<1>8. CASE UNCHANGED bucket /\ (pending' = pending \/ pending' \in MergeSources)
  <2>1. BucketsIn'
    BY <1>1, <1>8 DEF Allocated
  <2>2. ASSUME pending' \in MergeSources
        PROVE  PendingIn(pending')
    <3>1. pending' \in Seq(Entry)
      BY <2>2, SourceAssumption
    <3>2. \A i \in 1 .. Len(pending') : pending'[i] \in Entry
      BY <3>1, ElementOfSeq
    <3> QED
      BY <3>2, IdRange DEF Entry
  <2> QED
    BY <1>1, <1>8, <2>1, <2>2 DEF IndexRange
<1> QED
  BY KeySteps, <1>4, <1>5, <1>6, <1>7, <1>8

\* Every index in the table is below the next free one, provided that nobody
\* uses the largest index.
FreshInv == \A b \in Allocated : bucket[b].arKey = NULL => bucket[b].h < nNextFreeElement

\* Every index in the table stays below the next free one, whatever is called
\* (nNextFreeElement), as long as ULONG_MAX is no index of the callers.
LEMMA FreshStep ==
  ASSUME IInv, WalkOK, IndexRange, FreshInv, M - 1 \notin UsableIndex, Next
  PROVE  FreshInv'
<1>1. nNextFreeElement \in Nat /\ Places \subseteq Nat /\ \A i \in Places : i + 1 < M
  <2>1. M \in Nat /\ Index = 0 .. M - 1 /\ UsableIndex \subseteq Index
    BY WidthAssumption DEF Index
  <2>2. Cardinality(Bucket) < M /\ Cardinality(Bucket) \in Nat
    BY BucketAssumption, FS_CardinalityType
  <2>3. \A i \in UsableIndex : i \in Nat /\ i + 1 < M
    BY <2>1
  <2>4. \A i \in 0 .. Cardinality(Bucket) - 1 : i \in Nat /\ i + 1 < M
    BY <2>1, <2>2
  <2>5. nNextFreeElement \in Nat
    BY <2>1 DEF IInv, CallerType
  <2> QED
    BY <2>3, <2>4, <2>5 DEF Places
<1>2. \A b \in Allocated : bucket[b].arKey = NULL => bucket[b].h \in Nat
  BY WidthAssumption DEF IInv, TableInv, TableType, Index
<1>3. CASE \E id \in AllIds : PutsAt(id) /\ (id[1] = NULL => id[2] \in Places)
  <2>1. PICK id \in AllIds : PutsAt(id) /\ (id[1] = NULL => id[2] \in Places)
    BY <1>3
  <2>2. OldOr({id})
    BY <2>1, PutKeys, PutPointerKeys DEF PutsAt
  <2>3. UNCHANGED bucket \/ BumpNextFree(id)
    BY <2>1 DEF PutsAt, Put, PutPointer
  <2>4. CASE UNCHANGED <<bucket, nNextFreeElement>>
    BY <2>4 DEF FreshInv, Allocated
  <2>5. CASE BumpNextFree(id)
    <3>1. /\ nNextFreeElement' \in Nat /\ nNextFreeElement' >= nNextFreeElement
          /\ id[1] = NULL => id[2] < nNextFreeElement'
      <4>1. CASE id[1] = NULL /\ id[2] >= nNextFreeElement
        <5>1. id[2] \in Nat /\ id[2] + 1 < M /\ M \in Nat
          BY <1>1, <2>1, <4>1, WidthAssumption
        <5>2. (id[2] + 1) % M = id[2] + 1
          BY <5>1
        <5> QED
          BY <1>1, <2>5, <4>1, <5>1, <5>2 DEF BumpNextFree
      <4>2. CASE ~(id[1] = NULL /\ id[2] >= nNextFreeElement)
        <5>1. nNextFreeElement' = nNextFreeElement
          BY <2>5, <4>2 DEF BumpNextFree
        <5>2. id[1] = NULL => id[2] \in Nat
          BY <1>1, <2>1
        <5> QED
          BY <1>1, <4>2, <5>1, <5>2
      <4> QED
        BY <4>1, <4>2
    <3> QED
      BY <1>1, <1>2, <2>2, <3>1 DEF FreshInv, OldOr, Id
  <2>6. UNCHANGED bucket => UNCHANGED nNextFreeElement \/ BumpNextFree(id)
    BY <2>1 DEF PutsAt, Put, PutPointer
  <2> QED
    BY <2>3, <2>4, <2>5, <2>6
<1>4. CASE \E id : Remove(id)
  <2>1. PICK id : Remove(id)
    BY <1>4
  <2>2. OldOr({}) /\ UNCHANGED nNextFreeElement
    BY <2>1, RemoveKeys DEF Remove
  <2> QED
    BY <2>2 DEF FreshInv, OldOr, Id
<1>5. CASE \E renumber \in BOOLEAN : Sort(renumber)
  <2>1. PICK renumber \in BOOLEAN : Sort(renumber)
    BY <1>5
  <2>2. CASE UNCHANGED <<bucket, nNextFreeElement>>
    BY <2>2 DEF FreshInv, Allocated
  <2>3. CASE \A b \in Allocated : bucket'[b].h \in 0 .. nNextFreeElement' - 1
    <3>1. Allocated' = Allocated /\ nNextFreeElement' \in Int
      <4>1. nNextFreeElement' = nNextFreeElement \/ nNextFreeElement' \in Index
        <5>1. TableInv
          BY DEF IInv
        <5> QED
          BY <2>1, <5>1, SortStep
      <4>2. Allocated' = Allocated
        BY <2>1, SortKeys
      <4>3. Index \subseteq Int
        BY WidthAssumption DEF Index
      <4>4. nNextFreeElement \in Int
        BY <1>1
      <4>5. nNextFreeElement' \in Int
        BY <4>1, <4>3, <4>4
      <4> QED
        BY <4>2, <4>5
    <3>2. \A b \in Allocated : bucket'[b].h < nNextFreeElement'
      BY <2>3, <3>1
    <3> QED
      BY <3>1, <3>2 DEF FreshInv
  <2> QED
    BY <2>1, <2>2, <2>3, SortKeys
<1>6. CASE bucket' = <<>>
  BY <1>6, EmptyFunction DEF FreshInv, Allocated
<1>7. CASE UNCHANGED <<bucket, nNextFreeElement>>
  BY <1>7 DEF FreshInv, Allocated
<1> QED
  BY KeySteps, <1>3, <1>4, <1>5, <1>6, <1>7

\* $a[] = x always finds a free place (nNextFreeElement = h + 1 in
\* _php3_hash_index_update_or_next_insert), if the largest index is not used.
THEOREM NextFreeCorrect ==
  ASSUME M - 1 \notin UsableIndex
  PROVE  Spec /\ []WalkOK => []NextFreeIsFree
<1> DEFINE Inv == IInv /\ IndexRange /\ FreshInv
<1>1. Init => Inv
  BY InitInv, EmptyFunction, EmptySeq DEF Init, IndexRange, FreshInv, Allocated
<1>2. Inv /\ WalkOK /\ [Next]_vars => Inv'
  <2>1. ASSUME Inv, WalkOK, Next
        PROVE  Inv'
    BY <2>1, NextInv, RangeStep, FreshStep
  <2>2. ASSUME Inv, WalkOK, UNCHANGED vars
        PROVE  Inv'
    <3>1. IInv'
      BY <2>2, NextInv
    <3>2. IndexRange' /\ FreshInv'
      BY <2>2 DEF vars, loopVars, IndexRange, FreshInv, Allocated
    <3> QED
      BY <3>1, <3>2
  <2> QED
    BY <2>1, <2>2
<1>3. Inv => NextFreeIsFree
  <2> SUFFICES ASSUME Inv, NEW b \in Found(IndexId(nNextFreeElement))
               PROVE  FALSE
    BY DEF NextFreeIsFree
  <2>1. b \in Allocated /\ bucket[b].arKey = NULL /\ bucket[b].h = nNextFreeElement
    BY FoundMatches DEF Id, IndexId
  <2>2. nNextFreeElement \in Int
    BY WidthAssumption DEF IInv, CallerType, Index
  <2> QED
    BY <2>1, <2>2 DEF FreshInv
<1> QED
  BY <1>1, <1>2, <1>3, PTL DEF Spec

-----------------------------------------------------------------------------
(* Walks with a callback.                                                    *)

\* Without collisions the deletion of an element by its key deletes it.
LEMMA DeletesIt ==
  ASSUME NoCollision, IInv, IndexRange, NEW b \in Allocated, Remove(Id(b))
  PROVE  Allocated' = Allocated \ {b}
<1> DEFINE id == Id(b)
           c == Chain(id[2])
           match == {a \in Allocated : bucket[a].h = id[2] /\ bucket[a].arKey \in {NULL, id[1]}}
<1>1. id[1] = bucket[b].arKey /\ id[2] = bucket[b].h /\ id[2] \in Index
  BY DEF Id, IInv, TableInv, TableType
<1>2. ASSUME NEW a \in match
      PROVE  a = b
  <2>1. bucket[a].h = bucket[b].h /\ bucket[a].arKey \in {NULL, bucket[b].arKey}
    BY <1>1
  <2>2. CASE bucket[a].arKey = bucket[b].arKey
    BY <2>1, <2>2 DEF Id, IInv, TableInv, KeyInv
  <2>3. CASE bucket[a].arKey = NULL /\ bucket[b].arKey # NULL
    <3>1. bucket[a].h \in Places
      BY <2>3 DEF IndexRange
    <3>2. bucket[b].arKey \in StrKey /\ Id(b) = KeyId(bucket[b].arKey)
      BY <2>3 DEF IInv, TableInv, TableType, KeyInv
    <3>3. bucket[b].h = HashOf[bucket[b].arKey]
      BY <2>3, <3>2 DEF KeyId, IndexId, Id
    <3> QED
      BY <2>1, <3>1, <3>2, <3>3 DEF NoCollision
  <2> QED
    BY <2>1, <2>2, <2>3
<1>3. match = {b}
  BY <1>1, <1>2
<1>4. PICK j \in DOMAIN c : c[j] = b
  BY <1>1, TableSize DEF IInv, TableInv, ChainInv, Chain
<1>5. c \in Seq(Bucket) /\ DOMAIN c = 1 .. Len(c) /\ \A i, k \in DOMAIN c : c[i] = c[k] => i = k
  <2>1. c \in Seq(Bucket)
    BY <1>1, TableSize DEF IInv, TableInv
  <2> QED
    BY <1>1, <2>1, TableSize, LenProperties DEF IInv, TableInv, ChainInv, Chain
<1>6. Victims(id) = FirstIn(c, match)
  BY DEF Victims
<1> HIDE DEF c, match
<1>7. Victims(id) = {j}
  BY <1>3, <1>4, <1>5, <1>6 DEF FirstIn
<1>8. Unlink(id, j)
  BY <1>7 DEF Remove
<1>9. bucket' = [a \in Allocated \ {b} |-> bucket[a]]
  BY <1>4, <1>8 DEF Unlink, c
<1> QED
  BY <1>9 DEF Allocated

\* The saved next bucket exists, and there is none outside a walk.
WalkInv == WalkOK /\ (busy # "apply" => applyNext = NULL)

\* Without colliding keys, no step leaves the saved next bucket of
\* _php3_hash_apply dangling.
LEMMA WalkStep ==
  ASSUME NoCollision, IInv, IndexRange, WalkInv, Next
  PROVE  WalkInv'
<1>1. ASSUME applyNext' = applyNext, busy' = busy, Allocated \subseteq Allocated'
      PROVE  WalkInv'
  BY <1>1 DEF WalkInv, WalkOK
<1>2. ASSUME busy # "apply", applyNext' = applyNext
      PROVE  WalkInv'
  BY <1>2 DEF WalkInv, WalkOK
<1>3. ASSUME \/ \E k \in StrKey, v \in Value, f \in Flags : AddOrUpdate(k, v, f)
             \/ \E i \in UsableIndex, v \in Value, f \in Flags : IndexUpdate(i, v, f)
             \/ \E v \in Value : NextInsert(v)
      PROVE  WalkInv'
  <2>1. \E id \in AllIds, v \in Value : \E f : Put(id, v, f)
    BY <1>3, IdTypes, WidthAssumption DEF AddOrUpdate, IndexUpdate, NextInsert
  <2>2. Allocated \subseteq Allocated'
    BY <2>1, PutStep
  <2>3. UNCHANGED loopVars
    BY <1>3 DEF AddOrUpdate, IndexUpdate, NextInsert
  <2> QED
    BY <1>1, <2>2, <2>3 DEF loopVars
<1>4. ASSUME ApplyStart
      PROVE  WalkInv'
  <2>1. pListHead \in Allocated \cup {NULL} /\ Allocated' = Allocated
    BY <1>4, Ends DEF ApplyStart, Allocated, IInv
  <2> QED
    BY <1>4, <2>1 DEF ApplyStart, WalkInv, WalkOK
<1>5. ASSUME ApplyKeep
      PROVE  WalkInv'
  <2>1. applyNext' \in Allocated \cup {NULL} /\ Allocated' = Allocated /\ busy' = "apply"
    BY <1>5, NextIsBucket DEF ApplyKeep, WalkInv, WalkOK, Allocated, IInv
  <2> QED
    BY <2>1 DEF WalkInv, WalkOK
<1>6. ASSUME ApplyDelete
      PROVE  WalkInv'
  <2>1. applyNext \in Allocated /\ Remove(Id(applyNext)) /\ busy' = "apply"
    BY <1>6 DEF ApplyDelete, WalkInv, WalkOK
  <2>2. Allocated' = Allocated \ {applyNext}
    BY <2>1, DeletesIt
  <2>3. applyNext' \in (Allocated \ {applyNext}) \cup {NULL}
    BY <1>6, <2>1, NextIsBucket DEF ApplyDelete, IInv
  <2> QED
    BY <2>1, <2>2, <2>3 DEF WalkInv, WalkOK
<1>7. ASSUME ApplyEnd
      PROVE  WalkInv'
  BY <1>7 DEF ApplyEnd, WalkInv, WalkOK
<1>8. ASSUME \/ \E k \in StrKey, f \in Foreign : PointerUpdate(k, f)
             \/ \E i \in UsableIndex, f \in Foreign : PointerIndexUpdate(i, f)
             \/ \E f \in Foreign : PointerNextInsert(f)
             \/ RefuseEmptyKey
             \/ \E k \in StrKey : Delete(k)
             \/ \E i \in UsableIndex : IndexDelete(i)
             \/ \E id \in Ids : Find(id)
             \/ CurrentData \/ \E renumber \in BOOLEAN : Sort(renumber)
             \/ \E n \in Sizes : Destroy(n)
      PROVE  WalkInv'
  BY <1>2, <1>8 DEF PointerUpdate, PointerIndexUpdate, PointerNextInsert, RefuseEmptyKey, Delete,
     IndexDelete, Find, CurrentData, Sort, Destroy, loopVars, Idle
<1>9. ASSUME PointerReset \/ PointerEnd \/ MoveForward \/ MoveBackwards
      PROVE  WalkInv'
  BY <1>2, <1>9 DEF PointerReset, PointerEnd, MoveForward, MoveBackwards, MovePointer, loopVars, Idle
<1>10. ASSUME \/ CopyStart
              \/ \E src \in MergeSources : MergeStart(src)
              \/ LoadStep \/ LoadEnd
       PROVE  WalkInv'
  BY <1>2, <1>10 DEF CopyStart, MergeStart, LoadStep, LoadEnd, Idle
<1> QED
  BY <1>3, <1>4, <1>5, <1>6, <1>7, <1>8, <1>9, <1>10 DEF Next

\* The invariant of tables in which no string key collides with an index.
SafeInv == IInv /\ IndexRange /\ WalkInv

\* Without colliding keys the table is well-formed in every reachable state,
\* and _php3_hash_apply never holds a freed bucket: no assumption is left.
THEOREM SafeWalks ==
  ASSUME NoCollision
  PROVE  Spec => []SafeInv
<1>1. Init => SafeInv
  BY InitInv, EmptyFunction, EmptySeq
  DEF Init, SafeInv, IndexRange, WalkInv, WalkOK, Allocated
<1>2. SafeInv /\ [Next]_vars => SafeInv'
  <2>1. ASSUME SafeInv, Next
        PROVE  SafeInv'
    BY <2>1, NextInv, RangeStep, WalkStep DEF SafeInv, WalkInv
  <2>2. ASSUME SafeInv, UNCHANGED vars
        PROVE  SafeInv'
    <3>1. IInv'
      BY <2>2, NextInv DEF SafeInv, WalkInv
    <3>2. IndexRange' /\ WalkInv'
      BY <2>2 DEF SafeInv, vars, loopVars, IndexRange, WalkInv, WalkOK, Allocated
    <3> QED
      BY <3>1, <3>2 DEF SafeInv
  <2> QED
    BY <2>1, <2>2
<1> QED
  BY <1>1, <1>2, PTL DEF Spec

\* Neither the cursor nor the next bucket saved by _php3_hash_apply ever points
\* to a freed bucket.
THEOREM WalksAreSafe ==
  ASSUME NoCollision
  PROVE  Spec => []NoDangling
<1>1. SafeInv => NoDangling
  BY DEF SafeInv, WalkInv, IInv, TableInv, NoDangling
<1> QED
  BY <1>1, SafeWalks, PTL

\* The entry that the callback of _php3_hash_apply wants deleted is deleted, and
\* no other.
THEOREM ApplyDeletes ==
  ASSUME NoCollision
  PROVE  Spec => ApplyDeletesIt
<1>1. SafeInv /\ [Next]_vars => [ApplyDelete => Allocated' = Allocated \ {applyNext}]_vars
  <2> SUFFICES ASSUME SafeInv, ApplyDelete
               PROVE  Allocated' = Allocated \ {applyNext}
    OBVIOUS
  <2>1. applyNext \in Allocated /\ Remove(Id(applyNext))
    BY DEF ApplyDelete, SafeInv, WalkInv, WalkOK
  <2> QED
    BY <2>1, DeletesIt DEF SafeInv
<1> QED
  BY <1>1, SafeWalks, PTL DEF Spec, ApplyDeletesIt

-----------------------------------------------------------------------------
(* The refinement of OrderedMap *)

\* The order of the natural numbers is well-founded.
LEMMA Order == \E R : IsWellFoundedOn(R, Nat) /\ \A a, b \in Nat : a < b => <<a, b>> \in R
<1>1. IsWellFoundedOn(OpToRel(<, Nat), Nat)
  BY NatLessThanWellFounded, Zenon
<1>2. \A a, b \in Nat : a < b => <<a, b>> \in OpToRel(<, Nat)
  BY DEF OpToRel
<1> QED BY <1>1, <1>2, Zenon

\* Every set of natural numbers has a least element.
LEMMA Least ==
  ASSUME NEW T \in SUBSET Nat, T # {}
  PROVE  \E x \in T : \A y \in T : x <= y
<1>1. PICK R : IsWellFoundedOn(R, Nat) /\ \A a, b \in Nat : a < b => <<a, b>> \in R
  BY Order
<1>2. IsWellFoundedOn(R, Nat) /\ T \subseteq Nat
  BY <1>1
<1>3. PICK x \in T : \A y \in T : ~ (<<y, x>> \in R)
  BY <1>2, WFMin, Zenon
<1>4. ASSUME NEW y \in T PROVE x <= y
  <2>1. ~ (y < x)
    BY <1>1, <1>3, Zenon
  <2> QED BY <2>1
<1> QED BY <1>4

\* The list is what a walk from the head comes to.
WalkIsVisited == nNumOfElements \in Nat => \A w \in Walks : Visited = w

LEMMA VisitedIs == WalkIsVisited
<1> SUFFICES ASSUME nNumOfElements \in Nat, NEW w \in Walks PROVE Visited = w
  BY DEF WalkIsVisited
<1> DEFINE n == nNumOfElements
           next(f) == [i \in 1 .. n |->
                         IF i = 1 THEN pListHead
                         ELSE IF f[i - 1] \in Allocated THEN pListNext[f[i - 1]] ELSE NULL]
           at == CHOOSE f : f = next(f)
<1>1. /\ w \in [1 .. n -> Allocated]
      /\ n # 0 => pListHead = w[1]
      /\ \A i \in 1 .. n : pListNext[w[i]] = IF i = n THEN NULL ELSE w[i + 1]
  BY DEF Walks, IsWalk
<1>2. w = next(w)
  <2>1. \A i \in 1 .. n : w[i] = next(w)[i]
    <3> SUFFICES ASSUME NEW i \in 1 .. n PROVE w[i] = next(w)[i]
      OBVIOUS
    <3>1. CASE i = 1
      BY <1>1, <3>1
    <3>2. CASE i # 1
      <4>1. i - 1 \in 1 .. n /\ i - 1 # n /\ (i - 1) + 1 = i
        BY <3>2
      <4>2. w[i - 1] \in Allocated /\ pListNext[w[i - 1]] = w[i]
        BY <1>1, <4>1
      <4> QED BY <3>2, <4>2
    <3> QED BY <3>1, <3>2
  <2> HIDE DEF n
  <2> QED BY <1>1, <2>1
<1>3. at = next(at)
  <2> HIDE DEF next
  <2> QED BY <1>2, Zenon
<1>4. Visited = at
  BY DEF Visited
<1> HIDE DEF at
<1>5. \A i \in 1 .. n : at[i] = w[i]
  <2> DEFINE T == {i \in 1 .. n : at[i] # w[i]}
  <2> SUFFICES ASSUME T # {} PROVE FALSE
    OBVIOUS
  <2>1. PICK x \in T : \A y \in T : x <= y
    <3>1. T \in SUBSET Nat
      OBVIOUS
    <3> HIDE DEF T
    <3> QED BY <3>1, Least
  <2>2. x \in 1 .. n /\ at[x] # w[x]
    BY <2>1
  <2>7. PICK f : f = next(at)
    OBVIOUS
  <2>8. at[x] = f[x]
    BY <1>3, <2>7, Zenon
  <2>9. f[x] = IF x = 1 THEN pListHead
               ELSE IF at[x - 1] \in Allocated THEN pListNext[at[x - 1]] ELSE NULL
    BY <2>2, <2>7
  <2>10. PICK g : g = next(w)
    OBVIOUS
  <2>11. w[x] = g[x]
    BY <1>2, <2>10, Zenon
  <2>12. g[x] = IF x = 1 THEN pListHead
               ELSE IF w[x - 1] \in Allocated THEN pListNext[w[x - 1]] ELSE NULL
    BY <2>2, <2>10
  <2>3. x # 1
    BY <2>2, <2>8, <2>9, <2>11, <2>12
  <2>4. x - 1 \in 1 .. n /\ ~ (x <= x - 1)
    BY <2>2, <2>3
  <2>5. x - 1 \notin T
    BY <2>1, <2>4
  <2>6. at[x - 1] = w[x - 1]
    BY <2>4, <2>5
  <2> QED BY <2>2, <2>3, <2>6, <2>8, <2>9, <2>11, <2>12
<1>6. at = [i \in 1 .. n |-> at[i]]
  <2>1. DOMAIN next(at) = 1 .. n /\ next(at) = [i \in 1 .. n |-> next(at)[i]]
    OBVIOUS
  <2> HIDE DEF next
  <2> QED BY <1>3, <2>1
<1>7. w = [i \in 1 .. n |-> w[i]]
  BY <1>1
<1>8. at = w
  <2> HIDE DEF n
  <2> QED BY <1>5, <1>6, <1>7
<1> QED BY <1>4, <1>8

\* The keys of the dictionary: the indexes, and the strings that are not one.
Keyed == {k \in StrKey : ~IsNumeric(k)} \cup Index

\* An identity is an index, or a string that is not a number, with its hash.
LEMMA IdForms ==
  ASSUME NEW id \in AllIds
  PROVE  \/ \E i \in Index : id = <<NULL, i>>
         \/ \E k \in StrKey : ~IsNumeric(k) /\ id = <<k, HashOf[k]>>
<1>1. CASE \E i \in Index : id = IndexId(i)
  BY <1>1 DEF IndexId
<1>2. ASSUME NEW k \in StrKey, id = KeyId(k)
      PROVE  \/ \E i \in Index : id = <<NULL, i>>
             \/ ~IsNumeric(k) /\ id = <<k, HashOf[k]>>
  <2>1. CASE IsNumeric(k)
    <3>1. NumericValue[k] \in Index
      BY <2>1, NumericAssumption, WidthAssumption DEF IsNumeric
    <3>2. id = <<NULL, NumericValue[k]>>
      BY <1>2, <2>1 DEF KeyId, IndexId
    <3> QED BY <3>1, <3>2
  <2>2. CASE ~IsNumeric(k)
    BY <1>2, <2>2 DEF KeyId
  <2> QED BY <2>1, <2>2
<1> QED BY <1>1, <1>2 DEF AllIds

\* A key of the dictionary for every identity of a bucket, and no two the same.
LEMMA KeyOfId ==
  ASSUME NEW id \in AllIds
  PROVE  /\ AbstractKey(id) \in Keyed
         /\ id[1] = NULL => AbstractKey(id) \in Index /\ AbstractKey(id) = id[2]
         /\ AbstractKey(id) \in Index => id[1] = NULL
<1>1. CASE \E i \in Index : id = <<NULL, i>>
  BY <1>1 DEF AbstractKey, Keyed
<1>2. CASE \E k \in StrKey : ~IsNumeric(k) /\ id = <<k, HashOf[k]>>
  BY <1>2, KeyAssumption DEF AbstractKey, Keyed
<1> QED BY <1>1, <1>2, IdForms

\* Buckets with different identities have different keys in the dictionary.
LEMMA KeysDiffer ==
  ASSUME NEW x \in AllIds, NEW y \in AllIds, AbstractKey(x) = AbstractKey(y)
  PROVE  x = y
<1>1. ASSUME NEW i \in Index, x = <<NULL, i>> PROVE x = y
  <2>1. AbstractKey(y) = i
    BY <1>1 DEF AbstractKey
  <2>2. CASE \E j \in Index : y = <<NULL, j>>
    BY <1>1, <2>1, <2>2 DEF AbstractKey
  <2>3. CASE \E k \in StrKey : ~IsNumeric(k) /\ y = <<k, HashOf[k]>>
    BY <2>1, <2>3, KeyAssumption DEF AbstractKey
  <2> QED BY <2>2, <2>3, IdForms
<1>2. ASSUME NEW k \in StrKey, x = <<k, HashOf[k]>> PROVE x = y
  <2>1. AbstractKey(y) = k
    BY <1>2, KeyAssumption DEF AbstractKey
  <2>2. CASE \E j \in Index : y = <<NULL, j>>
    BY <2>1, <2>2, KeyAssumption DEF AbstractKey
  <2>3. CASE \E l \in StrKey : ~IsNumeric(l) /\ y = <<l, HashOf[l]>>
    BY <1>2, <2>1, <2>3, KeyAssumption DEF AbstractKey
  <2> QED BY <2>2, <2>3, IdForms
<1> QED BY <1>1, <1>2, IdForms

\* The entry that a bucket is, and what is loaded.
Elem == [key : Keyed, data : Value \cup Foreign, ref : BOOLEAN]
ElementOf(b) == [key |-> AbstractKey(Id(b)), data |-> bucket[b].pData, ref |-> bucket[b].bIsPointer]
Load == [key : Keyed, val : Value]
LoadOf(x) == [key |-> AbstractKey(x.id), val |-> x.val]

\* The pointer p is at position k of the list w.
At(n, w, p, k) == /\ k \in 0 .. n
                  /\ IF p = NULL THEN k = 0 ELSE k # 0 /\ w[k] = p

IsList(w) ==
  /\ nNumOfElements \in Nat /\ w \in [1 .. nNumOfElements -> Allocated] /\ NULL \notin Allocated
  /\ \A b \in Allocated : \E i \in 1 .. nNumOfElements : w[i] = b
  /\ \A i, j \in 1 .. nNumOfElements : w[i] = w[j] => i = j

\* The view shows the list w.
Shown(w) ==
  /\ view.entries \in Seq(Elem) /\ Len(view.entries) = nNumOfElements
  /\ \A i \in 1 .. nNumOfElements : view.entries[i] = ElementOf(w[i])
  /\ At(nNumOfElements, w, pInternalPointer, view.cursor) /\ At(nNumOfElements, w, applyNext, view.applyPos)
  /\ view.pending \in Seq(Load) /\ Len(view.pending) = Len(pending)
  /\ \A i \in 1 .. Len(pending) : view.pending[i] = LoadOf(pending[i])

\* A walk is a list of all the buckets.
LEMMA WalkIsList ==
  ASSUME TableType, NEW w \in Walks
  PROVE  IsList(w)
BY BucketAssumption DEF TableType, Walks, IsWalk, IsList

\* The view of a bucket is an entry of the dictionary.
LEMMA ElementType ==
  ASSUME IInv, NEW b \in Allocated
  PROVE  ElementOf(b) \in Elem /\ ElementOf(b) = ElementAt(b)
<1>1. bucket[b] \in [arKey : StrKey \cup {NULL}, h : Index,
                     pData : Value \cup Foreign, bIsPointer : BOOLEAN]
  BY DEF IInv, TableInv, TableType
<1>2. AbstractKey(Id(b)) \in Keyed
  BY EntryType, KeyOfId
<1> QED BY <1>1, <1>2 DEF ElementOf, Elem, ElementAt

\* Every pointer to a bucket is at its position.
LEMMA PositionIs ==
  ASSUME NEW w, IsList(w), NEW p \in Allocated \cup {NULL}
  PROVE  At(nNumOfElements, w, p, Position(w, p))
<1>1. DOMAIN w = 1 .. nNumOfElements /\ nNumOfElements \in Nat
  BY DEF IsList
<1>2. CASE p = NULL
  BY <1>1, <1>2 DEF Position, At
<1>3. CASE p # NULL
  <2>1. PICK i \in DOMAIN w : w[i] = p
    BY <1>1, <1>3 DEF IsList
  <2>2. PICK k : k = CHOOSE j \in DOMAIN w : w[j] = p
    OBVIOUS
  <2>3. k \in DOMAIN w /\ w[k] = p
    BY <2>1, <2>2, Zenon
  <2>4. Position(w, p) = k
    BY <1>3, <2>1, <2>2, Zenon DEF Position
  <2> QED BY <1>1, <1>3, <2>3, <2>4 DEF At
<1> QED BY <1>2, <1>3

\* The view is what a walk from the head shows.
InView == IInv /\ WalkOK /\ view = MappingOf(Visited) => \A w \in Walks : Shown(w)

LEMMA ViewShows == InView
<1> SUFFICES ASSUME IInv, WalkOK, NEW w \in Walks, view = MappingOf(w) PROVE Shown(w)
  BY VisitedIs DEF InView, WalkIsVisited, IInv, TableInv, TableType
<1>1. IsList(w)
  BY WalkIsList DEF IInv, TableInv
<1>2. /\ view.entries = [i \in 1 .. nNumOfElements |-> ElementAt(w[i])]
      /\ view.cursor = Position(w, pInternalPointer)
      /\ view.applyPos = Position(w, applyNext)
      /\ view.pending = [i \in 1 .. Len(pending) |-> LoadOf(pending[i])]
  BY Zenon DEF MappingOf, LoadOf
<1>3. At(nNumOfElements, w, pInternalPointer, view.cursor) /\ At(nNumOfElements, w, applyNext, view.applyPos)
  BY <1>1, <1>2, PositionIs DEF IInv, TableInv, CursorOK, WalkOK
<1>4. /\ view.entries \in Seq(Elem) /\ Len(view.entries) = nNumOfElements
      /\ \A i \in 1 .. nNumOfElements : view.entries[i] = ElementOf(w[i])
  <2>1. \A i \in 1 .. nNumOfElements : ElementOf(w[i]) \in Elem /\ ElementOf(w[i]) = ElementAt(w[i])
    BY <1>1, ElementType DEF IsList
  <2>2. nNumOfElements \in Nat
    BY <1>1 DEF IsList
  <2> QED BY <1>2, <2>1, <2>2
<1>5. /\ view.pending \in Seq(Load) /\ Len(view.pending) = Len(pending)
      /\ \A i \in 1 .. Len(pending) : view.pending[i] = LoadOf(pending[i])
  <2>1. pending \in Seq([id : AllIds, val : Value])
    BY DEF IInv, CallerType
  <2>2. \A i \in 1 .. Len(pending) : pending[i].id \in AllIds /\ pending[i].val \in Value
    <3>1. PICK E : E = [id : AllIds, val : Value]
      OBVIOUS
    <3>2. pending \in Seq(E)
      BY <2>1, <3>1, Zenon
    <3>3. \A i \in 1 .. Len(pending) : pending[i] \in E
      BY <3>2
    <3>4. \A e \in E : e.id \in AllIds /\ e.val \in Value
      BY <3>1
    <3> QED BY <3>3, <3>4
  <2>3. \A i \in 1 .. Len(pending) : LoadOf(pending[i]) \in Load
    BY <2>2, KeyOfId DEF LoadOf, Load
  <2>4. Len(pending) \in Nat
    BY <2>1
  <2> QED BY <1>2, <2>3, <2>4
<1> QED BY <1>3, <1>4, <1>5 DEF Shown

\* The view shows the list, whichever way that is walked.
Views == \A w \in Walks : Shown(w)

\* A pointer is at one position.
LEMMA AtOnce ==
  ASSUME NEW w, IsList(w), NEW p, NEW j, NEW k, At(nNumOfElements, w, p, j), At(nNumOfElements, w, p, k)
  PROVE  j = k
BY DEF IsList, At

\* Sequences with the same elements are the same.
LEMMA SameSeq ==
  ASSUME NEW S, NEW s \in Seq(S), NEW t \in Seq(S), Len(s) = Len(t),
         \A i \in 1 .. Len(s) : s[i] = t[i]
  PROVE  s = t
OBVIOUS

\* There always is a list, linked both ways.
LEMMA ThereIsAWalk ==
  ASSUME IInv
  PROVE  \E w \in Walks : BackLinks(w) /\ IsList(w)
BY WalkIsList DEF IInv, TableInv, ListInv

\* What is left alone is seen as before.
LEMMA PendingKept ==
  ASSUME NEW w, NEW v, Shown(w), Shown(v)', pending' = pending
  PROVE  view.pending' = view.pending
<1>1. /\ view.pending \in Seq(Load) /\ view'.pending \in Seq(Load)
      /\ Len(view.pending) = Len(view'.pending)
      /\ \A i \in 1 .. Len(view.pending) : view.pending[i] = view'.pending[i]
  BY DEF Shown, LoadOf, AbstractKey
<1> QED BY <1>1, SameSeq

\* What does not touch the buckets leaves the list as it is.
LEMMA SameWalk ==
  ASSUME NEW w \in Walks, UNCHANGED <<bucket, listVars, nNumOfElements>>
  PROVE  w \in Walks' /\ (BackLinks(w) => BackLinks(w)')
BY DEF Walks, IsWalk, BackLinks, listVars, Allocated

SameView ==
  /\ view.entries' = view.entries
  /\ pInternalPointer' = pInternalPointer => view.cursor' = view.cursor
  /\ applyNext' = applyNext => view.applyPos' = view.applyPos
  /\ pending' = pending => view.pending' = view.pending

\* Nor does it change the view.
LEMMA ViewKept ==
  ASSUME IInv, Views, Views', UNCHANGED <<bucket, listVars, nNumOfElements>>
  PROVE  SameView
<1>1. PICK w \in Walks : IsList(w) /\ Shown(w) /\ Shown(w)'
  BY ThereIsAWalk, SameWalk DEF Views
<1>2. /\ view.entries \in Seq(Elem) /\ Len(view.entries) = nNumOfElements
      /\ \A i \in 1 .. nNumOfElements : view.entries[i] = ElementOf(w[i])
  BY <1>1 DEF Shown
<1>3. /\ view'.entries \in Seq(Elem) /\ Len(view'.entries) = nNumOfElements
      /\ \A i \in 1 .. nNumOfElements : view'.entries[i] = ElementOf(w[i])
  BY <1>1 DEF Shown, ElementOf, AbstractKey, Id
<1>4. view'.entries = view.entries
  BY <1>2, <1>3, SameSeq
<1>5. ASSUME pInternalPointer' = pInternalPointer PROVE view.cursor' = view.cursor
  <2>1. At(nNumOfElements, w, pInternalPointer, view.cursor)
    BY <1>1 DEF Shown
  <2>2. At(nNumOfElements, w, pInternalPointer, view'.cursor)
    BY <1>1, <1>5 DEF Shown, At
  <2> QED BY <1>1, <2>1, <2>2, AtOnce
<1>6. ASSUME applyNext' = applyNext PROVE view.applyPos' = view.applyPos
  <2>1. At(nNumOfElements, w, applyNext, view.applyPos)
    BY <1>1 DEF Shown
  <2>2. At(nNumOfElements, w, applyNext, view'.applyPos)
    BY <1>1, <1>6 DEF Shown, At
  <2> QED BY <1>1, <2>1, <2>2, AtOnce
<1> QED BY <1>1, <1>4, <1>5, <1>6, PendingKept DEF SameView

\* The entry with a key.
LEMMA KeyAt ==
  ASSUME IInv, NEW w, IsList(w), Shown(w), NEW id \in AllIds, NEW i \in 1 .. nNumOfElements
  PROVE  (view.entries[i].key = AbstractKey(id)) <=> (Id(w[i]) = id)
<1>1. w[i] \in Allocated /\ view.entries[i] = ElementOf(w[i])
  BY DEF IsList, Shown
<1>2. Id(w[i]) \in AllIds
  BY <1>1, EntryType
<1>3. view.entries[i].key = AbstractKey(Id(w[i]))
  BY <1>1 DEF ElementOf
<1> QED BY <1>2, <1>3, KeysDiffer

\* A lookup finds what the dictionary has.
LEMMA HasKey ==
  ASSUME IInv, NEW w, IsList(w), Shown(w), NEW id \in AllIds
  PROVE  /\ Found(id) = {} => ~Map!Has(AbstractKey(id))
         /\ Found(id) # {} => Map!Has(AbstractKey(id))
         /\ \A b \in Found(id) : \E i \in Map!Positions(AbstractKey(id)) :
              i \in 1 .. nNumOfElements /\ w[i] = b
<1> DEFINE k == AbstractKey(id)
<1>1. \A i : i \in Map!Positions(k) <=> i \in 1 .. nNumOfElements /\ Id(w[i]) = id
  BY KeyAt DEF Map!Positions, Shown
<1>2. ASSUME NEW b \in Found(id)
      PROVE  \E i \in Map!Positions(k) : i \in 1 .. nNumOfElements /\ w[i] = b
  <2>1. b \in Allocated /\ Id(b) = id
    BY FoundMatches
  <2> QED BY <1>1, <2>1 DEF IsList
<1>3. ASSUME Found(id) = {} PROVE ~Map!Has(k)
  <2>1. \A b \in Allocated : Id(b) # id
    BY <1>3, NotFoundIsNew DEF IInv, TableInv
  <2> QED BY <1>1, <2>1 DEF Map!Has, IsList
<1>4. Found(id) # {} => Map!Has(k)
  BY <1>2 DEF Map!Has
<1> QED BY <1>2, <1>3, <1>4

\* Reading an entry gives what the bucket holds, through a reference too.
LEMMA ReadIs ==
  ASSUME NEW w, IsList(w), Shown(w), NEW i \in 1 .. nNumOfElements
  PROVE  Map!Read(i) = Data(w[i])
<1>1. view.entries[i] = ElementOf(w[i])
  BY DEF Shown
<1> QED BY <1>1 DEF Map!Read, Data, ElementOf

-----------------------------------------------------------------------------
(* Calls that only read, or move the cursor *)

\* A refused call changes nothing.
LEMMA RefuseRefines ==
  ASSUME IInv, Views, Views', RefuseEmptyKey
  PROVE  Map!Refuse
<1>1. SameView
  BY ViewKept DEF RefuseEmptyKey, structure
<1> QED BY <1>1 DEF RefuseEmptyKey, SameView, structure, loopVars, Returns, Idle, Map!Refuse, Map!loopVars,
                    Map!Fails

\* A lookup returns the entry of its key.
LEMMA FindRefines ==
  ASSUME IInv, Views, Views', NEW id \in Ids, Find(id)
  PROVE  Map!Lookup
<1>1. SameView
  BY ViewKept DEF Find, structure
<1>2. id \in AllIds
  BY IdTypes
<1>3. PICK w \in Walks : IsList(w) /\ Shown(w)
  BY ThereIsAWalk DEF Views
<1> DEFINE k == AbstractKey(id)
<1>4. k \in Keyed
  BY <1>2, KeyOfId
<1>5. \/ ~Map!Has(k) /\ ret' = "FAILURE"
      \/ \E i \in Map!Positions(k) : ret' = Map!Read(i)
  <2>1. CASE Found(id) = {}
    BY <2>1, <1>2, <1>3, HasKey DEF Find, Returns
  <2>2. CASE Found(id) # {}
    <3>1. PICK b : b \in Found(id) /\ ret' = Data(b)
      BY <2>2 DEF Find, Returns
    <3>2. PICK i \in Map!Positions(k) : i \in 1 .. nNumOfElements /\ w[i] = b
      BY <1>2, <1>3, <3>1, HasKey
    <3> QED BY <1>3, <3>1, <3>2, ReadIs
  <2> QED BY <2>1, <2>2
<1> HIDE DEF k
<1>6. /\ busy = "none"
      /\ UNCHANGED <<view.entries, view.cursor, nNextFreeElement, foreign, busy, view.applyPos, view.pending>>
  BY <1>1 DEF Find, SameView, structure, loopVars, Idle
<1> QED BY <1>4, <1>5, <1>6 DEF Map!Lookup, Map!loopVars, Keyed

\* The entry under the cursor is the one of pInternalPointer.
LEMMA CurrentRefines ==
  ASSUME IInv, Views, Views', CurrentData
  PROVE  Map!Current
<1>1. SameView
  BY ViewKept DEF CurrentData, structure
<1>2. PICK w \in Walks : IsList(w) /\ Shown(w)
  BY ThereIsAWalk DEF Views
<1>3. ret' = IF view.cursor = 0 THEN "FAILURE" ELSE Map!Read(view.cursor)
  <2>1. At(nNumOfElements, w, pInternalPointer, view.cursor)
    BY <1>2 DEF Shown
  <2>2. CASE pInternalPointer = NULL
    BY <2>1, <2>2 DEF At, CurrentData, Returns
  <2>3. CASE pInternalPointer # NULL
    <3>1. view.cursor \in 1 .. nNumOfElements /\ w[view.cursor] = pInternalPointer
      BY <1>2, <2>1, <2>3 DEF At, IsList
    <3> QED BY <1>2, <2>3, <3>1, ReadIs DEF CurrentData, Returns
  <2> QED BY <2>2, <2>3
<1>4. /\ busy = "none"
      /\ UNCHANGED <<view.entries, view.cursor, nNextFreeElement, foreign, busy, view.applyPos, view.pending>>
  BY <1>1 DEF CurrentData, SameView, structure, loopVars, Idle
<1> QED BY <1>3, <1>4 DEF Map!Current, Map!loopVars

\* The ends of the list, and its links, as positions.
LEMMA EndsAt ==
  ASSUME NEW w \in Walks, IsList(w), BackLinks(w)
  PROVE  /\ At(nNumOfElements, w, pListHead, IF nNumOfElements = 0 THEN 0 ELSE 1)
         /\ At(nNumOfElements, w, pListTail, nNumOfElements)
<1>1. /\ pListHead = IF nNumOfElements = 0 THEN NULL ELSE w[1]
      /\ pListTail = IF nNumOfElements = 0 THEN NULL ELSE w[nNumOfElements]
  BY DEF Walks, IsWalk, BackLinks
<1>2. nNumOfElements # 0 => w[1] # NULL /\ w[nNumOfElements] # NULL
  BY DEF IsList
<1> QED BY <1>1, <1>2 DEF At, IsList

LEMMA LinksAt ==
  ASSUME NEW w \in Walks, IsList(w), BackLinks(w), NEW p, NEW k, At(nNumOfElements, w, p, k), p # NULL
  PROVE  /\ k \in 1 .. nNumOfElements /\ w[k] = p
         /\ At(nNumOfElements, w, pListNext[p], IF k = nNumOfElements THEN 0 ELSE k + 1)
         /\ At(nNumOfElements, w, pListLast[p], k - 1)
<1>1. k \in 1 .. nNumOfElements /\ w[k] = p /\ nNumOfElements \in Nat
  BY DEF At, IsList
<1>2. pListNext[w[k]] = IF k = nNumOfElements THEN NULL ELSE w[k + 1]
  BY <1>1 DEF Walks, IsWalk
<1>3. pListLast[w[k]] = IF k = 1 THEN NULL ELSE w[k - 1]
  BY <1>1 DEF IsList, BackLinks
<1>4. \A i \in 1 .. nNumOfElements : w[i] # NULL
  BY DEF IsList
<1> QED BY <1>1, <1>2, <1>3, <1>4 DEF At

\* What the cursor is at behind a move.
LEMMA Moves ==
  ASSUME IInv, Views, Views', NEW q, MovePointer(q), NEW w \in Walks, NEW k, At(nNumOfElements, w, q, k)
  PROVE  /\ view.cursor' = k
         /\ busy = "none"
         /\ UNCHANGED <<view.entries, nNextFreeElement, foreign, ret, busy, view.applyPos, view.pending>>
<1>1. SameView
  BY ViewKept DEF MovePointer
<1>2. IsList(w) /\ Shown(w)'
  BY SameWalk, WalkIsList DEF MovePointer, Views, IInv, TableInv
<1>3. At(nNumOfElements, w, q, view'.cursor)
  BY <1>2 DEF MovePointer, Shown, At
<1>4. view'.cursor = k
  BY <1>2, <1>3, AtOnce
<1> QED BY <1>1, <1>4 DEF MovePointer, SameView, loopVars, Idle

\* reset(), end(), next() and prev() move the cursor as in the dictionary.
LEMMA MoveRefines ==
  ASSUME IInv, Views, Views', PointerReset \/ PointerEnd \/ MoveForward \/ MoveBackwards
  PROVE  Map!Move
<1>1. PICK w \in Walks : BackLinks(w) /\ IsList(w) /\ Shown(w)
  BY ThereIsAWalk DEF Views
<1> DEFINE n == nNumOfElements
<1>2. n \in Nat /\ Len(view.entries) = n /\ view.entries \in Seq(Elem)
  BY <1>1 DEF IsList, Shown
<1>3. view.entries = <<>> <=> n = 0
  BY <1>2
<1> DEFINE Rest == /\ busy = "none"
                   /\ UNCHANGED <<view.entries, nNextFreeElement, foreign, ret, busy, view.applyPos, view.pending>>
<1>4. CASE PointerReset
  <2>1. MovePointer(pListHead) /\ At(nNumOfElements, w, pListHead, IF n = 0 THEN 0 ELSE 1)
    BY <1>1, <1>4, EndsAt DEF PointerReset
  <2>2. view.cursor' = (IF n = 0 THEN 0 ELSE 1) /\ Rest
    BY <1>1, <2>1, Moves
  <2>3. view.cursor' = IF view.entries = <<>> THEN 0 ELSE 1
    BY <1>3, <2>2
  <2> QED BY <2>2, <2>3 DEF Map!Move, Map!loopVars
<1>5. CASE PointerEnd
  <2>1. MovePointer(pListTail) /\ At(nNumOfElements, w, pListTail, n)
    BY <1>1, <1>5, EndsAt DEF PointerEnd
  <2>2. view.cursor' = n /\ Rest
    BY <1>1, <2>1, Moves
  <2>3. view.cursor' = Len(view.entries)
    BY <1>2, <2>2
  <2> QED BY <2>2, <2>3 DEF Map!Move, Map!loopVars
<1>6. At(nNumOfElements, w, pInternalPointer, view.cursor)
  BY <1>1 DEF Shown
<1>7. CASE MoveForward
  <2>1. MovePointer(pListNext[pInternalPointer]) /\ pInternalPointer # NULL
    BY <1>7 DEF MoveForward
  <2>2. /\ At(nNumOfElements, w, pListNext[pInternalPointer], IF view.cursor = n THEN 0 ELSE view.cursor + 1)
        /\ view.cursor \in 1 .. n
    BY <1>1, <1>6, <2>1, LinksAt
  <2>3. view.cursor' = (IF view.cursor = n THEN 0 ELSE view.cursor + 1) /\ Rest
    BY <1>1, <2>1, <2>2, Moves
  <2>4. view.cursor # 0 /\ view.cursor' = IF view.cursor = Len(view.entries) THEN 0 ELSE view.cursor + 1
    BY <1>2, <2>2, <2>3
  <2> QED BY <2>3, <2>4 DEF Map!Move, Map!loopVars
<1>8. CASE MoveBackwards
  <2>1. MovePointer(pListLast[pInternalPointer]) /\ pInternalPointer # NULL
    BY <1>8 DEF MoveBackwards
  <2>2. At(nNumOfElements, w, pListLast[pInternalPointer], view.cursor - 1) /\ view.cursor \in 1 .. n
    BY <1>1, <1>6, <2>1, LinksAt
  <2>3. view.cursor' = view.cursor - 1 /\ Rest
    BY <1>1, <2>1, <2>2, Moves
  <2>4. view.cursor # 0
    BY <1>2, <2>2
  <2> QED BY <2>3, <2>4 DEF Map!Move, Map!loopVars
<1> QED BY <1>4, <1>5, <1>7, <1>8

-----------------------------------------------------------------------------
(* Walks with a callback *)

\* A walk starts at the first entry ...
LEMMA ApplyStartRefines ==
  ASSUME IInv, Views, Views', ApplyStart
  PROVE  Map!WalkStart
<1>1. SameView
  BY ViewKept DEF ApplyStart, structure
<1>2. PICK w \in Walks : BackLinks(w) /\ IsList(w) /\ Shown(w) /\ Shown(w)'
  BY ThereIsAWalk, SameWalk DEF Views, ApplyStart, structure
<1>3. nNumOfElements \in Nat /\ Len(view.entries) = nNumOfElements /\ view.entries \in Seq(Elem)
  BY <1>2 DEF IsList, Shown
<1>4. view'.applyPos = IF nNumOfElements = 0 THEN 0 ELSE 1
  <2>1. At(nNumOfElements, w, pListHead, view'.applyPos)
    BY <1>2 DEF ApplyStart, structure, Shown, At
  <2> QED BY <1>2, <2>1, EndsAt, AtOnce
<1>5. view.applyPos' = Map!First(view.entries)
  BY <1>3, <1>4 DEF Map!First
<1> QED BY <1>1, <1>5 DEF Map!WalkStart, ApplyStart, SameView, structure, Idle

\* ... goes on to the next ...
LEMMA ApplyKeepRefines ==
  ASSUME IInv, Views, Views', ApplyKeep
  PROVE  Map!WalkStep
<1>1. SameView
  BY ViewKept DEF ApplyKeep, structure
<1>2. PICK w \in Walks : BackLinks(w) /\ IsList(w) /\ Shown(w) /\ Shown(w)'
  BY ThereIsAWalk, SameWalk DEF Views, ApplyKeep, structure
<1>3. At(nNumOfElements, w, applyNext, view.applyPos) /\ Len(view.entries) = nNumOfElements
  BY <1>2 DEF Shown
<1>4. /\ view.applyPos \in 1 .. nNumOfElements
      /\ At(nNumOfElements, w, pListNext[applyNext], IF view.applyPos = nNumOfElements THEN 0 ELSE view.applyPos + 1)
  BY <1>2, <1>3, LinksAt DEF ApplyKeep
<1>5. view'.applyPos = IF view.applyPos = nNumOfElements THEN 0 ELSE view.applyPos + 1
  <2>1. At(nNumOfElements, w, pListNext[applyNext], view'.applyPos)
    BY <1>2 DEF ApplyKeep, structure, Shown, At
  <2> QED BY <1>2, <1>4, <2>1, AtOnce
<1>6. view.applyPos' = (IF view.applyPos = Len(view.entries) THEN 0 ELSE view.applyPos + 1)
      /\ view.applyPos # 0
  BY <1>2, <1>3, <1>4, <1>5
<1> QED BY <1>1, <1>6 DEF Map!WalkStep, ApplyKeep, SameView, structure

\* ... and ends off the last one.
LEMMA ApplyEndRefines ==
  ASSUME IInv, Views, Views', ApplyEnd
  PROVE  Map!WalkEnd
<1>1. SameView
  BY ViewKept DEF ApplyEnd, structure
<1>2. PICK w \in Walks : Shown(w)
  BY ThereIsAWalk DEF Views
<1>3. view.applyPos = 0
  BY <1>2 DEF ApplyEnd, Shown, At
<1> QED BY <1>1, <1>3 DEF Map!WalkEnd, ApplyEnd, SameView, structure

-----------------------------------------------------------------------------
(* Copies and merges *)

\* What is to be merged fits, and has keys of the dictionary.
LEMMA MergeStartRefines ==
  ASSUME IInv, Views, Views', NEW src \in MergeSources, MergeStart(src)
  PROVE  Map!MergeStart
<1>1. SameView
  BY ViewKept DEF MergeStart, structure
<1>2. PICK w \in Walks : Shown(w) /\ Shown(w)'
  BY ThereIsAWalk, SameWalk DEF Views, MergeStart, structure
<1>3. /\ Len(view.entries) = nNumOfElements /\ view'.pending \in Seq(Load)
      /\ Len(view'.pending) = Len(src)
  BY <1>2 DEF Shown, MergeStart
<1>4. \A i \in 1 .. Len(view'.pending) : view'.pending[i].key \in Keyed
  <2>1. PICK L : L = Load
    OBVIOUS
  <2>2. \A i \in 1 .. Len(view'.pending) : view'.pending[i] \in L
    BY <1>3, <2>1
  <2>3. \A e \in L : e.key \in Keyed
    BY <2>1 DEF Load
  <2> QED BY <2>2, <2>3
<1>5. Len(view.pending') + Len(view.entries) <= Cardinality(Bucket)
  <2>1. src \in Seq(Entry) /\ nNumOfElements \in Nat
    BY SourceAssumption DEF IInv, TableInv, TableType
  <2>2. Len(src) \in Nat
    BY <2>1
  <2> QED BY <1>3, <2>1, <2>2 DEF MergeStart
<1>6. \A i \in 1 .. Len(view.pending') : view.pending'[i].key \in {k \in StrKey : ~IsNumeric(k)} \cup Index
  BY <1>4 DEF Keyed
<1> QED BY <1>1, <1>5, <1>6 DEF Map!MergeStart, MergeStart, SameView, structure, Idle

\* A copy or a merge leaves the cursor on the first entry.
LEMMA LoadEndRefines ==
  ASSUME IInv, Views, Views', LoadEnd
  PROVE  Map!LoadEnd
<1>1. SameView
  BY ViewKept DEF LoadEnd
<1>2. PICK w \in Walks : BackLinks(w) /\ IsList(w) /\ Shown(w) /\ Shown(w)'
  BY ThereIsAWalk, SameWalk DEF Views, LoadEnd
<1>3. nNumOfElements \in Nat /\ Len(view.entries) = nNumOfElements /\ view.entries \in Seq(Elem)
  BY <1>2 DEF IsList, Shown
<1>4. view'.cursor = IF nNumOfElements = 0 THEN 0 ELSE 1
  <2>1. At(nNumOfElements, w, pListHead, view'.cursor)
    BY <1>2 DEF LoadEnd, Shown, At
  <2> QED BY <1>2, <2>1, EndsAt, AtOnce
<1>5. view.cursor' = Map!First(view.entries)
  BY <1>3, <1>4 DEF Map!First
<1>6. view.pending = <<>>
  BY <1>2 DEF Shown, LoadEnd
<1> QED BY <1>1, <1>5, <1>6 DEF Map!LoadEnd, LoadEnd, SameView

\* An emptied table is an empty dictionary.
LEMMA Empties ==
  ASSUME IInv', Views', NEW s, Emptied(s)
  PROVE  view.entries' = <<>> /\ view.cursor' = 0 /\ nNextFreeElement' = 0
<1>1. (\E w \in Walks : BackLinks(w) /\ IsList(w))'
  BY ThereIsAWalk, PTL
<1>2. PICK w : Shown(w)'
  BY <1>1 DEF Views
<1> QED BY <1>2 DEF Shown, At, Emptied

\* There is a list that the view shows, in the next state too.
LEMMA ShownNext ==
  ASSUME IInv', Views'
  PROVE  \E w : Shown(w)'
<1>1. (\E w \in Walks : BackLinks(w) /\ IsList(w))'
  BY ThereIsAWalk, PTL
<1> QED BY <1>1 DEF Views

\* A destroyed table is an empty dictionary.
LEMMA DestroyRefines ==
  ASSUME SafeInv, SafeInv', Views, Views', NEW nSize, Destroy(nSize)
  PROVE  Map!Clear
<1>1. /\ busy = "none" /\ ret' = "SUCCESS" /\ applyNext = NULL /\ applyNext' = NULL
      /\ UNCHANGED <<foreign, busy, pending>>
  BY DEF Destroy, SafeInv, WalkInv, loopVars, Idle, Returns
<1>2. view.entries' = <<>> /\ view.cursor' = 0 /\ nNextFreeElement' = 0
  BY Empties DEF Destroy, SafeInv
<1>3. PICK w \in Walks : Shown(w)
  BY ThereIsAWalk DEF Views, SafeInv
<1>4. IInv'
  BY DEF SafeInv
<1>5. PICK v : Shown(v)'
  BY <1>4, ShownNext, Zenon
<1>6. view.applyPos' = view.applyPos
  BY <1>1, <1>3, <1>5 DEF Shown, At
<1>7. view.pending' = view.pending
  BY <1>1, <1>3, <1>5, PendingKept
<1> QED BY <1>1, <1>2, <1>6, <1>7 DEF Map!Clear, Map!loopVars

\* A copy reads the entries of the original in order, references included.
LEMMA CopyStartRefines ==
  ASSUME SafeInv, SafeInv', Views, Views', CopyStart
  PROVE  Map!CopyStart
<1>1. PICK w \in Walks : pending' = [i \in 1 .. nNumOfElements |-> [id |-> Id(w[i]), val |-> Data(w[i])]]
  BY DEF CopyStart
<1>2. IsList(w) /\ Shown(w)
  BY <1>1, WalkIsList DEF Views, SafeInv, IInv, TableInv
<1>3. IInv'
  BY DEF SafeInv
<1>4. PICK v : Shown(v)'
  BY <1>3, ShownNext, Zenon
<1>5. busy = "none" /\ busy' = "copy" /\ applyNext = NULL /\ applyNext' = NULL /\ UNCHANGED <<foreign, ret>>
  BY DEF CopyStart, SafeInv, WalkInv, Idle
<1>6. view.entries' = <<>> /\ view.cursor' = 0 /\ nNextFreeElement' = 0
  BY Empties DEF CopyStart, SafeInv
<1>7. view.applyPos' = view.applyPos
  BY <1>2, <1>4, <1>5 DEF Shown, At
<1>8. view.pending' = [i \in 1 .. Len(view.entries) |-> [key |-> view.entries[i].key, val |-> Map!Read(i)]]
  <2>1. nNumOfElements \in Nat /\ Len(view.entries) = nNumOfElements
    BY <1>2 DEF IsList, Shown
  <2>2. Len(pending') = nNumOfElements
    BY <1>1, <2>1
  <2>3. /\ view'.pending \in Seq(Load) /\ Len(view'.pending) = nNumOfElements
        /\ \A i \in 1 .. nNumOfElements : view'.pending[i] = [key |-> AbstractKey(pending'[i].id),
                                                             val |-> pending'[i].val]
    BY <1>4, <2>2 DEF Shown, LoadOf, AbstractKey
  <2>4. ASSUME NEW i \in 1 .. nNumOfElements
        PROVE  view'.pending[i] = [key |-> view.entries[i].key, val |-> Map!Read(i)]
    <3>4. PICK f : f = [j \in 1 .. nNumOfElements |-> [id |-> Id(w[j]), val |-> Data(w[j])]]
      OBVIOUS
    <3>5. f[i] = [id |-> Id(w[i]), val |-> Data(w[i])]
      BY <3>4, Zenon
    <3>1. pending'[i] = [id |-> Id(w[i]), val |-> Data(w[i])]
      BY <1>1, <3>4, <3>5, Zenon
    <3>6. view.entries[i] = ElementOf(w[i])
      BY <1>2 DEF Shown
    <3>2. view.entries[i].key = AbstractKey(Id(w[i]))
      BY <3>6 DEF ElementOf
    <3>3. Map!Read(i) = Data(w[i])
      BY <1>2, ReadIs
    <3> QED BY <2>3, <3>1, <3>2, <3>3
  <2>5. PICK s : s = view'.pending
    OBVIOUS
  <2>6. s = [i \in 1 .. nNumOfElements |-> s[i]]
    BY <2>1, <2>3, <2>5
  <2> QED BY <2>1, <2>4, <2>5, <2>6
<1> QED BY <1>5, <1>6, <1>7, <1>8 DEF Map!CopyStart

-----------------------------------------------------------------------------
(* Insertions *)

\* A new bucket is the last entry.
LEMMA NewEntry ==
  ASSUME IInv, WalkOK, Views, Views', NEW id \in AllIds, NEW p \in Bucket \ Allocated,
         NEW isPtr \in BOOLEAN, NEW d \in Value \cup Foreign, NewBucket(p, id, d, isPtr)
  PROVE  /\ Map!Add([key |-> AbstractKey(id), data |-> d, ref |-> isPtr])
         /\ applyNext' = applyNext => view.applyPos' = view.applyPos
         /\ pending' = pending => view.pending' = view.pending
<1> DEFINE e == [key |-> AbstractKey(id), data |-> d, ref |-> isPtr]
           E == view.entries
<1>1. PICK w \in Walks : BackLinks(w) /\ IsList(w) /\ Shown(w)
  BY ThereIsAWalk DEF Views
<1>22. PICK n \in Nat : n = nNumOfElements
  BY <1>1 DEF IsList
<1>2. n \in Nat /\ n = nNumOfElements /\ NULL \notin Allocated /\ p # NULL /\ p \notin Allocated
  BY <1>1, <1>22, BucketAssumption DEF IsList
<1>3. /\ bucket' = [b \in Allocated \cup {p} |->
                      IF b = p THEN [arKey |-> id[1], h |-> id[2], pData |-> d, bIsPointer |-> isPtr]
                               ELSE bucket[b]]
      /\ LinkAtTail(p)
  BY DEF NewBucket
<1>4. Allocated' = Allocated \cup {p}
  BY <1>3 DEF Allocated
<1>5. PICK v : v = [i \in 1 .. n + 1 |-> IF i = n + 1 THEN p ELSE w[i]]
  OBVIOUS
<1>6. v \in Walks' /\ Shown(v)'
  <2>1. v \in Walks'
    BY <1>1, <1>2, <1>3, <1>4, <1>5, TailList
  <2> QED BY <2>1 DEF Views
<1>7. nNumOfElements' = n + 1
  BY <1>2, <1>3 DEF LinkAtTail
<1>8. \A i \in 1 .. n : v[i] = w[i] /\ w[i] \in Allocated
  BY <1>1, <1>2, <1>5 DEF IsList
<1>9. v[n + 1] = p
  BY <1>2, <1>5
<1>10. /\ E \in Seq(Elem) /\ Len(E) = n
       /\ \A i \in 1 .. n : E[i] = ElementOf(w[i])
  BY <1>1, <1>2 DEF Shown
<1>11. /\ view'.entries \in Seq(Elem) /\ Len(view'.entries) = n + 1
       /\ \A i \in 1 .. n + 1 : view'.entries[i] = ElementOf(v[i])'
  BY <1>6, <1>7 DEF Shown
<1>12. \A i \in 1 .. n : ElementOf(v[i])' = ElementOf(w[i])
  BY <1>3, <1>8 DEF ElementOf, AbstractKey, Id, Allocated
<1>13. ElementOf(v[n + 1])' = e
  <2>1. /\ bucket'[p].arKey = id[1] /\ bucket'[p].h = id[2]
        /\ bucket'[p].pData = d /\ bucket'[p].bIsPointer = isPtr
    BY <1>3
  <2> QED BY <1>9, <2>1 DEF ElementOf, AbstractKey, Id
<1>14. e \in Elem
  BY KeyOfId DEF Elem
<1>15. view'.entries = Append(E, e)
  <2> HIDE DEF e, E
  <2>1. \A i \in 1 .. n : view'.entries[i] = E[i]
    BY <1>2, <1>10, <1>11, <1>12
  <2>2. view'.entries[n + 1] = e
    BY <1>2, <1>11, <1>13
  <2>3. /\ Append(E, e) \in Seq(Elem) /\ Len(Append(E, e)) = n + 1 /\ Append(E, e)[n + 1] = e
        /\ \A i \in 1 .. n : Append(E, e)[i] = E[i]
    BY <1>2, <1>10, <1>14
  <2>4. \A i \in 1 .. n + 1 : view'.entries[i] = Append(E, e)[i]
    BY <1>2, <2>1, <2>2, <2>3
  <2> QED BY <1>11, <2>3, <2>4, SameSeq
<1>16. ASSUME NEW q \in Allocated \cup {NULL}, NEW k, NEW j, At(n, w, q, k), At(n + 1, v, q, j)
       PROVE  j = k
  <2>1. k \in 0 .. n /\ j \in 0 .. n + 1
    BY <1>7, <1>16 DEF At
  <2>2. q = NULL => k = 0 /\ j = 0
    BY <1>16 DEF At
  <2>3. q # NULL => k # 0 /\ w[k] = q /\ j # 0 /\ v[j] = q
    BY <1>16 DEF At
  <2>4. q # NULL => j # n + 1
    BY <1>2, <1>9, <1>16, <2>3
  <2>5. \A x, y \in 1 .. n : w[x] = w[y] => x = y
    BY <1>1, <1>2 DEF IsList
  <2>6. CASE q = NULL
    BY <2>2, <2>6
  <2>7. CASE q # NULL
    <3>1. k \in 1 .. n /\ j \in 1 .. n
      BY <1>2, <2>1, <2>3, <2>4, <2>7
    <3>2. w[k] = q /\ w[j] = q
      BY <1>8, <2>3, <2>7, <3>1
    <3> QED BY <2>5, <3>1, <3>2
  <2> QED BY <2>6, <2>7
<1>17. n < Cardinality(Bucket)
  <2>1. Cardinality(Allocated) = n
    BY <1>1, <1>2, WalkCounts
  <2>2. IsFiniteSet(Bucket) /\ Allocated \subseteq Bucket /\ p \in Bucket /\ p \notin Allocated
    BY BucketAssumption DEF IInv, TableInv, TableType
  <2>3. Allocated # Bucket
    BY <2>2
  <2> QED BY <2>1, <2>2, <2>3, FS_Subset, FS_CardinalityType
<1>18. view'.cursor = IF view.cursor = 0 THEN n + 1 ELSE view.cursor
  <2>1. At(n, w, pInternalPointer, view.cursor) /\ At(n + 1, v, pInternalPointer', view'.cursor)
    BY <1>1, <1>2, <1>6, <1>7 DEF Shown, At
  <2>2. CASE pInternalPointer = NULL
    <3>1. pInternalPointer' = p /\ view.cursor = 0
      BY <1>3, <2>1, <2>2 DEF LinkAtTail, At
    <3>2. view'.cursor \in 1 .. n + 1 /\ v[view'.cursor] = p
      BY <1>2, <1>7, <2>1, <3>1 DEF At
    <3>3. \A i \in 1 .. n : v[i] # p
      BY <1>2, <1>8
    <3> QED BY <1>2, <3>1, <3>2, <3>3
  <2>3. CASE pInternalPointer # NULL
    <3>1. pInternalPointer' = pInternalPointer /\ view.cursor # 0
      BY <1>3, <2>1, <2>3 DEF LinkAtTail, At
    <3>2. pInternalPointer \in Allocated \cup {NULL}
      BY DEF IInv, TableInv, CursorOK
    <3>3. view'.cursor = view.cursor
      BY <1>16, <2>1, <3>1, <3>2
    <3> QED BY <3>1, <3>3
  <2> QED BY <2>2, <2>3
<1>19. ASSUME applyNext' = applyNext PROVE view.applyPos' = view.applyPos
  <2>1. At(n, w, applyNext, view.applyPos) /\ At(n + 1, v, applyNext, view'.applyPos)
    BY <1>1, <1>2, <1>6, <1>7, <1>19 DEF Shown, At
  <2> QED BY <1>16, <2>1 DEF WalkOK
<1>20. pending' = pending => view.pending' = view.pending
  BY <1>1, <1>6, PendingKept
<1>21. Map!Add(e)
  <2> HIDE DEF e
  <2> QED BY <1>10, <1>15, <1>17, <1>18 DEF Map!Add
<1> QED BY <1>19, <1>20, <1>21

\* The next free index is the same number in both.
LEMMA BumpAdvances ==
  ASSUME NEW id \in AllIds, BumpNextFree(id)
  PROVE  Map!Advance(AbstractKey(id))
BY KeyOfId DEF BumpNextFree, Map!Advance

\* Buckets that stay where they are keep their positions.
PlacesSame ==
  /\ pInternalPointer' = pInternalPointer => view.cursor' = view.cursor
  /\ applyNext' = applyNext => view.applyPos' = view.applyPos
  /\ pending' = pending => view.pending' = view.pending

LEMMA PlacesKept ==
  ASSUME IInv, Views, Views', Allocated' = Allocated, UNCHANGED <<listVars, nNumOfElements>>,
         NEW w \in Walks
  PROVE  PlacesSame /\ Shown(w)'
<1>1. w \in Walks'
  BY DEF Walks, IsWalk, listVars
<1>2. IsList(w) /\ Shown(w) /\ Shown(w)'
  BY <1>1, WalkIsList DEF Views, IInv, TableInv
<1>5. ASSUME pInternalPointer' = pInternalPointer PROVE view.cursor' = view.cursor
  <2>1. At(nNumOfElements, w, pInternalPointer, view.cursor)
    BY <1>2 DEF Shown
  <2>2. At(nNumOfElements, w, pInternalPointer, view'.cursor)
    BY <1>2, <1>5 DEF Shown, At
  <2> QED BY <1>2, <2>1, <2>2, AtOnce
<1>6. ASSUME applyNext' = applyNext PROVE view.applyPos' = view.applyPos
  <2>1. At(nNumOfElements, w, applyNext, view.applyPos)
    BY <1>2 DEF Shown
  <2>2. At(nNumOfElements, w, applyNext, view'.applyPos)
    BY <1>2, <1>6 DEF Shown, At
  <2> QED BY <1>2, <2>1, <2>2, AtOnce
<1> QED BY <1>2, <1>5, <1>6, PendingKept DEF PlacesSame

\* A bucket left alone is the same entry.
LEMMA SameElement ==
  ASSUME NEW b, bucket'[b] = bucket[b]
  PROVE  ElementOf(b)' = ElementOf(b)
BY DEF ElementOf, Id, AbstractKey

\* New data in a bucket are new data in its entry.
LEMMA EntryChanged ==
  ASSUME IInv, Views, Views', NEW b \in Allocated, NEW d, NEW r,
         bucket' = [bucket EXCEPT ![b].pData = d, ![b].bIsPointer = r],
         UNCHANGED <<listVars, nNumOfElements>>,
         NEW w \in Walks, IsList(w), Shown(w), NEW i \in 1 .. nNumOfElements, w[i] = b
  PROVE  /\ view.entries' = [view.entries EXCEPT ![i].data = d, ![i].ref = r]
         /\ PlacesSame
<1>1. Allocated' = Allocated
  BY DEF Allocated
<1>2. PlacesSame /\ Shown(w)'
  BY <1>1, PlacesKept
<1>3. PICK n \in Nat : n = nNumOfElements
  BY DEF IsList
<1>4. /\ view.entries \in Seq(Elem) /\ Len(view.entries) = n
      /\ \A j \in 1 .. n : view.entries[j] = ElementOf(w[j])
  BY <1>3 DEF Shown
<1>5. /\ view'.entries \in Seq(Elem) /\ Len(view'.entries) = n
      /\ \A j \in 1 .. n : view'.entries[j] = ElementOf(w[j])'
  BY <1>2, <1>3 DEF Shown
<1>6. PICK t : t = [view.entries EXCEPT ![i].data = d, ![i].ref = r]
  OBVIOUS
<1>7. bucket[b] \in [arKey : StrKey \cup {NULL}, h : Index,
                     pData : Value \cup Foreign, bIsPointer : BOOLEAN]
  BY DEF IInv, TableInv, TableType
<1>8. ASSUME NEW j \in 1 .. n, j # i PROVE view'.entries[j] = t[j]
  <2>1. w[j] # b /\ w[j] \in Allocated
    BY <1>3, <1>8 DEF IsList
  <2>2. bucket'[w[j]] = bucket[w[j]]
    BY <2>1 DEF Allocated
  <2>3. ElementOf(w[j])' = ElementOf(w[j])
    BY <2>2, SameElement
  <2>4. t[j] = view.entries[j]
    BY <1>4, <1>6, <1>8
  <2> QED BY <1>4, <1>5, <2>3, <2>4
<1>9. view'.entries[i] = t[i]
  <2>1. /\ bucket'[b].arKey = bucket[b].arKey /\ bucket'[b].h = bucket[b].h
        /\ bucket'[b].pData = d /\ bucket'[b].bIsPointer = r
    BY <1>7 DEF Allocated
  <2>2. ElementOf(w[i])' = [key |-> AbstractKey(Id(b)), data |-> d, ref |-> r]
    BY <2>1 DEF ElementOf, Id, AbstractKey
  <2>3. view.entries[i] = ElementOf(b)
    BY <1>3, <1>4
  <2>4. t[i] = [view.entries[i] EXCEPT !.data = d, !.ref = r]
    <3>1. i \in DOMAIN view.entries
      BY <1>3, <1>4
    <3> QED BY <1>6, <3>1
  <2>5. [ElementOf(b) EXCEPT !.data = d, !.ref = r] = [key |-> AbstractKey(Id(b)), data |-> d, ref |-> r]
    <3>1. PICK o : o = ElementOf(b)
      OBVIOUS
    <3>2. PICK c : c = [o EXCEPT !.data = d, !.ref = r]
      OBVIOUS
    <3>3. o = [key |-> AbstractKey(Id(b)), data |-> bucket[b].pData, ref |-> bucket[b].bIsPointer]
      BY <3>1 DEF ElementOf
    <3>4. c.key = AbstractKey(Id(b)) /\ c.data = d /\ c.ref = r
      BY <3>2, <3>3
    <3>5. DOMAIN c = {"key", "data", "ref"} /\ c = [f \in DOMAIN c |-> c[f]]
      BY <3>2, <3>3
    <3>6. c = [key |-> AbstractKey(Id(b)), data |-> d, ref |-> r]
      BY <3>4, <3>5
    <3> QED BY <3>1, <3>2, <3>6
  <2> QED BY <1>3, <1>5, <2>2, <2>3, <2>4, <2>5
<1>10. /\ view'.entries = [j \in 1 .. n |-> view'.entries[j]]
       /\ t = [j \in 1 .. n |-> t[j]]
  <2>1. view'.entries = [j \in 1 .. n |-> view'.entries[j]]
    <3>1. PICK v \in Seq(Elem) : v = view'.entries /\ Len(v) = n
      BY <1>5
    <3>2. v = [j \in 1 .. Len(v) |-> v[j]]
      OBVIOUS
    <3> QED BY <3>1, <3>2, Zenon
  <2>2. DOMAIN view.entries = 1 .. n
    BY <1>4
  <2>3. t = [j \in 1 .. n |-> t[j]]
    BY <1>6, <2>2
  <2> QED BY <2>1, <2>3
<1>11. view'.entries = t
  BY <1>8, <1>9, <1>10
<1> QED BY <1>2, <1>6, <1>11

-----------------------------------------------------------------------------

\* New data in a bucket go where the dictionary puts them, through a reference too.
LEMMA OverwriteEntry ==
  ASSUME IInv, Views, Views', NEW b \in Allocated, NEW v \in Value, Overwrite(b, v),
         UNCHANGED <<listVars, pInternalPointer, nNumOfElements>>,
         NEW w \in Walks, IsList(w), Shown(w), NEW i \in 1 .. nNumOfElements, w[i] = b
  PROVE  /\ IF view.entries[i].ref
            THEN foreign' = [foreign EXCEPT ![view.entries[i].data] = v] /\ view.entries' = view.entries
            ELSE view.entries' = [view.entries EXCEPT ![i].data = v] /\ foreign' = foreign
         /\ PlacesSame
<1>1. view.entries[i].ref = bucket[b].bIsPointer /\ view.entries[i].data = bucket[b].pData
  <2>1. view.entries[i] = ElementOf(b)
    BY DEF Shown
  <2> QED BY <2>1 DEF ElementOf
<1>2. CASE bucket[b].bIsPointer
  <2>1. foreign' = [foreign EXCEPT ![bucket[b].pData] = v] /\ bucket' = bucket
    BY <1>2 DEF Overwrite
  <2>2. SameView
    BY <2>1, ViewKept
  <2> QED BY <1>1, <1>2, <2>1, <2>2 DEF SameView, PlacesSame
<1>3. CASE ~bucket[b].bIsPointer
  <2>1. bucket' = [bucket EXCEPT ![b].pData = v] /\ foreign' = foreign
    BY <1>3 DEF Overwrite
  <2>2. bucket' = [bucket EXCEPT ![b].pData = v, ![b].bIsPointer = bucket[b].bIsPointer]
    <3>1. bucket[b] = [arKey |-> bucket[b].arKey, h |-> bucket[b].h, pData |-> bucket[b].pData,
                       bIsPointer |-> bucket[b].bIsPointer]
      BY DEF IInv, TableInv, TableType
    <3> QED BY <2>1, <3>1
  <2>3. /\ view.entries' = [view.entries EXCEPT ![i].data = v, ![i].ref = bucket[b].bIsPointer]
        /\ PlacesSame
    BY <2>2, EntryChanged
  <2>4. [view.entries EXCEPT ![i].data = v, ![i].ref = bucket[b].bIsPointer]
          = [view.entries EXCEPT ![i].data = v]
    <3>1. view.entries[i] = ElementOf(b)
      BY DEF Shown
    <3> QED BY <1>1, <3>1 DEF ElementOf
  <2> QED BY <1>1, <1>3, <2>1, <2>3, <2>4
<1> QED BY <1>2, <1>3

\* The entry of a bucket that is found.
LEMMA FoundEntry ==
  ASSUME IInv, Views, NEW id \in AllIds, NEW b \in Found(id), NEW w \in Walks
  PROVE  \E i \in Map!Positions(AbstractKey(id)) : i \in 1 .. nNumOfElements /\ w[i] = b
<1>1. IsList(w) /\ Shown(w)
  BY WalkIsList DEF Views, IInv, TableInv
<1> QED BY <1>1, HasKey

Loops == /\ applyNext' = applyNext => view.applyPos' = view.applyPos
         /\ pending' = pending => view.pending' = view.pending

\* An insertion or update stores the value under its key.
LEMMA PutStores ==
  ASSUME IInv, WalkOK, Views, Views', NEW id \in AllIds, NEW v \in Value, NEW flag, Put(id, v, flag)
  PROVE  Map!Store(AbstractKey(id), v, flag = "UPDATE") /\ Loops
<1> DEFINE k == AbstractKey(id)
           may == flag = "UPDATE"
<1>1. PICK w \in Walks : IsList(w) /\ Shown(w)
  BY ThereIsAWalk DEF Views
<1>2. CASE /\ Found(id) # {} /\ flag # "UPDATE"
           /\ Returns("FAILURE")
           /\ UNCHANGED <<bucket, structure, nNextFreeElement, heap, foreign>>
  <2>1. SameView /\ pInternalPointer' = pInternalPointer
    BY <1>2, ViewKept DEF structure
  <2>2. Map!Has(k)
    BY <1>1, <1>2, HasKey
  <2>3. Map!Fails
    BY <1>2, <2>1 DEF Map!Fails, SameView, Returns
  <2> QED BY <1>2, <2>1, <2>2, <2>3 DEF Map!Store, Loops, SameView
<1>3. CASE /\ Found(id) # {} /\ flag = "UPDATE"
           /\ \E b \in Found(id) : Overwrite(b, v)
           /\ BumpNextFree(id)
           /\ Returns("SUCCESS")
           /\ UNCHANGED <<structure, heap>>
  <2>1. PICK b \in Found(id) : Overwrite(b, v)
    BY <1>3
  <2>2. PICK i \in Map!Positions(k) : i \in 1 .. nNumOfElements /\ w[i] = b
    BY <1>1, FoundEntry
  <2>3. b \in Allocated /\ UNCHANGED <<listVars, pInternalPointer, nNumOfElements>>
    BY <1>3, FoundMatches DEF structure
  <2>4. /\ IF view.entries[i].ref
           THEN foreign' = [foreign EXCEPT ![view.entries[i].data] = v] /\ view.entries' = view.entries
           ELSE view.entries' = [view.entries EXCEPT ![i].data = v] /\ foreign' = foreign
        /\ PlacesSame
    BY <1>1, <2>1, <2>2, <2>3, OverwriteEntry
  <2>5. Map!Advance(k) /\ ret' = "SUCCESS" /\ may
    BY <1>3, BumpAdvances DEF Returns
  <2>6. view.cursor' = view.cursor /\ Loops
    BY <2>3, <2>4 DEF PlacesSame, Loops
  <2>7. Map!Store(k, v, may)
    BY <2>2, <2>4, <2>5, <2>6 DEF Map!Store
  <2> QED BY <2>6, <2>7
<1>4. CASE /\ Found(id) = {}
           /\ \E p \in Bucket \ Allocated : NewBucket(p, id, v, FALSE)
           /\ BumpNextFree(id)
           /\ Returns("SUCCESS")
           /\ UNCHANGED foreign
  <2>1. PICK p \in Bucket \ Allocated : NewBucket(p, id, v, FALSE)
    BY <1>4
  <2>2. /\ Map!Add([key |-> k, data |-> v, ref |-> FALSE])
        /\ applyNext' = applyNext => view.applyPos' = view.applyPos
        /\ pending' = pending => view.pending' = view.pending
    BY <2>1, NewEntry
  <2>3. Map!Advance(k) /\ ret' = "SUCCESS" /\ foreign' = foreign
    BY <1>4, BumpAdvances DEF Returns
  <2>4. ~Map!Has(k)
    BY <1>1, <1>4, HasKey
  <2>5. Map!Store(k, v, may)
    BY <2>2, <2>3, <2>4 DEF Map!Store
  <2> QED BY <2>2, <2>5 DEF Loops
<1> QED BY <1>2, <1>3, <1>4 DEF Put

\* The same for references.
LEMMA PutStoresReference ==
  ASSUME IInv, WalkOK, Views, Views', NEW id \in AllIds, NEW f \in Foreign, NEW flag, PutPointer(id, f, flag)
  PROVE  Map!StoreReference(AbstractKey(id), f, flag # "NEXT_INSERT") /\ Loops
<1> DEFINE k == AbstractKey(id)
           may == flag # "NEXT_INSERT"
<1>1. PICK w \in Walks : IsList(w) /\ Shown(w)
  BY ThereIsAWalk DEF Views
<1>2. CASE /\ Found(id) # {} /\ flag = "NEXT_INSERT"
           /\ Returns("FAILURE")
           /\ UNCHANGED <<bucket, structure, nNextFreeElement, heap, foreign>>
  <2>1. SameView /\ pInternalPointer' = pInternalPointer
    BY <1>2, ViewKept DEF structure
  <2>2. Map!Has(k)
    BY <1>1, <1>2, HasKey
  <2>3. Map!Fails
    BY <1>2, <2>1 DEF Map!Fails, SameView, Returns
  <2> QED BY <1>2, <2>1, <2>2, <2>3 DEF Map!StoreReference, Loops, SameView
<1>3. CASE /\ Found(id) # {} /\ flag # "NEXT_INSERT"
           /\ \E b \in Found(id) : MakePointer(b, f)
           /\ BumpNextFree(id)
           /\ Returns("SUCCESS")
           /\ UNCHANGED structure
  <2>1. PICK b \in Found(id) : MakePointer(b, f)
    BY <1>3
  <2>2. PICK i \in Map!Positions(k) : i \in 1 .. nNumOfElements /\ w[i] = b
    BY <1>1, FoundEntry
  <2>3. b \in Allocated /\ UNCHANGED <<listVars, pInternalPointer, nNumOfElements>>
    BY <1>3, FoundMatches DEF structure
  <2>4. bucket' = [bucket EXCEPT ![b].pData = f, ![b].bIsPointer = TRUE] /\ foreign' = foreign
    BY <2>1 DEF MakePointer
  <2>7. view.entries' = [view.entries EXCEPT ![i].data = f, ![i].ref = TRUE] /\ PlacesSame
    BY <1>1, <2>2, <2>3, <2>4, EntryChanged
  <2>5. Map!Advance(k) /\ ret' = "SUCCESS" /\ may
    BY <1>3, BumpAdvances DEF Returns
  <2>6. view.cursor' = view.cursor /\ Loops
    BY <2>3, <2>7 DEF PlacesSame, Loops
  <2>8. Map!StoreReference(k, f, may)
    BY <2>2, <2>4, <2>5, <2>6, <2>7 DEF Map!StoreReference
  <2> QED BY <2>6, <2>8
<1>4. CASE /\ Found(id) = {}
           /\ \E p \in Bucket \ Allocated : NewBucket(p, id, f, TRUE)
           /\ BumpNextFree(id)
           /\ Returns("SUCCESS")
           /\ UNCHANGED foreign
  <2>1. PICK p \in Bucket \ Allocated : NewBucket(p, id, f, TRUE)
    BY <1>4
  <2>2. /\ Map!Add([key |-> k, data |-> f, ref |-> TRUE])
        /\ applyNext' = applyNext => view.applyPos' = view.applyPos
        /\ pending' = pending => view.pending' = view.pending
    BY <2>1, NewEntry
  <2>3. Map!Advance(k) /\ ret' = "SUCCESS" /\ foreign' = foreign
    BY <1>4, BumpAdvances DEF Returns
  <2>4. ~Map!Has(k)
    BY <1>1, <1>4, HasKey
  <2>5. Map!StoreReference(k, f, may)
    BY <2>2, <2>3, <2>4 DEF Map!StoreReference
  <2> QED BY <2>2, <2>5 DEF Loops
<1> QED BY <1>2, <1>3, <1>4 DEF PutPointer

\* The calls that insert or update ...
LEMMA PutRefines ==
  ASSUME IInv, WalkOK, Views, Views', NEW id \in AllIds, NEW v \in Value, NEW flag,
         Idle \/ InCallback, Put(id, v, flag), UNCHANGED loopVars
  PROVE  Map!Put
<1>1. Map!Store(AbstractKey(id), v, flag = "UPDATE") /\ Loops
  BY PutStores
<1>2. AbstractKey(id) \in Keyed /\ (flag = "UPDATE") \in BOOLEAN
  BY KeyOfId
<1>3. /\ busy \in {"none", "apply"}
      /\ UNCHANGED <<busy, view.applyPos, view.pending>>
  BY <1>1 DEF Loops, loopVars, Idle, InCallback
<1> QED BY <1>1, <1>2, <1>3, Zenon DEF Map!Put, Map!loopVars, Keyed

\* ... or append ...
LEMMA NextInsertRefines ==
  ASSUME IInv, WalkOK, Views, Views', NEW v \in Value, NextInsert(v)
  PROVE  Map!Push
<1> DEFINE id == IndexId(nNextFreeElement)
<1>1. nNextFreeElement \in Index
  BY DEF IInv, CallerType
<1>2. id \in AllIds /\ AbstractKey(id) = nNextFreeElement
  BY <1>1, IdTypes DEF IndexId, AbstractKey
<1>3. Map!Store(AbstractKey(id), v, "NEXT_INSERT" = "UPDATE") /\ Loops
  BY <1>2, PutStores DEF NextInsert
<1>4. Map!Store(nNextFreeElement, v, FALSE)
  <2>1. ("NEXT_INSERT" = "UPDATE") = FALSE
    OBVIOUS
  <2> QED BY <1>2, <1>3, <2>1
<1>5. /\ busy \in {"none", "apply"}
      /\ UNCHANGED <<busy, view.applyPos, view.pending>>
  BY <1>3 DEF Loops, loopVars, Idle, InCallback, NextInsert
<1> QED BY <1>4, <1>5, Zenon DEF Map!Push, Map!loopVars

\* ... and those that do so with a reference.
LEMMA PutReferenceRefines ==
  ASSUME IInv, WalkOK, Views, Views', NEW id \in AllIds, NEW f \in Foreign,
         Idle, PutPointer(id, f, "UPDATE"), UNCHANGED loopVars
  PROVE  Map!PutReference
<1>1. Map!StoreReference(AbstractKey(id), f, "UPDATE" # "NEXT_INSERT") /\ Loops
  BY PutStoresReference
<1>2. AbstractKey(id) \in Keyed
  BY KeyOfId
<1>3. busy = "none" /\ UNCHANGED <<busy, view.applyPos, view.pending>>
  BY <1>1 DEF Loops, loopVars, Idle
<1>4. Map!StoreReference(AbstractKey(id), f, TRUE)
  <2>1. ("UPDATE" # "NEXT_INSERT") = TRUE
    OBVIOUS
  <2> QED BY <1>1, <2>1
<1> QED BY <1>2, <1>3, <1>4, Zenon DEF Map!PutReference, Map!loopVars, Keyed

\* A reference is appended at the next free index.
LEMMA PointerNextInsertRefines ==
  ASSUME IInv, WalkOK, Views, Views', NEW f \in Foreign, PointerNextInsert(f)
  PROVE  Map!PushReference
<1> DEFINE id == IndexId(nNextFreeElement)
<1>1. nNextFreeElement \in Index
  BY DEF IInv, CallerType
<1>2. id \in AllIds /\ AbstractKey(id) = nNextFreeElement
  BY <1>1, IdTypes DEF IndexId, AbstractKey
<1>3. Map!StoreReference(AbstractKey(id), f, "NEXT_INSERT" # "NEXT_INSERT") /\ Loops
  BY <1>2, PutStoresReference DEF PointerNextInsert
<1>4. Map!StoreReference(nNextFreeElement, f, FALSE)
  <2>1. ("NEXT_INSERT" # "NEXT_INSERT") = FALSE
    OBVIOUS
  <2> QED BY <1>2, <1>3, <2>1
<1>5. busy = "none" /\ UNCHANGED <<busy, view.applyPos, view.pending>>
  BY <1>3 DEF Loops, loopVars, Idle, PointerNextInsert
<1> QED BY <1>4, <1>5, Zenon DEF Map!PushReference, Map!loopVars

\* Each entry of a copy or a merge is stored, in order.
LEMMA LoadStepRefines ==
  ASSUME IInv, IInv', WalkOK, Views, Views', LoadStep
  PROVE  Map!LoadStep
<1>1. PICK w : Shown(w)
  BY ThereIsAWalk DEF Views
<1>2. PICK u : Shown(u)'
  BY ShownNext, Zenon
<1> DEFINE x == Head(pending)
<1>3. pending \in Seq([id : AllIds, val : Value]) /\ pending # <<>>
  BY DEF IInv, CallerType, LoadStep
<1>4. x.id \in AllIds /\ x.val \in Value /\ Len(pending) \in Nat \ {0} /\ x = pending[1]
  <2>1. PICK E : E = [id : AllIds, val : Value]
    OBVIOUS
  <2>2. pending \in Seq(E)
    BY <1>3, <2>1, Zenon
  <2>3. x \in E /\ Len(pending) \in Nat \ {0} /\ x = pending[1]
    BY <1>3, <2>2
  <2> QED BY <2>1, <2>3
<1>5. Map!Store(AbstractKey(x.id), x.val, (IF busy = "copy" THEN "UPDATE" ELSE "ADD") = "UPDATE") /\ Loops
  BY <1>4, PutStores DEF LoadStep
<1>6. /\ view.pending \in Seq(Load) /\ Len(view.pending) = Len(pending)
      /\ \A i \in 1 .. Len(pending) : view.pending[i] = LoadOf(pending[i])
  BY <1>1 DEF Shown
<1>7. view.pending # <<>> /\ Head(view.pending) = LoadOf(x)
  BY <1>4, <1>6
<1>8. Head(view.pending).key = AbstractKey(x.id) /\ Head(view.pending).val = x.val
  BY <1>7 DEF LoadOf
<1>9. Map!Store(Head(view.pending).key, Head(view.pending).val, busy = "copy")
  <2>1. ((IF busy = "copy" THEN "UPDATE" ELSE "ADD") = "UPDATE") = (busy = "copy")
    OBVIOUS
  <2> QED BY <1>5, <1>8, <2>1
<1>10. view.pending' = Tail(view.pending)
  <2>1. /\ view'.pending \in Seq(Load) /\ Len(view'.pending) = Len(pending')
        /\ \A i \in 1 .. Len(pending') : view'.pending[i] = LoadOf(pending'[i])
    BY <1>2 DEF Shown, LoadOf, AbstractKey
  <2>2. pending' = Tail(pending)
    BY DEF LoadStep
  <2>3. /\ Len(pending') = Len(pending) - 1
        /\ \A i \in 1 .. Len(pending) - 1 : pending'[i] = pending[i + 1]
    BY <1>3, <1>4, <2>2
  <2>4. /\ Tail(view.pending) \in Seq(Load) /\ Len(Tail(view.pending)) = Len(pending) - 1
        /\ \A i \in 1 .. Len(pending) - 1 : Tail(view.pending)[i] = view.pending[i + 1]
    BY <1>4, <1>6, <1>7
  <2>5. \A i \in 1 .. Len(pending) - 1 : view'.pending[i] = Tail(view.pending)[i]
    <3> SUFFICES ASSUME NEW i \in 1 .. Len(pending) - 1
                 PROVE  view'.pending[i] = Tail(view.pending)[i]
      OBVIOUS
    <3>1. i + 1 \in 1 .. Len(pending)
      BY <1>4
    <3>2. view'.pending[i] = LoadOf(pending[i + 1])
      BY <2>1, <2>3
    <3>3. Tail(view.pending)[i] = LoadOf(pending[i + 1])
      BY <1>6, <2>4, <3>1
    <3> QED BY <3>2, <3>3
  <2> QED BY <2>1, <2>3, <2>4, <2>5, SameSeq
<1>11. busy \in {"copy", "merge"} /\ busy' = busy /\ view.applyPos' = view.applyPos
  BY <1>5 DEF LoadStep, Loops
<1> QED BY <1>7, <1>9, <1>10, <1>11 DEF Map!LoadStep

-----------------------------------------------------------------------------
(* Deletions *)

\* The list w without its m-th element is v.
Shorter(n, w, m, v) ==
  /\ n \in Nat /\ m \in 1 .. n
  /\ v = [i \in 1 .. n - 1 |-> IF i < m THEN w[i] ELSE w[i + 1]]
  /\ \A i, j \in 1 .. n : w[i] = w[j] => i = j

\* What is not deleted moves up.
LEMMA MovesUp ==
  ASSUME NEW n, NEW w, NEW m, NEW v, Shorter(n, w, m, v), NEW q, NEW k, NEW j,
         At(n, w, q, k), At(n - 1, v, q, j), q # w[m]
  PROVE  j = Map!Shift(k, m) /\ k # m
<1>1. n \in Nat /\ m \in 1 .. n /\ k \in 0 .. n /\ j \in 0 .. n - 1
  BY DEF Shorter, At
<1>2. CASE q = NULL
  BY <1>1, <1>2 DEF At, Map!Shift
<1>3. CASE q # NULL
  <2>1. k # 0 /\ w[k] = q /\ j # 0 /\ v[j] = q
    BY <1>3 DEF At
  <2>2. k # m
    BY <2>1
  <2>3. CASE j < m
    <3>1. w[j] = q /\ j \in 1 .. n
      BY <1>1, <2>1, <2>3 DEF Shorter
    <3>2. j = k
      BY <1>1, <2>1, <3>1 DEF Shorter
    <3> QED BY <1>1, <2>2, <2>3, <3>2 DEF Map!Shift
  <2>4. CASE ~ (j < m)
    <3>1. w[j + 1] = q /\ j + 1 \in 1 .. n
      BY <1>1, <2>1, <2>4 DEF Shorter
    <3>2. j + 1 = k
      BY <1>1, <2>1, <3>1 DEF Shorter
    <3> QED BY <1>1, <2>2, <2>4, <3>2 DEF Map!Shift
  <2> QED BY <1>1, <2>2, <2>3, <2>4
<1> QED BY <1>2, <1>3

\* What follows the deleted element is where that was.
LEMMA NextMovesUp ==
  ASSUME NEW n, NEW w, NEW m, NEW v, Shorter(n, w, m, v), NEW q, NEW j,
         At(n, w, q, IF m = n THEN 0 ELSE m + 1), At(n - 1, v, q, j)
  PROVE  j = IF m = n THEN 0 ELSE m
<1>1. n \in Nat /\ m \in 1 .. n
  BY DEF Shorter
<1>2. CASE m = n
  BY <1>2 DEF At
<1>3. CASE m # n
  <2>1. q = w[m + 1] /\ q # NULL /\ m + 1 \in 1 .. n
    BY <1>1, <1>3 DEF At
  <2>2. q # w[m]
    BY <1>1, <2>1 DEF Shorter
  <2>3. At(n, w, q, m + 1)
    BY <1>3
  <2>4. j = Map!Shift(m + 1, m)
    BY <2>2, <2>3, MovesUp
  <2> QED BY <1>1, <1>3, <2>4 DEF Map!Shift
<1> QED BY <1>2, <1>3

\* What is unlinked is deleted, and its successors move up.
LEMMA UnlinkDeletes ==
  ASSUME IInv, WalkOK, Views, Views', NEW id, id[2] \in Index, NEW i \in Victims(id), Unlink(id, i),
         Returns("SUCCESS"), UNCHANGED <<nHashSizeIndex, nNextFreeElement, foreign>>,
         NEW w \in Walks, BackLinks(w), NEW m \in 1 .. nNumOfElements, w[m] = Chain(id[2])[i]
  PROVE  /\ Map!DeleteAt(m)
         /\ \E v : Shorter(nNumOfElements, w, m, v) /\ Shown(v)' /\ nNumOfElements' = nNumOfElements - 1
         /\ pending' = pending => view.pending' = view.pending
<1>1. IsList(w) /\ Shown(w)
  BY WalkIsList DEF Views, IInv, TableInv
<1>2. PICK n \in Nat : n = nNumOfElements
  BY <1>1 DEF IsList
<1>3. PICK p : p = w[m]
  OBVIOUS
<1>4. p \in Allocated /\ NULL \notin Allocated /\ p # NULL
  BY <1>1, <1>3 DEF IsList
<1>5. /\ UnlinkFromList(w[m])
      /\ pInternalPointer' = CursorWithout(p)
      /\ bucket' = [b \in Allocated \ {p} |-> bucket[b]]
  BY <1>3 DEF Unlink
<1>6. Allocated' = Allocated \ {p}
  BY <1>5 DEF Allocated
<1>7. PICK v : v = [j \in 1 .. n - 1 |-> IF j < m THEN w[j] ELSE w[j + 1]]
  OBVIOUS
<1>8. v \in Walks'
  BY <1>1, <1>2, <1>3, <1>4, <1>5, <1>6, <1>7, ShorterList
<1>9. Shown(v)'
  BY <1>8 DEF Views
<1>10. Shorter(n, w, m, v)
  BY <1>1, <1>2, <1>7 DEF Shorter, IsList
<1>11. nNumOfElements' = n - 1
  BY <1>2, <1>5 DEF UnlinkFromList
<1>12. /\ view.entries \in Seq(Elem) /\ Len(view.entries) = n
       /\ \A j \in 1 .. n : view.entries[j] = ElementOf(w[j])
  BY <1>1, <1>2 DEF Shown
<1>13. /\ view'.entries \in Seq(Elem) /\ Len(view'.entries) = n - 1
       /\ \A j \in 1 .. n - 1 : view'.entries[j] = ElementOf(v[j])'
  BY <1>9, <1>11 DEF Shown
<1>14. view'.entries = Map!Without(view.entries, m)
  <2>1. ASSUME NEW j \in 1 .. n - 1
        PROVE  view'.entries[j] = IF j < m THEN view.entries[j] ELSE view.entries[j + 1]
    <3>1. PICK l \in 1 .. n : v[j] = w[l] /\ l # m /\ l = IF j < m THEN j ELSE j + 1
      BY <1>2, <1>7
    <3>2. w[l] \in Allocated \ {p}
      BY <1>1, <1>2, <1>3, <3>1 DEF IsList
    <3>3. bucket'[w[l]] = bucket[w[l]]
      BY <1>5, <3>2
    <3>4. ElementOf(v[j])' = ElementOf(w[l])
      BY <3>1, <3>3, SameElement
    <3>5. view'.entries[j] = ElementOf(v[j])'
      BY <1>13
    <3>6. view.entries[l] = ElementOf(w[l])
      BY <1>12
    <3>7. view'.entries[j] = view.entries[l]
      BY <3>4, <3>5, <3>6
    <3>8. CASE j < m
      BY <3>1, <3>7, <3>8
    <3>9. CASE ~ (j < m)
      BY <3>1, <3>7, <3>9
    <3> QED BY <3>8, <3>9
  <2>2. view'.entries = [j \in 1 .. n - 1 |-> view'.entries[j]]
    <3>1. PICK s, E : s = view'.entries /\ E = Elem
      OBVIOUS
    <3>2. s \in Seq(E) /\ Len(s) = n - 1 /\ n - 1 \in Nat
      BY <1>2, <1>13, <3>1
    <3>3. s = [j \in 1 .. n - 1 |-> s[j]]
      BY <3>2
    <3> QED BY <3>1, <3>3
  <2> QED BY <1>12, <2>1, <2>2 DEF Map!Without
<1>15. view'.cursor = IF view.cursor = m /\ m = n THEN 0 ELSE Map!Shift(view.cursor, m)
  <2>1. At(n, w, pInternalPointer, view.cursor) /\ At(n - 1, v, pInternalPointer', view'.cursor)
    BY <1>1, <1>2, <1>9, <1>11 DEF Shown, At
  <2>2. CASE pInternalPointer = p
    <3>1. view.cursor = m
      <4>1. At(n, w, p, m)
        BY <1>2, <1>3, <1>4 DEF At
      <4> QED BY <1>1, <1>2, <2>1, <2>2, <4>1, AtOnce
    <3>2. pInternalPointer' = pListNext[p]
      BY <1>5, <2>2 DEF CursorWithout
    <3>3. At(n, w, pListNext[p], IF m = n THEN 0 ELSE m + 1)
      BY <1>1, <1>2, <1>4, <2>1, <2>2, <3>1, LinksAt
    <3>4. view'.cursor = IF m = n THEN 0 ELSE m
      <4>1. At(n - 1, v, pListNext[p], view'.cursor)
        BY <2>1, <3>2
      <4> QED BY <1>10, <3>3, <4>1, NextMovesUp
    <3> QED BY <1>2, <3>1, <3>4 DEF Map!Shift
  <2>3. CASE pInternalPointer # p
    <3>1. pInternalPointer' = pInternalPointer
      BY <1>5, <2>3 DEF CursorWithout
    <3>2. At(n - 1, v, pInternalPointer, view'.cursor)
      BY <2>1, <3>1
    <3>3. view'.cursor = Map!Shift(view.cursor, m) /\ view.cursor # m
      BY <1>3, <1>10, <2>1, <2>3, <3>2, MovesUp
    <3> QED BY <3>3
  <2> QED BY <2>2, <2>3
<1>16. pending' = pending => view.pending' = view.pending
  BY <1>1, <1>9, PendingKept
<1>17. Map!DeleteAt(m)
  BY <1>12, <1>14, <1>15 DEF Map!DeleteAt, Returns
<1> QED BY <1>2, <1>9, <1>10, <1>11, <1>16, <1>17

\* A deletion that stops nowhere has not the key before it.
LEMMA NoVictims ==
  ASSUME IInv, NEW id, Victims(id) = {}, NEW b \in Allocated
  PROVE  Id(b) # id
<1> SUFFICES ASSUME Id(b) = id PROVE FALSE
  OBVIOUS
<1> DEFINE c == Chain(id[2])
           match == {a \in Allocated : bucket[a].h = id[2] /\ bucket[a].arKey \in {NULL, id[1]}}
           T == {i \in 1 .. Len(c) : c[i] \in match}
<1>1. id[1] = bucket[b].arKey /\ id[2] = bucket[b].h /\ id[2] \in Index
  BY DEF Id, IInv, TableInv, TableType
<1>2. b \in match
  BY <1>1
<1>3. PICK j \in DOMAIN c : c[j] = b
  BY <1>1, TableSize DEF IInv, TableInv, ChainInv, Chain
<1>4. c \in Seq(Bucket)
  BY <1>1, TableSize DEF IInv, TableInv
<1>5. FirstIn(c, match) = {}
  BY DEF Victims
<1> HIDE DEF c, match
<1>6. T \in SUBSET Nat /\ j \in T
  BY <1>2, <1>3, <1>4
<1>7. PICK x \in T : \A y \in T : x <= y
  <2> HIDE DEF T
  <2> QED BY <1>6, Least
<1>8. x \in 1 .. Len(c) /\ c[x] \in match /\ Len(c) \in Nat
  BY <1>4, <1>7
<1>9. \A y \in 1 .. x - 1 : c[y] \notin match
  <2> SUFFICES ASSUME NEW y \in 1 .. x - 1, c[y] \in match PROVE FALSE
    OBVIOUS
  <2>1. y \in 1 .. Len(c) /\ ~ (x <= y)
    BY <1>8
  <2>2. y \in T
    BY <2>1
  <2> QED BY <1>7, <2>1, <2>2
<1> QED BY <1>5, <1>8, <1>9 DEF FirstIn

\* A deletion has not its key, or deletes the entry at one position.
LEMMA RemoveIs ==
  ASSUME IInv, WalkOK, Views, Views', NEW id \in AllIds, Remove(id)
  PROVE  \/ /\ ~Map!Has(AbstractKey(id)) /\ Map!Fails /\ SameView
            /\ UNCHANGED <<bucket, structure>>
         \/ \E w \in Walks, m \in 1 .. nNumOfElements :
              /\ Map!DeleteAt(m) /\ BackLinks(w) /\ Shown(w)
              /\ \E v : Shorter(nNumOfElements, w, m, v) /\ Shown(v)' /\ nNumOfElements' = nNumOfElements - 1
              /\ Allocated' = Allocated \ {w[m]}
              /\ pending' = pending => view.pending' = view.pending
<1>1. PICK w \in Walks : BackLinks(w) /\ IsList(w) /\ Shown(w)
  BY ThereIsAWalk DEF Views
<1>2. CASE /\ Victims(id) = {}
           /\ Returns("FAILURE")
           /\ UNCHANGED <<bucket, structure, nNextFreeElement, heap, foreign>>
  <2>1. SameView /\ pInternalPointer' = pInternalPointer
    BY <1>2, ViewKept DEF structure
  <2>2. \A b \in Allocated : Id(b) # id
    BY <1>2, NoVictims
  <2>3. ~Map!Has(AbstractKey(id))
    <3>1. \A i \in 1 .. nNumOfElements : view.entries[i].key # AbstractKey(id)
      BY <1>1, <2>2, KeyAt DEF IsList
    <3>2. Len(view.entries) = nNumOfElements
      BY <1>1 DEF Shown
    <3> QED BY <3>1, <3>2 DEF Map!Has, Map!Positions
  <2>4. Map!Fails
    BY <1>2, <2>1 DEF Map!Fails, SameView, Returns
  <2> QED BY <1>2, <2>1, <2>3, <2>4
<1>3. CASE /\ Victims(id) # {}
           /\ \E i \in Victims(id) : Unlink(id, i)
           /\ Returns("SUCCESS")
           /\ UNCHANGED <<nHashSizeIndex, nNextFreeElement, foreign>>
  <2>1. PICK i \in Victims(id) : Unlink(id, i)
    BY <1>3
  <2>2. id[2] \in Index
    BY IdTypes
  <2>3. Chain(id[2])[i] \in Allocated
    BY VictimMatches
  <2>4. PICK m \in 1 .. nNumOfElements : w[m] = Chain(id[2])[i]
    BY <1>1, <2>3 DEF IsList
  <2>5. /\ Map!DeleteAt(m)
        /\ \E v : Shorter(nNumOfElements, w, m, v) /\ Shown(v)' /\ nNumOfElements' = nNumOfElements - 1
        /\ pending' = pending => view.pending' = view.pending
    BY <1>1, <1>3, <2>1, <2>2, <2>4, UnlinkDeletes
  <2>6. bucket' = [b \in Allocated \ {w[m]} |-> bucket[b]]
    BY <2>1, <2>4 DEF Unlink
  <2>7. Allocated' = Allocated \ {w[m]}
    BY <2>6 DEF Allocated
  <2> QED BY <1>1, <2>5, <2>7
<1> QED BY <1>2, <1>3 DEF Remove

\* A deletion outside of a walk.
LEMMA DeleteRefines ==
  ASSUME SafeInv, SafeInv', Views, Views', NEW id \in AllIds, Idle, Remove(id), UNCHANGED loopVars
  PROVE  Map!Delete
<1>1. IInv /\ WalkOK /\ IInv'
  BY DEF SafeInv, WalkInv
<1>2. busy = "none" /\ applyNext = NULL /\ applyNext' = NULL /\ busy' = busy /\ pending' = pending
  BY DEF Idle, SafeInv, WalkInv, loopVars
<1>3. PICK w : Shown(w)
  BY <1>1, ThereIsAWalk DEF Views
<1>4. PICK u : Shown(u)'
  BY <1>1, ShownNext, Zenon
<1>5. view.applyPos' = view.applyPos
  BY <1>2, <1>3, <1>4 DEF Shown, At
<1>6. CASE ~Map!Has(AbstractKey(id)) /\ Map!Fails /\ SameView
  <2>1. AbstractKey(id) \in Keyed /\ UNCHANGED <<busy, view.applyPos, view.pending>>
    BY <1>2, <1>5, <1>6, KeyOfId DEF SameView
  <2> QED BY <1>2, <1>6, <2>1 DEF Map!Delete, Map!loopVars, Keyed
<1>7. CASE \E l \in Walks, m \in 1 .. nNumOfElements :
              /\ Map!DeleteAt(m) /\ Shown(l)
              /\ pending' = pending => view.pending' = view.pending
  <2>1. PICK l \in Walks, m \in 1 .. nNumOfElements :
              /\ Map!DeleteAt(m) /\ Shown(l)
              /\ pending' = pending => view.pending' = view.pending
    BY <1>7
  <2>2. m \in Map!Positions(view.entries[m].key)
    BY <2>1 DEF Map!Positions, Shown
  <2>3. view.entries[m].key \in Keyed
    <3>1. l[m] \in Allocated /\ view.entries[m] = ElementOf(l[m])
      BY <1>1, <2>1, WalkIsList DEF IsList, Shown, IInv, TableInv
    <3>2. Id(l[m]) \in AllIds
      BY <1>1, <3>1, EntryType
    <3>3. view.entries[m].key = AbstractKey(Id(l[m]))
      BY <3>1 DEF ElementOf
    <3> QED BY <3>2, <3>3, KeyOfId
  <2>4. UNCHANGED <<busy, view.applyPos, view.pending>>
    BY <1>2, <1>5, <2>1
  <2> QED BY <1>2, <2>1, <2>2, <2>3, <2>4 DEF Map!Delete, Map!loopVars, Keyed
<1> QED BY <1>1, <1>6, <1>7, RemoveIs

\* A walk that deletes its entry: the entry, and no other, goes.
LEMMA ApplyDeleteRefines ==
  ASSUME NoCollision, SafeInv, Views, Views', ApplyDelete
  PROVE  Map!WalkStep
<1>1. IInv /\ WalkOK /\ IndexRange /\ applyNext \in Allocated /\ applyNext # NULL
  BY DEF SafeInv, WalkInv, WalkOK, ApplyDelete
<1>2. /\ Remove(Id(applyNext)) /\ applyNext' = pListNext[applyNext] /\ busy = "apply"
      /\ UNCHANGED <<busy, pending>>
  BY DEF ApplyDelete
<1>3. Allocated' = Allocated \ {applyNext} /\ Id(applyNext) \in AllIds
  BY <1>1, <1>2, DeletesIt, EntryType
<1>4. ~ (bucket' = bucket)
  BY <1>1, <1>3 DEF Allocated
<1>5. PICK w \in Walks, m \in 1 .. nNumOfElements :
              /\ Map!DeleteAt(m) /\ BackLinks(w) /\ Shown(w)
              /\ \E v : Shorter(nNumOfElements, w, m, v) /\ Shown(v)' /\ nNumOfElements' = nNumOfElements - 1
              /\ Allocated' = Allocated \ {w[m]}
              /\ pending' = pending => view.pending' = view.pending
  BY <1>1, <1>2, <1>3, <1>4, RemoveIs
<1>6. IsList(w)
  BY <1>1, <1>5, WalkIsList DEF IInv, TableInv
<1>7. w[m] = applyNext
  BY <1>1, <1>3, <1>5, <1>6 DEF IsList
<1>8. At(nNumOfElements, w, applyNext, view.applyPos) /\ Len(view.entries) = nNumOfElements
  BY <1>5 DEF Shown
<1>9. view.applyPos = m
  <2>1. At(nNumOfElements, w, applyNext, m)
    BY <1>1, <1>6, <1>7 DEF At, IsList
  <2> QED BY <1>6, <1>8, <2>1, AtOnce
<1>10. At(nNumOfElements, w, pListNext[applyNext], IF m = nNumOfElements THEN 0 ELSE m + 1)
  BY <1>1, <1>5, <1>6, <1>8, <1>9, LinksAt
<1>11. PICK v : Shorter(nNumOfElements, w, m, v) /\ Shown(v)' /\ nNumOfElements' = nNumOfElements - 1
  BY <1>5
<1>12. At(nNumOfElements - 1, v, pListNext[applyNext], view'.applyPos)
  BY <1>2, <1>11 DEF Shown, At
<1>13. view'.applyPos = IF m = nNumOfElements THEN 0 ELSE m
  BY <1>10, <1>11, <1>12, NextMovesUp
<1>14. /\ view.applyPos # 0
       /\ view.applyPos' = IF view.applyPos = Len(view.entries) THEN 0 ELSE view.applyPos
       /\ Map!DeleteAt(view.applyPos)
  BY <1>5, <1>8, <1>9, <1>13
<1> QED BY <1>2, <1>5, <1>14 DEF Map!WalkStep

-----------------------------------------------------------------------------
(* Sorting *)

\* Where in the list w the elements of the list t are.
Permutes(n, w, t, q) ==
  /\ q \in [1 .. n -> 1 .. n]
  /\ \A i \in 1 .. n : w[q[i]] = t[i]
  /\ \A i \in 1 .. n : \E j \in 1 .. n : q[j] = i

LEMMA Permuted ==
  ASSUME NEW w, IsList(w), NEW t, IsList(t)
  PROVE  \E q : Permutes(nNumOfElements, w, t, q)
<1> DEFINE n == nNumOfElements
<1>1. \A i \in 1 .. n : \E j \in 1 .. n : w[j] = t[i]
  BY DEF IsList
<1>2. PICK q : q = [i \in 1 .. n |-> CHOOSE j \in 1 .. n : w[j] = t[i]]
  OBVIOUS
<1>3. \A i \in 1 .. n : q[i] \in 1 .. n /\ w[q[i]] = t[i]
  <2> SUFFICES ASSUME NEW i \in 1 .. n PROVE q[i] \in 1 .. n /\ w[q[i]] = t[i]
    OBVIOUS
  <2>1. q[i] = CHOOSE j \in 1 .. n : w[j] = t[i]
    BY <1>2
  <2> QED BY <1>1, <2>1
<1>4. ASSUME NEW i \in 1 .. n PROVE \E j \in 1 .. n : q[j] = i
  <2>1. PICK j \in 1 .. n : t[j] = w[i]
    BY DEF IsList
  <2>2. q[j] = i
    BY <1>3, <2>1 DEF IsList
  <2> QED BY <2>2
<1>5. q \in [1 .. n -> 1 .. n]
  BY <1>2, <1>3
<1> QED BY <1>3, <1>4, <1>5 DEF Permutes

\* A renumbered bucket is an entry with its new index.
LEMMA RenumberedElement ==
  ASSUME IInv, NEW b \in Allocated, NEW x,
         bucket'[b] = [bucket[b] EXCEPT !.arKey = NULL, !.h = x]
  PROVE  ElementOf(b)' = [ElementOf(b) EXCEPT !.key = x]
<1>1. bucket[b] \in [arKey : StrKey \cup {NULL}, h : Index,
                     pData : Value \cup Foreign, bIsPointer : BOOLEAN]
  BY DEF IInv, TableInv, TableType
<1>2. /\ bucket'[b].arKey = NULL /\ bucket'[b].h = x
      /\ bucket'[b].pData = bucket[b].pData /\ bucket'[b].bIsPointer = bucket[b].bIsPointer
  BY <1>1
<1>3. ElementOf(b)' = [key |-> x, data |-> bucket[b].pData, ref |-> bucket[b].bIsPointer]
  BY <1>2 DEF ElementOf, Id, AbstractKey
<1>4. PICK o : o = ElementOf(b)
  OBVIOUS
<1>5. PICK c : c = [o EXCEPT !.key = x]
  OBVIOUS
<1>6. o = [key |-> AbstractKey(Id(b)), data |-> bucket[b].pData, ref |-> bucket[b].bIsPointer]
  BY <1>4 DEF ElementOf
<1>7. c.key = x /\ c.data = bucket[b].pData /\ c.ref = bucket[b].bIsPointer
  BY <1>5, <1>6
<1>8. DOMAIN c = {"key", "data", "ref"} /\ c = [f \in DOMAIN c |-> c[f]]
  BY <1>5, <1>6
<1>9. c = [key |-> x, data |-> bucket[b].pData, ref |-> bucket[b].bIsPointer]
  BY <1>7, <1>8
<1> QED BY <1>3, <1>4, <1>5, <1>9

\* A sort permutes the entries, and renumbers them if it is to.
LEMMA SortRefines ==
  ASSUME IInv, WalkInv, Views, Views', NEW renumber \in BOOLEAN, Sort(renumber)
  PROVE  Map!Sort
<1>1. PICK w \in Walks : BackLinks(w) /\ IsList(w) /\ Shown(w)
  BY ThereIsAWalk DEF Views
<1>2. PICK n \in Nat : n = nNumOfElements
  BY <1>1 DEF IsList
<1>3. /\ view.entries \in Seq(Elem) /\ Len(view.entries) = n
      /\ \A i \in 1 .. n : view.entries[i] = ElementOf(w[i])
  BY <1>1, <1>2 DEF Shown
<1>4. /\ busy = "none" /\ ret' = "SUCCESS" /\ foreign' = foreign
      /\ busy' = busy /\ applyNext' = applyNext /\ pending' = pending /\ applyNext = NULL
  BY DEF Sort, Idle, Returns, loopVars, WalkInv
<1>5. CASE /\ nNumOfElements <= 1
           /\ UNCHANGED <<bucket, structure, nNextFreeElement, heap>>
  <2>1. SameView /\ pInternalPointer' = pInternalPointer /\ nNextFreeElement' = nNextFreeElement
    BY <1>5, ViewKept DEF structure
  <2>2. Len(view.entries) <= 1
    BY <1>2, <1>3, <1>5
  <2>3. UNCHANGED <<view.entries, view.cursor, nNextFreeElement, busy, view.applyPos, view.pending>>
    BY <1>4, <2>1 DEF SameView
  <2> QED BY <1>4, <2>2, <2>3 DEF Map!Sort, Map!loopVars
<1>6. CASE /\ nNumOfElements > 1
           /\ \E t \in Enumerations(Allocated) :
                 /\ Relink(t)
                 /\ IF renumber THEN Renumber(t)
                                ELSE UNCHANGED <<bucket, heap, nNextFreeElement, arBuckets>>
           /\ UNCHANGED <<nHashSizeIndex, nNumOfElements>>
  <2>1. PICK t \in Enumerations(Allocated) :
                 /\ Relink(t)
                 /\ IF renumber THEN Renumber(t)
                                ELSE UNCHANGED <<bucket, heap, nNextFreeElement, arBuckets>>
    BY <1>6
  <2>2. Cardinality(Allocated) = n
    BY <1>1, <1>2, WalkCounts
  <2>3. /\ t \in [1 .. n -> Allocated]
        /\ \A b \in Allocated : \E i \in 1 .. n : t[i] = b
        /\ \A i, j \in 1 .. n : t[i] = t[j] => i = j
    BY <2>2 DEF Enumerations
  <2>4. IsList(t)
    BY <1>1, <1>2, <2>3 DEF IsList
  <2>5. Allocated' = Allocated /\ nNumOfElements' = n /\ n > 1
    <3>1. CASE renumber
      <4>1. bucket' = [b \in Allocated |->
               [bucket[b] EXCEPT !.arKey = NULL, !.h = (CHOOSE i \in DOMAIN t : t[i] = b) - 1]]
        BY <2>1, <3>1 DEF Renumber
      <4>2. DOMAIN bucket' = Allocated
        BY <4>1
      <4> QED BY <1>2, <1>6, <4>2 DEF Allocated
    <3>2. CASE ~renumber
      BY <1>2, <1>6, <2>1, <3>2 DEF Allocated
    <3> QED BY <3>1, <3>2
  <2>6. t \in Walks'
    BY <1>2, <1>6, <2>1, <2>3, <2>5, SortedList
  <2>7. Shown(t)'
    BY <2>6 DEF Views
  <2>8. /\ view'.entries \in Seq(Elem) /\ Len(view'.entries) = n
        /\ \A i \in 1 .. n : view'.entries[i] = ElementOf(t[i])'
    BY <2>5, <2>7 DEF Shown
  <2>9. view'.cursor = 1
    <3>1. pInternalPointer' = t[1] /\ t[1] # NULL
      BY <1>2, <2>1, <2>4, <2>5 DEF Relink, IsList
    <3>2. At(n, t, t[1], view'.cursor)
      BY <2>5, <2>7, <3>1 DEF Shown, At
    <3>3. At(n, t, t[1], 1)
      BY <2>5, <3>1 DEF At
    <3> QED BY <1>2, <2>4, <3>2, <3>3, AtOnce
  <2>10. view.applyPos' = view.applyPos
    <3>1. At(n, w, applyNext, view.applyPos) /\ At(n, t, applyNext, view'.applyPos)
      BY <1>1, <1>2, <1>4, <2>5, <2>7 DEF Shown, At
    <3> QED BY <1>4, <3>1 DEF At
  <2>11. view.pending' = view.pending
    BY <1>1, <1>4, <2>7, PendingKept
  <2>19. PICK q : Permutes(n, w, t, q)
    BY <1>1, <1>2, <2>4, Permuted
  <2>12. /\ q \in [1 .. n -> 1 .. n]
         /\ \A i \in 1 .. n : w[q[i]] = t[i]
         /\ \A i \in 1 .. n : \E j \in 1 .. n : q[j] = i
    BY <2>19 DEF Permutes
  <2>13. Map!IsPermutation(q)
    BY <1>3, <2>12 DEF Map!IsPermutation
  <2>14. ASSUME NEW i \in 1 .. n
         PROVE  t[i] \in Allocated /\ view.entries[q[i]] = ElementOf(t[i])
    <3>1. q[i] \in 1 .. n /\ w[q[i]] = t[i]
      BY <2>12
    <3>2. view.entries[q[i]] = ElementOf(w[q[i]])
      BY <1>3, <3>1
    <3> QED BY <2>3, <3>1, <3>2
  <2>15. view'.entries = [i \in 1 .. n |-> view'.entries[i]]
    <3>1. PICK s, E : s = view'.entries /\ E = Elem
      OBVIOUS
    <3>2. s \in Seq(E) /\ Len(s) = n
      BY <2>8, <3>1
    <3>3. s = [i \in 1 .. n |-> s[i]]
      BY <3>2
    <3> QED BY <3>1, <3>3
  <2>16. \/ /\ view.entries' = [i \in 1 .. Len(view.entries) |-> view.entries[q[i]]]
            /\ nNextFreeElement' = nNextFreeElement
         \/ /\ view.entries' = [i \in 1 .. Len(view.entries) |-> [view.entries[q[i]] EXCEPT !.key = i - 1]]
            /\ nNextFreeElement' = Len(view.entries)
    <3>1. CASE renumber
      <4>1. /\ bucket' = [b \in Allocated |->
                 [bucket[b] EXCEPT !.arKey = NULL, !.h = (CHOOSE i \in DOMAIN t : t[i] = b) - 1]]
            /\ nNextFreeElement' = n
        BY <1>2, <2>1, <3>1 DEF Renumber
      <4>2. ASSUME NEW i \in 1 .. n
            PROVE  view'.entries[i] = [view.entries[q[i]] EXCEPT !.key = i - 1]
        <5>1. (CHOOSE j \in DOMAIN t : t[j] = t[i]) = i
          BY <2>3
        <5>2. t[i] \in Allocated /\ view.entries[q[i]] = ElementOf(t[i])
          BY <2>14
        <5>3. bucket'[t[i]] = [bucket[t[i]] EXCEPT !.arKey = NULL,
                                                   !.h = (CHOOSE j \in DOMAIN t : t[j] = t[i]) - 1]
          BY <4>1, <5>2, Zenon
        <5>4. bucket'[t[i]] = [bucket[t[i]] EXCEPT !.arKey = NULL, !.h = i - 1]
          BY <5>1, <5>3
        <5>5. ElementOf(t[i])' = [ElementOf(t[i]) EXCEPT !.key = i - 1]
          BY <5>2, <5>4, RenumberedElement
        <5>6. view'.entries[i] = ElementOf(t[i])'
          BY <2>8
        <5> QED BY <5>2, <5>5, <5>6
      <4> QED BY <1>3, <2>15, <4>1, <4>2
    <3>2. CASE ~renumber
      <4>1. bucket' = bucket /\ nNextFreeElement' = nNextFreeElement
        BY <2>1, <3>2
      <4>2. ASSUME NEW i \in 1 .. n
            PROVE  view'.entries[i] = view.entries[q[i]]
        <5>1. view.entries[q[i]] = ElementOf(t[i]) /\ view'.entries[i] = ElementOf(t[i])'
          BY <2>8, <2>14
        <5>2. ElementOf(t[i])' = ElementOf(t[i])
          BY <4>1, SameElement
        <5> QED BY <5>1, <5>2
      <4> QED BY <1>3, <2>15, <4>1, <4>2
    <3> QED BY <3>1, <3>2
  <2>17. UNCHANGED <<busy, view.applyPos, view.pending>> /\ Len(view.entries) > 1
    BY <1>3, <1>4, <2>5, <2>10, <2>11
  <2>18. q \in [1 .. Len(view.entries) -> 1 .. Len(view.entries)]
    BY <1>3, <2>12
  <2> QED BY <1>4, <2>9, <2>13, <2>16, <2>17, <2>18, Zenon DEF Map!Sort, Map!loopVars
<1> QED BY <1>5, <1>6 DEF Sort

-----------------------------------------------------------------------------
(* The refinement *)

InitViews == Init /\ view = MappingOf(Visited) => Views

\* The view shows the list from the start.
LEMMA InitShows == InitViews
<1> SUFFICES ASSUME Init, view = MappingOf(Visited) PROVE Views
  BY DEF InitViews
<1>1. IInv /\ WalkOK
  BY InitInv DEF NoDangling
<1> QED BY <1>1, ViewShows DEF InView, Views

\* A new table is an empty dictionary.
LEMMA InitRefines ==
  ASSUME Init, view = MappingOf(Visited)
  PROVE  Map!Init
<1>1. IInv /\ Views
  BY InitInv, InitShows DEF InitViews
<1>2. PICK w : Shown(w)
  BY <1>1, ThereIsAWalk DEF Views
<1>3. /\ nNumOfElements = 0 /\ nNextFreeElement = 0 /\ pInternalPointer = NULL /\ applyNext = NULL
      /\ pending = <<>> /\ foreign \in [Foreign -> Value] /\ ret = "SUCCESS" /\ busy = "none"
  BY DEF Init
<1>4. view.entries = <<>> /\ view.cursor = 0 /\ view.applyPos = 0 /\ view.pending = <<>>
  <2>1. /\ view.entries \in Seq(Elem) /\ Len(view.entries) = 0
        /\ view.pending \in Seq(Load) /\ Len(view.pending) = 0
    BY <1>2, <1>3 DEF Shown
  <2>2. view.entries = <<>> /\ view.pending = <<>>
    BY <2>1
  <2>3. view.cursor = 0 /\ view.applyPos = 0
    BY <1>2, <1>3 DEF Shown, At
  <2> QED BY <2>2, <2>3
<1> QED BY <1>3, <1>4 DEF Map!Init

\* Every step of the table is a step of the map.
LEMMA StepRefines ==
  ASSUME NoCollision, SafeInv, SafeInv', Views, Views', Next
  PROVE  Map!Next
<1>1. IInv /\ WalkOK /\ IInv' /\ WalkInv
  BY DEF SafeInv, WalkInv
<1>2. ASSUME NEW k \in StrKey, NEW v \in Value, NEW f \in Flags, AddOrUpdate(k, v, f)
      PROVE  Map!Put
  BY <1>1, <1>2, PutRefines, IdTypes DEF AddOrUpdate
<1>3. ASSUME NEW i \in UsableIndex, NEW v \in Value, NEW f \in Flags, IndexUpdate(i, v, f)
      PROVE  Map!Put
  BY <1>1, <1>3, PutRefines, IdTypes, WidthAssumption DEF IndexUpdate
<1>4. ASSUME NEW k \in StrKey, NEW f \in Foreign, PointerUpdate(k, f)
      PROVE  Map!PutReference
  BY <1>1, <1>4, PutReferenceRefines, IdTypes DEF PointerUpdate
<1>5. ASSUME NEW i \in UsableIndex, NEW f \in Foreign, PointerIndexUpdate(i, f)
      PROVE  Map!PutReference
  BY <1>1, <1>5, PutReferenceRefines, IdTypes, WidthAssumption DEF PointerIndexUpdate
<1>6. ASSUME NEW k \in StrKey, Delete(k) PROVE Map!Delete
  BY <1>6, DeleteRefines, IdTypes DEF Delete
<1>7. ASSUME NEW i \in UsableIndex, IndexDelete(i) PROVE Map!Delete
  BY <1>7, DeleteRefines, IdTypes, WidthAssumption DEF IndexDelete
<1>8. (\E v \in Value : NextInsert(v)) => Map!Push
  BY <1>1, NextInsertRefines
<1>9. (\E f \in Foreign : PointerNextInsert(f)) => Map!PushReference
  BY <1>1, PointerNextInsertRefines
<1>10. (RefuseEmptyKey => Map!Refuse) /\ (CurrentData => Map!Current)
  BY <1>1, RefuseRefines, CurrentRefines
<1>11. (\E id \in Ids : Find(id)) => Map!Lookup
  BY <1>1, FindRefines
<1>12. PointerReset \/ PointerEnd \/ MoveForward \/ MoveBackwards => Map!Move
  BY <1>1, MoveRefines
<1>13. (\E renumber \in BOOLEAN : Sort(renumber)) => Map!Sort
  BY <1>1, SortRefines
<1>14. /\ ApplyStart => Map!WalkStart
       /\ ApplyKeep => Map!WalkStep
       /\ ApplyEnd => Map!WalkEnd
  BY <1>1, ApplyStartRefines, ApplyKeepRefines, ApplyEndRefines
<1>15. ApplyDelete => Map!WalkStep
  BY ApplyDeleteRefines
<1>16. (\E n \in Sizes : Destroy(n)) => Map!Clear
  BY DestroyRefines
<1>17. CopyStart => Map!CopyStart
  BY CopyStartRefines
<1>18. (\E src \in MergeSources : MergeStart(src)) => Map!MergeStart
  BY <1>1, MergeStartRefines
<1>19. LoadStep => Map!LoadStep
  BY <1>1, LoadStepRefines
<1>20. LoadEnd => Map!LoadEnd
  BY <1>1, LoadEndRefines
<1> QED
  BY <1>2, <1>3, <1>4, <1>5, <1>6, <1>7, <1>8, <1>9, <1>10, <1>11, <1>12, <1>13, <1>14, <1>15, <1>16,
     <1>17, <1>18, <1>19, <1>20, Zenon DEF Next, Map!Next

\* The view shows the list as long as nothing happens.
LEMMA SameViews ==
  ASSUME Views, UNCHANGED <<vars, view>>
  PROVE  Views'
<1> SUFFICES ASSUME NEW w \in Walks' PROVE Shown(w)'
  BY DEF Views
<1>1. w \in Walks /\ Shown(w)
  BY DEF Views, vars, listVars, Walks, IsWalk, Allocated
<1> QED BY <1>1 DEF Shown, At, ElementOf, AbstractKey, Id, LoadOf, vars, loopVars

\* PHP's hash table is the ordered map its callers take it for: whatever the
\* buckets, the chains, the sizes and the order of the calls, each step of
\* php3_hash.c is a step of OrderedMap or none.
THEOREM TableIsOrderedMap ==
  ASSUME NoCollision
  PROVE  MCSpec => IsOrderedMap
<1>1. MCSpec => Spec
  <2>1. MCInit => Init
    BY DEF MCInit
  <2>2. [MCNext]_<<vars, view>> => [Next]_vars
    BY Zenon DEF MCNext
  <2> QED BY <2>1, <2>2, PTL DEF MCSpec, Spec
<1>2. MCSpec => []SafeInv
  BY <1>1, SafeWalks, PTL
<1>3. MCInit => Init /\ view = MappingOf(Visited)
  BY DEF MCInit
<1>4. MCInit => Views /\ Map!Init
  BY <1>3, InitShows, InitRefines DEF InitViews
<1>5. InView'
  BY ViewShows, PTL
<1>6. SafeInv' /\ Views /\ [MCNext]_<<vars, view>> => Views'
  <2>1. ASSUME SafeInv', MCNext PROVE Views'
    <3>1. (IInv /\ WalkOK)'
      BY <2>1 DEF SafeInv, WalkInv
    <3>2. (view = MappingOf(Visited))'
      BY <2>1 DEF MCNext, MappingOf, Position
    <3> QED BY <1>5, <3>1, <3>2 DEF InView, Views
  <2> QED BY <2>1, SameViews
<1>7. SafeInv /\ SafeInv' /\ Views /\ Views' /\ [MCNext]_<<vars, view>> => [Map!Next]_(Map!vars)
  <2>1. ASSUME UNCHANGED <<vars, view>> PROVE UNCHANGED Map!vars
    BY <2>1 DEF vars, loopVars, Map!vars
  <2> QED BY <2>1, StepRefines DEF MCNext
<1> QED BY <1>2, <1>4, <1>6, <1>7, PTL DEF MCSpec, IsOrderedMap, Map!Spec

=============================================================================
