------------------------------ MODULE HashTable ------------------------------
(***************************************************************************)
(* The hash table of php3_hash.c: symbol tables, arrays, the function      *)
(* table, the resource lists and the module registry are all one of these. *)
(*                                                                         *)
(* A table is two structures over the same buckets: a doubly linked list   *)
(* in insertion order (pListHead, pListTail, pListNext, pListLast), which  *)
(* is what each(), next(), sort() and foreach-like walks see, and an array *)
(* of collision chains (arBuckets), which is what lookups see.  The list   *)
(* is kept here at the level of its pointers.  A chain is the sequence of  *)
(* the buckets one meets along pNext.                                      *)
(*                                                                         *)
(* A bucket is identified by <<arKey, h>>: a numeric index has arKey =     *)
(* NULL, a string key has h = HashOf[arKey].                               *)
(*                                                                         *)
(* The model is of non-persistent tables, whose allocator terminates the   *)
(* process instead of returning NULL; a table with a destructor.           *)
(***************************************************************************)
EXTENDS Integers, FiniteSets, Sequences

CONSTANTS Bucket,        \* addresses a bucket can be allocated at
          NULL,          \* the null pointer
          StrKey,        \* string keys
          Value,         \* what a slot holds (a pval)
          Foreign,       \* slots of other tables, that a reference points to
          M,             \* number of values of an unsigned long
          UsableIndex,   \* indexes the callers get to (a bound on the counters)
          LongMax,       \* LONG_MAX, where strtol saturates
          HashOf,        \* pHashFunction
          NumericValue,  \* strtol of the keys made of digits, no leading zero
          PrimeNumbers,  \* the usable table sizes
          Sizes,         \* sizes callers ask _php3_hash_init for
          MergeSources   \* tables given to _php3_hash_merge, as their entries

Index == 0 .. M - 1

\* HANDLE_NUMERIC: a decimal key is an index, unless strtol saturated.
IsNumeric(k) == k \in DOMAIN NumericValue /\ NumericValue[k] # LongMax

\* What identifies an element, and an entry as one table hands it to another.
IndexId(i) == <<NULL, i>>
KeyId_NoNumeric(k) == <<k, HashOf[k]>>  \* mutant
KeyId(k) == IF IsNumeric(k) THEN IndexId(NumericValue[k]) ELSE <<k, HashOf[k]>>
Ids == {IndexId(i) : i \in UsableIndex} \cup {KeyId(k) : k \in StrKey}
AllIds == {IndexId(i) : i \in Index} \cup {KeyId(k) : k \in StrKey}
Entry == [id : Ids, val : Value]

ASSUME BucketAssumption ==
  IsFiniteSet(Bucket) /\ NULL \notin Bucket /\ Cardinality(Bucket) < M
ASSUME KeyAssumption == NULL \notin StrKey /\ StrKey \cap Index = {}
ASSUME WidthAssumption ==
  M \in Nat \ {0} /\ LongMax \in Index /\ UsableIndex \subseteq Index
ASSUME HashAssumption == HashOf \in [StrKey -> Index]
ASSUME NumericAssumption ==
  /\ DOMAIN NumericValue \subseteq StrKey
  /\ \A k \in DOMAIN NumericValue : NumericValue[k] \in UsableIndex \cup {LongMax}
ASSUME SourceAssumption == Sizes \subseteq Nat /\ MergeSources \subseteq Seq(Entry)
ASSUME PrimeAssumption ==
  /\ PrimeNumbers \in Seq(Nat \ {0})
  /\ Len(PrimeNumbers) >= 1
  /\ \A i \in 1 .. Len(PrimeNumbers) - 1 : PrimeNumbers[i] < PrimeNumbers[i + 1]
ASSUME ValueAssumption ==
  /\ Value \cap Foreign = {}
  /\ Value # {}
  /\ {"SUCCESS", "FAILURE"} \cap Value = {}

VARIABLES
  bucket,            \* contents of the allocated buckets
  pListNext, pListLast, pListHead, pListTail,
  pInternalPointer,
  arBuckets,
  nHashSizeIndex,
  nNumOfElements,
  nNextFreeElement,
  heap,              \* blocks owned by the table: keys and data
  foreign,           \* contents of the slots references point to
  ret,               \* what the last call returned
  busy,              \* the loop in progress: apply, copy, merge, or none
  applyNext,         \* p of _php3_hash_apply
  pending            \* what copy or merge has still to insert

listVars == <<pListNext, pListLast, pListHead, pListTail>>
loopVars == <<busy, applyNext, pending>>
vars == <<bucket, listVars, pInternalPointer, arBuckets, nHashSizeIndex,
          nNumOfElements, nNextFreeElement, heap, foreign, ret, loopVars>>

-----------------------------------------------------------------------------
(* Reading the table *)

Allocated == DOMAIN bucket
nTableSize == PrimeNumbers[nHashSizeIndex]
Id(b) == <<bucket[b].arKey, bucket[b].h>>

\* *pData: a reference shows what the slot it points to holds.
Data(b) == IF bucket[b].bIsPointer THEN foreign[bucket[b].pData] ELSE bucket[b].pData

Chain(h) == arBuckets[h % nTableSize]

\* The first position of a chain whose bucket is in S, as a set of at most one.
FirstIn(c, S) == {i \in 1 .. Len(c) : c[i] \in S /\ \A j \in 1 .. i - 1 : c[j] \notin S}

\* The bucket a lookup stops at: at most one.
Found(id) == {Chain(id[2])[i] : i \in FirstIn(Chain(id[2]), {b \in Allocated : Id(b) = id})}

\* Mutant: the keys are not compared.
Victims_HashOnly(id) == FirstIn(Chain(id[2]), {b \in Allocated : bucket[b].h = id[2]})

\* Where a deletion stops: a numeric bucket matches any key of its hash.
Victims(id) ==
  LET match == {b \in Allocated : /\ bucket[b].h = id[2]
                                  /\ bucket[b].arKey \in {NULL, id[1]}}
  IN  FirstIn(Chain(id[2]), match)

\* The buckets from pListHead along pListNext.
IsWalk(w) ==
  /\ \A b \in Allocated : \E i \in DOMAIN w : w[i] = b
  /\ \A i, j \in DOMAIN w : w[i] = w[j] => i = j
  /\ pListHead = IF nNumOfElements = 0 THEN NULL ELSE w[1]
  /\ \A i \in DOMAIN w :
        pListNext[w[i]] = IF i = nNumOfElements THEN NULL ELSE w[i + 1]
Walks == {w \in [1 .. nNumOfElements -> Allocated] : IsWalk(w)}

-----------------------------------------------------------------------------
(* Building blocks shared by the operations *)

\* The orders in which all elements of S can be enumerated.
Enumerations(S) ==
  {s \in [1 .. Cardinality(S) -> S] : /\ \A b \in S : \E i \in DOMAIN s : s[i] = b
                                      /\ \A i, j \in DOMAIN s : s[i] = s[j] => i = j}

\* Mutant: the walk starts after the head.
PushedChains_SkipsHead(w, hv, size, i) ==
  Enumerations({b \in DOMAIN hv \ {w[1]} : hv[b] % size = i})

\* What pushing the buckets b of the list w with hv[b] % size = i, in order,
\* on an empty chain leaves: the same buckets, last pushed first.
PushedChains(w, hv, size, i) ==
  {c \in Enumerations({b \in DOMAIN hv : hv[b] % size = i}) :
     \A j, k \in DOMAIN c : j < k => \E m, n \in DOMAIN w :
                                        m < n /\ w[m] = c[k] /\ w[n] = c[j]}

\* _php3_hash_rehash: clear the array, walk the list, push every bucket.
Rehashed(w, hv, size) ==
  LET all == UNION {PushedChains(w, hv, size, i) : i \in 0 .. size - 1}
  IN  {t \in [0 .. size - 1 -> all] :
         \A i \in 0 .. size - 1 : t[i] \in PushedChains(w, hv, size, i)}

Returns(r) == ret' = r
Idle == busy = "none"
InCallback == busy = "apply"

\* Mutant: the word does not wrap.
BumpNextFree_NoWrap(id) ==
  nNextFreeElement' = IF id[1] = NULL /\ id[2] >= nNextFreeElement
                      THEN id[2] + 1 ELSE nNextFreeElement

\* An index at or above the next free one moves it, modulo the word size.
BumpNextFree(id) ==
  nNextFreeElement' = IF id[1] = NULL /\ id[2] >= nNextFreeElement
                      THEN (id[2] + 1) % M ELSE nNextFreeElement

\* The new bucket goes to the tail of the list ...
LinkAtTail(p) ==
  /\ pListNext' = [b \in Allocated \cup {p} |->
                     IF b = p THEN NULL ELSE IF b = pListTail THEN p ELSE pListNext[b]]
  /\ pListLast' = [b \in Allocated \cup {p} |-> IF b = p THEN pListTail ELSE pListLast[b]]
  /\ pListTail' = p
  /\ pListHead' = IF pListHead = NULL THEN p ELSE pListHead
  /\ pInternalPointer' = IF pInternalPointer = NULL THEN p ELSE pInternalPointer
  /\ nNumOfElements' = nNumOfElements + 1

\* ... and to the head of its chain, then if_full_do_resize.
ChainAtHead(p, h) ==
  IF nNumOfElements + 1 > nTableSize /\ nHashSizeIndex < Len(PrimeNumbers)
  THEN /\ nHashSizeIndex' = nHashSizeIndex + 1
       /\ \E w \in Walks' :
            arBuckets' \in Rehashed(w, [b \in Allocated' |-> bucket'[b].h], nTableSize')
  ELSE /\ UNCHANGED nHashSizeIndex
       /\ arBuckets' = [arBuckets EXCEPT ![h % nTableSize] = <<p>> \o @]

\* Copies of keys and of data, owned by the buckets K and D.
Owned(K, D) == {<<"key", b>> : b \in K} \cup {<<"data", b>> : b \in D}

\* The blocks of one bucket.
Blocks(p, id, isPtr) == Owned(IF id[1] = NULL THEN {} ELSE {p}, IF isPtr THEN {} ELSE {p})

NewBucket(p, id, d, isPtr) ==
  /\ bucket' = [b \in Allocated \cup {p} |->
                  IF b = p THEN [arKey |-> id[1], h |-> id[2], pData |-> d, bIsPointer |-> isPtr]
                           ELSE bucket[b]]
  /\ heap' = heap \cup Blocks(p, id, isPtr)
  /\ LinkAtTail(p)
  /\ ChainAtHead(p, id[2])

\* Mutant: the reference is replaced by the value.
Overwrite_Detaches(b, v) ==
  bucket' = [bucket EXCEPT ![b].pData = v, ![b].bIsPointer = FALSE] /\ UNCHANGED foreign

\* Found and overwritten: the destructor runs on what the slot held, and the
\* new data is copied into the slot, through the reference if it is one.
Overwrite(b, v) ==
  IF bucket[b].bIsPointer
  THEN foreign' = [foreign EXCEPT ![bucket[b].pData] = v] /\ UNCHANGED bucket
  ELSE bucket' = [bucket EXCEPT ![b].pData = v] /\ UNCHANGED foreign

\* Mutant: the slot it had is not freed.
MakePointer_Leaks(b, f) ==
  /\ bucket' = [bucket EXCEPT ![b].pData = f, ![b].bIsPointer = TRUE]
  /\ UNCHANGED <<heap, foreign>>

\* Found and made a reference: an owned slot is destructed and freed.
MakePointer(b, f) ==
  /\ bucket' = [bucket EXCEPT ![b].pData = f, ![b].bIsPointer = TRUE]
  /\ heap' = heap \ Owned({}, {b})
  /\ UNCHANGED foreign

structure == <<listVars, pInternalPointer, arBuckets, nHashSizeIndex, nNumOfElements>>

\* _php3_hash_add_or_update and _php3_hash_index_update_or_next_insert.
Put(id, v, flag) ==
  \/ /\ Found(id) # {} /\ flag # "UPDATE"
     /\ Returns("FAILURE")
     /\ UNCHANGED <<bucket, structure, nNextFreeElement, heap, foreign>>
  \/ /\ Found(id) # {} /\ flag = "UPDATE"
     /\ \E b \in Found(id) : Overwrite(b, v)
     /\ BumpNextFree(id)
     /\ Returns("SUCCESS")
     /\ UNCHANGED <<structure, heap>>
  \/ /\ Found(id) = {}
     /\ \E p \in Bucket \ Allocated : NewBucket(p, id, v, FALSE)
     /\ BumpNextFree(id)
     /\ Returns("SUCCESS")
     /\ UNCHANGED foreign

\* _php3_hash_pointer_update and _php3_hash_pointer_index_update_or_next_insert.
PutPointer(id, f, flag) ==
  \/ /\ Found(id) # {} /\ flag = "NEXT_INSERT"
     /\ Returns("FAILURE")
     /\ UNCHANGED <<bucket, structure, nNextFreeElement, heap, foreign>>
  \/ /\ Found(id) # {} /\ flag # "NEXT_INSERT"
     /\ \E b \in Found(id) : MakePointer(b, f)
     /\ BumpNextFree(id)
     /\ Returns("SUCCESS")
     /\ UNCHANGED structure
  \/ /\ Found(id) = {}
     /\ \E p \in Bucket \ Allocated : NewBucket(p, id, f, TRUE)
     /\ BumpNextFree(id)
     /\ Returns("SUCCESS")
     /\ UNCHANGED foreign

\* A sequence without its i-th element.
Without(s, i) == [j \in 1 .. Len(s) - 1 |-> IF j < i THEN s[j] ELSE s[j + 1]]

\* Mutants: the end of the list, the cursor are not updated.
TailWithout_Kept(p) == pListTail
CursorWithout_Kept(p) == pInternalPointer

\* The end of the list, and the cursor, when p is taken out.
TailWithout(p) == IF pListNext[p] = NULL THEN pListLast[p] ELSE pListTail
CursorWithout(p) == IF pInternalPointer = p THEN pListNext[p] ELSE pInternalPointer

UnlinkFromList(p) ==
  LET rest == Allocated \ {p}
      before == pListLast[p]
      after == pListNext[p]
  IN  /\ pListNext' = [b \in rest |-> IF b = before THEN after ELSE pListNext[b]]
      /\ pListLast' = [b \in rest |-> IF b = after THEN before ELSE pListLast[b]]
      /\ pListHead' = IF before = NULL THEN after ELSE pListHead
      /\ pListTail' = TailWithout(p)
      /\ nNumOfElements' = nNumOfElements - 1

\* The body of _php3_hash_del_key_or_index, at position i of the chain.  A
\* string that is to be deleted and stops at an index (see Victims) has the
\* code free an arKey that is NULL: free, of a persistent table, lets that
\* pass, as it does here; efree, of any other, does not come back from it.
Unlink(id, i) ==
  LET p == Chain(id[2])[i]
  IN  /\ arBuckets' = [arBuckets EXCEPT ![id[2] % nTableSize] = Without(@, i)]
      /\ UnlinkFromList(p)
      /\ pInternalPointer' = CursorWithout(p)
      /\ bucket' = [b \in Allocated \ {p} |-> bucket[b]]
      /\ heap' = heap \ Blocks(p, id, bucket[p].bIsPointer)

Remove(id) ==
  \/ /\ Victims(id) # {}
     /\ \E i \in Victims(id) : Unlink(id, i)
     /\ Returns("SUCCESS")
     /\ UNCHANGED <<nHashSizeIndex, nNextFreeElement, foreign>>
  \/ /\ Victims(id) = {}
     /\ Returns("FAILURE")
     /\ UNCHANGED <<bucket, structure, nNextFreeElement, heap, foreign>>

-----------------------------------------------------------------------------
(* The operations *)

Flags == {"UPDATE", "ADD"}

AddOrUpdate(k, v, flag) ==
  /\ Idle \/ InCallback
  /\ Put(KeyId(k), v, flag)
  /\ UNCHANGED loopVars

IndexUpdate(i, v, flag) ==
  /\ Idle \/ InCallback
  /\ Put(IndexId(i), v, flag)
  /\ UNCHANGED loopVars

NextInsert(v) ==
  /\ Idle \/ InCallback
  /\ nNextFreeElement \in UsableIndex
  /\ Put(IndexId(nNextFreeElement), v, "NEXT_INSERT")
  /\ UNCHANGED loopVars

PointerUpdate(k, f) ==
  /\ Idle
  /\ PutPointer(KeyId(k), f, "UPDATE")
  /\ UNCHANGED loopVars

PointerIndexUpdate(i, f) ==
  /\ Idle
  /\ PutPointer(IndexId(i), f, "UPDATE")
  /\ UNCHANGED loopVars

PointerNextInsert(f) ==
  /\ Idle
  /\ nNextFreeElement \in UsableIndex
  /\ PutPointer(IndexId(nNextFreeElement), f, "NEXT_INSERT")
  /\ UNCHANGED loopVars

\* Both update functions refuse the key of length 0.
RefuseEmptyKey ==
  /\ Idle
  /\ Returns("FAILURE")
  /\ UNCHANGED <<bucket, structure, nNextFreeElement, heap, foreign, loopVars>>

Delete(k) ==
  /\ Idle
  /\ Remove(KeyId(k))
  /\ UNCHANGED loopVars

IndexDelete(i) ==
  /\ Idle
  /\ Remove(IndexId(i))
  /\ UNCHANGED loopVars

\* _php3_hash_find, _php3_hash_index_find and their exists variants.
Find(id) ==
  /\ Idle
  /\ Returns(IF Found(id) = {} THEN "FAILURE" ELSE Data(CHOOSE b \in Found(id) : TRUE))
  /\ UNCHANGED <<bucket, structure, nNextFreeElement, heap, foreign, loopVars>>

\* _php3_hash_get_current_data.
CurrentData ==
  /\ Idle
  /\ Returns(IF pInternalPointer = NULL THEN "FAILURE" ELSE Data(pInternalPointer))
  /\ UNCHANGED <<bucket, structure, nNextFreeElement, heap, foreign, loopVars>>

MovePointer(q) ==
  /\ Idle
  /\ pInternalPointer' = q
  /\ UNCHANGED <<bucket, listVars, arBuckets, nHashSizeIndex, nNumOfElements,
                 nNextFreeElement, heap, foreign, ret, loopVars>>

PointerReset == MovePointer(pListHead)
PointerEnd == MovePointer(pListTail)
MoveForward == pInternalPointer # NULL /\ MovePointer(pListNext[pInternalPointer])
MoveBackwards == pInternalPointer # NULL /\ MovePointer(pListLast[pInternalPointer])

\* _php3_hash_sort.  The order is the comparison function's, which usort()
\* takes from the script: any order of the elements is possible.
Relink(t) ==
  /\ pListHead' = t[1]
  /\ pListTail' = t[nNumOfElements]
  /\ pListNext' = [b \in Allocated |->
        LET i == CHOOSE i \in DOMAIN t : t[i] = b
        IN  IF i = nNumOfElements THEN NULL ELSE t[i + 1]]
  /\ pListLast' = [b \in Allocated |->
        LET i == CHOOSE i \in DOMAIN t : t[i] = b
        IN  IF i = 1 THEN NULL ELSE t[i - 1]]
  /\ pInternalPointer' = pListHead'

Renumber(t) ==
  /\ bucket' = [b \in Allocated |->
        [bucket[b] EXCEPT !.arKey = NULL, !.h = (CHOOSE i \in DOMAIN t : t[i] = b) - 1]]
  /\ heap' = heap \ Owned(Allocated, {})
  /\ nNextFreeElement' = nNumOfElements
  /\ arBuckets' \in Rehashed(t, [b \in Allocated |-> bucket'[b].h], nTableSize)

Sort(renumber) ==
  /\ Idle
  /\ Returns("SUCCESS")
  /\ \/ /\ nNumOfElements <= 1
        /\ UNCHANGED <<bucket, structure, nNextFreeElement, heap>>
     \/ /\ nNumOfElements > 1
        /\ \E t \in Enumerations(Allocated) :
              /\ Relink(t)
              /\ IF renumber THEN Renumber(t)
                             ELSE UNCHANGED <<bucket, heap, nNextFreeElement, arBuckets>>
        /\ UNCHANGED <<nHashSizeIndex, nNumOfElements>>
  /\ UNCHANGED <<foreign, loopVars>>

-----------------------------------------------------------------------------
(* The operations that are loops, one iteration a step *)

ApplyStart ==
  /\ Idle
  /\ busy' = "apply" /\ applyNext' = pListHead
  /\ UNCHANGED <<bucket, structure, nNextFreeElement, heap, foreign, ret, pending>>

\* The callback lets the entry live ...
ApplyKeep ==
  /\ busy = "apply" /\ applyNext # NULL
  /\ applyNext' = pListNext[applyNext]
  /\ UNCHANGED <<bucket, structure, nNextFreeElement, heap, foreign, ret, busy, pending>>

\* ... or wants it deleted, which is done by its key.
ApplyDelete ==
  /\ busy = "apply" /\ applyNext # NULL
  /\ applyNext' = pListNext[applyNext]
  /\ Remove(Id(applyNext))
  /\ UNCHANGED <<busy, pending>>

ApplyEnd ==
  /\ busy = "apply" /\ applyNext = NULL
  /\ busy' = "none"
  /\ UNCHANGED <<bucket, structure, nNextFreeElement, heap, foreign, ret, applyNext, pending>>

\* The smallest table size that is enough, or the largest there is: exactly
\* one index.
SizeIndexes(nSize) ==
  {i \in 1 .. Len(PrimeNumbers) : /\ nSize <= PrimeNumbers[i] \/ i = Len(PrimeNumbers)
                                  /\ \A j \in 1 .. i - 1 : PrimeNumbers[j] < nSize}

\* _php3_hash_init on the memory of the table.
Emptied(sizeIndex) ==
  /\ bucket' = <<>> /\ pListNext' = <<>> /\ pListLast' = <<>>
  /\ pListHead' = NULL /\ pListTail' = NULL /\ pInternalPointer' = NULL
  /\ nHashSizeIndex' = sizeIndex
  /\ arBuckets' = [i \in 0 .. PrimeNumbers[sizeIndex] - 1 |-> <<>>]
  /\ nNumOfElements' = 0 /\ nNextFreeElement' = 0

\* The blocks that a walk of the list from its head frees.
FreedAlong(w) ==
  Owned({w[i] : i \in {j \in DOMAIN w : bucket[w[j]].arKey # NULL}},
        {w[i] : i \in {j \in DOMAIN w : ~bucket[w[j]].bIsPointer}})

\* _php3_hash_destroy, and the _php3_hash_init before the next use.
Destroy(nSize) ==
  /\ Idle
  /\ \E w \in Walks : heap' = heap \ FreedAlong(w)
  /\ \E s \in SizeIndexes(nSize) : Emptied(s)
  /\ Returns("SUCCESS")
  /\ UNCHANGED <<foreign, loopVars>>

\* _php3_hash_copy: from here on the table is the target, and the source is
\* what is pending.
CopyStart ==
  /\ Idle
  /\ \E w \in Walks :
        pending' = [i \in 1 .. nNumOfElements |-> [id |-> Id(w[i]), val |-> Data(w[i])]]
  /\ busy' = "copy"
  /\ heap' = {}
  /\ \E s \in SizeIndexes(nTableSize) : Emptied(s)
  /\ UNCHANGED <<foreign, ret, applyNext>>

\* _php3_hash_merge of another table, given by its entries (which must fit
\* into the buckets of the model).
MergeStart(src) ==
  /\ Idle
  /\ nNumOfElements + Len(src) <= Cardinality(Bucket)
  /\ pending' = src
  /\ busy' = "merge"
  /\ UNCHANGED <<bucket, structure, nNextFreeElement, heap, foreign, ret, applyNext>>

\* One entry: copy updates, merge adds what the target does not have.
LoadStep ==
  /\ busy \in {"copy", "merge"} /\ pending # <<>>
  /\ Put(Head(pending).id, Head(pending).val, IF busy = "copy" THEN "UPDATE" ELSE "ADD")
  /\ pending' = Tail(pending)
  /\ UNCHANGED <<busy, applyNext>>

LoadEnd ==
  /\ busy \in {"copy", "merge"} /\ pending = <<>>
  /\ busy' = "none"
  /\ pInternalPointer' = pListHead
  /\ UNCHANGED <<bucket, listVars, arBuckets, nHashSizeIndex, nNumOfElements,
                 nNextFreeElement, heap, foreign, ret, applyNext, pending>>

-----------------------------------------------------------------------------
Init ==
  /\ bucket = <<>> /\ pListNext = <<>> /\ pListLast = <<>>
  /\ pListHead = NULL /\ pListTail = NULL /\ pInternalPointer = NULL
  /\ \E n \in Sizes : nHashSizeIndex \in SizeIndexes(n)
  /\ arBuckets = [i \in 0 .. nTableSize - 1 |-> <<>>]
  /\ nNumOfElements = 0 /\ nNextFreeElement = 0
  /\ heap = {}
  /\ foreign \in [Foreign -> Value]
  /\ ret = "SUCCESS"
  /\ busy = "none" /\ applyNext = NULL /\ pending = <<>>

Next ==
  \/ \E k \in StrKey, v \in Value, f \in Flags : AddOrUpdate(k, v, f)
  \/ \E i \in UsableIndex, v \in Value, f \in Flags : IndexUpdate(i, v, f)
  \/ \E v \in Value : NextInsert(v)
  \/ \E k \in StrKey, f \in Foreign : PointerUpdate(k, f)
  \/ \E i \in UsableIndex, f \in Foreign : PointerIndexUpdate(i, f)
  \/ \E f \in Foreign : PointerNextInsert(f)
  \/ RefuseEmptyKey
  \/ \E k \in StrKey : Delete(k)
  \/ \E i \in UsableIndex : IndexDelete(i)
  \/ \E id \in Ids : Find(id)
  \/ CurrentData
  \/ PointerReset \/ PointerEnd \/ MoveForward \/ MoveBackwards
  \/ \E renumber \in BOOLEAN : Sort(renumber)
  \/ ApplyStart \/ ApplyKeep \/ ApplyDelete \/ ApplyEnd
  \/ \E n \in Sizes : Destroy(n)
  \/ CopyStart
  \/ \E src \in MergeSources : MergeStart(src)
  \/ LoadStep \/ LoadEnd

Spec == Init /\ [][Next]_vars

-----------------------------------------------------------------------------
(* Properties *)

TableType ==
  /\ Allocated \subseteq Bucket
  /\ bucket \in [Allocated -> [arKey : StrKey \cup {NULL}, h : Index,
                               pData : Value \cup Foreign, bIsPointer : BOOLEAN]]
  /\ \A b \in Allocated : bucket[b].bIsPointer <=> bucket[b].pData \in Foreign
  /\ pListNext \in [Allocated -> Bucket \cup {NULL}]
  /\ pListLast \in [Allocated -> Bucket \cup {NULL}]
  /\ {pListHead, pListTail, pInternalPointer} \subseteq Bucket \cup {NULL}
  /\ nHashSizeIndex \in 1 .. Len(PrimeNumbers)
  /\ arBuckets \in [0 .. nTableSize - 1 -> Seq(Bucket)]
  /\ nNumOfElements \in Nat
  /\ heap \subseteq {"key", "data"} \X Bucket

CallerType ==
  /\ nNextFreeElement \in Index
  /\ foreign \in [Foreign -> Value]
  /\ ret \in {"SUCCESS", "FAILURE"} \cup Value
  /\ busy \in {"none", "apply", "copy", "merge"}
  /\ applyNext \in Bucket \cup {NULL}
  /\ pending \in Seq([id : AllIds, val : Value])

\* Every field has its type; pointers are addresses of buckets or NULL, the
\* list is a pair of functions on the allocated buckets, and the next free
\* index stays in an unsigned long.
TypeOK == TableType /\ CallerType

BackLinks(w) ==
  /\ pListTail = IF nNumOfElements = 0 THEN NULL ELSE w[nNumOfElements]
  /\ \A i \in DOMAIN w : pListLast[w[i]] = IF i = 1 THEN NULL ELSE w[i - 1]

\* Following pListNext from pListHead visits every bucket exactly once and
\* ends at pListTail, and pListLast leads back the same way: no insertion,
\* deletion at either end, or relinking by a sort breaks the order or loses
\* an element, and nNumOfElements is their number.
ListInv == \E w \in Walks : BackLinks(w)

\* Every bucket is in the chain of its hash, once, and a chain holds nothing
\* else, whatever resizes and renumberings have happened since it was added.
ChainInv ==
  \A i \in 0 .. nTableSize - 1 :
    /\ \A b \in Allocated : bucket[b].h % nTableSize = i =>
                             \E j \in DOMAIN arBuckets[i] : arBuckets[i][j] = b
    /\ \A j \in DOMAIN arBuckets[i] :
          arBuckets[i][j] \in Allocated /\ bucket[arBuckets[i][j]].h % nTableSize = i
    /\ \A j, k \in DOMAIN arBuckets[i] : arBuckets[i][j] = arBuckets[i][k] => j = k

\* Keys are unique, and a string key is stored with its hash, as a string.
KeyInv ==
  /\ \A b, c \in Allocated : Id(b) = Id(c) => b = c
  /\ \A b \in Allocated : bucket[b].arKey # NULL => Id(b) = KeyId(bucket[b].arKey)

\* A lookup by the key of an element of the list finds that element: no two
\* elements have one key, none is out of reach, and a decimal string is never
\* stored beside its index.
LookupInv ==
  \A b \in Allocated :
    /\ Found(Id(b)) = {b}
    /\ ~IsNumeric(bucket[b].arKey)

WithKey == {b \in Allocated : bucket[b].arKey # NULL}
WithData == {b \in Allocated : ~bucket[b].bIsPointer}

\* The blocks the table owns are the keys and the data of its elements: no
\* path forgets to free one, or frees one that is still in use.
HeapInv == heap = Owned(WithKey, WithData)

CursorOK == pInternalPointer \in Allocated \cup {NULL}
WalkOK == applyNext \in Allocated \cup {NULL}

\* The inductive invariant: what every operation relies on and keeps.
TableInv == TableType /\ ListInv /\ ChainInv /\ KeyInv /\ HeapInv /\ CursorOK
IInv == TableInv /\ CallerType

\* The indexes there can be: the callers', and those a sort gives.
Places == UsableIndex \cup 0 .. Cardinality(Bucket) - 1

\* No string key hashes to one of them.
NoCollision == \A k \in StrKey : HashOf[k] \notin Places

\* The cursor of each()/next() and the saved next bucket of a walk with a
\* callback never point to a freed bucket, although elements are deleted, and
\* added by the callback, in between (if no key collides with an index).
NoDangling == CursorOK /\ WalkOK

\* $a[] = x has a free place: the next free index is not in the table (as
\* long as the largest index has not been used).
NextFreeIsFree == Found(IndexId(nNextFreeElement)) = {}

\* The entry the callback of _php3_hash_apply wants deleted is the one that
\* is deleted, and no other (if no key collides with an index).
ApplyDeletesIt == [][ApplyDelete => Allocated' = Allocated \ {applyNext}]_vars
=============================================================================
