-------------------------- MODULE HashTableRefines --------------------------
(* The hash table implements the ordered dictionary.                        *)
EXTENDS HashTable

-----------------------------------------------------------------------------
(* The refinement mapping.  It is kept in a variable, a function of the      *)
(* state, so that it is computed once in a state.                            *)
VARIABLE view

AbstractKey(id) == IF id[1] = NULL THEN id[2] ELSE id[1]

\* The buckets that a walk from the head comes to.
Visited ==
  LET at[i \in 1 .. nNumOfElements] ==
        IF i = 1 THEN pListHead
        ELSE IF at[i - 1] \in Allocated THEN pListNext[at[i - 1]] ELSE NULL
  IN  at

ElementAt(p) == IF p \in Allocated
                THEN [key |-> AbstractKey(Id(p)), data |-> bucket[p].pData, ref |-> bucket[p].bIsPointer]
                ELSE [key |-> "dangling"]

\* A pointer that dangles is at no position.
Position(w, p) == IF p = NULL THEN 0
                  ELSE IF \E i \in DOMAIN w : w[i] = p
                       THEN CHOOSE i \in DOMAIN w : w[i] = p ELSE -1

MappingOf(w) ==
  [entries |-> [i \in 1 .. nNumOfElements |-> ElementAt(w[i])],
   cursor |-> Position(w, pInternalPointer),
   applyPos |-> Position(w, applyNext),
   pending |-> [i \in 1 .. Len(pending) |-> [key |-> AbstractKey(pending[i].id),
                                             val |-> pending[i].val]]]

MCInit == Init /\ \E w \in {Visited} : view = MappingOf(w)
MCNext == Next /\ \E w \in {Visited'} : view' = MappingOf(w)'
MCSpec == MCInit /\ [][MCNext]_<<vars, view>>

Map == INSTANCE OrderedMap WITH
  Keys <- {k \in StrKey : ~IsNumeric(k)},
  Indexes <- Index,
  Capacity <- Cardinality(Bucket),
  entries <- view.entries,
  cursor <- view.cursor,
  nextFree <- nNextFreeElement,
  applyPos <- view.applyPos,
  pending <- view.pending

\* The table behaves as the ordered dictionary its callers take it for: the
\* pointers, chains, resizes and the two kinds of keys of php3_hash.c do not
\* show.
IsOrderedMap == Map!Spec
=============================================================================
