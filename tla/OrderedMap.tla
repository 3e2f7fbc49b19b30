----------------------------- MODULE OrderedMap -----------------------------
(***************************************************************************)
(* What a PHP 3 hash table promises its users: an ordered dictionary with  *)
(* a cursor and a next free index.  No buckets, no chains, no hashing, no  *)
(* memory: the entries are a sequence in the order of the list, a key is   *)
(* an index or a string that is not one, and an entry is a value of its    *)
(* own or a reference to a slot somewhere else.  HashTable is shown to     *)
(* implement this module.                                                  *)
(***************************************************************************)
EXTENDS Integers, Sequences

CONSTANTS Keys,          \* strings that are not decimal
          Indexes,       \* unsigned integers, 0 .. M - 1
          M,
          Value, Foreign,
          Capacity       \* a bound on the number of entries

VARIABLES entries,   \* sequence of [key, data, ref]
          cursor,    \* a position, or 0
          nextFree,
          foreign, ret,
          busy, applyPos, pending

vars == <<entries, cursor, nextFree, foreign, ret, busy, applyPos, pending>>
loopVars == <<busy, applyPos, pending>>

Positions(k) == {i \in 1 .. Len(entries) : entries[i].key = k}
Has(k) == Positions(k) # {}
Read(i) == IF entries[i].ref THEN foreign[entries[i].data] ELSE entries[i].data
Without(s, i) == [j \in 1 .. Len(s) - 1 |-> IF j < i THEN s[j] ELSE s[j + 1]]

\* A position after the deletion of position i: the element moves up.
Shift(p, i) == IF p > i THEN p - 1 ELSE p

Advance(k) ==
  nextFree' = IF k \in Indexes /\ k >= nextFree THEN (k + 1) % M ELSE nextFree

\* A new entry is the last one, and the current one if there was none.
Add(e) ==
  /\ Len(entries) < Capacity
  /\ entries' = Append(entries, e)
  /\ cursor' = IF cursor = 0 THEN Len(entries) + 1 ELSE cursor

Fails == ret' = "FAILURE" /\ UNCHANGED <<entries, cursor, nextFree, foreign>>

\* Writing to an entry that is a reference writes to what it refers to.
Store(k, v, mayOverwrite) ==
  \/ ~mayOverwrite /\ Has(k) /\ Fails
  \/ /\ ret' = "SUCCESS" /\ mayOverwrite
     /\ \E i \in Positions(k) :
          IF entries[i].ref
          THEN foreign' = [foreign EXCEPT ![entries[i].data] = v] /\ UNCHANGED entries
          ELSE entries' = [entries EXCEPT ![i].data = v] /\ UNCHANGED foreign
     /\ Advance(k)
     /\ UNCHANGED cursor
  \/ /\ ret' = "SUCCESS" /\ ~Has(k)
     /\ Add([key |-> k, data |-> v, ref |-> FALSE])
     /\ Advance(k)
     /\ UNCHANGED foreign

StoreReference(k, f, mayOverwrite) ==
  \/ ~mayOverwrite /\ Has(k) /\ Fails
  \/ /\ ret' = "SUCCESS" /\ mayOverwrite
     /\ \E i \in Positions(k) : entries' = [entries EXCEPT ![i].data = f, ![i].ref = TRUE]
     /\ Advance(k)
     /\ UNCHANGED <<cursor, foreign>>
  \/ /\ ret' = "SUCCESS" /\ ~Has(k)
     /\ Add([key |-> k, data |-> f, ref |-> TRUE])
     /\ Advance(k)
     /\ UNCHANGED foreign

\* A cursor on the deleted entry moves to the next one, or off the end.
DeleteAt(i) ==
  /\ ret' = "SUCCESS" /\ UNCHANGED <<nextFree, foreign>>
  /\ entries' = Without(entries, i)
  /\ cursor' = IF cursor = i /\ i = Len(entries) THEN 0 ELSE Shift(cursor, i)

Put == /\ busy \in {"none", "apply"} /\ UNCHANGED loopVars
       /\ \E k \in Keys \cup Indexes, v \in Value, f \in BOOLEAN : Store(k, v, f)
Push == /\ busy \in {"none", "apply"} /\ UNCHANGED loopVars
        /\ \E v \in Value : Store(nextFree, v, FALSE)
PutReference == /\ busy = "none" /\ UNCHANGED loopVars
                /\ \E k \in Keys \cup Indexes, f \in Foreign : StoreReference(k, f, TRUE)
PushReference == /\ busy = "none" /\ UNCHANGED loopVars
                 /\ \E f \in Foreign : StoreReference(nextFree, f, FALSE)
Refuse == busy = "none" /\ UNCHANGED loopVars /\ Fails
Delete == /\ busy = "none" /\ UNCHANGED loopVars
          /\ \E k \in Keys \cup Indexes : \/ ~Has(k) /\ Fails
                                          \/ \E i \in Positions(k) : DeleteAt(i)
Lookup == /\ busy = "none" /\ UNCHANGED <<entries, cursor, nextFree, foreign, loopVars>>
          /\ \E k \in Keys \cup Indexes :
               \/ ~Has(k) /\ ret' = "FAILURE"
               \/ \E i \in Positions(k) : ret' = Read(i)
Current == /\ busy = "none" /\ UNCHANGED <<entries, cursor, nextFree, foreign, loopVars>>
           /\ ret' = IF cursor = 0 THEN "FAILURE" ELSE Read(cursor)

\* reset(), end(), next(), prev(): off either end there is no current entry.
Move == /\ busy = "none" /\ UNCHANGED <<entries, nextFree, foreign, ret, loopVars>>
        /\ \/ cursor' = IF entries = <<>> THEN 0 ELSE 1
           \/ cursor' = Len(entries)
           \/ cursor # 0 /\ cursor' = IF cursor = Len(entries) THEN 0 ELSE cursor + 1
           \/ cursor # 0 /\ cursor' = cursor - 1

\* Sorting permutes the entries and puts the cursor on the first; renumbering
\* gives them the indexes from 0.  A table of one element is left as it is.
IsPermutation(q) == \A i \in 1 .. Len(entries) : \E j \in 1 .. Len(entries) : q[j] = i
Sort == /\ busy = "none" /\ ret' = "SUCCESS" /\ UNCHANGED <<foreign, loopVars>>
        /\ \/ Len(entries) <= 1 /\ UNCHANGED <<entries, cursor, nextFree>>
           \/ /\ Len(entries) > 1
              /\ cursor' = 1
              /\ \E q \in [1 .. Len(entries) -> 1 .. Len(entries)] :
                   /\ IsPermutation(q)
                   /\ \/ /\ entries' = [i \in 1 .. Len(entries) |-> entries[q[i]]]
                         /\ UNCHANGED nextFree
                      \/ /\ entries' = [i \in 1 .. Len(entries) |->
                                          [entries[q[i]] EXCEPT !.key = i - 1]]
                         /\ nextFree' = Len(entries)

\* A walk visits the entries in order and deletes those it is told to.
First(s) == IF s = <<>> THEN 0 ELSE 1
WalkStart == /\ busy = "none"
             /\ busy' = "apply" /\ applyPos' = First(entries)
             /\ UNCHANGED <<entries, cursor, nextFree, foreign, ret, pending>>
WalkStep == /\ busy = "apply" /\ applyPos # 0
            /\ \/ /\ applyPos' = IF applyPos = Len(entries) THEN 0 ELSE applyPos + 1
                  /\ UNCHANGED <<entries, cursor, nextFree, foreign, ret>>
               \/ /\ applyPos' = IF applyPos = Len(entries) THEN 0 ELSE applyPos
                  /\ DeleteAt(applyPos)
            /\ UNCHANGED <<busy, pending>>
WalkEnd == /\ busy = "apply" /\ applyPos = 0
           /\ busy' = "none"
           /\ UNCHANGED <<entries, cursor, nextFree, foreign, ret, applyPos, pending>>

Clear == /\ busy = "none"
         /\ entries' = <<>> /\ cursor' = 0 /\ nextFree' = 0
         /\ ret' = "SUCCESS"
         /\ UNCHANGED <<foreign, loopVars>>

\* A copy is filled from the entries of the original, a merge with entries of
\* another table; an entry of a merge that is there already is left alone.
CopyStart == /\ busy = "none"
             /\ busy' = "copy"
             /\ pending' = [i \in 1 .. Len(entries) |-> [key |-> entries[i].key, val |-> Read(i)]]
             /\ entries' = <<>> /\ cursor' = 0 /\ nextFree' = 0
             /\ UNCHANGED <<foreign, ret, applyPos>>
MergeStart == /\ busy = "none"
              /\ busy' = "merge"
              /\ Len(pending') + Len(entries) <= Capacity
              /\ \A i \in 1 .. Len(pending') : pending'[i].key \in Keys \cup Indexes
              /\ UNCHANGED <<entries, cursor, nextFree, foreign, ret, applyPos>>
LoadStep == /\ busy \in {"copy", "merge"} /\ pending # <<>>
            /\ Store(Head(pending).key, Head(pending).val, busy = "copy")
            /\ pending' = Tail(pending)
            /\ UNCHANGED <<busy, applyPos>>
LoadEnd == /\ busy \in {"copy", "merge"} /\ pending = <<>>
           /\ busy' = "none" /\ cursor' = First(entries)
           /\ UNCHANGED <<entries, nextFree, foreign, ret, applyPos, pending>>

Init == /\ entries = <<>> /\ cursor = 0 /\ nextFree = 0
        /\ foreign \in [Foreign -> Value]
        /\ ret = "SUCCESS"
        /\ busy = "none" /\ applyPos = 0 /\ pending = <<>>

Next == \/ Refuse \/ Lookup \/ Current \/ Move
        \/ WalkStart \/ WalkStep \/ WalkEnd \/ Clear
        \/ CopyStart \/ MergeStart \/ LoadStep \/ LoadEnd
        \/ Push \/ PushReference \/ Put \/ PutReference \/ Delete \/ Sort

Spec == Init /\ [][Next]_vars
=============================================================================
