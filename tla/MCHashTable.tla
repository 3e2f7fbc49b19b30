---------------------------- MODULE MCHashTable ----------------------------
(* Small instances of the hash table for TLC.                               *)
EXTENDS HashTable, TLC

CONSTANTS b1, b2, b3, a, num, big, v1, g

MCPrimes == <<1, 2>>
MCM == 6
MCLongMax == 2
\* num is the string "0"; big saturates in strtol and is hashed as a string, to
\* the same value as a.
MCNumericValue == [k \in {num, big} \cap StrKey |-> IF k = num THEN 0 ELSE MCLongMax]
MCHashOf == [k \in StrKey |-> IF k = num THEN 3 ELSE 4]
\* The string a hashes to an index in use.
MCColliding == [k \in StrKey |-> IF k = num THEN 3 ELSE 1]
MCSources == {<<[id |-> KeyId(a), val |-> v1], [id |-> IndexId(0), val |-> v1]>>}
\* Nothing reads ret: two states that differ in it behave alike.
WithoutRet == <<bucket, listVars, pInternalPointer, arBuckets, nHashSizeIndex,
                nNumOfElements, nNextFreeElement, heap, foreign, loopVars>>
BucketSymmetry == Permutations(Bucket)
=============================================================================
