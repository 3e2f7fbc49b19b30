------------------------- MODULE MCHashTableRefines -------------------------
(* The same instances, with the ordered dictionary they implement.          *)
EXTENDS MCHashTable, HashTableRefines
=============================================================================
