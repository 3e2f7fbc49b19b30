-------------------------- MODULE CountingSemaphore --------------------------
(***************************************************************************)
(* What a semaphore promises to the processes that use it: at most limit   *)
(* acquisitions are held at a time, and the limit is a matter of those     *)
(* that begin when nobody holds it.                                        *)
(***************************************************************************)
EXTENDS Integers, FiniteSets

CONSTANTS Process, Limits

VARIABLES limit,
          held     \* of each process, how often

vars == <<limit, held>>

\* The acquisitions, as pairs: the i-th of the process p.
Held == UNION {{p} \X (1 .. held[p]) : p \in Process}

SetLimit ==
  /\ \A p \in Process : held[p] = 0
  /\ limit' \in Limits
  /\ UNCHANGED held

Take(p) ==
  /\ Cardinality(Held) < limit
  /\ held' = [held EXCEPT ![p] = @ + 1]
  /\ UNCHANGED limit

Give(p) ==
  /\ held[p] > 0
  /\ held' = [held EXCEPT ![p] = @ - 1]
  /\ UNCHANGED limit

\* At the end of a request, or of the process.
GiveAll(p) ==
  /\ held' = [held EXCEPT ![p] = 0]
  /\ UNCHANGED limit

Init == limit = 0 /\ held = [p \in Process |-> 0]
Next == SetLimit \/ \E p \in Process : Take(p) \/ Give(p) \/ GiveAll(p)
Spec == Init /\ [][Next]_vars
=============================================================================
