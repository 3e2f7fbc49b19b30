------------------------- MODULE SharedVariablesProofs -------------------------
(***************************************************************************)
(* Proofs about SysVSem and about SharedVariables, for every finite set of *)
(* processes: the values keep their types, scripts see a counting          *)
(* semaphore, also when its users share variables, and it gives the calls  *)
(* of SysVShm the turns that they need.                                    *)
(*                                                                         *)
(* The argument on the semaphore counts what the kernel would give back if *)
(* everybody died: the permits in semadj, whoever they belong to, and SEM  *)
(* are limit together; USAGE is the number of processes that semadj has as *)
(* users; and one process at most, alive or dead, has SETVAL.  So the      *)
(* process that sets SEM is the only user, and nobody has acquired         *)
(* anything.                                                               *)
(*                                                                         *)
(* A process in a call has all of the semaphore.  Two processes that have  *)
(* all of it would be twice limit acquisitions, and there are limit at     *)
(* most; and limit does not change meanwhile, for the process that sets it *)
(* knows that nobody has acquired anything.                                *)
(***************************************************************************)
EXTENDS SharedVariables, FiniteSetTheorems, TLAPS

-----------------------------------------------------------------------------
(* Permits as pairs: a function to numbers, counted. *)

Pairs(f) == UNION {{p} \X (1 .. f[p]) : p \in Process}

\* The pairs are those of each process.
LEMMA PairsMembers ==
  ASSUME NEW f, NEW x
  PROVE  x \in Pairs(f) <=> \E p \in Process : \E i \in 1 .. f[p] : x = <<p, i>>
BY DEF Pairs

LEMMA PairsWithin ==
  ASSUME NEW f, NEW S, \A p \in Process : \A i \in 1 .. f[p] : <<p, i>> \in S
  PROVE  Pairs(f) \subseteq S
BY PairsMembers

\* A process that has one more makes one more pair.
LEMMA OneMore ==
  ASSUME NEW f \in [Process -> Nat], IsFiniteSet(Pairs(f)), NEW p \in Process,
         NEW g, g = [f EXCEPT ![p] = f[p] + 1]
  PROVE  /\ IsFiniteSet(Pairs(g))
         /\ Cardinality(Pairs(g)) = Cardinality(Pairs(f)) + 1
<1> DEFINE new == <<p, f[p] + 1>>
<1>1. new \notin Pairs(f)
  <2> SUFFICES ASSUME NEW q \in Process, NEW i \in 1 .. f[q], new = <<q, i>>
               PROVE  FALSE
    BY PairsMembers
  <2>1. q = p /\ i = f[p] + 1
    OBVIOUS
  <2> QED BY <2>1
<1>2. Pairs(g) \subseteq Pairs(f) \cup {new}
  <2>1. ASSUME NEW q \in Process, NEW i \in 1 .. g[q]
        PROVE  <<q, i>> \in Pairs(f) \cup {new}
    <3>1. CASE q = p /\ i = f[p] + 1
      BY <3>1
    <3>2. CASE ~(q = p /\ i = f[p] + 1)
      <4>1. i \in 1 .. f[q]
        BY <3>2
      <4> QED BY <4>1, PairsMembers
    <3> QED BY <3>1, <3>2
  <2> HIDE DEF new
  <2> QED BY <2>1, PairsWithin
<1>3. Pairs(f) \subseteq Pairs(g)
  <2>1. ASSUME NEW q \in Process, NEW i \in 1 .. f[q]
        PROVE  <<q, i>> \in Pairs(g)
    <3>1. i \in 1 .. g[q]
      OBVIOUS
    <3> QED BY <3>1, PairsMembers
  <2> QED BY <2>1, PairsWithin
<1>4. new \in Pairs(g)
  <2>1. f[p] + 1 \in 1 .. g[p]
    OBVIOUS
  <2> QED BY <2>1, PairsMembers
<1> HIDE DEF new
<1>5. IsFiniteSet(Pairs(f) \cup {new})
      /\ Cardinality(Pairs(f) \cup {new}) = Cardinality(Pairs(f)) + 1
  BY <1>1, FS_AddElement
<1>6. Pairs(g) = Pairs(f) \cup {new}
  BY <1>2, <1>3, <1>4
<1> QED BY <1>5, <1>6

\* A process that has less takes away as many pairs as it gives up.
LEMMA Fewer ==
  ASSUME NEW f \in [Process -> Nat], IsFiniteSet(Pairs(f)), NEW p \in Process,
         NEW n \in 0 .. f[p], NEW g, g = [f EXCEPT ![p] = n]
  PROVE  /\ IsFiniteSet(Pairs(g))
         /\ Cardinality(Pairs(g)) = Cardinality(Pairs(f)) - (f[p] - n)
<1> DEFINE from == n + 1
           old == {p} \X (from .. f[p])
<1>0. from \in Int /\ f[p] \in Int /\ n \in Int /\ n <= f[p]
  OBVIOUS
<1>1. IsFiniteSet(old) /\ Cardinality(old) = f[p] - n
  <2>1. IsFiniteSet(from .. f[p])
        /\ Cardinality(from .. f[p]) = IF from > f[p] THEN 0 ELSE f[p] - from + 1
    <3> HIDE DEF from
    <3> QED BY <1>0, FS_Interval
  <2>2. (IF from > f[p] THEN 0 ELSE f[p] - from + 1) = f[p] - n
    BY <1>0
  <2>3. IsFiniteSet({p}) /\ Cardinality({p}) = 1
    BY FS_Singleton
  <2>4. IsFiniteSet(old) /\ Cardinality(old) = Cardinality({p}) * Cardinality(from .. f[p])
    BY <2>1, <2>3, FS_Product
  <2> QED BY <1>0, <2>1, <2>2, <2>3, <2>4
<1>2. Pairs(g) \subseteq Pairs(f) \ old
  <2>1. ASSUME NEW q \in Process, NEW i \in 1 .. g[q]
        PROVE  <<q, i>> \in Pairs(f) \ old
    <3>1. i \in 1 .. f[q] /\ <<q, i>> \notin old
      OBVIOUS
    <3> QED BY <3>1, PairsMembers
  <2> HIDE DEF old
  <2> QED BY <2>1, PairsWithin
<1>3. Pairs(f) \subseteq Pairs(g) \cup old
  <2>1. ASSUME NEW q \in Process, NEW i \in 1 .. f[q]
        PROVE  <<q, i>> \in Pairs(g) \cup old
    <3>1. CASE q = p /\ i > n
      BY <3>1
    <3>2. CASE ~(q = p /\ i > n)
      <4>1. i \in 1 .. g[q]
        BY <3>2
      <4> QED BY <4>1, PairsMembers
    <3> QED BY <3>1, <3>2
  <2> HIDE DEF old
  <2> QED BY <2>1, PairsWithin
<1>4. old \subseteq Pairs(f)
  <2>1. ASSUME NEW i \in from .. f[p] PROVE <<p, i>> \in Pairs(f)
    <3>1. i \in 1 .. f[p]
      OBVIOUS
    <3> QED BY <3>1, PairsMembers
  <2>2. \A x \in old : \E i \in from .. f[p] : x = <<p, i>>
    OBVIOUS
  <2> QED BY <2>1, <2>2
<1> HIDE DEF old, from
<1>5. IsFiniteSet(Pairs(f) \ old)
      /\ Cardinality(Pairs(f) \ old) = Cardinality(Pairs(f)) - Cardinality(Pairs(f) \cap old)
  BY FS_Difference
<1>6. Pairs(g) = Pairs(f) \ old /\ Pairs(f) \cap old = old
  BY <1>2, <1>3, <1>4
<1> QED BY <1>1, <1>5, <1>6

\* A process that gives up all it has.
LEMMA NoneLeft ==
  ASSUME NEW f \in [Process -> Nat], IsFiniteSet(Pairs(f)), NEW p \in Process
  PROVE  /\ IsFiniteSet(Pairs([f EXCEPT ![p] = 0]))
         /\ Cardinality(Pairs([f EXCEPT ![p] = 0])) = Cardinality(Pairs(f)) - f[p]
<1>1. f[p] \in Nat
  OBVIOUS
<1>2. PICK n \in 0 .. f[p] : n = 0
  BY <1>1
<1>3. IsFiniteSet(Pairs([f EXCEPT ![p] = n]))
      /\ Cardinality(Pairs([f EXCEPT ![p] = n])) = Cardinality(Pairs(f)) - (f[p] - n)
  BY Fewer
<1>4. IsFiniteSet(Pairs(f)) => Cardinality(Pairs(f)) \in Nat
  BY FS_CardinalityType
<1>5. Cardinality(Pairs(f)) - (f[p] - 0) = Cardinality(Pairs(f)) - f[p]
  BY <1>1, <1>4
<1> QED BY <1>2, <1>3, <1>5

\* Who has less than another has a part of the pairs.
LEMMA Part ==
  ASSUME NEW f \in [Process -> Nat], NEW g \in [Process -> Nat],
         \A p \in Process : g[p] <= f[p]
  PROVE  Pairs(g) \subseteq Pairs(f)
<1>1. ASSUME NEW p \in Process, NEW i \in 1 .. g[p]
      PROVE  <<p, i>> \in Pairs(f)
  <2>1. i \in 1 .. f[p]
    OBVIOUS
  <2> QED BY <2>1, PairsMembers
<1> QED BY <1>1, PairsWithin

-----------------------------------------------------------------------------
(* The inductive invariant *)

Owed == [p \in Process |-> semadj[p]["SEM"]]
Users == {p \in Process : semadj[p]["USAGE"] = -1}
Locking == {p \in Process : semadj[p]["SETVAL"] = -1}

Typed ==
  /\ semval \in [Semaphores -> Nat]
  /\ semadj \in [Process -> [Semaphores -> Int]]
  /\ undo \in Kernels
  /\ pc \in [Process -> Places]
  /\ count \in [Process -> Nat]
  /\ limit \in Nat

\* What the kernel would undo for p goes with where p is.
Adjusted(p) ==
  /\ semadj[p]["SEM"] \in Nat
  /\ semadj[p]["USAGE"] \in {0, -1}
  /\ semadj[p]["SETVAL"] \in {0, -1}
  /\ pc[p] # "dead" =>
       /\ semadj[p]["SEM"] = count[p]
       /\ semadj[p]["USAGE"] = -1 <=> pc[p] \in Inside \cup Using
       /\ semadj[p]["SETVAL"] = -1 <=> pc[p] \in Inside
  /\ pc[p] \notin Using => count[p] = 0

LockInv ==
  /\ \A p \in Process, q \in Process : p \in Locking /\ q \in Locking => p = q
  /\ semval["SETVAL"] = IF Locking = {} THEN 0 ELSE 1

UsageInv == semval["USAGE"] = Cardinality(Users)
SetInv == \A p \in Process : At(p, "set") => Users \subseteq {p}
PermitInv == IsFiniteSet(Pairs(Owed)) /\ semval["SEM"] + Cardinality(Pairs(Owed)) = limit

IInv ==
  /\ Typed
  /\ \A p \in Process : Adjusted(p)
  /\ LockInv /\ UsageInv /\ SetInv /\ PermitInv

-----------------------------------------------------------------------------
(* The kernel *)

LEMMA OpFields ==
  ASSUME NEW a \in Int, NEW b \in Int, NEW c \in Int
  PROVE  /\ Op(a, b, c)["SEM"] = a
         /\ Op(a, b, c)["USAGE"] = b
         /\ Op(a, b, c)["SETVAL"] = c
BY DEF Op

\* What semop does to each of the three values, and to semadj.
LEMMA AfterSemop ==
  ASSUME Typed, NEW p \in Process, NEW a \in Int, NEW b \in Int, NEW c \in Int,
         semop(p, Op(a, b, c))
  PROVE  /\ semval' \in [Semaphores -> Int]
         /\ semval'["SEM"] = semval["SEM"] + a
         /\ semval'["USAGE"] = semval["USAGE"] + b
         /\ semval'["SETVAL"] = semval["SETVAL"] + c
         /\ semadj' \in [Process -> [Semaphores -> Int]]
         /\ semadj'[p]["SEM"] = semadj[p]["SEM"] - a
         /\ semadj'[p]["USAGE"] = semadj[p]["USAGE"] - b
         /\ semadj'[p]["SETVAL"] = semadj[p]["SETVAL"] - c
         /\ \A q \in Process \ {p} : semadj'[q] = semadj[q]
<1> DEFINE op == Op(a, b, c)
<1>1. \A s \in Semaphores : op[s] \in Int
  BY OpFields DEF Semaphores
<1>2. op["SEM"] = a /\ op["USAGE"] = b /\ op["SETVAL"] = c
  BY OpFields
<1>3. /\ semval' = [s \in Semaphores |-> semval[s] + op[s]]
      /\ semadj' = [semadj EXCEPT ![p] = [s \in Semaphores |-> semadj[p][s] - op[s]]]
  BY DEF semop, Plus, Minus
<1> HIDE DEF op
<1>4. semval' \in [Semaphores -> Int]
  BY <1>1, <1>3 DEF Typed
<1>5. [s \in Semaphores |-> semadj[p][s] - op[s]] \in [Semaphores -> Int]
  BY <1>1 DEF Typed
<1>6. semadj' \in [Process -> [Semaphores -> Int]]
  BY <1>3, <1>5 DEF Typed
<1>7. semadj'[p] = [s \in Semaphores |-> semadj[p][s] - op[s]]
  BY <1>3 DEF Typed
<1>8. \A q \in Process \ {p} : semadj'[q] = semadj[q]
  BY <1>3 DEF Typed
<1> QED BY <1>2, <1>3, <1>4, <1>6, <1>7, <1>8 DEF Semaphores

\* The numbers that the kernel adds are natural ones.
LEMMA OwedType ==
  ASSUME Typed, \A p \in Process : Adjusted(p)
  PROVE  Owed \in [Process -> Nat]
BY DEF Owed, Adjusted

LEMMA UsersFinite == IsFiniteSet(Users) /\ Cardinality(Users) \in Nat
BY ProcessAssumption, FS_Subset, FS_CardinalityType DEF Users

-----------------------------------------------------------------------------
(* Parts of the invariant that a step leaves alone *)

LEMMA PermitsKept ==
  ASSUME PermitInv, UNCHANGED limit, semval'["SEM"] = semval["SEM"],
         \A q \in Process : semadj'[q]["SEM"] = semadj[q]["SEM"]
  PROVE  PermitInv'
<1>1. Owed' = Owed
  BY DEF Owed
<1> QED BY <1>1 DEF PermitInv, Pairs

LEMMA UsersKept ==
  ASSUME UsageInv, semval'["USAGE"] = semval["USAGE"],
         \A q \in Process : semadj'[q]["USAGE"] = semadj[q]["USAGE"]
  PROVE  UsageInv' /\ Users' = Users
<1>1. Users' = Users
  BY DEF Users
<1> QED BY <1>1 DEF UsageInv

LEMMA LockKept ==
  ASSUME LockInv, semval'["SETVAL"] = semval["SETVAL"],
         \A q \in Process : semadj'[q]["SETVAL"] = semadj[q]["SETVAL"]
  PROVE  LockInv' /\ Locking' = Locking
<1>1. Locking' = Locking
  BY DEF Locking
<1> QED BY <1>1 DEF LockInv

\* Who was not at "set" does not get there.
LEMMA SetKept ==
  ASSUME SetInv, Users' \subseteq Users,
         \A q \in Process : pc'[q] = "set" => pc[q] = "set"
  PROVE  SetInv'
BY DEF SetInv, At

\* The process of a step, and the others.
LEMMA OthersAdjusted ==
  ASSUME NEW p \in Process, \A q \in Process : Adjusted(q),
         \A q \in Process \ {p} : /\ semadj'[q] = semadj[q]
                                 /\ pc'[q] = pc[q] /\ count'[q] = count[q],
         Adjusted(p)'
  PROVE  \A q \in Process : Adjusted(q)'
<1> SUFFICES ASSUME NEW q \in Process, q # p PROVE Adjusted(q)'
  OBVIOUS
<1> QED BY DEF Adjusted

-----------------------------------------------------------------------------
(* Steps that leave the kernel alone *)

LEMMA PcAfter ==
  ASSUME Typed, NEW p \in Process, NEW place, Goto(p, place)
  PROVE  pc'[p] = place /\ \A q \in Process \ {p} : pc'[q] = pc[q]
BY DEF Typed, Goto

LEMMA KernelIdle ==
  ASSUME IInv, NEW p \in Process, NEW place \in Places, Goto(p, place),
         UNCHANGED <<semval, semadj, undo, limit>>,
         count' \in [Process -> Nat],
         \A q \in Process \ {p} : count'[q] = count[q],
         Adjusted(p)', place = "set" => Users \subseteq {p}
  PROVE  IInv'
<1>1. pc'[p] = place /\ \A q \in Process \ {p} : pc'[q] = pc[q]
  BY PcAfter DEF IInv
<1>2. Typed'
  BY DEF IInv, Typed, Goto
<1>3. \A q \in Process : Adjusted(q)'
  BY <1>1, OthersAdjusted DEF IInv
<1>4. PermitInv'
  BY PermitsKept DEF IInv
<1>5. UsageInv' /\ Users' = Users
  BY UsersKept DEF IInv
<1>6. LockInv'
  BY LockKept DEF IInv
<1>7. SetInv'
  BY <1>1, <1>5 DEF IInv, SetInv, At
<1> QED BY <1>2, <1>3, <1>4, <1>5, <1>6, <1>7 DEF IInv

LEMMA GetStep == ASSUME IInv, NEW p \in Process, Get(p) PROVE IInv'
<1>1. pc[p] = "none" /\ Goto(p, "get")
  BY DEF Get, At
<1>2. UNCHANGED <<semval, semadj, undo, limit, count>>
  BY DEF Get
<1>3. pc'[p] = "get"
  BY <1>1, PcAfter DEF IInv
<1>4. Adjusted(p)'
  BY <1>1, <1>2, <1>3 DEF IInv, Adjusted, Inside, Using
<1>5. count' \in [Process -> Nat]
  BY <1>2 DEF IInv, Typed
<1> QED BY <1>1, <1>2, <1>4, <1>5, KernelIdle DEF Places

LEMMA GetUsageStep == ASSUME IInv, NEW p \in Process, GetUsage(p) PROVE IInv'
<1> DEFINE place == IF semval["USAGE"] = 1 THEN "set" ELSE "unlock"
<1>1. pc[p] = "locked" /\ Goto(p, place)
  BY DEF GetUsage, At
<1>2. UNCHANGED <<semval, semadj, undo, limit, count>>
  BY DEF GetUsage
<1>3. pc'[p] = place
  BY <1>1, PcAfter DEF IInv
<1>4. Adjusted(p)'
  BY <1>1, <1>2, <1>3 DEF IInv, Adjusted, Inside, Using
<1>5. count' \in [Process -> Nat]
  BY <1>2 DEF IInv, Typed
<1>6. place = "set" => Users \subseteq {p}
  <2>1. p \in Users
    BY <1>1 DEF IInv, Adjusted, Inside, Users
  <2>2. semval["USAGE"] = 1 => \E x : Users = {x}
    BY UsersFinite, FS_Singleton DEF IInv, UsageInv
  <2> QED BY <2>1, <2>2
<1>7. place \in Places
  BY DEF Places, Inside
<1> HIDE DEF place
<1> QED BY <1>1, <1>2, <1>4, <1>5, <1>6, <1>7, KernelIdle

LEMMA CallAcquireStep == ASSUME IInv, NEW p \in Process, CallAcquire(p) PROVE IInv'
<1>1. pc[p] = "ready" /\ Goto(p, "acquiring")
  BY DEF CallAcquire, At
<1>2. UNCHANGED <<semval, semadj, undo, limit, count>>
  BY DEF CallAcquire
<1>3. pc'[p] = "acquiring"
  BY <1>1, PcAfter DEF IInv
<1>4. Adjusted(p)'
  BY <1>1, <1>2, <1>3 DEF IInv, Adjusted, Inside, Using
<1>5. count' \in [Process -> Nat]
  BY <1>2 DEF IInv, Typed
<1> QED BY <1>1, <1>2, <1>4, <1>5, KernelIdle DEF Places, Using

\* A dead process has nothing acquired any more, and all to be undone.
LEMMA CrashStep == ASSUME IInv, NEW p \in Process, Crash(p) PROVE IInv'
<1>1. Goto(p, "dead")
  BY DEF Crash
<1>2. UNCHANGED <<semval, semadj, undo, limit>> /\ count' = [count EXCEPT ![p] = 0]
  BY DEF Crash
<1>3. pc'[p] = "dead"
  BY <1>1, PcAfter DEF IInv
<1>4. count' \in [Process -> Nat] /\ count'[p] = 0
      /\ \A q \in Process \ {p} : count'[q] = count[q]
  BY <1>2 DEF IInv, Typed
<1>5. Adjusted(p)'
  BY <1>2, <1>3, <1>4 DEF IInv, Adjusted, Inside, Using
<1> QED BY <1>1, <1>2, <1>4, <1>5, KernelIdle DEF Places

LEMMA ReapStep == ASSUME IInv, NEW p \in Process, Reap(p) PROVE IInv'
<1>1. pc[p] = "dead" /\ Goto(p, "none") /\ semadj[p] = Nothing
  BY DEF Reap, At
<1>2. UNCHANGED <<semval, semadj, undo, limit, count>>
  BY DEF Reap
<1>3. pc'[p] = "none"
  BY <1>1, PcAfter DEF IInv
<1>4. semadj[p]["SEM"] = 0 /\ semadj[p]["USAGE"] = 0 /\ semadj[p]["SETVAL"] = 0
  BY <1>1, OpFields DEF Nothing
<1>5. Adjusted(p)'
  BY <1>1, <1>2, <1>3, <1>4 DEF IInv, Adjusted, Inside, Using
<1>6. count' \in [Process -> Nat]
  BY <1>2 DEF IInv, Typed
<1> QED BY <1>1, <1>2, <1>5, <1>6, KernelIdle DEF Places

-----------------------------------------------------------------------------
(* Steps with a semop *)

LEMMA OwedAfter ==
  ASSUME \A q \in Process : Adjusted(q), NEW p \in Process, NEW n \in Nat,
         semadj'[p]["SEM"] = n,
         \A q \in Process \ {p} : semadj'[q] = semadj[q]
  PROVE  /\ Owed \in [Process -> Nat]
         /\ Owed[p] = semadj[p]["SEM"]
         /\ Owed' = [Owed EXCEPT ![p] = n]
<1>1. Owed \in [Process -> Nat] /\ Owed[p] = semadj[p]["SEM"]
  BY DEF Owed, Adjusted
<1>2. \A q \in Process : Owed'[q] = [Owed EXCEPT ![p] = n][q]
  BY <1>1 DEF Owed
<1>3. Owed' = [q \in Process |-> Owed'[q]] /\ [Owed EXCEPT ![p] = n] = [q \in Process |-> [Owed EXCEPT ![p] = n][q]]
  BY <1>1 DEF Owed
<1> QED BY <1>1, <1>2, <1>3

\* Lock waits until nobody has SETVAL, alive or dead.
LEMMA LockStep == ASSUME IInv, NEW p \in Process, Lock(p) PROVE IInv'
<1>0. Typed /\ 0 \in Int /\ 1 \in Int /\ -1 \in Int
  BY DEF IInv
<1>1. pc[p] = "get" /\ semval["SETVAL"] = 0 /\ Goto(p, "locked")
      /\ semop(p, Op(0, 1, 1)) /\ UNCHANGED <<undo, count, limit>>
  BY DEF Lock, At, Free
<1>2. /\ semval' \in [Semaphores -> Int]
      /\ semval'["SEM"] = semval["SEM"] + 0
      /\ semval'["USAGE"] = semval["USAGE"] + 1
      /\ semval'["SETVAL"] = semval["SETVAL"] + 1
      /\ semadj' \in [Process -> [Semaphores -> Int]]
      /\ semadj'[p]["SEM"] = semadj[p]["SEM"] - 0
      /\ semadj'[p]["USAGE"] = semadj[p]["USAGE"] - 1
      /\ semadj'[p]["SETVAL"] = semadj[p]["SETVAL"] - 1
      /\ \A q \in Process \ {p} : semadj'[q] = semadj[q]
  <2>1. PICK b \in Int : b = 1
    BY <1>0
  <2>2. semop(p, Op(0, b, b))
    BY <1>1, <2>1
  <2>3. /\ semval' \in [Semaphores -> Int]
        /\ semval'["SEM"] = semval["SEM"] + 0
        /\ semval'["USAGE"] = semval["USAGE"] + b
        /\ semval'["SETVAL"] = semval["SETVAL"] + b
        /\ semadj' \in [Process -> [Semaphores -> Int]]
        /\ semadj'[p]["SEM"] = semadj[p]["SEM"] - 0
        /\ semadj'[p]["USAGE"] = semadj[p]["USAGE"] - b
        /\ semadj'[p]["SETVAL"] = semadj[p]["SETVAL"] - b
        /\ \A q \in Process \ {p} : semadj'[q] = semadj[q]
    BY <1>0, <2>2, AfterSemop
  <2> QED BY <2>1, <2>3
<1>3. pc'[p] = "locked" /\ \A q \in Process \ {p} : pc'[q] = pc[q]
  BY <1>1, PcAfter DEF IInv
<1>4. /\ semadj[p]["SEM"] = count[p] /\ count[p] = 0
      /\ semadj[p]["USAGE"] = 0 /\ semadj[p]["SETVAL"] = 0
  BY <1>1 DEF IInv, Adjusted, Inside, Using
<1>5. Typed'
  <2>1. \A s \in Semaphores : semval'[s] \in Nat
    BY <1>2 DEF IInv, Typed, Semaphores
  <2>2. semval' \in [Semaphores -> Nat]
    BY <1>2, <2>1
  <2> QED BY <1>1, <1>2, <2>2 DEF IInv, Typed, Goto, Places, Inside
<1>6. \A q \in Process : Adjusted(q)'
  <2>1. Adjusted(p)'
    BY <1>1, <1>2, <1>3, <1>4 DEF Adjusted, Inside, Using
  <2> QED BY <1>1, <1>2, <1>3, <2>1, OthersAdjusted DEF IInv
<1>7. LockInv'
  <2>1. Locking = {}
    BY <1>1 DEF IInv, LockInv
  <2>2. Locking' = {p}
    BY <1>2, <1>4, <2>1 DEF Locking
  <2>3. semval'["SETVAL"] = 1
    BY <1>1, <1>2
  <2> QED BY <2>2, <2>3 DEF LockInv
<1>8. Users' = Users \cup {p} /\ p \notin Users
  BY <1>2, <1>4 DEF Users
<1>9. UsageInv'
  <2>1. Cardinality(Users \cup {p}) = Cardinality(Users) + 1
    BY <1>8, UsersFinite, FS_AddElement
  <2> QED BY <1>2, <1>8, <2>1 DEF IInv, UsageInv
<1>10. SetInv'
  <2>1. \A q \in Process : pc[q] # "set"
    BY <1>1 DEF IInv, LockInv, Locking, Adjusted, Inside
  <2> QED BY <1>3, <2>1 DEF SetInv, At
<1>11. PermitInv'
  <2>1. semval'["SEM"] = semval["SEM"]
    BY <1>2 DEF IInv, Typed, Semaphores
  <2>2. \A q \in Process : semadj'[q]["SEM"] = semadj[q]["SEM"]
    BY <1>2, <1>4 DEF IInv, Typed
  <2> QED BY <1>1, <2>1, <2>2, PermitsKept DEF IInv
<1> QED BY <1>5, <1>6, <1>7, <1>9, <1>10, <1>11 DEF IInv

LEMMA UnlockStep == ASSUME IInv, NEW p \in Process, Unlock(p) PROVE IInv'
<1>0. Typed /\ 0 \in Int /\ 1 \in Int /\ -1 \in Int
  BY DEF IInv
<1>1. pc[p] = "unlock" /\ Goto(p, "ready")
      /\ semop(p, Op(0, 0, -1)) /\ UNCHANGED <<undo, count, limit>>
  BY DEF Unlock, At
<1>2. /\ semval' \in [Semaphores -> Int]
      /\ semval'["SEM"] = semval["SEM"] + 0
      /\ semval'["USAGE"] = semval["USAGE"] + 0
      /\ semval'["SETVAL"] = semval["SETVAL"] + (-1)
      /\ semadj' \in [Process -> [Semaphores -> Int]]
      /\ semadj'[p]["SEM"] = semadj[p]["SEM"] - 0
      /\ semadj'[p]["USAGE"] = semadj[p]["USAGE"] - 0
      /\ semadj'[p]["SETVAL"] = semadj[p]["SETVAL"] - (-1)
      /\ \A q \in Process \ {p} : semadj'[q] = semadj[q]
  BY <1>0, <1>1, AfterSemop
<1>3. pc'[p] = "ready" /\ \A q \in Process \ {p} : pc'[q] = pc[q]
  BY <1>1, PcAfter DEF IInv
<1>4. /\ semadj[p]["SEM"] = count[p] /\ count[p] = 0
      /\ semadj[p]["USAGE"] = -1 /\ semadj[p]["SETVAL"] = -1
  BY <1>1 DEF IInv, Adjusted, Inside, Using
<1>5. Locking = {p} /\ semval["SETVAL"] = 1
  BY <1>4 DEF IInv, LockInv, Locking
<1>6. Typed'
  <2>1. \A s \in Semaphores : semval'[s] \in Nat
    BY <1>2, <1>5 DEF IInv, Typed, Semaphores
  <2>2. semval' \in [Semaphores -> Nat]
    BY <1>2, <2>1
  <2> QED BY <1>1, <1>2, <2>2 DEF IInv, Typed, Goto, Places, Using
<1>7. \A q \in Process : Adjusted(q)'
  <2>1. Adjusted(p)'
    BY <1>1, <1>2, <1>3, <1>4 DEF Adjusted, Inside, Using
  <2> QED BY <1>1, <1>2, <1>3, <2>1, OthersAdjusted DEF IInv
<1>8. LockInv'
  <2>1. Locking' = {}
    BY <1>2, <1>4, <1>5 DEF Locking
  <2>2. semval'["SETVAL"] = 0
    BY <1>2, <1>5
  <2> QED BY <2>1, <2>2 DEF LockInv
<1>9. UsageInv' /\ Users' = Users
  <2>1. semval'["USAGE"] = semval["USAGE"]
    BY <1>2 DEF IInv, Typed, Semaphores
  <2>2. \A q \in Process : semadj'[q]["USAGE"] = semadj[q]["USAGE"]
    BY <1>2, <1>4
  <2> QED BY <2>1, <2>2, UsersKept DEF IInv
<1>10. SetInv'
  BY <1>3, <1>9 DEF IInv, SetInv, At
<1>11. PermitInv'
  <2>1. semval'["SEM"] = semval["SEM"]
    BY <1>2 DEF IInv, Typed, Semaphores
  <2>2. \A q \in Process : semadj'[q]["SEM"] = semadj[q]["SEM"]
    BY <1>2, <1>4 DEF IInv, Typed
  <2> QED BY <1>1, <2>1, <2>2, PermitsKept DEF IInv
<1> QED BY <1>6, <1>7, <1>8, <1>9, <1>10, <1>11 DEF IInv

\* What the steps of a user of the semaphore have in common.
LEMMA UserStep ==
  ASSUME IInv, NEW p \in Process, pc[p] \in Using,
         NEW a \in Int, semop(p, Op(a, 0, 0)), semval["SEM"] + a >= 0,
         count[p] - a \in Nat, count' = [count EXCEPT ![p] = count[p] - a],
         NEW place \in Using, pc'[p] = place, pc' \in [Process -> Places],
         \A q \in Process \ {p} : pc'[q] = pc[q],
         UNCHANGED <<undo, limit>>
  PROVE  /\ Typed' /\ (\A q \in Process : Adjusted(q)')
         /\ LockInv' /\ UsageInv' /\ SetInv'
         /\ Owed \in [Process -> Nat] /\ Owed[p] = count[p]
         /\ Owed' = [Owed EXCEPT ![p] = count[p] - a]
         /\ semval'["SEM"] = semval["SEM"] + a
<1>0. Typed /\ 0 \in Int /\ 1 \in Int /\ -1 \in Int
  BY DEF IInv
<1>1. /\ semval' \in [Semaphores -> Int]
      /\ semval'["SEM"] = semval["SEM"] + a
      /\ semval'["USAGE"] = semval["USAGE"] + 0
      /\ semval'["SETVAL"] = semval["SETVAL"] + 0
      /\ semadj' \in [Process -> [Semaphores -> Int]]
      /\ semadj'[p]["SEM"] = semadj[p]["SEM"] - a
      /\ semadj'[p]["USAGE"] = semadj[p]["USAGE"] - 0
      /\ semadj'[p]["SETVAL"] = semadj[p]["SETVAL"] - 0
      /\ \A q \in Process \ {p} : semadj'[q] = semadj[q]
  BY <1>0, AfterSemop
<1>2. /\ semadj[p]["SEM"] = count[p]
      /\ semadj[p]["USAGE"] = -1 /\ semadj[p]["SETVAL"] = 0
  BY DEF IInv, Adjusted, Inside, Using
<1>3. count' \in [Process -> Nat] /\ count'[p] = count[p] - a
      /\ \A q \in Process \ {p} : count'[q] = count[q]
  BY DEF IInv, Typed
<1>4. semval["USAGE"] \in Nat /\ semval["SETVAL"] \in Nat
  BY DEF IInv, Typed, Semaphores
<1>5. semval'["USAGE"] = semval["USAGE"] /\ semval'["SETVAL"] = semval["SETVAL"]
  BY <1>1, <1>4
<1>6. Typed'
  <2>1. \A s \in Semaphores : semval'[s] \in Nat
    BY <1>1, <1>4, <1>5 DEF Semaphores
  <2>2. semval' \in [Semaphores -> Nat]
    BY <1>1, <2>1
  <2> QED BY <1>1, <1>3, <2>2 DEF IInv, Typed
<1>7. \A q \in Process : Adjusted(q)'
  <2>1. Adjusted(p)'
    BY <1>1, <1>2, <1>3 DEF Adjusted, Inside, Using
  <2> QED BY <1>1, <1>3, <2>1, OthersAdjusted DEF IInv
<1>8. LockInv'
  <2>1. \A q \in Process : semadj'[q]["SETVAL"] = semadj[q]["SETVAL"]
    BY <1>1, <1>2
  <2> QED BY <1>5, <2>1, LockKept DEF IInv
<1>9. UsageInv' /\ Users' = Users
  <2>1. \A q \in Process : semadj'[q]["USAGE"] = semadj[q]["USAGE"]
    BY <1>1, <1>2
  <2> QED BY <1>5, <2>1, UsersKept DEF IInv
<1>10. SetInv'
  BY <1>9 DEF IInv, SetInv, At, Using
<1>11. /\ Owed \in [Process -> Nat] /\ Owed[p] = semadj[p]["SEM"]
       /\ Owed' = [Owed EXCEPT ![p] = count[p] - a]
  <2>1. semadj'[p]["SEM"] = count[p] - a
    BY <1>1, <1>2
  <2> QED BY <1>1, <2>1, OwedAfter DEF IInv
<1> QED BY <1>1, <1>2, <1>6, <1>7, <1>8, <1>9, <1>10, <1>11

LEMMA AcquireStep == ASSUME IInv, NEW p \in Process, Acquire(p) PROVE IInv'
<1>1. pc[p] = "acquiring" /\ Goto(p, "ready") /\ CanDo(Op(-1, 0, 0))
      /\ semop(p, Op(-1, 0, 0)) /\ UNCHANGED <<undo, limit>>
      /\ count' = [count EXCEPT ![p] = count[p] + 1]
  BY DEF Acquire, At
<1>2. semval["SEM"] + (-1) >= 0
  <2>1. Op(-1, 0, 0)["SEM"] = -1
    BY OpFields
  <2> QED BY <1>1, <2>1 DEF CanDo, Semaphores
<1>3. count[p] \in Nat /\ semval["SEM"] \in Nat
  BY DEF IInv, Typed, Semaphores
<1>4. count[p] - (-1) = count[p] + 1 /\ -1 \in Int
  BY <1>3
<1>5. pc'[p] = "ready" /\ pc' \in [Process -> Places] /\ \A q \in Process \ {p} : pc'[q] = pc[q]
  <2>1. pc' \in [Process -> Places]
    BY <1>1 DEF IInv, Typed, Goto, Places, Using
  <2> QED BY <1>1, <2>1, PcAfter DEF IInv
<1>6. pc[p] \in Using /\ "ready" \in Using
  BY <1>1 DEF Using
<1>7. count[p] - (-1) \in Nat /\ count' = [count EXCEPT ![p] = count[p] - (-1)]
  <2>1. count[p] - (-1) \in Nat
    BY <1>3
  <2>2. count' = [count EXCEPT ![p] = count[p] - (-1)]
    BY <1>1, <1>4, Zenon
  <2> QED BY <2>1, <2>2
<1>8. /\ Typed' /\ (\A q \in Process : Adjusted(q)')
      /\ LockInv' /\ UsageInv' /\ SetInv'
      /\ Owed \in [Process -> Nat] /\ Owed[p] = count[p]
      /\ Owed' = [Owed EXCEPT ![p] = count[p] - (-1)]
      /\ semval'["SEM"] = semval["SEM"] + (-1)
  BY <1>1, <1>2, <1>4, <1>5, <1>6, <1>7, UserStep
<1>9. PermitInv'
  <2>1. IsFiniteSet(Pairs(Owed)) /\ Cardinality(Pairs(Owed)) \in Nat
        /\ semval["SEM"] + Cardinality(Pairs(Owed)) = limit
    BY FS_CardinalityType DEF IInv, PermitInv
  <2>2. Owed' = [Owed EXCEPT ![p] = Owed[p] + 1]
    BY <1>4, <1>8
  <2>3. IsFiniteSet(Pairs(Owed')) /\ Cardinality(Pairs(Owed')) = Cardinality(Pairs(Owed)) + 1
    BY <1>8, <2>1, <2>2, OneMore
  <2> QED BY <1>1, <1>3, <1>8, <2>1, <2>3 DEF PermitInv, Pairs
<1> QED BY <1>8, <1>9 DEF IInv

LEMMA ReleaseStep == ASSUME IInv, NEW p \in Process, Release(p) PROVE IInv'
<1>1. pc[p] = "ready" /\ count[p] > 0
      /\ semop(p, Op(1, 0, 0)) /\ UNCHANGED <<undo, limit, pc>>
      /\ count' = [count EXCEPT ![p] = count[p] - 1]
  BY DEF Release, At
<1>2. count[p] \in Nat /\ semval["SEM"] \in Nat
  BY DEF IInv, Typed, Semaphores
<1>3. pc[p] \in Using /\ pc'[p] \in Using /\ pc' \in [Process -> Places]
      /\ \A q \in Process \ {p} : pc'[q] = pc[q]
  BY <1>1 DEF Using, IInv, Typed
<1>4. /\ Typed' /\ (\A q \in Process : Adjusted(q)')
      /\ LockInv' /\ UsageInv' /\ SetInv'
      /\ Owed \in [Process -> Nat] /\ Owed[p] = count[p]
      /\ Owed' = [Owed EXCEPT ![p] = count[p] - 1]
      /\ semval'["SEM"] = semval["SEM"] + 1
  <2>1. count[p] - 1 \in Nat /\ semval["SEM"] + 1 >= 0 /\ 1 \in Int
    BY <1>1, <1>2
  <2> QED BY <1>1, <1>3, <2>1, UserStep
<1>5. PermitInv'
  <2>1. IsFiniteSet(Pairs(Owed)) /\ Cardinality(Pairs(Owed)) \in Nat
        /\ semval["SEM"] + Cardinality(Pairs(Owed)) = limit
    BY FS_CardinalityType DEF IInv, PermitInv
  <2>2. count[p] - 1 \in 0 .. Owed[p] /\ Owed[p] - (count[p] - 1) = 1
    BY <1>1, <1>2, <1>4
  <2>3. IsFiniteSet(Pairs(Owed'))
        /\ Cardinality(Pairs(Owed')) = Cardinality(Pairs(Owed)) - (Owed[p] - (count[p] - 1))
    BY <1>4, <2>1, <2>2, Fewer
  <2> QED BY <1>1, <1>2, <1>4, <2>1, <2>2, <2>3 DEF PermitInv, Pairs
<1> QED BY <1>4, <1>5 DEF IInv

\* The end of a request gives back what is still acquired.
LEMMA EndRequestStep == ASSUME IInv, NEW p \in Process, EndRequest(p) PROVE IInv'
<1>0. Typed /\ 0 \in Int /\ 1 \in Int /\ -1 \in Int
  BY DEF IInv
<1>1. pc[p] = "ready" /\ Goto(p, "none") /\ CanDo(Op(count[p], -1, 0))
      /\ semop(p, Op(count[p], -1, 0)) /\ UNCHANGED <<undo, limit>>
      /\ count' = [count EXCEPT ![p] = 0]
  BY DEF EndRequest, At
<1>2. count[p] \in Nat /\ count[p] \in Int
  BY DEF IInv, Typed
<1>3. /\ semval' \in [Semaphores -> Int]
      /\ semval'["SEM"] = semval["SEM"] + count[p]
      /\ semval'["USAGE"] = semval["USAGE"] + (-1)
      /\ semval'["SETVAL"] = semval["SETVAL"] + 0
      /\ semadj' \in [Process -> [Semaphores -> Int]]
      /\ semadj'[p]["SEM"] = semadj[p]["SEM"] - count[p]
      /\ semadj'[p]["USAGE"] = semadj[p]["USAGE"] - (-1)
      /\ semadj'[p]["SETVAL"] = semadj[p]["SETVAL"] - 0
      /\ \A q \in Process \ {p} : semadj'[q] = semadj[q]
  BY <1>0, <1>1, <1>2, AfterSemop, Zenon
<1>4. /\ semadj[p]["SEM"] = count[p]
      /\ semadj[p]["USAGE"] = -1 /\ semadj[p]["SETVAL"] = 0
  BY <1>1 DEF IInv, Adjusted, Inside, Using
<1>5. pc'[p] = "none" /\ \A q \in Process \ {p} : pc'[q] = pc[q]
  BY <1>1, PcAfter DEF IInv
<1>6. count' \in [Process -> Nat] /\ count'[p] = 0
      /\ \A q \in Process \ {p} : count'[q] = count[q]
  BY <1>1 DEF IInv, Typed
<1>7. /\ semval["SEM"] \in Nat /\ semval["SETVAL"] \in Nat
      /\ semval["USAGE"] \in Nat /\ semval["USAGE"] + (-1) >= 0
  <2>1. Op(count[p], -1, 0)["USAGE"] = -1
    BY <1>2, OpFields
  <2> QED BY <1>1, <2>1 DEF IInv, Typed, CanDo, Semaphores
<1>8. Typed'
  <2>1. \A s \in Semaphores : semval'[s] \in Nat
    BY <1>2, <1>3, <1>7 DEF Semaphores
  <2>2. semval' \in [Semaphores -> Nat]
    BY <1>3, <2>1
  <2> QED BY <1>1, <1>3, <1>6, <2>2 DEF IInv, Typed, Goto, Places
<1>9. \A q \in Process : Adjusted(q)'
  <2>1. Adjusted(p)'
    BY <1>2, <1>3, <1>4, <1>5, <1>6 DEF Adjusted, Inside, Using
  <2> QED BY <1>3, <1>5, <1>6, <2>1, OthersAdjusted DEF IInv
<1>10. LockInv'
  <2>1. \A q \in Process : semadj'[q]["SETVAL"] = semadj[q]["SETVAL"]
    BY <1>3, <1>4
  <2>2. semval'["SETVAL"] = semval["SETVAL"]
    BY <1>3, <1>7
  <2> QED BY <2>1, <2>2, LockKept DEF IInv
<1>11. Users' = Users \ {p} /\ p \in Users
  BY <1>3, <1>4 DEF Users
<1>12. UsageInv'
  <2>1. Cardinality(Users \ {p}) = Cardinality(Users) - 1
    BY <1>11, UsersFinite, FS_RemoveElement
  <2> QED BY <1>3, <1>7, <1>11, <2>1, UsersFinite DEF IInv, UsageInv
<1>13. SetInv'
  <2>1. \A q \in Process : pc'[q] = "set" => pc[q] = "set"
    BY <1>5
  <2>2. Users' \subseteq Users
    BY <1>11
  <2> QED BY <2>1, <2>2, SetKept DEF IInv
<1>14. PermitInv'
  <2>1. IsFiniteSet(Pairs(Owed)) /\ Cardinality(Pairs(Owed)) \in Nat
        /\ semval["SEM"] + Cardinality(Pairs(Owed)) = limit
    BY FS_CardinalityType DEF IInv, PermitInv
  <2>2. semadj'[p]["SEM"] = 0
    BY <1>2, <1>3, <1>4
  <2>3. Owed \in [Process -> Nat] /\ Owed[p] = count[p] /\ Owed' = [Owed EXCEPT ![p] = 0]
    BY <1>3, <1>4, <2>2, OwedAfter DEF IInv
  <2>4. IsFiniteSet(Pairs([Owed EXCEPT ![p] = 0]))
        /\ Cardinality(Pairs([Owed EXCEPT ![p] = 0])) = Cardinality(Pairs(Owed)) - Owed[p]
    BY <2>1, <2>3, NoneLeft
  <2>5. IsFiniteSet(Pairs(Owed')) /\ Cardinality(Pairs(Owed')) = Cardinality(Pairs(Owed)) - Owed[p]
    BY <2>3, <2>4
  <2> QED BY <1>1, <1>2, <1>3, <1>7, <2>1, <2>3, <2>5 DEF PermitInv, Pairs
<1> QED BY <1>8, <1>9, <1>10, <1>12, <1>13, <1>14 DEF IInv

-----------------------------------------------------------------------------
(* SETVAL on SEM: everything is counted anew. *)

\* The process that sets SEM is the only user, so nobody has acquired it.
LEMMA SetterIsAlone ==
  ASSUME IInv, NEW p \in Process, At(p, "set")
  PROVE  \A q \in Process : count[q] = 0
<1>1. \A q \in Process \ {p} : pc[q] # "dead" => pc[q] \notin Using
  BY DEF IInv, SetInv, Users, Adjusted
<1>2. \A q \in Process : pc[q] \notin Using
  BY <1>1 DEF At, Using
<1> QED BY <1>2 DEF IInv, Adjusted

LEMMA SetMaxStep == ASSUME IInv, NEW p \in Process, SetMax(p) PROVE IInv'
<1>1. PICK m \in MaxAcquires :
        /\ SetSEM(m) /\ limit' = m /\ pc[p] = "set"
        /\ Goto(p, "unlock") /\ UNCHANGED <<undo, count>>
  BY DEF SetMax, At
<1>2. m \in Nat
  BY MaxAssumption
<1>3. /\ semval' = [semval EXCEPT !["SEM"] = m]
      /\ semadj' = [q \in Process |-> [semadj[q] EXCEPT !["SEM"] = 0]]
  BY <1>1 DEF SetSEM
<1>4. /\ semval' \in [Semaphores -> Nat]
      /\ semval'["SEM"] = m
      /\ semval'["USAGE"] = semval["USAGE"] /\ semval'["SETVAL"] = semval["SETVAL"]
  BY <1>2, <1>3 DEF IInv, Typed, Semaphores
<1>5. ASSUME NEW q \in Process
      PROVE  /\ semadj'[q] \in [Semaphores -> Int] /\ semadj'[q]["SEM"] = 0
             /\ semadj'[q]["USAGE"] = semadj[q]["USAGE"]
             /\ semadj'[q]["SETVAL"] = semadj[q]["SETVAL"]
  <2>1. semadj[q] \in [Semaphores -> Int]
    BY DEF IInv, Typed
  <2> QED BY <1>3, <2>1 DEF Semaphores
<1>6. semadj' \in [Process -> [Semaphores -> Int]]
  <2>1. semadj' = [q \in Process |-> semadj'[q]]
    BY <1>3
  <2> QED BY <1>5, <2>1
<1>7. pc'[p] = "unlock" /\ \A q \in Process \ {p} : pc'[q] = pc[q]
  BY <1>1, PcAfter DEF IInv
<1>8. \A q \in Process : count[q] = 0
  BY <1>1, SetterIsAlone DEF At
<1>9. Typed'
  BY <1>1, <1>2, <1>4, <1>6 DEF IInv, Typed, Goto, Places, Inside
<1>10. \A q \in Process : Adjusted(q)'
  <2> SUFFICES ASSUME NEW q \in Process PROVE Adjusted(q)'
    OBVIOUS
  <2>1. pc'[q] = pc[q] \/ (pc[q] = "set" /\ pc'[q] = "unlock")
    <3>1. CASE q = p
      BY <1>1, <1>7, <3>1
    <3>2. CASE q # p
      BY <1>7, <3>2
    <3> QED BY <3>1, <3>2
  <2>2. count'[q] = 0 /\ Adjusted(q)
    BY <1>1, <1>8 DEF IInv
  <2> QED BY <1>5, <2>1, <2>2 DEF Adjusted, Inside, Using
<1>11. LockInv'
  BY <1>4, <1>5, LockKept DEF IInv
<1>12. UsageInv' /\ Users' = Users
  BY <1>4, <1>5, UsersKept DEF IInv
<1>13. SetInv'
  <2>1. \A q \in Process : pc'[q] = "set" => pc[q] = "set"
    BY <1>7
  <2> QED BY <1>12, <2>1, SetKept DEF IInv
<1>14. PermitInv'
  <2>1. Pairs(Owed') = {}
    <3>1. \A q \in Process : \A i \in 1 .. Owed'[q] : <<q, i>> \in {}
      BY <1>5 DEF Owed
    <3> QED BY <3>1, PairsWithin
  <2>2. IsFiniteSet({}) /\ Cardinality({}) = 0
    BY FS_EmptySet
  <2> QED BY <1>1, <1>2, <1>4, <2>1, <2>2 DEF PermitInv, Pairs
<1> QED BY <1>9, <1>10, <1>11, <1>12, <1>13, <1>14 DEF IInv

-----------------------------------------------------------------------------
(* The undo of a dead process *)

\* No undo makes a semaphore negative, so nothing is ever cut off.
LEMMA UndoExact ==
  ASSUME IInv, NEW p \in Process, NEW s \in Semaphores
  PROVE  /\ Clamped(Plus(semval, semadj[p]))[s] = semval[s] + semadj[p][s]
         /\ semval[s] + semadj[p][s] \in Nat
<1>1. semval[s] \in Nat /\ semadj[p][s] \in Int
  BY DEF IInv, Typed
<1>2. semval[s] + semadj[p][s] >= 0
  <2>1. CASE s = "SEM"
    BY <1>1, <2>1 DEF IInv, Adjusted
  <2>2. CASE s = "USAGE"
    <3>1. CASE semadj[p][s] = 0
      BY <1>1, <3>1
    <3>2. CASE semadj[p][s] = -1
      <4>1. Users # {}
        BY <2>2, <3>2 DEF Users
      <4>2. Cardinality(Users) # 0
        BY <4>1, UsersFinite, FS_EmptySet
      <4> QED BY <1>1, <2>2, <3>2, <4>2 DEF IInv, UsageInv
    <3> QED BY <2>2, <3>1, <3>2 DEF IInv, Adjusted
  <2>3. CASE s = "SETVAL"
    BY <1>1, <2>3 DEF IInv, Adjusted, LockInv, Locking
  <2> QED BY <2>1, <2>2, <2>3 DEF Semaphores
<1> QED BY <1>1, <1>2 DEF Clamped, Plus

\* What is undone, of one semaphore or of all, moves from semadj to semval.
LEMMA Undone ==
  ASSUME IInv, NEW p \in Process, At(p, "dead"), NEW D \in SUBSET Semaphores,
         UNCHANGED <<undo, pc, count, limit>>,
         semval' \in [Semaphores -> Int], semadj' \in [Process -> [Semaphores -> Int]],
         \A s \in D : semval'[s] = semval[s] + semadj[p][s] /\ semadj'[p][s] = 0,
         \A s \in Semaphores \ D : semval'[s] = semval[s] /\ semadj'[p][s] = semadj[p][s],
         \A q \in Process \ {p} : semadj'[q] = semadj[q]
  PROVE  IInv'
<1>1. semval' \in [Semaphores -> Nat]
  <2>1. \A s \in Semaphores : semval'[s] \in Nat
    <3> SUFFICES ASSUME NEW s \in Semaphores PROVE semval'[s] \in Nat
      OBVIOUS
    <3>1. semval[s] \in Nat /\ semval[s] + semadj[p][s] \in Nat
      BY UndoExact DEF IInv, Typed
    <3> QED BY <3>1
  <2> QED BY <2>1
<1>2. Typed'
  BY <1>1 DEF IInv, Typed
<1>3. /\ semadj[p]["SEM"] \in Nat /\ semadj[p]["USAGE"] \in {0, -1}
      /\ semadj[p]["SETVAL"] \in {0, -1} /\ count[p] = 0 /\ pc[p] = "dead"
  BY DEF IInv, Adjusted, At, Using
<1>4. \A q \in Process : Adjusted(q)'
  <2>1. Adjusted(p)'
    BY <1>3 DEF Adjusted, Semaphores
  <2> QED BY <2>1, OthersAdjusted DEF IInv
<1>5. LockInv'
  <2>1. CASE "SETVAL" \in D /\ semadj[p]["SETVAL"] = -1
    <3>1. Locking = {p} /\ semval["SETVAL"] = 1
      BY <2>1 DEF IInv, LockInv, Locking
    <3>2. Locking' = {} /\ semval'["SETVAL"] = 0
      BY <2>1, <3>1 DEF Locking
    <3> QED BY <3>2 DEF LockInv
  <2>2. CASE ~("SETVAL" \in D /\ semadj[p]["SETVAL"] = -1)
    <3>1. semval'["SETVAL"] = semval["SETVAL"] /\ semadj'[p]["SETVAL"] = semadj[p]["SETVAL"]
      BY <1>3, <2>2 DEF IInv, Typed, Semaphores
    <3> QED BY <3>1, LockKept DEF IInv
  <2> QED BY <2>1, <2>2
<1>6. UsageInv' /\ Users' \subseteq Users
  <2>1. CASE "USAGE" \in D /\ semadj[p]["USAGE"] = -1
    <3>1. Users' = Users \ {p} /\ p \in Users
      BY <2>1 DEF Users
    <3>2. Cardinality(Users \ {p}) = Cardinality(Users) - 1
      BY <3>1, UsersFinite, FS_RemoveElement
    <3>3. semval'["USAGE"] = semval["USAGE"] + (-1) /\ semval["USAGE"] \in Nat
      BY <2>1 DEF IInv, Typed, Semaphores
    <3> QED BY <3>1, <3>2, <3>3, UsersFinite DEF IInv, UsageInv
  <2>2. CASE ~("USAGE" \in D /\ semadj[p]["USAGE"] = -1)
    <3>1. semval'["USAGE"] = semval["USAGE"] /\ semadj'[p]["USAGE"] = semadj[p]["USAGE"]
      BY <1>3, <2>2 DEF IInv, Typed, Semaphores
    <3> QED BY <3>1, UsersKept DEF IInv
  <2> QED BY <2>1, <2>2
<1>7. SetInv'
  BY <1>6, SetKept DEF IInv
<1>8. PermitInv'
  <2>1. CASE "SEM" \in D
    <3>1. IsFiniteSet(Pairs(Owed)) /\ Cardinality(Pairs(Owed)) \in Nat
          /\ semval["SEM"] + Cardinality(Pairs(Owed)) = limit
      BY FS_CardinalityType DEF IInv, PermitInv
    <3>2. semadj'[p]["SEM"] = 0 /\ semval'["SEM"] = semval["SEM"] + semadj[p]["SEM"]
          /\ semval["SEM"] \in Nat
      BY <2>1 DEF IInv, Typed, Semaphores
    <3>3. Owed \in [Process -> Nat] /\ Owed[p] = semadj[p]["SEM"]
          /\ Owed' = [Owed EXCEPT ![p] = 0]
      BY <3>2, OwedAfter DEF IInv
    <3>4. IsFiniteSet(Pairs([Owed EXCEPT ![p] = 0]))
          /\ Cardinality(Pairs([Owed EXCEPT ![p] = 0])) = Cardinality(Pairs(Owed)) - Owed[p]
      BY <3>1, <3>3, NoneLeft
    <3>5. IsFiniteSet(Pairs(Owed')) /\ Cardinality(Pairs(Owed')) = Cardinality(Pairs(Owed)) - Owed[p]
      BY <3>3, <3>4
    <3> QED BY <1>3, <3>1, <3>2, <3>3, <3>5 DEF PermitInv, Pairs
  <2>2. CASE "SEM" \notin D
    <3>1. semval'["SEM"] = semval["SEM"]
          /\ \A q \in Process : semadj'[q]["SEM"] = semadj[q]["SEM"]
      BY <2>2 DEF Semaphores
    <3> QED BY <3>1, PermitsKept DEF IInv
  <2> QED BY <2>1, <2>2
<1> QED BY <1>2, <1>4, <1>5, <1>6, <1>7, <1>8 DEF IInv

LEMMA UndoStep == ASSUME IInv, NEW p \in Process, Undo(p) PROVE IInv'
<1>1. At(p, "dead") /\ UNCHANGED <<undo, pc, count, limit>>
  BY DEF Undo
<1>2. semadj[p] \in [Semaphores -> Int] /\ semadj \in [Process -> [Semaphores -> Int]]
      /\ semval \in [Semaphores -> Nat]
  BY DEF IInv, Typed
<1>3. CASE UndoAll(p)
  <2>1. \A s \in Semaphores : semval'[s] = semval[s] + semadj[p][s] /\ semval'[s] \in Nat
    BY <1>3, UndoExact DEF UndoAll
  <2>2. semval' \in [Semaphores -> Int]
    <3>1. semval' = [s \in Semaphores |-> semval'[s]]
      BY <1>3 DEF UndoAll, Clamped
    <3> QED BY <2>1, <3>1
  <2>3. Nothing \in [Semaphores -> Int] /\ \A s \in Semaphores : Nothing[s] = 0
    BY OpFields DEF Nothing, Op, Semaphores
  <2>4. semadj' \in [Process -> [Semaphores -> Int]] /\ semadj'[p] = Nothing
        /\ \A q \in Process \ {p} : semadj'[q] = semadj[q]
    <3> HIDE DEF Nothing
    <3> QED BY <1>2, <1>3, <2>3 DEF UndoAll
  <2>5. \A s \in Semaphores : semadj'[p][s] = 0
    BY <2>3, <2>4
  <2> QED BY <1>1, <2>1, <2>2, <2>4, <2>5, Undone
<1>4. ASSUME NEW s \in Semaphores, UndoOne(p, s) PROVE IInv'
  <2>1. semval' = [semval EXCEPT ![s] = semval[s] + semadj[p][s]]
    BY <1>4, UndoExact DEF UndoOne
  <2>2. semval[s] + semadj[p][s] \in Nat
    BY UndoExact
  <2>3. semadj' = [semadj EXCEPT ![p] = [semadj[p] EXCEPT ![s] = 0]]
    BY <1>4 DEF UndoOne
  <2>4. semval' \in [Semaphores -> Int] /\ semval'[s] = semval[s] + semadj[p][s]
        /\ \A t \in Semaphores \ {s} : semval'[t] = semval[t]
    BY <1>2, <2>1, <2>2
  <2>5. [semadj[p] EXCEPT ![s] = 0] \in [Semaphores -> Int]
    BY <1>2
  <2>6. semadj' \in [Process -> [Semaphores -> Int]]
        /\ semadj'[p] = [semadj[p] EXCEPT ![s] = 0]
        /\ \A q \in Process \ {p} : semadj'[q] = semadj[q]
    BY <1>2, <2>3, <2>5
  <2>7. semadj'[p][s] = 0 /\ \A t \in Semaphores \ {s} : semadj'[p][t] = semadj[p][t]
    BY <1>2, <2>6
  <2>8. \A t \in {s} : semval'[t] = semval[t] + semadj[p][t] /\ semadj'[p][t] = 0
    BY <2>4, <2>7
  <2>9. \A t \in Semaphores \ {s} : semval'[t] = semval[t] /\ semadj'[p][t] = semadj[p][t]
    BY <2>4, <2>7
  <2> DEFINE D == {s}
  <2>10. D \in SUBSET Semaphores
    OBVIOUS
  <2> HIDE DEF D
  <2>11. (\A t \in D : semval'[t] = semval[t] + semadj[p][t] /\ semadj'[p][t] = 0)
         /\ \A t \in Semaphores \ D :
               semval'[t] = semval[t] /\ semadj'[p][t] = semadj[p][t]
    BY <2>8, <2>9 DEF D
  <2> QED BY <1>1, <2>4, <2>6, <2>10, <2>11, Undone
<1> QED BY <1>3, <1>4 DEF Undo

-----------------------------------------------------------------------------
(* The invariant, and the theorems *)

LEMMA InitIInv == SemInit => IInv
<1> SUFFICES ASSUME SemInit PROVE IInv
  OBVIOUS
<1>1. Nothing \in [Semaphores -> Int] /\ Nothing \in [Semaphores -> Nat]
      /\ \A s \in Semaphores : Nothing[s] = 0
  BY OpFields DEF Nothing, Op, Semaphores
<1>2. /\ semval["SEM"] = 0 /\ semval["USAGE"] = 0 /\ semval["SETVAL"] = 0
      /\ \A p \in Process : \A s \in Semaphores : semadj[p][s] = 0
  BY <1>1 DEF SemInit, Semaphores
<1>3. Typed
  <2> HIDE DEF Nothing
  <2> QED BY <1>1 DEF SemInit, Typed, Places
<1>4. \A p \in Process : Adjusted(p)
  BY <1>2 DEF SemInit, Adjusted, Semaphores, Inside, Using
<1>5. Users = {} /\ Locking = {}
  BY <1>2 DEF Users, Locking, Semaphores
<1>6. LockInv /\ UsageInv /\ SetInv
  BY <1>2, <1>5, FS_EmptySet DEF LockInv, UsageInv, SetInv, SemInit, At
<1>7. PermitInv
  <2>1. Pairs(Owed) = {}
    <3>1. \A q \in Process : \A i \in 1 .. Owed[q] : <<q, i>> \in {}
      BY <1>2 DEF Owed, Semaphores
    <3> QED BY <3>1, PairsWithin
  <2> QED BY <1>2, <2>1, FS_EmptySet DEF PermitInv, SemInit
<1> QED BY <1>3, <1>4, <1>6, <1>7 DEF IInv

LEMMA StepIInv == IInv /\ [SemNext]_semVars => IInv'
<1> SUFFICES ASSUME IInv, [SemNext]_semVars PROVE IInv'
  OBVIOUS
<1>1. CASE UNCHANGED semVars
  BY <1>1 DEF semVars, IInv, Typed, Adjusted, LockInv, Locking, UsageInv, Users, SetInv,
              At, PermitInv, Pairs, Owed
<1>2. ASSUME NEW p \in Process, SemStep(p) PROVE IInv'
  BY <1>2, GetStep, LockStep, GetUsageStep, SetMaxStep, UnlockStep, CallAcquireStep,
     AcquireStep, ReleaseStep, EndRequestStep, UndoStep, ReapStep
  DEF SemStep, InGet, Clean
<1> QED BY <1>1, <1>2, CrashStep DEF SemNext

THEOREM Invariance == SemSpec => []IInv
BY InitIInv, StepIInv, PTL DEF SemSpec

\* The values of the kernel and of the module keep their types; no semaphore
\* is negative, and SETVAL is zero or one (the lock of sem_get).
THEOREM SemTypeCorrect == SemSpec => []SemTypeOK
<1>1. IInv => SemTypeOK
  BY DEF IInv, Typed, LockInv, SemTypeOK
<1> QED BY <1>1, Invariance, PTL

-----------------------------------------------------------------------------
(* The semaphore of the scripts *)

\* Those that have acquired it are among those the kernel would undo.
LEMMA HeldIsOwed ==
  ASSUME IInv
  PROVE  /\ IsFiniteSet(Pairs(count)) /\ Cardinality(Pairs(count)) \in Nat
         /\ Cardinality(Pairs(count)) + semval["SEM"] <= limit
<1>1. Owed \in [Process -> Nat] /\ count \in [Process -> Nat]
  BY OwedType DEF IInv, Typed
<1>2. \A p \in Process : count[p] <= Owed[p]
  BY <1>1 DEF IInv, Typed, Adjusted, Owed, Using
<1>3. Pairs(count) \subseteq Pairs(Owed)
  BY <1>1, <1>2, Part
<1>4. IsFiniteSet(Pairs(count)) /\ Cardinality(Pairs(count)) <= Cardinality(Pairs(Owed))
      /\ Cardinality(Pairs(count)) \in Nat /\ Cardinality(Pairs(Owed)) \in Nat
  BY <1>3, FS_Subset, FS_CardinalityType DEF IInv, PermitInv
<1> QED BY <1>4 DEF IInv, PermitInv, Typed, Semaphores

LEMMA StepImplements ==
  IInv /\ [SemNext]_semVars => [Semaphore!Next]_(Semaphore!vars)
<1> SUFFICES ASSUME IInv, [SemNext]_semVars
             PROVE  Semaphore!Next \/ UNCHANGED <<limit, count>>
  BY DEF Semaphore!vars
<1>1. CASE UNCHANGED semVars
  BY <1>1 DEF semVars
<1>2. ASSUME NEW p \in Process, Acquire(p) PROVE Semaphore!Take(p)
  <2>1. count' = [count EXCEPT ![p] = count[p] + 1] /\ UNCHANGED limit
    BY <1>2 DEF Acquire
  <2>2. semval["SEM"] >= 1
    <3>1. Op(-1, 0, 0)["SEM"] = -1
      BY OpFields
    <3> QED BY <1>2, <3>1 DEF Acquire, CanDo, Semaphores, IInv, Typed
  <2>3. Cardinality(Pairs(count)) < limit
    BY <2>2, HeldIsOwed DEF IInv, Typed, Semaphores
  <2>4. Semaphore!Held = Pairs(count)
    BY DEF Semaphore!Held, Pairs
  <2>5. Semaphore!Cardinality(Pairs(count)) = Cardinality(Pairs(count))
    BY DEF Semaphore!Cardinality, Cardinality
  <2> QED BY <2>1, <2>3, <2>4, <2>5 DEF Semaphore!Take
<1>3. ASSUME NEW p \in Process, Release(p) PROVE Semaphore!Give(p)
  BY <1>3 DEF Release, Semaphore!Give
<1>4. ASSUME NEW p \in Process, EndRequest(p) \/ Crash(p) PROVE Semaphore!GiveAll(p)
  BY <1>4 DEF EndRequest, Crash, Semaphore!GiveAll
<1>5. ASSUME NEW p \in Process, SetMax(p) PROVE Semaphore!SetLimit
  <2>1. At(p, "set") /\ UNCHANGED count /\ limit' \in MaxAcquires
    BY <1>5 DEF SetMax
  <2> QED BY <2>1, SetterIsAlone DEF Semaphore!SetLimit
<1>6. ASSUME NEW p \in Process, SemStep(p), ~Acquire(p), ~Release(p), ~EndRequest(p), ~SetMax(p)
      PROVE  UNCHANGED <<limit, count>>
  BY <1>6 DEF SemStep, InGet, Clean, Get, Lock, GetUsage, Unlock, CallAcquire, Undo, Reap
<1> QED BY <1>1, <1>2, <1>3, <1>4, <1>5, <1>6 DEF SemNext, Semaphore!Next

\* Scripts see a counting semaphore, whoever dies wherever, and however their
\* kernel undoes the dead: sem_acquire never lets more in than the limit, and
\* the limit is set while nobody is in.
THEOREM ImplementsSemaphore == SemSpec => IsCountingSemaphore
<1>1. SemInit => Semaphore!Init
  BY DEF SemInit, Semaphore!Init
<1> QED BY <1>1, StepImplements, Invariance, PTL
     DEF SemSpec, IsCountingSemaphore, Semaphore!Spec

-----------------------------------------------------------------------------
(* The semaphore of processes that share variables *)

LEMMA StepIsSemStep == [Next]_vars => [SemNext]_semVars
<1> SUFFICES ASSUME [Next]_vars PROVE SemNext \/ UNCHANGED semVars
  OBVIOUS
<1>1. CASE UNCHANGED vars
  BY <1>1 DEF vars
<1>2. ASSUME NEW p \in Process, Step(p) PROVE SemNext \/ UNCHANGED semVars
  <2>1. CASE BeginCall(p) \/ ProceedCall(p)
    BY <2>1 DEF BeginCall, ProceedCall
  <2>2. CASE Between(p)
    BY <2>2 DEF Between, SemNext, SemStep, Clean
  <2>3. CASE EndScript(p)
    BY <2>3 DEF EndScript, SemNext, SemStep
  <2>4. CASE Death(p)
    BY <2>4 DEF Death, SemNext
  <2> QED BY <1>2, <2>1, <2>2, <2>3, <2>4 DEF Step
<1> QED BY <1>1, <1>2 DEF Next

LEMMA SpecIsSemSpec == Spec => SemSpec
<1>1. Init => SemInit
  BY DEF Init
<1> QED BY <1>1, StepIsSemStep, PTL DEF Spec, SemSpec

\* With scripts that share variables, too, the semaphore counts.
THEOREM SharedSemaphore == Spec => IsCountingSemaphore
BY SpecIsSemSpec, ImplementsSemaphore, PTL

\* Two processes do not both have all of it.
LEMMA OneHasAll ==
  ASSUME IInv, NEW p \in Process, NEW q \in Process, HasAll(p), HasAll(q)
  PROVE  p = q
<1> SUFFICES ASSUME p # q PROVE FALSE
  OBVIOUS
<1>1. IsFiniteSet(Pairs(count)) /\ Cardinality(Pairs(count)) \in Nat
      /\ Cardinality(Pairs(count)) <= limit
  BY HeldIsOwed DEF IInv, Typed, Semaphores
<1>2. count \in [Process -> Nat] /\ count[p] = limit /\ count[q] = limit /\ limit > 0
      /\ limit \in Nat
  BY DEF HasAll, IInv, Typed
<1> DEFINE g == [count EXCEPT ![p] = 0]
           h == [g EXCEPT ![q] = 0]
<1>3. g \in [Process -> Nat] /\ g[q] = limit
  BY <1>2
<1>4. IsFiniteSet(Pairs(g)) /\ Cardinality(Pairs(g)) = Cardinality(Pairs(count)) - count[p]
  BY <1>1, <1>2, NoneLeft
<1> HIDE DEF g
<1>5. IsFiniteSet(Pairs(h)) /\ Cardinality(Pairs(h)) = Cardinality(Pairs(g)) - g[q]
  BY <1>3, <1>4, NoneLeft
<1> HIDE DEF h
<1>6. Cardinality(Pairs(h)) \in Nat
  BY <1>5, FS_CardinalityType
<1> QED BY <1>1, <1>2, <1>3, <1>4, <1>5, <1>6

-----------------------------------------------------------------------------
(* The calls *)

Turns ==
  /\ call = [p \in Process |-> call[p]]
  /\ \A p \in Process : Shm!InCall(p) => HasAll(p)

\* A step of a call is about the process of the call.
LEMMA CallOfOne ==
  ASSUME call = [q \in Process |-> call[q]], NEW p \in Process,
         Shm!Begin(p) \/ Shm!Proceed(p) \/ Shm!Die(p) \/ Shm!Detach(p)
  PROVE  /\ call' = [q \in Process |-> call'[q]]
         /\ \A q \in Process \ {p} : call'[q] = call[q]
<1>1. CASE Shm!Begin(p)
  BY <1>1 DEF Shm!Begin, Shm!Attach, Shm!PutVar, Shm!RemoveVar, Shm!UseTorn,
              Shm!RemoveSegment
<1>2. CASE Shm!Die(p) \/ Shm!Detach(p)
  BY <1>2 DEF Shm!Die, Shm!Detach, Shm!Return
<1>3. CASE Shm!Proceed(p)
  <2>1. CASE Shm!Check(p) \/ Shm!Initialize(p)
    BY <2>1 DEF Shm!Check, Shm!Attached, Shm!Initialize, Shm!Write, Shm!InitializeFree,
                Shm!Return, Shm!Continue
  <2>2. CASE Shm!Unfree(p) \/ Shm!Shorten(p) \/ Shm!Move(p)
    BY <2>2 DEF Shm!Unfree, Shm!Shorten, Shm!Move, Shm!AfterMove, Shm!Return, Shm!Continue
  <2>3. CASE Shm!Append_(p) \/ Shm!Extend(p) \/ Shm!Take(p) \/ Shm!FindBack(p)
    BY <2>3 DEF Shm!Append_, Shm!Extend, Shm!Take, Shm!FindBack, Shm!Return, Shm!Continue
  <2> QED BY <1>3, <2>1, <2>2, <2>3 DEF Shm!Proceed
<1> QED BY <1>1, <1>2, <1>3

LEMMA ProceedInCall ==
  ASSUME NEW p \in Process, Shm!Proceed(p)
  PROVE  Shm!InCall(p)
BY DEF Shm!Proceed, Shm!Check, Shm!Initialize, Shm!Write, Shm!InitializeFree, Shm!Unfree,
       Shm!Shorten, Shm!Move, Shm!Append_, Shm!Extend, Shm!Take, Shm!FindBack, Shm!Reached

\* Steps of one process do not take from another what it has, unless they
\* change the limit.
LEMMA OthersKeepAll ==
  ASSUME IInv, NEW p \in Process, SemStep(p) \/ Crash(p),
         NEW q \in Process, q # p, HasAll(q)
  PROVE  HasAll(q)'
<1>1. ~SetMax(p)
  <2> SUFFICES ASSUME SetMax(p) PROVE FALSE
    OBVIOUS
  <2>1. count[q] = 0
    BY SetterIsAlone DEF SetMax
  <2> QED BY <2>1 DEF HasAll, IInv, Typed
<1>2. UNCHANGED limit
  BY <1>1 DEF SemStep, InGet, Clean, Crash, Get, Lock, GetUsage, Unlock, CallAcquire,
              Acquire, Release, EndRequest, Undo, Reap
<1>3. pc'[q] = pc[q]
  BY <1>1 DEF IInv, Typed, SemStep, InGet, Clean, Crash, Get, Lock, GetUsage, Unlock,
              CallAcquire, Acquire, Release, EndRequest, Undo, Reap, Goto
<1>4. count'[q] = count[q]
  BY <1>1 DEF IInv, Typed, SemStep, InGet, Clean, Crash, Get, Lock, GetUsage, Unlock,
              CallAcquire, Acquire, Release, EndRequest, Undo, Reap
<1> QED BY <1>2, <1>3, <1>4 DEF HasAll, At

LEMMA TurnsStep == IInv /\ Turns /\ [Next]_vars => Turns'
<1> SUFFICES ASSUME IInv, Turns, [Next]_vars PROVE Turns'
  OBVIOUS
<1>1. CASE UNCHANGED vars
  BY <1>1 DEF vars, semVars, shmVars, Turns, Shm!InCall, HasAll, At
<1>2. ASSUME NEW p \in Process, BeginCall(p) PROVE Turns'
  <2>1. call' = [q \in Process |-> call'[q]] /\ \A q \in Process \ {p} : call'[q] = call[q]
    BY <1>2, CallOfOne DEF BeginCall, Turns
  <2>2. HasAll(p)' /\ \A q \in Process : HasAll(q) => HasAll(q)'
    BY <1>2 DEF BeginCall, semVars, HasAll, At
  <2> QED BY <2>1, <2>2 DEF Turns, Shm!InCall
<1>3. ASSUME NEW p \in Process, ProceedCall(p) PROVE Turns'
  <2>1. call' = [q \in Process |-> call'[q]] /\ \A q \in Process \ {p} : call'[q] = call[q]
    BY <1>3, CallOfOne DEF ProceedCall, Turns
  <2>2. HasAll(p)
    BY <1>3, ProceedInCall DEF ProceedCall, Turns
  <2>3. HasAll(p)' /\ \A q \in Process : HasAll(q) => HasAll(q)'
    BY <1>3, <2>2 DEF ProceedCall, semVars, HasAll, At
  <2> QED BY <2>1, <2>3 DEF Turns, Shm!InCall
<1>4. ASSUME NEW p \in Process, SemStep(p) \/ Crash(p),
             call' = [q \in Process |-> call'[q]],
             \A q \in Process \ {p} : call'[q] = call[q], ~Shm!InCall(p)'
      PROVE  Turns'
  <2>1. \A q \in Process \ {p} : Shm!InCall(q)' => HasAll(q)'
    BY <1>4, OthersKeepAll DEF Turns, Shm!InCall
  <2> QED BY <1>4, <2>1 DEF Turns
<1>5. ASSUME NEW p \in Process, Between(p) PROVE Turns'
  <2>1. CASE SemStep(p) /\ UNCHANGED shmVars
    BY <1>4, <1>5, <2>1 DEF Between, shmVars, Turns, Shm!InCall
  <2>2. CASE Shm!Detach(p) /\ UNCHANGED semVars
    BY <2>2 DEF Shm!Detach, semVars, Turns, Shm!InCall, HasAll, At
  <2>3. CASE Reap(p) /\ UNCHANGED shmVars
    BY <1>4, <1>5, <2>3 DEF Between, SemStep, Clean, shmVars, Turns, Shm!InCall
  <2> QED BY <1>5, <2>1, <2>2, <2>3 DEF Between
<1>6. ASSUME NEW p \in Process, EndScript(p) PROVE Turns'
  BY <1>4, <1>6 DEF EndScript, SemStep, Shm!Detach, Turns, Shm!InCall
<1>7. ASSUME NEW p \in Process, Death(p) PROVE Turns'
  <2>1. call' = [q \in Process |-> call'[q]] /\ \A q \in Process \ {p} : call'[q] = call[q]
    BY <1>7, CallOfOne DEF Death, Turns
  <2>2. ~Shm!InCall(p)'
    BY <1>7 DEF Death, Shm!Die, Shm!Return, Shm!InCall, Turns
  <2> QED BY <1>4, <1>7, <2>1, <2>2 DEF Death
<1> QED BY <1>1, <1>2, <1>3, <1>5, <1>6, <1>7 DEF Next, Step

LEMMA StepInTurns == IInv /\ Turns /\ [Next]_vars => [Shm!ShmNext]_(Shm!shmVars)
<1> SUFFICES ASSUME IInv, Turns, [Next]_vars PROVE Shm!ShmNext \/ UNCHANGED shmVars
  BY DEF Shm!shmVars, shmVars
<1>1. CASE UNCHANGED vars
  BY <1>1 DEF vars
<1>2. ASSUME NEW p \in Process, HasAll(p) PROVE Shm!Alone(p)
  BY <1>2, OneHasAll DEF Shm!Alone, Turns
<1>3. ASSUME NEW p \in Process, Step(p) PROVE Shm!ShmNext \/ UNCHANGED shmVars
  <2>1. CASE BeginCall(p)
    BY <1>2, <2>1 DEF BeginCall, Shm!ShmNext
  <2>2. CASE ProceedCall(p)
    BY <1>2, <2>2, ProceedInCall DEF ProceedCall, Turns, Shm!ShmNext
  <2>3. CASE Between(p)
    BY <2>3 DEF Between, Shm!ShmNext
  <2>4. CASE EndScript(p)
    BY <2>4 DEF EndScript, Shm!ShmNext
  <2>5. CASE Death(p)
    BY <2>5 DEF Death, Shm!ShmNext
  <2> QED BY <1>3, <2>1, <2>2, <2>3, <2>4, <2>5 DEF Step
<1> QED BY <1>1, <1>3 DEF Next

\* Scripts that take all of the semaphore around their calls of SysVShm make
\* them one process at a time: never does one read or write the segment in the
\* middle of another's shm_attach, shm_put_var or shm_remove_var, although
\* processes die anywhere and the semaphore is passed on, and set, meanwhile.
THEOREM CallsTakeTurns == Spec => IsUsedInTurns
<1>1. Init => Turns
  BY DEF Init, Shm!ShmInit, Turns, Shm!InCall
<1>2. Init => Shm!ShmInit
  BY DEF Init
<1>3. Spec => []IInv
  BY SpecIsSemSpec, Invariance, PTL
<1>4. Spec => []Turns
  BY <1>1, <1>3, TurnsStep, PTL DEF Spec
<1> QED BY <1>2, <1>3, <1>4, StepInTurns, PTL DEF Spec, IsUsedInTurns, Shm!ShmSpec

-----------------------------------------------------------------------------
(* What is proved of SysVShm holds here.  The modules that Shm and Seg are  *)
(* instances of define the same; the provers are shown it piece by piece.   *)

Seg == INSTANCE SysVShmProofs

LEMMA SameChunks ==
  /\ \A pos : Shm!Before(pos) = Seg!Before(pos)
  /\ \A s, n : Shm!Behind(s, n) = Seg!Behind(s, n)
  /\ \A k : Shm!Found(Shm!Visible, k) = Seg!Found(Seg!Visible, k)
  /\ \A s, i : Shm!Without(s, i) = Seg!Without(s, i)
  /\ Shm!Visible = Seg!Visible
<1>1. \A s, n : Shm!Behind(s, n) = Seg!Behind(s, n)
  BY DEF Shm!Behind, Seg!Behind
<1>2. ASSUME NEW pos PROVE Shm!Before(pos) = Seg!Before(pos)
  <2>1. {i \in DOMAIN chunks : Shm!Behind(chunks, i - 1) < pos}
        = {i \in DOMAIN chunks : Seg!Behind(chunks, i - 1) < pos}
    BY <1>1
  <2>2. \A S : Shm!Cardinality(S) = Seg!Cardinality(S)
    BY DEF Shm!Cardinality, Seg!Cardinality
  <2> QED BY <2>1, <2>2 DEF Shm!Before, Seg!Before
<1>3. Shm!Visible = Seg!Visible
  BY <1>2 DEF Shm!Visible, Seg!Visible
<1>4. \A k : Shm!Found(Shm!Visible, k) = Seg!Found(Seg!Visible, k)
  BY <1>3 DEF Shm!Found, Seg!Found
<1>5. \A s, i : Shm!Without(s, i) = Seg!Without(s, i)
  BY DEF Shm!Without, Seg!Without
<1> QED BY <1>1, <1>2, <1>3, <1>4, <1>5

LEMMA SameNext == Shm!ShmNext <=> Seg!ShmNext
<1>1. ASSUME NEW p \in Process
      PROVE  /\ Shm!Begin(p) <=> Seg!Begin(p)
             /\ Shm!Alone(p) <=> Seg!Alone(p)
             /\ ~Shm!InCall(p) /\ Shm!Detach(p) <=> ~Seg!InCall(p) /\ Seg!Detach(p)
             /\ Shm!Die(p) <=> Seg!Die(p)
  <2>1. \A k : Shm!Found(Shm!Visible, k) = Seg!Found(Seg!Visible, k)
    BY SameChunks
  <2>2. ASSUME NEW k, NEW v PROVE Shm!PutVar(p, k, v) <=> Seg!PutVar(p, k, v)
    BY <2>1 DEF Shm!PutVar, Seg!PutVar
  <2>3. ASSUME NEW k PROVE Shm!RemoveVar(p, k) <=> Seg!RemoveVar(p, k)
    BY <2>1 DEF Shm!RemoveVar, Seg!RemoveVar
  <2>4. ASSUME NEW m PROVE Shm!Attach(p, m) <=> Seg!Attach(p, m)
    BY DEF Shm!Attach, Seg!Attach
  <2>5. Shm!RemoveSegment(p) <=> Seg!RemoveSegment(p)
    BY DEF Shm!RemoveSegment, Seg!RemoveSegment, Shm!Fresh, Seg!Fresh, Shm!NoHead, Seg!NoHead
  <2>11. Shm!UseTorn(p) <=> Seg!UseTorn(p)
    BY DEF Shm!UseTorn, Seg!UseTorn, Shm!LostCall, Seg!LostCall
  <2>6. Shm!InCall(p) <=> Seg!InCall(p)
    BY DEF Shm!InCall, Seg!InCall, Shm!NoCall, Seg!NoCall
  <2>7. Shm!Begin(p) <=> Seg!Begin(p)
    BY <2>2, <2>3, <2>4, <2>5, <2>6, <2>11 DEF Shm!Begin, Seg!Begin
  <2>8. Shm!Alone(p) <=> Seg!Alone(p)
    BY DEF Shm!Alone, Seg!Alone, Shm!InCall, Seg!InCall, Shm!NoCall, Seg!NoCall
  <2>9. Shm!Die(p) <=> Seg!Die(p)
    <3>1. \A place : Shm!Reached(p, place) <=> Seg!Reached(p, place)
      BY DEF Shm!Reached, Seg!Reached, Shm!InCall, Seg!InCall, Shm!NoCall, Seg!NoCall
    <3>2. Shm!VictimLength(p) = Seg!VictimLength(p) /\ Shm!Victim(p) = Seg!Victim(p)
      BY DEF Shm!VictimLength, Seg!VictimLength, Shm!Victim, Seg!Victim
    <3>3. Shm!MoveLength(p) = Seg!MoveLength(p)
      BY <3>2, SameChunks DEF Shm!MoveLength, Seg!MoveLength
    <3>4. Shm!Pending(p) = Seg!Pending(p)
      BY <3>1, <3>2 DEF Shm!Pending, Seg!Pending
    <3>5. Shm!Tear <=> Seg!Tear
      BY DEF Shm!Tear, Seg!Tear, Shm!NoHead, Seg!NoHead
    <3>6. Shm!Return(p) <=> Seg!Return(p)
      BY DEF Shm!Return, Seg!Return, Shm!NoCall, Seg!NoCall
    <3> QED BY <3>1, <3>3, <3>4, <3>5, <3>6 DEF Shm!Die, Seg!Die
  <2>10. Shm!Detach(p) <=> Seg!Detach(p)
    BY DEF Shm!Detach, Seg!Detach
  <2> QED BY <2>6, <2>7, <2>8, <2>9, <2>10
<1>2. ASSUME NEW p \in Process PROVE Shm!Proceed(p) <=> Seg!Proceed(p)
  <2>1. \A place : Shm!Continue(p, place) <=> Seg!Continue(p, place)
    BY DEF Shm!Continue, Seg!Continue
  <2>2. \A place : Shm!Reached(p, place) <=> Seg!Reached(p, place)
    BY DEF Shm!Reached, Seg!Reached, Shm!InCall, Seg!InCall, Shm!NoCall, Seg!NoCall
  <2>3. (Shm!Attached(p) <=> Seg!Attached(p)) /\ (Shm!Return(p) <=> Seg!Return(p))
    BY DEF Shm!Attached, Seg!Attached, Shm!Return, Seg!Return, Shm!NoCall, Seg!NoCall
  <2>4. Shm!VictimLength(p) = Seg!VictimLength(p) /\ Shm!Victim(p) = Seg!Victim(p)
    BY DEF Shm!VictimLength, Seg!VictimLength, Shm!Victim, Seg!Victim
  <2>5. Shm!Visible = Seg!Visible
    BY SameChunks
  <2>6. Shm!Check(p) <=> Seg!Check(p)
    BY <2>1, <2>2, <2>3 DEF Shm!Check, Seg!Check
  <2>7. \A f, v, next : Shm!Write(p, f, v, next) <=> Seg!Write(p, f, v, next)
    BY <2>1, <2>2 DEF Shm!Write, Seg!Write
  <2>8. Shm!InitializeFree(p) <=> Seg!InitializeFree(p)
    BY <2>2, <2>3 DEF Shm!InitializeFree, Seg!InitializeFree
  <2>9. Shm!Initialize(p) <=> Seg!Initialize(p)
    BY <2>2, <2>7, <2>8 DEF Shm!Initialize, Seg!Initialize
  <2>10. (Shm!Unfree(p) <=> Seg!Unfree(p)) /\ (Shm!Shorten(p) <=> Seg!Shorten(p))
    BY <2>1, <2>2, <2>4 DEF Shm!Unfree, Seg!Unfree, Shm!Shorten, Seg!Shorten
  <2>11. Shm!Move(p) <=> Seg!Move(p)
    <3>1. Shm!AfterMove(p) <=> Seg!AfterMove(p)
      BY <2>1, <2>3 DEF Shm!AfterMove, Seg!AfterMove
    <3>2. Shm!MoveLength(p) = Seg!MoveLength(p)
      BY <2>4, SameChunks DEF Shm!MoveLength, Seg!MoveLength
    <3>3. Shm!Tear <=> Seg!Tear
      BY DEF Shm!Tear, Seg!Tear, Shm!NoHead, Seg!NoHead
    <3> QED BY <2>2, <2>4, <3>1, <3>2, <3>3, SameChunks
            DEF Shm!Move, Seg!Move, Shm!LostCall, Seg!LostCall
  <2>12. (Shm!Append_(p) <=> Seg!Append_(p)) /\ (Shm!Extend(p) <=> Seg!Extend(p))
    BY <2>1, <2>2, <2>5 DEF Shm!Append_, Seg!Append_, Shm!Extend, Seg!Extend
  <2>13. Shm!Take(p) <=> Seg!Take(p)
    BY <2>2, <2>3 DEF Shm!Take, Seg!Take
  <2>14. Shm!FindBack(p) <=> Seg!FindBack(p)
    BY <2>2, <2>3 DEF Shm!FindBack, Seg!FindBack
  <2> QED BY <2>6, <2>9, <2>10, <2>11, <2>12, <2>13, <2>14 DEF Shm!Proceed, Seg!Proceed
<1> QED BY <1>1, <1>2 DEF Shm!ShmNext, Seg!ShmNext

LEMMA SameInit == Shm!ShmInit <=> Seg!ShmInit
BY DEF Shm!ShmInit, Seg!ShmInit, Shm!NoHead, Seg!NoHead, Shm!NoCall, Seg!NoCall

LEMMA SameProperties ==
  /\ Shm!Parameters <=> Seg!Parameters
  /\ Shm!ShmTypeOK <=> Seg!ShmTypeOK
  /\ Shm!RoomIsThere <=> Seg!RoomIsThere
  /\ Shm!WithinSegment <=> Seg!WithinSegment
<1>1. Shm!Parameters <=> Seg!Parameters
  BY DEF Shm!Parameters, Seg!Parameters
<1>2. Shm!ShmTypeOK <=> Seg!ShmTypeOK
  BY DEF Shm!ShmTypeOK, Seg!ShmTypeOK, Shm!Chunk, Seg!Chunk, Shm!NoCall, Seg!NoCall,
     Shm!LostCall, Seg!LostCall, Shm!AttachCalls, Seg!AttachCalls, Shm!PutCalls, Seg!PutCalls,
     Shm!RemoveCalls, Seg!RemoveCalls, Shm!Attaching, Seg!Attaching,
     Shm!Removing, Seg!Removing, Shm!Appending, Seg!Appending
<1>3. Shm!RoomIsThere <=> Seg!RoomIsThere
  BY DEF Shm!RoomIsThere, Seg!RoomIsThere, Shm!Fits, Seg!Fits, Shm!Reaching, Seg!Reaching,
     Shm!Callers, Seg!Callers, Shm!InCall, Seg!InCall, Shm!Reached, Seg!Reached,
     Shm!NoCall, Seg!NoCall
<1>4. Shm!Reaching({"move"}) <=> Seg!Reaching({"move"})
  BY DEF Shm!Reaching, Seg!Reaching, Shm!Callers, Seg!Callers, Shm!InCall, Seg!InCall,
     Shm!NoCall, Seg!NoCall
<1>5. Shm!WithinSegment <=> Seg!WithinSegment
  BY <1>4, SameChunks DEF Shm!WithinSegment, Seg!WithinSegment, Shm!WalkEndsAtEnd,
     Seg!WalkEndsAtEnd
<1> QED BY <1>1, <1>2, <1>3, <1>5

LEMMA SpecIsSegSpec == Spec => Seg!ShmSpec
<1>1. [Shm!ShmNext]_(Shm!shmVars) => [Seg!ShmNext]_(Seg!shmVars)
  BY SameNext DEF Shm!shmVars, Seg!shmVars
<1> QED BY <1>1, SameInit, CallsTakeTurns, PTL DEF IsUsedInTurns, Shm!ShmSpec, Seg!ShmSpec

\* The variables of the semaphore and of the segment have their types, in a
\* call too.
THEOREM TypeCorrect == Spec => []TypeOK
<1>1. Spec => []SemTypeOK
  BY SpecIsSemSpec, SemTypeCorrect, PTL
<1>2. Seg!ShmSpec => []Seg!ShmTypeOK
  BY ShmAssumption, SameProperties, Seg!ShmTypeCorrect
<1>3. SemTypeOK /\ Seg!ShmTypeOK => TypeOK
  BY SameProperties DEF TypeOK
<1> QED BY <1>1, <1>2, <1>3, SpecIsSegSpec, PTL

\* The scripts of any number of processes, with values of any lengths in a
\* segment of any size, write behind it what deaths in the middle of an update
\* left counted twice and no more: nothing, if nobody died there.  This is for
\* what a move that was broken off or overlapped has not torn.
THEOREM SharedWritesFit ==
  ASSUME Process # {} PROVE Spec => []RoomIsThere
<1>1. Seg!ShmSpec => []Seg!RoomIsThere
  BY ShmAssumption, SameProperties, Seg!WritesFit
<1>2. Seg!RoomIsThere => RoomIsThere
  BY SameProperties DEF RoomIsThere
<1> QED BY <1>1, <1>2, SpecIsSegSpec, PTL

\* A script that looks for a variable stays within what was written, and comes
\* out at the end of it, whatever calls others died in, but for such a move.
THEOREM SharedWalksEnd ==
  ASSUME Process # {} PROVE Spec => []WithinSegment
<1>1. Seg!ShmSpec => []Seg!WithinSegment
  BY ShmAssumption, SameProperties, Seg!WalksEnd
<1>2. Seg!WithinSegment => WithinSegment
  BY SameProperties DEF WithinSegment
<1> QED BY <1>1, <1>2, SpecIsSegSpec, PTL

-----------------------------------------------------------------------------
(* The store that both see *)

Agree == Shm!Content = Seg!Content /\ Shm!Users = Seg!Users /\ Shm!Updating = Seg!Updating

LEMMA SameContent == Agree
<1>1. Shm!Callers = Seg!Callers
  BY DEF Shm!Callers, Seg!Callers, Shm!InCall, Seg!InCall, Shm!NoCall, Seg!NoCall
<1>2. \A p : Shm!Victim(p) = Seg!Victim(p) /\ Shm!VictimLength(p) = Seg!VictimLength(p)
  BY DEF Shm!VictimLength, Seg!VictimLength, Shm!Victim, Seg!Victim
<1>3. Shm!Contents = Seg!Contents
  BY <1>1, <1>2, SameChunks DEF Shm!Contents, Seg!Contents, Shm!Reaching, Seg!Reaching
<1>4. \A k : Shm!Value(k) = Seg!Value(k)
  BY <1>3 DEF Shm!Value, Seg!Value, Shm!Found, Seg!Found
<1>5. Shm!Content = Seg!Content
  BY <1>4 DEF Shm!Content, Seg!Content
<1>6. Shm!Users = Seg!Users
  BY DEF Shm!Users, Seg!Users
<1>7. Shm!Updating = Seg!Updating
  BY <1>1 DEF Shm!Updating, Seg!Updating
<1> QED BY <1>5, <1>6, <1>7 DEF Agree

LEMMA SameStore == Seg!IsSharedStore => IsSharedStore
<1>1. Seg!Store!Init => Shm!Store!Init
  BY SameContent DEF Agree, Seg!Store!Init, Shm!Store!Init, Seg!Store!Empty, Shm!Store!Empty,
                     Seg!Store!NoValue, Shm!Store!NoValue
<1>2. [Seg!Store!Next]_(Seg!Store!vars) => [Shm!Store!Next]_(Shm!Store!vars)
  <2> SUFFICES ASSUME [Seg!Store!Next]_(Seg!Store!vars)
               PROVE  Shm!Store!Next \/ UNCHANGED Shm!Store!vars
    OBVIOUS
  <2>1. Agree /\ Agree'
    BY SameContent, PTL
  <2> USE DEF Agree, Seg!Store!NoValue, Shm!Store!NoValue, Seg!Store!Unknown,
              Shm!Store!Unknown, Seg!Store!Known, Shm!Store!Known
  <2>2. CASE UNCHANGED Seg!Store!vars
    BY <2>1, <2>2 DEF Seg!Store!vars, Shm!Store!vars
  <2>3. CASE Seg!Store!Begin
    <3>1. Shm!Store!Begin
      BY <2>1, <2>3 DEF Seg!Store!Begin, Shm!Store!Begin, Seg!Store!Put, Shm!Store!Put,
                        Seg!Store!Remove, Shm!Store!Remove
    <3> QED BY <3>1 DEF Shm!Store!Next
  <2>4. CASE Seg!Store!Erase \/ Seg!Store!Insert
    <3>1. Shm!Store!Erase \/ Shm!Store!Insert
      BY <2>1, <2>4 DEF Seg!Store!Erase, Shm!Store!Erase, Seg!Store!Insert, Shm!Store!Insert
    <3> QED BY <3>1 DEF Shm!Store!Next
  <2>5. CASE Seg!Store!End \/ Seg!Store!Abandon
    <3>1. Shm!Store!End \/ Shm!Store!Abandon
      BY <2>1, <2>5 DEF Seg!Store!End, Shm!Store!End, Seg!Store!Abandon, Shm!Store!Abandon
    <3> QED BY <3>1 DEF Shm!Store!Next
  <2>6. CASE Seg!Store!Garble \/ Seg!Store!Join \/ Seg!Store!Leave
    <3>1. Shm!Store!Garble \/ Shm!Store!Join \/ Shm!Store!Leave
      BY <2>1, <2>6 DEF Seg!Store!Garble, Shm!Store!Garble, Seg!Store!Join, Shm!Store!Join,
                        Seg!Store!Leave, Shm!Store!Leave
    <3> QED BY <3>1 DEF Shm!Store!Next
  <2>7. CASE Seg!Store!Reset
    <3>1. Shm!Store!Reset
      BY <2>1, <2>7 DEF Seg!Store!Reset, Shm!Store!Reset, Seg!Store!Empty, Shm!Store!Empty
    <3> QED BY <3>1 DEF Shm!Store!Next
  <2> QED BY <2>2, <2>3, <2>4, <2>5, <2>6, <2>7 DEF Seg!Store!Next
<1> QED BY <1>1, <1>2, PTL
       DEF IsSharedStore, Shm!IsSharedStore, Seg!IsSharedStore, Shm!Store!Spec, Seg!Store!Spec

\* Scripts of any number of processes that take turns share a store.
THEOREM SharedStoreKept ==
  ASSUME Process # {}, Key # {} PROVE Spec => IsSharedStore
<1>1. Seg!ShmSpec => Seg!IsSharedStore
  BY ShmAssumption, SameProperties, Seg!SegmentIsStore
<1> QED BY <1>1, SpecIsSegSpec, SameStore, PTL
=============================================================================
