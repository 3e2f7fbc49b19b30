------------------------------- MODULE SysVSem -------------------------------
(***************************************************************************)
(* The semaphores of functions/sysvsem.c, for scripts: sem_get,            *)
(* sem_acquire, sem_release and the release at the end of a request, by    *)
(* the processes of a server that use one key.                             *)
(*                                                                         *)
(* Such a semaphore is three semaphores of the kernel: SEM counts down     *)
(* from max_acquire, USAGE counts the users, and SETVAL is a lock held in  *)
(* sem_get, where the only user sets SEM.  Nobody destroys them: what a    *)
(* process leaves behind is undone by the kernel, with its semadj.  The    *)
(* kernel is external: semop, SETVAL and the undo are modelled from how    *)
(* the code uses them.                                                     *)
(*                                                                         *)
(* A process can die between any two of these calls: of a signal, or of    *)
(* the time limit, whose handler ends the process (main.c, php3_timeout).  *)
(* A script calls sem_get once.  The calls of the kernel do not fail, but  *)
(* for EINTR, on which they are made again.                                *)
(***************************************************************************)
EXTENDS Integers, FiniteSets

CONSTANTS Process,       \* processes that use the key
          MaxAcquires,   \* the max_acquire that scripts ask for
          Kernels        \* how kernels undo what a dead process did

ASSUME ProcessAssumption == IsFiniteSet(Process)
ASSUME MaxAssumption == MaxAcquires \subseteq Nat \ {0}
ASSUME KernelAssumption == Kernels \subseteq {"atomic", "stepwise"}

VARIABLES semval,   \* values of the three semaphores
          semadj,   \* of each process: what the kernel adds when it dies
          undo,     \* how the kernel does
          pc,       \* where a process is
          count,    \* of its sysvsem_sem: acquired and not released
          limit     \* history: what SEM was last set to

semVars == <<semval, semadj, undo, pc, count, limit>>

Semaphores == {"SEM", "USAGE", "SETVAL"}
Op(sem, usage, setval) == [SEM |-> sem, USAGE |-> usage, SETVAL |-> setval]
Nothing == Op(0, 0, 0)

\* In a call of the module or between two; or dead and not undone yet.
Inside == {"locked", "set", "unlock"}
Using == {"ready", "acquiring"}
Places == {"none", "get", "dead"} \cup Inside \cup Using

Plus(v, w) == [s \in Semaphores |-> v[s] + w[s]]
Minus(v, w) == [s \in Semaphores |-> v[s] - w[s]]
\* An undo does not make a semaphore negative.
Clamped(v) == [s \in Semaphores |-> IF v[s] < 0 THEN 0 ELSE v[s]]

-----------------------------------------------------------------------------
(* The kernel *)

CanDo(op) == \A s \in Semaphores : semval[s] + op[s] >= 0

\* semop with SEM_UNDO: all of op or, until all of it is possible, nothing.
semop(p, op) ==
  /\ semval' = Plus(semval, op)
  /\ semadj' = [semadj EXCEPT ![p] = Minus(semadj[p], op)]

\* semctl(SETVAL) on SEM: nobody has to undo anything of it any more.
SetSEM(m) ==
  /\ semval' = [semval EXCEPT !.SEM = m]
  /\ semadj' = [q \in Process |-> [semadj[q] EXCEPT !.SEM = 0]]

At(p, place) == pc[p] = place
Goto(p, place) == pc' = [pc EXCEPT ![p] = place]

\* A dead process is undone in one step, or one semaphore at a time.
UndoAll(p) ==
  /\ semval' = Clamped(Plus(semval, semadj[p]))
  /\ semadj' = [semadj EXCEPT ![p] = Nothing]

UndoOne(p, s) ==
  /\ semadj[p][s] # 0
  /\ semval' = [semval EXCEPT ![s] = Clamped(Plus(semval, semadj[p]))[s]]
  /\ semadj' = [semadj EXCEPT ![p] = [semadj[p] EXCEPT ![s] = 0]]

Undo(p) ==
  /\ At(p, "dead") /\ semadj[p] # Nothing
  /\ \/ undo = "atomic" /\ UndoAll(p)
     \/ undo = "stepwise" /\ \E s \in Semaphores : UndoOne(p, s)
  /\ UNCHANGED <<undo, pc, count, limit>>

\* The server starts another process instead.
Reap(p) ==
  /\ At(p, "dead") /\ semadj[p] = Nothing
  /\ Goto(p, "none")
  /\ UNCHANGED <<semval, semadj, undo, count, limit>>

Crash(p) ==
  /\ pc[p] \notin {"none", "dead"}
  /\ Goto(p, "dead")
  /\ count' = [count EXCEPT ![p] = 0]
  /\ UNCHANGED <<semval, semadj, undo, limit>>

-----------------------------------------------------------------------------
(* sem_get *)

Get(p) ==
  /\ At(p, "none")
  /\ Goto(p, "get")
  /\ UNCHANGED <<semval, semadj, undo, count, limit>>

Free == semval["SETVAL"] = 0

\* Mutant: without the operation that waits for zero.
Lock_NoWait(p) ==
  /\ At(p, "get")
  /\ semop(p, Op(0, 1, 1))
  /\ Goto(p, "locked")
  /\ UNCHANGED <<undo, count, limit>>

\* Wait for SETVAL to be zero, make it one, and count as a user, at once.
Lock(p) ==
  /\ At(p, "get")
  /\ Free
  /\ semop(p, Op(0, 1, 1))
  /\ Goto(p, "locked")
  /\ UNCHANGED <<undo, count, limit>>

\* Mutant: the first users set it, and not the only one.
GetUsage_AtMostTwo(p) ==
  /\ At(p, "locked")
  /\ Goto(p, IF semval["USAGE"] <= 2 THEN "set" ELSE "unlock")
  /\ UNCHANGED <<semval, semadj, undo, count, limit>>

GetUsage(p) ==
  /\ At(p, "locked")
  /\ Goto(p, IF semval["USAGE"] = 1 THEN "set" ELSE "unlock")
  /\ UNCHANGED <<semval, semadj, undo, count, limit>>

\* The only user sets SEM, to the max_acquire it was called with.
SetMax(p) ==
  /\ At(p, "set")
  /\ \E max_acquire \in MaxAcquires : SetSEM(max_acquire) /\ limit' = max_acquire
  /\ Goto(p, "unlock")
  /\ UNCHANGED <<undo, count>>

\* Release SETVAL, and make a list entry.
Unlock(p) ==
  /\ At(p, "unlock")
  /\ CanDo(Op(0, 0, -1)) /\ semop(p, Op(0, 0, -1))
  /\ Goto(p, "ready")
  /\ UNCHANGED <<undo, count, limit>>

-----------------------------------------------------------------------------
(* sem_acquire, sem_release, and the end of the request *)

CallAcquire(p) ==
  /\ At(p, "ready")
  /\ Goto(p, "acquiring")
  /\ UNCHANGED <<semval, semadj, undo, count, limit>>

Acquire(p) ==
  /\ At(p, "acquiring")
  /\ CanDo(Op(-1, 0, 0)) /\ semop(p, Op(-1, 0, 0))
  /\ count' = [count EXCEPT ![p] = @ + 1]
  /\ Goto(p, "ready")
  /\ UNCHANGED <<undo, limit>>

\* What is not acquired is not released, with a warning.
Release(p) ==
  /\ At(p, "ready") /\ count[p] > 0
  /\ semop(p, Op(1, 0, 0))
  /\ count' = [count EXCEPT ![p] = @ - 1]
  /\ UNCHANGED <<undo, pc, limit>>

\* Mutant: what is still acquired is not released.
EndRequest_Keeps(p) ==
  /\ At(p, "ready")
  /\ CanDo(Op(0, -1, 0)) /\ semop(p, Op(0, -1, 0))
  /\ count' = [count EXCEPT ![p] = 0]
  /\ Goto(p, "none")
  /\ UNCHANGED <<undo, limit>>

\* release_sysvsem_sem, called for the list entry.
EndRequest(p) ==
  /\ At(p, "ready")
  /\ CanDo(Op(count[p], -1, 0)) /\ semop(p, Op(count[p], -1, 0))
  /\ count' = [count EXCEPT ![p] = 0]
  /\ Goto(p, "none")
  /\ UNCHANGED <<undo, limit>>

-----------------------------------------------------------------------------
SemInit ==
  /\ semval = Nothing
  /\ semadj = [p \in Process |-> Nothing]
  /\ undo \in Kernels
  /\ pc = [p \in Process |-> "none"]
  /\ count = [p \in Process |-> 0]
  /\ limit = 0

InGet(p) == GetUsage(p) \/ SetMax(p) \/ Unlock(p)
Clean(p) == Undo(p) \/ Reap(p)

SemStep(p) ==
  \/ Get(p) \/ Lock(p) \/ InGet(p)
  \/ CallAcquire(p) \/ Acquire(p) \/ Release(p) \/ EndRequest(p)
  \/ Clean(p)

SemNext == \E p \in Process : SemStep(p) \/ Crash(p)

SemSpec == SemInit /\ [][SemNext]_semVars

-----------------------------------------------------------------------------
(* Properties *)

\* The values have their types; no semaphore of the kernel is negative, and
\* SETVAL is zero or one.
SemTypeOK ==
  /\ semval \in [Semaphores -> Nat] /\ semval["SETVAL"] \in {0, 1}
  /\ semadj \in [Process -> [Semaphores -> Int]]
  /\ undo \in Kernels
  /\ pc \in [Process -> Places]
  /\ count \in [Process -> Nat]
  /\ limit \in Nat

Semaphore == INSTANCE CountingSemaphore WITH Limits <- MaxAcquires, held <- count

\* Scripts see a counting semaphore: no more acquire it than the first of
\* them allowed, whatever those ask for that come later, a limit changes only
\* while nobody has acquired it, and whoever dies gives up all it had; though
\* the three values are set and undone in several steps.
IsCountingSemaphore == Semaphore!Spec

Blocked(p) == pc[p] \in {"get", "acquiring"}

\* Where the kernel undoes a process at once, sem_get and sem_acquire return
\* in the end, unless somebody who has the semaphore waits for more of it:
\* no death, in whatever step, takes the lock of sem_get or a place along.
Served ==
  \A p \in Process :
    undo = "atomic" /\ Blocked(p)
      ~> ~Blocked(p) \/ \E q \in Process : At(q, "acquiring") /\ count[q] > 0
=============================================================================
