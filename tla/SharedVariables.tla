--------------------------- MODULE SharedVariables ---------------------------
(***************************************************************************)
(* Scripts that share variables the way the manual tells them to           *)
(* (doc/ref.sem.html): they make the calls of SysVShm while they have the  *)
(* semaphore of SysVSem, all of it where more than one may have it.        *)
(***************************************************************************)
EXTENDS SysVSem

CONSTANTS Key, Val, Length, HeadSize, Memsizes, MaxExcess
VARIABLES size, head, chunks, excess, torn, handle, call

Shm == INSTANCE SysVShm

ASSUME ShmAssumption == Shm!Parameters
shmVars == <<size, head, chunks, excess, torn, handle, call>>
vars == <<semVars, shmVars>>

\* What is asked of a script: that it acquired the semaphore as often as it was
\* set to allow.  A script cannot read that (limit is history); it has to know,
\* and one that is wrong about it does not take turns.
HasAll(p) == At(p, "ready") /\ count[p] = limit /\ limit > 0

\* Mutant: to have a share of it is enough.
BeginCall_Shared(p) ==
  /\ At(p, "ready") /\ count[p] > 0
  /\ Shm!Begin(p)
  /\ UNCHANGED semVars

BeginCall(p) ==
  /\ HasAll(p)
  /\ Shm!Begin(p)
  /\ UNCHANGED semVars

ProceedCall(p) ==
  /\ Shm!Proceed(p)
  /\ UNCHANGED semVars

\* The destructors of both list entries.
EndScript(p) ==
  /\ ~Shm!InCall(p)
  /\ EndRequest(p) /\ Shm!Detach(p)

Between(p) ==
  /\ ~Shm!InCall(p)
  /\ \/ SemStep(p) /\ pc'[p] # "none" /\ UNCHANGED shmVars
     \/ HasAll(p) /\ handle[p] /\ Shm!Detach(p) /\ UNCHANGED semVars
     \/ Reap(p) /\ UNCHANGED shmVars

Death(p) == Crash(p) /\ Shm!Die(p)

Step(p) == BeginCall(p) \/ ProceedCall(p) \/ Between(p) \/ EndScript(p) \/ Death(p)

Init == SemInit /\ Shm!ShmInit
Next == \E p \in Process : Step(p)
Spec == Init /\ [][Next]_vars

\* The kernel wakes those that wait for a semaphore in turn, so that none of
\* them is passed over for ever; a process runs, and a script ends.  A call on
\* a torn segment may walk there for ever: then the time limit ends it.
Fairness ==
  \A p \in Process :
    /\ SF_vars((Lock(p) \/ Acquire(p)) /\ UNCHANGED shmVars)
    /\ WF_vars(((InGet(p) \/ Clean(p)) /\ UNCHANGED shmVars) \/ ProceedCall(p)
               \/ (Shm!Reached(p, "lost") /\ Death(p)))
    /\ SF_vars(EndScript(p))

FairSpec == Spec /\ Fairness

TypeOK == SemTypeOK /\ Shm!ShmTypeOK

\* The semaphore gives the calls of SysVShm what they need: those of scripts
\* that take all of it are made by one process at a time, although limits
\* differ, processes die in the calls, and the semaphore passes on while the
\* dead one is undone.
IsUsedInTurns == Shm!ShmSpec

\* Of the scripts' segment holds what SysVShm says of it.
IsSharedStore == Shm!IsSharedStore
RoomIsThere == Shm!RoomIsThere
WithinSegment == Shm!WithinSegment
WrittenWithin == Shm!WrittenWithin
=============================================================================
