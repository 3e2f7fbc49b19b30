------------------------------- MODULE SysVShm -------------------------------
(***************************************************************************)
(* The shared variables of functions/sysvshm.c: a segment of the kernel    *)
(* that begins with a head and holds chunks, one behind the other, each    *)
(* with the key and the serialized value of a variable.                    *)
(*                                                                         *)
(* Every write to the segment is a step, for a process can die after any   *)
(* of them.  Reading is not: the calls are safe for one process at a time  *)
(* only, and that they get no more is what a semaphore is for (see         *)
(* SharedVariables).                                                       *)
(*                                                                         *)
(* The memory from start on is the sequence of its chunks, also of those   *)
(* that are not, or not yet, in front of end.  A length is that of         *)
(* chunk->next, of the aligned chunk.  There is one key; a process attaches *)
(* the segment once.  The kernel's calls do not fail.  A process that      *)
(* writes where no memory is, or uses a segment that it detached, dies;    *)
(* and processes may die at any place, so that this is one of them.        *)
(***************************************************************************)
EXTENDS Integers, Sequences, FiniteSets

CONSTANTS Process,
          Key, Val,     \* of variables
          Length,       \* what chunk->next is for a value
          HeadSize,     \* sizeof(sysvshm_chunk_head)
          Memsizes,     \* the sizes scripts ask for
          MaxExcess     \* a bound: no death leaves more excess

VARIABLES size,     \* of the segment of the key, 0 if there is none
          head,     \* its head
          chunks,   \* its chunks
          excess,   \* history: room that the head may count and that is not there
          torn,     \* its chunks were moved in part: what is in it is not known
          handle,   \* is it attached?
          call      \* where a process is in a call, and its locals

shmVars == <<size, head, chunks, excess, torn, handle, call>>

\* A chunk has a length, and so has the head.
Parameters ==
  /\ Length \in [Val -> Nat \ {0}]
  /\ HeadSize \in Nat \ {0}
  /\ Memsizes \subseteq Nat \ {0}
  /\ MaxExcess \in Nat

NoHead == [magic |-> FALSE, start |-> 0, end |-> 0, free |-> 0, total |-> 0]
NoCall == [at |-> "none"]
LostCall == [at |-> "lost"]
Chunk == [key : Key, val : Val]

InCall(p) == call[p] # NoCall
Reached(p, place) == InCall(p) /\ call[p].at = place
Continue(p, place) == call' = [call EXCEPT ![p].at = place]
Return(p) == call' = [call EXCEPT ![p] = NoCall]

Without(s, i) == [j \in 1 .. Len(s) - 1 |-> IF j < i THEN s[j] ELSE s[j + 1]]

\* The position behind the first n of the chunks s.
Behind(s, n) ==
  LET position[i \in 0 .. n] ==
        IF i = 0 THEN head.start ELSE position[i - 1] + Length[s[i].val]
  IN  position[n]

\* The chunks in front of a position: those that a walk reaches before it.
Before(pos) ==
  SubSeq(chunks, 1, Cardinality({i \in DOMAIN chunks : Behind(chunks, i - 1) < pos}))

Visible == Before(head.end)

\* Mutant: behind a chunk that does not match nothing is looked at.
Found_FirstOnly(s, k) == {i \in DOMAIN s : s[i].key = k /\ i = 1}

\* php3int_check_shmdata: the first chunk with a key, as a set of at most one.
Found(s, k) == {i \in DOMAIN s : s[i].key = k /\ \A j \in 1 .. i - 1 : s[j].key # k}

-----------------------------------------------------------------------------
(* shm_attach *)

Fresh == size' = 0 /\ head' = NoHead /\ chunks' = <<>> /\ excess' = 0

\* Open the segment, or create it, zeroed; memsize is for a new one.
Attach(p, memsize) ==
  /\ ~handle[p]
  /\ size = 0 => memsize >= HeadSize
  /\ size' = IF size = 0 THEN memsize ELSE size
  /\ call' = [call EXCEPT ![p] = [at |-> "check", memsize |-> memsize]]
  /\ UNCHANGED <<head, chunks, excess, torn, handle>>

Attached(p) ==
  /\ handle' = [handle EXCEPT ![p] = TRUE]
  /\ Return(p)

\* Is it initialized already?  What tears a segment is behind its head, so
\* that magic is taken to be there, whatever is done in a torn one later.
Check(p) ==
  /\ Reached(p, "check")
  /\ IF head.magic \/ torn THEN Attached(p) ELSE Continue(p, "magic") /\ UNCHANGED handle
  /\ UNCHANGED <<size, head, chunks, excess, torn>>

Write(p, field, value, next) ==
  /\ Reached(p, field)
  /\ head' = [head EXCEPT ![field] = value]
  /\ Continue(p, next)
  /\ UNCHANGED <<size, chunks, excess, torn, handle>>

\* Somebody else may have created the segment, and died, with another size.
InitializeFree(p) ==
  /\ Reached(p, "free")
  /\ head' = [head EXCEPT !.free = call[p].memsize - head.end]
  /\ excess' = IF call[p].memsize > size THEN call[p].memsize - size ELSE 0
  /\ Attached(p)
  /\ UNCHANGED <<size, chunks, torn>>

\* The head is written field after field, magic first.
Initialize(p) ==
  \/ Write(p, "magic", TRUE, "start")
  \/ Write(p, "start", HeadSize, "end")
  \/ Write(p, "end", head.start, "total")
  \/ Reached(p, "total") /\ Write(p, "total", call[p].memsize, "free")
  \/ InitializeFree(p)

-----------------------------------------------------------------------------
(* shm_put_var and shm_remove_var *)

\* Mutant: the room is not looked at.
PutVar_NoTest(p, k, v) ==
  /\ handle[p]
  /\ call' = [call EXCEPT ![p] =
       [at |-> IF Found(Visible, k) = {} THEN "append" ELSE "unfree",
        name |-> "put", key |-> k, val |-> v, found |-> Found(Visible, k)]]
  /\ UNCHANGED <<size, head, chunks, excess, torn, handle>>

\* Without enough room for all of the value nothing is done, and FALSE is
\* returned; an old value of the key is taken out first.
PutVar(p, k, v) ==
  /\ handle[p]
  /\ head.free >= Length[v]
  /\ call' = [call EXCEPT ![p] =
       [at |-> IF Found(Visible, k) = {} THEN "append" ELSE "unfree",
        name |-> "put", key |-> k, val |-> v, found |-> Found(Visible, k)]]
  /\ UNCHANGED <<size, head, chunks, excess, torn, handle>>

RemoveVar(p, k) ==
  /\ handle[p]
  /\ Found(Visible, k) # {}
  /\ call' = [call EXCEPT ![p] =
       [at |-> "unfree", name |-> "remove", key |-> k, found |-> Found(Visible, k)]]
  /\ UNCHANGED <<size, head, chunks, excess, torn, handle>>

Victim(p) == CHOOSE i \in call[p].found : TRUE
VictimLength(p) == Length[chunks[Victim(p)].val]

\* php3int_remove_shmdata: free, then end, and then the chunks behind move up.
Unfree(p) ==
  /\ Reached(p, "unfree")
  /\ head' = [head EXCEPT !.free = @ + VictimLength(p)]
  /\ Continue(p, "shorten")
  /\ UNCHANGED <<size, chunks, excess, torn, handle>>

Shorten(p) ==
  /\ Reached(p, "shorten")
  /\ head' = [head EXCEPT !.end = @ - VictimLength(p)]
  /\ Continue(p, "move")
  /\ UNCHANGED <<size, chunks, excess, torn, handle>>

AfterMove(p) == IF call[p].name = "put" THEN Continue(p, "append") ELSE Return(p)

\* Mutant: the chunks behind are not moved.
Move_Nothing(p) ==
  /\ Reached(p, "move")
  /\ AfterMove(p)
  /\ UNCHANGED <<size, head, chunks, excess, torn, handle>>

\* memcpy_len, after end was written.
MoveLength(p) == head.end - Behind(chunks, Victim(p) - 1)

Tear == torn' = TRUE /\ head' = NoHead /\ chunks' = <<>> /\ excess' = 0

\* memcpy of more than the length of the gap is a copy between objects that
\* overlap: it is not known what it leaves.
Move(p) ==
  /\ Reached(p, "move")
  /\ \/ /\ chunks' = Without(Before(head.end + VictimLength(p)), Victim(p))
        /\ AfterMove(p)
        /\ UNCHANGED <<head, excess, torn>>
     \/ MoveLength(p) > VictimLength(p) /\ Tear /\ call' = [call EXCEPT ![p] = LostCall]
  /\ UNCHANGED <<size, handle>>

\* The rest of php3int_put_shmdata: a chunk behind end, then end, then free.
Append_(p) ==
  /\ Reached(p, "append")
  /\ chunks' = Append(Visible, [key |-> call[p].key, val |-> call[p].val])
  /\ Continue(p, "extend")
  /\ UNCHANGED <<size, head, excess, torn, handle>>

Extend(p) ==
  /\ Reached(p, "extend")
  /\ head' = [head EXCEPT !.end = @ + Length[call[p].val]]
  /\ Continue(p, "take")
  /\ UNCHANGED <<size, chunks, excess, torn, handle>>

\* Mutant: the room is not taken.
Take_Nothing(p) ==
  /\ Reached(p, "take")
  /\ Return(p)
  /\ UNCHANGED <<size, head, chunks, excess, torn, handle>>

Take(p) ==
  /\ Reached(p, "take")
  /\ head' = [head EXCEPT !.free = @ - Length[call[p].val]]
  /\ Return(p)
  /\ UNCHANGED <<size, chunks, excess, torn, handle>>

\* A torn segment is used as any other.  What a call reads there may be no
\* chunk, so that it finds anything or nothing, writes anything, or follows
\* lengths for ever, as shm_get_var may.
UseTorn(p) ==
  /\ handle[p]
  /\ call' = [call EXCEPT ![p] = LostCall]
  /\ UNCHANGED <<size, head, chunks, excess, torn, handle>>

FindBack(p) ==
  /\ Reached(p, "lost")
  /\ Return(p)
  /\ UNCHANGED <<size, head, chunks, excess, torn, handle>>

-----------------------------------------------------------------------------
(* The end of a segment, of an attachment, of a process *)

\* shm_remove: the key has no segment any more.  Whoever has attached the old
\* one keeps it to himself.
RemoveSegment(p) ==
  /\ size # 0
  /\ Fresh
  /\ torn' = FALSE
  /\ handle' = [q \in Process |-> FALSE]
  /\ UNCHANGED call

\* shm_detach, and the destructor of the list entry.
Detach(p) ==
  /\ handle' = [handle EXCEPT ![p] = FALSE]
  /\ UNCHANGED <<size, head, chunks, excess, torn, call>>

\* What a call has added to free and not taken from end yet, or added to end
\* and not taken from free.
Pending(p) ==
  CASE Reached(p, "shorten") -> VictimLength(p)
    [] Reached(p, "take")    -> Length[call[p].val]
    [] OTHER                 -> 0

\* The segment stays as it is: with room counted twice, or with chunks that do
\* not go up to end if some were to be moved.
Die(p) ==
  /\ IF Reached(p, "move") /\ MoveLength(p) > 0 THEN Tear
     ELSE /\ Pending(p) > 0 => excess + Pending(p) <= MaxExcess
          /\ excess' = excess + Pending(p)
          /\ UNCHANGED <<head, chunks, torn>>
  /\ handle' = [handle EXCEPT ![p] = FALSE]
  /\ Return(p)
  /\ UNCHANGED size

-----------------------------------------------------------------------------
\* shm_get_var changes nothing.
Begin(p) ==
  /\ ~InCall(p)
  /\ \/ \E memsize \in Memsizes : Attach(p, memsize)
     \/ ~torn /\ \E k \in Key, v \in Val : PutVar(p, k, v)
     \/ ~torn /\ \E k \in Key : RemoveVar(p, k)
     \/ torn /\ UseTorn(p)
     \/ RemoveSegment(p)

Proceed(p) ==
  \/ Check(p) \/ Initialize(p)
  \/ Unfree(p) \/ Shorten(p) \/ Move(p) \/ Append_(p) \/ Extend(p) \/ Take(p)
  \/ FindBack(p)

Alone(p) == \A q \in Process \ {p} : ~InCall(q)

ShmInit ==
  /\ size = 0 /\ head = NoHead /\ chunks = <<>> /\ excess = 0 /\ torn = FALSE
  /\ handle = [p \in Process |-> FALSE]
  /\ call = [p \in Process |-> NoCall]

ShmNext ==
  \E p \in Process :
    \/ Alone(p) /\ (Begin(p) \/ Proceed(p))
    \/ ~InCall(p) /\ Detach(p)
    \/ Die(p)

\* The calls are made by one process at a time.
ShmSpec == ShmInit /\ [][ShmNext]_shmVars
-----------------------------------------------------------------------------
(* Properties *)

Attaching == {"check", "magic", "start", "end", "total", "free"}
Removing == {"unfree", "shorten", "move"}
Appending == {"append", "extend", "take"}

AttachCalls == [at : Attaching, memsize : Memsizes]
PutCalls == [at : Removing \cup Appending, name : {"put"}, key : Key, val : Val,
             found : SUBSET (Nat \ {0})]
RemoveCalls == [at : Removing, name : {"remove"}, key : Key, found : SUBSET (Nat \ {0})]

\* The head has its fields, and a call the locals of the place it is at.
ShmTypeOK ==
  /\ size \in Nat
  /\ head \in [magic : BOOLEAN, start : Nat, end : Int, free : Int, total : Nat]
  /\ chunks \in Seq(Chunk)
  /\ excess \in Nat
  /\ torn \in BOOLEAN
  /\ handle \in [Process -> BOOLEAN]
  /\ \A p \in Process : call[p] \in {NoCall, LostCall} \cup AttachCalls \cup PutCalls \cup RemoveCalls

Callers == {p \in Process : InCall(p)}
Reaching(places) == \E p \in Callers : call[p].at \in places

\* end and free are at most the size and the excess, and so is the end of a
\* chunk that is written behind end.
Fits ==
  /\ ~Reaching({"shorten", "take"}) => head.end + head.free <= size + excess
  /\ \A p \in Process : Reached(p, "append") => head.end + Length[call[p].val] <= size + excess

\* A walk over the chunks comes out exactly at end.
WalkEndsAtEnd ==
  ~Reaching({"move"}) /\ head.end >= head.start => Behind(Visible, Len(Visible)) = head.end

\* What is written behind the segment is at most what deaths in front of it
\* made the head count twice (the excess): the test of put_var allows for all
\* that an update does, and a segment in which nobody died between the two
\* fields, nor before it had a head, is never written behind.  Of a torn
\* segment, of which nothing is known, this says nothing.
RoomIsThere == ~torn => Fits

\* A walk stays within what was written, whatever calls processes died in, but
\* for a move of chunks that was broken off or overlapped (torn): the chunks
\* in front of end are whole although end, free and chunks differ for a while,
\* and the next process begins with what the dead one left.
WithinSegment == ~torn => WalkEndsAtEnd

\* What get_var finds, with a move that is not done yet taken as done.
Contents ==
  IF Reaching({"move"})
  THEN LET p == CHOOSE q \in Callers : TRUE
       IN  Without(Before(head.end + VictimLength(p)), Victim(p))
  ELSE Visible

Value(k) == IF Found(Contents, k) = {} THEN "no value"
            ELSE Contents[CHOOSE i \in Found(Contents, k) : TRUE].val

Content == [k \in IF torn THEN {} ELSE Key |-> Value(k)]
Users == {p \in Process : handle[p]}
Updating == {[by |-> p, name |-> call[p].name, key |-> call[p].key,
              val |-> IF call[p].name = "put" THEN call[p].val ELSE "no value"] :
               p \in {q \in Callers : "name" \in DOMAIN call[q]}}

Store == INSTANCE SharedStore WITH store <- Content, users <- Users, updates <- Updating

\* The segment is a store of variables: an update changes its variable only,
\* and has done so when it returns; who dies in an update leaves the old value,
\* none or the new one.  A move that is broken off or overlaps is where the
\* store becomes unknown, until it is removed, and nowhere else.
IsSharedStore == Store!Spec

-----------------------------------------------------------------------------
(* What the code says of it, and does not keep to *)

\* "return -1;   /* not enough memeory */": a value is written into the segment,
\* or not at all.
WrittenWithin ==
  \A p \in Process : Reached(p, "append") => head.end + Length[call[p].val] <= size
=============================================================================
