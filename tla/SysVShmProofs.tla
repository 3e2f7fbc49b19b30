----------------------------- MODULE SysVShmProofs -----------------------------
(***************************************************************************)
(* Theorems about SysVShm, for every size of the segment, every length of  *)
(* a value and every number of processes that take turns: what is written  *)
(* behind the segment is at most the room that deaths in the middle of an  *)
(* update made the head count twice; a walk over the chunks comes out at   *)
(* its end, in every segment but one whose chunks a move left in part; and *)
(* the segment is a SharedStore.                                           *)
(*                                                                         *)
(* The first argument is an account (ShmInv): between calls end + free is  *)
(* never more than size and excess.  Within one, a chunk is in free        *)
(* already and not yet out of end, or in end and not yet out of free, and  *)
(* nowhere else; who dies there adds that chunk to the excess, and who     *)
(* dies elsewhere leaves less room than there is.                          *)
(*                                                                         *)
(* The second is about positions (StoreInv): Front is a prefix of the      *)
(* chunks that ends where the head says, and what it holds, but for the    *)
(* chunk that a removal works on, has each key once.  The offset of a      *)
(* chunk is a recursive function; what holds of it at every position is    *)
(* proved by a least counterexample, for which the library's WFMin is      *)
(* enough.                                                                 *)
(***************************************************************************)
EXTENDS SysVShm, FiniteSetTheorems, WellFoundedInduction, TLAPS

-----------------------------------------------------------------------------
(* The parts of the inductive invariant *)

HeadTyped ==
  /\ size \in Nat
  /\ head \in [magic : BOOLEAN, start : Nat, end : Int, free : Int, total : Nat]
  /\ chunks \in Seq(Chunk)
  /\ excess \in Nat
  /\ torn \in BOOLEAN
  /\ handle \in [Process -> BOOLEAN]

\* In a torn segment no call goes on but those that find their way back.
Lost(p) ==
  /\ torn => head = NoHead /\ chunks = <<>> /\ call[p].at \in {"none", "check", "lost"}
  /\ call[p].at = "lost" => torn

\* The locals of a call are those of its place; a chunk to be removed exists.
CallTyped(p) ==
  /\ call[p] \in {NoCall, LostCall} \cup AttachCalls \cup PutCalls \cup RemoveCalls
  /\ call[p].at \in Removing => call[p].found # {} /\ call[p].found \subseteq DOMAIN chunks
  /\ Lost(p)

OneCall == \A p \in Process, q \in Process : InCall(p) /\ InCall(q) => p = q

Putting(p) == call[p].at \in Appending \/ (call[p].at \in Removing /\ call[p].name = "put")

\* free and end, in the middle of an update too, where p is alone in a call.
Account(p) ==
  /\ call[p].at \notin {"shorten", "take"} => head.end + head.free <= size + excess
  /\ Putting(p) => head.free >= Length[call[p].val]
  /\ call[p].at = "shorten" => head.end + head.free - VictimLength(p) <= size + excess
  /\ call[p].at = "take" => head.end + head.free - Length[call[p].val] <= size + excess

\* A segment has room for a head, and while that is written it has no other
\* fields than those written so far.
Initializing(p) ==
  /\ size = 0 \/ size >= HeadSize
  /\ \A q \in Process : handle[q] => head.magic
  /\ call[p].at \in Removing \cup Appending => head.magic
  /\ ~head.magic => head = NoHead
  /\ call[p].at \in Attaching => size # 0
  /\ call[p].at \in Attaching \ {"check", "magic"} => head.magic
  /\ call[p].at = "magic" => ~head.magic
  /\ call[p].at = "start" => head.end = 0 /\ head.free = 0
  /\ call[p].at = "end" => head.start = HeadSize /\ head.end = 0 /\ head.free = 0
  /\ call[p].at \in {"total", "free"} => head.end = HeadSize /\ head.free = 0

ShmInv ==
  /\ HeadTyped /\ call = [p \in Process |-> call[p]] /\ OneCall
  /\ \A p \in Process : CallTyped(p)
  /\ ~torn => \A p \in Process : Alone(p) => Account(p) /\ Initializing(p)

-----------------------------------------------------------------------------
(* The chunks *)

\* Chunks in front of a position are chunks of the segment.
LEMMA BeforeType ==
  ASSUME NEW pos, chunks \in Seq(Chunk)
  PROVE  /\ Before(pos) \in Seq(Chunk)
         /\ DOMAIN Before(pos) \subseteq DOMAIN chunks
         /\ \A i \in DOMAIN Before(pos) : Before(pos)[i] = chunks[i]
<1> DEFINE S == {i \in DOMAIN chunks : Behind(chunks, i - 1) < pos}
           n == Cardinality(S)
<1>1. Len(chunks) \in Nat /\ DOMAIN chunks = 1 .. Len(chunks)
  OBVIOUS
<1>2. IsFiniteSet(DOMAIN chunks) /\ Cardinality(DOMAIN chunks) = Len(chunks)
  BY <1>1, FS_Interval, SMTT(30)
<1>3. S \in SUBSET (DOMAIN chunks)
  OBVIOUS
<1> HIDE DEF S
<1>4. n \in Nat /\ n <= Len(chunks)
  BY <1>2, <1>3, FS_Subset, FS_CardinalityType
<1>5. Before(pos) = SubSeq(chunks, 1, n)
  BY DEF Before, S
<1> HIDE DEF n
<1> QED BY <1>1, <1>4, <1>5

LEMMA FoundType ==
  ASSUME NEW k, chunks \in Seq(Chunk)
  PROVE  Found(Visible, k) \subseteq DOMAIN chunks
BY BeforeType DEF Found, Visible

LEMMA WithoutType ==
  ASSUME NEW s \in Seq(Chunk), NEW i \in Nat
  PROVE  Without(s, i) \in Seq(Chunk)
<1>1. Len(s) \in Nat /\ s \in [1 .. Len(s) -> Chunk]
  OBVIOUS
<1>2. \A j \in 1 .. Len(s) - 1 : (IF j < i THEN s[j] ELSE s[j + 1]) \in Chunk
  BY <1>1
<1>3. Without(s, i) \in [1 .. Len(s) - 1 -> Chunk]
  BY <1>2 DEF Without
<1>4. CASE Len(s) = 0
  <2>1. 1 .. Len(s) - 1 = 1 .. 0
    BY <1>4
  <2> QED BY <1>3, <2>1
<1>5. CASE Len(s) # 0
  <2>1. Len(s) - 1 \in Nat
    BY <1>1, <1>5
  <2> QED BY <1>3, <2>1
<1> QED BY <1>4, <1>5

LEMMA VictimType ==
  ASSUME Parameters, HeadTyped, NEW p \in Process, CallTyped(p), call[p].at \in Removing
  PROVE  /\ Victim(p) \in call[p].found
         /\ Victim(p) \in DOMAIN chunks
         /\ Victim(p) \in Nat
         /\ VictimLength(p) \in Nat
<1>1. Victim(p) \in call[p].found
  BY DEF CallTyped, Victim
<1>2. Victim(p) \in DOMAIN chunks /\ Victim(p) \in Nat
  BY <1>1 DEF CallTyped, HeadTyped
<1>3. chunks[Victim(p)].val \in Val
  <2>1. chunks[Victim(p)] \in Chunk
    BY <1>2 DEF HeadTyped
  <2> QED BY <2>1 DEF Chunk
<1> QED BY <1>1, <1>2, <1>3 DEF VictimLength, Parameters

-----------------------------------------------------------------------------
(* The process of a step, and the others *)

LEMMA NoCallIsAt == NoCall.at = "none" /\ LostCall.at = "lost"
BY DEF NoCall, LostCall

\* Two processes that are in no call see the same.
LEMMA IdleAlike ==
  ASSUME NEW p \in Process, NEW q \in Process, call'[p] = NoCall, call'[q] = NoCall,
         Account(p)', Initializing(p)'
  PROVE  Account(q)' /\ Initializing(q)'
<1>1. call'[p].at = "none" /\ call'[q].at = "none"
  BY NoCallIsAt
<1>2. Account(q)'
  BY <1>1 DEF Account, Putting, Removing, Appending
<1>3. Initializing(q)'
  BY <1>1 DEF Initializing, Attaching, Removing, Appending
<1> QED BY <1>2, <1>3

\* A step of the only process in a call.
LEMMA AloneStep ==
  ASSUME ShmInv, NEW p \in Process, Alone(p), NEW c, call' = [call EXCEPT ![p] = c],
         HeadTyped', CallTyped(p)',
         ~torn' => Account(p)' /\ Initializing(p)'
  PROVE  ShmInv'
<1>1. call' = [q \in Process |-> call'[q]] /\ call'[p] = c
      /\ \A q \in Process \ {p} : call'[q] = call[q]
  BY DEF ShmInv
<1>2. \A q \in Process \ {p} : call'[q] = NoCall
  BY <1>1 DEF Alone, InCall
<1>3. OneCall'
  BY <1>2 DEF OneCall, InCall
<1>4. \A q \in Process : CallTyped(q)'
  <2> SUFFICES ASSUME NEW q \in Process, q # p PROVE CallTyped(q)'
    OBVIOUS
  <2>1. call'[q] = NoCall /\ call'[q].at = "none"
    BY <1>2, NoCallIsAt
  <2>2. torn' => head' = NoHead /\ chunks' = <<>>
    BY DEF CallTyped, Lost
  <2> QED BY <2>1, <2>2 DEF CallTyped, Lost, Removing
<1>5. ASSUME ~torn', NEW q \in Process, Alone(q)'
      PROVE  Account(q)' /\ Initializing(q)'
  <2>1. CASE q = p
    BY <1>5, <2>1
  <2>2. CASE q # p
    <3>1. call'[p] = NoCall /\ call'[q] = NoCall
      BY <1>2, <1>5, <2>2 DEF Alone, InCall
    <3>2. Account(p)' /\ Initializing(p)'
      BY <1>5
    <3> QED BY <3>1, <3>2, IdleAlike
  <2> QED BY <2>1, <2>2
<1> QED BY <1>1, <1>3, <1>4, <1>5 DEF ShmInv

\* Where a process is tells what its locals are.
LEMMA Kinds ==
  ASSUME NEW p \in Process, CallTyped(p)
  PROVE  /\ call[p].at \in Attaching => call[p] \in AttachCalls
         /\ call[p].at \in Appending => call[p] \in PutCalls
         /\ call[p].at \in Removing => call[p] \in PutCalls \cup RemoveCalls
         /\ call[p] \in PutCalls => call[p].name = "put" /\ call[p].val \in Val
         /\ call[p] \in RemoveCalls => call[p].name = "remove" /\ call[p].at \in Removing
BY NoCallIsAt DEF CallTyped, AttachCalls, PutCalls, RemoveCalls, Attaching, Appending, Removing

\* A call goes on to another place with the locals it has.
LEMMA Continued ==
  ASSUME ShmInv, NEW p \in Process, NEW place, Continue(p, place),
         call[p] \in AttachCalls \cup PutCalls \cup RemoveCalls
  PROVE  /\ call' = [call EXCEPT ![p] = call'[p]]
         /\ call'[p].at = place
         /\ call[p] \in AttachCalls /\ place \in Attaching =>
              call'[p] \in AttachCalls /\ call'[p].memsize = call[p].memsize
         /\ call[p] \in PutCalls /\ place \in Removing \cup Appending =>
              /\ call'[p] \in PutCalls /\ call'[p].name = "put"
              /\ call'[p].val = call[p].val /\ call'[p].found = call[p].found
         /\ call[p] \in RemoveCalls /\ place \in Removing =>
              /\ call'[p] \in RemoveCalls /\ call'[p].name = "remove"
              /\ call'[p].found = call[p].found
<1> DEFINE c == [call[p] EXCEPT !.at = place]
<1>1. call' = [call EXCEPT ![p] = c]
  BY DEF Continue
<1>2. call'[p] = c
  BY <1>1 DEF ShmInv
<1>3. c.at = place
  BY DEF AttachCalls, PutCalls, RemoveCalls
<1>4. ASSUME call[p] \in AttachCalls, place \in Attaching
      PROVE  c \in AttachCalls /\ c.memsize = call[p].memsize
  BY <1>4 DEF AttachCalls
<1>5. ASSUME call[p] \in PutCalls, place \in Removing \cup Appending
      PROVE  c \in PutCalls /\ c.name = "put" /\ c.val = call[p].val /\ c.found = call[p].found
  BY <1>5 DEF PutCalls
<1>6. ASSUME call[p] \in RemoveCalls, place \in Removing
      PROVE  c \in RemoveCalls /\ c.name = "remove" /\ c.found = call[p].found
  BY <1>6 DEF RemoveCalls
<1> HIDE DEF c
<1> QED BY <1>1, <1>2, <1>3, <1>4, <1>5, <1>6

\* A call that returns.
LEMMA Returned ==
  ASSUME ShmInv, NEW p \in Process, Return(p)
  PROVE  /\ call' = [call EXCEPT ![p] = NoCall] /\ call'[p] = NoCall /\ call'[p].at = "none"
         /\ (torn' => head' = NoHead /\ chunks' = <<>>) => CallTyped(p)'
<1>1. call' = [call EXCEPT ![p] = NoCall] /\ call'[p] = NoCall
  BY DEF Return, ShmInv
<1> QED BY <1>1, NoCallIsAt DEF CallTyped, Lost, Removing

\* Whoever is in a call that knows what it does is not in a torn segment.
LEMMA NotTorn ==
  ASSUME ShmInv, NEW p \in Process, call[p].at \notin {"none", "check", "lost"}
  PROVE  ~torn
BY DEF ShmInv, CallTyped, Lost

-----------------------------------------------------------------------------
(* shm_attach *)

LEMMA AttachStep ==
  ASSUME Parameters, ShmInv, NEW p \in Process, Alone(p), ~InCall(p),
         NEW memsize \in Memsizes, Attach(p, memsize)
  PROVE  ShmInv'
<1> DEFINE c == [at |-> "check", memsize |-> memsize]
<1>1. call' = [call EXCEPT ![p] = c] /\ UNCHANGED <<head, chunks, excess, torn, handle>>
      /\ size' = (IF size = 0 THEN memsize ELSE size)
      /\ (size = 0 => memsize >= HeadSize)
  BY DEF Attach
<1>2. call'[p] = c /\ c.at = "check" /\ c.memsize = memsize /\ call[p].at = "none"
  BY <1>1, NoCallIsAt DEF ShmInv, InCall
<1>3. memsize \in Nat /\ memsize # 0 /\ HeadSize \in Nat /\ size \in Nat
  BY DEF Parameters, ShmInv, HeadTyped
<1>4. CallTyped(p)'
  <2>1. torn' => head' = NoHead /\ chunks' = <<>>
    BY <1>1 DEF ShmInv, CallTyped, Lost
  <2> QED BY <1>2, <2>1 DEF CallTyped, Lost, AttachCalls, Attaching, Removing
<1>5. HeadTyped'
  BY <1>1, <1>3 DEF ShmInv, HeadTyped
<1>6. ~torn => Account(p) /\ Initializing(p)
  BY DEF ShmInv
<1>7. ASSUME ~torn PROVE Account(p)'
  <2>1. head.end + head.free <= size' + excess
    <3>1. head.end \in Int /\ head.free \in Int /\ head.end + head.free <= size + excess
          /\ excess \in Nat
      BY <1>2, <1>6, <1>7 DEF ShmInv, HeadTyped, Account
    <3> QED BY <1>1, <1>3, <3>1
  <2> QED BY <1>1, <1>2, <2>1 DEF Account, Putting, Removing, Appending
<1>8. ASSUME ~torn PROVE Initializing(p)'
  <2>1. ~head.magic => head = NoHead
    BY <1>6, <1>8 DEF Initializing
  <2>2. size' # 0 /\ size' >= HeadSize
    BY <1>1, <1>3, <1>6, <1>8 DEF Initializing
  <2>3. \A q \in Process : handle'[q] => head'.magic
    BY <1>1, <1>6, <1>8 DEF Initializing
  <2>4. call'[p].at \notin Removing \cup Appending
    BY <1>2 DEF Removing, Appending
  <2> QED BY <1>1, <1>2, <2>1, <2>2, <2>3, <2>4 DEF Initializing, Attaching
<1> HIDE DEF c
<1> QED BY <1>1, <1>4, <1>5, <1>7, <1>8, AloneStep

LEMMA CheckStep ==
  ASSUME Parameters, ShmInv, NEW p \in Process, Alone(p), Check(p)
  PROVE  ShmInv'
<1>1. call[p].at = "check" /\ UNCHANGED <<size, head, chunks, excess, torn>>
  BY DEF Check, Reached
<1>2. call[p] \in AttachCalls
  BY <1>1, Kinds DEF ShmInv, Attaching
<1>3. (~torn => Account(p) /\ Initializing(p)) /\ (torn => head = NoHead /\ chunks = <<>>)
  BY DEF ShmInv, CallTyped, Lost
<1>4. CASE head.magic \/ torn
  <2>1. Return(p) /\ handle' = [handle EXCEPT ![p] = TRUE]
    BY <1>4 DEF Check, Attached
  <2>2. call' = [call EXCEPT ![p] = NoCall] /\ call'[p].at = "none" /\ CallTyped(p)'
    BY <1>1, <1>3, <2>1, Returned
  <2>3. HeadTyped'
    BY <1>1, <2>1 DEF ShmInv, HeadTyped
  <2>4. ~torn' => Account(p)'
    BY <1>1, <1>3, <2>2 DEF Account, Putting, Removing, Appending
  <2>5. ~torn' => Initializing(p)'
    BY <1>1, <1>3, <1>4, <2>2 DEF Initializing, Attaching, Removing, Appending
  <2> QED BY <2>2, <2>3, <2>4, <2>5, AloneStep
<1>5. CASE ~(head.magic \/ torn)
  <2>1. Continue(p, "magic") /\ UNCHANGED handle
    BY <1>5 DEF Check
  <2>2. call' = [call EXCEPT ![p] = call'[p]] /\ call'[p].at = "magic"
        /\ call'[p] \in AttachCalls /\ call'[p].memsize = call[p].memsize
    BY <1>2, <2>1, Continued DEF Attaching
  <2>3. HeadTyped' /\ CallTyped(p)'
    BY <1>1, <1>5, <2>1, <2>2 DEF ShmInv, HeadTyped, CallTyped, Lost, Removing
  <2>4. Account(p)'
    BY <1>1, <1>3, <1>5, <2>2 DEF Account, Putting, Removing, Appending
  <2>5. Initializing(p)'
    <3>1. \A q \in Process : handle'[q] => head'.magic
      BY <1>1, <1>3, <1>5, <2>1 DEF Initializing
    <3>2. head' = NoHead /\ size # 0 /\ size >= HeadSize
      BY <1>1, <1>3, <1>5 DEF Initializing, Attaching
    <3>3. call'[p].at \notin Removing \cup Appending
      BY <2>2 DEF Removing, Appending
    <3> QED BY <1>1, <1>5, <2>2, <3>1, <3>2, <3>3 DEF Initializing, Attaching
  <2> QED BY <2>2, <2>3, <2>4, <2>5, AloneStep
<1> QED BY <1>4, <1>5

LEMMA MagicStep ==
  ASSUME Parameters, ShmInv, NEW p \in Process, Alone(p), Write(p, "magic", TRUE, "start")
  PROVE  ShmInv'
<1>1. call[p].at = "magic" /\ Continue(p, "start") /\ head' = [head EXCEPT !["magic"] = TRUE]
      /\ UNCHANGED <<size, chunks, excess, torn, handle>>
  BY DEF Write, Reached
<1>2. call[p] \in AttachCalls
  BY <1>1, Kinds DEF ShmInv, Attaching
<1>3. call' = [call EXCEPT ![p] = call'[p]] /\ call'[p].at = "start"
      /\ call'[p] \in AttachCalls /\ call'[p].memsize = call[p].memsize
  BY <1>1, <1>2, Continued DEF Attaching
<1>4. ~torn /\ Account(p) /\ Initializing(p)
  BY <1>1, NotTorn DEF ShmInv
<1>5. CallTyped(p)'
  BY <1>1, <1>3, <1>4 DEF CallTyped, Lost, Removing
<1>6. HeadTyped' /\ head'.magic /\ head'.end = head.end /\ head'.free = head.free
      /\ head'.start = head.start
  BY <1>1 DEF ShmInv, HeadTyped
<1>7. ~torn' => Account(p)'
  BY <1>1, <1>3, <1>4, <1>6 DEF Account, Putting, Removing, Appending
<1>8. ~torn' => Initializing(p)'
  <2> SUFFICES ASSUME ~torn PROVE Initializing(p)'
    BY <1>1
  <2>1. head = NoHead /\ size # 0 /\ size >= HeadSize
    BY <1>1, <1>4 DEF Initializing, Attaching, Removing, Appending
  <2>2. head'.end = 0 /\ head'.free = 0
    BY <1>6, <2>1 DEF NoHead
  <2> QED BY <1>1, <1>3, <1>6, <2>1, <2>2 DEF Initializing, Attaching, Removing, Appending
<1> QED BY <1>3, <1>5, <1>6, <1>7, <1>8, AloneStep

LEMMA StartStep ==
  ASSUME Parameters, ShmInv, NEW p \in Process, Alone(p), Write(p, "start", HeadSize, "end")
  PROVE  ShmInv'
<1>1. call[p].at = "start" /\ Continue(p, "end") /\ head' = [head EXCEPT !["start"] = HeadSize]
      /\ UNCHANGED <<size, chunks, excess, torn, handle>>
  BY DEF Write, Reached
<1>2. call[p] \in AttachCalls
  BY <1>1, Kinds DEF ShmInv, Attaching
<1>3. call' = [call EXCEPT ![p] = call'[p]] /\ call'[p].at = "end"
      /\ call'[p] \in AttachCalls /\ call'[p].memsize = call[p].memsize
  BY <1>1, <1>2, Continued DEF Attaching
<1>4. ~torn /\ Account(p) /\ Initializing(p)
  BY <1>1, NotTorn DEF ShmInv
<1>5. CallTyped(p)'
  BY <1>1, <1>3, <1>4 DEF CallTyped, Lost, Removing
<1>6. HeadTyped' /\ head'.magic = head.magic /\ head'.end = head.end /\ head'.free = head.free
      /\ head'.start = HeadSize
  BY <1>1 DEF ShmInv, HeadTyped, Parameters
<1>7. ~torn' => Account(p)'
  BY <1>1, <1>3, <1>4, <1>6 DEF Account, Putting, Removing, Appending
<1>8. ~torn' => Initializing(p)'
  <2> SUFFICES ASSUME ~torn PROVE Initializing(p)'
    BY <1>1
  <2>1. head.magic /\ size # 0 /\ size >= HeadSize
        /\ head.end = 0 /\ head.free = 0
    BY <1>1, <1>4 DEF Initializing, Attaching, Removing, Appending
  <2> QED BY <1>1, <1>3, <1>6, <2>1 DEF Initializing, Attaching, Removing, Appending
<1> QED BY <1>3, <1>5, <1>6, <1>7, <1>8, AloneStep

LEMMA EndStep ==
  ASSUME Parameters, ShmInv, NEW p \in Process, Alone(p), Write(p, "end", head.start, "total")
  PROVE  ShmInv'
<1>1. call[p].at = "end" /\ Continue(p, "total") /\ head' = [head EXCEPT !["end"] = head.start]
      /\ UNCHANGED <<size, chunks, excess, torn, handle>>
  BY DEF Write, Reached
<1>2. call[p] \in AttachCalls
  BY <1>1, Kinds DEF ShmInv, Attaching
<1>3. call' = [call EXCEPT ![p] = call'[p]] /\ call'[p].at = "total"
      /\ call'[p] \in AttachCalls /\ call'[p].memsize = call[p].memsize
  BY <1>1, <1>2, Continued DEF Attaching
<1>4. ~torn /\ Account(p) /\ Initializing(p)
  BY <1>1, NotTorn DEF ShmInv
<1>5. CallTyped(p)'
  BY <1>1, <1>3, <1>4 DEF CallTyped, Lost, Removing
<1>6. HeadTyped' /\ head'.magic = head.magic /\ head'.end = head.start /\ head'.free = head.free
  BY <1>1 DEF ShmInv, HeadTyped
<1>7. ~torn' => Account(p)'
  <2> SUFFICES ASSUME ~torn PROVE Account(p)'
    BY <1>1
  <2>1. head.start = HeadSize /\ head.free = 0 /\ size >= HeadSize /\ HeadSize \in Nat
        /\ size \in Nat /\ excess \in Nat
    BY <1>1, <1>4 DEF Initializing, Attaching, Parameters, ShmInv, HeadTyped
  <2>2. head'.end + head'.free <= size' + excess'
    BY <1>1, <1>6, <2>1
  <2> QED BY <1>3, <2>2 DEF Account, Putting, Removing, Appending
<1>8. ~torn' => Initializing(p)'
  <2> SUFFICES ASSUME ~torn PROVE Initializing(p)'
    BY <1>1
  <2>1. head.magic /\ size # 0 /\ size >= HeadSize
        /\ head.start = HeadSize /\ head.free = 0
    BY <1>1, <1>4 DEF Initializing, Attaching, Removing, Appending
  <2> QED BY <1>1, <1>3, <1>6, <2>1 DEF Initializing, Attaching, Removing, Appending
<1> QED BY <1>3, <1>5, <1>6, <1>7, <1>8, AloneStep

LEMMA TotalStep ==
  ASSUME Parameters, ShmInv, NEW p \in Process, Alone(p), Write(p, "total", call[p].memsize, "free")
  PROVE  ShmInv'
<1>1. call[p].at = "total" /\ Continue(p, "free") /\ head' = [head EXCEPT !["total"] = call[p].memsize]
      /\ UNCHANGED <<size, chunks, excess, torn, handle>>
  BY DEF Write, Reached
<1>2. call[p] \in AttachCalls
  BY <1>1, Kinds DEF ShmInv, Attaching
<1>3. call' = [call EXCEPT ![p] = call'[p]] /\ call'[p].at = "free"
      /\ call'[p] \in AttachCalls /\ call'[p].memsize = call[p].memsize
  BY <1>1, <1>2, Continued DEF Attaching
<1>4. ~torn /\ Account(p) /\ Initializing(p)
  BY <1>1, NotTorn DEF ShmInv
<1>5. CallTyped(p)'
  BY <1>1, <1>3, <1>4 DEF CallTyped, Lost, Removing
<1>6. HeadTyped' /\ head'.magic = head.magic /\ head'.end = head.end /\ head'.free = head.free
  BY <1>1, <1>2 DEF ShmInv, HeadTyped, AttachCalls, Parameters
<1>7. ~torn' => Account(p)'
  BY <1>1, <1>3, <1>4, <1>6 DEF Account, Putting, Removing, Appending
<1>8. ~torn' => Initializing(p)'
  <2> SUFFICES ASSUME ~torn PROVE Initializing(p)'
    BY <1>1
  <2>1. head.magic /\ size # 0 /\ size >= HeadSize
        /\ head.end = HeadSize /\ head.free = 0
    BY <1>1, <1>4 DEF Initializing, Attaching, Removing, Appending
  <2> QED BY <1>1, <1>3, <1>6, <2>1 DEF Initializing, Attaching, Removing, Appending
<1> QED BY <1>3, <1>5, <1>6, <1>7, <1>8, AloneStep

\* free is what the size leaves behind the head.
LEMMA InitializeFreeStep ==
  ASSUME Parameters, ShmInv, NEW p \in Process, Alone(p), InitializeFree(p)
  PROVE  ShmInv'
<1>1. call[p].at = "free" /\ head' = [head EXCEPT !.free = call[p].memsize - head.end]
      /\ excess' = (IF call[p].memsize > size THEN call[p].memsize - size ELSE 0)
      /\ Return(p) /\ handle' = [handle EXCEPT ![p] = TRUE]
      /\ UNCHANGED <<size, chunks, torn>>
  BY DEF InitializeFree, Attached, Reached
<1>2. call[p].memsize \in Nat /\ head.end \in Int /\ size \in Nat
  BY <1>1, Kinds DEF ShmInv, HeadTyped, Attaching, AttachCalls, Parameters
<1>3. ~torn
  BY <1>1, NotTorn
<1>4. call' = [call EXCEPT ![p] = NoCall] /\ call'[p].at = "none" /\ CallTyped(p)'
  BY <1>1, <1>3, Returned
<1>5. HeadTyped' /\ head'.magic = head.magic /\ head'.end = head.end
      /\ head'.free = call[p].memsize - head.end
  <2>1. excess' \in Nat
    BY <1>1, <1>2
  <2> QED BY <1>1, <1>2, <2>1 DEF ShmInv, HeadTyped
<1>6. head.magic /\ size >= HeadSize
  BY <1>1, <1>3 DEF ShmInv, Initializing, Attaching
<1>7. Account(p)'
  <2>1. head'.end + head'.free = call[p].memsize /\ call[p].memsize <= size' + excess'
    BY <1>1, <1>2, <1>5
  <2> QED BY <1>4, <2>1 DEF Account, Putting, Removing, Appending
<1>8. Initializing(p)'
  BY <1>1, <1>4, <1>5, <1>6 DEF Initializing, Attaching, Removing, Appending
<1> QED BY <1>4, <1>5, <1>7, <1>8, AloneStep

-----------------------------------------------------------------------------
(* shm_put_var and shm_remove_var *)

LEMMA TearTypes ==
  ASSUME HeadTyped, Tear, UNCHANGED size, handle' \in [Process -> BOOLEAN]
  PROVE  HeadTyped' /\ torn' /\ head' = NoHead /\ chunks' = <<>>
<1>1. <<>> \in Seq(Chunk)
  OBVIOUS
<1>2. NoHead \in [magic : BOOLEAN, start : Nat, end : Int, free : Int, total : Nat]
  BY DEF NoHead
<1> QED BY <1>1, <1>2 DEF Tear, HeadTyped

LEMMA PutVarStep ==
  ASSUME Parameters, ShmInv, NEW p \in Process, Alone(p), ~InCall(p), ~torn,
         NEW k \in Key, NEW v \in Val, PutVar(p, k, v)
  PROVE  ShmInv'
<1> DEFINE f == Found(Visible, k)
           c == [at |-> IF f = {} THEN "append" ELSE "unfree",
                 name |-> "put", key |-> k, val |-> v, found |-> f]
<1>1. call' = [call EXCEPT ![p] = c] /\ UNCHANGED <<size, head, chunks, excess, torn, handle>>
      /\ head.free >= Length[v]
  BY DEF PutVar
<1>2. f \subseteq DOMAIN chunks /\ DOMAIN chunks \subseteq Nat \ {0}
  BY FoundType DEF ShmInv, HeadTyped
<1> HIDE DEF f
<1>3. c.at \in {"append", "unfree"} /\ (c.at = "unfree" => f # {}) /\ c.found = f
      /\ c.val = v /\ c \in PutCalls
  BY <1>2 DEF PutCalls, Removing, Appending
<1> HIDE DEF c
<1>4. call'[p] = c /\ call[p].at = "none"
  BY <1>1, NoCallIsAt DEF ShmInv, InCall
<1>5. CallTyped(p)'
  <2>1. call'[p] \in PutCalls /\ call'[p].found = f /\ chunks' = chunks
    BY <1>1, <1>3, <1>4
  <2>2. call'[p].at \in Removing => f # {}
    BY <1>3, <1>4 DEF Removing
  <2> QED BY <1>1, <1>2, <1>3, <1>4, <2>1, <2>2 DEF CallTyped, Lost
<1>6. HeadTyped'
  BY <1>1 DEF ShmInv, HeadTyped
<1>7. Account(p) /\ Initializing(p)
  BY DEF ShmInv
<1>8. Account(p)'
  BY <1>1, <1>3, <1>4, <1>7 DEF Account
<1>9. Initializing(p)'
  <2>1. head.magic
    BY <1>7 DEF Initializing, PutVar
  <2> QED BY <1>1, <1>3, <1>4, <1>7, <2>1 DEF Initializing, Attaching, Removing, Appending
<1> QED BY <1>1, <1>5, <1>6, <1>8, <1>9, AloneStep

LEMMA RemoveVarStep ==
  ASSUME Parameters, ShmInv, NEW p \in Process, Alone(p), ~InCall(p), ~torn,
         NEW k \in Key, RemoveVar(p, k)
  PROVE  ShmInv'
<1> DEFINE f == Found(Visible, k)
           c == [at |-> "unfree", name |-> "remove", key |-> k, found |-> f]
<1>1. call' = [call EXCEPT ![p] = c] /\ UNCHANGED <<size, head, chunks, excess, torn, handle>>
      /\ f # {}
  BY DEF RemoveVar
<1>2. f \subseteq DOMAIN chunks /\ DOMAIN chunks \subseteq Nat \ {0}
  BY FoundType DEF ShmInv, HeadTyped
<1> HIDE DEF f
<1>3. c.at = "unfree" /\ c.found = f /\ c.name = "remove" /\ c \in RemoveCalls
  BY <1>2 DEF RemoveCalls, Removing
<1> HIDE DEF c
<1>4. call'[p] = c /\ call[p].at = "none"
  BY <1>1, NoCallIsAt DEF ShmInv, InCall
<1>5. CallTyped(p)'
  BY <1>1, <1>2, <1>3, <1>4 DEF CallTyped, Lost
<1>6. HeadTyped'
  BY <1>1 DEF ShmInv, HeadTyped
<1>7. Account(p) /\ Initializing(p)
  BY DEF ShmInv
<1>8. Account(p)'
  BY <1>1, <1>3, <1>4, <1>7 DEF Account, Putting, Appending
<1>9. Initializing(p)'
  <2>1. head.magic
    BY <1>7 DEF Initializing, RemoveVar
  <2> QED BY <1>1, <1>3, <1>4, <1>7, <2>1 DEF Initializing, Attaching
<1> QED BY <1>1, <1>5, <1>6, <1>8, <1>9, AloneStep

\* The length of the chunk is in free and not yet out of end.
LEMMA UnfreeStep ==
  ASSUME Parameters, ShmInv, NEW p \in Process, Alone(p), Unfree(p)
  PROVE  ShmInv'
<1> DEFINE l == VictimLength(p)
<1>1. call[p].at = "unfree" /\ Continue(p, "shorten") /\ head' = [head EXCEPT !.free = @ + l]
      /\ UNCHANGED <<size, chunks, excess, torn, handle>>
  BY DEF Unfree, Reached
<1>2. call[p] \in PutCalls \cup RemoveCalls /\ CallTyped(p) /\ HeadTyped
  BY <1>1, Kinds DEF ShmInv, Removing
<1>3. l \in Nat
  BY <1>1, <1>2, VictimType DEF Removing
<1>4. /\ call' = [call EXCEPT ![p] = call'[p]] /\ call'[p].at = "shorten"
      /\ call'[p] \in PutCalls \cup RemoveCalls /\ call'[p].found = call[p].found
      /\ call'[p].name = call[p].name
      /\ call[p] \in PutCalls => call'[p].val = call[p].val
  BY <1>1, <1>2, Continued, Kinds DEF Removing
<1>5. VictimLength(p)' = l
  BY <1>1, <1>4 DEF VictimLength, Victim
<1> HIDE DEF l
<1>6. HeadTyped' /\ head'.magic = head.magic /\ head'.end = head.end
      /\ head'.free = head.free + l /\ head'.start = head.start
  BY <1>1, <1>3, SMTT(30) DEF ShmInv, HeadTyped
<1>7. CallTyped(p)'
  BY <1>1, <1>2, <1>4, NotTorn DEF CallTyped, Lost, Removing
<1>8. ~torn => Account(p) /\ Initializing(p)
  BY DEF ShmInv
<1>9. ~torn' => Account(p)'
  <2> SUFFICES ASSUME ~torn PROVE Account(p)'
    BY <1>1
  <2>1. head.end + head.free <= size + excess
        /\ (call[p].name = "put" => head.free >= Length[call[p].val])
    BY <1>1, <1>8 DEF Account, Putting, Removing
  <2>2. call[p].name = "put" => call'[p].val = call[p].val /\ Length[call[p].val] \in Nat
    BY <1>2, <1>4, Kinds DEF Parameters
  <2>3. head.end \in Int /\ head.free \in Int /\ size' = size /\ size \in Nat
        /\ excess' = excess /\ excess \in Nat
    BY <1>1, <1>2 DEF HeadTyped
  <2>4. head'.end + head'.free - l <= size' + excess'
    BY <1>3, <1>6, <2>1, <2>3
  <2>5. Putting(p)' => head'.free >= Length[call'[p].val]
    BY <1>3, <1>4, <1>6, <2>1, <2>2, <2>3 DEF Putting, Appending, Removing
  <2> QED BY <1>4, <1>5, <2>4, <2>5 DEF Account
<1>10. ~torn' => Initializing(p)'
  <2> SUFFICES ASSUME ~torn PROVE Initializing(p)'
    BY <1>1
  <2>1. head.magic
    BY <1>1, <1>8 DEF Initializing, Removing
  <2> QED BY <1>1, <1>4, <1>6, <1>8, <2>1 DEF Initializing, Attaching
<1> QED BY <1>4, <1>6, <1>7, <1>9, <1>10, AloneStep

\* The chunk is out of both, and is still there.
LEMMA ShortenStep ==
  ASSUME Parameters, ShmInv, NEW p \in Process, Alone(p), Shorten(p)
  PROVE  ShmInv'
<1> DEFINE l == VictimLength(p)
<1>1. call[p].at = "shorten" /\ Continue(p, "move") /\ head' = [head EXCEPT !.end = @ - l]
      /\ UNCHANGED <<size, chunks, excess, torn, handle>>
  BY DEF Shorten, Reached
<1>2. call[p] \in PutCalls \cup RemoveCalls /\ CallTyped(p) /\ HeadTyped
  BY <1>1, Kinds DEF ShmInv, Removing
<1>3. l \in Nat
  BY <1>1, <1>2, VictimType DEF Removing
<1>4. /\ call' = [call EXCEPT ![p] = call'[p]] /\ call'[p].at = "move"
      /\ call'[p] \in PutCalls \cup RemoveCalls /\ call'[p].found = call[p].found
      /\ call'[p].name = call[p].name
      /\ call[p] \in PutCalls => call'[p].val = call[p].val
  BY <1>1, <1>2, Continued, Kinds DEF Removing
<1> HIDE DEF l
<1>5. HeadTyped' /\ head'.magic = head.magic /\ head'.end = head.end - l
      /\ head'.free = head.free /\ head'.start = head.start
  BY <1>1, <1>3 DEF ShmInv, HeadTyped
<1>6. CallTyped(p)'
  BY <1>1, <1>2, <1>4, NotTorn DEF CallTyped, Lost, Removing
<1>7. ~torn => Account(p) /\ Initializing(p)
  BY DEF ShmInv
<1>8. ~torn' => Account(p)'
  <2> SUFFICES ASSUME ~torn PROVE Account(p)'
    BY <1>1
  <2>1. head.end + head.free - l <= size + excess
        /\ (call[p].name = "put" => head.free >= Length[call[p].val])
    BY <1>1, <1>7 DEF Account, Putting, Removing, l
  <2>2. call[p].name = "put" => call'[p].val = call[p].val
    BY <1>2, <1>4, Kinds
  <2>3. head.end \in Int /\ head.free \in Int /\ size' = size /\ size \in Nat
        /\ excess' = excess /\ excess \in Nat
    BY <1>1, <1>2 DEF HeadTyped
  <2>4. head'.end + head'.free <= size' + excess'
    BY <1>3, <1>5, <2>1, <2>3
  <2>5. Putting(p)' => head'.free >= Length[call'[p].val]
    BY <1>4, <1>5, <2>1, <2>2 DEF Putting, Appending, Removing
  <2> QED BY <1>4, <2>4, <2>5 DEF Account
<1>9. ~torn' => Initializing(p)'
  <2> SUFFICES ASSUME ~torn PROVE Initializing(p)'
    BY <1>1
  <2>1. head.magic
    BY <1>1, <1>7 DEF Initializing, Removing
  <2> QED BY <1>1, <1>4, <1>5, <1>7, <2>1 DEF Initializing, Attaching
<1> QED BY <1>4, <1>5, <1>6, <1>8, <1>9, AloneStep

\* The chunks behind have moved up, or nothing is known.
LEMMA MoveStep ==
  ASSUME Parameters, ShmInv, NEW p \in Process, Alone(p), Move(p)
  PROVE  ShmInv'
<1> DEFINE s == Before(head.end + VictimLength(p))
<1>1. call[p].at = "move" /\ UNCHANGED <<size, handle>>
  BY DEF Move, Reached
<1>2. call[p] \in PutCalls \cup RemoveCalls /\ CallTyped(p) /\ HeadTyped
  BY <1>1, Kinds DEF ShmInv, Removing
<1>3. ~torn /\ Account(p) /\ Initializing(p)
  BY <1>1, NotTorn DEF ShmInv
<1>4. CASE chunks' = Without(s, Victim(p)) /\ AfterMove(p) /\ UNCHANGED <<head, excess, torn>>
  <2>1. s \in Seq(Chunk) /\ Victim(p) \in Nat
    BY <1>1, <1>2, BeforeType, VictimType DEF Removing, HeadTyped
  <2> HIDE DEF s
  <2>2. HeadTyped'
    <3>1. chunks' \in Seq(Chunk)
      BY <1>4, <2>1, WithoutType
    <3> QED BY <1>1, <1>2, <1>4, <3>1 DEF HeadTyped
  <2>3. /\ call' = [call EXCEPT ![p] = call'[p]] /\ CallTyped(p)'
        /\ \/ call'[p].at = "none"
           \/ call'[p].at = "append" /\ call[p].name = "put" /\ call'[p].val = call[p].val
    <3>1. CASE call[p].name = "put"
      <4>1. call[p] \in PutCalls
        BY <1>2, <3>1, Kinds
      <4>2. Continue(p, "append")
        BY <1>4, <3>1 DEF AfterMove
      <4>3. call' = [call EXCEPT ![p] = call'[p]] /\ call'[p].at = "append"
            /\ call'[p] \in PutCalls /\ call'[p].val = call[p].val
        BY <4>1, <4>2, Continued DEF Appending
      <4> QED BY <1>3, <1>4, <3>1, <4>3 DEF CallTyped, Lost, Removing
    <3>2. CASE call[p].name # "put"
      <4>1. Return(p)
        BY <1>4, <3>2 DEF AfterMove
      <4> QED BY <1>3, <1>4, <4>1, Returned
    <3> QED BY <3>1, <3>2
  <2>4. Account(p)'
    BY <1>1, <1>3, <1>4, <2>3 DEF Account, Putting, Removing, Appending
  <2>5. Initializing(p)'
    <3>1. head.magic
      BY <1>1, <1>3 DEF Initializing, Removing
    <3> QED BY <1>1, <1>3, <1>4, <2>3, <3>1 DEF Initializing, Attaching
  <2> QED BY <2>2, <2>3, <2>4, <2>5, AloneStep
<1>5. CASE Tear /\ call' = [call EXCEPT ![p] = LostCall]
  <2>1. HeadTyped' /\ torn' /\ head' = NoHead /\ chunks' = <<>>
    BY <1>1, <1>2, <1>5, TearTypes DEF HeadTyped
  <2>2. call'[p] = LostCall
    BY <1>5 DEF ShmInv
  <2>3. CallTyped(p)'
    BY <2>1, <2>2, NoCallIsAt DEF CallTyped, Lost, Removing
  <2> QED BY <1>5, <2>1, <2>3, AloneStep
<1> HIDE DEF s
<1> QED BY <1>4, <1>5 DEF Move, s

LEMMA AppendStep ==
  ASSUME Parameters, ShmInv, NEW p \in Process, Alone(p), Append_(p)
  PROVE  ShmInv'
<1> DEFINE new == [key |-> call[p].key, val |-> call[p].val]
<1>1. call[p].at = "append" /\ Continue(p, "extend") /\ chunks' = Append(Visible, new)
      /\ UNCHANGED <<size, head, excess, torn, handle>>
  BY DEF Append_, Reached
<1>2. call[p] \in PutCalls /\ HeadTyped
  BY <1>1, Kinds DEF ShmInv, Appending
<1>3. call' = [call EXCEPT ![p] = call'[p]] /\ call'[p].at = "extend"
      /\ call'[p] \in PutCalls /\ call'[p].val = call[p].val
  BY <1>1, <1>2, Continued DEF Appending
<1>4. HeadTyped' /\ CallTyped(p)'
  <2>1. new \in Chunk
    BY <1>2 DEF Chunk, PutCalls
  <2>2. Visible \in Seq(Chunk)
    BY <1>2, BeforeType DEF Visible, HeadTyped
  <2>3. chunks' \in Seq(Chunk)
    BY <1>1, <2>1, <2>2
  <2> QED BY <1>1, <1>2, <1>3, <2>3, NotTorn DEF HeadTyped, CallTyped, Lost, Removing
<1>5. ~torn => Account(p) /\ Initializing(p)
  BY DEF ShmInv
<1>6. ~torn' => Account(p)'
  BY <1>1, <1>3, <1>5 DEF Account, Putting, Appending
<1>7. ~torn' => Initializing(p)'
  BY <1>1, <1>3, <1>5 DEF Initializing, Attaching, Appending
<1> QED BY <1>3, <1>4, <1>6, <1>7, AloneStep

\* The length of the chunk is in end and not yet out of free.
LEMMA ExtendStep ==
  ASSUME Parameters, ShmInv, NEW p \in Process, Alone(p), Extend(p)
  PROVE  ShmInv'
<1> DEFINE l == Length[call[p].val]
<1>1. call[p].at = "extend" /\ Continue(p, "take") /\ head' = [head EXCEPT !.end = @ + l]
      /\ UNCHANGED <<size, chunks, excess, torn, handle>>
  BY DEF Extend, Reached
<1>2. call[p] \in PutCalls /\ HeadTyped
  BY <1>1, Kinds DEF ShmInv, Appending
<1>3. l \in Nat
  BY <1>2 DEF PutCalls, Parameters
<1>4. call' = [call EXCEPT ![p] = call'[p]] /\ call'[p].at = "take"
      /\ call'[p] \in PutCalls /\ call'[p].val = call[p].val
  BY <1>1, <1>2, Continued DEF Appending
<1>5. HeadTyped' /\ CallTyped(p)' /\ head'.magic = head.magic /\ head'.end = head.end + l
      /\ head'.free = head.free /\ head'.start = head.start
  <2> HIDE DEF l
  <2>1. ~torn
    BY <1>1, NotTorn
  <2> QED BY <1>1, <1>2, <1>3, <1>4, <2>1, SMTT(30) DEF HeadTyped, CallTyped, Lost, Removing
<1>6. ~torn => Account(p) /\ Initializing(p)
  BY DEF ShmInv
<1>7. ~torn' => Account(p)'
  <2> SUFFICES ASSUME ~torn PROVE Account(p)'
    BY <1>1
  <2>1. head.free >= l /\ head.end + head.free <= size + excess
    BY <1>1, <1>6 DEF Account, Putting, Appending
  <2>2. head'.end + head'.free - l <= size' + excess'
    BY <1>1, <1>2, <1>3, <1>5, <2>1, SMTT(30) DEF HeadTyped
  <2>3. Length[call'[p].val] = l
    BY <1>4
  <2> QED BY <1>4, <1>5, <2>1, <2>2, <2>3 DEF Account
<1>8. ~torn' => Initializing(p)'
  <2> SUFFICES ASSUME ~torn PROVE Initializing(p)'
    BY <1>1
  <2>1. head.magic
    BY <1>1, <1>6 DEF Initializing, Appending
  <2> QED BY <1>1, <1>4, <1>5, <1>6, <2>1 DEF Initializing, Attaching
<1> QED BY <1>4, <1>5, <1>7, <1>8, AloneStep

LEMMA TakeStep ==
  ASSUME Parameters, ShmInv, NEW p \in Process, Alone(p), Take(p)
  PROVE  ShmInv'
<1> DEFINE l == Length[call[p].val]
<1>1. call[p].at = "take" /\ Return(p) /\ head' = [head EXCEPT !.free = @ - l]
      /\ UNCHANGED <<size, chunks, excess, torn, handle>>
  BY DEF Take, Reached
<1>2. call[p] \in PutCalls /\ HeadTyped
  BY <1>1, Kinds DEF ShmInv, Appending
<1>3. l \in Nat
  BY <1>2 DEF PutCalls, Parameters
<1>4. call' = [call EXCEPT ![p] = NoCall] /\ call'[p].at = "none" /\ CallTyped(p)'
  BY <1>1, NotTorn, Returned
<1>5. HeadTyped' /\ head'.magic = head.magic /\ head'.end = head.end
      /\ head'.free = head.free - l
  <2> HIDE DEF l
  <2>1. head.free - l \in Int
    BY <1>2, <1>3 DEF HeadTyped
  <2> QED BY <1>1, <1>2, <2>1, SMTT(40) DEF HeadTyped
<1>6. ~torn => Account(p) /\ Initializing(p)
  BY DEF ShmInv
<1>7. ~torn' => Account(p)'
  <2> SUFFICES ASSUME ~torn PROVE Account(p)'
    BY <1>1
  <2>1. head.end + head.free - l <= size + excess
    BY <1>1, <1>6 DEF Account
  <2>2. head'.end + head'.free <= size' + excess'
    BY <1>1, <1>2, <1>3, <1>5, <2>1, SMTT(30) DEF HeadTyped
  <2> QED BY <1>4, <2>2 DEF Account, Putting, Removing, Appending
<1>8. ~torn' => Initializing(p)'
  <2> SUFFICES ASSUME ~torn PROVE Initializing(p)'
    BY <1>1
  <2>1. head.magic
    BY <1>1, <1>6 DEF Initializing, Appending
  <2> QED BY <1>1, <1>4, <1>5, <1>6, <2>1 DEF Initializing, Attaching
<1> QED BY <1>4, <1>5, <1>7, <1>8, AloneStep

\* What a call on a torn segment finds leaves nothing to account for.
LEMMA UseTornStep ==
  ASSUME ShmInv, NEW p \in Process, Alone(p), torn, UseTorn(p) \/ FindBack(p)
  PROVE  ShmInv'
<1>1. PICK c \in {NoCall, LostCall} : call' = [call EXCEPT ![p] = c]
  BY DEF UseTorn, FindBack, Return
<1>2. call'[p] = c /\ UNCHANGED <<size, head, chunks, excess, torn, handle>>
  BY <1>1 DEF UseTorn, FindBack, ShmInv
<1>3. HeadTyped'
  BY <1>2 DEF ShmInv, HeadTyped
<1>4. CallTyped(p)'
  BY <1>2, NoCallIsAt DEF ShmInv, CallTyped, Lost, Removing
<1> QED BY <1>1, <1>2, <1>3, <1>4, AloneStep

-----------------------------------------------------------------------------
(* The end of a segment, of an attachment, of a process *)

LEMMA RemoveSegmentStep ==
  ASSUME Parameters, ShmInv, NEW p \in Process, Alone(p), ~InCall(p), RemoveSegment(p)
  PROVE  ShmInv'
<1>1. size' = 0 /\ head' = NoHead /\ chunks' = <<>> /\ excess' = 0 /\ torn' = FALSE
      /\ call' = call /\ handle' = [q \in Process |-> FALSE]
  BY DEF RemoveSegment, Fresh
<1>2. call' = [call EXCEPT ![p] = NoCall] /\ call'[p].at = "none"
  BY <1>1, NoCallIsAt DEF InCall, ShmInv
<1>3. HeadTyped'
  <2>1. <<>> \in Seq(Chunk)
    OBVIOUS
  <2>2. NoHead \in [magic : BOOLEAN, start : Nat, end : Int, free : Int, total : Nat]
    BY DEF NoHead
  <2>3. handle' \in [Process -> BOOLEAN]
    BY <1>1
  <2> QED BY <1>1, <2>1, <2>2, <2>3 DEF HeadTyped
<1>4. CallTyped(p)'
  BY <1>1, <1>2, NoCallIsAt DEF CallTyped, Lost, Removing, InCall
<1>5. Account(p)'
  <2>1. head'.end + head'.free <= size' + excess'
    BY <1>1 DEF NoHead
  <2> QED BY <1>2, <2>1 DEF Account, Putting, Removing, Appending
<1>6. Initializing(p)'
  BY <1>1, <1>2 DEF Initializing, Attaching, Removing, Appending
<1> QED BY <1>2, <1>3, <1>4, <1>5, <1>6, AloneStep

\* Who gives up a handle changes nothing for the others, in a call or not.
LEMMA HandleStep ==
  ASSUME ShmInv, UNCHANGED <<size, head, chunks, excess, torn, call>>,
         NEW p \in Process, handle' = [handle EXCEPT ![p] = FALSE]
  PROVE  ShmInv'
<1>1. handle' \in [Process -> BOOLEAN] /\ \A q \in Process : handle'[q] => handle[q]
  BY DEF ShmInv, HeadTyped
<1>2. HeadTyped'
  BY <1>1 DEF ShmInv, HeadTyped
<1>3. (call = [q \in Process |-> call[q]])' /\ OneCall' /\ \A q \in Process : CallTyped(q)'
  BY DEF ShmInv, OneCall, InCall, CallTyped, Lost
<1>4. ASSUME ~torn', NEW q \in Process, Alone(q)'
      PROVE  Account(q)' /\ Initializing(q)'
  <2>1. Account(q) /\ Initializing(q)
    BY <1>4 DEF ShmInv, Alone, InCall
  <2>2. Account(q)'
    BY <2>1 DEF Account, Putting, VictimLength, Victim
  <2>3. Initializing(q)'
    BY <1>1, <2>1 DEF Initializing
  <2> QED BY <2>2, <2>3
<1> QED BY <1>2, <1>3, <1>4 DEF ShmInv

LEMMA PendingIs ==
  ASSUME Parameters, HeadTyped, NEW p \in Process, CallTyped(p)
  PROVE  /\ Pending(p) \in Nat
         /\ call[p].at = "shorten" => Pending(p) = VictimLength(p)
         /\ call[p].at = "take" => Pending(p) = Length[call[p].val]
         /\ call[p].at \notin {"shorten", "take"} => Pending(p) = 0
<1>1. CASE call[p].at = "shorten"
  <2>1. Pending(p) = VictimLength(p)
    BY <1>1, NoCallIsAt DEF Pending, Reached, InCall
  <2> QED BY <1>1, <2>1, VictimType DEF Removing
<1>2. CASE call[p].at = "take"
  <2>1. Pending(p) = Length[call[p].val]
    BY <1>2, NoCallIsAt DEF Pending, Reached, InCall
  <2> QED BY <1>2, <2>1, Kinds DEF Appending, Parameters
<1>3. CASE call[p].at \notin {"shorten", "take"}
  BY <1>3 DEF Pending, Reached
<1> QED BY <1>1, <1>2, <1>3

\* Who dies in no call leaves the segment as it is.
LEMMA DieIdle ==
  ASSUME ShmInv, NEW p \in Process, ~InCall(p), Die(p)
  PROVE  UNCHANGED <<size, head, chunks, excess, torn, call>>
<1>1. ~Reached(p, "move") /\ Pending(p) = 0 /\ excess \in Nat
  BY DEF Reached, Pending, ShmInv, HeadTyped
<1>2. call' = call
  BY DEF Die, Return, InCall, ShmInv
<1> QED BY <1>1, <1>2 DEF Die

\* What a call owes when it dies is an excess from then on.
LEMMA DieStep ==
  ASSUME Parameters, ShmInv, NEW p \in Process, Die(p)
  PROVE  ShmInv'
<1>1. handle' = [handle EXCEPT ![p] = FALSE] /\ Return(p) /\ size' = size /\ HeadTyped
  BY DEF Die, ShmInv
<1>2. CASE ~InCall(p)
  BY <1>1, <1>2, DieIdle, HandleStep
<1>3. CASE InCall(p)
  <2>1. Alone(p)
    BY <1>3 DEF ShmInv, OneCall, Alone
  <2>2. call' = [call EXCEPT ![p] = NoCall] /\ call'[p].at = "none"
    BY <1>1, Returned
  <2>3. CASE Tear
    <3>1. HeadTyped' /\ torn' /\ head' = NoHead /\ chunks' = <<>>
      BY <1>1, <2>3, TearTypes DEF HeadTyped
    <3>2. CallTyped(p)'
      BY <1>1, <3>1, Returned
    <3> QED BY <2>1, <2>2, <3>1, <3>2, AloneStep
  <2>4. CASE excess' = excess + Pending(p) /\ UNCHANGED <<head, chunks, torn>>
    <3>1. Pending(p) \in Nat
      BY <1>1, PendingIs DEF ShmInv
    <3>2. HeadTyped' /\ CallTyped(p)'
      <4>1. torn' => head' = NoHead /\ chunks' = <<>>
        BY <2>4 DEF ShmInv, CallTyped, Lost
      <4> QED BY <1>1, <2>4, <3>1, <4>1, Returned DEF HeadTyped
    <3>3. ASSUME ~torn PROVE Account(p)' /\ Initializing(p)'
      <4>1. Account(p) /\ Initializing(p) /\ CallTyped(p)
        BY <2>1, <3>3 DEF ShmInv
      <4>2. head.end + head.free <= size + excess + Pending(p)
        BY <1>1, <1>3, <4>1, PendingIs DEF HeadTyped, Account
      <4>3. Account(p)'
        BY <1>1, <2>2, <2>4, <3>1, <4>2 DEF Account, Putting, Removing, Appending, HeadTyped
      <4>4. \A q \in Process : handle'[q] => head'.magic
        BY <1>1, <2>4, <4>1 DEF Initializing, HeadTyped
      <4>5. Initializing(p)'
        BY <1>1, <2>2, <2>4, <4>1, <4>4 DEF Initializing, Attaching, Removing, Appending
      <4> QED BY <4>3, <4>5
    <3> QED BY <2>1, <2>2, <2>4, <3>2, <3>3, AloneStep
  <2> QED BY <2>3, <2>4 DEF Die
<1> QED BY <1>2, <1>3

-----------------------------------------------------------------------------
(* The invariant *)

LEMMA InitShmInv ==
  ASSUME ShmInit PROVE ShmInv
<1>1. size = 0 /\ head = NoHead /\ chunks = <<>> /\ excess = 0 /\ torn = FALSE
      /\ handle = [p \in Process |-> FALSE] /\ call = [p \in Process |-> NoCall]
  BY DEF ShmInit
<1>2. HeadTyped
  <2>1. <<>> \in Seq(Chunk)
    OBVIOUS
  <2>2. NoHead \in [magic : BOOLEAN, start : Nat, end : Int, free : Int, total : Nat]
    BY DEF NoHead
  <2>3. handle \in [Process -> BOOLEAN]
    BY <1>1
  <2> QED BY <1>1, <2>1, <2>2, <2>3 DEF HeadTyped
<1>3. \A p \in Process : call[p] = NoCall /\ call[p].at = "none"
  BY <1>1, NoCallIsAt
<1>4. \A p \in Process : CallTyped(p)
  BY <1>1, <1>3 DEF CallTyped, Lost, Removing
<1>5. \A p \in Process : Account(p)
  <2>1. head.end + head.free <= size + excess
    BY <1>1 DEF NoHead
  <2> QED BY <1>3, <2>1 DEF Account, Putting, Removing, Appending
<1>6. \A p \in Process : Initializing(p)
  BY <1>1, <1>3 DEF Initializing, Attaching, Removing, Appending
<1>7. OneCall /\ call = [p \in Process |-> call[p]]
  BY <1>1 DEF OneCall, InCall
<1> QED BY <1>2, <1>4, <1>5, <1>6, <1>7 DEF ShmInv

LEMMA StepShmInv ==
  ASSUME Parameters, ShmInv, [ShmNext]_shmVars PROVE ShmInv'
<1>1. ASSUME NEW p \in Process, Alone(p), Begin(p) PROVE ShmInv'
  <2>1. ASSUME NEW memsize \in Memsizes, Attach(p, memsize) PROVE ShmInv'
    BY <1>1, <2>1, AttachStep DEF Begin
  <2>2. ASSUME NEW k \in Key, NEW v \in Val, PutVar(p, k, v), ~torn PROVE ShmInv'
    BY <1>1, <2>2, PutVarStep DEF Begin
  <2>3. ASSUME NEW k \in Key, RemoveVar(p, k), ~torn PROVE ShmInv'
    BY <1>1, <2>3, RemoveVarStep DEF Begin
  <2>4. CASE RemoveSegment(p)
    BY <1>1, <2>4, RemoveSegmentStep DEF Begin
  <2>5. CASE torn /\ UseTorn(p)
    BY <1>1, <2>5, UseTornStep
  <2> QED BY <1>1, <2>1, <2>2, <2>3, <2>4, <2>5 DEF Begin
<1>2. ASSUME NEW p \in Process, Alone(p), Proceed(p) PROVE ShmInv'
  <2>1. CASE Check(p)
    BY <1>2, <2>1, CheckStep
  <2>2. CASE Initialize(p)
    <3>1. CASE Write(p, "magic", TRUE, "start")
      BY <1>2, <3>1, MagicStep
    <3>2. CASE Write(p, "start", HeadSize, "end")
      BY <1>2, <3>2, StartStep
    <3>3. CASE Write(p, "end", head.start, "total")
      BY <1>2, <3>3, EndStep
    <3>4. CASE Write(p, "total", call[p].memsize, "free")
      BY <1>2, <3>4, TotalStep
    <3>5. CASE InitializeFree(p)
      BY <1>2, <3>5, InitializeFreeStep
    <3> QED BY <2>2, <3>1, <3>2, <3>3, <3>4, <3>5 DEF Initialize
  <2>3. CASE Unfree(p)
    BY <1>2, <2>3, UnfreeStep
  <2>4. CASE Shorten(p)
    BY <1>2, <2>4, ShortenStep
  <2>5. CASE Move(p)
    BY <1>2, <2>5, MoveStep
  <2>6. CASE Append_(p)
    BY <1>2, <2>6, AppendStep
  <2>7. CASE Extend(p)
    BY <1>2, <2>7, ExtendStep
  <2>8. CASE Take(p)
    BY <1>2, <2>8, TakeStep
  <2>9. CASE FindBack(p)
    <3>1. torn
      BY <2>9 DEF FindBack, Reached, ShmInv, CallTyped, Lost
    <3> QED BY <1>2, <2>9, <3>1, UseTornStep
  <2> QED BY <1>2, <2>1, <2>2, <2>3, <2>4, <2>5, <2>6, <2>7, <2>8, <2>9 DEF Proceed
<1>3. ASSUME NEW p \in Process, Detach(p) PROVE ShmInv'
  BY <1>3, HandleStep DEF Detach
<1>4. ASSUME NEW p \in Process, Die(p) PROVE ShmInv'
  BY <1>4, DieStep
<1>5. CASE UNCHANGED shmVars
  <2>1. UNCHANGED <<size, head, chunks, excess, torn, handle, call>>
    BY <1>5 DEF shmVars
  <2>2. \A p \in Process : (CallTyped(p) => CallTyped(p)') /\ (Account(p) => Account(p)')
                           /\ (Initializing(p) => Initializing(p)')
    BY <2>1 DEF CallTyped, Lost, Account, Putting, VictimLength, Victim, Initializing
  <2>3. \A p \in Process : Alone(p)' => Alone(p)
    BY <2>1 DEF Alone, InCall
  <2> QED BY <2>1, <2>2, <2>3 DEF ShmInv, HeadTyped, OneCall, InCall
<1> QED BY <1>1, <1>2, <1>3, <1>4, <1>5 DEF ShmNext

\* The account of the segment is kept by every call and every death.
THEOREM ShmInvariance ==
  ASSUME Parameters PROVE ShmSpec => []ShmInv
<1>1. ShmInit => ShmInv
  BY InitShmInv
<1>2. ShmInv /\ [ShmNext]_shmVars => ShmInv'
  BY StepShmInv
<1> QED BY <1>1, <1>2, PTL DEF ShmSpec

\* The head keeps its fields and a call the locals of its place.
THEOREM ShmTypeCorrect ==
  ASSUME Parameters PROVE ShmSpec => []ShmTypeOK
<1>1. ShmInv => ShmTypeOK
  BY DEF ShmInv, HeadTyped, CallTyped, ShmTypeOK
<1> QED BY <1>1, ShmInvariance, PTL

\* What end and free count, and what a new chunk is written to, is at most the
\* size and what deaths in front of it left counted twice; nothing, if there
\* was none.  This is for what is not torn.
THEOREM WritesFit ==
  ASSUME Parameters, Process # {} PROVE ShmSpec => []RoomIsThere
<1>1. ASSUME ShmInv, ~torn PROVE Fits
  <2>1. PICK p \in Process : Alone(p) /\ \A q \in Process \ {p} : ~InCall(q)
    BY <1>1 DEF ShmInv, OneCall, Alone
  <2>2. Account(p) /\ HeadTyped /\ CallTyped(p)
    BY <1>1, <2>1 DEF ShmInv
  <2>3. ~Reaching({"shorten", "take"}) => head.end + head.free <= size + excess
    BY <2>2, NoCallIsAt DEF Account, Reaching, Callers, InCall
  <2>4. ASSUME NEW q \in Process, Reached(q, "append")
        PROVE  head.end + Length[call[q].val] <= size + excess
    <3>1. q = p /\ call[p].at = "append"
      BY <2>1, <2>4 DEF Reached
    <3>2. call[p] \in PutCalls
      BY <2>2, <3>1, Kinds DEF Appending
    <3>3. Length[call[p].val] \in Nat
      BY <3>2 DEF PutCalls, Parameters
    <3>4. head.free >= Length[call[p].val] /\ head.end + head.free <= size + excess
      BY <2>2, <3>1 DEF Account, Putting, Appending
    <3> QED BY <2>2, <3>1, <3>3, <3>4 DEF HeadTyped
  <2> QED BY <2>3, <2>4 DEF Fits
<1>2. ShmInv => RoomIsThere
  BY <1>1 DEF RoomIsThere
<1> QED BY <1>2, ShmInvariance, PTL

-----------------------------------------------------------------------------
(* Induction over the chunks: the least number at which a claim fails, for  *)
(* what a recursive function gives at a number depends on the one before.   *)

\* Every set of natural numbers has a least element.
LEMMA Order == \E R : IsWellFoundedOn(R, Nat) /\ \A a, b \in Nat : a < b => <<a, b>> \in R
<1>1. IsWellFoundedOn(OpToRel(<, Nat), Nat)
  BY NatLessThanWellFounded, Zenon
<1>2. \A a, b \in Nat : a < b => <<a, b>> \in OpToRel(<, Nat)
  BY DEF OpToRel
<1> QED BY <1>1, <1>2, Zenon

LEMMA Least ==
  ASSUME NEW T \in SUBSET Nat, T # {}
  PROVE  \E x \in T : \A y \in T : x <= y
<1>1. PICK R : IsWellFoundedOn(R, Nat) /\ \A a, b \in Nat : a < b => <<a, b>> \in R
  BY Order
<1>2. IsWellFoundedOn(R, Nat) /\ T \subseteq Nat
  BY <1>1
<1>3. PICK x \in T : \A y \in T : ~ (<<y, x>> \in R)
  BY <1>2, WFMin, Zenon
<1>4. ASSUME NEW y \in T PROVE x <= y
  <2>1. ~ (y < x)
    BY <1>1, <1>3, Zenon
  <2> QED BY <2>1
<1> QED BY <1>4

\* The chunks s laid one behind the other from b on.
Position(b, s, n) ==
  LET position[i \in 0 .. n] ==
        IF i = 0 THEN b ELSE position[i - 1] + Length[s[i].val]
  IN  position[n]

LEMMA BehindIsPosition == \A s, n : Behind(s, n) = Position(head.start, s, n)
BY DEF Behind, Position

IsLayout(f, b, s, n) ==
  /\ f \in [0 .. n -> Nat]
  /\ f[0] = b
  /\ \A i \in 1 .. n : f[i] = f[i - 1] + Length[s[i].val]

LEMMA LayoutExists ==
  ASSUME Parameters, NEW b \in Nat, NEW s \in Seq(Chunk)
  PROVE  \A n \in 0 .. Len(s) : \E f : IsLayout(f, b, s, n)
<1> DEFINE T == {n \in 0 .. Len(s) : ~ \E f : IsLayout(f, b, s, n)}
<1> SUFFICES ASSUME T # {} PROVE FALSE
  OBVIOUS
<1>0. Len(s) \in Nat
  OBVIOUS
<1>1. PICK n \in T : \A y \in T : n <= y
  <2>1. T \in SUBSET Nat
    BY <1>0
  <2> HIDE DEF T
  <2> QED BY <2>1, Least
<1>2. n \in 0 .. Len(s) /\ ~ \E f : IsLayout(f, b, s, n)
  OBVIOUS
<1>3. n # 0
  <2>1. IsLayout([i \in 0 .. 0 |-> b], b, s, 0)
    BY DEF IsLayout
  <2> QED BY <1>2, <2>1
<1>4. PICK f : IsLayout(f, b, s, n - 1)
  <2>1. n - 1 \in 0 .. Len(s) /\ ~ (n <= n - 1)
    BY <1>0, <1>2, <1>3
  <2>2. n - 1 \notin T
    BY <1>1, <2>1
  <2> QED BY <2>1, <2>2
<1> HIDE DEF T
<1>5. Length[s[n].val] \in Nat
  <2>1. s[n] \in Chunk
    BY <1>0, <1>2, <1>3
  <2> QED BY <2>1 DEF Chunk, Parameters
<1> DEFINE l == Length[s[n].val]
           g == [i \in 0 .. n |-> IF i = n THEN f[n - 1] + l ELSE f[i]]
<1>6. IsLayout(g, b, s, n)
  <2>1. n \in Nat /\ n # 0
    BY <1>0, <1>2, <1>3
  <2>2. f \in [0 .. n - 1 -> Nat] /\ f[0] = b
        /\ \A i \in 1 .. n - 1 : f[i] = f[i - 1] + Length[s[i].val]
    BY <1>4 DEF IsLayout
  <2>3. f[n - 1] + l \in Nat
    BY <1>5, <2>1, <2>2
  <2>4. ASSUME NEW i \in 0 .. n PROVE g[i] \in Nat
    <3>1. CASE i = n
      BY <2>3, <3>1
    <3>2. CASE i # n
      <4>1. i \in 0 .. n - 1
        BY <2>1, <3>2
      <4> QED BY <2>2, <3>2, <4>1
    <3> QED BY <3>1, <3>2
  <2>5. g \in [0 .. n -> Nat] /\ g[0] = b
    BY <2>1, <2>2, <2>4
  <2>6. ASSUME NEW i \in 1 .. n PROVE g[i] = g[i - 1] + Length[s[i].val]
    <3>1. CASE i = n
      BY <2>1, <3>1
    <3>2. CASE i # n
      <4>1. i \in 1 .. n - 1 /\ i - 1 \in 0 .. n /\ i - 1 # n /\ i \in 0 .. n
        BY <2>1, <3>2
      <4>2. g[i] = f[i] /\ g[i - 1] = f[i - 1]
        BY <3>2, <4>1
      <4> QED BY <2>2, <4>1, <4>2
    <3> QED BY <3>1, <3>2
  <2> QED BY <2>5, <2>6 DEF IsLayout
<1> QED BY <1>2, <1>6

\* Two layouts of chunks that begin alike are alike so far.
Alike(s, t, k) == \A i \in 1 .. k : s[i] = t[i]

LEMMA LayoutUnique ==
  ASSUME NEW b \in Nat, NEW s \in Seq(Chunk), NEW t \in Seq(Chunk), NEW m \in Nat, NEW n \in Nat,
         NEW f, IsLayout(f, b, s, m), NEW g, IsLayout(g, b, t, n),
         NEW k \in Nat, k <= m, k <= n, Alike(s, t, k), NEW x \in 0 .. k
  PROVE  f[x] = g[x]
<1>0. \A i \in 1 .. k : s[i] = t[i]
  BY DEF Alike
<1> DEFINE T == {i \in 0 .. k : f[i] # g[i]}
<1> SUFFICES ASSUME T # {} PROVE FALSE
  OBVIOUS
<1>1. PICK i \in T : \A y \in T : i <= y
  <2>1. T \in SUBSET Nat
    OBVIOUS
  <2> HIDE DEF T
  <2> QED BY <2>1, Least
<1>2. i \in 0 .. k /\ f[i] # g[i]
  OBVIOUS
<1>3. i # 0
  BY <1>2 DEF IsLayout
<1>4. f[i - 1] = g[i - 1]
  <2>1. i - 1 \in 0 .. k /\ ~ (i <= i - 1)
    BY <1>2, <1>3
  <2>2. i - 1 \notin T
    BY <1>1, <2>1
  <2> QED BY <2>1, <2>2
<1> HIDE DEF T
<1>5. i \in 1 .. k /\ i \in 1 .. m /\ i \in 1 .. n
  BY <1>2, <1>3
<1>6. f[i] = f[i - 1] + Length[s[i].val] /\ g[i] = g[i - 1] + Length[t[i].val] /\ s[i] = t[i]
  BY <1>0, <1>5 DEF IsLayout
<1> QED BY <1>2, <1>4, <1>6

\* The position is what the layout says.
LEMMA PositionIs ==
  ASSUME NEW b \in Nat, NEW s \in Seq(Chunk), NEW n \in Nat, NEW f, IsLayout(f, b, s, n),
         NEW i \in 0 .. n
  PROVE  Position(b, s, i) = f[i]
<1> DEFINE E(h) == h = [j \in 0 .. i |-> IF j = 0 THEN b ELSE h[j - 1] + Length[s[j].val]]
           h == [j \in 0 .. i |-> f[j]]
           q == CHOOSE x : E(x)
<1>1. IsLayout(h, b, s, i)
  <2>1. \A j \in 1 .. i : j \in 1 .. n /\ j - 1 \in 0 .. i /\ j \in 0 .. i
    OBVIOUS
  <2>2. \A j \in 0 .. i : j \in 0 .. n
    OBVIOUS
  <2>3. h \in [0 .. i -> Nat] /\ h[0] = b
    BY <2>2 DEF IsLayout
  <2>4. \A j \in 1 .. i : h[j] = f[j] /\ h[j - 1] = f[j - 1]
    BY <2>1
  <2>5. \A j \in 1 .. i : h[j] = h[j - 1] + Length[s[j].val]
    BY <2>1, <2>4 DEF IsLayout
  <2> HIDE DEF h
  <2> QED BY <2>3, <2>5 DEF IsLayout
<1>2. E(h)
  <2>1. \A j \in 0 .. i : j # 0 => j \in 1 .. i
    OBVIOUS
  <2>2. h[0] = b /\ \A j \in 1 .. i : h[j] = h[j - 1] + Length[s[j].val]
    BY <1>1 DEF IsLayout
  <2>3. \A j \in 0 .. i : h[j] = IF j = 0 THEN b ELSE h[j - 1] + Length[s[j].val]
    BY <2>1, <2>2
  <2>4. h = [j \in 0 .. i |-> h[j]]
    OBVIOUS
  <2> HIDE DEF h
  <2> QED BY <2>3, <2>4
<1>3. h[i] = f[i]
  OBVIOUS
<1> HIDE DEF h
<1>4. E(q)
  BY <1>2
<1>5. Position(b, s, i) = q[i]
  BY DEF Position
<1> HIDE DEF q
<1>6. \A j \in 0 .. i : q[j] = IF j = 0 THEN b ELSE q[j - 1] + Length[s[j].val]
  BY <1>4
<1> DEFINE T == {j \in 0 .. i : q[j] # h[j]}
<1>7. T = {}
  <2> SUFFICES ASSUME T # {} PROVE FALSE
    OBVIOUS
  <2>1. PICK j \in T : \A y \in T : j <= y
    <3>1. T \in SUBSET Nat
      OBVIOUS
    <3> HIDE DEF T
    <3> QED BY <3>1, Least
  <2>2. j \in 0 .. i /\ q[j] # h[j]
    OBVIOUS
  <2>3. j # 0
    BY <1>1, <1>6, <2>2 DEF IsLayout
  <2>4. q[j - 1] = h[j - 1]
    <3>1. j - 1 \in 0 .. i /\ ~ (j <= j - 1)
      BY <2>2, <2>3
    <3>2. j - 1 \notin T
      BY <2>1, <3>1
    <3> QED BY <3>1, <3>2
  <2> HIDE DEF T
  <2>5. j \in 1 .. i
    BY <2>2, <2>3
  <2>6. h[j] = h[j - 1] + Length[s[j].val]
    BY <1>1, <2>5 DEF IsLayout
  <2> QED BY <1>6, <2>2, <2>3, <2>4, <2>6
<1>8. i \in 0 .. i
  OBVIOUS
<1> QED BY <1>3, <1>5, <1>7, <1>8

\* What the recursion says, and that the positions grow.
LEMMA Positions ==
  ASSUME Parameters, NEW b \in Nat, NEW s \in Seq(Chunk)
  PROVE  /\ Position(b, s, 0) = b
         /\ \A i \in 0 .. Len(s) : Position(b, s, i) \in Nat
         /\ \A i \in 1 .. Len(s) : /\ Length[s[i].val] \in Nat /\ Length[s[i].val] > 0
                                   /\ Position(b, s, i) = Position(b, s, i - 1) + Length[s[i].val]
         /\ \A i, j \in 0 .. Len(s) : i < j => Position(b, s, i) < Position(b, s, j)
<1>1. PICK n \in Nat : n = Len(s)
  OBVIOUS
<1>2. PICK f : IsLayout(f, b, s, n)
  <2>1. n \in 0 .. Len(s)
    BY <1>1
  <2> QED BY <2>1, LayoutExists
<1>3. f \in [0 .. n -> Nat] /\ f[0] = b /\ \A i \in 1 .. n : f[i] = f[i - 1] + Length[s[i].val]
  BY <1>2 DEF IsLayout
<1>4. ASSUME NEW i \in 0 .. n PROVE Position(b, s, i) = f[i]
  BY <1>1, <1>2, PositionIs
<1>5. ASSUME NEW i \in 1 .. n PROVE Length[s[i].val] \in Nat /\ Length[s[i].val] > 0
  <2>1. s[i] \in Chunk
    BY <1>1
  <2> QED BY <2>1 DEF Chunk, Parameters
<1>6. ASSUME NEW i \in 0 .. n PROVE \A j \in 0 .. n : i < j => f[i] < f[j]
  <2> DEFINE T == {j \in 0 .. n : i < j /\ ~ (f[i] < f[j])}
  <2> SUFFICES ASSUME T # {} PROVE FALSE
    OBVIOUS
  <2>1. PICK j \in T : \A y \in T : j <= y
    <3>1. T \in SUBSET Nat
      BY <1>1
    <3> HIDE DEF T
    <3> QED BY <3>1, Least
  <2>2. j \in 0 .. n /\ i < j /\ ~ (f[i] < f[j])
    OBVIOUS
  <2>3. i < j - 1 => f[i] < f[j - 1]
    <3>1. j - 1 \in 0 .. n /\ ~ (j <= j - 1)
      BY <1>1, <2>2
    <3>2. j - 1 \notin T
      BY <2>1, <3>1
    <3> QED BY <3>1, <3>2
  <2> HIDE DEF T
  <2>4. j \in 1 .. n /\ j - 1 \in 0 .. n
    BY <1>1, <2>2
  <2>5. f[j] = f[j - 1] + Length[s[j].val] /\ f[j - 1] \in Nat /\ f[i] \in Nat
    BY <1>3, <2>4
  <2>6. Length[s[j].val] \in Nat /\ Length[s[j].val] > 0
    BY <1>5, <2>4
  <2> DEFINE l == Length[s[j].val]
             x == f[j - 1]
             y == f[i]
             z == f[j]
  <2>7. z = x + l /\ l \in Nat /\ l > 0 /\ x \in Nat /\ y \in Nat /\ ~ (y < z)
    BY <2>2, <2>5, <2>6
  <2>8. i = j - 1 => x = y
    OBVIOUS
  <2>9. i < j - 1 => y < x
    BY <2>3
  <2> HIDE DEF l, x, y, z
  <2> QED BY <1>1, <2>2, <2>4, <2>7, <2>8, <2>9
<1>7. \A i \in 1 .. n : i \in 0 .. n /\ i - 1 \in 0 .. n
  BY <1>1
<1>8. 0 \in 0 .. n
  BY <1>1
<1>9. \A i \in 1 .. n : Position(b, s, i) = Position(b, s, i - 1) + Length[s[i].val]
  BY <1>3, <1>4, <1>7
<1> QED BY <1>1, <1>3, <1>4, <1>5, <1>6, <1>8, <1>9

\* Chunks that begin alike have their first positions alike.
LEMMA PositionsAlike ==
  ASSUME Parameters, NEW b \in Nat, NEW s \in Seq(Chunk), NEW t \in Seq(Chunk),
         NEW k \in Nat, k <= Len(s), k <= Len(t), \A i \in 1 .. k : s[i] = t[i]
  PROVE  \A i \in 0 .. k : Position(b, s, i) = Position(b, t, i)
<1>0. PICK m \in Nat, n \in Nat : m = Len(s) /\ n = Len(t)
  OBVIOUS
<1>1. m \in 0 .. Len(s) /\ n \in 0 .. Len(t) /\ k <= m /\ k <= n
  BY <1>0
<1>2. PICK f : IsLayout(f, b, s, m)
  BY <1>1, LayoutExists
<1>3. PICK g : IsLayout(g, b, t, n)
  BY <1>1, LayoutExists
<1>4. ASSUME NEW i \in 0 .. k PROVE f[i] = g[i]
  <2>1. Alike(s, t, k)
    BY DEF Alike
  <2> QED BY <1>1, <1>2, <1>3, <2>1, LayoutUnique
<1>5. \A i \in 0 .. k : i \in 0 .. m /\ i \in 0 .. n
  BY <1>1
<1>6. ASSUME NEW i \in 0 .. k PROVE Position(b, s, i) = f[i]
  <2>1. i \in 0 .. m
    BY <1>5
  <2> QED BY <1>2, <2>1, PositionIs
<1>7. ASSUME NEW i \in 0 .. k PROVE Position(b, t, i) = g[i]
  <2>1. i \in 0 .. n
    BY <1>5
  <2> QED BY <1>3, <2>1, PositionIs
<1> QED BY <1>4, <1>6, <1>7

\* The chunks in front of the end of the m-th are the first m.
Front(b, s, pos) == SubSeq(s, 1, Cardinality({i \in DOMAIN s : Position(b, s, i - 1) < pos}))

LEMMA BeforeIsFront == \A pos : Before(pos) = Front(head.start, chunks, pos)
BY BehindIsPosition DEF Before, Front

LEMMA FrontIs ==
  ASSUME Parameters, NEW b \in Nat, NEW s \in Seq(Chunk), NEW m \in 0 .. Len(s)
  PROVE  Front(b, s, Position(b, s, m)) = SubSeq(s, 1, m)
<1> DEFINE P(i) == Position(b, s, i)
           S == {i \in DOMAIN s : P(i - 1) < P(m)}
<1>1. Len(s) \in Nat /\ DOMAIN s = 1 .. Len(s) /\ m \in Nat
  OBVIOUS
<1>2. /\ \A i \in 0 .. Len(s) : P(i) \in Nat
      /\ \A i, j \in 0 .. Len(s) : i < j => P(i) < P(j)
  BY Positions
<1> HIDE DEF P
<1>3. S = 1 .. m
  <2>1. ASSUME NEW i \in 1 .. Len(s) PROVE P(i - 1) < P(m) <=> i <= m
    <3>1. i - 1 \in 0 .. Len(s) /\ i \in Nat
      BY <1>1
    <3>2. CASE i <= m
      <4>1. i - 1 < m
        BY <1>1, <3>1, <3>2
      <4> QED BY <1>2, <3>1, <3>2, <4>1
    <3>3. CASE ~ (i <= m)
      <4>1. i - 1 = m \/ m < i - 1
        BY <1>1, <3>1, <3>3
      <4>2. P(m) \in Nat /\ P(i - 1) \in Nat
        BY <1>2, <3>1
      <4>3. P(i - 1) = P(m) \/ P(m) < P(i - 1)
        BY <1>2, <3>1, <4>1
      <4> QED BY <3>3, <4>2, <4>3
    <3> QED BY <3>2, <3>3
  <2>2. 1 .. m = {i \in 1 .. Len(s) : i <= m}
    BY <1>1
  <2> QED BY <1>1, <2>1, <2>2
<1> HIDE DEF S
<1>4. Cardinality(1 .. m) = m
  <2>1. 1 \in Int /\ m \in Int /\ (1 > m => m = 0)
    BY <1>1
  <2>2. Cardinality(1 .. m) = IF 1 > m THEN 0 ELSE m - 1 + 1
    BY <2>1, FS_Interval
  <2> QED BY <1>1, <2>1, <2>2
<1>5. Front(b, s, Position(b, s, m)) = SubSeq(s, 1, Cardinality(S))
  BY DEF Front, S, P
<1> QED BY <1>3, <1>4, <1>5

\* Without a chunk, those behind it are nearer by its length.
LEMMA PositionsWithout ==
  ASSUME Parameters, NEW b \in Nat, NEW s \in Seq(Chunk), NEW v \in 1 .. Len(s)
  PROVE  /\ Without(s, v) \in Seq(Chunk)
         /\ Len(Without(s, v)) = Len(s) - 1
         /\ Position(b, Without(s, v), Len(s) - 1) = Position(b, s, Len(s)) - Length[s[v].val]
<1> DEFINE t == Without(s, v)
           n == Len(s)
           l == Length[s[v].val]
           T == {j \in v .. n : Position(b, t, j - 1) # Position(b, s, j) - l}
<1>1. n \in Nat /\ n # 0 /\ v \in Nat /\ v \in 1 .. n
  OBVIOUS
<1>2. t \in Seq(Chunk)
  BY WithoutType
<1>3. Len(t) = n - 1 /\ \A j \in 1 .. n - 1 : t[j] = IF j < v THEN s[j] ELSE s[j + 1]
  <2>1. n - 1 \in Nat
    BY <1>1
  <2>2. t = [j \in 1 .. n - 1 |-> IF j < v THEN s[j] ELSE s[j + 1]]
    BY DEF Without
  <2>3. DOMAIN t = 1 .. Len(t) /\ Len(t) \in Nat
    BY <1>2
  <2> HIDE DEF t, n
  <2>4. DOMAIN t = 1 .. n - 1
    BY <2>2
  <2> QED BY <2>1, <2>2, <2>3, <2>4
<1> HIDE DEF t
<1>4. /\ \A i \in 0 .. n : Position(b, s, i) \in Nat
      /\ \A i \in 1 .. n : /\ Length[s[i].val] \in Nat
                           /\ Position(b, s, i) = Position(b, s, i - 1) + Length[s[i].val]
  BY Positions
<1>5. \A i \in 1 .. n - 1 : Position(b, t, i) = Position(b, t, i - 1) + Length[t[i].val]
  <2>1. \A i \in 1 .. Len(t) : Position(b, t, i) = Position(b, t, i - 1) + Length[t[i].val]
    BY <1>2, Positions
  <2> QED BY <1>3, <2>1
<1>6. \A i \in 0 .. v - 1 : Position(b, t, i) = Position(b, s, i)
  <2>1. v - 1 \in Nat /\ v - 1 <= Len(t) /\ v - 1 <= n
    BY <1>1, <1>3
  <2>2. \A i \in 1 .. v - 1 : t[i] = s[i]
    BY <1>1, <1>3
  <2>3. PICK k \in Nat : k = v - 1
    BY <2>1
  <2>4. \A i \in 0 .. k : Position(b, t, i) = Position(b, s, i)
    BY <1>2, <2>1, <2>2, <2>3, PositionsAlike
  <2> QED BY <2>3, <2>4
<1>7. l \in Nat /\ Position(b, s, v) = Position(b, s, v - 1) + l
      /\ Position(b, s, v) \in Nat /\ Position(b, s, v - 1) \in Nat
  BY <1>1, <1>4
<1> HIDE DEF l
<1>8. T = {}
  <2> SUFFICES ASSUME T # {} PROVE FALSE
    OBVIOUS
  <2>1. PICK j \in T : \A y \in T : j <= y
    <3>1. T \in SUBSET Nat
      BY <1>1
    <3> HIDE DEF T
    <3> QED BY <3>1, Least
  <2>2. j \in v .. n /\ Position(b, t, j - 1) # Position(b, s, j) - l
    OBVIOUS
  <2>3. j # v
    <3>1. Position(b, t, v - 1) = Position(b, s, v - 1)
      BY <1>1, <1>6
    <3> QED BY <1>7, <2>2, <3>1
  <2>4. j - 1 \in v .. n /\ j - 1 \in 1 .. n - 1 /\ j \in 1 .. n /\ j - 1 \in 0 .. n
        /\ ~ (j <= j - 1) /\ ~ (j - 1 < v) /\ j \in Nat /\ (j - 1) + 1 = j
    BY <1>1, <2>2, <2>3
  <2>5. Position(b, t, (j - 1) - 1) = Position(b, s, j - 1) - l
    <3>1. j - 1 \notin T
      BY <2>1, <2>4
    <3> QED BY <2>4, <3>1
  <2> HIDE DEF T
  <2>6. t[j - 1] = s[j]
    BY <1>3, <2>4
  <2>7. Position(b, t, j - 1) = Position(b, t, (j - 1) - 1) + Length[s[j].val]
    BY <1>5, <2>4, <2>6
  <2>8. Position(b, s, j) = Position(b, s, j - 1) + Length[s[j].val]
        /\ Length[s[j].val] \in Nat /\ Position(b, s, j - 1) \in Nat
    BY <1>4, <2>4
  <2> QED BY <1>7, <2>2, <2>5, <2>7, <2>8, SMTT(40)
<1>9. Position(b, t, n - 1) = Position(b, s, n) - l
  <2>1. n \in v .. n
    BY <1>1
  <2> QED BY <1>8, <2>1
<1> QED BY <1>2, <1>3, <1>9 DEF t, n, l

\* Up to the end of its m-th chunk a segment has m chunks.
LEMMA FrontWhole ==
  ASSUME Parameters, NEW b \in Nat, NEW s \in Seq(Chunk), NEW m \in 0 .. Len(s)
  PROVE  LET w == Front(b, s, Position(b, s, m))
         IN  /\ w \in Seq(Chunk) /\ Len(w) = m /\ DOMAIN w = 1 .. m
             /\ \A i \in 1 .. m : i \in 1 .. Len(s) /\ w[i] = s[i]
             /\ Position(b, w, m) = Position(b, s, m)
<1> DEFINE w == SubSeq(s, 1, m)
<1>1. m \in Nat /\ m <= Len(s) /\ Len(s) \in Nat
  OBVIOUS
<1>2. w \in Seq(Chunk) /\ Len(w) = m /\ DOMAIN w = 1 .. m /\ \A i \in 1 .. m : w[i] = s[i]
  BY <1>1
<1> HIDE DEF w
<1>3. \A i \in 1 .. m : i \in 1 .. Len(s)
  BY <1>1
<1>4. Position(b, w, m) = Position(b, s, m)
  <2>1. PICK k \in Nat : k = m
    BY <1>1
  <2>2. k <= Len(s) /\ k <= Len(w) /\ \A i \in 1 .. k : w[i] = s[i]
    BY <1>1, <1>2, <2>1
  <2>3. \A i \in 0 .. k : Position(b, w, i) = Position(b, s, i)
    BY <1>2, <2>2, PositionsAlike
  <2>4. k \in 0 .. k
    OBVIOUS
  <2> QED BY <2>1, <2>3, <2>4
<1>5. Front(b, s, Position(b, s, m)) = w
  BY FrontIs DEF w
<1> QED BY <1>2, <1>3, <1>4, <1>5

\* There is nothing in front of anything in an empty segment.
LEMMA FrontEmpty == \A b, pos : Front(b, <<>>, pos) = <<>>
<1> SUFFICES ASSUME NEW b, NEW pos PROVE Front(b, <<>>, pos) = <<>>
  OBVIOUS
<1>1. {i \in DOMAIN <<>> : Position(b, <<>>, i - 1) < pos} = {}
  OBVIOUS
<1>2. Cardinality({}) = 0
  BY FS_EmptySet
<1> QED BY <1>1, <1>2 DEF Front

-----------------------------------------------------------------------------
(* What is found under a key *)

OncePerKey(s) == \A i, j \in DOMAIN s : s[i].key = s[j].key => i = j
KeyIsNew(s, k) == \A i \in DOMAIN s : s[i].key # k

Lookup(s, k) == IF Found(s, k) = {} THEN "no value"
                ELSE s[CHOOSE i \in Found(s, k) : TRUE].val

LEMMA LookupNew ==
  ASSUME NEW s, NEW k, KeyIsNew(s, k)
  PROVE  Lookup(s, k) = "no value"
BY DEF KeyIsNew, Lookup, Found

LEMMA LookupOld ==
  ASSUME NEW s \in Seq(Chunk), OncePerKey(s), NEW i \in DOMAIN s
  PROVE  Lookup(s, s[i].key) = s[i].val
<1>1. i \in Found(s, s[i].key)
  <2>1. \A j \in 1 .. i - 1 : j \in DOMAIN s /\ j # i
    OBVIOUS
  <2> QED BY <2>1 DEF OncePerKey, Found
<1>2. \A j \in Found(s, s[i].key) : j = i
  BY DEF OncePerKey, Found
<1>3. (CHOOSE j \in Found(s, s[i].key) : TRUE) = i
  BY <1>1, <1>2
<1> QED BY <1>1, <1>3 DEF Lookup

\* Without its chunk a key has no value, and the others have theirs.
LEMMA LookupWithout ==
  ASSUME NEW s \in Seq(Chunk), OncePerKey(s), NEW v \in 1 .. Len(s)
  PROVE  /\ OncePerKey(Without(s, v))
         /\ KeyIsNew(Without(s, v), s[v].key)
         /\ \A k : k # s[v].key => Lookup(Without(s, v), k) = Lookup(s, k)
<1> DEFINE t == Without(s, v)
<1>1. PICK n \in Nat : n = Len(s) /\ n # 0 /\ v \in Nat /\ v <= n
  OBVIOUS
<1>2. t \in Seq(Chunk)
  BY WithoutType
<1>3. DOMAIN t = 1 .. n - 1 /\ \A j \in 1 .. n - 1 : t[j] = IF j < v THEN s[j] ELSE s[j + 1]
  BY <1>1 DEF Without
<1> HIDE DEF t
<1> DEFINE Old(j) == IF j < v THEN j ELSE j + 1
<1>4. \A j \in DOMAIN t : Old(j) \in DOMAIN s /\ Old(j) # v /\ t[j] = s[Old(j)]
  BY <1>1, <1>3
<1>5. \A i, j \in DOMAIN t : Old(i) = Old(j) => i = j
  BY <1>1, <1>3
<1>6. \A i \in DOMAIN s : i # v => \E j \in DOMAIN t : t[j] = s[i]
  <2> SUFFICES ASSUME NEW i \in DOMAIN s, i # v PROVE \E j \in DOMAIN t : t[j] = s[i]
    OBVIOUS
  <2>1. CASE i < v
    <3>1. i \in DOMAIN t
      BY <1>1, <1>3, <2>1
    <3> QED BY <1>3, <2>1, <3>1
  <2>2. CASE v < i
    <3>1. i - 1 \in DOMAIN t /\ ~ (i - 1 < v) /\ (i - 1) + 1 = i
      BY <1>1, <1>3, <2>2
    <3>2. t[i - 1] = s[i]
      BY <1>3, <3>1
    <3> QED BY <3>1, <3>2
  <2> QED BY <1>1, <2>1, <2>2
<1> HIDE DEF Old
<1>7. OncePerKey(t)
  BY <1>4, <1>5 DEF OncePerKey
<1>8. KeyIsNew(t, s[v].key)
  BY <1>1, <1>4 DEF OncePerKey, KeyIsNew
<1>9. ASSUME NEW k, k # s[v].key PROVE Lookup(t, k) = Lookup(s, k)
  <2>1. CASE KeyIsNew(s, k)
    <3>1. KeyIsNew(t, k)
      BY <1>4, <2>1 DEF KeyIsNew
    <3> QED BY <2>1, <3>1, LookupNew
  <2>2. CASE ~ KeyIsNew(s, k)
    <3>1. PICK i \in DOMAIN s : s[i].key = k
      BY <2>2 DEF KeyIsNew
    <3>2. PICK j \in DOMAIN t : t[j] = s[i]
      BY <1>6, <1>9, <3>1
    <3>3. Lookup(s, s[i].key) = s[i].val
      BY LookupOld
    <3>4. Lookup(t, t[j].key) = t[j].val
      BY <1>2, <1>7, LookupOld
    <3> QED BY <3>1, <3>2, <3>3, <3>4
  <2> QED BY <2>1, <2>2
<1> QED BY <1>7, <1>8, <1>9 DEF t

\* A chunk more gives its key its value, and leaves the others theirs.
LEMMA LookupAppend ==
  ASSUME NEW s \in Seq(Chunk), OncePerKey(s), NEW c \in Chunk, KeyIsNew(s, c.key)
  PROVE  /\ OncePerKey(Append(s, c))
         /\ Lookup(Append(s, c), c.key) = c.val
         /\ \A k : k # c.key => Lookup(Append(s, c), k) = Lookup(s, k)
<1> DEFINE t == Append(s, c)
<1>1. PICK n \in Nat : n = Len(s)
  OBVIOUS
<1>2. t \in Seq(Chunk) /\ DOMAIN t = 1 .. n + 1 /\ t[n + 1] = c
      /\ \A i \in 1 .. n : t[i] = s[i]
  BY <1>1
<1>3. DOMAIN s = 1 .. n
  BY <1>1
<1> HIDE DEF t
<1>4. \A i \in DOMAIN t : i = n + 1 \/ i \in DOMAIN s
  BY <1>2, <1>3
<1>5. OncePerKey(t)
  BY <1>2, <1>3, <1>4 DEF OncePerKey, KeyIsNew
<1>6. Lookup(t, c.key) = c.val
  <2>1. n + 1 \in DOMAIN t
    BY <1>2
  <2>2. Lookup(t, t[n + 1].key) = t[n + 1].val
    BY <1>2, <1>5, <2>1, LookupOld
  <2> QED BY <1>2, <2>2
<1>7. ASSUME NEW k, k # c.key PROVE Lookup(t, k) = Lookup(s, k)
  <2>1. CASE KeyIsNew(s, k)
    <3>1. KeyIsNew(t, k)
      BY <1>2, <1>3, <1>4, <1>7, <2>1 DEF KeyIsNew
    <3> QED BY <2>1, <3>1, LookupNew
  <2>2. CASE ~ KeyIsNew(s, k)
    <3>1. PICK i \in DOMAIN s : s[i].key = k
      BY <2>2 DEF KeyIsNew
    <3>2. i \in DOMAIN t /\ t[i] = s[i]
      BY <1>2, <1>3
    <3>3. Lookup(s, s[i].key) = s[i].val
      BY LookupOld
    <3>4. Lookup(t, t[i].key) = t[i].val
      BY <1>2, <1>5, <3>2, LookupOld
    <3> QED BY <3>1, <3>2, <3>3, <3>4
  <2> QED BY <2>1, <2>2
<1> QED BY <1>5, <1>6, <1>7 DEF t

-----------------------------------------------------------------------------
(* The chunks of a segment that is not torn *)

\* A walk goes to end; in the middle of a removal, to where end was.
Reach(p) == IF call[p].at = "move" THEN head.end + VictimLength(p) ELSE head.end
Written(p) == Front(head.start, chunks, Reach(p))

\* What is written when the removal that is in progress is done.
Kept(p) == IF call[p].at = "move" THEN Without(Written(p), Victim(p)) ELSE Written(p)

\* Up to end there are whole chunks; without a head there are none.
Whole(p) ==
  /\ ~head.magic \/ head.end < head.start => chunks = <<>> /\ head.free = 0
  /\ call[p].at \in Attaching \ {"check"} => chunks = <<>>
  /\ call[p].at \in {"total", "free"} \cup Removing \cup Appending => head.end >= head.start
  /\ head.end >= head.start =>
       \E m \in 0 .. Len(chunks) : Position(head.start, chunks, m) = Reach(p)

\* A key has one chunk, and an update has its locals right.
Keyed(p) ==
  /\ OncePerKey(Written(p))
  /\ call[p].at \in Removing =>
       Victim(p) \in DOMAIN Written(p) /\ chunks[Victim(p)].key = call[p].key
  /\ call[p].at = "append" => KeyIsNew(Written(p), call[p].key)
  /\ call[p].at = "extend" =>
       /\ KeyIsNew(Written(p), call[p].key)
       /\ chunks = Append(Written(p), [key |-> call[p].key, val |-> call[p].val])
  /\ call[p].at = "take" =>
       \E i \in DOMAIN Written(p) : Written(p)[i] = [key |-> call[p].key, val |-> call[p].val]

StoreInv == ~torn => \A p \in Process : Alone(p) => Whole(p) /\ Keyed(p)

LEMMA VisibleIs == Visible = Front(head.start, chunks, head.end)
BY BeforeIsFront DEF Visible

LEMMA VisibleIsWritten ==
  ASSUME NEW p \in Process, call[p].at # "move"
  PROVE  Visible = Written(p)
BY VisibleIs DEF Written, Reach

\* The chunks up to end, and in the middle of a removal beyond it.
LEMMA WrittenIs ==
  ASSUME Parameters, HeadTyped, NEW p \in Process, Whole(p)
  PROVE  /\ Written(p) \in Seq(Chunk)
         /\ \A i \in DOMAIN Written(p) : i \in DOMAIN chunks /\ Written(p)[i] = chunks[i]
         /\ head.end >= head.start =>
              \E m \in 0 .. Len(chunks) :
                /\ Position(head.start, chunks, m) = Reach(p)
                /\ Len(Written(p)) = m /\ DOMAIN Written(p) = 1 .. m
                /\ Position(head.start, Written(p), m) = Reach(p)
<1> DEFINE b == head.start
<1>1. b \in Nat /\ chunks \in Seq(Chunk) /\ head.end \in Int /\ DOMAIN chunks = 1 .. Len(chunks)
  BY DEF HeadTyped
<1>2. CASE head.end >= b
  <2>1. PICK m \in 0 .. Len(chunks) : Position(b, chunks, m) = Reach(p)
    BY <1>2 DEF Whole
  <2> DEFINE w == Front(b, chunks, Position(b, chunks, m))
  <2>2. /\ w \in Seq(Chunk) /\ Len(w) = m /\ DOMAIN w = 1 .. m
        /\ \A i \in 1 .. m : i \in 1 .. Len(chunks) /\ w[i] = chunks[i]
        /\ Position(b, w, m) = Position(b, chunks, m)
    BY <1>1, FrontWhole
  <2>3. Written(p) = w
    BY <2>1 DEF Written
  <2> HIDE DEF w, b
  <2>4. \A i \in DOMAIN w : i \in DOMAIN chunks /\ w[i] = chunks[i]
    BY <1>1, <2>2
  <2>5. Position(b, w, m) = Reach(p)
    BY <2>1, <2>2
  <2> QED BY <2>1, <2>2, <2>3, <2>4, <2>5 DEF b
<1>3. CASE ~ (head.end >= b)
  <2>1. chunks = <<>>
    BY <1>1, <1>3 DEF Whole
  <2>2. Written(p) = <<>>
    BY <2>1, FrontEmpty DEF Written
  <2> QED BY <1>3, <2>2
<1> QED BY <1>2, <1>3

\* A step that leaves the chunks and both their ends.
LEMMA Steady ==
  ASSUME NEW p \in Process, Whole(p), Keyed(p),
         UNCHANGED chunks, head'.start = head.start, head'.end = head.end,
         call[p].at # "move", call'[p].at \notin {"move", "extend", "take"},
         ~head'.magic \/ head.end < head.start => chunks = <<>> /\ head'.free = 0,
         call'[p].at \in Attaching \ {"check"} => chunks = <<>>,
         call'[p].at \in {"total", "free"} \cup Removing \cup Appending => head.end >= head.start,
         call'[p].at \in Removing =>
           Victim(p)' \in DOMAIN Written(p) /\ chunks[Victim(p)'].key = call'[p].key,
         call'[p].at = "append" => KeyIsNew(Written(p), call'[p].key)
  PROVE  Whole(p)' /\ Keyed(p)' /\ Written(p)' = Written(p)
<1>1. Reach(p)' = Reach(p)
  BY DEF Reach
<1>2. Written(p)' = Written(p)
  BY <1>1 DEF Written
<1>3. Whole(p)'
  BY <1>1 DEF Whole
<1>4. Keyed(p)'
  BY <1>2 DEF Keyed
<1> QED BY <1>2, <1>3, <1>4

\* What Steady asks for when the head has been written.
LEMMA EndIsKept ==
  ASSUME Parameters, HeadTyped, NEW p \in Process, Account(p), Initializing(p), Whole(p),
         NEW v \in Val, head.free >= Length[v]
  PROVE  head.magic /\ head.end >= head.start
<1>1. Length[v] \in Nat /\ Length[v] # 0
  BY DEF Parameters
<1>2. head.free # 0 /\ head.end \in Int /\ head.start \in Nat
  BY <1>1 DEF HeadTyped
<1> QED BY <1>2 DEF Whole

\* What is known of the process of a step.
LEMMA OfCaller ==
  ASSUME ShmInv, StoreInv, NEW p \in Process, Alone(p), ~torn
  PROVE  HeadTyped /\ CallTyped(p) /\ Account(p) /\ Initializing(p) /\ Whole(p) /\ Keyed(p)
BY DEF ShmInv, StoreInv

LEMMA AttachKeeps ==
  ASSUME Parameters, ShmInv, StoreInv, NEW p \in Process, Alone(p), ~InCall(p), ~torn,
         NEW memsize \in Memsizes, Attach(p, memsize)
  PROVE  Whole(p)' /\ Keyed(p)' /\ Written(p)' = Written(p)
<1>1. call'[p].at = "check" /\ call[p].at = "none" /\ UNCHANGED <<head, chunks>>
  BY NoCallIsAt DEF Attach, ShmInv, InCall
<1>2. ~head.magic \/ head.end < head.start => chunks = <<>> /\ head.free = 0
  BY OfCaller DEF Whole
<1> QED BY <1>1, <1>2, OfCaller, Steady DEF Attaching, Removing, Appending

LEMMA CheckKeeps ==
  ASSUME Parameters, ShmInv, StoreInv, NEW p \in Process, Alone(p), ~torn, Check(p)
  PROVE  Whole(p)' /\ Keyed(p)' /\ Written(p)' = Written(p)
<1>1. call[p].at = "check" /\ UNCHANGED <<head, chunks>>
  BY DEF Check, Reached
<1>2. ~head.magic \/ head.end < head.start => chunks = <<>> /\ head.free = 0
  BY OfCaller DEF Whole
<1>3. call'[p].at = "none" \/ (call'[p].at = "magic" /\ ~head.magic)
  <2>1. call[p] \in AttachCalls
    BY <1>1, Kinds DEF ShmInv, Attaching
  <2>2. CASE head.magic
    <3>1. Return(p)
      BY <2>2 DEF Check, Attached
    <3> QED BY <3>1, Returned
  <2>3. CASE ~head.magic
    <3>1. Continue(p, "magic")
      BY <2>3 DEF Check
    <3> QED BY <2>1, <2>3, <3>1, Continued
  <2> QED BY <2>2, <2>3
<1> QED BY <1>1, <1>2, <1>3, OfCaller, Steady DEF Attaching, Removing, Appending

\* A field of the head that says nothing of the chunks.
LEMMA FieldKeeps ==
  ASSUME Parameters, ShmInv, StoreInv, NEW p \in Process, Alone(p), ~torn,
         Write(p, "magic", TRUE, "start") \/ Write(p, "total", call[p].memsize, "free")
         \/ InitializeFree(p)
  PROVE  Whole(p)' /\ Keyed(p)' /\ Written(p)' = Written(p)
<1>1. HeadTyped /\ Initializing(p) /\ Whole(p) /\ Keyed(p)
  BY OfCaller
<1>2. call[p].at \in {"magic", "total", "free"} /\ chunks = <<>> /\ UNCHANGED chunks
  BY <1>1 DEF Write, InitializeFree, Reached, Whole, Attaching
<1>3. call[p] \in AttachCalls
  BY <1>2, Kinds DEF ShmInv, Attaching
<1>4. head'.start = head.start /\ head'.end = head.end
      /\ call'[p].at \in {"start", "free", "none"}
      /\ (call'[p].at = "free" => call[p].at = "total")
      /\ (call'[p].at = "none" => call[p].at = "free")
      /\ (call[p].at # "free" => head'.free = head.free)
  <2>1. CASE Write(p, "magic", TRUE, "start")
    <3>1. call'[p].at = "start"
      BY <1>3, <2>1, Continued DEF Write
    <3>2. call[p].at = "magic" /\ head' = [head EXCEPT !["magic"] = TRUE]
      BY <2>1 DEF Write, Reached
    <3> QED BY <1>1, <3>1, <3>2 DEF HeadTyped
  <2>2. CASE Write(p, "total", call[p].memsize, "free")
    <3>1. call'[p].at = "free"
      BY <1>3, <2>2, Continued DEF Write
    <3>2. call[p].at = "total" /\ head' = [head EXCEPT !["total"] = call[p].memsize]
      BY <2>2 DEF Write, Reached
    <3> QED BY <1>1, <3>1, <3>2 DEF HeadTyped
  <2>3. CASE InitializeFree(p)
    <3>1. call'[p].at = "none"
      BY <2>3, Returned DEF InitializeFree, Attached
    <3>2. call[p].at = "free" /\ head' = [head EXCEPT !.free = call[p].memsize - head.end]
      BY <2>3 DEF InitializeFree, Reached
    <3> QED BY <1>1, <3>1, <3>2 DEF HeadTyped
  <2> QED BY <2>1, <2>2, <2>3
<1>5. call[p].at \in {"total", "free"} => head.end >= head.start /\ head'.magic
  <2>1. CASE call[p].at = "total"
    <3>1. head' = [head EXCEPT !["total"] = call[p].memsize] /\ head.magic
      BY <1>1, <2>1 DEF Write, InitializeFree, Reached, Initializing, Attaching
    <3> QED BY <1>1, <2>1, <3>1 DEF Whole, HeadTyped
  <2>2. CASE call[p].at = "free"
    <3>1. head' = [head EXCEPT !.free = call[p].memsize - head.end] /\ head.magic
      BY <1>1, <2>2 DEF Write, InitializeFree, Reached, Initializing, Attaching
    <3> QED BY <1>1, <2>2, <3>1 DEF Whole, HeadTyped
  <2> QED BY <2>1, <2>2
<1>6. ~head'.magic \/ head.end < head.start => chunks = <<>> /\ head'.free = 0
  <2>1. head.end \in Int /\ head.start \in Int
    BY <1>1 DEF HeadTyped
  <2>2. call[p].at = "magic" => head.free = 0 /\ head'.free = 0
    <3>1. call[p].at = "magic" => ~head.magic
      BY <1>1 DEF Initializing
    <3> QED BY <1>1, <1>4, <3>1 DEF Whole
  <2> QED BY <1>2, <1>5, <2>1, <2>2
<1>7. call'[p].at \in {"total", "free"} \cup Removing \cup Appending => head.end >= head.start
  BY <1>4, <1>5 DEF Removing, Appending
<1>8. call'[p].at \notin Removing /\ call'[p].at \notin {"move", "extend", "take", "append"}
      /\ call[p].at # "move"
  BY <1>2, <1>4 DEF Removing
<1> QED BY <1>1, <1>2, <1>4, <1>6, <1>7, <1>8, Steady

\* The two ends of an empty segment.
LEMMA EndsKeep ==
  ASSUME Parameters, ShmInv, StoreInv, NEW p \in Process, Alone(p), ~torn,
         Write(p, "start", HeadSize, "end") \/ Write(p, "end", head.start, "total")
  PROVE  Whole(p)' /\ Keyed(p)' /\ Written(p)' = Written(p)
<1>1. HeadTyped /\ Initializing(p) /\ Whole(p) /\ Keyed(p)
  BY OfCaller
<1>2. call[p].at \in {"start", "end"} /\ chunks = <<>> /\ chunks' = <<>>
  BY <1>1 DEF Write, Reached, Whole, Attaching
<1>3. call[p] \in AttachCalls
  BY <1>2, Kinds DEF ShmInv, Attaching
<1>4. Written(p) = <<>> /\ Written(p)' = <<>>
  BY <1>2, FrontEmpty DEF Written
<1>5. /\ call'[p].at \in {"end", "total"} /\ head'.magic = head.magic /\ head'.free = head.free
      /\ call'[p].at = "total" => head'.start = head.start /\ head'.end = head.start
      /\ call'[p].at = "end" => head'.start = HeadSize /\ head'.end = head.end
                                /\ call[p].at = "start"
  <2>1. CASE Write(p, "start", HeadSize, "end")
    <3>1. call'[p].at = "end"
      BY <1>3, <2>1, Continued DEF Write
    <3>2. call[p].at = "start" /\ head' = [head EXCEPT !["start"] = HeadSize]
      BY <2>1 DEF Write, Reached
    <3> QED BY <1>1, <3>1, <3>2 DEF HeadTyped
  <2>2. CASE Write(p, "end", head.start, "total")
    <3>1. call'[p].at = "total"
      BY <1>3, <2>2, Continued DEF Write
    <3>2. head' = [head EXCEPT !["end"] = head.start]
      BY <2>2 DEF Write, Reached
    <3> QED BY <1>1, <3>1, <3>2 DEF HeadTyped
  <2> QED BY <2>1, <2>2
<1>6. head.free = 0 /\ head.magic
  <2>1. call[p].at = "start" => head.free = 0 /\ head.magic
    BY <1>1 DEF Initializing, Attaching
  <2>2. call[p].at = "end" => head.free = 0 /\ head.magic
    BY <1>1 DEF Initializing, Attaching
  <2> QED BY <1>2, <2>1, <2>2
<1>7. head'.end >= head'.start => call'[p].at = "total"
  <2>1. call'[p].at = "end" => head'.end = 0 /\ head'.start = HeadSize
    BY <1>1, <1>5 DEF Initializing
  <2>2. HeadSize \in Nat /\ HeadSize # 0
    BY DEF Parameters
  <2>3. call'[p].at = "end" => ~ (head'.end >= head'.start)
    BY <2>1, <2>2
  <2> QED BY <1>5, <2>3
<1>8. call'[p].at = "total" => head'.end >= head'.start
  BY <1>1, <1>5 DEF HeadTyped
<1>9. head'.end >= head'.start =>
        \E m \in 0 .. Len(chunks') : Position(head'.start, chunks', m) = Reach(p)'
  <2> SUFFICES ASSUME head'.end >= head'.start
               PROVE  \E m \in 0 .. Len(chunks') : Position(head'.start, chunks', m) = Reach(p)'
    OBVIOUS
  <2>1. head'.start = head.start /\ head'.end = head.start /\ call'[p].at = "total"
    BY <1>5, <1>7
  <2>2. Reach(p)' = head'.end
    BY <2>1 DEF Reach
  <2>3. 0 \in 0 .. Len(chunks') /\ <<>> \in Seq(Chunk) /\ head.start \in Nat
    BY <1>1, <1>2 DEF HeadTyped
  <2>4. Position(head'.start, chunks', 0) = head.start
    BY <1>2, <2>1, <2>3, Positions
  <2> QED BY <2>1, <2>2, <2>3, <2>4
<1>10. Whole(p)'
  <2>1. call'[p].at \notin Removing \cup Appending /\ call'[p].at # "free"
    BY <1>5 DEF Removing, Appending
  <2> QED BY <1>2, <1>5, <1>6, <1>8, <1>9, <2>1 DEF Whole
<1>11. Keyed(p)'
  <2>1. OncePerKey(<<>>)
    BY DEF OncePerKey
  <2> QED BY <1>4, <1>5, <2>1 DEF Keyed, Removing
<1> QED BY <1>4, <1>10, <1>11

LEMMA FoundIs ==
  ASSUME NEW s \in Seq(Chunk), NEW k, OncePerKey(s)
  PROVE  /\ Found(s, k) = {} => KeyIsNew(s, k)
         /\ \A i \in Found(s, k) : i \in DOMAIN s /\ s[i].key = k
<1>1. ASSUME NEW i \in DOMAIN s, s[i].key = k PROVE i \in Found(s, k)
  <2>1. \A j \in 1 .. i - 1 : j \in DOMAIN s /\ j # i
    OBVIOUS
  <2> QED BY <1>1, <2>1 DEF OncePerKey, Found
<1>2. \A i \in Found(s, k) : i \in DOMAIN s /\ s[i].key = k
  BY DEF Found
<1> QED BY <1>1, <1>2 DEF KeyIsNew

\* A call that begins an update with the chunk that it found, or without one.
LEMMA BeginKeeps ==
  ASSUME Parameters, ShmInv, StoreInv, NEW p \in Process, Alone(p), ~torn, ~InCall(p),
         head.end >= head.start, NEW k \in Key, UNCHANGED <<head, chunks>>,
         call'[p].at \in {"append", "unfree"}, call'[p].key = k,
         call'[p].found = Found(Visible, k),
         call'[p].at = "append" <=> Found(Visible, k) = {}
  PROVE  Whole(p)' /\ Keyed(p)' /\ Written(p)' = Written(p)
<1>1. HeadTyped /\ Whole(p) /\ Keyed(p) /\ call[p].at = "none"
  BY OfCaller, NoCallIsAt DEF InCall
<1> DEFINE w == Written(p)
<1>2. w \in Seq(Chunk) /\ OncePerKey(w)
      /\ \A i \in DOMAIN w : i \in DOMAIN chunks /\ w[i] = chunks[i]
  BY <1>1, WrittenIs DEF Keyed
<1>3. Visible = w
  BY <1>1, VisibleIsWritten
<1> HIDE DEF w
<1> DEFINE f == Found(w, k)
<1>4. /\ f = {} => KeyIsNew(w, k)
      /\ \A i \in f : i \in DOMAIN w /\ w[i].key = k
  BY <1>2, FoundIs
<1> HIDE DEF f
<1>5. Victim(p)' = CHOOSE i \in f : TRUE
  BY <1>3 DEF Victim, f
<1>6. call'[p].at = "append" => KeyIsNew(w, k)
  BY <1>3, <1>4 DEF f
<1>7. call'[p].at \in Removing => Victim(p)' \in DOMAIN w /\ chunks[Victim(p)'].key = k
  <2> SUFFICES ASSUME call'[p].at \in Removing
               PROVE  Victim(p)' \in DOMAIN w /\ chunks[Victim(p)'].key = k
    OBVIOUS
  <2>1. f # {}
    BY <1>3 DEF f, Removing
  <2>2. Victim(p)' \in f
    BY <1>5, <2>1
  <2> QED BY <1>2, <1>4, <2>2
<1>8. ~head'.magic \/ head.end < head.start => chunks = <<>> /\ head'.free = 0
  BY <1>1 DEF Whole
<1>9. call'[p].at \notin {"move", "extend", "take"} /\ call[p].at # "move"
      /\ call'[p].at \notin Attaching
  BY <1>1 DEF Attaching
<1> QED BY <1>1, <1>6, <1>7, <1>8, <1>9, Steady DEF w

LEMMA PutVarKeeps ==
  ASSUME Parameters, ShmInv, StoreInv, NEW p \in Process, Alone(p), ~torn, ~InCall(p),
         NEW k \in Key, NEW v \in Val, PutVar(p, k, v)
  PROVE  Whole(p)' /\ Keyed(p)' /\ Written(p)' = Written(p)
<1>1. head.end >= head.start
  BY OfCaller, EndIsKept DEF PutVar
<1> DEFINE f == Found(Visible, k)
           c == [at |-> IF f = {} THEN "append" ELSE "unfree",
                 name |-> "put", key |-> k, val |-> v, found |-> f]
<1>2. call' = [call EXCEPT ![p] = c] /\ UNCHANGED <<head, chunks>>
  BY DEF PutVar
<1> HIDE DEF f
<1>3. call'[p] = c
  BY <1>2 DEF ShmInv
<1>4. call'[p].at \in {"append", "unfree"} /\ call'[p].key = k /\ call'[p].found = f
      /\ (call'[p].at = "append" <=> f = {})
  BY <1>3
<1> HIDE DEF c
<1> QED BY <1>1, <1>2, <1>4, BeginKeeps DEF f

LEMMA RemoveVarKeeps ==
  ASSUME Parameters, ShmInv, StoreInv, NEW p \in Process, Alone(p), ~torn, ~InCall(p),
         NEW k \in Key, RemoveVar(p, k)
  PROVE  Whole(p)' /\ Keyed(p)' /\ Written(p)' = Written(p)
<1>1. HeadTyped /\ Whole(p) /\ Found(Visible, k) # {}
  BY OfCaller DEF RemoveVar
<1>2. head.end >= head.start
  <2>1. chunks # <<>>
    BY <1>1, FoundType DEF HeadTyped
  <2> QED BY <1>1, <2>1 DEF Whole, HeadTyped
<1> DEFINE f == Found(Visible, k)
           c == [at |-> "unfree", name |-> "remove", key |-> k, found |-> f]
<1>3. call' = [call EXCEPT ![p] = c] /\ UNCHANGED <<head, chunks>>
  BY DEF RemoveVar
<1> HIDE DEF f
<1>4. call'[p] = c
  BY <1>3 DEF ShmInv
<1>5. call'[p].at = "unfree" /\ call'[p].key = k /\ call'[p].found = f
  BY <1>4
<1> HIDE DEF c
<1> QED BY <1>1, <1>2, <1>3, <1>5, BeginKeeps DEF f

\* A step on in an update, with its locals.
LEMMA UpdateGoesOn ==
  ASSUME ShmInv, NEW p \in Process, NEW place, Continue(p, place),
         call[p] \in PutCalls \cup RemoveCalls
  PROVE  /\ call'[p].at = place
         /\ call'[p].key = call[p].key
         /\ call'[p].name = call[p].name
         /\ call'[p].found = call[p].found
         /\ call[p] \in PutCalls => call'[p].val = call[p].val
<1> DEFINE c == [call[p] EXCEPT !.at = place]
<1>1. call'[p] = c
  BY DEF Continue, ShmInv
<1> QED BY <1>1 DEF PutCalls, RemoveCalls

LEMMA UnfreeKeeps ==
  ASSUME Parameters, ShmInv, StoreInv, NEW p \in Process, Alone(p), ~torn, Unfree(p)
  PROVE  Whole(p)' /\ Keyed(p)' /\ Written(p)' = Written(p)
<1>1. call[p].at = "unfree" /\ Continue(p, "shorten") /\ UNCHANGED chunks
      /\ head' = [head EXCEPT !.free = @ + VictimLength(p)]
  BY DEF Unfree, Reached
<1>2. HeadTyped /\ CallTyped(p) /\ Initializing(p) /\ Whole(p) /\ Keyed(p)
  BY OfCaller
<1>3. call[p] \in PutCalls \cup RemoveCalls
  BY <1>1, <1>2, Kinds DEF Removing
<1>4. call'[p].at = "shorten" /\ call'[p].key = call[p].key /\ call'[p].found = call[p].found
  BY <1>1, <1>3, UpdateGoesOn
<1>5. head'.start = head.start /\ head'.end = head.end /\ head'.magic = head.magic
  BY <1>1, <1>2 DEF HeadTyped
<1>6. head.magic /\ head.end >= head.start /\ ~ (head.end < head.start)
  BY <1>1, <1>2 DEF Initializing, Whole, Removing, HeadTyped
<1>7. Victim(p)' = Victim(p) /\ Victim(p) \in DOMAIN Written(p)
      /\ chunks[Victim(p)].key = call[p].key
  BY <1>1, <1>2, <1>4 DEF Victim, Keyed, Removing
<1>8. call'[p].at \notin Attaching /\ call'[p].at \notin {"move", "extend", "take", "append"}
      /\ call[p].at # "move"
  BY <1>1, <1>4 DEF Attaching
<1> QED BY <1>1, <1>2, <1>4, <1>5, <1>6, <1>7, <1>8, Steady

\* end has moved, and the walk is known to have gone to where it was.
LEMMA ShortenKeeps ==
  ASSUME Parameters, ShmInv, StoreInv, NEW p \in Process, Alone(p), ~torn, Shorten(p)
  PROVE  Whole(p)' /\ Keyed(p)' /\ Written(p)' = Written(p) /\ Victim(p)' = Victim(p)
<1>1. call[p].at = "shorten" /\ Continue(p, "move") /\ UNCHANGED chunks
      /\ head' = [head EXCEPT !.end = @ - VictimLength(p)]
  BY DEF Shorten, Reached
<1>2. HeadTyped /\ CallTyped(p) /\ Initializing(p) /\ Whole(p) /\ Keyed(p)
  BY OfCaller
<1>3. call[p] \in PutCalls \cup RemoveCalls
  BY <1>1, <1>2, Kinds DEF Removing
<1>4. call'[p].at = "move" /\ call'[p].key = call[p].key /\ call'[p].found = call[p].found
  BY <1>1, <1>3, UpdateGoesOn
<1>5. Victim(p)' = Victim(p) /\ VictimLength(p)' = VictimLength(p)
  BY <1>1, <1>4 DEF Victim, VictimLength
<1>6. VictimLength(p) \in Nat /\ Victim(p) \in Nat
  BY <1>1, <1>2, VictimType DEF Removing
<1> DEFINE l == VictimLength(p)
           b == head.start
<1>7. head'.start = b /\ head'.end = head.end - l /\ head'.magic = head.magic
      /\ head.end \in Int /\ b \in Nat /\ chunks \in Seq(Chunk)
  <2> HIDE DEF l
  <2> QED BY <1>1, <1>2, <1>6, SMTT(30) DEF HeadTyped, l
<1>8. Reach(p) = head.end /\ Reach(p)' = Reach(p)
  <2>1. Reach(p)' = head'.end + l
    BY <1>4, <1>5 DEF Reach
  <2>2. Reach(p) = head.end
    BY <1>1 DEF Reach
  <2>3. l \in Nat
    BY <1>6
  <2> HIDE DEF l
  <2> QED BY <1>7, <2>1, <2>2, <2>3
<1>9. Written(p)' = Written(p)
  BY <1>1, <1>7, <1>8 DEF Written
<1>10. head.magic /\ head.end >= b
  BY <1>1, <1>2 DEF Initializing, Whole, Removing
<1>11. PICK m \in 0 .. Len(chunks) : Position(b, chunks, m) = Reach(p)
                                     /\ DOMAIN Written(p) = 1 .. m
  BY <1>2, <1>10, WrittenIs
<1>12. Victim(p) \in 1 .. m /\ chunks[Victim(p)].key = call[p].key
  BY <1>1, <1>2, <1>11 DEF Keyed, Removing
<1>13. head'.end >= b
  <2>1. PICK v \in 1 .. m : v = Victim(p)
    BY <1>12
  <2>2. v \in 1 .. Len(chunks) /\ v - 1 \in 0 .. Len(chunks) /\ v \in 0 .. Len(chunks)
        /\ 0 \in 0 .. Len(chunks) /\ m \in 0 .. Len(chunks)
    BY <1>7, <1>11
  <2>3. /\ Position(b, chunks, 0) = b
        /\ \A i \in 0 .. Len(chunks) : Position(b, chunks, i) \in Nat
        /\ Position(b, chunks, v) = Position(b, chunks, v - 1) + Length[chunks[v].val]
        /\ \A i, j \in 0 .. Len(chunks) : i < j => Position(b, chunks, i) < Position(b, chunks, j)
    BY <1>7, <2>2, Positions
  <2>4. l = Length[chunks[v].val]
    BY <2>1 DEF VictimLength
  <2> DEFINE P(i) == Position(b, chunks, i)
  <2>5. P(v) = P(v - 1) + l /\ P(v) \in Nat /\ P(v - 1) \in Nat /\ P(m) \in Nat /\ P(0) = b
        /\ P(m) = head.end /\ l \in Nat
    BY <1>6, <1>8, <1>11, <2>2, <2>3, <2>4
  <2>6. v < m => P(v) < P(m)
    BY <2>2, <2>3
  <2>7. 0 < v - 1 => P(0) < P(v - 1)
    BY <2>2, <2>3
  <2>8. v = m => P(v) = P(m)
    OBVIOUS
  <2>9. 0 = v - 1 => P(0) = P(v - 1)
    OBVIOUS
  <2>10. v \in Nat /\ m \in Nat /\ v <= m /\ v >= 1
    BY <1>11, <2>1
  <2> DEFINE x == P(v - 1)
             y == P(v)
             z == P(m)
  <2>11. /\ y = x + l /\ x \in Nat /\ l \in Nat /\ z = head.end /\ head'.end = head.end - l
         /\ v < m => y < z
         /\ v = m => y = z
         /\ 0 < v - 1 => b < x
         /\ 0 = v - 1 => b = x
    BY <1>7, <2>5, <2>6, <2>7, <2>8, <2>9
  <2> HIDE DEF P, l, x, y, z, b
  <2>12. (v < m \/ v = m) /\ (0 < v - 1 \/ 0 = v - 1) /\ z \in Int /\ y \in Nat /\ b \in Nat
    BY <1>7, <2>10, <2>11
  <2>13. z >= y
    BY <2>11, <2>12
  <2>14. x >= b
    BY <2>11, <2>12
  <2> QED BY <1>7, <2>11, <2>13, <2>14
<1>14. Whole(p)'
  <2>1. ~ (~head'.magic \/ head'.end < head'.start)
    BY <1>7, <1>10, <1>13, <1>6
  <2>2. call'[p].at \notin Attaching
    BY <1>4 DEF Attaching
  <2>3. \E i \in 0 .. Len(chunks') : Position(head'.start, chunks', i) = Reach(p)'
    BY <1>1, <1>7, <1>8, <1>11
  <2>4. head'.end >= head'.start
    BY <1>7, <1>13
  <2> QED BY <2>1, <2>2, <2>3, <2>4 DEF Whole
<1>15. Keyed(p)'
  <2>1. Victim(p)' \in DOMAIN Written(p)' /\ chunks'[Victim(p)'].key = call'[p].key
    BY <1>1, <1>4, <1>5, <1>9, <1>11, <1>12
  <2> QED BY <1>2, <1>4, <1>9, <2>1 DEF Keyed
<1> QED BY <1>5, <1>9, <1>14, <1>15

LEMMA MoveKeeps ==
  ASSUME Parameters, ShmInv, StoreInv, NEW p \in Process, Alone(p), ~torn, Move(p), ~torn'
  PROVE  Whole(p)' /\ Keyed(p)' /\ Written(p)' = Without(Written(p), Victim(p))
<1> DEFINE w == Written(p)
           b == head.start
           v == Victim(p)
           t == Without(w, v)
<1>1. call[p].at = "move" /\ AfterMove(p) /\ UNCHANGED head
      /\ chunks' = Without(Before(head.end + VictimLength(p)), v)
  BY DEF Move, Tear, Reached
<1>2. HeadTyped /\ CallTyped(p) /\ Initializing(p) /\ Whole(p) /\ Keyed(p)
  BY OfCaller
<1>3. call[p] \in PutCalls \cup RemoveCalls
        /\ (call[p] \in RemoveCalls => call[p].name = "remove")
  BY <1>1, <1>2, Kinds DEF Removing
<1>4. call'[p].at \in {"none", "append"} /\ (call'[p].at = "append" => call'[p].key = call[p].key)
  <2>1. CASE call[p].name = "put"
    <3>1. Continue(p, "append")
      BY <1>1, <2>1 DEF AfterMove
    <3> QED BY <1>3, <3>1, UpdateGoesOn
  <2>2. CASE call[p].name # "put"
    <3>1. Return(p)
      BY <1>1, <2>2 DEF AfterMove
    <3> QED BY <3>1, Returned
  <2> QED BY <2>1, <2>2
<1>5. head.magic /\ head.end >= b /\ b \in Nat /\ head.end \in Int
  BY <1>1, <1>2 DEF Initializing, Whole, Removing, HeadTyped
<1>6. PICK m \in 0 .. Len(chunks) : Len(w) = m /\ DOMAIN w = 1 .. m /\ Position(b, w, m) = Reach(p)
  BY <1>2, <1>5, WrittenIs
<1>7. w \in Seq(Chunk) /\ \A i \in DOMAIN w : i \in DOMAIN chunks /\ w[i] = chunks[i]
  BY <1>2, WrittenIs
<1>8. chunks' = t
  BY <1>1, BeforeIsFront DEF Written, Reach
<1>9. v \in 1 .. m /\ w[v].key = call[p].key /\ Length[w[v].val] = VictimLength(p)
  BY <1>1, <1>2, <1>6, <1>7 DEF Keyed, Removing, VictimLength
<1>10. VictimLength(p) \in Nat
  BY <1>1, <1>2, VictimType DEF Removing
<1>11. t \in Seq(Chunk) /\ Len(t) = m - 1 /\ Position(b, t, m - 1) = head.end
  <2>1. v \in 1 .. Len(w)
    BY <1>6, <1>9
  <2>2. /\ t \in Seq(Chunk) /\ Len(t) = Len(w) - 1
        /\ Position(b, t, Len(w) - 1) = Position(b, w, Len(w)) - Length[w[v].val]
    BY <1>5, <1>7, <2>1, PositionsWithout
  <2>3. Reach(p) = head.end + VictimLength(p)
    BY <1>1 DEF Reach
  <2> HIDE DEF t, v, w, b
  <2>4. Position(b, t, m - 1) = Reach(p) - VictimLength(p)
    BY <1>6, <1>9, <2>2
  <2> QED BY <1>5, <1>6, <1>10, <2>2, <2>3, <2>4
<1>12. OncePerKey(t) /\ KeyIsNew(t, call[p].key)
  <2>1. OncePerKey(w)
    BY <1>2 DEF Keyed
  <2>2. v \in 1 .. Len(w)
    BY <1>6, <1>9
  <2> QED BY <1>7, <1>9, <2>1, <2>2, LookupWithout
<1> HIDE DEF t, v, w, b
<1>13. PICK n \in 0 .. Len(t) : n = m - 1 /\ n = Len(t) /\ Position(b, t, n) = head.end
  <2>1. Len(t) \in Nat /\ Len(t) \in 0 .. Len(t)
    BY <1>11
  <2> QED BY <1>11, <2>1
<1>14. Reach(p)' = head.end /\ head'.start = b
  BY <1>1, <1>4 DEF Reach, b
<1>15. Written(p)' = t
  <2>1. Front(b, t, Position(b, t, n)) = SubSeq(t, 1, n)
    BY <1>5, <1>11, <1>13, FrontIs
  <2>2. SubSeq(t, 1, n) = t
    BY <1>11, <1>13
  <2>3. Written(p)' = Front(head'.start, chunks', Reach(p)')
    BY DEF Written
  <2> QED BY <1>8, <1>13, <1>14, <2>1, <2>2, <2>3
<1>16. Whole(p)'
  <2>1. ~ (~head'.magic \/ head'.end < head'.start) /\ head'.end >= head'.start
    BY <1>1, <1>5 DEF b
  <2>2. call'[p].at \notin Attaching
    BY <1>4 DEF Attaching
  <2>3. \E i \in 0 .. Len(chunks') : Position(head'.start, chunks', i) = Reach(p)'
    BY <1>8, <1>13, <1>14
  <2> QED BY <2>1, <2>2, <2>3 DEF Whole
<1>17. Keyed(p)'
  BY <1>4, <1>12, <1>15 DEF Keyed, Removing
<1> QED BY <1>15, <1>16, <1>17 DEF t, v, w

LEMMA AppendKeeps ==
  ASSUME Parameters, ShmInv, StoreInv, NEW p \in Process, Alone(p), ~torn, Append_(p)
  PROVE  Whole(p)' /\ Keyed(p)' /\ Written(p)' = Written(p)
<1> DEFINE w == Written(p)
           b == head.start
           new == [key |-> call[p].key, val |-> call[p].val]
<1>1. call[p].at = "append" /\ Continue(p, "extend") /\ UNCHANGED head
      /\ chunks' = Append(Visible, new)
  BY DEF Append_, Reached
<1>2. HeadTyped /\ CallTyped(p) /\ Initializing(p) /\ Whole(p) /\ Keyed(p)
  BY OfCaller
<1>3. call[p] \in PutCalls
  BY <1>1, <1>2, Kinds DEF Appending
<1>4. call'[p].at = "extend" /\ call'[p].key = call[p].key /\ call'[p].val = call[p].val
  BY <1>1, <1>3, UpdateGoesOn
<1>5. new \in Chunk
  BY <1>3 DEF PutCalls, Chunk
<1>6. head.magic /\ head.end >= b /\ b \in Nat /\ head.end \in Int
  BY <1>1, <1>2 DEF Initializing, Whole, Appending, HeadTyped
<1>7. Reach(p) = head.end /\ Reach(p)' = head.end /\ head'.start = b
  BY <1>1, <1>4 DEF Reach
<1>8. PICK m \in 0 .. Len(chunks) : Len(w) = m /\ Position(b, w, m) = head.end
  BY <1>2, <1>6, <1>7, WrittenIs
<1>9. w \in Seq(Chunk) /\ OncePerKey(w) /\ KeyIsNew(w, call[p].key)
  BY <1>1, <1>2, WrittenIs DEF Keyed
<1>10. chunks' = Append(w, new)
  BY <1>1, VisibleIsWritten
<1> HIDE DEF w, b, new
<1> DEFINE t == Append(w, new)
<1>11. PICK n \in Nat : n = m /\ n <= Len(w) /\ n <= Len(t) /\ n \in 0 .. Len(t)
  BY <1>8, <1>9
<1>12. t \in Seq(Chunk) /\ (\A i \in 1 .. n : w[i] = t[i]) /\ SubSeq(t, 1, n) = w
  BY <1>5, <1>8, <1>9, <1>11
<1> HIDE DEF t
<1>13. Position(b, t, n) = head.end
  <2>1. \A i \in 0 .. n : Position(b, w, i) = Position(b, t, i)
    BY <1>6, <1>9, <1>11, <1>12, PositionsAlike
  <2>2. n \in 0 .. n
    OBVIOUS
  <2> QED BY <1>8, <1>11, <2>1, <2>2
<1>14. Written(p)' = w
  <2>1. Front(b, t, Position(b, t, n)) = SubSeq(t, 1, n)
    BY <1>6, <1>11, <1>12, FrontIs
  <2>2. Written(p)' = Front(head'.start, chunks', Reach(p)')
    BY DEF Written
  <2> QED BY <1>7, <1>10, <1>12, <1>13, <2>1, <2>2 DEF t
<1>15. Whole(p)'
  <2>1. ~ (~head'.magic \/ head'.end < head'.start) /\ head'.end >= head'.start
    BY <1>1, <1>6 DEF b
  <2>2. call'[p].at \notin Attaching
    BY <1>4 DEF Attaching
  <2>3. \E i \in 0 .. Len(chunks') : Position(head'.start, chunks', i) = Reach(p)'
    BY <1>7, <1>10, <1>11, <1>13 DEF t
  <2> QED BY <2>1, <2>2, <2>3 DEF Whole
<1>16. Keyed(p)'
  BY <1>4, <1>9, <1>10, <1>14 DEF Keyed, Removing, new
<1> QED BY <1>14, <1>15, <1>16 DEF w

\* end has gone over the new chunk.
LEMMA ExtendKeeps ==
  ASSUME Parameters, ShmInv, StoreInv, NEW p \in Process, Alone(p), ~torn, Extend(p)
  PROVE  /\ Whole(p)' /\ Keyed(p)' /\ KeyIsNew(Written(p), call[p].key)
         /\ Written(p)' = Append(Written(p), [key |-> call[p].key, val |-> call[p].val])
<1> DEFINE w == Written(p)
           b == head.start
           new == [key |-> call[p].key, val |-> call[p].val]
           l == Length[call[p].val]
<1>1. call[p].at = "extend" /\ Continue(p, "take") /\ UNCHANGED chunks
      /\ head' = [head EXCEPT !.end = @ + l]
  BY DEF Extend, Reached
<1>2. HeadTyped /\ CallTyped(p) /\ Initializing(p) /\ Whole(p) /\ Keyed(p)
  BY OfCaller
<1>3. call[p] \in PutCalls
  BY <1>1, <1>2, Kinds DEF Appending
<1>4. call'[p].at = "take" /\ call'[p].key = call[p].key /\ call'[p].val = call[p].val
  BY <1>1, <1>3, UpdateGoesOn
<1>5. new \in Chunk /\ l \in Nat
  BY <1>3 DEF PutCalls, Chunk, Parameters
<1>6. head.magic /\ head.end >= b /\ b \in Nat /\ head.end \in Int /\ chunks \in Seq(Chunk)
  BY <1>1, <1>2 DEF Initializing, Whole, Appending, HeadTyped
<1>7. head'.start = b /\ head'.magic = head.magic /\ head'.end = head.end + l
  <2> HIDE DEF l
  <2> QED BY <1>1, <1>2, <1>5 DEF HeadTyped
<1>8. Reach(p) = head.end /\ Reach(p)' = head.end + l
  BY <1>1, <1>4, <1>7 DEF Reach
<1>9. PICK m \in 0 .. Len(chunks) : Len(w) = m /\ Position(b, chunks, m) = head.end
  BY <1>2, <1>6, <1>8, WrittenIs
<1>10. w \in Seq(Chunk) /\ OncePerKey(w) /\ KeyIsNew(w, call[p].key) /\ chunks = Append(w, new)
  BY <1>1, <1>2, WrittenIs DEF Keyed
<1>11. new.key = call[p].key /\ Length[new.val] = l
  OBVIOUS
<1> HIDE DEF w, b, new, l
<1>12. PICK n \in 1 .. Len(chunks) : n = m + 1 /\ n = Len(chunks) /\ chunks[n] = new
                                     /\ n - 1 = m /\ n \in 0 .. Len(chunks)
  BY <1>5, <1>9, <1>10
<1>13. Position(b, chunks, n) = head.end + l
  <2>1. Position(b, chunks, n) = Position(b, chunks, n - 1) + Length[chunks[n].val]
    BY <1>6, Positions
  <2> QED BY <1>9, <1>11, <1>12, <2>1
<1>14. Written(p)' = chunks
  <2>1. Front(b, chunks, Position(b, chunks, n)) = SubSeq(chunks, 1, n)
    BY <1>6, <1>12, FrontIs
  <2>2. SubSeq(chunks, 1, n) = chunks
    BY <1>6, <1>12
  <2>3. Written(p)' = Front(head'.start, chunks', Reach(p)')
    BY DEF Written
  <2> QED BY <1>1, <1>7, <1>8, <1>13, <2>1, <2>2, <2>3
<1>15. Whole(p)'
  <2>1. ~ (~head'.magic \/ head'.end < head'.start) /\ head'.end >= head'.start
    BY <1>5, <1>6, <1>7
  <2>2. call'[p].at \notin Attaching
    BY <1>4 DEF Attaching
  <2>3. \E i \in 0 .. Len(chunks') : Position(head'.start, chunks', i) = Reach(p)'
    BY <1>1, <1>7, <1>8, <1>12, <1>13
  <2> QED BY <2>1, <2>2, <2>3 DEF Whole
<1>16. Keyed(p)'
  <2>1. OncePerKey(Append(w, new))
    BY <1>5, <1>10, <1>11, LookupAppend
  <2>2. n \in DOMAIN chunks /\ chunks[n] = [key |-> call'[p].key, val |-> call'[p].val]
    BY <1>4, <1>6, <1>12 DEF new
  <2> QED BY <1>4, <1>10, <1>14, <2>1, <2>2 DEF Keyed, Removing
<1> QED BY <1>10, <1>14, <1>15, <1>16 DEF w, new

LEMMA TakeKeeps ==
  ASSUME Parameters, ShmInv, StoreInv, NEW p \in Process, Alone(p), ~torn, Take(p)
  PROVE  Whole(p)' /\ Keyed(p)' /\ Written(p)' = Written(p)
<1>1. call[p].at = "take" /\ Return(p) /\ UNCHANGED chunks
      /\ head' = [head EXCEPT !.free = @ - Length[call[p].val]]
  BY DEF Take, Reached
<1>2. HeadTyped /\ CallTyped(p) /\ Initializing(p) /\ Whole(p) /\ Keyed(p)
  BY OfCaller
<1>3. call'[p].at = "none"
  BY <1>1, Returned
<1>4. head'.start = head.start /\ head'.end = head.end /\ head'.magic = head.magic
  BY <1>1, <1>2 DEF HeadTyped
<1>5. head.magic /\ ~ (head.end < head.start)
  BY <1>1, <1>2 DEF Initializing, Whole, Appending, HeadTyped
<1> QED BY <1>1, <1>2, <1>3, <1>4, <1>5, Steady DEF Attaching, Removing, Appending

-----------------------------------------------------------------------------
(* The other processes, deaths and new segments *)

\* As AloneStep.
LEMMA AloneKeeps ==
  ASSUME ShmInv, NEW p \in Process, Alone(p), NEW c, call' = [call EXCEPT ![p] = c],
         ~torn' => Whole(p)' /\ Keyed(p)'
  PROVE  StoreInv'
<1>1. \A q \in Process \ {p} : call'[q] = NoCall
  BY DEF ShmInv, Alone, InCall
<1>2. ASSUME ~torn', NEW q \in Process, Alone(q)' PROVE Whole(q)' /\ Keyed(q)'
  <2>1. CASE q = p
    BY <1>2, <2>1
  <2>2. CASE q # p
    <3>1. call'[p] = NoCall /\ call'[q] = NoCall
      BY <1>1, <1>2, <2>2 DEF Alone, InCall
    <3>2. call'[p].at = "none" /\ call'[q].at = "none"
      BY <3>1, NoCallIsAt
    <3>3. Whole(p)' /\ Keyed(p)'
      BY <1>2
    <3>4. Reach(q)' = Reach(p)'
      BY <3>2 DEF Reach
    <3>5. Written(q)' = Written(p)'
      BY <3>4 DEF Written
    <3>6. Whole(q)'
      BY <3>2, <3>3, <3>4 DEF Whole, Attaching, Removing, Appending
    <3>7. Keyed(q)'
      BY <3>2, <3>3, <3>5 DEF Keyed, Removing
    <3> QED BY <3>6, <3>7
  <2> QED BY <2>1, <2>2
<1> QED BY <1>2 DEF StoreInv

\* Who is alone in a call is where the step says.
LEMMA CallOf ==
  ASSUME ShmInv, NEW p \in Process, Begin(p) \/ Proceed(p) \/ Die(p)
  PROVE  call' = [call EXCEPT ![p] = call'[p]]
<1>1. call = [q \in Process |-> call[q]]
  BY DEF ShmInv
<1>2. CASE Begin(p)
  BY <1>1, <1>2 DEF Begin, Attach, PutVar, RemoveVar, UseTorn, RemoveSegment
<1>3. CASE Die(p)
  BY <1>1, <1>3 DEF Die, Return
<1>4. CASE Proceed(p)
  <2>1. CASE Check(p) \/ Initialize(p)
    BY <1>1, <2>1 DEF Check, Attached, Initialize, Write, InitializeFree, Return, Continue
  <2>2. CASE Unfree(p) \/ Shorten(p) \/ Move(p)
    BY <1>1, <2>2 DEF Unfree, Shorten, Move, AfterMove, Return, Continue
  <2>3. CASE Append_(p) \/ Extend(p) \/ Take(p)
    BY <1>1, <2>3 DEF Append_, Extend, Take, Return, Continue
  <2>4. CASE FindBack(p)
    BY <1>1, <2>4 DEF FindBack, Return
  <2> QED BY <1>4, <2>1, <2>2, <2>3, <2>4 DEF Proceed
<1> QED BY <1>2, <1>3, <1>4

LEMMA EmptyIsWhole ==
  ASSUME Parameters
  PROVE  0 \in 0 .. Len(<<>>) /\ Position(0, <<>>, 0) = 0 /\ OncePerKey(<<>>)
<1>1. <<>> \in Seq(Chunk) /\ 0 \in Nat /\ 0 \in 0 .. Len(<<>>)
  OBVIOUS
<1>2. Position(0, <<>>, 0) = 0
  BY <1>1, Positions
<1> QED BY <1>1, <1>2 DEF OncePerKey

LEMMA RemoveSegmentKeeps ==
  ASSUME Parameters, ShmInv, NEW p \in Process, ~InCall(p), RemoveSegment(p)
  PROVE  Whole(p)' /\ Keyed(p)' /\ Written(p)' = <<>>
<1>1. head' = NoHead /\ chunks' = <<>> /\ call'[p].at = "none"
  BY NoCallIsAt DEF RemoveSegment, Fresh, InCall
<1>2. head'.start = 0 /\ head'.end = 0 /\ head'.free = 0
  BY <1>1 DEF NoHead
<1>3. Reach(p)' = 0 /\ Written(p)' = <<>>
  BY <1>1, <1>2, FrontEmpty DEF Reach, Written
<1>4. Whole(p)'
  BY <1>1, <1>2, <1>3, EmptyIsWhole DEF Whole, Attaching, Removing, Appending
<1>5. Keyed(p)'
  BY <1>1, <1>3, EmptyIsWhole DEF Keyed, Removing
<1> QED BY <1>3, <1>4, <1>5

\* A removal of the last chunk has nothing to move: it is done when end is
\* before the chunk.
LEMMA NothingToMove ==
  ASSUME Parameters, ShmInv, StoreInv, NEW p \in Process, Alone(p), ~torn,
         call[p].at = "move", ~ (MoveLength(p) > 0)
  PROVE  LET t == Without(Written(p), Victim(p))
         IN  /\ t = Front(head.start, chunks, head.end) /\ OncePerKey(t)
             /\ \E n \in 0 .. Len(chunks) : Position(head.start, chunks, n) = head.end
<1> DEFINE w == Written(p)
           b == head.start
           v == Victim(p)
           t == Without(w, v)
           l == VictimLength(p)
           P(i) == Position(b, chunks, i)
<1>1. HeadTyped /\ CallTyped(p) /\ Initializing(p) /\ Whole(p) /\ Keyed(p)
  BY OfCaller
<1>2. head.end >= b /\ b \in Nat /\ head.end \in Int /\ chunks \in Seq(Chunk)
  BY <1>1 DEF Whole, Removing, HeadTyped
<1>3. PICK m \in 0 .. Len(chunks) : Len(w) = m /\ DOMAIN w = 1 .. m /\ P(m) = Reach(p)
  BY <1>1, <1>2, WrittenIs
<1>4. w \in Seq(Chunk) /\ OncePerKey(w) /\ \A i \in DOMAIN w : w[i] = chunks[i]
  BY <1>1, WrittenIs DEF Keyed
<1>5. v \in 1 .. m /\ l = Length[chunks[v].val]
  BY <1>1, <1>3 DEF Keyed, Removing, VictimLength
<1>6. Reach(p) = head.end + l /\ MoveLength(p) = head.end - P(v - 1)
  BY BehindIsPosition DEF Reach, MoveLength
<1> HIDE DEF w, l, v
<1>7. v \in 1 .. Len(chunks) /\ v - 1 \in 0 .. Len(chunks) /\ v \in 0 .. Len(chunks)
      /\ m \in Nat /\ v \in Nat /\ v <= m /\ v >= 1
  BY <1>2, <1>3, <1>5
<1>8. /\ P(v) = P(v - 1) + l /\ l \in Nat /\ P(v - 1) \in Nat /\ P(v) \in Nat /\ P(m) \in Nat
      /\ v < m => P(v) < P(m)
  BY <1>2, <1>3, <1>5, <1>7, Positions
<1>9. v = m /\ P(m - 1) = head.end
  <2> DEFINE x == P(v - 1)
             y == P(v)
             z == P(m)
             e == head.end
  <2>1. z = e + l /\ ~ (e - x > 0) /\ y = x + l /\ (v < m => y < z)
        /\ e \in Int /\ l \in Nat /\ x \in Nat
    BY <1>2, <1>3, <1>6, <1>8
  <2>2. v = m => y = z
    OBVIOUS
  <2> HIDE DEF x, y, z, e
  <2>3. ~ (v < m)
    BY <2>1
  <2>4. v = m
    BY <1>7, <2>3
  <2>5. x = e
    BY <2>1, <2>2, <2>4
  <2> QED BY <2>4, <2>5 DEF x, e
<1>10. m - 1 \in 0 .. Len(chunks) /\ m \in Nat /\ m <= Len(chunks) /\ Len(chunks) \in Nat
  BY <1>2, <1>3, <1>7, <1>9
<1>11. Front(b, chunks, head.end) = SubSeq(chunks, 1, m - 1)
  <2>1. Front(b, chunks, P(m - 1)) = SubSeq(chunks, 1, m - 1)
    BY <1>2, <1>10, FrontIs
  <2> QED BY <1>9, <2>1
<1>12. t = SubSeq(chunks, 1, m - 1)
  <2>1. t = [j \in 1 .. m - 1 |-> chunks[j]]
    <3>1. \A j \in 1 .. m - 1 : j < v /\ j \in DOMAIN w
      BY <1>3, <1>7, <1>9
    <3> QED BY <1>3, <1>4, <3>1 DEF Without
  <2>2. SubSeq(chunks, 1, m - 1) = [j \in 1 .. m - 1 |-> chunks[j]]
    BY <1>2, <1>10
  <2> QED BY <2>1, <2>2
<1>13. OncePerKey(t)
  <2>1. v \in 1 .. Len(w)
    BY <1>3, <1>5
  <2> QED BY <1>4, <2>1, LookupWithout
<1> QED BY <1>9, <1>10, <1>11, <1>12, <1>13 DEF w, v

\* Who dies and does not tear the segment leaves what is kept, for the next.
LEMMA DieKeeps ==
  ASSUME Parameters, ShmInv, StoreInv, NEW p \in Process, Alone(p), Die(p), ~torn'
  PROVE  Whole(p)' /\ Keyed(p)' /\ Written(p)' = Kept(p) /\ ~torn
<1>1. ~torn /\ UNCHANGED <<head, chunks>> /\ Return(p)
      /\ ~(Reached(p, "move") /\ MoveLength(p) > 0)
  BY DEF Die, Tear
<1>2. call'[p].at = "none"
  BY <1>1, Returned
<1>3. HeadTyped /\ Initializing(p) /\ Whole(p) /\ Keyed(p)
  BY <1>1, OfCaller
<1>4. CASE call[p].at # "move"
  <2>1. ~head'.magic \/ head.end < head.start => chunks = <<>> /\ head'.free = 0
    BY <1>1, <1>3 DEF Whole
  <2> QED BY <1>1, <1>2, <1>3, <1>4, <2>1, Steady DEF Attaching, Removing, Appending, Kept
<1>5. CASE call[p].at = "move"
  <2>1. ~ (MoveLength(p) > 0)
    BY <1>1, <1>5, NoCallIsAt DEF Reached, InCall
  <2>2. /\ Kept(p) = Front(head.start, chunks, head.end) /\ OncePerKey(Kept(p))
        /\ \E n \in 0 .. Len(chunks) : Position(head.start, chunks, n) = head.end
    BY <1>1, <1>5, <2>1, NothingToMove DEF Kept
  <2>3. Reach(p)' = head.end
    BY <1>1, <1>2 DEF Reach
  <2>4. Written(p)' = Kept(p)
    BY <1>1, <2>2, <2>3 DEF Written
  <2>5. head.magic /\ head.end >= head.start /\ ~ (head.end < head.start)
    BY <1>3, <1>5 DEF Initializing, Whole, Removing, HeadTyped
  <2>6. Whole(p)'
    BY <1>1, <1>2, <2>2, <2>3, <2>5 DEF Whole, Attaching, Removing, Appending
  <2>7. Keyed(p)'
    BY <1>2, <2>2, <2>4 DEF Keyed, Removing
  <2> QED BY <1>1, <2>4, <2>6, <2>7
<1> QED BY <1>4, <1>5

LEMMA StoreStays ==
  ASSUME ShmInv, StoreInv, UNCHANGED <<size, head, chunks, torn, call>>
  PROVE  StoreInv'
<1>1. ASSUME ~torn', NEW p \in Process, Alone(p)' PROVE Whole(p)' /\ Keyed(p)'
  <2>1. Whole(p) /\ Keyed(p)
    BY <1>1 DEF StoreInv, Alone, InCall
  <2>2. Victim(p)' = Victim(p) /\ VictimLength(p)' = VictimLength(p)
    BY DEF Victim, VictimLength
  <2>3. Reach(p)' = Reach(p)
    BY <2>2 DEF Reach
  <2>4. Written(p)' = Written(p)
    BY <2>3 DEF Written
  <2> QED BY <2>1, <2>2, <2>3, <2>4 DEF Whole, Keyed
<1> QED BY <1>1 DEF StoreInv

LEMMA ProceedTears ==
  ASSUME NEW p \in Process, Proceed(p) \/ Begin(p) \/ Die(p), torn, ShmInv
  PROVE  torn' \/ (RemoveSegment(p) /\ ~InCall(p))
<1>1. torn = TRUE
  BY DEF ShmInv, HeadTyped
<1>2. CASE Die(p)
  BY <1>1, <1>2 DEF Die, Tear
<1>3. CASE Begin(p)
  BY <1>1, <1>3 DEF Begin, Attach, UseTorn
<1>4. CASE Proceed(p)
  BY <1>1, <1>4 DEF Proceed, Check, Initialize, Write, InitializeFree, Unfree, Shorten, Move,
                    Tear, Append_, Extend, Take, FindBack
<1> QED BY <1>2, <1>3, <1>4

LEMMA InitStoreInv ==
  ASSUME Parameters, ShmInit PROVE StoreInv
<1> SUFFICES ASSUME NEW p \in Process PROVE Whole(p) /\ Keyed(p)
  BY DEF StoreInv
<1>1. head = NoHead /\ chunks = <<>> /\ call[p].at = "none"
  BY NoCallIsAt DEF ShmInit
<1>2. head.start = 0 /\ head.end = 0 /\ head.free = 0
  BY <1>1 DEF NoHead
<1>3. Reach(p) = 0 /\ Written(p) = <<>>
  BY <1>1, <1>2, FrontEmpty DEF Reach, Written
<1>4. Whole(p)
  BY <1>1, <1>2, <1>3, EmptyIsWhole DEF Whole, Attaching, Removing, Appending
<1>5. Keyed(p)
  BY <1>1, <1>3, EmptyIsWhole DEF Keyed, Removing
<1> QED BY <1>4, <1>5

LEMMA StepStoreInv ==
  ASSUME Parameters, ShmInv, StoreInv, [ShmNext]_shmVars PROVE StoreInv'
<1>1. ASSUME NEW p \in Process, Alone(p), Begin(p) PROVE StoreInv'
  <2>1. call' = [call EXCEPT ![p] = call'[p]] /\ ~InCall(p)
    BY <1>1, CallOf DEF Begin
  <2>2. ~torn' => Whole(p)' /\ Keyed(p)'
    <3>1. CASE torn
      BY <1>1, <2>1, <3>1, ProceedTears, RemoveSegmentKeeps
    <3>2. CASE ~torn
      BY <1>1, <2>1, <3>2, AttachKeeps, PutVarKeeps, RemoveVarKeeps, RemoveSegmentKeeps
         DEF Begin
    <3> QED BY <3>1, <3>2
  <2> QED BY <1>1, <2>1, <2>2, AloneKeeps
<1>2. ASSUME NEW p \in Process, Alone(p), Proceed(p) PROVE StoreInv'
  <2>1. call' = [call EXCEPT ![p] = call'[p]]
    BY <1>2, CallOf
  <2>2. ~torn' => Whole(p)' /\ Keyed(p)'
    <3>1. CASE torn
      <4>1. ~RemoveSegment(p) \/ InCall(p)
        BY <1>2 DEF Proceed, Check, Initialize, Write, InitializeFree, Unfree, Shorten, Move,
                    Append_, Extend, Take, FindBack, Reached
      <4> QED BY <1>2, <3>1, <4>1, ProceedTears
    <3>2. CASE ~torn
      <4>1. CASE Check(p) \/ Initialize(p)
        BY <1>2, <3>2, <4>1, CheckKeeps, FieldKeeps, EndsKeep DEF Initialize
      <4>2. CASE Unfree(p) \/ Shorten(p) \/ Move(p)
        BY <1>2, <3>2, <4>2, UnfreeKeeps, ShortenKeeps, MoveKeeps
      <4>3. CASE Append_(p) \/ Extend(p) \/ Take(p)
        BY <1>2, <3>2, <4>3, AppendKeeps, ExtendKeeps, TakeKeeps
      <4>4. ~FindBack(p)
        BY <3>2 DEF FindBack, Reached, ShmInv, CallTyped, Lost
      <4> QED BY <1>2, <4>1, <4>2, <4>3, <4>4 DEF Proceed
    <3> QED BY <3>1, <3>2
  <2> QED BY <1>2, <2>1, <2>2, AloneKeeps
<1>3. ASSUME NEW p \in Process, Detach(p) PROVE StoreInv'
  BY <1>3, StoreStays DEF Detach
<1>4. ASSUME NEW p \in Process, Die(p) PROVE StoreInv'
  <2>1. CASE InCall(p)
    <3>1. Alone(p)
      BY <2>1 DEF ShmInv, OneCall, Alone
    <3>2. call' = [call EXCEPT ![p] = call'[p]]
      BY <1>4, CallOf
    <3>3. ~torn' => Whole(p)' /\ Keyed(p)'
      BY <1>4, <3>1, DieKeeps
    <3> QED BY <3>1, <3>2, <3>3, AloneKeeps
  <2>2. CASE ~InCall(p)
    BY <1>4, <2>2, DieIdle, StoreStays
  <2> QED BY <2>1, <2>2
<1>5. CASE UNCHANGED shmVars
  BY <1>5, StoreStays DEF shmVars
<1> QED BY <1>1, <1>2, <1>3, <1>4, <1>5 DEF ShmNext

\* Every call and every death keeps the chunks whole up to end, and a key in
\* one of them at most.
THEOREM StoreInvariance ==
  ASSUME Parameters PROVE ShmSpec => []StoreInv
<1>1. ShmInit => StoreInv
  BY InitStoreInv
<1>2. ShmInv /\ StoreInv /\ [ShmNext]_shmVars => StoreInv'
  BY StepStoreInv
<1> QED BY <1>1, <1>2, ShmInvariance, PTL DEF ShmSpec

\* A walk over the chunks from start comes out at end, in whatever call a
\* process died before, but for a move that was broken off or overlapped.
THEOREM WalksEnd ==
  ASSUME Parameters, Process # {} PROVE ShmSpec => []WithinSegment
<1>1. ASSUME ShmInv, StoreInv, ~torn PROVE WalkEndsAtEnd
  <2> SUFFICES ASSUME ~Reaching({"move"}), head.end >= head.start
               PROVE  Behind(Visible, Len(Visible)) = head.end
    BY DEF WalkEndsAtEnd
  <2>1. PICK p \in Process : Alone(p)
    BY <1>1 DEF ShmInv, OneCall, Alone
  <2>2. HeadTyped /\ Whole(p)
    BY <1>1, <2>1, OfCaller
  <2>3. call[p].at # "move"
    BY NoCallIsAt DEF Reaching, Callers, InCall
  <2>4. PICK m \in 0 .. Len(chunks) : /\ Len(Written(p)) = m
                                      /\ Position(head.start, Written(p), m) = Reach(p)
    BY <2>2, WrittenIs
  <2>5. Visible = Written(p) /\ Reach(p) = head.end
    BY <2>3, VisibleIsWritten DEF Reach
  <2>6. Behind(Visible, m) = Position(head.start, Visible, m)
    BY BehindIsPosition
  <2> QED BY <2>4, <2>5, <2>6
<1>2. ShmInv /\ StoreInv => WithinSegment
  BY <1>1 DEF WithinSegment
<1> QED BY <1>2, ShmInvariance, StoreInvariance, PTL

-----------------------------------------------------------------------------
(* Its users *)

\* A process that attaches does not have the segment yet; one that updates it
\* has it.
Joined(p) ==
  /\ call[p].at \in Attaching => ~handle[p]
  /\ call[p].at \in Removing \cup Appending => handle[p]

UsersInv == \A p \in Process : Joined(p)

\* Two kinds of steps: of one process that is alone, and of none.
LEMMA UsersStep ==
  ASSUME ShmInv, UsersInv, [ShmNext]_shmVars
  PROVE  UsersInv'
<1>1. ASSUME NEW p \in Process, Alone(p), call' = [call EXCEPT ![p] = call'[p]],
             Joined(p)'
      PROVE  UsersInv'
  <2>1. \A q \in Process \ {p} : call'[q] = NoCall
    BY <1>1 DEF Alone, InCall, ShmInv
  <2>2. \A q \in Process \ {p} : call'[q].at = "none"
    BY <2>1, NoCallIsAt
  <2>3. \A q \in Process \ {p} : Joined(q)'
    BY <2>2 DEF Joined, Attaching, Removing, Appending
  <2> QED BY <1>1, <2>3 DEF UsersInv
<1>2. ASSUME NEW p \in Process, Alone(p), Begin(p) PROVE UsersInv'
  <2>1. call' = [call EXCEPT ![p] = call'[p]] /\ call[p] = NoCall /\ ~InCall(p)
    BY <1>2, CallOf DEF Begin, InCall
  <2>2. handle \in [Process -> BOOLEAN] /\ call = [q \in Process |-> call[q]]
    BY DEF ShmInv, HeadTyped
  <2>3. Joined(p)'
    <3>1. CASE RemoveSegment(p)
      BY <2>1, <2>2, <3>1, NoCallIsAt
         DEF RemoveSegment, Joined, Attaching, Removing, Appending
    <3>2. ASSUME NEW m, Attach(p, m) PROVE Joined(p)'
      <4>1. call'[p].at = "check" /\ ~handle'[p]
        BY <2>2, <3>2 DEF Attach
      <4> QED BY <4>1 DEF Joined, Attaching, Removing, Appending
    <3>3. ASSUME NEW k, NEW v, PutVar(p, k, v) \/ RemoveVar(p, k) PROVE Joined(p)'
      <4>1. call'[p].at \in {"append", "unfree"} /\ handle'[p]
        BY <2>2, <3>3 DEF PutVar, RemoveVar
      <4> QED BY <4>1 DEF Joined, Attaching, Removing, Appending
    <3>4. ASSUME UseTorn(p) PROVE Joined(p)'
      <4>1. call'[p].at = "lost"
        BY <2>2, <3>4, NoCallIsAt DEF UseTorn
      <4> QED BY <4>1 DEF Joined, Attaching, Removing, Appending
    <3> QED BY <1>2, <3>1, <3>2, <3>3, <3>4 DEF Begin
  <2> QED BY <1>1, <1>2, <2>1, <2>3
<1>3. ASSUME NEW p \in Process, Alone(p), Proceed(p) PROVE UsersInv'
  <2>1. call' = [call EXCEPT ![p] = call'[p]] /\ Joined(p) /\ p \in DOMAIN call
    BY <1>3, CallOf DEF UsersInv, ShmInv
  <2>2. CallTyped(p)
    BY DEF ShmInv
  <2>3. Joined(p)'
    <3>1. CASE Check(p) \/ Initialize(p)
      <4>1. call[p].at \in Attaching /\ ~handle[p]
        BY <2>1, <3>1 DEF Check, Initialize, Write, InitializeFree, Reached, Attaching, Joined
      <4>2. \/ handle'[p] = handle[p] /\ call'[p].at \in Attaching
            \/ call'[p].at = "none"
        <5>1. CASE Return(p)
          BY <2>1, <5>1, NoCallIsAt DEF Return
        <5>2. ASSUME NEW place \in Attaching, Continue(p, place), UNCHANGED handle
              PROVE  handle'[p] = handle[p] /\ call'[p].at \in Attaching
          <6>1. call[p] \in AttachCalls
            BY <2>2, <4>1, Kinds
          <6> QED BY <2>1, <5>2, <6>1 DEF Continue, AttachCalls
        <5> QED BY <3>1, <5>1, <5>2
               DEF Check, Initialize, Write, InitializeFree, Attached, Attaching
      <4> QED BY <4>1, <4>2 DEF Joined, Attaching, Removing, Appending
    <3>2. CASE Unfree(p) \/ Shorten(p) \/ Move(p) \/ Append_(p) \/ Extend(p) \/ Take(p)
      <4>1. handle[p] /\ handle' = handle
        BY <2>1, <3>2 DEF Unfree, Shorten, Move, Append_, Extend, Take, Reached, Joined,
                          Removing, Appending
      <4>2. call[p] \in PutCalls \cup RemoveCalls
        BY <2>2, <3>2, Kinds DEF Unfree, Shorten, Move, Append_, Extend, Take, Reached,
                          Removing, Appending
      <4>3. call'[p].at \notin Attaching
        <5>1. CASE Return(p)
          BY <2>1, <5>1, NoCallIsAt DEF Return, Attaching
        <5>2. ASSUME NEW place, Continue(p, place), place \notin Attaching
              PROVE  call'[p].at \notin Attaching
          BY <4>2, <5>2, UpdateGoesOn
        <5>3. CASE call' = [call EXCEPT ![p] = LostCall]
          BY <2>1, <5>3, NoCallIsAt DEF Attaching
        <5> QED BY <3>2, <5>1, <5>2, <5>3
               DEF Unfree, Shorten, Move, AfterMove, Append_, Extend, Take, Attaching
      <4> QED BY <4>1, <4>3 DEF Joined
    <3>3. CASE FindBack(p)
      <4>1. call'[p].at = "none"
        BY <3>3, Returned DEF FindBack
      <4> QED BY <4>1 DEF Joined, Attaching, Removing, Appending
    <3> QED BY <1>3, <3>1, <3>2, <3>3 DEF Proceed
  <2> QED BY <1>1, <1>3, <2>1, <2>3
<1>4. ASSUME NEW p \in Process, ~InCall(p), UNCHANGED call,
             handle' = [handle EXCEPT ![p] = FALSE]
      PROVE  UsersInv'
  <2>1. call[p].at = "none"
    BY <1>4, NoCallIsAt DEF InCall
  <2>2. \A q \in Process \ {p} : handle'[q] = handle[q]
    BY <1>4 DEF ShmInv, HeadTyped
  <2> QED BY <1>4, <2>1, <2>2 DEF UsersInv, Joined, Attaching, Removing, Appending
<1>5. ASSUME NEW p \in Process, Die(p) PROVE UsersInv'
  <2>1. CASE InCall(p)
    <3>1. Alone(p)
      BY <2>1 DEF ShmInv, OneCall, Alone
    <3>2. call' = [call EXCEPT ![p] = call'[p]] /\ call'[p].at = "none"
      BY <1>5, CallOf, NoCallIsAt DEF Die, Return, ShmInv
    <3>3. Joined(p)'
      BY <3>2 DEF Joined, Attaching, Removing, Appending
    <3> QED BY <1>1, <3>1, <3>2, <3>3
  <2>2. CASE ~InCall(p)
    <3>1. call' = call
      BY <1>5, <2>2, DieIdle
    <3> QED BY <1>4, <1>5, <2>2, <3>1 DEF Die
  <2> QED BY <2>1, <2>2
<1>6. ASSUME NEW p \in Process, ~InCall(p), Detach(p) PROVE UsersInv'
  BY <1>4, <1>6 DEF Detach
<1>7. CASE UNCHANGED shmVars
  BY <1>7 DEF shmVars, UsersInv, Joined
<1> QED BY <1>2, <1>3, <1>5, <1>6, <1>7 DEF ShmNext

LEMMA UsersInvariance ==
  ASSUME Parameters PROVE ShmSpec => []UsersInv
<1>1. ShmInit => UsersInv
  BY NoCallIsAt DEF ShmInit, UsersInv, Joined, Attaching, Removing, Appending
<1> QED BY <1>1, UsersStep, ShmInvariance, PTL DEF ShmSpec

-----------------------------------------------------------------------------
(* The store that the segment is *)

LEMMA ContentsIs == \A p \in Process : Alone(p) => Contents = Kept(p)
<1> SUFFICES ASSUME NEW p \in Process, Alone(p) PROVE Contents = Kept(p)
  OBVIOUS
<1>1. CASE call[p].at = "move"
  <2>1. Callers = {p}
    BY <1>1, NoCallIsAt DEF Callers, Alone, InCall
  <2>2. Reaching({"move"}) /\ (CHOOSE q \in Callers : TRUE) = p
    BY <1>1, <2>1 DEF Reaching
  <2>3. Before(head.end + VictimLength(p)) = Written(p)
    BY <1>1, BeforeIsFront DEF Written, Reach
  <2> DEFINE c == CHOOSE q \in Callers : TRUE
  <2>4. Contents = Without(Before(head.end + VictimLength(c)), Victim(c))
    BY <2>2 DEF Contents
  <2>5. c = p
    BY <2>2
  <2> HIDE DEF c
  <2>6. Contents = Without(Before(head.end + VictimLength(p)), Victim(p))
    BY <2>4, <2>5
  <2> QED BY <1>1, <2>3, <2>6 DEF Kept
<1>2. CASE call[p].at # "move"
  <2>1. ~Reaching({"move"})
    BY <1>2, NoCallIsAt DEF Reaching, Callers, Alone, InCall
  <2> QED BY <1>2, <2>1, VisibleIsWritten DEF Contents, Kept
<1> QED BY <1>1, <1>2

ContentRight ==
  /\ torn => Content = Store!Unknown
  /\ ~torn => \A p \in Process : Alone(p) => Content = [k \in Key |-> Lookup(Kept(p), k)]

LEMMA ContentIs == ContentRight
<1>1. torn => Content = Store!Unknown
  BY DEF Content, Store!Unknown, Store!NoValue
<1>2. ASSUME ~torn, NEW p \in Process, Alone(p)
      PROVE  Content = [k \in Key |-> Lookup(Kept(p), k)]
  <2>1. Contents = Kept(p)
    BY <1>2, ContentsIs
  <2>2. \A k : Value(k) = Lookup(Kept(p), k)
    BY <2>1 DEF Value, Lookup
  <2> QED BY <1>2, <2>2 DEF Content
<1> QED BY <1>1, <1>2 DEF ContentRight

LEMMA KnownIs ==
  Key # {} => (~torn <=> Store!Known)
<1>1. ASSUME Key # {}, ~torn PROVE Store!Known
  <2>1. DOMAIN Content = Key /\ DOMAIN Store!Unknown = {}
    BY <1>1 DEF Content, Store!Unknown
  <2> QED BY <1>1, <2>1 DEF Store!Known
<1> QED BY <1>1, ContentIs DEF ContentRight, Store!Known

UpdatingRight(p) ==
  /\ call[p] \in PutCalls => Updating = {Store!Put(p, call[p].key, call[p].val)}
  /\ call[p] \in RemoveCalls => Updating = {Store!Remove(p, call[p].key)}
  /\ call[p] \notin PutCalls \cup RemoveCalls => Updating = {}

UpdatesRight == ShmInv => \A p \in Process : Alone(p) => UpdatingRight(p)

LEMMA UpdatingIs == UpdatesRight
<1> SUFFICES ASSUME ShmInv, NEW p \in Process, Alone(p) PROVE UpdatingRight(p)
  BY DEF UpdatesRight
<1>1. CASE call[p] \in PutCalls
  <2>1. call[p].name = "put" /\ "name" \in DOMAIN call[p] /\ InCall(p)
    BY <1>1 DEF PutCalls, InCall, NoCall
  <2>2. {q \in Callers : "name" \in DOMAIN call[q]} = {p}
    BY <2>1 DEF Callers, Alone
  <2> HIDE DEF Callers
  <2>3. Updating = {Store!Put(p, call[p].key, call[p].val)}
    BY <2>1, <2>2 DEF Updating, Store!Put
  <2> QED BY <1>1, <2>1, <2>3 DEF RemoveCalls, UpdatingRight
<1>2. CASE call[p] \in RemoveCalls
  <2>1. call[p].name = "remove" /\ "name" \in DOMAIN call[p] /\ InCall(p)
    BY <1>2 DEF RemoveCalls, InCall, NoCall
  <2>2. {q \in Callers : "name" \in DOMAIN call[q]} = {p}
    BY <2>1 DEF Callers, Alone
  <2>3. Updating = {Store!Remove(p, call[p].key)}
    BY <2>1, <2>2 DEF Updating, Store!Remove, Store!NoValue
  <2> QED BY <1>2, <2>1, <2>3 DEF PutCalls, UpdatingRight
<1>3. CASE call[p] \notin PutCalls \cup RemoveCalls
  <2>1. call[p] \in {NoCall, LostCall} \cup AttachCalls
    BY <1>3 DEF ShmInv, CallTyped
  <2>2. "name" \notin DOMAIN call[p]
    BY <2>1 DEF NoCall, LostCall, AttachCalls
  <2>3. {q \in Callers : "name" \in DOMAIN call[q]} = {}
    BY <2>2 DEF Callers, Alone
  <2>4. Updating = {}
    BY <2>3 DEF Updating
  <2> QED BY <1>3, <2>4 DEF UpdatingRight
<1> QED BY <1>1, <1>2, <1>3 DEF UpdatingRight

-----------------------------------------------------------------------------
(* Every step of the segment is one of the store, or none *)

StoreStep == Store!Next \/ UNCHANGED Store!vars

LEMMA NothingIsSeen ==
  ASSUME Content' = Content, Users' = Users, Updating' = Updating
  PROVE  StoreStep
BY DEF StoreStep, Store!vars

LEMMA AfterStep ==
  ASSUME ShmInv, ShmInv', NEW p \in Process, Alone(p), Begin(p) \/ Proceed(p) \/ Die(p)
  PROVE  /\ call' = [call EXCEPT ![p] = call'[p]]
         /\ Alone(p)' /\ ContentRight' /\ UpdatingRight(p)'
         /\ ContentRight /\ UpdatingRight(p)
<1>1. call' = [call EXCEPT ![p] = call'[p]]
  BY CallOf
<1>2. Alone(p)'
  BY <1>1 DEF Alone, InCall, ShmInv
<1>3. UpdatesRight'
  BY UpdatingIs, PTL
<1>4. ContentRight'
  BY ContentIs, PTL
<1> QED BY <1>1, <1>2, <1>3, <1>4, ContentIs, UpdatingIs DEF UpdatesRight

\* What is written stays as it is.
LEMMA ContentStays ==
  ASSUME NEW p \in Process, Alone(p), Alone(p)', ContentRight, ContentRight', torn' = torn,
         ~torn => Kept(p)' = Kept(p)
  PROVE  Content' = Content
BY DEF ContentRight, Store!Unknown, Store!NoValue

\* The update goes on.
LEMMA UpdateStays ==
  ASSUME ShmInv, NEW p \in Process, UpdatingRight(p), UpdatingRight(p)', NEW place,
         Continue(p, place),
         \/ call[p] \in PutCalls /\ place \in Removing \cup Appending
         \/ call[p] \in RemoveCalls /\ place \in Removing
  PROVE  Updating' = Updating
<1>1. call'[p].key = call[p].key /\ (call[p] \in PutCalls => call'[p].val = call[p].val)
  BY UpdateGoesOn
<1>2. CASE call[p] \in PutCalls
  <2>1. call'[p] \in PutCalls
    BY <1>2, Continued DEF PutCalls, RemoveCalls
  <2> QED BY <1>1, <1>2, <2>1 DEF UpdatingRight, Store!Put
<1>3. CASE call[p] \in RemoveCalls
  <2>1. call'[p] \in RemoveCalls
    BY <1>3, Continued DEF PutCalls, RemoveCalls
  <2> QED BY <1>1, <1>3, <2>1 DEF UpdatingRight, Store!Remove
<1> QED BY <1>2, <1>3

LEMMA NoUpdate ==
  ASSUME NEW p \in Process, UpdatingRight(p), call[p].at \in Attaching \cup {"none", "lost"}
  PROVE  Updating = {}
BY DEF UpdatingRight, PutCalls, RemoveCalls, Attaching, Appending, Removing

\* To attach is to become a user.
LEMMA AttachIsJoin ==
  ASSUME Parameters, ShmInv, StoreInv, UsersInv, ShmInv', Key # {}, NEW p \in Process, Alone(p),
         ~torn, (~InCall(p) /\ \E m \in Memsizes : Attach(p, m)) \/ Check(p) \/ Initialize(p)
  PROVE  StoreStep
<1> USE DEF Attaching
<1>1. ContentRight /\ ContentRight' /\ UpdatingRight(p) /\ UpdatingRight(p)' /\ Alone(p)'
      /\ call' = [call EXCEPT ![p] = call'[p]]
  BY AfterStep DEF Begin, Proceed
<1>2. /\ Written(p)' = Written(p) /\ ~torn'
      /\ call[p].at \in Attaching \cup {"none"} /\ call'[p].at \in Attaching \cup {"none"}
  <2>1. CASE ~InCall(p) /\ \E m \in Memsizes : Attach(p, m)
    <3>1. PICK m \in Memsizes : Attach(p, m)
      BY <2>1
    <3>2. Written(p)' = Written(p)
      BY <2>1, <3>1, AttachKeeps
    <3> QED BY <2>1, <3>1, <3>2, NoCallIsAt DEF Attach, InCall, ShmInv
  <2>2. CASE Check(p) \/ Initialize(p)
    <3>1. Written(p)' = Written(p)
      BY <2>2, CheckKeeps, FieldKeeps, EndsKeep DEF Initialize
    <3>2. call[p].at \in Attaching /\ ~torn'
      BY <2>2 DEF Check, Initialize, Write, InitializeFree, Reached
    <3>3. call[p] \in AttachCalls
      BY <3>2, Kinds DEF ShmInv
    <3>4. call'[p].at \in Attaching \cup {"none"}
      <4>1. CASE Return(p)
        BY <4>1, Returned
      <4>2. ASSUME NEW place \in Attaching, Continue(p, place) PROVE call'[p].at \in Attaching
        BY <3>3, <4>2, Continued
      <4> QED BY <2>2, <4>1, <4>2 DEF Check, Initialize, Write, InitializeFree, Attached
    <3> QED BY <3>1, <3>2, <3>4
  <2> QED BY <2>1, <2>2
<1>3. Kept(p)' = Kept(p)
  BY <1>2 DEF Kept
<1>4. Content' = Content
  BY <1>1, <1>2, <1>3, ContentStays DEF ShmInv, HeadTyped
<1>5. Updating = {} /\ Updating' = {}
  <2>1. Updating = {}
    BY <1>1, <1>2, NoUpdate
  <2>2. Updating' = {}
    BY <1>1, <1>2 DEF UpdatingRight, PutCalls, RemoveCalls, Appending, Removing
  <2> QED BY <2>1, <2>2
<1>6. CASE UNCHANGED handle
  <2>1. Users' = Users
    BY <1>6 DEF Users
  <2> QED BY <1>4, <1>5, <2>1, NothingIsSeen
<1>7. CASE handle' = [handle EXCEPT ![p] = TRUE]
  <2>1. Users' = Users \cup {p}
    BY <1>7 DEF Users, ShmInv, HeadTyped
  <2>2. Store!Join
    BY <1>4, <1>5, <2>1, KnownIs DEF Store!Join
  <2> QED BY <2>2 DEF StoreStep, Store!Next
<1> QED BY <1>6, <1>7 DEF Attach, Check, Initialize, Write, InitializeFree, Attached

\* The beginning of an update.
LEMMA UpdateBegins ==
  ASSUME Parameters, ShmInv, StoreInv, ShmInv', NEW p \in Process, Alone(p), ~torn, ~InCall(p),
         NEW k \in Key,
         RemoveVar(p, k) \/ \E v \in Val : PutVar(p, k, v)
  PROVE  StoreStep
<1>1. ContentRight /\ ContentRight' /\ UpdatingRight(p) /\ UpdatingRight(p)' /\ Alone(p)'
  BY AfterStep DEF Begin
<1>2. call[p].at = "none" /\ UNCHANGED <<torn, handle>> /\ handle[p]
  BY NoCallIsAt DEF InCall, RemoveVar, PutVar
<1>3. Written(p)' = Written(p)
  BY PutVarKeeps, RemoveVarKeeps
<1>4. call'[p].at \in {"append", "unfree"}
  BY DEF RemoveVar, PutVar, ShmInv
<1>5. Content' = Content
  BY <1>1, <1>2, <1>3, <1>4, ContentStays DEF Kept
<1>6. Updating = {}
  BY <1>1, <1>2, NoUpdate
<1>7. Updating' \in {{Store!Put(p, k, v)} : v \in Val} \cup {{Store!Remove(p, k)}}
  <2>1. CallTyped(p)' /\ call'[p] \in PutCalls \cup RemoveCalls
    BY <1>4 DEF ShmInv, CallTyped, NoCall, LostCall, AttachCalls, Attaching
  <2>2. call'[p].key = k
    BY DEF RemoveVar, PutVar, ShmInv
  <2>3. CASE call'[p] \in PutCalls
    <3>1. call'[p].val \in Val
      BY <2>3 DEF PutCalls
    <3> QED BY <1>1, <2>2, <2>3, <3>1 DEF UpdatingRight
  <2>4. CASE call'[p] \in RemoveCalls
    BY <1>1, <2>2, <2>4 DEF UpdatingRight
  <2> QED BY <2>1, <2>3, <2>4
<1>8. Users' = Users /\ p \in Users
  BY <1>2 DEF Users
<1>9. Store!Begin
  BY <1>5, <1>6, <1>7, <1>8, KnownIs DEF Store!Begin
<1> QED BY <1>9 DEF StoreStep, Store!Next

\* What cannot be seen: a field of the head, and a chunk behind end.
LEMMA Unseen ==
  ASSUME Parameters, ShmInv, StoreInv, ShmInv', NEW p \in Process, Alone(p), ~torn,
         Unfree(p) \/ Append_(p)
  PROVE  StoreStep
<1> USE DEF Removing, Appending
<1>1. ContentRight /\ ContentRight' /\ UpdatingRight(p) /\ UpdatingRight(p)' /\ Alone(p)'
  BY AfterStep DEF Proceed
<1>2. Written(p)' = Written(p) /\ UNCHANGED <<torn, handle>>
  BY UnfreeKeeps, AppendKeeps DEF Unfree, Append_
<1>3. /\ call[p].at \in {"unfree", "append"}
      /\ call[p] \in PutCalls \cup RemoveCalls
      /\ call[p].at = "append" => call[p] \in PutCalls
  BY Kinds DEF ShmInv, Unfree, Append_, Reached
<1>4. PICK place \in {"shorten", "extend"} :
        Continue(p, place) /\ (place = "extend" => call[p] \in PutCalls)
  BY <1>3 DEF Unfree, Append_, Reached
<1>5. call'[p].at = place
  BY <1>3, <1>4, UpdateGoesOn
<1>6. Content' = Content
  BY <1>1, <1>2, <1>3, <1>5, ContentStays DEF Kept
<1>7. Updating' = Updating
  BY <1>1, <1>3, <1>4, UpdateStays
<1>8. Users' = Users
  BY <1>2 DEF Users
<1> QED BY <1>6, <1>7, <1>8, NothingIsSeen

\* What an update is about.
LEMMA UpdateIs ==
  ASSUME ShmInv, NEW p \in Process, UpdatingRight(p), call[p] \in PutCalls \cup RemoveCalls
  PROVE  \E u : /\ Updating = {u} /\ u.by = p /\ u.key = call[p].key /\ call[p].key \in Key
                /\ call[p] \in PutCalls =>
                     call[p].name = "put" /\ u.name = "put" /\ u.val = call[p].val
                /\ call[p] \in RemoveCalls => call[p].name = "remove" /\ u.val = Store!NoValue
<1>1. CASE call[p] \in PutCalls
  <2>1. call[p] \notin RemoveCalls /\ call[p].key \in Key /\ call[p].name = "put"
    BY <1>1 DEF PutCalls, RemoveCalls
  <2> WITNESS Store!Put(p, call[p].key, call[p].val)
  <2> QED BY <1>1, <2>1 DEF UpdatingRight, Store!Put
<1>2. CASE call[p] \in RemoveCalls
  <2>1. call[p] \notin PutCalls /\ call[p].key \in Key /\ call[p].name = "remove"
    BY <1>2 DEF PutCalls, RemoveCalls
  <2> WITNESS Store!Remove(p, call[p].key)
  <2> QED BY <1>2, <2>1 DEF UpdatingRight, Store!Remove
<1> QED BY <1>1, <1>2

\* The chunk to be removed is the only one with its key.
LEMMA VictimIsIt ==
  ASSUME Parameters, ShmInv, StoreInv, NEW p \in Process, Alone(p), ~torn,
         call[p].at \in Removing
  PROVE  LET w == Written(p)
             t == Without(w, Victim(p))
         IN  /\ Lookup(t, call[p].key) = "no value"
             /\ \A k : k # call[p].key => Lookup(t, k) = Lookup(w, k)
<1> DEFINE w == Written(p)
<1>1. HeadTyped /\ Whole(p) /\ Keyed(p)
  BY OfCaller
<1>2. w \in Seq(Chunk) /\ \A i \in DOMAIN w : w[i] = chunks[i]
  BY <1>1, WrittenIs
<1>3. OncePerKey(w) /\ Victim(p) \in DOMAIN w /\ chunks[Victim(p)].key = call[p].key
  BY <1>1 DEF Keyed
<1> HIDE DEF w
<1>4. Victim(p) \in 1 .. Len(w) /\ w[Victim(p)].key = call[p].key
  BY <1>2, <1>3
<1>5. /\ KeyIsNew(Without(w, Victim(p)), w[Victim(p)].key)
      /\ \A k : k # w[Victim(p)].key => Lookup(Without(w, Victim(p)), k) = Lookup(w, k)
  BY <1>2, <1>3, <1>4, LookupWithout
<1>6. Lookup(Without(w, Victim(p)), call[p].key) = "no value"
  BY <1>4, <1>5, LookupNew
<1> QED BY <1>4, <1>5, <1>6 DEF w

\* A value is gone when end is before it, or the chunks have moved up.
LEMMA ShortenIsErase ==
  ASSUME Parameters, ShmInv, StoreInv, ShmInv', Key # {}, NEW p \in Process, Alone(p), ~torn,
         Shorten(p)
  PROVE  StoreStep
<1>1. ContentRight /\ ContentRight' /\ UpdatingRight(p) /\ UpdatingRight(p)' /\ Alone(p)'
  BY AfterStep DEF Proceed
<1>2. /\ Written(p)' = Written(p) /\ Victim(p)' = Victim(p) /\ UNCHANGED <<torn, handle>>
      /\ call[p].at = "shorten" /\ Continue(p, "move")
  BY ShortenKeeps DEF Shorten, Reached
<1>3. call[p] \in PutCalls \cup RemoveCalls
  BY <1>2, Kinds DEF ShmInv, Removing
<1>4. Kept(p)' = Without(Written(p), Victim(p)) /\ Kept(p) = Written(p)
  BY <1>2, <1>3, UpdateGoesOn DEF Kept
<1>5. Content' = [k \in Key |-> Lookup(Kept(p)', k)] /\ Content = [k \in Key |-> Lookup(Kept(p), k)]
  BY <1>1, <1>2 DEF ContentRight
<1>6. /\ Lookup(Kept(p)', call[p].key) = "no value"
      /\ \A k : k # call[p].key => Lookup(Kept(p)', k) = Lookup(Kept(p), k)
  BY <1>2, <1>4, VictimIsIt DEF Removing
<1>7. Content' = [Content EXCEPT ![call[p].key] = Store!NoValue]
  BY <1>5, <1>6 DEF Store!NoValue
<1>8. Updating' = Updating
  BY <1>1, <1>2, <1>3, UpdateStays DEF Removing
<1>9. PICK u : Updating = {u} /\ u.key = call[p].key
  BY <1>1, <1>3, UpdateIs
<1>10. Users' = Users
  BY <1>2 DEF Users
<1>11. Store!Erase
  BY <1>7, <1>8, <1>9, <1>10, KnownIs DEF Store!Erase
<1> QED BY <1>11 DEF StoreStep, Store!Next

\* When a call returns, its update is over.
LEMMA UpdateEnds ==
  ASSUME ShmInv, UsersInv, NEW p \in Process, UpdatingRight(p), UpdatingRight(p)', Return(p),
         call[p] \in PutCalls \cup RemoveCalls, UNCHANGED handle, Content' = Content,
         \/ call[p] \in PutCalls /\ Content[call[p].key] = call[p].val
         \/ call[p] \in RemoveCalls /\ Content[call[p].key] = Store!NoValue
  PROVE  StoreStep
<1>1. PICK u : /\ Updating = {u} /\ u.by = p /\ u.key = call[p].key
               /\ call[p] \in PutCalls => u.val = call[p].val
               /\ call[p] \in RemoveCalls => u.val = Store!NoValue
  BY UpdateIs
<1>2. Updating' = {}
  BY Returned DEF UpdatingRight, PutCalls, RemoveCalls, Appending, Removing
<1>3. handle[p] /\ Users' = Users /\ p \in Users
  <2>1. call[p].at \in Removing \cup Appending
    BY DEF PutCalls, RemoveCalls
  <2> QED BY <2>1 DEF UsersInv, Joined, Users
<1>4. Store!End
  BY <1>1, <1>2, <1>3 DEF Store!End
<1> QED BY <1>4 DEF StoreStep, Store!Next

LEMMA MoveIsEnd ==
  ASSUME Parameters, ShmInv, StoreInv, UsersInv, ShmInv', Key # {}, NEW p \in Process, Alone(p),
         ~torn, Move(p), ~torn'
  PROVE  StoreStep
<1>1. ContentRight /\ ContentRight' /\ UpdatingRight(p) /\ UpdatingRight(p)' /\ Alone(p)'
  BY AfterStep DEF Proceed
<1>2. Written(p)' = Without(Written(p), Victim(p)) /\ call[p].at = "move" /\ UNCHANGED handle
      /\ AfterMove(p)
  BY MoveKeeps DEF Move, Tear, Reached
<1>3. call[p] \in PutCalls \cup RemoveCalls /\ Kept(p) = Without(Written(p), Victim(p))
  BY <1>2, Kinds DEF ShmInv, Removing, Kept
<1>4. \/ call[p] \in PutCalls /\ Continue(p, "append")
      \/ call[p] \in RemoveCalls /\ Return(p)
  <2>1. CallTyped(p)
    BY DEF ShmInv
  <2>2. /\ call[p] \in PutCalls => call[p].name = "put"
        /\ call[p] \in RemoveCalls => call[p].name = "remove"
    BY <2>1, Kinds
  <2> QED BY <1>2, <1>3, <2>2 DEF AfterMove
<1>5. call'[p].at \in {"append", "none"}
  BY <1>3, <1>4, UpdateGoesOn, Returned
<1>6. Kept(p)' = Kept(p)
  BY <1>2, <1>3, <1>5 DEF Kept
<1>7. Content' = Content
  BY <1>1, <1>6, ContentStays DEF ShmInv, HeadTyped
<1>8. CASE Return(p) /\ call[p] \in RemoveCalls
  <2>1. Content[call[p].key] = Store!NoValue
    <3>1. Lookup(Kept(p), call[p].key) = "no value"
      BY <1>2, <1>3, VictimIsIt DEF Removing
    <3>2. call[p].key \in Key
      BY <1>8 DEF RemoveCalls
    <3>3. Content = [k \in Key |-> Lookup(Kept(p), k)]
      BY <1>1 DEF ContentRight
    <3> QED BY <3>1, <3>2, <3>3 DEF Store!NoValue
  <2> QED BY <1>1, <1>2, <1>7, <1>8, <2>1, UpdateEnds
<1>9. CASE Continue(p, "append") /\ call[p] \in PutCalls
  <2>1. Updating' = Updating
    BY <1>1, <1>9, UpdateStays DEF Appending
  <2>2. Users' = Users
    BY <1>2 DEF Users
  <2> QED BY <1>7, <2>1, <2>2, NothingIsSeen
<1> QED BY <1>4, <1>8, <1>9

\* A move of chunks that overlap: of the store nothing is known.
LEMMA TearIsGarble ==
  ASSUME Parameters, ShmInv, ShmInv', NEW p \in Process, Alone(p), ~torn, Move(p), torn'
  PROVE  StoreStep
<1>1. ContentRight' /\ UpdatingRight(p) /\ UpdatingRight(p)'
  BY AfterStep DEF Proceed
<1>2. call[p].at = "move" /\ UNCHANGED handle /\ call' = [call EXCEPT ![p] = LostCall]
  BY DEF Move, Reached
<1>3. call[p] \in PutCalls \cup RemoveCalls
  BY <1>2, Kinds DEF ShmInv, Removing
<1>4. Updating # {}
  BY <1>1, <1>3 DEF UpdatingRight
<1>5. call'[p].at = "lost"
  BY <1>2, NoCallIsAt DEF ShmInv
<1>6. Updating' = {}
  BY <1>1, <1>5 DEF UpdatingRight, PutCalls, RemoveCalls, Appending, Removing
<1>7. Content' = Store!Unknown /\ Users' = Users
  BY <1>1, <1>2 DEF ContentRight, Users
<1>8. Store!Garble
  BY <1>4, <1>6, <1>7 DEF Store!Garble
<1> QED BY <1>8 DEF StoreStep, Store!Next

\* A new value can be seen when end is behind it.
LEMMA ExtendIsInsert ==
  ASSUME Parameters, ShmInv, StoreInv, ShmInv', Key # {}, NEW p \in Process, Alone(p), ~torn,
         Extend(p)
  PROVE  StoreStep
<1> DEFINE new == [key |-> call[p].key, val |-> call[p].val]
<1>1. ContentRight /\ ContentRight' /\ UpdatingRight(p) /\ UpdatingRight(p)' /\ Alone(p)'
  BY AfterStep DEF Proceed
<1>2. /\ Written(p)' = Append(Written(p), new) /\ KeyIsNew(Written(p), call[p].key)
      /\ call[p].at = "extend" /\ Continue(p, "take") /\ UNCHANGED <<torn, handle>>
  BY ExtendKeeps DEF Extend, Reached
<1>3. call[p] \in PutCalls
  BY <1>2, Kinds DEF ShmInv, Appending
<1>4. Kept(p)' = Append(Written(p), new) /\ Kept(p) = Written(p)
  BY <1>2, <1>3, UpdateGoesOn DEF Kept
<1>5. Content' = [k \in Key |-> Lookup(Kept(p)', k)] /\ Content = [k \in Key |-> Lookup(Kept(p), k)]
  BY <1>1, <1>2 DEF ContentRight
<1>6. /\ Lookup(Kept(p)', call[p].key) = call[p].val
      /\ \A k : k # call[p].key => Lookup(Kept(p)', k) = Lookup(Kept(p), k)
  <2>1. HeadTyped /\ Whole(p) /\ Keyed(p)
    BY OfCaller
  <2>2. Written(p) \in Seq(Chunk) /\ OncePerKey(Written(p))
    BY <2>1, WrittenIs DEF Keyed
  <2>3. new \in Chunk /\ new.key = call[p].key /\ new.val = call[p].val
    BY <1>3 DEF PutCalls, Chunk
  <2> HIDE DEF new
  <2>4. /\ Lookup(Append(Written(p), new), new.key) = new.val
        /\ \A k : k # new.key => Lookup(Append(Written(p), new), k) = Lookup(Written(p), k)
    BY <1>2, <2>2, <2>3, LookupAppend
  <2> QED BY <1>4, <2>3, <2>4
<1>7. Content' = [Content EXCEPT ![call[p].key] = call[p].val]
  BY <1>5, <1>6
<1>8. Updating' = Updating
  BY <1>1, <1>2, <1>3, UpdateStays DEF Appending
<1>9. PICK u : Updating = {u} /\ u.key = call[p].key /\ u.name = "put" /\ u.val = call[p].val
  BY <1>1, <1>3, UpdateIs
<1>10. Users' = Users
  BY <1>2 DEF Users
<1>11. Store!Insert
  BY <1>7, <1>8, <1>9, <1>10, KnownIs DEF Store!Insert
<1> QED BY <1>11 DEF StoreStep, Store!Next

LEMMA TakeIsEnd ==
  ASSUME Parameters, ShmInv, StoreInv, UsersInv, ShmInv', Key # {}, NEW p \in Process, Alone(p),
         ~torn, Take(p)
  PROVE  StoreStep
<1>1. ContentRight /\ ContentRight' /\ UpdatingRight(p) /\ UpdatingRight(p)' /\ Alone(p)'
  BY AfterStep DEF Proceed
<1>2. /\ Written(p)' = Written(p) /\ call[p].at = "take" /\ Return(p)
      /\ UNCHANGED <<torn, handle>>
  BY TakeKeeps DEF Take, Reached
<1>3. call[p] \in PutCalls /\ call[p].key \in Key
  BY <1>2, Kinds DEF ShmInv, Appending, PutCalls
<1>4. Kept(p) = Written(p) /\ Kept(p)' = Written(p)
  BY <1>2, Returned DEF Kept
<1>5. Content' = Content
  BY <1>1, <1>2, <1>4, ContentStays
<1>6. Content[call[p].key] = call[p].val
  <2>1. HeadTyped /\ Whole(p) /\ Keyed(p)
    BY OfCaller
  <2>2. Written(p) \in Seq(Chunk) /\ OncePerKey(Written(p))
    BY <2>1, WrittenIs DEF Keyed
  <2>3. PICK i \in DOMAIN Written(p) :
          Written(p)[i] = [key |-> call[p].key, val |-> call[p].val]
    BY <1>2, <2>1 DEF Keyed
  <2>4. Lookup(Written(p), Written(p)[i].key) = Written(p)[i].val
    BY <2>2, LookupOld
  <2>5. Content = [k \in Key |-> Lookup(Written(p), k)]
    BY <1>1, <1>4 DEF ContentRight
  <2> QED BY <1>3, <2>3, <2>4, <2>5
<1> QED BY <1>1, <1>2, <1>3, <1>5, <1>6, UpdateEnds

LEMMA RemovalIsReset ==
  ASSUME Parameters, ShmInv, ShmInv', NEW p \in Process, Alone(p), ~InCall(p), RemoveSegment(p)
  PROVE  StoreStep
<1>1. ContentRight' /\ UpdatingRight(p) /\ UpdatingRight(p)' /\ Alone(p)' /\ call' = call
  <2>1. call' = call
    BY DEF RemoveSegment
  <2>2. Alone(p)'
    BY <2>1 DEF Alone, InCall
  <2>3. ContentRight' /\ UpdatesRight'
    BY ContentIs, UpdatingIs, PTL
  <2> QED BY <2>1, <2>2, <2>3, UpdatingIs DEF UpdatesRight
<1>2. call[p].at = "none" /\ call'[p].at = "none"
  BY <1>1, NoCallIsAt DEF InCall
<1>3. Updating = {} /\ Updating' = {}
  BY <1>1, <1>2 DEF UpdatingRight, PutCalls, RemoveCalls, Appending, Removing
<1>4. Written(p)' = <<>> /\ ~torn' /\ handle' = [q \in Process |-> FALSE]
  BY RemoveSegmentKeeps DEF RemoveSegment
<1>5. Kept(p)' = <<>>
  BY <1>2, <1>4 DEF Kept
<1>6. \A k : Lookup(<<>>, k) = "no value"
  BY DEF Lookup, Found
<1>7. Content' = Store!Empty
  <2>1. Content' = [k \in Key |-> Lookup(Kept(p)', k)]
    BY <1>1, <1>4 DEF ContentRight
  <2> QED BY <1>5, <1>6, <2>1 DEF Store!Empty, Store!NoValue
<1>8. Users' = {}
  BY <1>4 DEF Users
<1>9. Store!Reset
  BY <1>3, <1>7, <1>8 DEF Store!Reset
<1> QED BY <1>9 DEF StoreStep, Store!Next

\* A torn segment is attached as any other, and what is done to it cannot be
\* seen.
LEMMA TornGoesOn ==
  ASSUME ShmInv, ShmInv', NEW p \in Process, Alone(p), torn,
         \/ ~InCall(p) /\ (UseTorn(p) \/ \E m \in Memsizes : Attach(p, m))
         \/ Proceed(p)
  PROVE  StoreStep
<1>1. call[p].at \in {"none", "check", "lost"}
  BY DEF ShmInv, CallTyped, Lost
<1>2. (~InCall(p) /\ (UseTorn(p) \/ \E m \in Memsizes : Attach(p, m))) \/ Check(p) \/ FindBack(p)
  BY <1>1 DEF Proceed, Initialize, Write, InitializeFree, Unfree, Shorten, Move, Append_,
              Extend, Take, Reached
<1>3. ContentRight /\ ContentRight' /\ UpdatingRight(p) /\ UpdatingRight(p)'
  <2>1. (Begin(p) \/ Proceed(p))
    BY <1>2 DEF Begin, Proceed
  <2> QED BY <2>1, AfterStep
<1>4. torn'
  BY <1>2 DEF UseTorn, Attach, Check, FindBack
<1>5. Content' = Content
  BY <1>3, <1>4 DEF ContentRight
<1>6. call'[p].at \in {"none", "check", "lost"}
  BY <1>4 DEF ShmInv, CallTyped, Lost
<1>7. Updating = {} /\ Updating' = {}
  BY <1>1, <1>3, <1>6 DEF UpdatingRight, PutCalls, RemoveCalls, Appending, Removing
<1>8. CASE UNCHANGED handle
  <2>1. Users' = Users
    BY <1>8 DEF Users
  <2> QED BY <1>5, <1>7, <2>1, NothingIsSeen
<1>9. CASE handle' = [handle EXCEPT ![p] = TRUE]
  <2>1. Users' = Users \cup {p}
    BY <1>9 DEF Users, ShmInv, HeadTyped
  <2>2. Store!Join
    BY <1>5, <1>7, <2>1 DEF Store!Join
  <2> QED BY <2>2 DEF StoreStep, Store!Next
<1> QED BY <1>2, <1>8, <1>9 DEF UseTorn, Attach, Check, Attached, FindBack

LEMMA SameIsSeen ==
  ASSUME ShmInv, Process # {}, UNCHANGED <<head, chunks, torn, call>>
  PROVE  Content' = Content /\ Updating' = Updating
<1>1. Updating' = Updating
  BY DEF Updating, Callers, InCall
<1>2. PICK q \in Process : Alone(q)
  BY DEF ShmInv, OneCall, Alone
<1>3. Victim(q)' = Victim(q) /\ VictimLength(q)' = VictimLength(q)
  BY DEF Victim, VictimLength
<1>4. Written(q)' = Written(q)
  BY <1>3 DEF Written, Reach
<1>5. Kept(q)' = Kept(q)
  BY <1>3, <1>4 DEF Kept
<1>6. Alone(q)'
  BY <1>2 DEF Alone, InCall
<1>7. ContentRight'
  BY ContentIs, PTL
<1> QED BY <1>1, <1>2, <1>5, <1>6, <1>7, ContentIs, ContentStays

\* A process that is in no call detaches the segment, or dies.
LEMMA LeavingIsSeen ==
  ASSUME ShmInv, NEW p \in Process, ~InCall(p), UNCHANGED <<head, chunks, torn, call>>,
         handle' = [handle EXCEPT ![p] = FALSE]
  PROVE  StoreStep
<1>1. Updating' = Updating /\ Content' = Content
  BY SameIsSeen
<1>2. CASE handle[p]
  <2>1. p \in Users /\ Users' = Users \ {p}
    BY <1>2 DEF Users, ShmInv, HeadTyped
  <2>2. \A u \in Updating : u.by # p
    <3> SUFFICES ASSUME NEW u \in Updating PROVE u.by # p
      OBVIOUS
    <3>1. PICK q \in Callers :
            u = [by |-> q, name |-> call[q].name, key |-> call[q].key,
                 val |-> IF call[q].name = "put" THEN call[q].val ELSE "no value"]
      BY Zenon DEF Updating
    <3>2. u.by = q
      BY <3>1
    <3> QED BY <3>2 DEF Callers
  <2>3. Store!Leave
    BY <1>1, <2>1, <2>2 DEF Store!Leave
  <2> QED BY <2>3 DEF StoreStep, Store!Next
<1>3. CASE ~handle[p]
  <2>1. handle' = handle
    BY <1>3 DEF ShmInv, HeadTyped
  <2>2. Users' = Users
    BY <2>1 DEF Users
  <2> QED BY <1>1, <2>2, NothingIsSeen
<1> QED BY <1>2, <1>3 DEF ShmInv, HeadTyped

\* Who dies in an update leaves it where it is.
LEMMA DeathInCall ==
  ASSUME Parameters, ShmInv, StoreInv, UsersInv, ShmInv', NEW p \in Process, InCall(p), Die(p)
  PROVE  StoreStep
<1>1. Alone(p)
  BY DEF ShmInv, OneCall, Alone
<1>2. ContentRight /\ ContentRight' /\ UpdatingRight(p) /\ UpdatingRight(p)' /\ Alone(p)'
  BY <1>1, AfterStep
<1>3. call'[p].at = "none" /\ handle' = [handle EXCEPT ![p] = FALSE]
  BY Returned DEF Die
<1>4. torn' => Content' = Store!Unknown
  BY <1>2 DEF ContentRight
<1>5. ~torn' => Content' = Content
  <2> SUFFICES ASSUME ~torn' PROVE Content' = Content
    OBVIOUS
  <2>1. Written(p)' = Kept(p) /\ ~torn
    BY <1>1, DieKeeps
  <2>2. Kept(p)' = Kept(p)
    BY <1>3, <2>1 DEF Kept
  <2>3. torn' = torn
    BY <2>1 DEF ShmInv, HeadTyped
  <2> QED BY <1>1, <1>2, <2>2, <2>3, ContentStays
<1>6. Updating' = {}
  BY <1>2, <1>3 DEF UpdatingRight, PutCalls, RemoveCalls, Appending, Removing
<1>7. Users' = Users \ {p}
  BY <1>3 DEF Users, ShmInv, HeadTyped
<1>8. CASE call[p] \in PutCalls \cup RemoveCalls
  <2>1. PICK u : Updating = {u} /\ u.by = p
    BY <1>2, <1>8, UpdateIs
  <2>2. p \in Users
    <3>1. call[p].at \in Removing \cup Appending
      BY <1>8 DEF PutCalls, RemoveCalls
    <3> QED BY <3>1 DEF UsersInv, Joined, Users
  <2>3. Store!Abandon
    BY <1>4, <1>5, <1>6, <1>7, <2>1, <2>2 DEF Store!Abandon
  <2> QED BY <2>3 DEF StoreStep, Store!Next
<1>9. CASE call[p] \notin PutCalls \cup RemoveCalls
  <2>1. Updating = {}
    BY <1>2, <1>9 DEF UpdatingRight
  <2>2. call[p].at # "move"
    BY <1>9, Kinds DEF ShmInv, Removing
  <2>3. torn' = torn
    BY <2>2 DEF Die, Reached
  <2>4. Content' = Content
    BY <1>2, <1>4, <1>5, <2>3 DEF ContentRight
  <2>5. CASE p \in Users
    <3>1. Store!Leave
      BY <1>6, <1>7, <2>1, <2>4, <2>5 DEF Store!Leave
    <3> QED BY <3>1 DEF StoreStep, Store!Next
  <2>6. CASE p \notin Users
    <3>1. Users' = Users
      BY <1>7, <2>6
    <3> QED BY <1>6, <2>1, <2>4, <3>1, NothingIsSeen
  <2> QED BY <2>5, <2>6
<1> QED BY <1>8, <1>9

LEMMA StepIsStoreStep ==
  ASSUME Parameters, Process # {}, Key # {}, ShmInv, StoreInv, UsersInv, ShmInv',
         [ShmNext]_shmVars
  PROVE  StoreStep
<1>1. ASSUME NEW p \in Process, Alone(p), Begin(p) PROVE StoreStep
  <2>1. CASE RemoveSegment(p)
    BY <1>1, <2>1, RemovalIsReset DEF Begin
  <2>2. CASE ~RemoveSegment(p)
    <3>1. ~InCall(p)
      BY <1>1, <2>2 DEF Begin
    <3>2. CASE ~torn /\ \E m \in Memsizes : Attach(p, m)
      BY <1>1, <3>1, <3>2, AttachIsJoin
    <3>3. CASE ~torn /\ \E k \in Key, v \in Val : PutVar(p, k, v)
      BY <1>1, <3>1, <3>3, UpdateBegins
    <3>4. CASE ~torn /\ \E k \in Key : RemoveVar(p, k)
      BY <1>1, <3>1, <3>4, UpdateBegins
    <3>5. CASE torn /\ (UseTorn(p) \/ \E m \in Memsizes : Attach(p, m))
      BY <1>1, <3>1, <3>5, TornGoesOn
    <3> QED BY <1>1, <2>2, <3>2, <3>3, <3>4, <3>5 DEF Begin
  <2> QED BY <2>1, <2>2
<1>2. ASSUME NEW p \in Process, Alone(p), Proceed(p) PROVE StoreStep
  <2>1. CASE torn
    BY <1>2, <2>1, TornGoesOn
  <2>2. CASE ~torn
    <3>1. CASE Check(p) \/ Initialize(p)
      BY <1>2, <2>2, <3>1, AttachIsJoin
    <3>2. CASE Unfree(p) \/ Append_(p)
      BY <1>2, <2>2, <3>2, Unseen
    <3>3. CASE Shorten(p) \/ Extend(p)
      BY <1>2, <2>2, <3>3, ShortenIsErase, ExtendIsInsert
    <3>4. CASE Move(p) \/ Take(p)
      BY <1>2, <2>2, <3>4, MoveIsEnd, TearIsGarble, TakeIsEnd
    <3>5. ~FindBack(p)
      BY <2>2 DEF FindBack, Reached, ShmInv, CallTyped, Lost
    <3> QED BY <1>2, <3>1, <3>2, <3>3, <3>4, <3>5 DEF Proceed
  <2> QED BY <2>1, <2>2
<1>3. ASSUME NEW p \in Process, ~InCall(p), Detach(p) PROVE StoreStep
  BY <1>3, LeavingIsSeen DEF Detach
<1>4. ASSUME NEW p \in Process, Die(p) PROVE StoreStep
  <2>1. CASE InCall(p)
    BY <1>4, <2>1, DeathInCall
  <2>2. CASE ~InCall(p)
    <3>1. handle' = [handle EXCEPT ![p] = FALSE]
      BY <1>4 DEF Die
    <3> QED BY <1>4, <2>2, <3>1, DieIdle, LeavingIsSeen
  <2> QED BY <2>1, <2>2
<1>5. CASE UNCHANGED shmVars
  <2>1. UNCHANGED <<head, chunks, excess, torn, handle, call>>
    BY <1>5 DEF shmVars
  <2>2. Users' = Users
    BY <2>1 DEF Users
  <2> QED BY <2>1, <2>2, SameIsSeen, NothingIsSeen
<1> QED BY <1>1, <1>2, <1>3, <1>4, <1>5 DEF ShmNext

\* To scripts that take turns the segment is a store of variables: an update
\* changes its own variable only, and has when it returns; and who dies in one
\* leaves the old value, none or the new one.  A move that is broken off or
\* overlaps makes the store unknown, until it is removed, and nothing else does.
THEOREM SegmentIsStore ==
  ASSUME Parameters, Process # {}, Key # {} PROVE ShmSpec => IsSharedStore
<1>1. ShmInit => Store!Init
  <2> SUFFICES ASSUME ShmInit PROVE Content = Store!Empty /\ Users = {} /\ Updating = {}
    BY DEF Store!Init
  <2>1. PICK p \in Process : call[p] = NoCall /\ Alone(p)
    BY DEF ShmInit, Alone, InCall
  <2>2. chunks = <<>> /\ call[p].at = "none" /\ ~torn /\ Users = {}
    BY <2>1, NoCallIsAt DEF ShmInit, Users
  <2>3. Written(p) = <<>>
    BY <2>2, FrontEmpty DEF Written
  <2>4. Kept(p) = <<>>
    BY <2>2, <2>3 DEF Kept
  <2>5. Content = [k \in Key |-> Lookup(<<>>, k)]
    BY <2>1, <2>2, <2>4, ContentIs DEF ContentRight
  <2>6. \A k : Lookup(<<>>, k) = "no value"
    BY DEF Lookup, Found
  <2>7. Content = Store!Empty
    BY <2>5, <2>6 DEF Store!Empty, Store!NoValue
  <2>8. Updating = {}
    <3>1. \A q \in Process : call[q] = NoCall
      BY DEF ShmInit
    <3>2. Callers = {}
      BY <3>1 DEF Callers, InCall
    <3> QED BY <3>2 DEF Updating
  <2> QED BY <2>2, <2>7, <2>8
<1>2. /\ ShmInv /\ StoreInv /\ UsersInv /\ ShmInv' /\ [ShmNext]_shmVars
         => [Store!Next]_(Store!vars)
  BY StepIsStoreStep DEF StoreStep
<1> QED BY <1>1, <1>2, ShmInvariance, StoreInvariance, UsersInvariance, PTL
       DEF ShmSpec, IsSharedStore, Store!Spec
=============================================================================
