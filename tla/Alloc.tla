------------------------------- MODULE Alloc -------------------------------
(***************************************************************************)
(* The memory manager of alloc.c, built with a memory limit and without    *)
(* DEBUG: emalloc, efree and erealloc above malloc, free and realloc.      *)
(*                                                                         *)
(* Every block of a request is in one doubly linked list, which is freed   *)
(* at the end of the request.  A small block that is efree'd stays in the  *)
(* list and in the amount counted: it goes to a cache of blocks of its     *)
(* size, and the next emalloc of that size takes it from there.            *)
(*                                                                         *)
(* A request over its limit is told by php3_error, which is called in the  *)
(* middle of the allocation and allocates and frees memory itself.         *)
(* BLOCK_INTERRUPTIONS keeps the long jumps of Apache out of these calls   *)
(* (but not out of the caching in efree, nor does it keep the handler of   *)
(* SIGPROF out; the model leaves these out).                               *)
(***************************************************************************)
EXTENDS Integers, FiniteSets, Sequences

CONSTANTS Block,               \* the addresses malloc returns
          NULL,                \* the null pointer
          Size,                \* sizes the callers ask for
          MAX_CACHED_MEMORY,   \* smaller blocks are cached
          MAX_CACHED_ENTRIES,  \* at most so many of a size
          memory_limit,
          Reserve,             \* 1048576, what a failing request may take above the limit
          ErrormsgGrows        \* may the block that grows be that of $php_errormsg?

ASSUME BlockAssumption == IsFiniteSet(Block) /\ NULL \notin Block
ASSUME SizeAssumption == Size \subseteq Nat
ASSUME LimitAssumption ==
  {MAX_CACHED_MEMORY, MAX_CACHED_ENTRIES, memory_limit, Reserve} \subseteq Nat
ASSUME ErrormsgAssumption == ErrormsgGrows \in BOOLEAN

CachedSize == 0 .. MAX_CACHED_MEMORY - 1

VARIABLES
  alive,               \* the process has not called exit
  stage,               \* idle, running, or the loop of shutdown_memory_manager
  mem,                 \* the headers of the blocks that malloc returned
  head,                \* the list of all of them
  cache,               \* for a size the slots of the cache below its cache_count
  allocated_memory,
  memory_exhausted,
  shutdown_requested,
  held,                \* the blocks the program was given and has not freed
  calls,               \* allocations that wait for php3_error to return
  i, j, t              \* of shutdown_memory_manager

loopVars == <<stage, i, j, t>>
vars == <<alive, loopVars, mem, head, cache, allocated_memory, memory_exhausted,
          shutdown_requested, held, calls>>

-----------------------------------------------------------------------------
(* The list *)

\* A new header at the head of the list.
Linked(m, h, b, size) ==
  [c \in DOMAIN m \cup {b} |->
     IF c = b THEN [pNext |-> h, pLast |-> NULL, size |-> size]
     ELSE IF c = h THEN [m[c] EXCEPT !.pLast = b]
     ELSE m[c]]

\* Mutants: pLast of the next block is forgotten, the wrong pointer is taken.
Unlinked_OneWay(m, h, b) ==
  [c \in DOMAIN m \ {b} |->
     [m[c] EXCEPT !.pNext = IF b # h /\ c = m[b].pLast THEN m[b].pNext ELSE @]]
HeadWithout_Last(m, h, b) == IF b = h THEN m[b].pLast ELSE h

\* REMOVE_POINTER_FROM_LIST, and the header is gone.
HeadWithout(m, h, b) == IF b = h THEN m[b].pNext ELSE h
Unlinked(m, h, b) ==
  [c \in DOMAIN m \ {b} |->
     [m[c] EXCEPT !.pNext = IF b # h /\ c = m[b].pLast THEN m[b].pNext ELSE @,
                  !.pLast = IF c = m[b].pNext THEN m[b].pLast ELSE @]]

-----------------------------------------------------------------------------
(* emalloc, efree, erealloc *)

\* What an allocation is about: its block, the size asked for, and the block
\* that the caller of erealloc gave.
Call == [block : Block, size : Size, ptr : Block \cup {NULL}]

\* The end of emalloc and erealloc.
Sized(m, c) == [b \in DOMAIN m |-> IF b = c.block THEN [m[b] EXCEPT !.size = c.size] ELSE m[b]]
Return(m, h, c) == mem' = Sized(m, c) /\ held' = h \cup {c.block}

Fits(total) == total <= memory_limit
Silent == memory_exhausted \/ shutdown_requested # "NO"

MustExit_NotAtEnd(total) == total > memory_limit + Reserve /\ ~Silent  \* mutant
MustExit(total) == total > memory_limit + Reserve

\* The error, by a call that returns when it has been displayed and recorded.
GiveError(c) == calls' = Append(calls, c) /\ memory_exhausted' = TRUE

\* CHECK_MEMORY_LIMIT, with the list as it is at that moment.
CheckMemoryLimit(s, m, c) ==
  LET total == allocated_memory + s
      rest == held \ {c.ptr}
  IN  /\ allocated_memory' = total
      /\ \/ /\ MustExit(total)
            /\ alive' = FALSE /\ mem' = m /\ held' = rest
            /\ UNCHANGED <<memory_exhausted, calls>>
         \/ /\ ~MustExit(total) /\ ~Fits(total) /\ ~Silent
            /\ GiveError(c) /\ mem' = m /\ held' = rest
            /\ UNCHANGED alive
         \/ /\ ~MustExit(total) /\ (Fits(total) \/ Silent)
            /\ Return(m, rest, c)
            /\ UNCHANGED <<alive, memory_exhausted, calls>>

InRequest == alive /\ stage = "running"

\* malloc or realloc returns NULL, and the process ends.
OutOfMemory ==
  /\ alive' = FALSE
  /\ UNCHANGED <<loopVars, mem, head, cache, allocated_memory, memory_exhausted,
                 shutdown_requested, held, calls>>

\* ecalloc, estrdup and estrndup are this and fill the block.
emalloc(size) ==
  /\ InRequest
  /\ ~(size \in CachedSize /\ cache[size] # <<>>)
  /\ \/ \E p \in Block \ DOMAIN mem :
          /\ head' = p
          /\ CheckMemoryLimit(size, Linked(mem, head, p, size),
                              [block |-> p, size |-> size, ptr |-> NULL])
          /\ UNCHANGED <<loopVars, cache, shutdown_requested>>
     \/ Block = DOMAIN mem /\ OutOfMemory

\* Mutant: the count goes down and the wrong slot is read.
emalloc_cached_First(size) ==
  /\ InRequest
  /\ size \in CachedSize /\ cache[size] # <<>>
  /\ cache' = [cache EXCEPT ![size] = SubSeq(@, 1, Len(@) - 1)]
  /\ held' = held \cup {cache[size][1]}
  /\ UNCHANGED <<alive, loopVars, mem, head, allocated_memory, memory_exhausted,
                 shutdown_requested, calls>>

emalloc_cached(size) ==
  /\ InRequest
  /\ size \in CachedSize /\ cache[size] # <<>>
  /\ LET last == Len(cache[size])
     IN  /\ cache' = [cache EXCEPT ![size] = SubSeq(@, 1, last - 1)]
         /\ held' = held \cup {cache[size][last]}
  /\ UNCHANGED <<alive, loopVars, mem, head, allocated_memory, memory_exhausted,
                 shutdown_requested, calls>>

\* A program frees what it holds; within the error, $php_errormsg gets a new
\* value and what it held is freed, even if that is what erealloc was given
\* (and is a block still, or again).
Freeable ==
  IF ErrormsgGrows THEN held \cup ({calls[k].ptr : k \in DOMAIN calls} \cap DOMAIN mem)
  ELSE held

Cacheable_Unbounded(size) == size \in CachedSize  \* mutant
Cacheable(size) == size \in CachedSize /\ Len(cache[size]) < MAX_CACHED_ENTRIES

\* Mutant: a cached block is no longer counted.
efree_Uncounted(p) ==
  /\ InRequest
  /\ p \in Freeable
  /\ \/ /\ Cacheable(mem[p].size)
        /\ cache' = [cache EXCEPT ![mem[p].size] = Append(@, p)]
        /\ UNCHANGED <<mem, head>>
     \/ /\ ~Cacheable(mem[p].size)
        /\ head' = HeadWithout(mem, head, p) /\ mem' = Unlinked(mem, head, p)
        /\ UNCHANGED cache
  /\ allocated_memory' = allocated_memory - mem[p].size
  /\ held' = held \ {p}
  /\ UNCHANGED <<alive, loopVars, memory_exhausted, shutdown_requested, calls>>

efree(p) ==
  /\ InRequest
  /\ p \in Freeable
  /\ \/ /\ Cacheable(mem[p].size)
        /\ cache' = [cache EXCEPT ![mem[p].size] = Append(@, p)]
        /\ UNCHANGED <<mem, head, allocated_memory>>
     \/ /\ ~Cacheable(mem[p].size)
        /\ head' = HeadWithout(mem, head, p) /\ mem' = Unlinked(mem, head, p)
        /\ allocated_memory' = allocated_memory - mem[p].size
        /\ UNCHANGED cache
  /\ held' = held \ {p}
  /\ UNCHANGED <<alive, loopVars, memory_exhausted, shutdown_requested, calls>>

\* realloc leaves the block where it is or moves it. Its size is set when the
\* limit has been checked. erealloc of NULL is emalloc.
erealloc(ptr, size) ==
  /\ InRequest
  /\ ptr \in held
  /\ \/ \E p \in (Block \ DOMAIN mem) \cup {ptr} :
          /\ head' = p
          /\ CheckMemoryLimit(size - mem[ptr].size,
                              Linked(Unlinked(mem, head, ptr), HeadWithout(mem, head, ptr), p,
                                     mem[ptr].size),
                              [block |-> p, size |-> size, ptr |-> ptr])
          /\ UNCHANGED <<loopVars, cache, shutdown_requested>>
     \/ Block = DOMAIN mem /\ OutOfMemory

\* php3_error returns: it has asked for the end of the request, or left that
\* to php3_header, which did not (for a HEAD request it asks for a normal end).
ErrorReturns ==
  /\ InRequest
  /\ calls # <<>>
  /\ shutdown_requested' \in {"ABNORMAL", "NORMAL", shutdown_requested}
  /\ Return(mem, held, calls[Len(calls)])
  /\ calls' = SubSeq(calls, 1, Len(calls) - 1)
  /\ UNCHANGED <<alive, loopVars, head, cache, allocated_memory, memory_exhausted>>

\* The rest of the program asks for the end of the request, or takes it back.
\* (The end of a nested parser, too, is a shutdown to CHECK_MEMORY_LIMIT.)
RequestShutdown ==
  /\ InRequest
  /\ calls = <<>>
  /\ shutdown_requested' \in {"NO", "NORMAL", "ABNORMAL"}
  /\ UNCHANGED <<alive, loopVars, mem, head, cache, allocated_memory, memory_exhausted,
                 held, calls>>

-----------------------------------------------------------------------------
(* The beginning and the end of a request *)

\* Mutant: the cache is left as it is.
start_memory_manager_KeepCache ==
  /\ alive /\ stage = "idle"
  /\ stage' = "running"
  /\ head' = NULL
  /\ allocated_memory' = 0 /\ memory_exhausted' = FALSE
  /\ shutdown_requested' = "NO"
  /\ UNCHANGED <<alive, i, j, t, mem, cache, held, calls>>

\* php3_request_startup resets shutdown_requested before it allocates.
start_memory_manager ==
  /\ alive /\ stage = "idle"
  /\ stage' = "running"
  /\ head' = NULL
  /\ allocated_memory' = 0 /\ memory_exhausted' = FALSE
  /\ cache' = [size \in CachedSize |-> <<>>]
  /\ shutdown_requested' = "NO"
  /\ UNCHANGED <<alive, i, j, t, mem, held, calls>>

\* shutdown_memory_manager is called, by the end of the request or by a long
\* jump that cut it short. Nobody uses the blocks any more.
shutdown_memory_manager ==
  /\ InRequest
  /\ calls = <<>>
  /\ stage' = "caches" /\ i' = 0 /\ j' = 0
  /\ held' = {}
  /\ UNCHANGED <<alive, t, mem, head, cache, allocated_memory, memory_exhausted,
                 shutdown_requested, calls>>

\* Its first loop: the blocks in the cache. The counts stay.
FreeCached ==
  /\ stage = "caches" /\ i < MAX_CACHED_MEMORY /\ j < Len(cache[i])
  /\ LET p == cache[i][j + 1]
     IN  p \in DOMAIN mem /\ head' = HeadWithout(mem, head, p) /\ mem' = Unlinked(mem, head, p)
  /\ j' = j + 1
  /\ UNCHANGED <<alive, stage, i, t, cache, allocated_memory, memory_exhausted,
                 shutdown_requested, held, calls>>

NextCache ==
  /\ stage = "caches"
  /\ \/ /\ i < MAX_CACHED_MEMORY /\ j = Len(cache[i])
        /\ i' = i + 1 /\ j' = 0
        /\ UNCHANGED <<stage, t>>
     \/ /\ i = MAX_CACHED_MEMORY
        /\ stage' = "list" /\ t' = head
        /\ UNCHANGED <<i, j>>
  /\ UNCHANGED <<alive, mem, head, cache, allocated_memory, memory_exhausted,
                 shutdown_requested, held, calls>>

\* Its second loop: what is left in the list. head stays.
FreeListed ==
  /\ stage = "list"
  /\ \/ /\ t \in DOMAIN mem
        /\ t' = mem[t].pNext /\ mem' = [b \in DOMAIN mem \ {t} |-> mem[b]]
        /\ UNCHANGED stage
     \/ /\ t = NULL
        /\ stage' = "idle"
        /\ UNCHANGED <<t, mem>>
  /\ UNCHANGED <<alive, i, j, head, cache, allocated_memory, memory_exhausted,
                 shutdown_requested, held, calls>>

-----------------------------------------------------------------------------
Init ==
  /\ alive = TRUE /\ stage = "idle"
  /\ mem = <<>> /\ head = NULL
  /\ cache = [size \in CachedSize |-> <<>>]
  /\ allocated_memory = 0 /\ memory_exhausted = FALSE
  /\ shutdown_requested = "NO"
  /\ held = {} /\ calls = <<>>
  /\ i = 0 /\ j = 0 /\ t = NULL

Next ==
  \/ \E size \in Size :
       emalloc(size) \/ emalloc_cached(size) \/ \E p \in Block : erealloc(p, size)
  \/ \E p \in Block : efree(p)
  \/ ErrorReturns \/ RequestShutdown
  \/ start_memory_manager \/ shutdown_memory_manager
  \/ FreeCached \/ NextCache \/ FreeListed

Spec == Init /\ [][Next]_vars

-----------------------------------------------------------------------------
(* Properties *)

Header == [pNext : Block \cup {NULL}, pLast : Block \cup {NULL}, size : Size]

TypeOK ==
  /\ {alive, memory_exhausted} \subseteq BOOLEAN
  /\ stage \in {"idle", "running", "caches", "list"}
  /\ DOMAIN mem \subseteq Block /\ mem \in [DOMAIN mem -> Header]
  /\ {head, t} \subseteq Block \cup {NULL}
  /\ cache \in [CachedSize -> Seq(Block)]
  /\ \A size \in CachedSize : Len(cache[size]) <= MAX_CACHED_ENTRIES
  /\ allocated_memory \in Int
  /\ shutdown_requested \in {"NO", "NORMAL", "ABNORMAL"}
  /\ held \subseteq Block
  /\ calls \in Seq(Call)
  /\ i \in 0 .. MAX_CACHED_MEMORY /\ j \in 0 .. MAX_CACHED_ENTRIES

\* From first on along pNext one meets all of the blocks, each once; and back
\* along pLast if it is a list that is still in use.
IsWalk(m, first, both, w) ==
  LET n == Cardinality(DOMAIN m)
  IN  /\ \A b \in DOMAIN m : \E k \in 1 .. n : w[k] = b
      /\ \A k, l \in 1 .. n : w[k] = w[l] => k = l
      /\ first = IF n = 0 THEN NULL ELSE w[1]
      /\ \A k \in 1 .. n : m[w[k]].pNext = IF k = n THEN NULL ELSE w[k + 1]
      /\ both => \A k \in 1 .. n : m[w[k]].pLast = IF k = 1 THEN NULL ELSE w[k - 1]
IsList(m, first, both) ==
  \E w \in [1 .. Cardinality(DOMAIN m) -> DOMAIN m] : IsWalk(m, first, both, w)

\* Every block that malloc returned is in the list, once, from both ends:
\* before, in and after an error. While the list is being freed what is left
\* of it is what is left of the blocks: none is freed twice.
ListInv ==
  stage # "idle" => IsList(mem, IF stage = "list" THEN t ELSE head, stage # "list")

\* The slots of the cache that are still to be used, or to be freed.
Slots ==
  {s \in CachedSize \X (1 .. MAX_CACHED_ENTRIES) :
     /\ s[2] <= Len(cache[s[1]])
     /\ \/ stage = "running"
        \/ stage = "caches" /\ (s[1] > i \/ (s[1] = i /\ s[2] > j))}
InSlot(s) == cache[s[1]][s[2]]

\* A cached block was malloc'ed in this request, has the size of its slot and
\* is in no other slot.
CacheInv ==
  \A s \in Slots :
    /\ InSlot(s) \in DOMAIN mem
    /\ mem[InSlot(s)].size = s[1]
    /\ \A r \in Slots : InSlot(r) = InSlot(s) => r = s

\* What the program holds, or is about to get from an allocation, is memory
\* that is not freed and not in the cache, whatever an error has done.
InUse == held \cup {calls[k].block : k \in DOMAIN calls}
HandedOut == \A p \in InUse : p \in DOMAIN mem /\ \A s \in Slots : InSlot(s) # p

\* The error of the memory limit is not given within itself.
ErrorOnce == Len(calls) <= (IF memory_exhausted THEN 1 ELSE 0)

\* A request gets no more than the limit and the reserve, whether it was told
\* to end and goes on, or could not be told (alloc.c:42).
WithinReserve == alive /\ stage = "running" => allocated_memory <= memory_limit + Reserve

\* What a block counts for; from the error of an erealloc on, the new size.
Counted(b) ==
  LET waiting == {k \in DOMAIN calls : calls[k].block = b}
  IN  IF waiting = {} THEN mem[b].size ELSE calls[CHOOSE k \in waiting : TRUE].size
Bytes == UNION {{b} \X (1 .. Counted(b)) : b \in DOMAIN mem}

\* In a request the amount that is counted is that of the blocks there are,
\* cached ones included, also while the error of the limit is given.
Accounted == InRequest => allocated_memory = Cardinality(Bytes)

\* A request leaves nothing allocated behind (main.c:634).
NothingLeft == stage = "idle" => mem = <<>>
=============================================================================
