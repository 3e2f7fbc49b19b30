# PHP 3 in TLA+

This directory holds TLA+ models of the core of PHP 3 (the C sources beside it), the TLC
configurations that check them on small instances, and theorems about the hash table, the
execution engine, the life of a request, the memory manager, System V semaphores, shared
variables and data base links that the TLA+ proof system checks for every value of their
parameters.

## The system

PHP 3 is an interpreter for a template language. A web server (or the command line) starts a
request; the request opens a script; a yacc parser reads it and **executes it while parsing**,
with no syntax tree or byte code in between; then what the request owns is released. There is
one thread in the Apache and CGI builds that are modelled here; what runs beside the
interpreter is signals (the execution time limit, an aborted connection), and other processes
of the server, which meet in semaphores and shared memory of the kernel.

| component | state | operations | interacts with |
|---|---|---|---|
| hash table (`php3_hash.c`) | buckets in an ordered list and in collision chains, a cursor, the next free index | insert, update, append, references, delete, find, cursor, sort, renumber, copy, merge, walk with a callback, destroy | everything: symbol tables, arrays, functions, constants, resource lists are tables; destructors and callbacks run other components' code in the middle of an operation |
| execution engine (`language-parser.y`, `control_structures_inline.h`, `token_cache.c`, `stack.c`) | the token cache and the position in it, the lookahead of the parser, `ExecuteFlag`, `Execute`, the state of the function (loop and switch nesting, pending break, continue, return), four stacks | one action per place in a grammar rule | rewrites its own tokens to make loops; `call_user_function` runs another parser from within an action of the first |
| request life cycle (`main.c`, `basic_functions.c`) | `shutdown_requested`, connection status, which parts are initialized, the registered shutdown functions | startup, error, exit, time limit, abort of the connection, shutdown | the signal handler may run between any two steps; shutdown functions run scripts again |
| memory manager (`alloc.c`) | the list of the request's blocks, caches of freed ones by size, the amount allocated, whether its limit was exceeded | emalloc, efree, erealloc, start, cleanup of what the request left | everybody's memory; an exceeded limit calls the error handler in the middle of an allocation |
| semaphores (`functions/sysvsem.c`) | three kernel semaphores of a key, what the kernel would undo of each process, a process's own count | sem_get, sem_acquire, sem_release, the destructor | other processes, which may die at any point; the kernel undoes them |
| shared variables (`functions/sysvshm.c`) | a segment: its head, its chunks | attach, put, get, remove variable, remove, detach | other processes, with no lock of its own: scripts hold a semaphore |
| data base links (`functions/mysql.c`) | the default link, counts of links and of persistent ones | connect, pconnect, close, start of a request | the resource lists; the client library |
| resource lists (`list.c`) | handles to resources of a request, an index by details, persistent resources | insert, find, delete, destructors | hash tables with integer and string keys; destroyed at the end of a request |
| variables (`variables.c`, `internal_functions.c`) | symbol tables, references, arrays in arrays | assignment, global, static, references, array indexing | tables whose elements are references to those of other tables |
| operators (`operators.c`), constants (`constants.c`) | none; a table | conversions, arithmetic, comparison | |
| scanner, configuration, output, fopen wrappers, debugger, highlighting | buffers and files | reading and writing | |
| SAPI front ends, extension functions, regular expression libraries, convertor | their own | their own | |

### What is hard to get right in it

* The hash table is two structures over the same memory, and a cursor and a walk into it
  that last from one call to another. String keys made of digits are indexes. Indexes are
  unsigned machine words and the next free one wraps.
* The engine's loops are made by changing tokens while a one-token lookahead may already
  have been read, by four stacks and by a flag (`Execute`) that caches a condition on several
  other variables. A jump is not made at once: the parser goes on through the rest of every
  enclosing loop without executing it, and each loop decides at its end whether to repeat.
  Recursion means that the same tokens are in use by several activations.
* A function called by `array_walk`, `usort` or at shutdown runs a second parser over the
  same token cache and stacks.
* A time limit is a signal, with no mutual exclusion against the code it interrupts.
* `sem_get` is five system calls on three semaphores, and a process can die between any two of
  them; the kernel takes back what the dead one did, to each semaphore by itself.
* A shared variable is put by writes to `free`, `end` and the chunks, one after the other; who
  dies in between leaves the segment to the next one as it is.
* Links are counted over many requests, while handles, which many may have to one persistent
  link, last for one. A persistent link may turn out to be lost.
* An allocation over the memory limit calls `php3_error`, which writes, allocates, frees and
  assigns a variable before the allocation returns.

`PROJECT.json` lists the hazards with the lines where they bite and the property that is
meant for each.

### What makes each component correct

* *Hash table*: list and chains contain the same buckets, once each; lookup finds what was
  inserted; the memory it owns is the memory of its elements; the cursor and the walk point
  to elements that exist; a walk deletes what its callback chose; appending finds a free
  place. In one sentence: it is an ordered dictionary with a cursor.
* *Engine*: the operands that are evaluated, and their order, are those the control
  structures of the program demand; nothing is left on a stack by a jump; every token is what
  the scanner made of it once no loop is using it; a script ends when its loops do.
* *Request*: everything initialized is torn down once; a request that is told to end ends;
  shutdown functions run in order, at most once, while the engine can still run them.
* *Memory*: a block is in the list, and is either somebody's or in the cache; what a request
  allocated is freed after it, once; the amount counted is that of the blocks; the limit is
  exceeded by no more than the reserve.
* *Semaphores*: no more acquire one than its first user allowed; whoever dies or ends gives up
  all it had; who waits is served in the end.
* *Shared variables*: a value is written into the segment or not at all; a reader sees the old
  value of a variable, none or the new one; other variables do not change. (The code does not
  keep the first once a process has died in an update, nor the last where chunks are moved over
  themselves; the models say how far it does.)
* *Links and resource lists*: links are found again by their details, are never more than the
  limits allow, and a handle leads to one link until it is closed; a request takes its own
  links with it and no others.
* *Variables*: assignment through a reference reaches the element it refers to, or the
  reference is gone; copying an array shares nothing that is written to.

## Modules

| module | what it is |
|---|---|
| `HashTable` | `php3_hash.c`, at the level of its pointers |
| `OrderedMap` | the abstract specification: a sequence of entries with a cursor |
| `HashTableRefines` | the refinement mapping from the first to the second |
| `HashTableProofs` | theorems on `HashTable`, with its refinement of `OrderedMap` |
| `MCHashTable` | the instances that TLC checks |
| `MCHashTableRefines` | the same, with the ordered dictionary |
| `Interpreter` | the engine: token cache, parser, control structures, calls |
| `InterpreterInvariant` | the inductive invariant of `Interpreter`: heights of its stacks |
| `InterpreterProofs` | theorems on `Interpreter`: types, flags, the heights of its stacks |
| `InterpreterLoopsProofs` | theorems on `Interpreter`: what is on `for_stack`, and the end of a script |
| `Structured` | the abstract specification: which operands a program evaluates |
| `MCInterpreter` | programs, as trees for `Structured` and as tokens for `Interpreter` |
| `Request` | the life of a request, with errors, the time limit and shutdown functions |
| `RequestProofs` | theorems on `Request` |
| `Alloc` | the memory manager, with its limit and the error that gives |
| `AllocProofs` | theorems on `Alloc` |
| `MCAlloc` | the instance that TLC checks |
| `SysVSem` | `sysvsem.c`: processes that get, acquire and release a semaphore, and die |
| `CountingSemaphore` | the abstract specification: acquisitions and a limit |
| `SysVShm` | `sysvshm.c`: a segment, write by write |
| `SharedStore` | the abstract specification: a store of values under keys |
| `SysVShmProofs` | theorems on `SysVShm` |
| `SharedVariables` | the composition: scripts that make the calls of `SysVShm` while they hold a semaphore |
| `SharedVariablesProofs` | theorems on `SysVSem`, with its refinement of `CountingSemaphore`, and on the composition |
| `MCSharedVariables` | the instances that TLC checks |
| `MySQLLinks` | the links of `mysql.c` in the resource lists of `list.c` |
| `MySQLLinksProofs` | theorems on `MySQLLinks`, with its refinement of `LinkPool` |
| `LinkPool` | the abstract specification, from the manual: links by what they were opened with, and handles |
| `MCMySQLLinks` | the instance that TLC checks |

### HashTable

`bucket` maps every allocated address to its fields; `pListNext`, `pListLast`, `pListHead`
and `pListTail` are the list, `arBuckets` the chains (a chain is the sequence one meets along
`pNext`; its head is where `_php3_hash_add_or_update` puts a bucket). `heap` is the set of
blocks the table owns (the copy of a key, the data that does not fit into a pointer), so that
a leak and an early `efree` are both a difference between `heap` and the elements. `foreign`
is memory of other tables that `_php3_hash_pointer_update` makes elements refer to.

Each function of the file is an action with the same name where there is one; those with a
loop that leaves the table in the middle are several. `_php3_hash_apply` reads the next
bucket, calls back, deletes: the walk is `busy = "apply"` and its `p` is `applyNext`, so that
calls between two steps of the walk could be told apart from calls outside. `_php3_hash_copy`
and `_php3_hash_merge` insert one element at a time from `pending`. `ret` is the value
returned.

Not translated: tables with `persistent` set, whose allocator can return `NULL`;
`_php3_hash_minmax`; the comparison function of a sort, which is any order. A deletion by string
key that stops at an index (`hash_collision`) frees that bucket's `arKey`, which is NULL
(`php3_hash.c:629`). `free`, which a persistent table uses, ignores that, and `Unlink` is what
happens then; `efree`, which any other uses, looks for a header in front of it and does not
come back. The bucket that is chosen is the wrong one in both.

### Interpreter

`tokens` and `pos` are the token cache, `yychar` the lookahead of the parser. What bison keeps
as states is here the list of symbols that are still to be recognized (`parse`), which begins
with the rule of the first statement and has the actions of the rules among its symbols:
reducing `while '(' expr ')' { cs_start_while } statement { cs_end_while } while_iterations`
is taking these off one by one. The lookahead is read exactly where the grammar cannot decide
without it: after a statement list, before `else`, after the body of a loop for
`while_iterations`, after an expression for an operator. That matters, because `seek_token`
drops it. `Grammar` is the set of rules that start with a token, as triples of a symbol, that
token and what follows it.

The actions have the names of the functions in `control_structures_inline.h`. `css`,
`for_stack`, `switch_stack` and `function_state_stack` are the engine's stacks,
`function_state` the record of the same name, `suspended` the parsers that wait for the one
`call_user_function` started. `Execute` is a variable and not a definition, since the code
recomputes it only at the places where `SET_EXECUTE` or `RESET` stands.

Abstracted: an operand has a truth (`VARIABLE`, either; `SCALAR`, false), and `Fuel` bounds
how often a run may find one true. Operators associate to the left without precedence.
Functions have no arguments, a name or a level is part of its token, and the whole script is
in one cache. A text has no token `CONTINUED_` or `IC_FUNCTION` (`ScannerAssumption`): no rule of
`language-scanner.lex` returns one, and only `tc_set_token` and the code of `for` make them.
Not modelled: `exit`, `include`, `require` and `eval` with their token caches,
classes, `global` and `static`, `echo` and the inline HTML between statements.

### Structured and MCInterpreter

`Structured` is what the documentation says of `if`, `while`, `do`, `for`, `switch`, `break`,
`continue`, `return` and short-circuit operators, as a machine that has a list of what remains
to be done and evaluates an operand at a time. `MCInterpreter` holds programs as trees,
writes them as tokens for `Interpreter`, and runs the two in lock-step: `IsStructured` is the
refinement, that each operand the engine evaluates is the one that is next.

### Request

The Apache build. `stage` and `step` say how far `php3_request_startup`, the script and
`php3_request_shutdown` are; `Startup` and `Teardown` are their steps, in the order of the
code, and `initialized` is the flag word of the same name. `names` is the pointer
`user_shutdown_function_names`, with the value `freed` after `php3_call_shutdown_functions`;
`registered` is the number of elements of its table, `p` the next element of
`_php3_hash_destroy`'s walk, which was read before the destructor called the function that
may register another. `frames` are the activations of `phpparse()`, each at a place: reading
a token (`lex`), in an action (`act`), in an action that calls functions of the script
(`calling`), or at one of the points of `call_user_function` and of the rule for
`IC_FUNCTION` between which a signal matters. `original` is what `call_user_function` saved.

A script is any sequence of what an action may do to this state: a fatal error, `exit`, the
first output, `set_time_limit`, `ignore_user_abort`, `register_shutdown_function`, a call
from C code, or nothing. `Expire` (SIGPROF), `Abort` (the client) and `Interrupt` (the long
jump of Apache's `hard_timeout`, which cleans the request's pool) may come at any moment; the
last only in the stages of `Interruptible`.

Two variables are not the code's: `expired` (the timer has expired in this request) and
`due` (how many functions were registered when the script ended).

Abstracted: errors are displayed, so that a fatal error sends the header, in one step; safe
mode is off; `auto_prepend` and `auto_append` parsers, the display of sources, the modules'
own functions apart from the two that reset this state, and `INIT_ENVIRONMENT` are left out;
a registered function exists. `MaxRegistered` stays below the table's smallest size.

### Alloc

`alloc.c` without `DEBUG`, with `MEMORY_LIMIT`. `mem` maps the blocks that `malloc` returned to
their headers, `head` and the headers' pointers are the list, `cache` has the slots below
`cache_count`; `allocated_memory` and `memory_exhausted` are the variables of the same names,
and `shutdown_requested` is the one of `Request`, of which only matters here whether it is 0.
`held` is what the rest of the program was given and has not freed. A correct program frees
and grows what it holds, and `emalloc`, `efree` and `erealloc` follow each other in any order.

An allocation over its limit is in `calls` while `php3_error` is at work: it has linked its
block, has counted it and has not returned. `ErrorReturns` is the rest of it. In between the
program goes on allocating and freeing, since that is what `php3_error` does to display the
error and to assign `$php_errormsg`. With `ErrormsgGrows` it may free the block that the
waiting `erealloc` was given. `stage` and the loop variables `i`, `j`, `t` are those of
`shutdown_memory_manager`, a block at a time.

Abstracted: addresses (any block that is not in use may be the next), alignment and padding;
`ecalloc`, `estrdup` and `estrndup` are `emalloc`. Not modelled: the checks of a `DEBUG` build,
memory of `pemalloc` that is persistent, the limit's own wrapping, and what happens if the handler of
SIGPROF, or a long jump, comes within one of these functions. (`efree` does not block
interruptions when it caches a block, and Apache's alarms are all that the other functions
block.) `Request` and `Alloc` are not composed: `Alloc` lets the request end at any moment.

### SysVSem, SysVShm and SharedVariables

`semval` and `semadj` are the kernel's: the values of the three semaphores of one key, and for
each process what is added to them when it dies, which `semop` with `SEM_UNDO` keeps. The
kernel is external and modelled from what `sysvsem.c` takes for granted: a `semop` is atomic
and waits until all of it is possible; SETVAL drops everybody's undo value for that semaphore; a dead
process is undone at once or, as the comment at `sysvsem.c:214` says of Linux, one semaphore
after the other (`Kernels`). `pc` is where a process is in `sem_get` or `sem_acquire`, `count`
that of its `sysvsem_sem`. `limit`, what SEM was last set to, is history. Each system
call is an action; `Crash` may come after any of them.

`size`, `head` and `chunks` are the segment; `chunks` goes on behind `head.end` where the
memory was not overwritten, and `Before(pos)` is what a walk over the offsets reaches. Every
write to the head or to a chunk is an action, in the order of the code; `call` has the
place a process is at and the locals it read before, so that `memcpy_len` and the position of
the victim are from before `free` and `end` change.

A process may die between any two writes (`Die`), and the next one goes on with what is there.
There are three kinds of what it may find.

* Most deaths leave less room than there is, or a head that is not finished; calls go on as the
  code does.
* A death between the writes of `end` and `free` (`sysvshm.c:436`, 437 and 470, 471) leaves room
  that the head counts and the segment does not have. A segment whose creator died before it
  wrote `magic` is initialized by the next process with the size that one asks for, which may be
  larger, too. `excess` is the history of that room, and `Pending` is what a death adds to it. Calls
  go on, and may write behind the segment: nothing in the model, as nothing in the code,
  keeps them from it. What is written behind the segment is in `chunks` like any other.
  A process that the kernel ends for writing there is one that dies, which any process may.
* A death between the write of `end` and the move of the chunks (471, 473), and a `memcpy` between
  regions that overlap, leave chunks that lead a walk anywhere: the segment is `torn`. What a call
  meets in it is not known, so `UseTorn` lets it find anything, write anything, and return,
  die or go on for ever (`LostCall`); `head` and `chunks` have no value then, except that `magic`,
  which lies in front of everything that is moved, is taken to be there. Removing the segment ends that.
  `memcpy` of regions that overlap is undefined in C, so the model has both outcomes, that it does
  what was meant and that it tears.

`SharedVariables` conjoins the two: a process begins a call of `SysVShm` only while it has all
of the semaphore (`HasAll`), which is how the manual says the two are to be used, and a death
is one in both. `HasAll` compares with `limit`, which no script can read: it is the assumption that
scripts know what the semaphore was set to allow. One that is wrong about it is not excluded
by the code, and its calls are not alone. Three refinements meet in it. The semaphore implements `CountingSemaphore`
(`IsCountingSemaphore`); the calls therefore come one process at a time, so the whole implements
`SysVShm`, where that is assumed (`IsUsedInTurns`); and so the segment implements `SharedStore`
(`IsSharedStore`). `SharedStore` says what a process may leave that dies in an update: the
old value, no value, the new one, or a store of which nothing is known, and that no other
variable changes. `users` are the processes that have the segment attached, and `updates`
says whose update is under way: only a user begins one, only its own process ends it, and who
dies in one is a user no more.

Not modelled: system calls that fail for another reason than EINTR, several keys and several
handles of a process, serializing, the alignment of lengths (a length is that of the aligned
chunk), `shm_get_var`, which writes nothing, and use of a segment by a process that kept it
attached while another removed it. `shm_detach` leaves the entry of the resource list, so that a
script can make calls on the segment after it; they touch memory that is not mapped, and the
process ends, which `Die` is in any case.

### MySQLLinks

`mysql` maps the `MYSQL` structures in use to what they are logged in as; `plist` and `list` are
`main.c`'s two lists of resources, the latter split into its integer keys (`list`, of entries
with a type and a pointer) and its string keys (`index`, which lead to handles). `default_link`,
`num_links` and `num_persistent` are those of `php3_mysql_module`, and `ini` is what it read from
php3.ini, and whether the client library has `mysql_change_user` (`MYSQL_VERSION_ID > 32302`).
Requests follow each other in a process, which may end (`Restart`). `stale` is history: the
handles of a persistent link that was given up.

`asked` is history as well: what the last call that a handle answers asked for. In `LinkPool` that
is where the handle leads.

`LinkPool` is what the manual says, and knows nothing of pointers, of keys or of indexes: there are
persistent links, each by the host and user it was opened with, what each handle leads to, and the
link that functions take which are given none, which is none after it was closed. `Leads` finds
that out in the detailed state by following the pointers, so that a freed structure, two handles
of one link or an entry for the wrong one would show as a different answer; `Persistent` is the
set of logins behind the persistent list, whatever its keys are; and the pool counts its links,
where the code has counters. The code is such a pool where the client library has no
`mysql_change_user` (`IsLinkPool` has that condition); where it has, it is not, as is told below. What does not depend on
that, who frees what and how many links there are, is checked and proved of both
(`LinksAreHeld`, `WithinLimits`).

Abstracted: password, port and socket are part of the user; a key is a record and not the text
`mysql_%s_%s_%s`, in which "a_b" and "" cannot be told from "a" and "b". The server may refuse
any connection, any link may be lost, and any change of the user fail. Not modelled: queries and results, safe mode, the
functions on a link, which change no list of links but that of results, and the function
`mysql_change_user` of scripts, which gives a link another user.

## Runs

| run | asks | instance | outcome |
|---|---|---|---|
| `hash_structure` | Can a sequence of calls break list, chains, lookup, owned memory, cursor or walk? Is the table an ordered dictionary, with references, merging and the wrapping of the next index? | 3 buckets, table sizes 1 and 2, indexes 0 and 5 of 0..5, a plain, a decimal and a saturating decimal key, a reference | holds, 132 250 states |
| `hash_collision` | Does a walk delete the entry its callback chose? | a key whose hash is an index in use | violated |
| `engine_programs` | Do scripts do what their control structures say, up to an error if they have one, through every jump out of every nesting of two loops? Are the stacks in step? Do scripts end? | 90 scripts, `Fuel` 6, arrays of 2 elements | holds, 379 238 states |
| `engine_condition` | May a function call itself from the condition of a `while`? | 1 script | violated |
| `request` | Can a nested parser's end, a request cut short at any moment or a shutdown function leave things in a wrong state? Does a script that was told to end go on in any of its parsers? Does each request end? | time limit on or off, client may go, interruption in startup, script and after it, 2 nested calls, 2 shutdown functions | holds, 94 004 states |
| `request_lost` | Does the time limit end the script, also when the signal comes in a window? | time limit on | violated |
| `request_client` | Are shutdown functions called if the client goes away? | the script ends by itself or for the lost client | violated |
| `memory` | Can allocating, growing and freeing, with the limit's error in the middle of it, break the list, the cache or the count, give memory to two, or leave any behind? | 4 blocks; sizes 1, 2 (cached, 2 slots each) and 4; limit 5, reserve 2 | holds, 52 021 states |
| `memory_errormsg` | May the block that grows be the value of `$php_errormsg`? | the same | violated |
| `shared_variables` | Is the semaphore one, and do those who wait get it, although processes die anywhere? Do calls take turns? How much can be written behind the segment, and do walks end where they should, after whatever deaths? Is the segment a store until its chunks are torn? | 2 processes, limits 1 and 2, both kernels, 2 keys, lengths 1 and 2, a segment of 4 with a head of 1, `MaxExcess` 1 | holds, 148 372 states |
| `segment_room` | Is a value written into the segment, or not at all? | the same, segments of 3 and 4, `MaxExcess` 2 | violated |
| `mysql_links` | Is any link freed that somebody has, or kept that nobody has, over requests, restarts of the process and lost links? Do the limits hold? Does a handle lead where it was asked to, and are the links the pool of the manual? Are the counters ever negative? | 3 details (2 hosts, 2 users), 4 structures, 3 handles a request, 16 settings | holds, 193 406 states |

### Why the bounds are enough

*Hash table.* Three buckets give a list with a middle, a chain of three in the table of size
1, a resize to size 2 with chains of two, and deletion at each place of both. Six values of an
unsigned long with usable indexes 0 and 5 make the next free index wrap; `LongMax` is among
them, so that `strtol` saturates for one key. Bigger tables are the theorems' part.

*Engine.* With `Fuel` 6 each nesting of two loops gets through a second iteration of the inner
and the outer loop and a jump in it, and so do the three-level scripts. Two elements are one
call of `array_walk`'s function after another. 80 of the scripts are all pairs of loop kinds
times all jumps, inside a function that a `for` calls repeatedly, so what one call leaves
behind meets the next.

*Request.* Two nested calls of `call_user_function` are a parser that was started by one which
was started itself, so that a value saved by the middle one is restored for it. Two shutdown
functions are one that is called while another is still to come, and one registered by the
last. Requests follow each other in one process without a bound: what one leaves behind meets
the next.

*Memory.* Four blocks are a list with a middle of two, one of them cached and one held, and an
error that allocates and frees while another block waits. A slot of two sizes can be full and
be empty. With sizes 1, 2 and 4, limit 5 and reserve 2 a request is below the limit, above it
(by growing and by allocating), told so, let through after that, and at the end of its
reserve. Requests follow each other in the process without a bound.

*Shared variables.* Two processes are one that dies in each step of `sem_get`, or in the middle
of an update, and one that comes then, was there before, or starts afresh in the dead one's
place; limits 1 and 2 are a
semaphore that one has wholly, that two share, and on whose limit two disagree. With a
head of 1, lengths 1 and 2 and a segment of 4, it is empty, part full and full, a
chunk is removed in front of another one that is shorter, equal or longer, and a put fails for
want of room with and without an old value of the key. `MaxExcess` bounds how much room deaths may
make a head count twice, so how far behind a segment is written; 1 is a short chunk. More processes,
more excess, and segments that are initialized by another process than their creator, with another
size, are the theorems' part (and `segment_room` has two sizes). There is no symmetry where `Served` is
checked; `segment_room`, a safety property, has that of processes and of keys.

*Links.* Two hosts for one user and two users for one host are all that keys and changes of a
user tell apart. Three handles are a default, another one and a third; four structures are three links
of a request and a persistent one from before. The limits 2 and 1, or none, are reached by each kind of
link and by both together. The objects are symmetric: nothing compares them but for equality.

### Fairness

*Interpreter.* `Termination` assumes weak fairness of the
next-state relation as a whole: one process executes one script and keeps going; nothing else
is scheduled. It is claimed for runs in which operands are true a bounded number of times,
since a script may well loop for ever: what is shown is that no loop is repeated on account
of a stale flag or token. Deadlock is not checked for the interpreter, as a script stops, and
`Termination` says that it stops at its end. The hash table's runs check deadlock.

*Request.* `RequestEnds` assumes weak fairness of what the program does next by itself
(`ProgramStep`; what a script decides is not part of it: it may compute for ever, and
the next request may never come). A C function that calls functions of the script returns
in the end (strong fairness of `FunctionReturns`, as the calls it makes disable it again and
again). The timer measures processing time, so an armed timer expires, and it is not
always the few instructions at the entry and exit of a call, or the sending of the header,
in which it does: strong fairness of `ExpireAnywhere`. That is the assumption under
which the lost signal of `request_lost` is made up for by the next one. `RequestEnds`
excepts two requests that the code lets run for ever: one without a limit (`timer` is
`"off"`), and one that a long jump took out of `php3_header`. There `header_is_being_sent`
stays set, fatal errors are ignored from then on, and a shutdown function that loops is ended
by no signal. In all the request's runs deadlock is not checked, as the process may have
exited; nor is it in the memory manager's, for the same reason.

*Shared variables.* `Served` is that whoever waits in `sem_get` or `sem_acquire` is served. The
kernel keeps those who wait for a semaphore in a queue and wakes them in turn: strong fairness of
`Lock` and `Acquire` for each process. A process that is not waiting runs (weak fairness of its
steps within `sem_get` and within a call), the kernel undoes a dead one and the server replaces it
(weak fairness too), and scripts end (strong fairness of `EndScript`, for a script may go
in and out of calls before it does). A call on a torn segment may follow lengths that lead
in a circle, and not come back by itself: the time limit ends it, whose signal comes a second time
three seconds after it was not heeded and then ends the process (`main.c:516`); this is weak fairness of a
death of such a call. It is not justified for a script that set its limit to none, which may keep
the semaphore for as long as it hangs. Nothing is assumed of `sem_release`: a script need not
call it, and `EndScript` has to give up what it holds. Two things are excepted. Somebody who
holds the semaphore and waits for more of it may wait for ever, as on any counting semaphore.
And the property is for kernels that undo at once, for the reason told below.

### Where code and documents differ

* `hash_collision`: `_php3_hash_del_key_or_index` compares keys only where both are present;
  the deletion of a string key may take an index with the same hash. Through
  `_php3_hash_apply` that deletes an entry the callback did not choose.
* `engine_condition`: the first token of a `while` that is repeated is `CONTINUED_WHILE` until
  the condition has been evaluated. A recursive call from the condition meets it and gets a
  parse error, where a C loop would work. `for` is safe, as the token is reset before its
  condition, and so is `do`.
* `request_lost`: the handler of SIGPROF sets `shutdown_requested`, and `call_user_function`
  tests it at one place and overwrites it at a later one. A time limit that expires in between
  does not abort the script; the timer's next shot, three seconds of processing later, may.
* `request_client`: the document, and the comment in `phplex`, say that shutdown functions are
  called when the client has gone away. `call_user_function` refuses, since the script was
  ended by `ABNORMAL_SHUTDOWN`. The same test keeps them from being called after `exit`, an
  error and the time limit.

* `memory_errormsg`: the change log says that a bug in the memory limit was fixed "in cases where
  `$php_errormsg` was also used". A script that appends to `$php_errormsg` with `track_errors`
  set, and exceeds the limit by that, still meets one: `erealloc` calls `php3_error`, which
  assigns to the variable and so frees the block that `erealloc` then returns.

* `segment_room`: `php3int_put_shmdata` says "not enough memeory" where `free` is too small. It
  writes `end` before `free`, and `php3int_remove_shmdata` writes `free` before `end`, so that a
  process which dies in between leaves a `free` that is too large, for good; a later put passes the
  test and copies its value behind the segment. `RoomIsThere` says that this is the only way, and by
  how much.

More that the models show, without a run of their own:

* After the index -1 (`ULONG_MAX`) `nNextFreeElement` is 0, which may be in use; appending then
  fails. That is why `NextFreeIsFree` is proved where `M - 1` is not an index, and is no property of
  the run, whose instance has one.
* The comment in the handler of the time limit says "we're here for a second time". The test is
  whether any shutdown has been requested, so after `exit`, an error or a HEAD request's header
  the first signal ends the process, without cleanup.
* The pointer to the table of shutdown functions is not reset when it is freed, only in the
  modules' part of the next startup. A request that is cut short before that destroys the table
  again (`Crash`). `CompleteWhileRunning` shows that no script ever sees the freed table.
* The comment at `sysvsem.c:214` describes the kernel that undoes a dead process semaphore by
  semaphore, and says that this "doesn't actually matter in practice". Let the first user of a
  fresh semaphore die between taking SETVAL and setting SEM. If SETVAL is undone first, the next
  process finds USAGE at 2 and does not set SEM, and when USAGE is undone nobody looks again: SEM stays zero and
  `sem_acquire` blocks, until all users are gone. `IsCountingSemaphore` holds of that kernel as
  well (too few acquire it, never too many); `Served` is why it asks for the other one.
* A segment that is created by a process which dies before `magic` is written is initialized by
  the next one, with the size that one asks for and not with the segment's own.
* `php3int_put_shmdata` looks for room before it takes the old value out, so that in a
  full segment a variable cannot be replaced, not by a shorter value either.
* `php3int_remove_shmdata` moves the chunks behind the removed one by `memcpy`, also where they are
  longer than it and the regions overlap. The manual (doc/function.shm-remove-var.html:111) says that
  one variable is removed; C does not say what becomes of the others (`Move`, `torn`).
* Where the client library has `mysql_change_user` there is one key for all persistent links
  (`mysql.c:417`). The manual (doc/function.mysql-pconnect.html:184) says that a persistent link is
  looked for "that's already open with the same host, username and password"; `mysql_pconnect` to
  another host returns the link to the first one. With `mysql.allow_persistent` off, the same key is
  used for links of the request, and then not even the user is changed. `IsLinkPool`
  does not hold there, and is claimed for libraries without it (`~ini.change_user`).
* After `mysql_close` of the default link `default_link` keeps its number, so functions that are
  given no link fail; the manual (doc/function.mysql-select-db.html:122) says that one would be
  opened if none is. In `LinkPool` a link that was closed is not the current one any more, and what
  functions without a link do then is left out: `IsLinkPool` does not say that the code does it right.
* If a lost persistent link cannot be connected again its structure is freed, and other handles
  of the request still point to it (`stale`; such a handle leads to "lost" in `LinkPool`).

## Theorems

`HashTableProofs` proves for every set of buckets, keys, values and indexes, every hash
function, width of integers and sequence of table sizes that satisfies the assumptions of
`HashTable` (buckets fewer than values of an unsigned long, sizes increasing, the values of
decimal keys within the indexes, strings that are neither the null pointer nor an index):

| theorem | says |
|---|---|
| `TypeCorrect` | `TypeOK` is invariant |
| `ListCorrect` | the list visits each element once, the same in both directions |
| `ChainCorrect` | each bucket is in the chain of its hash, once |
| `LookupCorrect` | the lookup of the key of an element finds that element; no two elements have the same key |
| `HeapCorrect` | what the table owns is what its elements need |
| `NextFreeCorrect` | if `M - 1` is not a usable index, the next free index is free |
| `WalksAreSafe`, `ApplyDeletes` | if no string hashes to an index in use, walks and the cursor do not dangle and a walk deletes what was chosen |
| `TableIsOrderedMap` | under the same condition the table implements `OrderedMap` |

The argument is one inductive invariant, `IInv`: types (`TableType`), the list as a walk that
contains every allocated bucket once (`ListInv`), chains that partition the buckets by hash
(`ChainInv`), keys that occur once (`KeyInv`), owned memory (`HeapInv`) and the cursor
(`CursorOK`). None of them is inductive alone: an insertion knows that a key is new because
the lookup looked at its chain, which `ChainInv` makes the only place where it could be; a
deletion in the list is right because the chain and the list hold the same bucket; `HeapInv`
needs that no two elements share a bucket. `SafeInv` adds the position of a walk (`WalkInv`)
and the range of indexes.

The first six theorems assume `[]WalkOK`: that `_php3_hash_apply` does not read a bucket which
its own deletion has freed. `hash_collision` shows the code can, when a string key and an
index collide; `WalksAreSafe` shows that it cannot otherwise, and needs no assumption on walks.

`TableIsOrderedMap` goes from there. The refinement mapping of `HashTableRefines` walks the list by
a recursive function (`Visited`); `VisitedIs` shows that this is the list of `ListInv`, whichever
walk one takes, by the smallest position where they would differ. From then on the proof does
not look at the mapping: `Shown(w)` says that entry `i` is the bucket `w[i]`, that a pointer is at
the position `k` at which the list has it (`At`), and `Views` that this is so for the list there
is, which `ViewShows` derives from `IInv`. Then there is a lemma for each operation: which list
comes of the one before (`TailList`, `ShorterList` and `SortedList`, from the proof of `ListInv`), and
what entries and positions that gives. Keys are where the two levels differ most: `KeysDiffer`
says that buckets with different `<<arKey, h>>` have different keys in the dictionary, which needs
that a decimal string is never stored as one (`IdForms`), and `NoVictims` that a deletion that
stops nowhere in its chain had nothing to delete.

A deletion by a string key may stop at an index of the same hash; in the dictionary that is
the deletion of another key, which some call of `Delete` is. So the condition on collisions is
needed only for walks, whose `WalkStep` deletes at its own position.

`RequestProofs` proves for every number of nested calls (`MaxCalls`, at least one) and of
shutdown functions (`MaxRegistered`), whatever of time limit, lost client and interruption
the constants allow, and with no other assumption:

| theorem | says |
|---|---|
| `TypeCorrect` | `TypeOK` is invariant |
| `TerminateCorrect` | the end of a function ends the parser of that function and no other |
| `CompleteCorrect` | parsers run only between a complete startup and the teardown |
| `NothingLeftCorrect` | the teardown leaves nothing, even of an interrupted startup |
| `AbortSticksCorrect` | nothing takes back a requested abort, but a signal in a window |
| `FunctionsCalledCorrect` | shutdown functions are called, unless an abort prevents it |

The inductive invariant `IInv` consists of types, `FrameInv` (the activations), `TopInv` (the
innermost one) and `StageInv` (the stages). `TerminateIsOwn` alone says nothing of what
`Restore` assigns: it is the value the frame saved, which `FrameInv` bounds, because a call is
only made from a place where `TopInv` excludes `TERMINATE`; and that the frame below is one
that was `calling` is `FrameInv` again. `NothingLeft` needs that what is initialized lies ahead
of the teardown (`StageInv`), and `CompleteWhileRunning` that a startup's steps so far have
their flags, from `php3_init`'s reset on. Two more invariants, relative to `IInv`, are for the
action properties: `WindowInv` says that an abort at a window, or where the script acts, is the
timer's and has sent the header; `WalkInv` that shutdown functions not called yet are
ahead of `_php3_hash_destroy`'s walk.

`AllocProofs` proves for every finite set of blocks, every set of sizes, every limit and
reserve and every bound of the cache:

| theorem | says |
|---|---|
| `Inductive` | `IInv` is invariant |
| `TypeCorrect` | `TypeOK` is invariant |
| `ListCorrect` | the list has every block once, the same in both directions |
| `CacheCorrect` | what is cached is in the list, in one slot, of the slot's size |
| `HandedOutCorrect` | what the program holds, or is about to get, is not freed and not in the cache |
| `LimitCorrect` | no more than the limit and the reserve is allocated |
| `AccountedCorrect` | in a request, the amount counted is the sum of the sizes of its blocks |
| `NothingLeftCorrect` | the end of a request frees every block |

That the count is right is about a sum over the blocks. It is stated without a fold: `Bytes` is the
set of all pairs of a block and a number up to its size, and the lemmas `BytesWithout` and
those that use it say what a block added, freed or resized does to its cardinality.

All of them assume `~ErrormsgGrows`: `memory_errormsg` shows what happens otherwise. `IInv` is the
conjunction of what is checked and of `CallInv`, which says that a block whose allocation waits
for the error belongs to nobody yet, and that nothing is held while the memory is freed. The
list is the hard part: `IsList` says that there is a walk which visits each block once, and the
lemmas `LinkIsList`, `UnlinkIsList` and `PopIsList` construct the walk after an insertion, after
a removal anywhere and after freeing the head. That no block is freed twice needs list and
cache together, since a cached block is in both: `FreeCached` takes it out of the list, and the
slots already gone through are not in `Slots` any more. `Checked` is the lemma for
`CHECK_MEMORY_LIMIT`, of which `emalloc` and `erealloc` are two uses.

`SharedVariablesProofs` proves of the semaphore, for every finite set of processes, every set of
limits and both kernels:

| theorem | says |
|---|---|
| `SemTypeCorrect` | no semaphore is negative, SETVAL is zero or one |
| `ImplementsSemaphore` | what scripts see is `CountingSemaphore`, each system call being a step of it or none |

The argument counts what the kernel would give back if everybody died. `PermitInv`: SEM and the
undo values for it together are `limit`; `UsageInv`: USAGE is the number of processes with an
undo value for it, alive or dead; `LockInv`: one process at most, alive or dead, has SETVAL. So a
process at `SetMax` is the only one with an undo value for USAGE (`SetInv`), hence nobody has acquired anything, and
changing the limit is a step of the abstract semaphore. That invariant is about undo values and
not about processes, so it does not care how the kernel undoes them. Permits are a sum over
processes; the proofs count pairs of a process and a number instead, so that facts on
cardinalities suffice (`OneMore`, `Fewer`, `NoneLeft`).

`SysVShmProofs` proves for every set of processes and variables, all positive lengths and sizes:

| theorem | says |
|---|---|
| `ShmTypeCorrect` | `ShmTypeOK` is invariant |
| `WritesFit` | `RoomIsThere` is invariant: unless the segment is torn, a chunk ends behind the segment by no more than `excess`, so not at all if nobody died where room is counted twice |
| `WalksEnd` | `WithinSegment` is invariant: unless the segment is torn, a walk over the chunks ends at `end`, also where `end` and `free` do not agree |
| `SegmentIsStore` | what the calls write is `SharedStore`, each write being a step of it or none; it becomes unknown by a move that is broken off or overlaps, and by nothing else |

The first invariant, `ShmInv`, is an account: `end + free` is at most the size and the `excess`, plus what an update
has added to `free` and not yet taken from `end`, or to `end` and not from `free`, which the place of the
call says. A death moves that debt into `excess`, or finds none. `excess` grows by nothing but such
deaths and a head of another size (`Die`, `InitializeFree`), and that is what the theorem says more
than a bound. That the debt is one call's needs that calls
take turns (`OneCall`). The second, `StoreInv`, is about what the offsets lead to: as many
chunks as are in front of `end` fill the space up to it exactly, in a removal the victim is among
them at the place the call read, and but for the victim each key occurs once. `UsersInv` says
who has the segment attached at which place of a call. With these, each write to `head` or a
chunk either leaves the content as it is, or changes it under the key of the call: the write of
`end` in `php3int_remove_shmdata`, with the move that follows, is where the old value disappears,
and the write of `end` in `php3int_put_shmdata` is where the new one appears. `WalksEnd` and `SegmentIsStore` assume that
there is a process, and the latter a key: `Content` is a function on the keys, and without keys
a known store would not differ from one of which nothing is known.

`SharedVariablesProofs` proves for the composition of both, with no more assumptions than theirs:

| theorem | says |
|---|---|
| `SharedSemaphore` | the whole system implements `CountingSemaphore` |
| `CallsTakeTurns` | the whole system implements `SysVShm`, one caller at a time |
| `TypeCorrect` | `TypeOK` is invariant |
| `SharedWritesFit` | `RoomIsThere` is invariant of the whole system |
| `SharedWalksEnd` | so is `WithinSegment` |
| `SharedStoreKept` | to scripts that take turns by the semaphore, the segment is a `SharedStore` |

The semaphore's part of a behaviour is a behaviour of `SysVSem` (deaths and calls stutter or are steps of
it), so its invariant holds. `Turns` says that who is in a call has all `limit` permits; by
`PermitInv` two who do are one. Then every step maps to one of `SysVShm`, and the last three
theorems are instances of `WritesFit`, `WalksEnd` and `SegmentIsStore`: nothing of the segment's
proof is repeated.

`MySQLLinksProofs` proves for every set of objects, every details, every number of handles and
all settings of php3.ini whose limits are natural numbers or -1:

| theorem | says |
|---|---|
| `TypesHold` | `TypeOK` is invariant |
| `NoneIsLost` | `LinksAreHeld` is invariant: an object in use is the link of one handle or of one persistent entry |
| `LimitsHold` | `WithinLimits` is invariant: no more links than php3.ini allows, over all requests |
| `LinksAreAPool` | the links are `LinkPool` where the client library has no `mysql_change_user`: each call, each end of a request and each lost link is a step of it or none, and a handle leads to what its last call asked for |

The invariant `LinksInv` says that an object in use is the link of one handle or of one entry of
the persistent list, and not of both (`PersistentLinks`, `OwnLinks`), so that closing or losing
one takes nothing from another; that the index has each such handle under one key (`IndexOfOwn`);
that a handle of a persistent link leads to one that is in the list, unless
that was given up (`SharedHandles`, `stale`); and that `num_persistent` and `num_links` are the
numbers of such links (`Counted`). `HeldInv` adds that there are no other objects, and that the
counters are within the limits. `ByDetails` is where `change_user` matters: the index has a link
under what it was opened with, and a handle leads to what was asked of it. With one key
for all persistent links it is not kept, and no other part of the proof of the pool is concerned. The pool
counts links where the code has counters, so its limits come down to `Counted`.

`InterpreterProofs` proves for every set of scripts (each a sequence of tokens that the scanner
returns, of which the last is the end of the file), and every number of elements of an array that is walked:

| theorem | says |
|---|---|
| `TypesHold` | `TypeOK` is invariant: the parser is in the token cache, every token has its own offset |
| `FlagsAgree` | `ExecuteInSync` is invariant: `Execute` is what the flags say |
| `StacksCorrect` | `StacksFollowParser` is invariant: between statements, the stacks are as high as what is around the parser needs |

A script is any sequence of such tokens, also one that is no program. What makes the stacks right is
the grammar: the actions of a rule push and pop in pairs, but the parser leaves a rule to
recognize others, possibly through `seek_token` at another place of the text, through a call or
through a parser within the parser, before it comes to the second action of a pair. The proof
gives each symbol an `Effect` on a *height* (the kinds of semantic values, the lengths of `css` and
`switch_stack`, the levels of loops of this function and of those that wait, and how far a call
is), and shows rule by rule that the symbols of a rule have together the effect of
the symbol they stand for (`BlockRule` to `RuleLeads`). So what the parser has still to recognize
is a run of heights from the present one to the bottom (`ExpandRuns` keeps it so), and the
invariant `IInv` says that the engine is at the height the parser is at (`StructInv`), the flags
agree (`ExecuteInSync`), and all offsets that are remembered on any stack are those of
tokens in the cache (`InputInv`), also after `tc_switch` has moved them. An action may then
rely on what it pops. One symbol has two effects: `possible_function_call` and the end of a
call, which leave the function if it was entered and nothing if it was skipped; `CallTaken`
turns one into the other where the function is entered.

`StacksFollowParser` counts symbols in `parse`, at all levels of `suspended`. `EffectCounts` says
which symbols move which height, `Summed` adds this up along a run, and `LevelsSummed` over the
parsers that wait. The number of functions is that of the marks on `for_stack`, for which there is
an invariant of its own, `MarksInv`.

`InterpreterLoopsProofs` proves for the same scripts:

| theorem | says |
|---|---|
| `LoopInvHolds` | `LoopInv` is invariant: the engine holds what the stage of the parser says |
| `ForsFollow` | `ForStackFollowsLoops` is invariant: between statements, the fors on the stack are those that are being iterated, in order |
| `EndLeavesNothing` | a script that ran to its end has left no token `CONTINUED_FOR` or `IC_FUNCTION`, and nothing on `for_stack`, `css` and the stack of functions |

Heights do not suffice here. Whether `for_post_statement` pushes, pops or leaves `for_stack` alone
depends on `Execute`, on a break that may be for an outer loop, and on the offset on top of the
stack; and whether it did so rightly shows only when the loop was left. So the run of heights
becomes a run of *stages*. A stage says what is among the semantic values (`w`: values, offsets,
calls that were asked for, entered or skipped), what each flag on `css` was saved for and how
many loops there were (`e`, `n`), what is on `for_stack` and the types of the functions entered
(`l`, `f`), a token that the parser is behind (`p`), and the moment within a call, a `for` that is
repeated or `call_user_function` (`m`, `o`). `Takes` says what a symbol does from the stage before
it to the one behind it, `Way` that the symbols left lead to the end, and `LoopInv` that the
engine holds what the present stage says (`Fits`), and for the parsers that wait likewise
(`FramesFit`). As with heights, the symbols of each rule lead where the symbol goes for which
they stand (`Suits`, one lemma for a rule).

Four parts of `LoopInv` are what makes it inductive:

* The order of the text. `for_stack` has on its top an offset that the parser is behind
  (`l[1] <= p`), and the next token is one behind `p` (`PlaceFits`); a loop seeks back to a token
  that is behind where its statement began (`t.offset > b.p`). So a `for` that is met for the first
  time is never taken for the one on top of the stack, and the one that is repeated is
  (`Iterating`). A call pushes -1, so a recursion starts anew.
* The flags (`FlagsFit`): what is executed is in loops and calls that were started while
  executing, and a branch of an `if` that is executed, or may be, is in what is executed. So a
  loop that is repeated because its body was executed will be executed again.
* Jumps (`ChangeFits`): as long as a `break` or `continue` is under way the function has not
  returned, and the loop it is for, with those in it that the parser is in, was started while
  executing. So a loop that takes a `continue` for its own will be executed again, too.
* Turned tokens (`TokensFit`): a token is `CONTINUED_FOR` or `IC_FUNCTION` only from the action that
  turns it to the one that turns it back, a few symbols later; in between the moment says so,
  and nothing else is turned. It is the token that the parser reads next.

The way to the end of the function then gives the property by counting. Along it, `for_stack` loses an entry exactly at each `for_post_statement` whose token is
`CONTINUED_FOR`, and it is that token's offset (`LoopsFollow`, `StackFollows`). Where the function
ends is the first `cs_functioncall_end` that was entered, not one that was skipped, and only the
stages tell: `CallsTaken` shows that under `CallsEntered` every one in `parse` was entered, as their
number is that of the functions (`EveryPlace`).

`ForStackFollowsLoops` has `CallsEntered` as a condition, as `StacksFollowParser` has it for the
levels of loops. The grammar accepts a declaration where a call has just been skipped
(`possible_function_call`), and parses it as the body of the function called: `0 && f() function g() {
for (...) ... }` is a text the parser takes. In there the first call's end in `parse` is not that of the
current function, so that what is before it says nothing of `for_stack`. The invariant `LoopInv`
holds there as well.

Sums and positions are recursive, or cardinalities that grow by one. The proof system cannot
apply its induction theorems here, which take an operator as a parameter, but it can show that a
smallest counterexample does not exist: `Least` in `InterpreterProofs`, and what follows from
it, is induction over the natural numbers, from the library's `WFMin`.

## Only model-checked

* That the engine does what the program says (`IsStructured`): its abstract specification is a
  recursive definition over programs, which no prover here can take apart for every program.
* `TokensRestored`, as far as it is about `while` and `do`. `EndLeavesNothing` proves it of
  `CONTINUED_FOR` and `IC_FUNCTION`, which are turned back before anything else is executed. The
  first token of a `while` stays `CONTINUED_WHILE` while its condition is evaluated, which may call
  functions whose fors exchange tokens (`tc_switch`). That none of these is the token in question
  needs to know which tokens of the text lie between two offsets that a parser holds, and how they
  were recognized; stages know the order of the tokens only. (`engine_condition` is what happens
  if the condition comes to the same loop.)
* That a request ends (`RequestEnds`), that a script does (`Termination`), that who waits for a
  semaphore is served (`Served`): liveness is out of the prover's reach.

## Plan

In the order of importance for the system:

1. *Hash table* (done): `OrderedMap`, `HashTable`, invariants and refinement proved.
2. *Engine* (done for statements, loops, functions and nested parsers; flags, stacks and fors proved):
   to come are `exit` and errors within nested parsers, token caches of `include` and `eval`,
   `global` and `static` as far as they change control, and a proof that the tokens of `while` and
   `do` are restored.
3. *Request life cycle* (done, invariants proved): to come are the parsers of `auto_prepend` and
   `auto_append`.
4. *Memory manager* (done, invariants proved): to come are the steps of the list operations one
   by one, with the handler of SIGPROF in between, and the composition with `HashTable`, whose
   insertion may be entered again by the error of its own allocation.
5. *Semaphores and shared variables* (done, invariants and two refinements proved): to come are
   kernels whose calls fail, a set that is removed while it is in use, and the composition with
   `Request`: a script that waits for a semaphore does not come back to `phplex`, where the time
   limit's request is looked at.
6. *Links and resource lists* (done for MySQL, refinement proved): to come are results, whose
   handles outlive their links.
7. *Variables*: references between tables, and `array_walk` and `usort` whose callback changes
   the array that is walked; composes with `HashTable`'s walk.

## Not modelled

* `variables.c` and the operators on values: what they do to tables is `HashTable`'s; the rest is
  conversion of numbers and strings, which TLC cannot enumerate to any use.
* The scanner, the configuration reader, output, source highlighting and the debugger: input
  and output of text.
* The extensions other than the three above (some hundred functions, most of them one
  call of a library each), the regular expression libraries, which are third-party code, and
  the SAPI front ends, whose other side is not in the repository.
* The converter of PHP 2 scripts, a separate program with an early copy of parser and scanner.

These are most of the lines of the repository. What the models cover is the state
that survives a statement, a call, a request or a process.
