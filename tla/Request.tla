------------------------------- MODULE Request -------------------------------
(***************************************************************************)
(* The life of a request in the Apache build: main.c's startup, shutdown,  *)
(* errors and execution time limit, phplex()'s test of shutdown_requested, *)
(* call_user_function() of language-parser.y, and the shutdown functions   *)
(* of basic_functions.c.                                                   *)
(*                                                                         *)
(* shutdown_requested tells phplex() to report the end of the file instead *)
(* of the next token.  It is written by errors and by exit, by the handler *)
(* of SIGPROF at any moment (Expire), and by call_user_function(), which   *)
(* saves it, runs a parser over a function, and restores it.  The value    *)
(* TERMINATE ends that parser only.                                        *)
(*                                                                         *)
(* A script is what its tokens may do to this state, in any order.  An     *)
(* activation of phpparse() is a frame: the main script, or a function     *)
(* called by call_user_function().  php3_parse()'s optional parsers before *)
(* and after the main one are not modelled; safe mode is off.              *)
(***************************************************************************)
EXTENDS Integers, FiniteSets, Sequences

CONSTANTS Limits,        \* max_execution_time: subset of {"off", "on"}
          Interruptible, \* stages in which Apache may time out the connection
          MayAbort,      \* may the client go away?
          Endings,       \* how scripts end themselves: subset of {"error", "exit"}
          MaxCalls,      \* a bound: calls of call_user_function in progress
          MaxRegistered  \* a bound: shutdown functions of a request

ASSUME BoundAssumption == MaxCalls \in Nat \ {0} /\ MaxRegistered \in Nat
ASSUME LimitAssumption == Limits # {} /\ Limits \subseteq {"off", "on"}

VARIABLES
  alive,                  \* the process
  stage, step,            \* idle, startup, script, done, functions, teardown
  initialized,
  shutdown_requested,
  php_connection_status, aborted, ignore_user_abort,
  timer,                  \* ITIMER_PROF
  expired,                \* history: it has expired since the request began
  header_only, php3_HeaderPrinted, header_is_being_sent,
  frames,                 \* activations of phpparse, the last one is running
  names,                  \* user_shutdown_function_names
  registered, due,        \* number of its entries; and when it is destroyed
  p,                      \* the walk of _php3_hash_destroy, 0 at its end
  called                  \* entries whose function was called

connection == <<php_connection_status, aborted, ignore_user_abort>>
header == <<header_only, php3_HeaderPrinted, header_is_being_sent>>
functions == <<names, registered, due, p, called>>
clock == <<timer, expired>>
request == <<initialized, connection, clock, header>>
vars == <<alive, stage, step, shutdown_requested, request, frames, functions>>

\* php3_request_startup and php3_request_shutdown, in the order of the code.
\* INIT_ENVIRONMENT, set by the scanner and cleared without more, is left out.
Startup ==
  <<"set timeout", "reset", "MEMORY_MANAGER", "register cleanup", "globals",
    "REQUEST_INFO", "SYMBOL_TABLE", "TOKEN_CACHE", "CSS", "FOR_STACK", "SWITCH_STACK",
    "INCLUDE_STACK", "FUNCTION_STATE_STACK", "VARIABLE_UNASSIGN_STACK", "modules",
    "INCLUDE_NAMES_HASH", "LIST", "SCANNER">>
Teardown ==
  <<"LIST", "SYMBOL_TABLE", "TOKEN_CACHE", "CSS", "FOR_STACK", "SWITCH_STACK",
    "INCLUDE_STACK", "FUNCTION_STATE_STACK", "VARIABLE_UNASSIGN_STACK", "REQUEST_INFO",
    "INCLUDE_NAMES_HASH", "SCANNER", "MEMORY_MANAGER", "unset timeout">>
Calls == {"set timeout", "reset", "register cleanup", "globals", "modules"}
Parts == {Startup[i] : i \in DOMAIN Startup} \ Calls

\* From here on Apache calls php3_request_shutdown at the end of the request.
CleanupRegistered == stage # "startup" \/ \E i \in 1 .. step - 1 : Startup[i] = "register cleanup"

Top == frames[Len(frames)]
At(place) == alive /\ frames # <<>> /\ Top.at = place
Goto(place) == frames' = [frames EXCEPT ![Len(frames)].at = place]
Return == frames' = SubSeq(frames, 1, Len(frames) - 1)
Script == [kind |-> "main", original |-> "NO", at |-> "lex"]
Frame(kind, place) == [kind |-> kind, original |-> shutdown_requested, at |-> place]

\* The next action is the running script's.
InAction == At("act") /\ stage \in {"script", "functions"}

-----------------------------------------------------------------------------
(* Errors, exit and output *)

\* php3_header: sends the header once; a HEAD request ends there.
HeaderEnds == header_only /\ ~php3_HeaderPrinted

\* php3_error(E_ERROR), with display_errors on.  Nothing happens while
\* another shutdown is requested, or while the header is being sent.
Fatal ==
  IF initialized = {} \/ shutdown_requested # "NO" \/ header_is_being_sent
  THEN UNCHANGED <<shutdown_requested, header>>
  ELSE /\ shutdown_requested' = IF HeaderEnds THEN "NORMAL" ELSE "ABNORMAL"
       /\ php3_HeaderPrinted' = TRUE
       /\ UNCHANGED <<header_only, header_is_being_sent>>

FatalError ==
  /\ "error" \in Endings
  /\ InAction /\ Goto("lex") /\ Fatal
  /\ UNCHANGED <<alive, stage, step, initialized, connection, clock, functions>>

Exit ==
  /\ "exit" \in Endings
  /\ InAction /\ Goto("lex")
  /\ shutdown_requested' = "ABNORMAL"
  /\ php3_HeaderPrinted' = (php3_HeaderPrinted \/ ~header_is_being_sent)
  /\ UNCHANGED <<alive, stage, step, initialized, connection, clock, header_only,
                 header_is_being_sent, functions>>

\* The first output of the script.
SendHeader ==
  /\ InAction /\ ~php3_HeaderPrinted /\ ~header_is_being_sent
  /\ Goto("sending")
  /\ header_is_being_sent' = TRUE
  /\ UNCHANGED <<alive, stage, step, initialized, shutdown_requested, connection, clock,
                 header_only, php3_HeaderPrinted, functions>>

HeaderSent ==
  /\ At("sending") /\ Goto("lex")
  /\ shutdown_requested' = IF HeaderEnds THEN "NORMAL" ELSE shutdown_requested
  /\ php3_HeaderPrinted' = TRUE /\ header_is_being_sent' = FALSE
  /\ UNCHANGED <<alive, stage, step, initialized, connection, clock, header_only, functions>>

-----------------------------------------------------------------------------
(* What happens beside the program *)

\* Mutant: SIGPROF stays blocked after the first.
Expire_Once ==
  /\ alive /\ timer = "on" /\ ~expired /\ expired' = TRUE
  /\ IF shutdown_requested = "NO"
     THEN /\ Fatal /\ UNCHANGED <<alive, timer>>
          /\ php_connection_status' = php_connection_status \cup {"TIMEOUT"}
     ELSE /\ alive' = FALSE
          /\ UNCHANGED <<shutdown_requested, header, php_connection_status, timer>>
  /\ UNCHANGED <<stage, step, initialized, aborted, ignore_user_abort, frames, functions>>

\* php3_timeout, the handler of SIGPROF; it starts the timer again.
Expire ==
  /\ alive /\ timer = "on"
  /\ IF shutdown_requested = "NO"
     THEN /\ Fatal
          /\ php_connection_status' = php_connection_status \cup {"TIMEOUT"}
          /\ expired' = TRUE
          /\ UNCHANGED alive
     ELSE /\ alive' = FALSE
          /\ UNCHANGED <<shutdown_requested, header, php_connection_status, expired>>
  /\ UNCHANGED <<stage, step, initialized, aborted, ignore_user_abort, timer, frames, functions>>

\* Apache, or a failing write, notices that the client is gone.
Abort ==
  /\ MayAbort /\ alive /\ stage # "idle" /\ ~aborted
  /\ aborted' = TRUE
  /\ UNCHANGED <<alive, stage, step, initialized, shutdown_requested, php_connection_status,
                 ignore_user_abort, clock, header, frames, functions>>

\* Apache cleans up the request's pool, and calls php3_request_shutdown.
Cleanup ==
  /\ stage' = "functions" /\ step' = 1
  /\ due' = registered
  /\ p' = IF names = "table" THEN 1 ELSE 0
  /\ frames' = <<>>
  /\ UNCHANGED <<names, registered, called>>

\* Apache's hard timeout leaves whatever is going on, by a long jump.
Interrupt ==
  /\ alive /\ stage \in Interruptible
  /\ IF CleanupRegistered THEN Cleanup
     ELSE stage' = "idle" /\ step' = 1 /\ UNCHANGED <<frames, functions>>
  /\ UNCHANGED <<alive, shutdown_requested, request>>

-----------------------------------------------------------------------------
(* php3_request_startup *)

NextRequest ==
  /\ alive /\ stage = "idle"
  /\ stage' = "startup" /\ step' = 1
  /\ header_only' \in BOOLEAN /\ aborted' = FALSE
  /\ UNCHANGED <<alive, initialized, shutdown_requested, php_connection_status,
                 ignore_user_abort, clock, php3_HeaderPrinted, header_is_being_sent, frames,
                 functions>>

SetTimeout ==
  /\ timer' \in Limits /\ expired' = FALSE
  /\ UNCHANGED <<initialized, shutdown_requested, connection, header, names>>
Reset == initialized' = {} /\ UNCHANGED <<shutdown_requested, connection, clock, header, names>>

GlobalVariables ==
  /\ shutdown_requested' = "NO"
  /\ php_connection_status' = {} /\ ignore_user_abort' = FALSE
  /\ header_is_being_sent' = FALSE
  /\ UNCHANGED <<initialized, aborted, clock, header_only, php3_HeaderPrinted, names>>

\* Mutant: php3_rinit_basic keeps the pointer.
RequestStartupFuncs_Basic ==
  /\ php3_HeaderPrinted' = FALSE
  /\ UNCHANGED <<initialized, shutdown_requested, connection, clock, header_only,
                 header_is_being_sent, names>>

\* php3_init_head and php3_rinit_basic, among the modules' functions.
RequestStartupFuncs ==
  /\ php3_HeaderPrinted' = FALSE /\ names' = "NULL"
  /\ UNCHANGED <<initialized, shutdown_requested, connection, clock, header_only,
                 header_is_being_sent>>

Initialize(part) ==
  /\ initialized' = initialized \cup ({part} \cap Parts)
  /\ UNCHANGED <<shutdown_requested, connection, clock, header, names>>

StartupStep ==
  /\ alive /\ stage = "startup"
  /\ CASE Startup[step] = "set timeout" -> SetTimeout
       [] Startup[step] = "reset" -> Reset
       [] Startup[step] = "globals" -> GlobalVariables
       [] Startup[step] = "modules" -> RequestStartupFuncs
       [] OTHER -> Initialize(Startup[step])
  /\ IF step < Len(Startup)
     THEN stage' = stage /\ step' = step + 1 /\ UNCHANGED frames
     ELSE stage' = "script" /\ step' = 1 /\ frames' = <<Script>>
  /\ UNCHANGED <<alive, registered, due, p, called>>

\* fdopen() fails: there is no script to be parsed.
NoScript ==
  /\ alive /\ stage = "startup" /\ step = Len(Startup)
  /\ stage' = "done" /\ step' = 1
  /\ UNCHANGED <<alive, shutdown_requested, request, frames, functions>>

-----------------------------------------------------------------------------
(* phpparse *)

\* Mutant: the end of a function is not reset.
AfterEnd_Keeps == shutdown_requested
AfterEnd == IF shutdown_requested = "TERMINATE" THEN "NO" ELSE shutdown_requested

\* phplex: the end of the file, or a token.
phplex ==
  /\ At("lex") \/ At("closed")
  /\ \/ /\ initialized = {} \/ shutdown_requested # "NO"
        /\ shutdown_requested' = AfterEnd
        /\ Goto("over")
        /\ UNCHANGED connection
     \/ /\ initialized # {} /\ shutdown_requested = "NO" /\ aborted /\ ~ignore_user_abort
        /\ shutdown_requested' = "ABNORMAL" /\ ignore_user_abort' = TRUE
        /\ Goto("over")
        /\ UNCHANGED <<php_connection_status, aborted>>
     \/ /\ initialized # {} /\ shutdown_requested = "NO" /\ (aborted => ignore_user_abort)
        /\ \/ Goto("act")
           \/ Top.kind = "main" /\ Goto("over")
        /\ UNCHANGED <<shutdown_requested, connection>>
  /\ UNCHANGED <<alive, stage, step, initialized, clock, header, functions>>

\* An action of the script that is none of the following.
Compute ==
  /\ InAction /\ Goto("lex")
  /\ UNCHANGED <<alive, stage, step, shutdown_requested, request, functions>>

set_time_limit ==
  /\ InAction /\ Goto("lex")
  /\ timer' \in Limits
  /\ UNCHANGED <<alive, stage, step, initialized, shutdown_requested, connection, expired,
                 header, functions>>

ignore_user_abort_call ==
  /\ InAction /\ Goto("lex")
  /\ ignore_user_abort' \in BOOLEAN
  /\ UNCHANGED <<alive, stage, step, initialized, shutdown_requested, php_connection_status,
                 aborted, clock, header, functions>>

register_shutdown_function ==
  /\ InAction /\ Goto("lex")
  /\ registered < MaxRegistered
  /\ names' = "table" /\ registered' = registered + 1
  /\ UNCHANGED <<alive, stage, step, shutdown_requested, request, due, p, called>>

\* A function of a module, that calls a function of the script, has returned.
FunctionReturns ==
  /\ At("calling") /\ Goto("lex")
  /\ UNCHANGED <<alive, stage, step, shutdown_requested, request, functions>>

\* The parser of the script has reported the end.
ScriptEnds ==
  /\ At("over") /\ Top.kind = "main"
  /\ stage' = "done" /\ step' = 1 /\ Return
  /\ UNCHANGED <<alive, shutdown_requested, request, functions>>

-----------------------------------------------------------------------------
(* call_user_function *)

\* Mutant: whatever shutdown is requested, the function is not called.
Refuses_Any == shutdown_requested # "NO"
Refuses == shutdown_requested = "ABNORMAL"

\* From an action of the script: array_walk, usort, call_user_func, ...
call_user_function ==
  /\ InAction \/ At("calling")
  /\ ~Refuses /\ Len(frames) <= MaxCalls
  /\ frames' = Append([frames EXCEPT ![Len(frames)].at = "calling"],
                      Frame("function", "entered"))
  /\ UNCHANGED <<alive, stage, step, shutdown_requested, request, functions>>

Begin ==
  /\ At("entered") /\ Goto("lex")
  /\ shutdown_requested' = "NO"
  /\ UNCHANGED <<alive, stage, step, request, functions>>

\* The last action of the rule for IC_FUNCTION: a test, ...
EndOfFunction ==
  /\ InAction /\ Top.kind # "main"
  /\ Goto(IF shutdown_requested = "NO" THEN "closing" ELSE "lex")

TestTerminate ==
  EndOfFunction /\ UNCHANGED <<alive, stage, step, shutdown_requested, request, functions>>

\* ... and an assignment.
SetTerminate ==
  /\ At("closing") /\ Goto("closed")
  /\ shutdown_requested' = "TERMINATE"
  /\ UNCHANGED <<alive, stage, step, request, functions>>

\* Mutant: the shutdown is not looked at.
PhpparseReturns_Always ==
  /\ At("over") /\ Top.kind # "main"
  /\ Goto("leaving")
  /\ UNCHANGED <<alive, stage, step, shutdown_requested, request, functions>>

\* phpparse() has returned: the function died, or ...
PhpparseReturns ==
  /\ At("over") /\ Top.kind # "main"
  /\ IF shutdown_requested # "NO" THEN Return ELSE Goto("leaving")
  /\ UNCHANGED <<alive, stage, step, shutdown_requested, request, functions>>

\* ... all is put back.
Restore ==
  /\ At("leaving") /\ Return
  /\ shutdown_requested' = Top.original
  /\ UNCHANGED <<alive, stage, step, request, functions>>

-----------------------------------------------------------------------------
(* php3_request_shutdown *)

\* apache_php3_module_main sends the header, if nothing else has done it.
Finish ==
  /\ alive /\ stage = "done"
  /\ shutdown_requested' = IF initialized # {} /\ HeaderEnds /\ ~header_is_being_sent
                           THEN "NORMAL" ELSE shutdown_requested
  /\ php3_HeaderPrinted' = (php3_HeaderPrinted \/ (initialized # {} /\ ~header_is_being_sent))
  /\ Cleanup
  /\ UNCHANGED <<alive, initialized, connection, clock, header_only, header_is_being_sent>>

\* Mutant: the walk does not see the end of the list.
NextEntry_NoEnd(q) == q + 1
NextEntry(q) == IF q < registered THEN q + 1 ELSE 0

\* _php3_hash_destroy of the table of shutdown functions: the next element is
\* read before the destructor calls the function.
DestroyEntry ==
  /\ alive /\ stage = "functions" /\ names = "table" /\ frames = <<>> /\ p # 0
  /\ p' = NextEntry(p)
  /\ IF Refuses THEN UNCHANGED <<frames, called>>
     ELSE frames' = <<Frame("shutdown", "entered")>> /\ called' = called \cup {p}
  /\ UNCHANGED <<alive, stage, step, shutdown_requested, request, names, registered, due>>

\* The table is freed, and the pointer is not reset.
FunctionsDone ==
  /\ alive /\ stage = "functions" /\ frames = <<>>
  /\ names = "table" => p = 0
  /\ stage' = "teardown" /\ step' = 1
  /\ names' = IF names = "NULL" THEN "NULL" ELSE "freed"
  /\ registered' = 0 /\ due' = 0 /\ p' = 0 /\ called' = {}
  /\ UNCHANGED <<alive, shutdown_requested, request, frames>>

\* Destroying the freed table of an earlier request may crash.
Crash ==
  /\ alive /\ stage = "functions" /\ names = "freed"
  /\ alive' = FALSE
  /\ UNCHANGED <<stage, step, shutdown_requested, request, frames, functions>>

\* Mutant: a flag is forgotten.
Torn_ForgetsScanner(part) == initialized \ ({part} \ {"SCANNER"})
Torn(part) == initialized \ {part}

TeardownStep ==
  /\ alive /\ stage = "teardown"
  /\ initialized' = Torn(Teardown[step])
  /\ IF step < Len(Teardown)
     THEN stage' = stage /\ step' = step + 1 /\ UNCHANGED timer
     ELSE stage' = "idle" /\ step' = 1 /\ timer' = "off"
  /\ UNCHANGED <<alive, shutdown_requested, connection, expired, header, frames, functions>>

-----------------------------------------------------------------------------
Init ==
  /\ alive = TRUE /\ stage = "idle" /\ step = 1
  /\ initialized = {} /\ shutdown_requested = "NO"
  /\ php_connection_status = {} /\ aborted = FALSE /\ ignore_user_abort = FALSE
  /\ timer = "off" /\ expired = FALSE
  /\ header_only = FALSE /\ php3_HeaderPrinted = FALSE /\ header_is_being_sent = FALSE
  /\ frames = <<>>
  /\ names = "NULL" /\ registered = 0 /\ due = 0 /\ p = 0 /\ called = {}

\* What the script decides.
ScriptStep ==
  \/ FatalError \/ Exit \/ SendHeader \/ Compute \/ set_time_limit \/ ignore_user_abort_call
  \/ register_shutdown_function \/ call_user_function \/ TestTerminate

\* What the program goes on with.
ProgramStep ==
  \/ StartupStep \/ NoScript \/ phplex \/ HeaderSent \/ ScriptEnds
  \/ Begin \/ SetTerminate \/ PhpparseReturns \/ Restore
  \/ Finish \/ DestroyEntry \/ FunctionsDone \/ TeardownStep

Next ==
  \/ NextRequest \/ ScriptStep \/ ProgramStep \/ FunctionReturns
  \/ Expire \/ Abort \/ Interrupt \/ Crash

Spec == Init /\ [][Next]_vars

\* Between a test of shutdown_requested and the assignment that it guards.
Windows == {"entered", "closing", "leaving"}

\* The process goes on; a function of a module calls functions of the script
\* a finite number of times; the clock ticks at no special place: not only
\* while a header is being sent, or in the few instructions at the start and
\* the end of a call.
ExpireAnywhere ==
  Expire /\ ~header_is_being_sent /\ (frames # <<>> => Top.at \notin Windows)
FairSpec == /\ Spec
            /\ WF_vars(ProgramStep) /\ SF_vars(FunctionReturns) /\ SF_vars(ExpireAnywhere)

-----------------------------------------------------------------------------
(* Properties *)

Shutdowns == {"NO", "NORMAL", "ABNORMAL", "TERMINATE"}
Kinds == {"main", "function", "shutdown"}
Places == {"lex", "act", "sending", "calling", "entered", "closing", "closed", "over", "leaving"}
Frames == [kind : Kinds, original : Shutdowns, at : Places]

\* Every variable has the values the code gives it; the walk of the shutdown
\* functions is at an entry or at the end.
TypeOK ==
  /\ alive \in BOOLEAN
  /\ stage \in {"idle", "startup", "script", "done", "functions", "teardown"}
  /\ step \in 1 .. Len(IF stage = "startup" THEN Startup ELSE
                       IF stage = "teardown" THEN Teardown ELSE <<"">>)
  /\ initialized \subseteq Parts
  /\ shutdown_requested \in Shutdowns
  /\ php_connection_status \subseteq {"TIMEOUT"} /\ {aborted, ignore_user_abort} \subseteq BOOLEAN
  /\ timer \in {"off", "on"} /\ expired \in BOOLEAN
  /\ {header_only, php3_HeaderPrinted, header_is_being_sent} \subseteq BOOLEAN
  /\ frames \in Seq(Frames) /\ Len(frames) <= MaxCalls + 1
  /\ names \in {"NULL", "table", "freed"}
  /\ registered \in 0 .. MaxRegistered /\ due \in 0 .. registered /\ p \in 0 .. registered
  /\ called \subseteq 1 .. registered

\* A parser that call_user_function runs over a function ends where the
\* function ends, and ends no other: TERMINATE is seen by no other parser, is
\* not lost before that one has read it, and is not saved to be restored for
\* a parser that is still at work (language-parser.y:292, 739, 793).
TerminateIsOwn ==
  /\ \A place \in {"lex", "act", "sending", "calling", "over", "leaving"} :
       At(place) => shutdown_requested # "TERMINATE"
  /\ At("closed") => shutdown_requested = "TERMINATE"
  /\ \A i \in DOMAIN frames :
       frames[i].kind # "shutdown" => frames[i].original \in {"NO", "NORMAL"}

\* Whenever a parser runs, that of a shutdown function included, all that
\* php3_request_startup initializes is there, and the table of shutdown
\* functions is this request's (main.c:769).
CompleteWhileRunning == frames # <<>> => initialized = Parts /\ names # "freed"

\* When the memory manager is gone nothing is left, wherever the request was
\* interrupted, startup included: the warning at main.c:910 is not given.
NothingLeft ==
  stage = "teardown" /\ Teardown[step] = "unset timeout" => initialized = {}

\* The functions a script has registered are all called, if neither the
\* script nor one of them was ended by an error, exit or a shutdown.
ScriptFunctionsCalled ==
  [][stage = "functions" /\ stage' = "teardown" /\ names = "table"
     /\ shutdown_requested # "ABNORMAL" => 1 .. due \subseteq called]_vars

\* A script, or a function, that was told to end by an error, exit, the time
\* limit or a lost client, goes on in no parser: what was requested stays
\* until all of them have returned, unless the timer expired in a window.
AbortSticks ==
  [][frames # <<>> /\ frames' # <<>> /\ shutdown_requested = "ABNORMAL"
     /\ (expired => Top.at \notin Windows) => shutdown_requested' = "ABNORMAL"]_vars

\* The same without exception: when the timer expires the script is aborted
\* (features.connection-handling.html).
TimeLimitAborts ==
  [][frames # <<>> /\ frames' # <<>> /\ shutdown_requested = "ABNORMAL"
     => shutdown_requested' = "ABNORMAL"]_vars

\* As long as there is a time limit a request comes to its end, or to that of
\* the process; but an interrupted php3_header never finishes, and no error is
\* fatal after it.
RequestEnds ==
  stage # "idle" ~> stage = "idle" \/ ~alive \/ timer = "off" \/ header_is_being_sent

\* The functions a script has registered are called if the client goes away
\* (main.c:469, features.connection-handling.html).
AbortCallsFunctions ==
  [][stage = "functions" /\ stage' = "teardown" /\ names = "table" /\ aborted
     => 1 .. due \subseteq called]_vars
=============================================================================
