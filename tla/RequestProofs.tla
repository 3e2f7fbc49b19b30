---------------------------- MODULE RequestProofs ----------------------------
(***************************************************************************)
(* Theorems on Request, for every number of nested calls and of shutdown   *)
(* functions, whatever may interrupt a request and whenever it does.       *)
(***************************************************************************)
EXTENDS Request, TLAPS, SequenceTheorems

-----------------------------------------------------------------------------
(* The order of startup and shutdown *)

\* What is started before what.
LEMMA StartupOrder ==
  /\ Len(Startup) = 18 /\ DOMAIN Startup = 1 .. 18
  /\ Startup[1] = "set timeout" /\ Startup[2] = "reset" /\ Startup[5] = "globals"
  /\ Startup[15] = "modules" /\ Startup[18] = "SCANNER"
  /\ \A i \in 1 .. 18 : Startup[i] = "reset" => i = 2
BY DEF Startup

\* The shutdown knows all that is started.
LEMMA TeardownOrder ==
  /\ Len(Teardown) = 14 /\ Teardown[14] = "unset timeout"
  /\ Parts \subseteq {Teardown[i] : i \in 1 .. 13}
  /\ "unset timeout" \notin Parts
  /\ \A i \in 1 .. 14 : Teardown[i] = "unset timeout" => i = 14
<1>1. /\ Len(Teardown) = 14 /\ Teardown[14] = "unset timeout"
      /\ \A i \in 1 .. 14 : Teardown[i] = "unset timeout" => i = 14
  BY DEF Teardown
<1> DEFINE Names == {
        "set timeout", "reset", "MEMORY_MANAGER", "register cleanup", "globals",
        "REQUEST_INFO", "SYMBOL_TABLE", "TOKEN_CACHE", "CSS", "FOR_STACK",
        "SWITCH_STACK", "INCLUDE_STACK", "FUNCTION_STATE_STACK",
        "VARIABLE_UNASSIGN_STACK", "modules", "INCLUDE_NAMES_HASH", "LIST", "SCANNER"}
           Torn13 == {Teardown[i] : i \in 1 .. 13}
<1>2. ASSUME NEW i \in 1 .. 18 PROVE Startup[i] \in Names
  <2>1.
      /\ Startup[1] = "set timeout" /\ Startup[2] = "reset"
      /\ Startup[3] = "MEMORY_MANAGER" /\ Startup[4] = "register cleanup"
      /\ Startup[5] = "globals" /\ Startup[6] = "REQUEST_INFO"
      /\ Startup[7] = "SYMBOL_TABLE" /\ Startup[8] = "TOKEN_CACHE"
      /\ Startup[9] = "CSS" /\ Startup[10] = "FOR_STACK"
      /\ Startup[11] = "SWITCH_STACK" /\ Startup[12] = "INCLUDE_STACK"
      /\ Startup[13] = "FUNCTION_STATE_STACK"
      /\ Startup[14] = "VARIABLE_UNASSIGN_STACK" /\ Startup[15] = "modules"
      /\ Startup[16] = "INCLUDE_NAMES_HASH" /\ Startup[17] = "LIST"
      /\ Startup[18] = "SCANNER"
    BY DEF Startup
  <2>2.
        i = 1 \/ i = 2 \/ i = 3 \/ i = 4 \/ i = 5 \/ i = 6 \/ i = 7 \/ i = 8 \/
        i = 9 \/ i = 10 \/ i = 11 \/ i = 12 \/ i = 13 \/ i = 14 \/ i = 15 \/ i = 16 \/
        i = 17 \/ i = 18
    OBVIOUS
  <2>q. QED
    BY <2>1, <2>2, ZenonT(60)
<1>3. Names \ Calls \subseteq Torn13
  <2>1.
      /\ Teardown[1] = "LIST" /\ Teardown[2] = "SYMBOL_TABLE"
      /\ Teardown[3] = "TOKEN_CACHE" /\ Teardown[4] = "CSS"
      /\ Teardown[5] = "FOR_STACK" /\ Teardown[6] = "SWITCH_STACK"
      /\ Teardown[7] = "INCLUDE_STACK" /\ Teardown[8] = "FUNCTION_STATE_STACK"
      /\ Teardown[9] = "VARIABLE_UNASSIGN_STACK" /\ Teardown[10] = "REQUEST_INFO"
      /\ Teardown[11] = "INCLUDE_NAMES_HASH" /\ Teardown[12] = "SCANNER"
      /\ Teardown[13] = "MEMORY_MANAGER" /\ Teardown[14] = "unset timeout"
    BY DEF Teardown
  <2>2. \A i \in 1 .. 13 : Teardown[i] \in Torn13
    OBVIOUS
  <2>3.
      /\ Teardown[1] \in Torn13 /\ Teardown[2] \in Torn13 /\ Teardown[3] \in Torn13
      /\ Teardown[4] \in Torn13 /\ Teardown[5] \in Torn13 /\ Teardown[6] \in Torn13
      /\ Teardown[7] \in Torn13 /\ Teardown[8] \in Torn13 /\ Teardown[9] \in Torn13
      /\ Teardown[10] \in Torn13 /\ Teardown[11] \in Torn13 /\ Teardown[12] \in Torn13
      /\ Teardown[13] \in Torn13
    BY <2>2
  <2>q. QED
    <3> HIDE DEF Torn13
    <3>q. QED
      BY <2>1, <2>3, ZenonT(60) DEF Calls
<1>4. "unset timeout" \notin Names
  OBVIOUS
<1>5. Parts \subseteq Names \ Calls
  <2> HIDE DEF Names
  <2>q. QED
    BY <1>2, StartupOrder DEF Parts
<1>q. QED
  <2> HIDE DEF Names, Torn13
  <2>1. Parts \subseteq Torn13 /\ "unset timeout" \notin Parts
    BY <1>3, <1>4, <1>5
  <2>q. QED
    BY <1>1, <2>1 DEF Torn13
-----------------------------------------------------------------------------
(* The inductive invariant *)

\* Activations: the script, or a shutdown function, is the outermost; all but
\* the innermost wait for a function they have called; what a function is to
\* restore is not the end of another.
FrameInv ==
  /\ frames \in Seq(Frames) /\ Len(frames) <= MaxCalls + 1
  /\ \A i \in 1 .. Len(frames) :
       /\ frames[i].kind # "function" => i = 1
       /\ frames[i].kind # "shutdown" => frames[i].original \in {"NO", "NORMAL"}
       /\ i < Len(frames) => frames[i].at = "calling"

\* The innermost: TERMINATE is on its way to the parser it is for, or, left
\* by a long jump, waits to be overwritten.
Started(call) == \E i \in 1 .. step - 1 : Startup[i] = call
Quiet == {"lex", "act", "sending", "calling", "over", "leaving"}
TopInv ==
  /\ alive /\ frames # <<>> =>
       /\ Top.at \in Quiet => shutdown_requested # "TERMINATE"
       /\ Top.at = "closed" => shutdown_requested = "TERMINATE"
  /\ stage = "startup" /\ Started("globals") => shutdown_requested # "TERMINATE"

\* What is there in which stage.
StageInv ==
  /\ frames # <<>> => stage = "script" \/ (stage = "functions" /\ names = "table")
  /\ stage = "script" => initialized = Parts /\ names # "freed"
  /\ names = "table" => stage \in {"script", "done", "functions"} /\ initialized = Parts
  /\ stage = "startup" =>
       /\ Started("reset") =>
            \A i \in 1 .. step - 1 : Startup[i] \in Parts => Startup[i] \in initialized
       /\ Started("modules") => names = "NULL"
  /\ stage = "teardown" => initialized \subseteq {Teardown[i] : i \in step .. Len(Teardown)}

\* The types of the rest.
StateTypes ==
  /\ alive \in BOOLEAN
  /\ stage \in {"idle", "startup", "script", "done", "functions", "teardown"}
  /\ stage = "startup" => step \in 1 .. 18
  /\ stage = "teardown" => step \in 1 .. 14
  /\ stage \notin {"startup", "teardown"} => step = 1
  /\ initialized \subseteq Parts
  /\ shutdown_requested \in Shutdowns
OutsideTypes ==
  /\ php_connection_status \subseteq {"TIMEOUT"}
  /\ aborted \in BOOLEAN /\ ignore_user_abort \in BOOLEAN
  /\ timer \in {"off", "on"} /\ expired \in BOOLEAN
  /\ header_only \in BOOLEAN /\ php3_HeaderPrinted \in BOOLEAN
  /\ header_is_being_sent \in BOOLEAN
FunctionTypes ==
  /\ names \in {"NULL", "table", "freed"}
  /\ registered \in 0 .. MaxRegistered /\ due \in 0 .. registered /\ p \in 0 .. registered
  /\ called \subseteq 1 .. registered
  /\ names = "table" => registered # 0

IInv == StateTypes /\ OutsideTypes /\ FunctionTypes /\ FrameInv /\ TopInv /\ StageInv

LEMMA IInvTypes == IInv => TypeOK
<1> SUFFICES ASSUME IInv PROVE TypeOK
  OBVIOUS
<1>1. step \in 1 .. Len(IF stage = "startup" THEN Startup ELSE
                       IF stage = "teardown" THEN Teardown ELSE <<"">>)
  <2>1. CASE stage = "startup"
    BY <2>1, StartupOrder DEF IInv, StateTypes
  <2>2. CASE stage = "teardown"
    BY <2>2, TeardownOrder DEF IInv, StateTypes
  <2>3. CASE stage \notin {"startup", "teardown"}
    <3>1. Len(<<"">>) = 1 /\ step = 1
      BY <2>3 DEF IInv, StateTypes
    <3>q. QED
      BY <2>3, <3>1
  <2>q. QED
    BY <2>1, <2>2, <2>3
<1>q. QED
  BY <1>1 DEF IInv, TypeOK, StateTypes, OutsideTypes, FunctionTypes, FrameInv

LEMMA IInvImplies == IInv => TerminateIsOwn /\ CompleteWhileRunning /\ NothingLeft
<1> SUFFICES ASSUME IInv PROVE TerminateIsOwn /\ CompleteWhileRunning /\ NothingLeft
  OBVIOUS
<1>1. TerminateIsOwn
  <2>1. DOMAIN frames = 1 .. Len(frames)
    BY LenProperties DEF IInv, FrameInv
  <2>q. QED
    BY <2>1 DEF IInv, FrameInv, TopInv, TerminateIsOwn, At, Quiet
<1>2. CompleteWhileRunning
  BY DEF IInv, StageInv, CompleteWhileRunning
<1>3. \A i \in 14 .. 14 : i = 14
  OBVIOUS
<1>4. NothingLeft
  <2> SUFFICES ASSUME stage = "teardown", Teardown[step] = "unset timeout"
               PROVE  initialized = {}
    BY DEF NothingLeft
  <2>1. step = 14
    BY TeardownOrder DEF IInv, StateTypes
  <2>2. initialized \subseteq {Teardown[14]}
    <3>1. Len(Teardown) = 14
      BY TeardownOrder
    <3>2. step .. Len(Teardown) = 14 .. 14
      BY <2>1, <3>1, Zenon
    <3>q. QED
      BY <1>3, <3>2 DEF IInv, StageInv
  <2>q. QED
    BY <2>2, TeardownOrder DEF IInv, StateTypes
<1>q. QED
  BY <1>1, <1>2, <1>4

LEMMA InitIInv == Init => IInv
<1> SUFFICES ASSUME Init PROVE IInv
  OBVIOUS
<1>1. FrameInv
  <2>1. frames \in Seq(Frames) /\ Len(frames) = 0
    BY EmptySeq DEF Init
  <2>q. QED
    BY <2>1, BoundAssumption DEF FrameInv
<1>2. StateTypes /\ TopInv /\ StageInv
  BY DEF Init, StateTypes, TopInv, StageInv, Shutdowns
<1>3. OutsideTypes
  BY DEF Init, OutsideTypes
<1>4. FunctionTypes
  BY BoundAssumption DEF Init, FunctionTypes
<1>q. QED
  BY <1>1, <1>2, <1>3, <1>4 DEF IInv

-----------------------------------------------------------------------------
(* What the operations on the frames keep *)

\* A sequence of activations whose last one has come to another place.
Moved(s, place) == [s EXCEPT ![Len(s)].at = place]

LEMMA MovedLast ==
  ASSUME NEW s \in Seq(Frames), s # <<>>, NEW place \in Places
  PROVE  /\ Len(s) \in Nat \ {0} /\ Moved(s, place) \in Seq(Frames)
         /\ Len(Moved(s, place)) = Len(s)
         /\ Moved(s, place)[Len(s)].at = place
         /\ Moved(s, place)[Len(s)].kind = s[Len(s)].kind
         /\ Moved(s, place)[Len(s)].original = s[Len(s)].original
         /\ \A i \in 1 .. Len(s) : i # Len(s) => Moved(s, place)[i] = s[i]
<1>1. Len(s) \in Nat \ {0}
  BY EmptySeq
<1>2. s[Len(s)] \in Frames
  BY <1>1, ElementOfSeq
<1> DEFINE e == [s[Len(s)] EXCEPT !.at = place]
<1>3. e \in Frames /\ e.at = place /\ e.kind = s[Len(s)].kind
      /\ e.original = s[Len(s)].original
  BY <1>2 DEF Frames
<1>4. Moved(s, place) = [s EXCEPT ![Len(s)] = e]
  BY DEF Moved
<1> HIDE DEF e
<1>5. /\ Moved(s, place) \in Seq(Frames) /\ Len(Moved(s, place)) = Len(s)
      /\ \A i \in 1 .. Len(s) : Moved(s, place)[i] = IF i = Len(s) THEN e ELSE s[i]
  BY <1>1, <1>3, <1>4, ExceptSeq
<1>q. QED
  BY <1>1, <1>3, <1>5

\* The innermost activation goes from a place to another.
LEMMA GotoKeeps ==
  ASSUME FrameInv, frames # <<>>, NEW place \in Places, Goto(place)
  PROVE  /\ FrameInv' /\ frames' # <<>>
         /\ Top'.at = place /\ Top'.kind = Top.kind
<1>1. frames \in Seq(Frames) /\ Len(frames) <= MaxCalls + 1
  BY DEF FrameInv
<1>2. /\ Len(frames) \in Nat \ {0} /\ frames' \in Seq(Frames) /\ Len(frames') = Len(frames)
      /\ frames'[Len(frames)].at = place
      /\ frames'[Len(frames)].kind = frames[Len(frames)].kind
      /\ frames'[Len(frames)].original = frames[Len(frames)].original
      /\ \A i \in 1 .. Len(frames) : i # Len(frames) => frames'[i] = frames[i]
  <2>1. frames' = Moved(frames, place)
    BY DEF Goto, Moved
  <2>q. QED
    BY <1>1, <2>1, MovedLast
<1>3. ASSUME NEW i \in 1 .. Len(frames)
      PROVE  /\ frames'[i].kind # "function" => i = 1
             /\ frames'[i].kind # "shutdown" => frames'[i].original \in {"NO", "NORMAL"}
             /\ i < Len(frames) => frames'[i].at = "calling"
  BY <1>2 DEF FrameInv
<1>4. frames' # <<>>
  BY <1>2, EmptySeq
<1>q. QED
  BY <1>1, <1>2, <1>3, <1>4 DEF FrameInv, Top

\* The innermost activation is left: what called it goes on.
LEMMA ReturnKeeps ==
  ASSUME FrameInv, frames # <<>>, Return
  PROVE  /\ FrameInv'
         /\ frames' # <<>> => Top'.at = "calling" /\ Top.kind = "function"
<1>1. frames \in Seq(Frames) /\ Len(frames) <= MaxCalls + 1 /\ Len(frames) \in Nat \ {0}
  BY EmptySeq DEF FrameInv
<1>2. /\ frames' \in Seq(Frames) /\ Len(frames') = Len(frames) - 1
      /\ \A i \in 1 .. Len(frames) - 1 : frames'[i] = frames[i]
  <2>1. \A i \in 1 .. Len(frames) - 1 : frames[i] \in Frames
    BY <1>1, ElementOfSeq
  <2> DEFINE n == Len(frames) - 1
  <2>2. frames' = SubSeq(frames, 1, n)
    BY DEF Return
  <2>3. n \in Nat
    BY <1>1
  <2> HIDE DEF n
  <2>4. /\ SubSeq(frames, 1, n) \in Seq(Frames) /\ Len(SubSeq(frames, 1, n)) = n
        /\ \A i \in 1 .. n : SubSeq(frames, 1, n)[i] = frames[i]
    <3>1. \A i \in 1 .. n : frames[i] \in Frames
      BY <2>1 DEF n
    <3>q. QED
      BY <2>3, <3>1, SubSeqProperties
  <2>q. QED
    BY <2>2, <2>4 DEF n
<1>3. ASSUME NEW i \in 1 .. Len(frames')
      PROVE  /\ frames'[i].kind # "function" => i = 1
             /\ frames'[i].kind # "shutdown" => frames'[i].original \in {"NO", "NORMAL"}
             /\ frames'[i].at = "calling"
  BY <1>1, <1>2 DEF FrameInv
<1>4. FrameInv'
  BY <1>1, <1>2, <1>3, BoundAssumption DEF FrameInv
<1>5. ASSUME frames' # <<>> PROVE Top'.at = "calling" /\ Top.kind = "function"
  <2>1. Len(frames') \in 1 .. Len(frames')
    BY <1>2, <1>5, EmptySeq
  <2>2. Top'.at = "calling"
    BY <2>1, <1>3 DEF Top
  <2>3. Len(frames) # 1
    BY <1>1, <1>2, <2>1
  <2>4. Top.kind = "function"
    <3>1. Len(frames) \in 1 .. Len(frames)
      BY <1>1
    <3>2. frames[Len(frames)].kind # "function" => Len(frames) = 1
      BY <3>1 DEF FrameInv
    <3>q. QED
      BY <2>3, <3>2 DEF Top
  <2>q. QED
    BY <2>2, <2>4
<1>q. QED
  BY <1>4, <1>5

\* An activation calls another, from a script that may go on.
LEMMA CallKeeps ==
  ASSUME FrameInv, frames # <<>>, Len(frames) <= MaxCalls,
         shutdown_requested \in {"NO", "NORMAL"},
         frames' = Append([frames EXCEPT ![Len(frames)].at = "calling"],
                          Frame("function", "entered"))
  PROVE  FrameInv' /\ frames' # <<>> /\ Top'.at = "entered"
<1> DEFINE f == [frames EXCEPT ![Len(frames)].at = "calling"]
           g == Frame("function", "entered")
<1>1. frames \in Seq(Frames)
  BY DEF FrameInv
<1>2. g \in Frames /\ g.kind = "function" /\ g.original \in {"NO", "NORMAL"} /\ g.at = "entered"
  BY DEF Frame, Frames, Kinds, Shutdowns, Places
<1>3. /\ Len(frames) \in Nat \ {0} /\ f \in Seq(Frames) /\ Len(f) = Len(frames)
      /\ f[Len(frames)].at = "calling"
      /\ f[Len(frames)].kind = frames[Len(frames)].kind
      /\ f[Len(frames)].original = frames[Len(frames)].original
      /\ \A i \in 1 .. Len(frames) : i # Len(frames) => f[i] = frames[i]
  <2>1. f = Moved(frames, "calling") /\ "calling" \in Places
    BY DEF Moved, Places
  <2> HIDE DEF f
  <2>q. QED
    BY <1>1, <2>1, MovedLast
<1>4. frames' = Append(f, g)
  OBVIOUS
<1> HIDE DEF f, g
<1>5. /\ frames' \in Seq(Frames) /\ Len(frames') = Len(frames) + 1
      /\ frames'[Len(frames) + 1] = g
      /\ \A i \in 1 .. Len(frames) : frames'[i] = f[i]
  <2>1. /\ Append(f, g) \in Seq(Frames) /\ Len(Append(f, g)) = Len(f) + 1
        /\ Append(f, g)[Len(f) + 1] = g
        /\ \A i \in 1 .. Len(f) : Append(f, g)[i] = f[i]
    BY <1>2, <1>3, AppendProperties
  <2>q. QED
    BY <1>3, <1>4, <2>1
<1>6. ASSUME NEW i \in 1 .. Len(frames) + 1
      PROVE  /\ frames'[i].kind # "function" => i = 1
             /\ frames'[i].kind # "shutdown" => frames'[i].original \in {"NO", "NORMAL"}
             /\ i < Len(frames) + 1 => frames'[i].at = "calling"
  <2>1. CASE i = Len(frames) + 1
    BY <1>2, <1>3, <1>5, <2>1
  <2>2. CASE i = Len(frames)
    BY <1>3, <1>5, <2>2 DEF FrameInv
  <2>3. CASE i < Len(frames)
    BY <1>3, <1>5, <2>3 DEF FrameInv
  <2>q. QED
    BY <1>3, <2>1, <2>2, <2>3
<1>7. FrameInv'
  BY <1>3, <1>5, <1>6, BoundAssumption DEF FrameInv
<1>8. frames' # <<>> /\ Top' = g
  BY <1>3, <1>5, EmptySeq DEF Top
<1>q. QED
  BY <1>2, <1>7, <1>8

\* The first activation, and none.
LEMMA OneKeeps ==
  ASSUME NEW f \in Frames, f.kind # "function",
         f.kind # "shutdown" => f.original \in {"NO", "NORMAL"}, frames' = <<f>>
  PROVE  FrameInv' /\ frames' # <<>> /\ Top' = f
<1>1. frames' \in Seq(Frames) /\ Len(frames') = 1 /\ frames'[1] = f
  OBVIOUS
<1>q. QED
  BY <1>1, BoundAssumption DEF FrameInv, Top

LEMMA NoneKeeps == ASSUME frames' = <<>> PROVE FrameInv'
BY EmptySeq, BoundAssumption DEF FrameInv

-----------------------------------------------------------------------------
(* The steps of a parser *)

\* What a step of the running activation that leaves it where it is, or takes
\* it elsewhere, has to see to.
LEMMA PlaceStep ==
  ASSUME IInv, alive, frames # <<>>, NEW place \in Places, Goto(place),
         UNCHANGED <<alive, stage, step, initialized>>,
         names' \in {names, "table"},
         place \in Quiet => shutdown_requested' # "TERMINATE",
         place = "closed" => shutdown_requested' = "TERMINATE"
  PROVE  FrameInv' /\ TopInv' /\ StageInv'
<1>1. FrameInv' /\ frames' # <<>> /\ Top'.at = place
  BY GotoKeeps DEF IInv
<1>2. stage = "script" \/ (stage = "functions" /\ names = "table")
  BY DEF IInv, StageInv
<1>3. TopInv'
  BY <1>1, <1>2 DEF TopInv
<1>4. StageInv'
  BY <1>2 DEF IInv, StageInv
<1>q. QED
  BY <1>1, <1>3, <1>4

\* The types of what the steps of a parser do not touch.
LEMMA SameTypes ==
  ASSUME StateTypes, UNCHANGED <<alive, stage, step, initialized>>,
         shutdown_requested' \in Shutdowns
  PROVE  StateTypes'
BY DEF StateTypes

LEMMA SameOutside == ASSUME OutsideTypes, UNCHANGED <<connection, clock, header>>
                     PROVE  OutsideTypes'
BY DEF OutsideTypes, connection, clock, header

LEMMA SameFunctions == ASSUME FunctionTypes, UNCHANGED functions PROVE FunctionTypes'
BY DEF FunctionTypes, functions

\* php3_error: what it may request.
LEMMA FatalKeeps ==
  ASSUME IInv, Fatal
  PROVE  /\ \/ shutdown_requested' = shutdown_requested
            \/ shutdown_requested = "NO" /\ shutdown_requested' \in {"NORMAL", "ABNORMAL"}
         /\ header_only' \in BOOLEAN /\ php3_HeaderPrinted' \in BOOLEAN
         /\ header_is_being_sent' \in BOOLEAN
BY DEF IInv, OutsideTypes, Fatal, header

\* The actions of the script that call no function.
LEMMA ActKeeps ==
  ASSUME IInv, FatalError \/ Exit \/ SendHeader \/ Compute \/ set_time_limit
               \/ ignore_user_abort_call \/ register_shutdown_function \/ TestTerminate
  PROVE  IInv'
<1>1. alive /\ frames # <<>> /\ Top.at = "act" /\ shutdown_requested # "TERMINATE"
      /\ shutdown_requested \in Shutdowns
  BY DEF FatalError, Exit, SendHeader, Compute, set_time_limit, ignore_user_abort_call,
         register_shutdown_function, TestTerminate, EndOfFunction, InAction, At, IInv, TopInv,
         StateTypes, Quiet
<1>2. UNCHANGED <<alive, stage, step, initialized>>
  BY DEF FatalError, Exit, SendHeader, Compute, set_time_limit, ignore_user_abort_call,
         register_shutdown_function, TestTerminate, request
<1>3. names' \in {names, "table"}
  BY DEF FatalError, Exit, SendHeader, Compute, set_time_limit, ignore_user_abort_call,
         register_shutdown_function, TestTerminate, functions
<1>4. PICK place \in {"lex", "sending", "closing"} : Goto(place)
  BY DEF FatalError, Exit, SendHeader, Compute, set_time_limit, ignore_user_abort_call,
         register_shutdown_function, TestTerminate, EndOfFunction
<1>5. shutdown_requested' \in Shutdowns \ {"TERMINATE"}
  <2>1. CASE FatalError
    BY <1>1, <2>1, FatalKeeps DEF FatalError, Shutdowns
  <2>2. CASE Exit
    BY <2>2 DEF Exit, Shutdowns
  <2>3. CASE ~FatalError /\ ~Exit
    BY <1>1, <2>3 DEF SendHeader, Compute, set_time_limit, ignore_user_abort_call,
                      register_shutdown_function, TestTerminate
  <2>q. QED
    BY <2>1, <2>2, <2>3
<1>6. FrameInv' /\ TopInv' /\ StageInv'
  BY <1>1, <1>2, <1>3, <1>4, <1>5, PlaceStep DEF Places
<1>7. StateTypes'
  BY <1>2, <1>5, SameTypes DEF IInv
<1>8. OutsideTypes'
  <2>1. CASE FatalError
    BY <2>1, FatalKeeps DEF FatalError, IInv, OutsideTypes, connection, clock
  <2>2. CASE Exit
    BY <2>2 DEF Exit, IInv, OutsideTypes, connection, clock
  <2>3. CASE SendHeader
    BY <2>3 DEF SendHeader, IInv, OutsideTypes, connection, clock
  <2>4. CASE set_time_limit
    BY <2>4, LimitAssumption DEF set_time_limit, IInv, OutsideTypes, connection, header
  <2>5. CASE ignore_user_abort_call
    BY <2>5 DEF ignore_user_abort_call, IInv, OutsideTypes, clock, header
  <2>6. CASE Compute \/ register_shutdown_function \/ TestTerminate
    BY <2>6, SameOutside DEF Compute, register_shutdown_function, TestTerminate, IInv, request
  <2>q. QED
    BY <2>1, <2>2, <2>3, <2>4, <2>5, <2>6
<1>9. FunctionTypes'
  <2>1. CASE register_shutdown_function
    BY <2>1, BoundAssumption DEF register_shutdown_function, IInv, FunctionTypes
  <2>2. CASE ~register_shutdown_function
    BY <2>2, SameFunctions DEF FatalError, Exit, SendHeader, Compute, set_time_limit,
                               ignore_user_abort_call, TestTerminate, IInv
  <2>q. QED
    BY <2>1, <2>2
<1>q. QED
  BY <1>6, <1>7, <1>8, <1>9 DEF IInv

\* The program's own steps of a parser, that leave the activation in place.
LEMMA ParserKeeps ==
  ASSUME IInv, HeaderSent \/ phplex \/ FunctionReturns \/ Begin \/ SetTerminate
  PROVE  IInv'
<1>1. alive /\ frames # <<>> /\ shutdown_requested \in Shutdowns
  BY DEF HeaderSent, phplex, FunctionReturns, Begin, SetTerminate, At, IInv, StateTypes
<1>2. UNCHANGED <<alive, stage, step, initialized>> /\ UNCHANGED <<clock, functions>>
  BY DEF HeaderSent, phplex, FunctionReturns, Begin, SetTerminate, request
<1>3. names' = names
  BY <1>2 DEF functions
<1>4. \E place \in {"lex", "over", "act", "closed"} :
        /\ Goto(place) /\ shutdown_requested' \in Shutdowns
        /\ IF place = "closed" THEN shutdown_requested' = "TERMINATE"
                              ELSE shutdown_requested' # "TERMINATE"
  <2>1. CASE HeaderSent
    BY <1>1, <2>1 DEF HeaderSent, At, IInv, TopInv, Quiet, Shutdowns
  <2>2. CASE phplex
    <3>1. PICK place \in {"over", "act"} : Goto(place)
      BY <2>2 DEF phplex
    <3>2. shutdown_requested' \in Shutdowns \ {"TERMINATE"}
      BY <1>1, <2>2 DEF phplex, AfterEnd, Shutdowns
    <3>q. QED
      BY <3>1, <3>2
  <2>3. CASE FunctionReturns
    BY <1>1, <2>3 DEF FunctionReturns, At, IInv, TopInv, Quiet
  <2>4. CASE Begin
    BY <2>4 DEF Begin, Shutdowns
  <2>5. CASE SetTerminate
    BY <2>5 DEF SetTerminate, Shutdowns
  <2>q. QED
    BY <2>1, <2>2, <2>3, <2>4, <2>5
<1>5. PICK place \in {"lex", "over", "act", "closed"} :
        /\ Goto(place) /\ shutdown_requested' \in Shutdowns
        /\ IF place = "closed" THEN shutdown_requested' = "TERMINATE"
                              ELSE shutdown_requested' # "TERMINATE"
  BY <1>4
<1>6. FrameInv' /\ TopInv' /\ StageInv'
  BY <1>1, <1>2, <1>3, <1>5, PlaceStep DEF Places, Quiet
<1>7. StateTypes'
  BY <1>2, <1>5, SameTypes DEF IInv
<1>8. FunctionTypes'
  BY <1>2, SameFunctions DEF IInv
<1>9. OutsideTypes'
  <2>1. CASE HeaderSent
    BY <2>1 DEF HeaderSent, IInv, OutsideTypes, connection, clock
  <2>2. CASE phplex
    BY <2>2 DEF phplex, IInv, OutsideTypes, connection, clock, header
  <2>3. CASE FunctionReturns \/ Begin \/ SetTerminate
    BY <2>3, SameOutside DEF FunctionReturns, Begin, SetTerminate, IInv, request
  <2>q. QED
    BY <2>1, <2>2, <2>3
<1>q. QED
  BY <1>6, <1>7, <1>8, <1>9 DEF IInv

\* A function is called.
LEMMA CallStep == ASSUME IInv, call_user_function PROVE IInv'
<1>1. alive /\ frames # <<>> /\ Top.at \in {"act", "calling"} /\ Len(frames) <= MaxCalls
      /\ shutdown_requested \in {"NO", "NORMAL"}
  BY DEF call_user_function, InAction, At, Refuses, IInv, TopInv, Quiet, StateTypes, Shutdowns
<1>2. FrameInv' /\ frames' # <<>> /\ Top'.at = "entered"
  BY <1>1, CallKeeps DEF call_user_function, IInv
<1>3. UNCHANGED <<alive, stage, step, initialized>> /\ UNCHANGED <<connection, clock, header>>
      /\ UNCHANGED functions /\ shutdown_requested' = shutdown_requested
  BY DEF call_user_function, request
<1>4. TopInv' /\ StageInv'
  BY <1>1, <1>2, <1>3 DEF IInv, TopInv, StageInv, Started, Quiet, functions
<1>5. StateTypes' /\ OutsideTypes' /\ FunctionTypes'
  BY <1>3, SameTypes, SameOutside, SameFunctions DEF IInv, StateTypes
<1>q. QED
  BY <1>2, <1>4, <1>5 DEF IInv

\* phpparse() has returned from a function, or the script.
LEMMA LeaveKeeps ==
  ASSUME IInv, PhpparseReturns \/ Restore \/ ScriptEnds
  PROVE  IInv'
<1>1. alive /\ frames # <<>> /\ shutdown_requested \in Shutdowns
      /\ (Top.at = "over" => shutdown_requested # "TERMINATE")
  BY DEF PhpparseReturns, Restore, ScriptEnds, At, IInv, TopInv, Quiet, StateTypes
<1>2. stage = "script" \/ (stage = "functions" /\ names = "table")
  BY <1>1 DEF IInv, StageInv
<1>3. UNCHANGED <<alive, initialized>> /\ UNCHANGED <<connection, clock, header>>
      /\ UNCHANGED functions
  BY DEF PhpparseReturns, Restore, ScriptEnds, request
<1>4. OutsideTypes' /\ FunctionTypes'
  BY <1>3, SameOutside, SameFunctions DEF IInv
<1>5. CASE PhpparseReturns /\ ~Return
  <2>1. Goto("leaving") /\ UNCHANGED <<alive, stage, step, initialized>>
        /\ shutdown_requested' = shutdown_requested /\ names' = names
    BY <1>5 DEF PhpparseReturns, request, functions
  <2>2. shutdown_requested # "TERMINATE"
    BY <1>1, <1>5 DEF PhpparseReturns, At
  <2>3. FrameInv' /\ TopInv' /\ StageInv'
    BY <1>1, <2>1, <2>2, PlaceStep DEF Places, Quiet
  <2>4. StateTypes'
    BY <1>1, <2>1, SameTypes DEF IInv
  <2>q. QED
    BY <1>4, <2>3, <2>4 DEF IInv
<1>6. CASE Return
  <2>1. FrameInv' /\ (frames' # <<>> => Top'.at = "calling" /\ Top.kind = "function")
    BY <1>1, <1>6, ReturnKeeps DEF IInv
  <2>2. Top.kind = "function" => Top.original \in {"NO", "NORMAL"}
    <3>1. frames \in Seq(Frames)
      BY DEF IInv, FrameInv
    <3>2. Len(frames) \in 1 .. Len(frames)
      BY <1>1, <3>1, EmptySeq
    <3>q. QED
      BY <3>2 DEF IInv, FrameInv, Top
  <2>3. Top.original \in Shutdowns
    <3>1. frames \in Seq(Frames)
      BY DEF IInv, FrameInv
    <3>2. Len(frames) \in 1 .. Len(frames)
      BY <1>1, <3>1, EmptySeq
    <3>3. Top \in Frames
      BY <3>1, <3>2, ElementOfSeq DEF Top
    <3>q. QED
      BY <3>3 DEF Frames
  <2>4. CASE ScriptEnds
    <3>1. frames' = <<>> /\ stage' = "done" /\ step' = 1
          /\ shutdown_requested' = shutdown_requested
      BY <2>1, <2>4 DEF ScriptEnds
    <3>2. TopInv' /\ StageInv'
      BY <1>2, <1>3, <3>1 DEF IInv, TopInv, StageInv, functions
    <3>3. StateTypes'
      BY <1>1, <1>3, <3>1 DEF IInv, StateTypes
    <3>q. QED
      BY <1>4, <2>1, <3>2, <3>3 DEF IInv
  <2>5. CASE PhpparseReturns \/ Restore
    <3>1. UNCHANGED <<alive, stage, step, initialized>>
      BY <1>3, <2>5 DEF PhpparseReturns, Restore
    <3>2. shutdown_requested' \in Shutdowns
          /\ (frames' # <<>> => shutdown_requested' # "TERMINATE")
      <4>1. CASE PhpparseReturns
        BY <1>1, <4>1 DEF PhpparseReturns, At
      <4>2. CASE Restore
        BY <2>1, <2>2, <2>3, <4>2 DEF Restore
      <4>q. QED
        BY <2>5, <4>1, <4>2
    <3>3. TopInv' /\ StageInv'
      BY <1>2, <1>3, <2>1, <3>1, <3>2 DEF IInv, TopInv, StageInv, functions
    <3>4. StateTypes'
      BY <3>1, <3>2, SameTypes DEF IInv
    <3>q. QED
      BY <1>4, <2>1, <3>3, <3>4 DEF IInv
  <2>q. QED
    BY <2>4, <2>5
<1>q. QED
  BY <1>5, <1>6 DEF Restore, ScriptEnds

-----------------------------------------------------------------------------
(* What happens beside the program *)

LEMMA ExpireKeeps == ASSUME IInv, Expire PROVE IInv'
<1>1. UNCHANGED <<stage, step, initialized>> /\ UNCHANGED <<frames, functions>>
  BY DEF Expire
<1>2. /\ alive' \in {alive, FALSE} /\ shutdown_requested' \in Shutdowns
      /\ shutdown_requested' # shutdown_requested =>
           shutdown_requested = "NO" /\ shutdown_requested' \in {"NORMAL", "ABNORMAL"}
      /\ OutsideTypes'
  <2>1. CASE shutdown_requested = "NO"
    <3>1. Fatal /\ alive' = alive
      BY <2>1 DEF Expire
    <3>2. OutsideTypes'
      BY <2>1, <3>1, FatalKeeps DEF Expire, IInv, OutsideTypes
    <3>q. QED
      BY <2>1, <3>1, <3>2, FatalKeeps DEF Shutdowns
  <2>2. CASE shutdown_requested # "NO"
    BY <2>2 DEF Expire, IInv, OutsideTypes, StateTypes, header
  <2>q. QED
    BY <2>1, <2>2
<1>3. StateTypes'
  BY <1>1, <1>2 DEF IInv, StateTypes
<1>4. FunctionTypes' /\ FrameInv'
  BY <1>1 DEF IInv, FunctionTypes, FrameInv, functions
<1>5. StageInv'
  BY <1>1 DEF IInv, StageInv, functions, Started
<1>6. TopInv'
  <2>1. Top' = Top /\ (Started("globals"))' = Started("globals")
    BY <1>1 DEF Top, Started
  <2>2. alive' => alive
    BY <1>2
  <2>3. \/ shutdown_requested' = shutdown_requested
        \/ shutdown_requested = "NO" /\ shutdown_requested' \in {"NORMAL", "ABNORMAL"}
    BY <1>2
  <2>4. stage' = stage /\ frames' = frames
    BY <1>1
  <2>5. TopInv
    BY DEF IInv
  <2>q. QED
    BY <2>1, <2>2, <2>3, <2>4, <2>5 DEF TopInv
<1>q. QED
  BY <1>2, <1>3, <1>4, <1>5, <1>6 DEF IInv

\* From here on nothing runs, and what is registered is to be called.
LEMMA CleanupKeeps ==
  ASSUME IInv, Cleanup, alive' = alive, initialized' = initialized,
         shutdown_requested' \in Shutdowns
  PROVE  StateTypes' /\ FunctionTypes' /\ FrameInv' /\ TopInv' /\ StageInv'
<1>1. StateTypes'
  BY DEF IInv, StateTypes, Cleanup
<1>2. FrameInv' /\ TopInv' /\ StageInv'
  BY NoneKeeps DEF IInv, TopInv, StageInv, Cleanup
<1>3. FunctionTypes'
  BY BoundAssumption DEF IInv, FunctionTypes, Cleanup
<1>q. QED
  BY <1>1, <1>2, <1>3

LEMMA OutsideKeeps == ASSUME IInv, Abort \/ Interrupt \/ Crash PROVE IInv'
<1>1. CASE Abort
  <2>1. UNCHANGED <<alive, stage, step, initialized, shutdown_requested>>
        /\ UNCHANGED <<frames, functions>>
    BY <1>1 DEF Abort
  <2>2. OutsideTypes'
    BY <1>1 DEF Abort, IInv, OutsideTypes, clock, header
  <2>3. StateTypes' /\ FunctionTypes' /\ FrameInv' /\ StageInv'
    BY <2>1 DEF IInv, StateTypes, FunctionTypes, FrameInv, StageInv, functions, Started
  <2>4. TopInv'
    BY <2>1 DEF IInv, TopInv, Top, Started
  <2>q. QED
    BY <2>2, <2>3, <2>4 DEF IInv
<1>2. CASE Interrupt
  <2>1. OutsideTypes'
    BY <1>2, SameOutside DEF Interrupt, IInv, request
  <2>2. alive' = alive /\ initialized' = initialized
        /\ shutdown_requested' = shutdown_requested /\ shutdown_requested \in Shutdowns
    BY <1>2 DEF Interrupt, request, IInv, StateTypes
  <2>3. CASE Cleanup
    BY <2>1, <2>2, <2>3, CleanupKeeps DEF IInv
  <2>4. CASE ~Cleanup
    <3>1. stage = "startup" /\ stage' = "idle" /\ step' = 1 /\ frames' = frames
          /\ UNCHANGED functions
      BY <1>2, <2>4 DEF Interrupt, CleanupRegistered
    <3>2. frames = <<>> /\ names # "table"
      BY <3>1 DEF IInv, StageInv
    <3>3. StateTypes'
      BY <2>2, <3>1 DEF IInv, StateTypes
    <3>4. FunctionTypes' /\ FrameInv'
      BY <3>1 DEF IInv, FunctionTypes, FrameInv, functions
    <3>5. TopInv' /\ StageInv'
      BY <2>2, <3>1, <3>2 DEF IInv, TopInv, StageInv, functions
    <3>q. QED
      BY <2>1, <3>3, <3>4, <3>5 DEF IInv
  <2>q. QED
    BY <2>3, <2>4
<1>3. CASE Crash
  <2>1. UNCHANGED <<stage, step, initialized, shutdown_requested>> /\ alive' = FALSE
        /\ UNCHANGED <<connection, clock, header>> /\ UNCHANGED <<frames, functions>>
    BY <1>3 DEF Crash, request
  <2>2. OutsideTypes'
    BY <2>1, SameOutside DEF IInv
  <2>3. StateTypes' /\ FunctionTypes' /\ FrameInv' /\ StageInv'
    BY <2>1 DEF IInv, StateTypes, FunctionTypes, FrameInv, StageInv, functions, Started
  <2>4. TopInv'
    BY <2>1 DEF IInv, TopInv, Started
  <2>q. QED
    BY <2>2, <2>3, <2>4 DEF IInv
<1>q. QED
  BY <1>1, <1>2, <1>3

-----------------------------------------------------------------------------
(* The stages *)

LEMMA BeginKeeps == ASSUME IInv, NextRequest \/ NoScript PROVE IInv'
<1>1. UNCHANGED <<alive, initialized, shutdown_requested>> /\ UNCHANGED <<frames, functions>>
      /\ step' = 1 /\ stage \in {"idle", "startup"} /\ stage' \in {"startup", "done"}
  BY DEF NextRequest, NoScript, request
<1>2. frames = <<>> /\ names # "table"
  BY <1>1 DEF IInv, StageInv
<1>3. StateTypes' /\ FunctionTypes' /\ FrameInv'
  BY <1>1 DEF IInv, StateTypes, FunctionTypes, FrameInv, functions
<1>4. \A call : ~(Started(call))'
  BY <1>1 DEF Started
<1>5. TopInv' /\ StageInv'
  BY <1>1, <1>2, <1>4 DEF TopInv, StageInv, functions
<1>6. OutsideTypes'
  <2>1. CASE NextRequest
    BY <2>1 DEF NextRequest, IInv, OutsideTypes, clock
  <2>2. CASE NoScript
    BY <2>2, SameOutside DEF NoScript, IInv, request
  <2>q. QED
    BY <2>1, <2>2
<1>q. QED
  BY <1>3, <1>5, <1>6 DEF IInv

LEMMA FinishKeeps == ASSUME IInv, Finish PROVE IInv'
<1>1. alive' = alive /\ initialized' = initialized /\ Cleanup
  BY DEF Finish
<1>2. shutdown_requested' \in Shutdowns
  BY DEF Finish, IInv, StateTypes, Shutdowns
<1>3. OutsideTypes'
  BY DEF Finish, IInv, OutsideTypes, connection, clock
<1>q. QED
  BY <1>1, <1>2, <1>3, CleanupKeeps DEF IInv

LEMMA DestroyKeeps == ASSUME IInv, DestroyEntry PROVE IInv'
<1>1. UNCHANGED <<alive, stage, step, initialized, shutdown_requested>>
      /\ UNCHANGED <<connection, clock, header>> /\ UNCHANGED <<names, registered, due>>
      /\ alive /\ stage = "functions" /\ names = "table" /\ frames = <<>>
  BY DEF DestroyEntry, request
<1>2. StateTypes' /\ OutsideTypes'
  BY <1>1, SameTypes, SameOutside DEF IInv, StateTypes
<1>3. FunctionTypes'
  <2>1. p \in 1 .. registered /\ registered \in Nat
    BY DEF IInv, FunctionTypes, DestroyEntry
  <2>2. p' \in 0 .. registered
    BY <2>1 DEF DestroyEntry, NextEntry
  <2>3. called' \subseteq 1 .. registered
    BY <2>1 DEF DestroyEntry, IInv, FunctionTypes
  <2>q. QED
    BY <1>1, <2>2, <2>3 DEF IInv, FunctionTypes
<1>4. FrameInv' /\ (frames' # <<>> => Top'.at = "entered")
  <2>1. CASE Refuses
    <3>1. frames' = <<>>
      BY <1>1, <2>1 DEF DestroyEntry
    <3>q. QED
      BY <3>1, NoneKeeps
  <2>2. CASE ~Refuses
    <3> DEFINE f == Frame("shutdown", "entered")
    <3>1. f \in Frames /\ f.kind = "shutdown" /\ f.at = "entered"
      BY DEF Frame, Frames, Kinds, Places, IInv, StateTypes
    <3>2. frames' = <<f>>
      BY <2>2 DEF DestroyEntry
    <3> HIDE DEF f
    <3>q. QED
      BY <3>1, <3>2, OneKeeps
  <2>q. QED
    BY <2>1, <2>2
<1>5. TopInv' /\ StageInv'
  BY <1>1, <1>4 DEF IInv, TopInv, StageInv, Quiet
<1>q. QED
  BY <1>2, <1>3, <1>4, <1>5 DEF IInv

LEMMA DoneKeeps == ASSUME IInv, FunctionsDone PROVE IInv'
<1>1. UNCHANGED <<alive, initialized, shutdown_requested>> /\ stage' = "teardown" /\ step' = 1
      /\ UNCHANGED <<connection, clock, header>> /\ frames = <<>> /\ frames' = <<>>
      /\ names' \in {"NULL", "freed"}
  BY DEF FunctionsDone, request
<1>2. StateTypes'
  BY <1>1 DEF IInv, StateTypes
<1>3. OutsideTypes'
  BY <1>1, SameOutside DEF IInv
<1>4. FunctionTypes'
  BY BoundAssumption DEF FunctionsDone, FunctionTypes
<1>5. FrameInv' /\ TopInv'
  BY <1>1, NoneKeeps DEF TopInv
<1>6. StageInv'
  <2>1. initialized \subseteq {Teardown[i] : i \in 1 .. 14}
    <3>1. Parts \subseteq {Teardown[i] : i \in 1 .. 13} /\ initialized \subseteq Parts
      BY TeardownOrder DEF IInv, StateTypes
    <3>2. \A i \in 1 .. 13 : i \in 1 .. 14
      OBVIOUS
    <3>q. QED
      BY <3>1, <3>2
  <2>q. QED
    BY <1>1, <2>1, TeardownOrder DEF StageInv
<1>q. QED
  BY <1>2, <1>3, <1>4, <1>5, <1>6 DEF IInv

LEMMA TeardownKeeps == ASSUME IInv, TeardownStep PROVE IInv'
<1>1. UNCHANGED <<alive, shutdown_requested>> /\ UNCHANGED <<frames, functions>>
      /\ stage = "teardown" /\ step \in 1 .. 14 /\ initialized' = initialized \ {Teardown[step]}
      /\ frames = <<>> /\ names # "table"
  BY DEF TeardownStep, Torn, IInv, StateTypes, StageInv
<1>2. IF step < 14 THEN stage' = "teardown" /\ step' = step + 1
                   ELSE stage' = "idle" /\ step' = 1
  BY <1>1, TeardownOrder DEF TeardownStep
<1>3. StateTypes'
  BY <1>1, <1>2 DEF IInv, StateTypes
<1>4. OutsideTypes'
  BY DEF TeardownStep, IInv, OutsideTypes, connection, header
<1>5. FunctionTypes' /\ FrameInv'
  BY <1>1 DEF IInv, FunctionTypes, FrameInv, functions
<1>6. TopInv'
  BY <1>1, <1>2 DEF TopInv
<1>7. StageInv'
  <2>1. ASSUME step < 14
        PROVE  initialized' \subseteq {Teardown[i] : i \in step' .. 14}
    <3>1. ASSUME NEW part \in initialized' PROVE \E i \in step' .. 14 : part = Teardown[i]
      <4>1. part \in initialized /\ part # Teardown[step]
        BY <1>1, <3>1
      <4>2. PICK i \in step .. 14 : part = Teardown[i]
        BY <1>1, <4>1, TeardownOrder DEF IInv, StageInv
      <4>3. i \in step' .. 14
        <5>1. i # step
          BY <4>1, <4>2
        <5>q. QED
          BY <1>1, <1>2, <2>1, <5>1
      <4>q. QED
        BY <4>2, <4>3
    <3>q. QED
      BY <3>1
  <2>q. QED
    BY <1>1, <1>2, <2>1, TeardownOrder DEF StageInv, functions
<1>q. QED
  BY <1>3, <1>4, <1>5, <1>6, <1>7 DEF IInv

\* What a step of the startup does.
LEMMA StartupEffects ==
  ASSUME IInv, StartupStep
  PROVE  /\ OutsideTypes'
         /\ shutdown_requested' \in {shutdown_requested, "NO"}
         /\ Startup[step] = "globals" => shutdown_requested' = "NO"
         /\ names' \in {names, "NULL"} /\ (Startup[step] = "modules" => names' = "NULL")
         /\ initialized' \subseteq Parts
         /\ IF Startup[step] = "reset" THEN initialized' = {}
            ELSE /\ initialized \subseteq initialized'
                 /\ Startup[step] \in Parts => Startup[step] \in initialized'
<1>1. \A name \in Calls : name \notin Parts
  BY DEF Parts
<1>2. initialized \subseteq Parts
  BY DEF IInv, StateTypes
<1>3. CASE Startup[step] = "set timeout"
  <2>1. SetTimeout
    BY <1>3 DEF StartupStep
  <2>2. OutsideTypes'
    BY <2>1, LimitAssumption DEF SetTimeout, IInv, OutsideTypes, connection, header
  <2>3. "set timeout" \notin Parts
    BY <1>1 DEF Calls
  <2>q. QED
    BY <1>2, <1>3, <2>1, <2>2, <2>3 DEF SetTimeout
<1>4. CASE Startup[step] = "reset"
  <2>1. Reset
    BY <1>4 DEF StartupStep
  <2>2. OutsideTypes'
    BY <2>1, SameOutside DEF Reset, IInv
  <2>q. QED
    BY <1>4, <2>1, <2>2 DEF Reset
<1>5. CASE Startup[step] = "globals"
  <2>1. GlobalVariables
    BY <1>5 DEF StartupStep
  <2>2. OutsideTypes'
    BY <2>1 DEF GlobalVariables, IInv, OutsideTypes, clock
  <2>3. "globals" \notin Parts
    BY <1>1 DEF Calls
  <2>q. QED
    BY <1>2, <1>5, <2>1, <2>2, <2>3 DEF GlobalVariables
<1>6. CASE Startup[step] = "modules"
  <2>1. RequestStartupFuncs
    BY <1>6 DEF StartupStep
  <2>2. OutsideTypes'
    BY <2>1 DEF RequestStartupFuncs, IInv, OutsideTypes, connection, clock
  <2>3. "modules" \notin Parts
    BY <1>1 DEF Calls
  <2>q. QED
    BY <1>2, <1>6, <2>1, <2>2, <2>3 DEF RequestStartupFuncs
<1>7. CASE Startup[step] \notin {"set timeout", "reset", "globals", "modules"}
  <2>1. Initialize(Startup[step])
    BY <1>7 DEF StartupStep
  <2>2. OutsideTypes'
    BY <2>1, SameOutside DEF Initialize, IInv
  <2>q. QED
    BY <1>2, <1>7, <2>1, <2>2 DEF Initialize
<1>q. QED
  BY <1>3, <1>4, <1>5, <1>6, <1>7

LEMMA StartupKeeps == ASSUME IInv, StartupStep PROVE IInv'
<1>1. alive' = alive /\ UNCHANGED <<registered, due, p, called>>
      /\ stage = "startup" /\ step \in 1 .. 18 /\ frames = <<>> /\ names # "table"
  BY DEF StartupStep, IInv, StateTypes, StageInv
<1>2. FunctionTypes'
  BY <1>1, StartupEffects DEF IInv, FunctionTypes
<1>3. initialized' \subseteq Parts /\ shutdown_requested' \in Shutdowns
  BY StartupEffects DEF IInv, StateTypes, Shutdowns
<1>4. ASSUME NEW i \in 1 .. step, Startup[i] = "globals"
      PROVE  shutdown_requested' # "TERMINATE"
  <2>1. CASE i = step
    BY <1>4, <2>1, StartupEffects
  <2>2. CASE i # step
    <3>1. i \in 1 .. step - 1
      BY <1>1, <2>2
    <3>2. shutdown_requested # "TERMINATE"
      BY <1>1, <1>4, <3>1 DEF IInv, TopInv, Started
    <3>q. QED
      BY <3>2, StartupEffects
  <2>q. QED
    BY <2>1, <2>2
<1>5. ASSUME NEW i \in 1 .. step, Startup[i] = "modules"
      PROVE  names' = "NULL"
  <2>1. CASE i = step
    BY <1>5, <2>1, StartupEffects
  <2>2. CASE i # step
    <3>1. i \in 1 .. step - 1
      BY <1>1, <2>2
    <3>2. names = "NULL"
      BY <1>1, <1>5, <3>1 DEF IInv, StageInv, Started
    <3>q. QED
      BY <3>2, StartupEffects
  <2>q. QED
    BY <2>1, <2>2
<1>6. ASSUME step >= 2, NEW i \in 1 .. step, Startup[i] \in Parts
      PROVE  Startup[i] \in initialized'
  <2>1. CASE step = 2
    <3>1. i = 1 \/ i = 2
      BY <2>1
    <3>q. QED
      BY <1>6, <3>1, StartupOrder DEF Parts, Calls
  <2>2. CASE step # 2
    <3>1. Startup[step] # "reset"
      BY <1>1, <2>2, StartupOrder
    <3>2. CASE i = step
      BY <1>6, <3>1, <3>2, StartupEffects
    <3>3. CASE i # step
      <4>1. i \in 1 .. step - 1 /\ 2 \in 1 .. step - 1
        BY <1>1, <1>6, <2>2, <3>3
      <4>2. Started("reset")
        BY <4>1, StartupOrder DEF Started
      <4>3. Startup[i] \in initialized
        BY <1>1, <1>6, <4>1, <4>2 DEF IInv, StageInv
      <4>q. QED
        BY <3>1, <4>3, StartupEffects
    <3>q. QED
      BY <3>2, <3>3
  <2>q. QED
    BY <2>1, <2>2
<1>7. CASE step < 18
  <2>1. stage' = "startup" /\ step' = step + 1 /\ frames' = <<>>
    BY <1>1, <1>7, StartupOrder DEF StartupStep
  <2>2. \A i \in 1 .. step' - 1 : i \in 1 .. step
    BY <1>1, <2>1
  <2>3. StateTypes'
    BY <1>1, <1>3, <1>7, <2>1 DEF IInv, StateTypes
  <2>4. TopInv'
    BY <1>4, <2>1, <2>2 DEF TopInv, Started
  <2>5. StageInv'
    <3>1. ASSUME (Started("reset"))' PROVE step >= 2
      <4>1. PICK i \in 1 .. step' - 1 : Startup[i] = "reset"
        BY <3>1 DEF Started
      <4>2. i \in 1 .. step /\ i \in 1 .. 18
        BY <1>1, <1>7, <2>2, <4>1
      <4>3. i = 2
        BY <4>1, <4>2, StartupOrder
      <4>q. QED
        BY <1>1, <4>2, <4>3
    <3>2. (Started("modules"))' => names' = "NULL"
      BY <1>5, <2>2 DEF Started
    <3>3. names' # "table"
      BY <1>1, StartupEffects
    <3>q. QED
      BY <1>6, <2>1, <2>2, <3>1, <3>2, <3>3 DEF StageInv
  <2>q. QED
    BY <1>2, <2>1, <2>3, <2>4, <2>5, StartupEffects, NoneKeeps DEF IInv
<1>8. CASE step = 18
  <2>1. stage' = "script" /\ step' = 1 /\ frames' = <<Script>>
    <3>1. Len(Startup) = 18
      BY StartupOrder
    <3>2. ~(step < Len(Startup))
      BY <1>8, <3>1
    <3>q. QED
      BY <3>2 DEF StartupStep
  <2>2. Script \in Frames /\ Script.kind = "main" /\ Script.original = "NO" /\ Script.at = "lex"
    BY DEF Script, Frames, Kinds, Shutdowns, Places
  <2>3. FrameInv' /\ frames' # <<>> /\ Top'.at = "lex"
    BY <2>1, <2>2, OneKeeps
  <2>4. StateTypes'
    BY <1>1, <1>3, <2>1 DEF IInv, StateTypes
  <2>5. shutdown_requested' # "TERMINATE" /\ names' = "NULL"
    <3>1. 5 \in 1 .. step /\ 15 \in 1 .. step
      BY <1>8
    <3>q. QED
      BY <1>4, <1>5, <3>1, StartupOrder
  <2>6. initialized' = Parts
    <3>1. ASSUME NEW part \in Parts PROVE part \in initialized'
      <4>1. PICK i \in 1 .. 18 : part = Startup[i]
        BY <3>1, StartupOrder DEF Parts
      <4>q. QED
        BY <1>6, <1>8, <4>1
    <3>q. QED
      BY <1>3, <3>1
  <2>7. TopInv' /\ StageInv'
    BY <2>1, <2>3, <2>5, <2>6 DEF TopInv, StageInv
  <2>q. QED
    BY <1>2, <2>3, <2>4, <2>7, StartupEffects DEF IInv
<1>q. QED
  BY <1>1, <1>7, <1>8

-----------------------------------------------------------------------------
(* The theorems *)

\* Every step keeps the invariant.
LEMMA NextKeeps == ASSUME IInv, [Next]_vars PROVE IInv'
<1>1. CASE Next
  <2>1. CASE NextRequest \/ NoScript
    BY <2>1, BeginKeeps
  <2>2. CASE ScriptStep
    BY <2>2, ActKeeps, CallStep DEF ScriptStep
  <2>3. CASE HeaderSent \/ phplex \/ FunctionReturns \/ Begin \/ SetTerminate
    BY <2>3, ParserKeeps
  <2>4. CASE PhpparseReturns \/ Restore \/ ScriptEnds
    BY <2>4, LeaveKeeps
  <2>5. CASE StartupStep
    BY <2>5, StartupKeeps
  <2>6. CASE Finish \/ DestroyEntry \/ FunctionsDone \/ TeardownStep
    BY <2>6, FinishKeeps, DestroyKeeps, DoneKeeps, TeardownKeeps
  <2>7. CASE Expire
    BY <2>7, ExpireKeeps
  <2>8. CASE Abort \/ Interrupt \/ Crash
    BY <2>8, OutsideKeeps
  <2>q. QED
    BY <1>1, <2>1, <2>2, <2>3, <2>4, <2>5, <2>6, <2>7, <2>8 DEF Next, ProgramStep
<1>2. CASE UNCHANGED vars
  <2>1. UNCHANGED <<alive, stage, step, initialized, shutdown_requested>>
        /\ UNCHANGED <<connection, clock, header>> /\ UNCHANGED <<frames, functions>>
    BY <1>2 DEF vars, request
  <2>2. StateTypes' /\ FunctionTypes' /\ FrameInv' /\ StageInv'
    BY <2>1 DEF IInv, StateTypes, FunctionTypes, FrameInv, StageInv, functions, Started
  <2>3. OutsideTypes'
    BY <2>1, SameOutside DEF IInv
  <2>4. TopInv'
    BY <2>1 DEF IInv, TopInv, Top, Started
  <2>q. QED
    BY <2>2, <2>3, <2>4 DEF IInv
<1>q. QED
  BY <1>1, <1>2

\* The invariant holds throughout.
THEOREM Inductive == Spec => []IInv
<1>1. Init => IInv
  BY InitIInv
<1>2. IInv /\ [Next]_vars => IInv'
  BY NextKeeps
<1>q. QED
  BY <1>1, <1>2, PTL DEF Spec

\* Every variable keeps to the values the code gives it: nesting, shutdown
\* functions and the walk over them within their bounds.
THEOREM TypeCorrect == Spec => []TypeOK
<1>1. IInv => TypeOK
  BY IInvTypes
<1>q. QED
  BY <1>1, Inductive, PTL

\* The end of a function, TERMINATE, ends the parser of that function and no
\* other, however calls are nested and whenever the time limit expires or the
\* request is interrupted (phplex, call_user_function, IC_FUNCTION's rule).
THEOREM TerminateCorrect == Spec => []TerminateIsOwn
<1>1. IInv => TerminateIsOwn
  BY IInvImplies
<1>q. QED
  BY <1>1, Inductive, PTL

\* No parser runs, for the script or for a shutdown function, but between a
\* complete php3_request_startup and the first step of the destruction in
\* php3_request_shutdown.
THEOREM CompleteCorrect == Spec => []CompleteWhileRunning
<1>1. IInv => CompleteWhileRunning
  BY IInvImplies
<1>q. QED
  BY <1>1, Inductive, PTL

\* php3_request_shutdown leaves nothing of a request, even if its startup was
\* interrupted in the middle.
THEOREM NothingLeftCorrect == Spec => []NothingLeft
<1>1. IInv => NothingLeft
  BY IInvImplies
<1>q. QED
  BY <1>1, Inductive, PTL

-----------------------------------------------------------------------------
(* That an abort sticks *)

\* Where an abort may be undone it has been requested by the timer, after the
\* test of the window; where the script acts after all, the message of the
\* abort has sent the header, which is sent once.
WindowInv ==
  alive /\ frames # <<>> /\ shutdown_requested = "ABNORMAL" =>
    /\ Top.at \in Windows => expired
    /\ Top.at = "act" => php3_HeaderPrinted
    /\ Top.at # "sending"
SendingInv == alive /\ frames # <<>> /\ Top.at = "sending" => header_is_being_sent

LEMMA WindowKeeps ==
  ASSUME IInv, WindowInv, SendingInv, [Next]_vars
  PROVE  WindowInv' /\ SendingInv'
<1> DEFINE Kept == WindowInv' /\ SendingInv'
<1>1. \A place \in Places : frames # <<>> /\ Goto(place) => frames' # <<>> /\ Top'.at = place
  BY GotoKeeps DEF IInv
<1>2. ASSUME Expire PROVE Kept
  <2>1. frames' = frames /\ Top' = Top
    BY <1>2 DEF Expire, Top
  <2>2. CASE shutdown_requested = "NO"
    <3>1. Fatal /\ alive' = alive /\ expired'
      BY <1>2, <2>2 DEF Expire
    <3>2. header_is_being_sent' = header_is_being_sent
      BY <3>1 DEF Fatal, header
    <3>3. shutdown_requested' = "ABNORMAL" => php3_HeaderPrinted' /\ ~header_is_being_sent
      BY <2>2, <3>1 DEF Fatal
    <3>q. QED
      BY <2>1, <3>1, <3>2, <3>3 DEF WindowInv, SendingInv
  <2>3. CASE shutdown_requested # "NO"
    BY <1>2, <2>3 DEF Expire, WindowInv, SendingInv
  <2>q. QED
    BY <2>2, <2>3
<1>3. ASSUME FatalError \/ Compute \/ set_time_limit \/ ignore_user_abort_call
             \/ register_shutdown_function \/ Exit \/ HeaderSent \/ FunctionReturns
             \/ Begin \/ SetTerminate
      PROVE  Kept
  <2>1. frames # <<>> /\ (Goto("lex") \/ Goto("closed"))
    BY <1>3 DEF FatalError, Compute, set_time_limit, ignore_user_abort_call,
                register_shutdown_function, Exit, HeaderSent, FunctionReturns, Begin,
                SetTerminate, InAction, At
  <2>2. Top'.at \in {"lex", "closed"}
    BY <1>1, <2>1 DEF Places
  <2>q. QED
    BY <2>2 DEF WindowInv, SendingInv, Windows
<1>4. ASSUME SendHeader PROVE Kept
  <2>1. Top'.at = "sending"
    BY <1>1, <1>4 DEF SendHeader, InAction, At, Places
  <2>2. alive /\ frames # <<>> /\ Top.at = "act" /\ ~php3_HeaderPrinted
    BY <1>4 DEF SendHeader, InAction, At
  <2>3. shutdown_requested' # "ABNORMAL" /\ header_is_being_sent'
    BY <1>4, <2>2 DEF SendHeader, WindowInv
  <2>q. QED
    BY <2>1, <2>3 DEF WindowInv, SendingInv
<1>5. ASSUME phplex PROVE Kept
  <2>1. frames # <<>> /\ (Goto("over") \/ (Goto("act") /\ shutdown_requested' = "NO"))
    BY <1>5 DEF phplex, At
  <2>2. Top'.at = "over" \/ (Top'.at = "act" /\ shutdown_requested' = "NO")
    BY <1>1, <2>1 DEF Places
  <2>q. QED
    BY <2>2 DEF WindowInv, SendingInv, Windows
<1>6. ASSUME TestTerminate PROVE Kept
  <2>1. frames # <<>> /\ shutdown_requested' = shutdown_requested
        /\ (Goto("lex") \/ (Goto("closing") /\ shutdown_requested = "NO"))
    BY <1>6 DEF TestTerminate, EndOfFunction, InAction, At
  <2>2. Top'.at = "lex" \/ (Top'.at = "closing" /\ shutdown_requested' = "NO")
    BY <1>1, <2>1 DEF Places
  <2>q. QED
    BY <2>2 DEF WindowInv, SendingInv, Windows
<1>7. ASSUME call_user_function PROVE Kept
  <2>1. frames # <<>> /\ Len(frames) <= MaxCalls /\ shutdown_requested' # "ABNORMAL"
        /\ shutdown_requested \in {"NO", "NORMAL"}
    BY <1>7 DEF call_user_function, InAction, At, Refuses, IInv, TopInv, Quiet, StateTypes,
                Shutdowns
  <2>2. Top'.at = "entered"
    BY <1>7, <2>1, CallKeeps DEF call_user_function, IInv
  <2>q. QED
    BY <2>1, <2>2 DEF WindowInv, SendingInv
<1>8. ASSUME PhpparseReturns \/ Restore \/ ScriptEnds PROVE Kept
  <2>1. frames # <<>> /\ (Return \/ Goto("leaving"))
    BY <1>8 DEF PhpparseReturns, Restore, ScriptEnds, At
  <2>2. CASE Return
    <3>1. frames' # <<>> => Top'.at = "calling"
      BY <2>1, <2>2, ReturnKeeps DEF IInv
    <3>q. QED
      BY <3>1 DEF WindowInv, SendingInv, Windows
  <2>3. CASE ~Return
    <3>1. shutdown_requested' = "NO" /\ Goto("leaving")
      BY <1>8, <2>3 DEF PhpparseReturns, Restore, ScriptEnds
    <3>2. Top'.at = "leaving"
      BY <1>1, <2>1, <3>1 DEF Places
    <3>q. QED
      BY <3>1, <3>2 DEF WindowInv, SendingInv
  <2>q. QED
    BY <2>2, <2>3
<1>9. ASSUME DestroyEntry PROVE Kept
  <2>1. frames' = <<>> \/ (frames' = <<Frame("shutdown", "entered")>> /\ ~Refuses)
    BY <1>9 DEF DestroyEntry
  <2>2. shutdown_requested' = shutdown_requested
    BY <1>9 DEF DestroyEntry
  <2>3. CASE frames' = <<>>
    BY <2>3 DEF WindowInv, SendingInv
  <2>4. CASE frames' = <<Frame("shutdown", "entered")>> /\ ~Refuses
    <3>1. Top'.at = "entered"
      BY <2>4 DEF Top, Frame
    <3>q. QED
      BY <2>2, <2>4, <3>1 DEF WindowInv, SendingInv, Refuses
  <2>q. QED
    BY <2>1, <2>3, <2>4
<1>10. ASSUME NextRequest \/ NoScript \/ Finish \/ FunctionsDone \/ TeardownStep PROVE Kept
  <2>1. frames' = <<>>
    <3>1. stage \notin {"script", "functions"} => frames = <<>>
      BY DEF IInv, StageInv
    <3>q. QED
      BY <1>10, <3>1 DEF NextRequest, NoScript, Finish, FunctionsDone, TeardownStep, Cleanup
  <2>q. QED
    BY <2>1 DEF WindowInv, SendingInv
<1>11. ASSUME StartupStep PROVE Kept
  <2>1. frames = <<>>
    BY <1>11 DEF IInv, StageInv, StartupStep
  <2>2. frames' = <<>> \/ frames' = <<Script>>
    BY <1>11, <2>1 DEF StartupStep
  <2>3. frames' # <<>> => Top'.at = "lex"
    BY <2>2 DEF Top, Script
  <2>q. QED
    BY <2>3 DEF WindowInv, SendingInv, Windows
<1>12. ASSUME Abort \/ Crash \/ UNCHANGED vars PROVE Kept
  <2>1. UNCHANGED <<frames, shutdown_requested, expired, php3_HeaderPrinted,
                    header_is_being_sent>> /\ (alive' => alive)
    BY <1>12 DEF Abort, Crash, vars, request, clock, header
  <2>2. Top' = Top
    BY <2>1 DEF Top
  <2>q. QED
    BY <2>1, <2>2 DEF WindowInv, SendingInv
<1>13. ASSUME Interrupt PROVE Kept
  <2>1. frames' = <<>>
    BY <1>13 DEF Interrupt, CleanupRegistered, Cleanup, IInv, StageInv
  <2>q. QED
    BY <2>1 DEF WindowInv, SendingInv
<1>q. QED
  <2> HIDE DEF Kept
  <2>1. ASSUME ScriptStep PROVE Kept
    BY <1>3, <1>4, <1>6, <1>7, <2>1 DEF ScriptStep
  <2>2. ASSUME ProgramStep PROVE Kept
    BY <1>3, <1>5, <1>8, <1>9, <1>10, <1>11, <2>2 DEF ProgramStep
  <2>3. Kept
    BY <1>2, <1>3, <1>10, <1>12, <1>13, <2>1, <2>2 DEF Next
  <2>q. QED
    BY <2>3 DEF Kept

\* Outside the windows nothing undoes an abort.
LEMMA SticksStep ==
  ASSUME IInv, WindowInv, SendingInv, [Next]_vars,
         frames # <<>>, frames' # <<>>, shutdown_requested = "ABNORMAL",
         expired => Top.at \notin Windows
  PROVE  shutdown_requested' = "ABNORMAL"
<1> DEFINE Sticks == shutdown_requested' = "ABNORMAL"
<1>1. alive => Top.at \notin Windows /\ Top.at # "sending"
  BY DEF WindowInv
<1>2. stage \in {"script", "functions"}
  BY DEF IInv, StageInv
<1>3. Fatal => Sticks
  BY DEF Fatal
<1>4. FatalError \/ Exit \/ Expire => Sticks
  BY <1>3 DEF FatalError, Exit, Expire
<1>5. phplex => Sticks
  BY DEF phplex, AfterEnd
<1>6. ~HeaderSent /\ ~Begin /\ ~SetTerminate /\ ~Restore
  BY <1>1 DEF HeaderSent, Begin, SetTerminate, Restore, At, Windows
<1>7. ~StartupStep /\ ~Finish
  BY <1>2 DEF StartupStep, Finish
<1>8. NextRequest \/ SendHeader \/ Compute \/ set_time_limit \/ ignore_user_abort_call
      \/ register_shutdown_function \/ call_user_function \/ TestTerminate \/ NoScript
      \/ ScriptEnds \/ PhpparseReturns \/ DestroyEntry \/ FunctionsDone \/ TeardownStep
      \/ FunctionReturns \/ Abort \/ Interrupt \/ Crash \/ UNCHANGED vars => Sticks
  BY DEF NextRequest, SendHeader, Compute, set_time_limit, ignore_user_abort_call,
         register_shutdown_function, call_user_function, TestTerminate, NoScript, ScriptEnds,
         PhpparseReturns, DestroyEntry, FunctionsDone, TeardownStep, FunctionReturns, Abort,
         Interrupt, Crash, vars
<1>q. QED
  <2> HIDE DEF Sticks
  <2>1. Sticks
    BY <1>4, <1>5, <1>6, <1>7, <1>8 DEF Next, ScriptStep, ProgramStep
  <2>q. QED
    BY <2>1 DEF Sticks

-----------------------------------------------------------------------------
(* That shutdown functions are called *)

\* While a shutdown function runs, and until calls are refused, those that
\* were due and are not called are still ahead of the walk.
WalkInv ==
  stage = "functions" /\ names = "table" /\ (frames # <<>> \/ ~Refuses) =>
    \A e \in 1 .. due : e \in called \/ (p # 0 /\ p <= e)

LEMMA WalkKeeps == ASSUME IInv, WalkInv, [Next]_vars PROVE WalkInv'
<1> DEFINE Kept == WalkInv'
<1>1. ASSUME frames # <<>>, UNCHANGED <<stage, due, p, called>> PROVE Kept
  <2>1. stage = "functions" => names = "table"
    BY <1>1 DEF IInv, StageInv
  <2>q. QED
    BY <1>1, <2>1 DEF WalkInv
<1>2. ASSUME ScriptStep \/ phplex \/ HeaderSent \/ FunctionReturns \/ Begin \/ SetTerminate
             \/ PhpparseReturns \/ Restore
      PROVE  Kept
  <2>1. frames # <<>>
    BY <1>2 DEF ScriptStep, FatalError, Exit, SendHeader, Compute, set_time_limit,
                ignore_user_abort_call, register_shutdown_function, call_user_function,
                TestTerminate, EndOfFunction, phplex, HeaderSent, FunctionReturns, Begin,
                SetTerminate, PhpparseReturns, Restore, InAction, At
  <2>2. UNCHANGED <<stage, due, p, called>>
    BY <1>2 DEF ScriptStep, FatalError, Exit, SendHeader, Compute, set_time_limit,
                ignore_user_abort_call, register_shutdown_function, call_user_function,
                TestTerminate, phplex, HeaderSent, FunctionReturns, Begin, SetTerminate,
                PhpparseReturns, Restore, functions
  <2>q. QED
    BY <1>1, <2>1, <2>2
<1>3. ASSUME NextRequest \/ StartupStep \/ NoScript \/ ScriptEnds \/ FunctionsDone
             \/ TeardownStep
      PROVE  Kept
  <2>1. stage' # "functions"
    BY <1>3 DEF NextRequest, StartupStep, NoScript, ScriptEnds, FunctionsDone, TeardownStep
  <2>q. QED
    BY <2>1 DEF WalkInv
<1>4. ASSUME Finish \/ Interrupt PROVE Kept
  <2>1. CASE Cleanup
    <3>1. names' = "table" => p' = 1 /\ due' \in Nat
      BY <2>1 DEF Cleanup, IInv, FunctionTypes
    <3>q. QED
      BY <3>1 DEF WalkInv
  <2>2. CASE ~Cleanup
    <3>1. stage' = "idle"
      BY <1>4, <2>2 DEF Finish, Interrupt
    <3>q. QED
      BY <3>1 DEF WalkInv
  <2>q. QED
    BY <2>1, <2>2
<1>5. ASSUME DestroyEntry PROVE Kept
  <2>1. stage = "functions" /\ names = "table" /\ due' = due /\ p' = NextEntry(p)
        /\ due \in Nat /\ registered \in Nat /\ due <= registered /\ p \in 1 .. registered
    BY <1>5 DEF DestroyEntry, IInv, FunctionTypes
  <2>2. CASE Refuses
    <3>1. frames' = <<>> /\ Refuses'
      BY <1>5, <2>2 DEF DestroyEntry, Refuses
    <3>q. QED
      BY <3>1 DEF WalkInv
  <2>3. CASE ~Refuses
    <3>1. called' = called \cup {p}
      BY <1>5, <2>3 DEF DestroyEntry
    <3>2. ASSUME NEW e \in 1 .. due PROVE e \in called' \/ (p' # 0 /\ p' <= e)
      <4>1. e \in called \/ p <= e
        BY <2>1, <2>3 DEF WalkInv
      <4>2. CASE e \in called \/ e = p
        BY <3>1, <4>2
      <4>3. CASE p <= e /\ e # p
        BY <2>1, <4>3 DEF NextEntry
      <4>q. QED
        BY <4>1, <4>2, <4>3
    <3>q. QED
      BY <2>1, <3>2 DEF WalkInv
  <2>q. QED
    BY <2>2, <2>3
<1>6. ASSUME Expire \/ Abort \/ Crash \/ UNCHANGED vars PROVE Kept
  <2>1. UNCHANGED <<stage, names, due, called, p, frames>>
    BY <1>6 DEF Expire, Abort, Crash, vars, functions
  <2>2. Refuses => Refuses'
    <3>1. Fatal /\ Refuses => Refuses'
      BY DEF Fatal, Refuses
    <3>q. QED
      BY <1>6, <3>1 DEF Expire, Abort, Crash, vars, Refuses
  <2>q. QED
    BY <2>1, <2>2 DEF WalkInv
<1>q. QED
  <2> HIDE DEF Kept
  <2>1. Kept
    BY <1>2, <1>3, <1>4, <1>5, <1>6 DEF Next, ProgramStep
  <2>q. QED
    BY <2>1 DEF Kept

\* Which is what is due when the table is destroyed.
LEMMA CalledStep ==
  ASSUME IInv, WalkInv, [Next]_vars, stage = "functions", stage' = "teardown",
         names = "table", shutdown_requested # "ABNORMAL"
  PROVE  1 .. due \subseteq called
<1>1. FunctionsDone
  BY DEF Next, ScriptStep, ProgramStep, NextRequest, FatalError, Exit, SendHeader, Compute,
         set_time_limit, ignore_user_abort_call, register_shutdown_function,
         call_user_function, TestTerminate, StartupStep, NoScript, phplex, HeaderSent,
         ScriptEnds, Begin, SetTerminate, PhpparseReturns, Restore, Finish, Cleanup,
         DestroyEntry, TeardownStep, FunctionReturns, Expire, Abort, Interrupt, Crash, vars
<1>2. p = 0
  BY <1>1 DEF FunctionsDone
<1>q. QED
  BY <1>2 DEF WalkInv, Refuses

\* An error, exit, the time limit or a lost client ends every parser at work:
\* no step, of the script, of the program or of the timer, takes the request
\* to end back while one of them runs, but for an expiry of the timer between
\* a test of shutdown_requested and the assignment it guards.
THEOREM AbortSticksCorrect == Spec => AbortSticks
<1>1. Init => WindowInv /\ SendingInv
  BY DEF Init, WindowInv, SendingInv
<1>2. IInv /\ (WindowInv /\ SendingInv) /\ [Next]_vars => (WindowInv /\ SendingInv)'
  BY WindowKeeps
<1>3. IInv /\ (WindowInv /\ SendingInv) /\ [Next]_vars =>
        [frames # <<>> /\ frames' # <<>> /\ shutdown_requested = "ABNORMAL"
         /\ (expired => Top.at \notin Windows) => shutdown_requested' = "ABNORMAL"]_vars
  BY SticksStep
<1>q. QED
  BY <1>1, <1>2, <1>3, Inductive, PTL DEF Spec, AbortSticks

\* The functions a script has registered with register_shutdown_function are
\* all called before their table is destroyed, if neither it nor one of them
\* was ended by an error, exit or a shutdown, and whether the request came to
\* its end or was interrupted.
THEOREM FunctionsCalledCorrect == Spec => ScriptFunctionsCalled
<1>1. Init => WalkInv
  BY DEF Init, WalkInv
<1>2. IInv /\ WalkInv /\ [Next]_vars => WalkInv'
  BY WalkKeeps
<1>3. IInv /\ WalkInv /\ [Next]_vars =>
        [stage = "functions" /\ stage' = "teardown" /\ names = "table"
         /\ shutdown_requested # "ABNORMAL" => 1 .. due \subseteq called]_vars
  BY CalledStep
<1>q. QED
  BY <1>1, <1>2, <1>3, Inductive, PTL DEF Spec, ScriptFunctionsCalled
=============================================================================
