-------------------------- MODULE InterpreterInvariant --------------------------
(***************************************************************************)
(* What holds of the engine at every step, for InterpreterProofs: where    *)
(* its stacks stand.                                                       *)
(*                                                                         *)
(* The parser is a sequence of symbols, and what a symbol does to the      *)
(* stacks does not depend on the rules that it is recognized by.  So every *)
(* symbol gets an Effect between two heights of the stacks, and a sequence *)
(* of symbols is a run of heights.  The invariant, IInv, says that the     *)
(* stacks are at the height of the parser, that the run from there ends at *)
(* Bottom, where nothing is left on the stacks but what a caller waits     *)
(* for, and that every token that can be turned or sought is in the cache. *)
(***************************************************************************)
EXTENDS Interpreter

-----------------------------------------------------------------------------
(* What a symbol does to the stacks *)

\* For a symbol that is still to be recognized: what is on top of what among
\* the semantic values (v), the lengths of css and switch_stack (c, s), the
\* levels of loops in this function and in those on the function_state_stack
\* (n, f), when the parser comes to it; and how far it is then in a call (m).
Kind == {"value", "offset", "call", "called", "skipped"}
Height == [v : Seq(Kind), c : Nat, s : Nat, f : Seq(Nat), n : Nat, m : 0 .. 6]

Values(k, w) ==
  IF k = 0 THEN w ELSE IF k = 1 THEN Push("value", w)
  ELSE IF k = 2 THEN Push("value", Push("value", w))
  ELSE Push("value", Push("value", Push("value", w)))

Down == -1

\* Takes values, gives values, and moves the other stacks.
Does(a, b, take, give, dc, ds, dn) ==
  \E w \in Seq(Kind) :
    /\ a.m = 0 /\ a.v = Values(take, w)
    /\ b = [v |-> Values(give, w), c |-> a.c + dc, s |-> a.s + ds, f |-> a.f,
            n |-> a.n + dn, m |-> 0]

\* Symbols that leave all stacks alone.
Idle == {")", "{", "}", ";", ":", "WHILE", "statement", "statement_list",
         "while_iterations", "do_while_iterations", "for_iterations",
         "elseif_list", "else_single", "case_list",
         "cs_start_else", "cs_force_eval_do_while", "for_pre_expr3",
         "cs_switch_default_pre", "cs_switch_case_post", "cs_break_continue",
         "restore_token", "terminate_phpparse", "cs_questionmark_op_pre_expr2"}
\* Symbols that leave one value behind.
Giving == {"expr", "primary", "for_expr", "evaluate", "empty"}
\* Symbols that take one value.
Dropping == {"drop", "cs_start_elseif", "cs_return", "for_pre_expr2", "cs_switch_case_pre"}

\* The same but for the values and the place in a call.
With(a, w, m) == [v |-> w, c |-> a.c, s |-> a.s, f |-> a.f, n |-> a.n, m |-> m]

\* What single symbols do. The offsets that end_token keeps among the semantic
\* values, and the call that is being passed its arguments, are told apart from
\* plain values.
Keeps(a, b) == a.m = 0 /\ b = a
Parenthesis(a, b) == (a.m = 0 /\ b = a) \/ (a.m = 1 /\ b = With(a, a.v, 2))
GivesOffset(a, b) == a.m = 0 /\ b = With(a, Push("offset", a.v), 0)
ClosesCall(a, b) == a.m = 2 /\ a.v # <<>> /\ b = With(a, Push("offset", a.v), 3)
LeavesHeader(a, b) ==
  \E w \in Seq(Kind) :
    /\ a.m = 0
    /\ a.v = Push("value", Push("offset", Push("value", Push("offset", w))))
    /\ b = With(a, Push("offset", Push("offset", w)), 0)
LeavesFor(a, b) ==
  \E w \in Seq(Kind) :
    /\ a.m = 0
    /\ a.v = Push("offset", Push("offset", Push("offset", w)))
    /\ b = [v |-> w, c |-> a.c - 1, s |-> a.s, f |-> a.f, n |-> a.n - 1, m |-> 0]
\* A function call: its function is looked up, and it is entered only behind its
\* arguments, if the caller executes. A run takes it as skipped; the proof that the
\* function is entered replaces that by EndsCalled (CallTaken).
Asks(a, b) == a.m = 0 /\ b = With(a, Push("call", a.v), 1)
Skips(a, b) ==
  \E w \in Seq(Kind) :
    /\ a.m = 3 /\ a.v = Push("offset", Push("call", w))
    /\ b = With(a, Push("offset", Push("skipped", w)), 6)
InCall(a, b) == a.m = 4 /\ b = a
Bodyless(a, b) == a.m \in {4, 6} /\ b = With(a, a.v, 5)
EndsSkipped(a, b) ==
  \E w \in Seq(Kind) :
    /\ a.m \in {0, 5} /\ a.v = Push("offset", Push("skipped", w))
    /\ b = With(a, Push("value", w), 0)
EndsCalled(a, b) ==
  \E w \in Seq(Kind) :
    /\ a.m \in {0, 5} /\ a.v = Push("offset", Push("called", w))
    /\ a.n = 0 /\ a.f = Push(b.n, b.f) /\ a.c = b.c + 1
    /\ b.v = Push("value", w) /\ b.s = a.s /\ b.m = 0

\* What is only met where a flag has been saved.
Inside == {"for_pre_expr2", "for_pre_expr3", "for_pre_statement", "case_list",
           "cs_switch_case_post", "cs_questionmark_op_pre_expr2"}

\* What a symbol does between the height before it and the height behind it.
Effect(x, a, b) ==
  /\ x \in Inside => a.c # 0
  /\ \/ (x \in Idle \/ x = "EOF") /\ Keeps(a, b)
     \/ x \in Giving /\ Does(a, b, 0, 1, 0, 0, 0)
     \/ x = "operators" /\ Does(a, b, 1, 1, 0, 0, 0)
     \/ x \in Dropping /\ Does(a, b, 1, 0, 0, 0, 0)
     \/ x = "cs_start_if" /\ Does(a, b, 1, 0, 1, 0, 0)
     \/ x \in {"cs_elseif_start_evaluate", "start_function_decleration"}
        /\ Does(a, b, 0, 0, 1, 0, 0)
     \/ x \in {"cs_end_if", "cs_elseif_end_evaluate", "end_function_decleration"}
        /\ Does(a, b, 0, 0, Down, 0, 0)
     \/ x = "cs_start_while" /\ Does(a, b, 1, 0, 1, 0, 1)
     \/ x \in {"cs_start_do_while", "for_pre_expr1"} /\ Does(a, b, 0, 0, 1, 0, 1)
     \/ x = "cs_end_while" /\ Does(a, b, 0, 0, Down, 0, Down)
     \/ x = "cs_end_do_while" /\ Does(a, b, 1, 0, Down, 0, Down)
     \/ x = "cs_switch_start" /\ Does(a, b, 1, 0, 1, 1, 1)
     \/ x = "cs_switch_end" /\ Does(a, b, 0, 0, Down, Down, Down)
     \/ x \in {"cs_pre_boolean_or", "cs_pre_boolean_and", "cs_questionmark_op_pre_expr1"}
        /\ Does(a, b, 1, 1, 1, 0, 0)
     \/ x \in {"cs_post_boolean_or", "cs_post_boolean_and"} /\ Does(a, b, 2, 1, Down, 0, 0)
     \/ x = "cs_questionmark_op_post_expr2" /\ Does(a, b, 3, 1, Down, 0, 0)
     \/ x = "(" /\ Parenthesis(a, b)
     \/ x \in {"offset of ;", "offset of )"} /\ GivesOffset(a, b)
     \/ x = "offset of )" /\ ClosesCall(a, b)
     \/ x = "for_pre_statement" /\ LeavesHeader(a, b)
     \/ x = "for_post_statement" /\ LeavesFor(a, b)
     \/ x = "cs_functioncall_pre_variable_passing" /\ Asks(a, b)
     \/ x = "cs_functioncall_post_variable_passing" /\ Skips(a, b)
     \/ x \in {"call_user_function", "RETURN_TRUE"} /\ InCall(a, b)
     \/ x = "possible_function_call" /\ Bodyless(a, b)
     \/ x = "cs_functioncall_end" /\ (EndsSkipped(a, b) \/ EndsCalled(a, b))

\* The symbols p lead from height a to height z.
IsRun(h, p, a, z) ==
  /\ h \in [1 .. Len(p) + 1 -> Height]
  /\ h[1] = a /\ h[Len(p) + 1] = z
  /\ \A k \in 1 .. Len(p) : Effect(p[k].sym, h[k], h[k + 1])
Runs(p, a, z) == \E h : IsRun(h, p, a, z)

\* The symbols of the grammar.
Name == Idle \cup Giving \cup Dropping \cup
        {"(", "operators", "cs_start_if", "cs_elseif_start_evaluate",
         "start_function_decleration", "cs_end_if", "cs_elseif_end_evaluate",
         "end_function_decleration", "cs_start_while", "cs_start_do_while", "for_pre_expr1",
         "cs_end_while", "cs_end_do_while", "cs_switch_start", "cs_switch_end",
         "cs_pre_boolean_or", "cs_pre_boolean_and", "cs_questionmark_op_pre_expr1",
         "cs_post_boolean_or", "cs_post_boolean_and", "cs_questionmark_op_post_expr2",
         "offset of ;", "offset of )", "for_pre_statement", "for_post_statement",
         "cs_functioncall_pre_variable_passing", "cs_functioncall_post_variable_passing",
         "call_user_function", "RETURN_TRUE", "possible_function_call", "cs_functioncall_end"}
Items(T) == [sym : Name \cup {"EOF"}, tok : T]

-----------------------------------------------------------------------------
(* What the engine holds when the parser is at a height *)

\* A stack of anything.
IsSeq(s) == \E S : s \in Seq(S)

\* A function is being called: its declaration is in the token cache.
IsCall(x, n) == x # NoCall /\ (x.type = "user" => x.offset \in 1 .. n - 1)

\* A value of a kind, where the token cache has n tokens.
ValueIs(k, x, n) ==
  /\ k = "offset" => x \in 1 .. n - 1
  /\ k = "call" => x = NoCall \/ IsCall(x, n)
  /\ k = "called" => IsCall(x, n)
  /\ k = "skipped" => x = NoCall

\* The semantic values are as the kinds say.
Conforms(vs, ks, n) ==
  /\ IsSeq(vs) /\ Len(vs) = Len(ks)
  /\ \A i \in 1 .. Len(ks) : ValueIs(ks[i], vs[i], n)

-----------------------------------------------------------------------------
(* The invariant *)

\* The types of what TypeOK has no type for.
Flag == {"EXECUTE", "BEFORE_EXECUTE", "DONT_EXECUTE"}
FunctionState == [loop_nest_level : Nat, loop_change_level : Nat,
                  loop_change_type : {"DO_NOTHING", "DO_BREAK", "DO_CONTINUE"},
                  returned : BOOLEAN, type : {"none", "user", "internal"}]
Shutdown == {"NO", "TERMINATE"}

\* Tokens of the script, and those that the actions turn them to.
OfTexts(field) == UNION {{Text[p][i][field] : i \in 1 .. Len(Text[p])} : p \in DOMAIN Text}
Token == [type : OfTexts("type") \cup {"WHILE", "CONTINUED_WHILE", "DO", "CONTINUED_DOWHILE",
                                       "FOR", "CONTINUED_FOR", "FUNCTION", "IC_FUNCTION"},
          tag : OfTexts("tag"), switched : OfTexts("switched") \cup {TRUE}, offset : Nat]
TokenOrEOF == Token \cup {EOF}

\* The cache has n tokens; the end of the file is one of them, and the last.
TokensOK(ts, n) ==
  /\ ts \in Seq(Token) /\ Len(ts) = n /\ n >= 1 /\ ts[n].type = "EOF"
  /\ \A i \in 1 .. n : ts[i].offset = i

\* A token that was read.
Read(t, n) == t = EOF \/ (t \in Token /\ (t.type = "EOF" \/ t.offset \in 1 .. n - 1))
LookaheadOK(t, n) == t = EMPTY \/ Read(t, n)

\* Symbols whose actions do not use the token.
Bare == {"statement_list", "statement", "expr", "primary", "operators", "EOF", ";", "drop"}
SymbolsOK(p, n) ==
  /\ p \in Seq(Items(TokenOrEOF))
  /\ \A i \in 1 .. Len(p) : /\ p[i].sym \in Bare \/ p[i].tok.offset \in 1 .. n - 1
                            /\ p[i].sym = "EOF" => i = Len(p)

\* The parser does not read on behind the end of the file.
PlaceOK(ps, y, p, n) == ps \in 1 .. n + 1 /\ (ps = n + 1 /\ p # <<>> => y.type = "EOF")

TableOK(table, n) == \A f \in DOMAIN table : table[f] \in 1 .. n - 1

\* What waits for the end of a call from call_user_function.
FrameOK(frame, n) ==
  /\ SymbolsOK(frame.parse, n) /\ LookaheadOK(frame.yychar, n)
  /\ PlaceOK(frame.return_offset + 1, frame.yychar, frame.parse, n)
  /\ frame.ExecuteFlag \in Flag /\ frame.function_state \in FunctionState
  /\ frame.shutdown \in Shutdown
FramesOK(su, n) == IsSeq(su) /\ \A k \in 1 .. Len(su) : FrameOK(su[k], n)

\* The flags, and the states of the functions that were entered.
FlowInv ==
  /\ ExecuteFlag \in Flag /\ function_state \in FunctionState
  /\ css \in Seq(Flag) /\ function_state_stack \in Seq(FunctionState)
  /\ status \in {"running", "done", "died", "parse error"}
\* The tokens: what the parser remembers of them is in the cache.
InputInv ==
  LET n == Len(tokens)
  IN  /\ TokensOK(tokens, n) /\ LookaheadOK(yychar, n) /\ PlaceOK(pos, yychar, parse, n)
      /\ shutdown \in Shutdown /\ SymbolsOK(parse, n) /\ TableOK(function_table, n)
      /\ FramesOK(suspended, n)

\* The loops of the functions that wait.
Levels(stack) == [i \in 1 .. Len(stack) |-> stack[i].loop_nest_level]

\* A call was entered into the stack of functions and its arguments are not passed.
Waiting(a, vs) == a.m \in 1 .. 3 /\ vs[IF a.m = 3 THEN 2 ELSE 1] # NoCall

\* The engine is at height a.
IsAt(a, vs, cs, sw, fs, stack, ex, n) ==
  /\ Conforms(vs, a.v, n) /\ IsSeq(sw)
  /\ Len(cs) = a.c /\ Len(sw) = a.s /\ fs.loop_nest_level = a.n
  /\ Levels(stack) = IF Waiting(a, vs) THEN Push(a.n, a.f) ELSE a.f
  /\ Waiting(a, vs) => ex = TRUE

\* The height at the end of a parser, and of one for call_user_function at u.
Ground == [v |-> <<>>, c |-> 0, s |-> 0, f |-> <<>>, n |-> 0, m |-> 0]
Under(u) == [v |-> <<>>, c |-> u.c + 1, s |-> u.s, f |-> Push(0, u.f), n |-> 0, m |-> 0]
Bottom(U) == IF U = <<>> THEN Ground ELSE Under(U[1])

\* The parser is at height a, and those that wait for it at U.
Shape(U, a, p, su) ==
  /\ a \in Height /\ U \in Seq(Height) /\ Len(U) = Len(su)
  /\ Runs(p, a, Bottom(U))
  /\ \A k \in 1 .. Len(U) : Runs(su[k].parse, U[k], Bottom(Pop(U, k)))
WaitAt(U, su, n) ==
  \A k \in 1 .. Len(U) : /\ U[k].m = 4 /\ Conforms(su[k].values, U[k].v, n)
                         /\ su[k].function_state.loop_nest_level = U[k].n

\* The engine is where the parser is.
StructInv ==
  \E U, a :
    /\ Shape(U, a, parse, suspended) /\ WaitAt(U, suspended, Len(tokens))
    /\ IsAt(a, values, css, switch_stack, function_state, function_state_stack, Execute,
            Len(tokens))

\* The inductive invariant. The flags need no height, and a parse error or exit ends
\* the script where it is.
IInv == FlowInv /\ InputInv /\ ExecuteInSync /\ (Running => StructInv)
=============================================================================
