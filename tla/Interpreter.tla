----------------------------- MODULE Interpreter -----------------------------
(***************************************************************************)
(* The engine of PHP 3 executes a script while parsing it.  Tokens are     *)
(* read once from the scanner into the token cache; a loop is repeated by  *)
(* turning its first token into a CONTINUED_ one and seeking back to it, a *)
(* function is called by seeking to its declaration and back, and what is  *)
(* not to be executed is parsed with Execute = 0.  (language-parser.y,     *)
(* control_structures_inline.h, token_cache.c.)                            *)
(*                                                                         *)
(* The parser is kept as the symbols it has still to recognize (parse),    *)
(* the mid-rule and final actions of the grammar among them, and the       *)
(* semantic values (values); it reads a lookahead token where the grammar  *)
(* needs one.  An action has the first token of its rule.                  *)
(*                                                                         *)
(* Abstracted: an expression is made of operands, whose truth is arbitrary *)
(* (VARIABLE) or false (SCALAR), function calls without arguments, &&, ||  *)
(* and ?:.  FUNCTION, BREAK, CONTINUE and the name of a called function    *)
(* are one token with what follows them.  The whole script is in the       *)
(* cache, and return is used in functions only.                            *)
(***************************************************************************)
EXTENDS Integers, FiniteSets, Sequences

CONSTANTS Text,      \* the tokens of the programs
          Elements,  \* number of elements of the arrays given to array_walk
          Fuel       \* a bound: how often an operand is true

\* A text is tokens and the end of the file, which is numbered with them.
ASSUME TextAssumption ==
  \A p \in DOMAIN Text :
    /\ Text[p] = [i \in 1 .. Len(Text[p]) |-> Text[p][i]] /\ Len(Text[p]) \in Nat \ {0}
    /\ \A i \in 1 .. Len(Text[p]) : DOMAIN Text[p][i] = {"type", "tag", "switched", "offset"}
    /\ Text[p][Len(Text[p])].type = "EOF"
\* The scanner has no rule for the tokens that the engine turns others into
\* (language-scanner.lex): only tc_set_token makes them.
ASSUME ScannerAssumption ==
  \A p \in DOMAIN Text : \A i \in 1 .. Len(Text[p]) :
    Text[p][i].type \notin {"CONTINUED_WHILE", "CONTINUED_DOWHILE", "CONTINUED_FOR", "IC_FUNCTION"}
ASSUME BoundAssumption == {Elements, Fuel} \subseteq Nat

VARIABLES
  program,
  tokens, pos,           \* the token cache, tc->pos
  yychar, shutdown,      \* lookahead token; TERMINATE_CURRENT_PHPPARSE
  parse, values,         \* the parser's stack
  suspended,             \* the calls of phpparse() below call_user_function()
  ExecuteFlag, Execute, function_state,
  css, for_stack, switch_stack, function_state_stack,
  function_table, return_value,
  fuel, last, status

input == <<tokens, pos, yychar, shutdown>>
parser == <<parse, values, suspended>>
flow == <<ExecuteFlag, Execute, function_state>>
stacks == <<css, for_stack, switch_stack, function_state_stack>>
world == <<program, function_table, return_value, fuel, last, status>>
vars == <<input, parser, flow, stacks, world>>

EMPTY == [type |-> "EMPTY"]
EOF == [type |-> "EOF"]
NoCall == [type |-> "none"]
Garbage == "garbage"     \* the value of an expression that was not evaluated

Push(x, s) == <<x>> \o s
Pop(s, n) == SubSeq(s, n + 1, Len(s))

\* The parser's stack with the symbols of a rule for token t.
Symbols(rule, t) == [i \in DOMAIN rule |-> [sym |-> rule[i], tok |-> t]]

-----------------------------------------------------------------------------
(* The grammar *)

while_rule == <<"(", "expr", ")", "cs_start_while", "statement", "cs_end_while",
                "while_iterations">>
dowhile_rule == <<"cs_start_do_while", "statement", "WHILE", "cs_force_eval_do_while",
                  "(", "expr", ")", ";", "cs_end_do_while", "do_while_iterations">>
for_rule == <<"for_pre_expr1", "(", "for_expr", "for_pre_expr2", "offset of ;", "for_expr",
              "for_pre_expr3", "offset of ;", "for_expr", "for_pre_statement",
              "offset of )", "statement", "for_post_statement", "for_iterations">>
call_rule == <<"cs_functioncall_pre_variable_passing", "(", "offset of )",
               "cs_functioncall_post_variable_passing", "possible_function_call",
               "cs_functioncall_end">>
function_body == <<"(", ")", "{", "statement_list", "}">>

\* The rules that start with a token: their symbol, the token, and the rest.
Grammar ==
  {<<"statement", "{", <<"statement_list", "}">>>>,
   <<"statement", ";", <<>>>>,
   <<"statement", "IF", <<"(", "expr", ")", "cs_start_if", "statement", "elseif_list",
                          "else_single", "cs_end_if">>>>,
   <<"statement", "WHILE", while_rule>>,
   <<"statement", "DO", dowhile_rule>>,
   <<"statement", "FOR", for_rule>>,
   <<"statement", "SWITCH", <<"(", "expr", ")", "cs_switch_start", "{", "case_list", "}",
                              "cs_switch_end">>>>,
   <<"statement", "BREAK", <<";", "cs_break_continue">>>>,
   <<"statement", "CONTINUE", <<";", "cs_break_continue">>>>,
   <<"statement", "RETURN", <<"expr", ";", "cs_return">>>>,
   <<"statement", "FUNCTION", <<"start_function_decleration">> \o function_body \o
                              <<"end_function_decleration">>>>,
   <<"statement", "IC_FUNCTION", <<"restore_token">> \o function_body \o
                                 <<"terminate_phpparse">>>>,
   <<"while_iterations", "CONTINUED_WHILE", while_rule>>,
   <<"do_while_iterations", "CONTINUED_DOWHILE", dowhile_rule>>,
   <<"for_iterations", "CONTINUED_FOR", for_rule>>,
   <<"elseif_list", "ELSEIF", <<"(", "cs_elseif_start_evaluate", "expr",
                                "cs_elseif_end_evaluate", ")", "cs_start_elseif",
                                "statement", "elseif_list">>>>,
   <<"else_single", "ELSE", <<"cs_start_else", "statement">>>>,
   <<"case_list", "CASE", <<"expr", ":", "cs_switch_case_pre", "statement_list",
                            "cs_switch_case_post", "case_list">>>>,
   <<"case_list", "DEFAULT", <<":", "cs_switch_default_pre", "statement_list",
                               "cs_switch_case_post">>>>,
   <<"possible_function_call", "FUNCTION", function_body>>,
   <<"primary", "VARIABLE", <<"evaluate">>>>,
   <<"primary", "SCALAR", <<"evaluate">>>>,
   <<"primary", "CALL", call_rule>>,
   <<"primary", "ARRAY_WALK", call_rule>>,
   <<"operators", "&&", <<"cs_pre_boolean_and", "primary", "cs_post_boolean_and",
                          "operators">>>>,
   <<"operators", "||", <<"cs_pre_boolean_or", "primary", "cs_post_boolean_or",
                          "operators">>>>,
   <<"operators", "?", <<"cs_questionmark_op_pre_expr1", "expr", ":",
                         "cs_questionmark_op_pre_expr2", "expr",
                         "cs_questionmark_op_post_expr2">>>>}
Nonterminals == {"statement", "while_iterations", "do_while_iterations", "for_iterations",
                 "elseif_list", "else_single", "case_list", "possible_function_call",
                 "primary", "operators", "for_expr", "statement_list", "expr"}
Rules(symbol, type) == {r[3] : r \in {g \in Grammar : g[1] = symbol /\ g[2] = type}}

StartsExpr == {"VARIABLE", "SCALAR", "CALL", "ARRAY_WALK"}

\* The rules that do not, by the token that comes; a set of at most one.
Otherwise(symbol, type) ==
  CASE symbol = "expr" -> {<<"primary", "operators">>}
    [] symbol = "statement" -> IF type \in StartsExpr THEN {<<"expr", ";", "drop">>} ELSE {}
    [] symbol = "statement_list" ->
         {IF type \in {"}", "EOF", "CASE", "DEFAULT"} THEN <<>>
          ELSE <<"statement", "statement_list">>}
    [] symbol = "for_expr" -> {IF type \in StartsExpr THEN <<"expr">> ELSE <<"empty">>}
    [] symbol = "primary" -> {}
    [] OTHER -> {<<>>}

Terminals == {"(", ")", "{", "}", ";", ":", "WHILE", "EOF"}
Offsets == {<<"offset of ;", ";">>, <<"offset of )", ")">>}

-----------------------------------------------------------------------------
(* The token cache, and the lookahead *)

\* phplex
Look == IF yychar # EMPTY THEN yychar
        ELSE IF shutdown = "TERMINATE" THEN EOF ELSE tokens[pos]

Advance ==
  IF yychar # EMPTY THEN UNCHANGED <<pos, shutdown>>
  ELSE IF shutdown = "TERMINATE" THEN shutdown' = "NO" /\ UNCHANGED pos
  ELSE pos' = pos + 1 /\ UNCHANGED shutdown

TakeToken == yychar' = EMPTY /\ Advance /\ UNCHANGED tokens
KeepToken == yychar' = Look /\ Advance /\ UNCHANGED tokens

tc_set_token(offset, type) == [tokens EXCEPT ![offset].type = type]

\* Mutant: the lookahead token is not dropped.
seek_token_KeepsLookahead(offset) == pos' = offset /\ UNCHANGED yychar
seek_token(offset) == pos' = offset /\ yychar' = EMPTY

Renumbered(ts) == [i \in DOMAIN ts |-> [ts[i] EXCEPT !.offset = i]]

Switched(start, end, middle) ==
  SubSeq(tokens, 1, start - 1) \o SubSeq(tokens, middle + 1, end)
  \o <<tokens[middle]>> \o SubSeq(tokens, start, middle - 1) \o SubSeq(tokens, end + 1, Len(tokens))

\* Mutant: the moved tokens keep their offsets.
tc_switch_KeepsOffsets(start, end, middle) == Switched(start, end, middle)

\* Exchange the tokens from start to middle - 1 and from middle + 1 to end.
tc_switch(start, end, middle) ==
  IF start < 1 \/ end > Len(tokens) \/ middle < start \/ middle > end THEN tokens
  ELSE Renumbered(Switched(start, end, middle))

-----------------------------------------------------------------------------
(* The parser *)

Running == status = "running"
At(symbols) == Running /\ parse # <<>> /\ Head(parse).sym \in symbols

Shift ==
  /\ At(Terminals) /\ Look.type = Head(parse).sym
  /\ TakeToken /\ parse' = Tail(parse)
  /\ UNCHANGED <<values, suspended, flow, stacks, world>>

ShiftOffset ==
  /\ Running /\ parse # <<>> /\ <<Head(parse).sym, Look.type>> \in Offsets
  /\ TakeToken /\ parse' = Tail(parse)
  /\ values' = Push(Look.offset, values)
  /\ UNCHANGED <<suspended, flow, stacks, world>>

Expand ==
  /\ At(Nonterminals)
  /\ LET rules == Rules(Head(parse).sym, Look.type)
     IN  \/ /\ TakeToken
            /\ \E rule \in rules : parse' = Symbols(rule, Look) \o Tail(parse)
         \/ /\ rules = {}
            /\ KeepToken
            /\ \E rule \in Otherwise(Head(parse).sym, Look.type) :
                 parse' = Symbols(rule, Head(parse).tok) \o Tail(parse)
  /\ UNCHANGED <<values, suspended, flow, stacks, world>>

ParseError ==
  /\ Running /\ parse # <<>>
  /\ \/ Head(parse).sym \in Terminals /\ Look.type # Head(parse).sym
     \/ \E o \in Offsets : o[1] = Head(parse).sym /\ o[2] # Look.type
     \/ /\ Head(parse).sym \in Nonterminals
        /\ Rules(Head(parse).sym, Look.type) = {}
        /\ Otherwise(Head(parse).sym, Look.type) = {}
  /\ status' = "parse error"
  /\ UNCHANGED <<input, parser, flow, stacks, program, function_table, return_value, fuel, last>>

Accept ==
  /\ Running /\ parse = <<>> /\ suspended = <<>>
  /\ status' = "done"
  /\ UNCHANGED <<input, parser, flow, stacks, program, function_table, return_value, fuel, last>>

-----------------------------------------------------------------------------
(* The flags, and the control structure stack *)

SHOULD_EXECUTE(flag, fs) ==
  flag = "EXECUTE" /\ ~fs.returned /\ fs.loop_change_type = "DO_NOTHING"

\* ExecuteFlag = flag; Execute = SHOULD_EXECUTE;
SetFlow(flag, fs) ==
  ExecuteFlag' = flag /\ function_state' = fs /\ Execute' = SHOULD_EXECUTE(flag, fs)

SaveFlag == css' = Push(ExecuteFlag, css)
SavedFlag == css[1]
DropFlag == css' = Pop(css, 1)

\* The final flag of an action that evaluates a condition, if it is executed.
Chosen(v) == IF v THEN "EXECUTE" ELSE "DONT_EXECUTE"

Nested(n) == [function_state EXCEPT !.loop_nest_level = @ + n]
NoChange(fs) == [fs EXCEPT !.loop_change_level = 0, !.loop_change_type = "DO_NOTHING"]
NewLevels(fs) == [NoChange(fs) EXCEPT !.loop_nest_level = 0]

\* Mutant: break and continue are taken for the innermost loop's.
ChangesThisLoop_Any == function_state.loop_change_type # "DO_NOTHING"

\* A break or continue was executed in the loop that ends here, for this loop.
ChangesThisLoop ==
  /\ function_state.loop_change_type # "DO_NOTHING"
  /\ function_state.loop_change_level = function_state.loop_nest_level
ContinuesThisLoop == ChangesThisLoop /\ function_state.loop_change_type = "DO_CONTINUE"

\* The next symbol is the action a of the grammar, with its token.
Action(a) == At({a}) /\ parse' = Tail(parse) /\ UNCHANGED suspended
Tok == Head(parse).tok

-----------------------------------------------------------------------------
(* if, elseif, else *)

cs_start_if ==
  /\ Action("cs_start_if")
  /\ SaveFlag /\ values' = Pop(values, 1)
  /\ \/ Execute /\ SetFlow(IF values[1] THEN "EXECUTE" ELSE "BEFORE_EXECUTE", function_state)
     \/ ~Execute /\ ExecuteFlag' = "DONT_EXECUTE" /\ UNCHANGED <<Execute, function_state>>
  /\ UNCHANGED <<input, for_stack, switch_stack, function_state_stack, world>>

\* Also cs_elseif_end_evaluate: restore the flag.
cs_end_if ==
  /\ Action("cs_end_if") \/ Action("cs_elseif_end_evaluate")
  /\ DropFlag /\ SetFlow(SavedFlag, function_state)
  /\ UNCHANGED <<input, values, for_stack, switch_stack, function_state_stack, world>>

\* A branch that was executed ends the execution of the chain.
Elseif == IF ExecuteFlag = "EXECUTE" THEN "DONT_EXECUTE" ELSE ExecuteFlag

cs_elseif_start_evaluate ==
  /\ Action("cs_elseif_start_evaluate")
  /\ css' = Push(Elseif, css)
  /\ SetFlow(IF Elseif = "BEFORE_EXECUTE" /\ SavedFlag = "EXECUTE" THEN "EXECUTE" ELSE Elseif,
             function_state)
  /\ UNCHANGED <<input, values, for_stack, switch_stack, function_state_stack, world>>

cs_start_elseif ==
  /\ Action("cs_start_elseif")
  /\ values' = Pop(values, 1)
  /\ SetFlow(IF Elseif # "BEFORE_EXECUTE" THEN Elseif
             ELSE IF values[1] THEN "EXECUTE" ELSE "BEFORE_EXECUTE", function_state)
  /\ UNCHANGED <<input, stacks, world>>

Else == IF Elseif = "BEFORE_EXECUTE" THEN "EXECUTE" ELSE Elseif

cs_start_else ==
  /\ Action("cs_start_else")
  /\ SetFlow(Else, function_state)
  /\ UNCHANGED <<input, values, stacks, world>>

-----------------------------------------------------------------------------
(* while *)

\* Mutant: the first token stays what it was made to repeat the loop.
ResetToken_Never(type) == tokens' = tokens

\* The first token of a loop that is executed starts the loop again.
ResetToken(type) == tokens' = IF Execute THEN tc_set_token(Tok.offset, type) ELSE tokens

cs_start_while ==
  /\ Action("cs_start_while")
  /\ SaveFlag /\ values' = Pop(values, 1)
  /\ ResetToken("WHILE")
  /\ \/ Execute /\ SetFlow(Chosen(values[1]), Nested(1))
     \/ ~Execute /\ function_state' = Nested(1) /\ UNCHANGED <<ExecuteFlag, Execute>>
  /\ UNCHANGED <<pos, yychar, shutdown, for_stack, switch_stack, function_state_stack, world>>

\* Repeat the loop whose first token is t, or go on.
Repeat(t, continued) == /\ tokens' = tc_set_token(t.offset, continued)
                        /\ seek_token(t.offset)
GoOn == UNCHANGED <<tokens, pos, yychar>>

\* Mutant: a loop that is left by break or continue is still counted.
LeaveLoop_KeepsLevel ==
  /\ DropFlag
  /\ SetFlow(SavedFlag, IF ~Execute /\ ChangesThisLoop THEN NoChange(function_state) ELSE Nested(-1))

\* Mutant: Execute is computed before the break is forgotten.
LeaveLoop_FlagFirst ==
  /\ DropFlag /\ ExecuteFlag' = SavedFlag /\ Execute' = SHOULD_EXECUTE(SavedFlag, function_state)
  /\ function_state' = IF ~Execute /\ ChangesThisLoop THEN NoChange(Nested(-1)) ELSE Nested(-1)

\* Mutant: the saved flag stays on the stack.
LeaveLoop_KeepsFlag ==
  SetFlow(SavedFlag, IF ~Execute /\ ChangesThisLoop THEN NoChange(Nested(-1)) ELSE Nested(-1))
  /\ UNCHANGED css

LeaveLoop ==
  /\ DropFlag
  /\ SetFlow(SavedFlag, IF ~Execute /\ ChangesThisLoop THEN NoChange(Nested(-1)) ELSE Nested(-1))

cs_end_while ==
  /\ Action("cs_end_while")
  /\ IF Execute \/ ContinuesThisLoop THEN Repeat(Tok, "CONTINUED_WHILE") ELSE GoOn
  /\ LeaveLoop
  /\ UNCHANGED <<shutdown, values, for_stack, switch_stack, function_state_stack, world>>

-----------------------------------------------------------------------------
(* do while *)

cs_start_do_while ==
  /\ Action("cs_start_do_while")
  /\ SaveFlag
  /\ function_state' = Nested(1)
  /\ ResetToken("DO")
  /\ UNCHANGED <<pos, yychar, shutdown, values, ExecuteFlag, Execute,
                 for_stack, switch_stack, function_state_stack, world>>

\* The condition is evaluated although the body was left by continue.
cs_force_eval_do_while ==
  /\ Action("cs_force_eval_do_while")
  /\ IF ContinuesThisLoop THEN SetFlow("EXECUTE", NoChange(function_state)) ELSE UNCHANGED flow
  /\ UNCHANGED <<input, values, stacks, world>>

\* Mutant: the condition is not looked at.
DoAgain_Always(value) == Execute
DoAgain(value) == Execute /\ value

cs_end_do_while ==
  /\ Action("cs_end_do_while")
  /\ values' = Pop(values, 1)
  /\ IF DoAgain(values[1]) THEN Repeat(Tok, "CONTINUED_DOWHILE") ELSE GoOn
  /\ LeaveLoop
  /\ UNCHANGED <<shutdown, for_stack, switch_stack, function_state_stack, world>>

-----------------------------------------------------------------------------
(* for *)

\* This is the second or a later iteration.
Iterating(t) == for_stack # <<>> /\ for_stack[1] = t.offset
FirstOfSwitched(t) == t.switched /\ ~Iterating(t)

for_pre_expr1 ==
  /\ Action("for_pre_expr1")
  /\ SaveFlag
  /\ ResetToken("FOR")
  /\ \/ Execute /\ SetFlow(IF Iterating(Tok) THEN "DONT_EXECUTE" ELSE ExecuteFlag, Nested(1))
     \/ ~Execute /\ function_state' = Nested(1) /\ UNCHANGED <<ExecuteFlag, Execute>>
  /\ UNCHANGED <<pos, yychar, shutdown, values, for_stack, switch_stack, function_state_stack,
                 world>>

for_pre_expr2 ==
  /\ Action("for_pre_expr2")
  /\ values' = Pop(values, 1)
  /\ SetFlow(IF FirstOfSwitched(Tok) THEN "DONT_EXECUTE" ELSE SavedFlag, function_state)
  /\ UNCHANGED <<input, stacks, world>>

for_pre_expr3 ==
  /\ Action("for_pre_expr3")
  /\ SetFlow(IF SHOULD_EXECUTE(SavedFlag, function_state) /\ ~Tok.switched
             THEN "DONT_EXECUTE" ELSE SavedFlag, function_state)
  /\ UNCHANGED <<input, values, stacks, world>>

\* values: expr3, an offset, expr2, an offset.
for_pre_statement ==
  /\ Action("for_pre_statement")
  /\ values' = <<values[2]>> \o Pop(values, 3)
  /\ SetFlow(IF SHOULD_EXECUTE(SavedFlag, function_state)
             THEN Chosen(IF Tok.switched THEN values[1] ELSE values[3]) ELSE SavedFlag,
             function_state)
  /\ UNCHANGED <<input, stacks, world>>

\* Mutant: a for that was left by break stays on the stack.
ForStackAfter_Break(again, t) ==
  IF again \/ ChangesThisLoop THEN (IF Iterating(t) THEN for_stack ELSE Push(t.offset, for_stack))
  ELSE IF Iterating(t) THEN Pop(for_stack, 1) ELSE for_stack

\* The for is on the stack while it is being iterated.
ForStackAfter(again, t) ==
  IF again THEN (IF Iterating(t) THEN for_stack ELSE Push(t.offset, for_stack))
  ELSE IF Iterating(t) THEN Pop(for_stack, 1) ELSE for_stack

\* values: the offsets of the parenthesis and of the two semicolons.
for_post_statement ==
  LET again == Execute \/ ContinuesThisLoop
      switched == IF Tok.switched THEN tokens
                  ELSE [tc_switch(values[3] + 1, values[1] - 1, values[2])
                          EXCEPT ![Tok.offset].switched = TRUE]
  IN  /\ Action("for_post_statement")
      /\ values' = Pop(values, 3)
      /\ for_stack' = ForStackAfter(again, Tok)
      /\ \/ /\ again
            /\ tokens' = [switched EXCEPT ![Tok.offset].type = "CONTINUED_FOR"]
            /\ seek_token(Tok.offset)
         \/ ~again /\ tokens' = switched /\ UNCHANGED <<pos, yychar>>
      /\ LeaveLoop
      /\ UNCHANGED <<shutdown, switch_stack, function_state_stack, world>>

-----------------------------------------------------------------------------
(* switch, break, continue *)

cs_switch_start ==
  /\ Action("cs_switch_start")
  /\ SaveFlag /\ function_state' = Nested(1)
  /\ values' = Pop(values, 1)
  /\ switch_stack' = Push([matched |-> FALSE], switch_stack)
  /\ UNCHANGED <<input, ExecuteFlag, Execute, for_stack, function_state_stack, world>>

\* equal: whether the case is chosen, if none was before.
Case(equal) ==
  /\ IF Execute /\ ~switch_stack[1].matched
     THEN /\ switch_stack' = [switch_stack EXCEPT ![1].matched = equal]
          /\ SetFlow(Chosen(equal), function_state)
     ELSE UNCHANGED <<flow, switch_stack>>
  /\ UNCHANGED <<input, css, for_stack, function_state_stack, world>>

cs_switch_case_pre ==
  Action("cs_switch_case_pre") /\ values' = Pop(values, 1) /\ Case(values[1])
cs_switch_default_pre ==
  Action("cs_switch_default_pre") /\ Case(TRUE) /\ UNCHANGED values

cs_switch_case_post ==
  /\ Action("cs_switch_case_post")
  /\ SetFlow(SavedFlag, function_state)
  /\ UNCHANGED <<input, values, stacks, world>>

cs_switch_end ==
  /\ Action("cs_switch_end")
  /\ DropFlag /\ switch_stack' = Pop(switch_stack, 1)
  /\ SetFlow(SavedFlag,
             IF ~Execute /\ function_state.loop_change_level = function_state.loop_nest_level
             THEN [Nested(-1) EXCEPT !.loop_change_type = "DO_NOTHING"] ELSE Nested(-1))
  /\ UNCHANGED <<input, values, for_stack, function_state_stack, world>>

\* php3_error(E_ERROR, ...) ends the execution.
Die == /\ status' = "died"
       /\ UNCHANGED <<input, values, flow, stacks,
                      program, function_table, return_value, fuel, last>>

\* The token has the number of levels; none stands for 1.
cs_break_continue ==
  LET level == function_state.loop_nest_level - Tok.tag + 1
  IN  /\ Action("cs_break_continue")
      /\ \/ Execute /\ ~(level \in 1 .. function_state.loop_nest_level) /\ Die
         \/ /\ Execute /\ level \in 1 .. function_state.loop_nest_level
            /\ function_state' = [function_state EXCEPT
                 !.loop_change_level = level,
                 !.loop_change_type = IF Tok.type = "BREAK" THEN "DO_BREAK" ELSE "DO_CONTINUE"]
            /\ Execute' = FALSE
            /\ UNCHANGED <<input, values, ExecuteFlag, stacks, world>>
         \/ ~Execute /\ UNCHANGED <<input, values, flow, stacks, world>>

-----------------------------------------------------------------------------
(* Operands and operators *)

\* An operand; one that is true uses up fuel.
evaluate ==
  /\ Action("evaluate")
  /\ \/ /\ Execute
        /\ last' = Tok.tag
        /\ \E v \in IF Tok.type = "VARIABLE" /\ fuel > 0 THEN BOOLEAN ELSE {FALSE} :
             /\ values' = Push(v, values)
             /\ fuel' = IF v THEN fuel - 1 ELSE fuel
     \/ ~Execute /\ values' = Push(Garbage, values) /\ UNCHANGED <<last, fuel>>
  /\ UNCHANGED <<input, flow, stacks, program, function_table, return_value, status>>

\* An expression that is left out of a for is true.
empty == /\ Action("empty") /\ values' = Push(TRUE, values)
         /\ UNCHANGED <<input, flow, stacks, world>>

drop == /\ Action("drop") /\ values' = Pop(values, 1)
        /\ UNCHANGED <<input, flow, stacks, world>>

\* Save the flag, and do not execute what follows if its value is not needed.
SkipIf(skip) ==
  /\ SaveFlag
  /\ IF skip THEN SetFlow("DONT_EXECUTE", function_state) ELSE UNCHANGED flow
  /\ UNCHANGED <<input, values, for_stack, switch_stack, function_state_stack, world>>

cs_pre_boolean_or == Action("cs_pre_boolean_or") /\ SkipIf(Execute /\ values[1])
cs_pre_boolean_and == Action("cs_pre_boolean_and") /\ SkipIf(Execute /\ ~values[1])
cs_questionmark_op_pre_expr1 ==
  Action("cs_questionmark_op_pre_expr1") /\ SkipIf(Execute /\ ~values[1])

\* Restore the flag; replace n values by the result, if it is executed.
Result(result, n) ==
  /\ DropFlag /\ SetFlow(SavedFlag, function_state)
  /\ values' = Push(IF Execute' THEN result ELSE Garbage, Pop(values, n))
  /\ UNCHANGED <<input, for_stack, switch_stack, function_state_stack, world>>

cs_post_boolean_or ==
  Action("cs_post_boolean_or") /\ Result(IF values[2] THEN TRUE ELSE values[1], 2)
cs_post_boolean_and ==
  Action("cs_post_boolean_and") /\ Result(IF values[2] THEN values[1] ELSE FALSE, 2)

cs_questionmark_op_pre_expr2 ==
  /\ Action("cs_questionmark_op_pre_expr2")
  /\ SetFlow(IF SHOULD_EXECUTE(SavedFlag, function_state) /\ values[2]
             THEN "DONT_EXECUTE" ELSE SavedFlag, function_state)
  /\ UNCHANGED <<input, values, stacks, world>>

cs_questionmark_op_post_expr2 ==
  /\ Action("cs_questionmark_op_post_expr2")
  /\ Result(IF values[3] THEN values[2] ELSE values[1], 3)

-----------------------------------------------------------------------------
(* Functions *)

\* The whole declaration, the body too, is parsed and not executed.
start_function_decleration ==
  /\ Action("start_function_decleration")
  /\ SaveFlag /\ SetFlow("DONT_EXECUTE", function_state)
  /\ UNCHANGED <<input, values, for_stack, switch_stack, function_state_stack, world>>

end_function_decleration ==
  /\ Action("end_function_decleration")
  /\ DropFlag /\ SetFlow(SavedFlag, function_state)
  /\ IF ~Execute' THEN UNCHANGED <<function_table, status>>
     ELSE IF Tok.tag \in DOMAIN function_table
     THEN status' = "died" /\ UNCHANGED function_table
     ELSE /\ function_table' = [f \in DOMAIN function_table \cup {Tok.tag} |->
                                IF f = Tok.tag THEN Tok.offset ELSE function_table[f]]
          /\ UNCHANGED status
  /\ UNCHANGED <<input, values, for_stack, switch_stack, function_state_stack,
                 program, return_value, fuel, last>>

\* The declaration is parsed by a phpparse() of its own.
restore_token ==
  /\ Action("restore_token")
  /\ tokens' = tc_set_token(Tok.offset, "FUNCTION")
  /\ UNCHANGED <<pos, yychar, shutdown, values, flow, stacks, world>>

terminate_phpparse ==
  /\ Action("terminate_phpparse")
  /\ shutdown' = IF shutdown = "NO" THEN "TERMINATE" ELSE shutdown
  /\ UNCHANGED <<tokens, pos, yychar, values, flow, stacks, world>>

CallType(t) == IF t.type = "CALL" THEN "user" ELSE "internal"

\* Keep the state of the caller, and the for statements it is in.
EnterCall(fs) == /\ for_stack' = Push(-1, for_stack)
                 /\ function_state_stack' = Push(fs, function_state_stack)

cs_functioncall_pre_variable_passing ==
  /\ Action("cs_functioncall_pre_variable_passing")
  /\ \/ /\ ~Execute
        /\ values' = Push(NoCall, values)
        /\ UNCHANGED <<input, flow, stacks, world>>
     \/ /\ Execute /\ CallType(Tok) = "user" /\ Tok.tag \notin DOMAIN function_table
        /\ Die
     \/ /\ Execute /\ (CallType(Tok) = "user" => Tok.tag \in DOMAIN function_table)
        /\ EnterCall(function_state)
        /\ function_state' = [function_state EXCEPT !.type = CallType(Tok)]
        /\ values' = Push(IF CallType(Tok) = "user"
                          THEN [type |-> "user", offset |-> function_table[Tok.tag]]
                          ELSE [type |-> "internal"], values)
        /\ UNCHANGED <<input, ExecuteFlag, Execute, css, switch_stack, world>>

\* A function is entered by reading its declaration; array_walk calls its
\* function for every element.  values: the offset of the parenthesis, the call.
cs_functioncall_post_variable_passing ==
  LET call == values[2]
      walk == [i \in 1 .. Elements |-> "call_user_function"] \o <<"RETURN_TRUE">>
  IN  /\ Running /\ parse # <<>> /\ Head(parse).sym = "cs_functioncall_post_variable_passing"
      /\ IF call = NoCall
         THEN UNCHANGED <<pos, yychar, css, function_state, return_value>>
         ELSE /\ SaveFlag
              /\ function_state' = NewLevels(function_state)
              /\ return_value' = FALSE
              /\ IF call.type = "user" THEN seek_token(call.offset) ELSE UNCHANGED <<pos, yychar>>
      /\ parse' = IF call.type = "internal" THEN Symbols(walk, Tok) \o Tail(parse)
                  ELSE Tail(parse)
      /\ UNCHANGED <<tokens, shutdown, suspended, values, ExecuteFlag, Execute,
                     for_stack, switch_stack, function_state_stack,
                     program, function_table, fuel, last, status>>

InnermostCall == CHOOSE i \in DOMAIN for_stack : /\ for_stack[i] = -1
                                                 /\ \A j \in 1 .. i - 1 : for_stack[j] # -1

\* The for statements of the function that was left are dropped.
LeaveCall == /\ for_stack' = Pop(for_stack, InnermostCall)
             /\ function_state_stack' = Pop(function_state_stack, 1)

cs_functioncall_end ==
  LET call == values[2]
  IN  /\ Action("cs_functioncall_end")
      /\ \/ /\ call = NoCall
            /\ values' = Push(FALSE, Pop(values, 2))
            /\ UNCHANGED <<input, flow, stacks>>
         \/ /\ call # NoCall
            /\ values' = Push(IF function_state.type = "user" /\ ~function_state.returned
                              THEN FALSE ELSE return_value, Pop(values, 2))
            /\ LeaveCall
            /\ IF function_state.type = "user" THEN seek_token(values[1] + 1)
               ELSE UNCHANGED <<pos, yychar>>
            /\ DropFlag /\ SetFlow(SavedFlag, function_state_stack[1])
            /\ UNCHANGED <<tokens, shutdown, switch_stack>>
      /\ UNCHANGED world

cs_return ==
  /\ Action("cs_return")
  /\ values' = Pop(values, 1)
  /\ \/ /\ Execute
        /\ return_value' = values[1]
        /\ SetFlow("DONT_EXECUTE", [function_state EXCEPT !.returned = TRUE])
     \/ ~Execute /\ UNCHANGED <<return_value, flow>>
  /\ UNCHANGED <<input, stacks, program, function_table, fuel, last, status>>

-----------------------------------------------------------------------------
(* call_user_function *)

\* What call_user_function() keeps in variables of its own while phpparse()
\* parses the function; the calling phpparse() keeps its stack and lookahead.
Frame == [parse |-> Tail(parse), values |-> values, yychar |-> yychar,
          ExecuteFlag |-> ExecuteFlag, function_state |-> function_state,
          shutdown |-> shutdown, return_offset |-> pos - 1]

call_user_function ==
  LET fs == [NewLevels(function_state) EXCEPT !.returned = FALSE]
      known == Tok.tag \in DOMAIN function_table
  IN  /\ At({"call_user_function"})
      /\ \/ /\ ~known
            /\ parse' = Tail(parse)
            /\ UNCHANGED <<input, values, suspended, flow, stacks, world>>
         \/ /\ known
            /\ suspended' = Push(Frame, suspended)
            /\ shutdown' = "NO"
            /\ tokens' = tc_set_token(function_table[Tok.tag], "IC_FUNCTION")
            \* cs_functioncall_pre_ and _post_variable_passing
            /\ EnterCall(fs) /\ css' = Push("EXECUTE", css)
            /\ SetFlow("EXECUTE", [fs EXCEPT !.type = "user"])
            /\ pos' = function_table[Tok.tag]
            /\ return_value' = FALSE
            \* phpparse
            /\ parse' = Symbols(<<"statement_list", "EOF">>, EOF)
            /\ values' = <<>> /\ yychar' = EMPTY
            /\ UNCHANGED <<switch_stack, program, function_table, fuel, last, status>>

\* phpparse() returns, and call_user_function() with it.
phpparse_returns ==
  LET saved == suspended[1]
  IN  /\ Running /\ parse = <<>> /\ suspended # <<>>
      /\ suspended' = Pop(suspended, 1)
      /\ LeaveCall /\ DropFlag
      /\ pos' = saved.return_offset + 1
      /\ SetFlow(saved.ExecuteFlag, saved.function_state)
      /\ shutdown' = saved.shutdown
      /\ parse' = saved.parse /\ values' = saved.values /\ yychar' = saved.yychar
      /\ UNCHANGED <<tokens, switch_stack, world>>

RETURN_TRUE ==
  /\ Action("RETURN_TRUE") /\ return_value' = TRUE
  /\ UNCHANGED <<input, values, flow, stacks, program, function_table, fuel, last, status>>

-----------------------------------------------------------------------------
Init ==
  /\ program \in DOMAIN Text
  /\ tokens = Renumbered(Text[program]) /\ pos = 1 /\ yychar = EMPTY /\ shutdown = "NO"
  /\ parse = Symbols(<<"statement_list", "EOF">>, EOF) /\ values = <<>> /\ suspended = <<>>
  /\ ExecuteFlag = "EXECUTE" /\ Execute = TRUE
  /\ function_state = [loop_nest_level |-> 0, loop_change_level |-> 0,
                       loop_change_type |-> "DO_NOTHING", returned |-> FALSE, type |-> "none"]
  /\ css = <<>> /\ for_stack = <<>> /\ switch_stack = <<>> /\ function_state_stack = <<>>
  /\ function_table = <<>> /\ return_value = FALSE
  /\ fuel = Fuel /\ last = "nothing" /\ status = "running"

Parser == Shift \/ ShiftOffset \/ Expand \/ ParseError \/ Accept
IfActions == \/ cs_start_if \/ cs_end_if \/ cs_elseif_start_evaluate \/ cs_start_elseif
             \/ cs_start_else
LoopActions == \/ cs_start_while \/ cs_end_while
               \/ cs_start_do_while \/ cs_force_eval_do_while \/ cs_end_do_while
               \/ for_pre_expr1 \/ for_pre_expr2 \/ for_pre_expr3
               \/ for_pre_statement \/ for_post_statement
SwitchActions == \/ cs_switch_start \/ cs_switch_case_pre \/ cs_switch_default_pre
                 \/ cs_switch_case_post \/ cs_switch_end \/ cs_break_continue
Operators == \/ evaluate \/ empty \/ drop
             \/ cs_pre_boolean_or \/ cs_post_boolean_or
             \/ cs_pre_boolean_and \/ cs_post_boolean_and
             \/ cs_questionmark_op_pre_expr1 \/ cs_questionmark_op_pre_expr2
             \/ cs_questionmark_op_post_expr2
Functions == \/ start_function_decleration \/ end_function_decleration
             \/ restore_token \/ terminate_phpparse
             \/ cs_functioncall_pre_variable_passing
             \/ cs_functioncall_post_variable_passing \/ cs_functioncall_end
             \/ cs_return \/ call_user_function \/ phpparse_returns \/ RETURN_TRUE

Next == Parser \/ IfActions \/ LoopActions \/ SwitchActions \/ Operators \/ Functions

\* The engine goes on as long as the script does.
Spec == Init /\ [][Next]_vars /\ WF_vars(Next)

-----------------------------------------------------------------------------
(* Properties *)

TypeOK ==
  /\ ExecuteFlag \in {"EXECUTE", "BEFORE_EXECUTE", "DONT_EXECUTE"} /\ Execute \in BOOLEAN
  /\ function_state.loop_nest_level \in Nat /\ function_state.returned \in BOOLEAN
  /\ function_state.loop_change_level \in Nat
  /\ function_state.loop_change_type \in {"DO_NOTHING", "DO_BREAK", "DO_CONTINUE"}
  /\ function_state.type \in {"none", "user", "internal"}
  /\ pos \in 1 .. Len(tokens) + 1 /\ \A i \in DOMAIN tokens : tokens[i].offset = i
  /\ shutdown \in {"NO", "TERMINATE"}
  /\ status \in {"running", "done", "died", "parse error"}

\* Execute is only ever set together with what it is computed from: no action
\* leaves it behind the flag, a break, a continue or a return.
ExecuteInSync == Execute = SHOULD_EXECUTE(ExecuteFlag, function_state)

\* What the parsers have still to recognize: this one, and those that wait for
\* it in call_user_function().
Left == [k \in 0 .. Len(suspended) |-> IF k = 0 THEN parse ELSE suspended[k].parse]

\* The levels of the rules that have been entered and not left: their actions
\* in pops are still to come, those in pushes are not.
Places(symbols, left) ==
  UNION {{k} \X {i \in DOMAIN left[k] : left[k][i].sym \in symbols} : k \in DOMAIN left}
Level(pushes, pops, left) == Cardinality(Places(pops, left)) - Cardinality(Places(pushes, left))
LoopStarts == {"cs_start_while", "cs_start_do_while", "for_pre_expr1", "cs_switch_start"}
LoopEnds == {"cs_end_while", "cs_end_do_while", "for_post_statement", "cs_switch_end"}
Starts == {"cs_start_if", "cs_elseif_start_evaluate", "start_function_decleration",
           "cs_pre_boolean_or", "cs_pre_boolean_and", "cs_questionmark_op_pre_expr1"}
Ends == {"cs_end_if", "cs_elseif_end_evaluate", "end_function_decleration",
         "cs_post_boolean_or", "cs_post_boolean_and", "cs_questionmark_op_post_expr2"}

\* What is left of the function that is being executed, or of the script.
Calls == {i \in DOMAIN parse : parse[i].sym = "cs_functioncall_end"}
Current == IF Calls = {} THEN parse
           ELSE SubSeq(parse, 1, CHOOSE i \in Calls : \A j \in Calls : i <= j)
Marks == {i \in DOMAIN for_stack : for_stack[i] = -1}
CurrentFors == IF Marks = {} THEN for_stack
               ELSE SubSeq(for_stack, 1, (CHOOSE i \in Marks : \A j \in Marks : i <= j) - 1)

\* Where a statement is expected, or nothing more.
BetweenStatements == Running /\ (parse = <<>> \/ Head(parse).sym \in {"statement", "statement_list"})

\* No call is pending that was skipped. (The grammar allows a declaration
\* behind it, which would then be parsed as its body.)
CallsEntered ==
  Cardinality(Places({"cs_functioncall_end"}, Left)) = Len(function_state_stack) - Len(suspended)

\* The stacks of the engine follow the stack of the parser, although the one
\* moves by what is executed and the other by what is parsed: however a loop
\* or a function was left, what it put on a stack is gone.
StacksFollowParser ==
  BetweenStatements =>
    /\ Len(css) = Level(Starts \cup LoopStarts, Ends \cup LoopEnds, Left) + Cardinality(Marks)
    /\ Len(function_state_stack) = Cardinality(Marks)
    /\ Len(switch_stack) = Level({"cs_switch_start"}, {"cs_switch_end"}, Left)
    /\ CallsEntered =>
         function_state.loop_nest_level = Level(LoopStarts, LoopEnds, <<Current>>)

\* In a function, the fors on the stack are those that are being iterated,
\* from the inside out, and not those of its callers.  (The engine tells the
\* first iteration from the others by this stack.)
ForStackFollowsLoops ==
  BetweenStatements /\ CallsEntered =>
    LET iterated == {i \in DOMAIN Current : Current[i].sym = "for_post_statement"
                                            /\ Current[i].tok.type = "CONTINUED_FOR"}
    IN  /\ Len(CurrentFors) = Cardinality(iterated)
        /\ \A i \in iterated :
             Current[i].tok.offset = CurrentFors[Cardinality({j \in iterated : j <= i})]

\* A script that ran to its end has left every loop as a first token that
\* starts the loop again, and no declaration as one being called.
TokensRestored ==
  status = "done" => \A i \in DOMAIN tokens :
    tokens[i].type \notin {"CONTINUED_WHILE", "CONTINUED_DOWHILE", "CONTINUED_FOR", "IC_FUNCTION"}

\* A script whose conditions are not true forever ends.
Termination == <>(status # "running")
=============================================================================
