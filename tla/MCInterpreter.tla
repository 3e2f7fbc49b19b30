---------------------------- MODULE MCInterpreter ----------------------------
(***************************************************************************)
(* Programs for Interpreter: a few trees, as Structured executes them, and *)
(* the tokens they are written with.  The specification runs both.         *)
(***************************************************************************)
EXTENDS Interpreter, TLC, SequencesExt

CONSTANT Trees        \* the programs of a run: name to tree

(* Trees *)

V(tag) == [do |-> "operand", tag |-> tag]
And(l, r) == [do |-> "and", l |-> l, r |-> r]
Or(l, r) == [do |-> "or", l |-> l, r |-> r]
Cond(c, yes, no) == [do |-> "cond", c |-> c, yes |-> yes, no |-> no]
Call(f) == [do |-> "call", f |-> f]
Walk(f) == [do |-> "walk", f |-> f]
Block(body) == [do |-> "block", body |-> body]
Declare(f, body) == [do |-> "declare", f |-> f, as |-> body]
Wrong == [do |-> "wrong"]    \* a script is executed up to where it is wrong
If(c, yes, no) == [do |-> "if", c |-> c, yes |-> yes, no |-> no]
Elif(c, yes, no) == [do |-> "if", c |-> c, yes |-> yes, no |-> no, word |-> "ELSEIF"]
While(c, body) == [do |-> "while", c |-> c, body |-> body]
DoWhile(body, c) == [do |-> "dowhile", c |-> c, body |-> body]
For(init, c, step, body) ==
  [do |-> "for", init |-> init, c |-> c, step |-> step, body |-> body]
Switch(e, cases) == [do |-> "switch", e |-> e, cases |-> cases]
When(c, body) == [c |-> <<c>>, body |-> body]
Default(body) == [c |-> <<>>, body |-> body]
Return(e) == [do |-> "give", e |-> e]
Break(n) == [do |-> "break", n |-> n]
Continue(n) == [do |-> "continue", n |-> n]

(* Tokens *)

Token(type, tag) == [type |-> type, tag |-> tag, switched |-> FALSE, offset |-> 0]
Word(type) == <<Token(type, "")>>
Joined(seqs) == FlattenSeq(<<>> \o seqs)   \* (TLC evaluates <<>> \o seqs once)

RECURSIVE Expression(_), Statement(_), Tokens(_), Cases(_)

Parenthesized(e) == Word("(") \o Expression(e) \o Word(")")
Parts(es) == Joined([i \in DOMAIN es |-> Expression(es[i])])

Expression(e) ==
  CASE e.do = "operand" -> <<Token(IF e.tag = "0" THEN "SCALAR" ELSE "VARIABLE", e.tag)>>
    [] e.do = "and" -> Expression(e.l) \o Word("&&") \o Expression(e.r)
    [] e.do = "or" -> Expression(e.l) \o Word("||") \o Expression(e.r)
    [] e.do = "cond" -> Expression(e.c) \o Word("?") \o Expression(e.yes)
                        \o Word(":") \o Expression(e.no)
    [] e.do = "call" -> <<Token("CALL", e.f)>> \o Word("(") \o Word(")")
    [] e.do = "walk" -> <<Token("ARRAY_WALK", e.f)>> \o Word("(") \o Word(")")

Function(f, body) == <<Token("FUNCTION", f)>> \o Word("(") \o Word(")") \o Word("{")
                     \o Statement(body) \o Word("}")

Tokens(nodes) == Joined([i \in DOMAIN nodes |-> Statement(nodes[i])])

Otherwises(no) == IF no = <<>> \/ "word" \in DOMAIN no[1] THEN Tokens(no)
                  ELSE Word("ELSE") \o Tokens(no)

Statement(s) ==
  CASE s.do = "block" -> Word("{") \o Tokens(s.body) \o Word("}")
    [] s.do = "declare" -> Function(s.f, s.as)
    [] s.do = "wrong" -> Word("ELSE")
    [] s.do = "if" -> Word(IF "word" \in DOMAIN s THEN s.word ELSE "IF")
                      \o Parenthesized(s.c) \o Statement(s.yes) \o Otherwises(s.no)
    [] s.do = "while" -> Word("WHILE") \o Parenthesized(s.c) \o Statement(s.body)
    [] s.do = "dowhile" -> Word("DO") \o Statement(s.body) \o Word("WHILE")
                           \o Parenthesized(s.c) \o Word(";")
    [] s.do = "for" -> Word("FOR") \o Word("(") \o Parts(s.init) \o Word(";") \o Parts(s.c)
                       \o Word(";") \o Parts(s.step) \o Word(")") \o Statement(s.body)
    [] s.do = "switch" -> Word("SWITCH") \o Parenthesized(s.e) \o Word("{")
                          \o Cases(s.cases) \o Word("}")
    [] s.do = "give" -> Word("RETURN") \o Expression(s.e) \o Word(";")
    [] s.do = "break" -> <<Token("BREAK", s.n)>> \o Word(";")
    [] s.do = "continue" -> <<Token("CONTINUE", s.n)>> \o Word(";")
    [] OTHER -> Expression(s) \o Word(";")

Cases(cases) ==
  Joined([i \in DOMAIN cases |->
    LET c == cases[i]
    IN  (IF c.c = <<>> THEN Word("DEFAULT") ELSE Word("CASE") \o Expression(c.c[1]))
        \o Word(":") \o Statement(c.body)])

(* The programs *)

Script(functions, main) == [functions |-> functions, main |-> Block(main)]
NoFunctions == [f \in {} |-> <<>>]
a == V("a")
b == V("b")
c == V("c")
d == V("d")
e == V("e")
g == V("g")
h == V("h")
k == V("k")

Library ==
  \* break and continue out of two loops of different kinds
  "loops" :> Script(NoFunctions,
    <<While(a, Block(<<For(<<b>>, <<c>>, <<d>>,
                           Block(<<If(e, Break(2), <<>>), If(g, Continue(2), <<>>), h>>)), k>>)),
      b>>) @@
  \* a switch that falls through, is left, and leaves the loop around it
  "switches" :> Script(NoFunctions,
    <<While(a, Block(<<Switch(b, <<When(c, Block(<<d>>)), When(e, Continue(1)),
                                   When(g, Break(2)), Default(h)>>), k>>))>>) @@
  \* continue evaluates the condition of a do while; an endless for is left
  "dowhile" :> Script(NoFunctions,
    <<DoWhile(Block(<<If(a, Continue(1), <<>>),
                      DoWhile(If(c, Continue(2), <<If(h, Break(2), <<>>)>>), d)>>), And(e, g)),
      For(<<>>, <<>>, <<>>, If(k, Continue(1), <<Break(1)>>)), b>>) @@
  \* a function that calls itself from a for, and returns from there
  "recursion" :> Script("f" :>
      Block(<<For(<<a>>, <<b>>, <<c>>,
                  If(d, Call("f"), <<Elif(e, Return(g), <<Continue(1)>>)>>)), Return(h)>>),
    <<If(Call("f"), k, <<>>)>>) @@
  \* calls from the three expressions of a for, and from a while
  "headers" :> Script("f" :>
      Block(<<While(a, If(b, Return(c), <<>>))>>),
    <<For(<<Call("f")>>, <<And(d, Call("f"))>>, <<Call("f")>>, e),
      While(Call("f"), Break(1)), g>>) @@
  \* array_walk in a loop, and in a function called by array_walk
  "walk" :> Script("f" :>
      Block(<<While(a, Break(1)), If(b, Return(c), <<>>)>>) @@
      "g" :> For(<<>>, <<d>>, <<>>, Walk("f")),
    <<DoWhile(If(Walk("g"), e, <<>>), h), Walk("nothing")>>) @@
  \* a chain of conditions, a declaration that is not executed, an unknown call
  "chain" :> Script(NoFunctions,
    <<If(a, b, <<Elif(Or(c, d), e,
        <<Elif(Cond(g, a, b), h, <<Block(<<V("0"), c>>)>>)>>)>>),
      While(V("0"), Declare("dead", k)), While(d, Call("dead"))>>) @@
  \* a function does not leave the loops of its caller
  "toodeep" :> Script("f" :> If(a, Break(1), <<Return(V("0"))>>),
    <<While(b, If(c, Break(2), <<Block(<<Call("f"), d>>)>>))>>) @@
  \* a function declared again, in a loop
  "redeclare" :> Script("f" :> Block(<<b, Return(c)>>),
    <<While(a, If(Call("f"), d, <<Declare("f", e)>>))>>) @@
  \* an else without an if, after a loop
  "wrong" :> Script(NoFunctions,
    <<While(a, If(b, Break(1), <<c>>)), Wrong, d>>) @@
  \* a function that calls itself from the condition of a while
  "condition" :> Script("f" :> Block(<<While(And(a, Call("f")), b), Return(c)>>), <<Call("f")>>)

Programs == [p \in DOMAIN Library \ {"condition"} |-> Library[p]]
Condition == [p \in {"condition"} |-> Library[p]]

\* Every jump out of every loop in every loop, in a function that is called
\* again and again.
Kinds == {"while", "do", "for", "switch"}
Jumps == "break" :> Break(1) @@ "break 2" :> Break(2) @@ "return" :> Return(k) @@
         "continue" :> Continue(1) @@ "continue 2" :> Continue(2)

Loop(kind, c1, c2, c3, body) ==
  CASE kind = "while" -> While(c2, body)
    [] kind = "do" -> DoWhile(body, c2)
    [] kind = "for" -> For(<<c1>>, <<c2>>, <<c3>>, body)
    [] kind = "switch" -> Switch(c1, <<When(c2, body), Default(Block(<<c3>>))>>)

Nestings ==
  [p \in Kinds \X Kinds \X DOMAIN Jumps |->
     Script("f" :> Block(<<Loop(p[1], V("o1"), V("o2"), V("o3"),
                            Block(<<Loop(p[2], V("i1"), V("i2"), V("i3"),
                                         Block(<<If(a, Jumps[p[3]], <<>>), b>>)), c>>)), d>>),
            <<For(<<e>>, <<g>>, <<h>>, Call("f"))>>)]

All == [p \in {<<n>> : n \in DOMAIN Programs} |-> Programs[p[1]]] @@ Nestings

Source(p) == Joined([i \in 1 .. Cardinality(DOMAIN p.functions) |->
                       LET f == SetToSeq(DOMAIN p.functions)[i]
                       IN  Function(f, p.functions[f])])
             \o Tokens(p.main.body) \o Word("EOF")
Texts == [p \in DOMAIN Trees |-> Source(Trees[p])]

(* Both executions *)

VARIABLE todo

S == INSTANCE Structured WITH Code <- Trees

Evaluates == Running /\ parse # <<>> /\ Head(parse).sym = "evaluate" /\ Execute

MCInit == Init /\ todo = S!Start(program)
MCNext == /\ Next
          /\ todo' = IF Evaluates /\ todo # <<>>
                     THEN S!Reach(S!Functions, Tail(todo), Head(values')) ELSE todo
MCSpec == MCInit /\ [][MCNext]_<<vars, todo>> /\ WF_<<vars, todo>>(MCNext)

\* What the engine evaluates, and in which order, is what the control
\* structures of the program say, whatever the operands turn out to be; it
\* stops with an error where there is no function or no loop, and only there.
IsStructured == S!Spec
=============================================================================
