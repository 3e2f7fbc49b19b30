----------------------------- MODULE Structured -----------------------------
(***************************************************************************)
(* What the control structures of PHP 3 mean: a program is a tree, and it  *)
(* is executed by walking that tree.  There are no tokens, no parser and   *)
(* no flags here.  An execution is seen as the sequence of the operands    *)
(* that are evaluated, each with the truth value it turns out to have;     *)
(* Interpreter is shown to evaluate the same ones in the same order.       *)
(*                                                                         *)
(* A program is [functions |-> name to body, main |-> statement].  A node  *)
(* of the tree is a record whose field do says what it is.                 *)
(***************************************************************************)
EXTENDS Naturals, Sequences

CONSTANTS Code,      \* the trees of the programs
          Elements   \* number of elements of the arrays given to array_walk

VARIABLES program,
          todo,      \* what remains to be done: nodes, the next one first
          last,      \* the operand evaluated last
          status     \* running, done, died or parse error

vars == <<program, todo, last, status>>

Fatal == <<[do |-> "fatal"]>>
Test(yes, no) == [do |-> "test", yes |-> yes, no |-> no]

\* The end of the body of a loop, or of a switch; next is what follows when
\* the end is reached, or the body is left by continue.
Mark(next) == [do |-> "mark", next |-> next]

\* The position of the n-th enclosing loop's mark in the present function.
Marks(k, n) ==
  {i \in DOMAIN k : /\ k[i].do = "mark"
                    /\ \A j \in 1 .. i : k[j].do # "return"
                    /\ n = Len(SelectSeq(SubSeq(k, 1, i), LAMBDA s : s.do = "mark"))}
After(k, i) == SubSeq(k, i + 1, Len(k))

RECURSIVE Reach(_, _, _)

\* Go on with k, the last expression having the value v, to the next operand.
Reach(F, k, v) ==
  IF k = <<>> THEN k ELSE
  LET s == Head(k)
      rest == Tail(k)
      Leave(i, on) == IF i = {} THEN Fatal
                      ELSE LET m == CHOOSE j \in i : TRUE
                           IN  Reach(F, (IF on THEN k[m].next ELSE <<>>) \o After(k, m), v)
      Call == IF s.f \in DOMAIN F THEN <<F[s.f], [do |-> "return"]>> ELSE Fatal
  IN
  CASE s.do \in {"operand", "fatal", "wrong"} -> k
    [] s.do = "block" -> Reach(F, s.body \o rest, v)
    [] s.do = "test" -> Reach(F, (IF v THEN s.yes ELSE s.no) \o rest, v)
    [] s.do = "mark" -> Reach(F, s.next \o rest, v)
    [] s.do = "value" -> Reach(F, rest, s.v)
    \* expressions
    [] s.do = "and" -> Reach(F, <<s.l, Test(<<s.r>>, <<>>)>> \o rest, v)
    [] s.do = "or" -> Reach(F, <<s.l, Test(<<>>, <<s.r>>)>> \o rest, v)
    [] s.do = "cond" -> Reach(F, <<s.c, Test(<<s.yes>>, <<s.no>>)>> \o rest, v)
    [] s.do = "call" -> Reach(F, Call \o rest, v)
    [] s.do = "walk" ->
         Reach(F, (IF s.f \in DOMAIN F
                   THEN [i \in 1 .. Elements |-> [do |-> "call", f |-> s.f]]
                   ELSE <<>>) \o <<[do |-> "value", v |-> TRUE]>> \o rest, v)
    \* A function that does not return a value returns one that is false.
    [] s.do = "return" -> Reach(F, rest, FALSE)
    [] s.do = "give" -> Reach(F, <<s.e, [do |-> "leave"]>> \o rest, v)
    [] s.do = "leave" ->
         Reach(F, After(k, CHOOSE i \in DOMAIN k : /\ k[i].do = "return"
                                                   /\ \A j \in 1 .. i - 1 : k[j].do # "return"), v)
    \* statements
    [] s.do = "declare" -> Reach(F, (IF s.f \in DOMAIN F THEN Fatal ELSE <<>>) \o rest, v)
    [] s.do = "if" -> Reach(F, <<s.c, Test(<<s.yes>>, s.no)>> \o rest, v)
    [] s.do = "while" -> Reach(F, <<s.c, Test(<<s.body, Mark(<<s>>)>>, <<>>)>> \o rest, v)
    [] s.do = "dowhile" ->
         Reach(F, <<s.body, Mark(<<s.c, Test(<<s>>, <<>>)>>)>> \o rest, v)
    [] s.do = "for" -> Reach(F, s.init \o <<[s EXCEPT !.do = "round"]>> \o rest, v)
    [] s.do = "round" ->
         Reach(F, s.c \o <<Test(<<s.body, Mark(s.step \o <<s>>)>>, <<>>)>> \o rest,
               IF s.c = <<>> THEN TRUE ELSE v)
    [] s.do = "switch" ->
         Reach(F, <<s.e, [do |-> "cases", cases |-> s.cases, found |-> FALSE], Mark(<<>>)>>
                  \o rest, v)
    \* The expressions of the cases after the one that matched are evaluated,
    \* but not compared.  The default, if there is one, is the last case.
    [] s.do = "cases" ->
         IF s.cases = <<>> THEN Reach(F, rest, v)
         ELSE Reach(F, Head(s.cases).c \o <<[s EXCEPT !.do = "case"]>> \o rest, TRUE)
    [] s.do = "case" ->
         LET hit == s.found \/ v
             others == [s EXCEPT !.do = "cases", !.cases = Tail(s.cases), !.found = hit]
         IN  Reach(F, (IF hit THEN <<Head(s.cases).body>> ELSE <<>>) \o <<others>> \o rest, v)
    \* break n and continue n; continue leaves a switch as break does.
    [] s.do = "break" -> Leave(Marks(k, s.n), FALSE)
    [] s.do = "continue" -> Leave(Marks(k, s.n), TRUE)

Functions == Code[program].functions

Start(p) == Reach(Code[p].functions, <<Code[p].main>>, FALSE)

Init == /\ program \in DOMAIN Code
        /\ todo = Start(program)
        /\ last = "nothing" /\ status = "running"

Evaluate == /\ status = "running" /\ todo # <<>> /\ Head(todo).do = "operand"
            /\ last' = Head(todo).tag
            /\ \E v \in BOOLEAN : todo' = Reach(Functions, Tail(todo), v)
            /\ UNCHANGED <<program, status>>

End == /\ status = "running"
       /\ \/ todo = <<>> /\ status' = "done"
          \/ todo # <<>> /\ Head(todo).do = "fatal" /\ status' = "died"
          \/ todo # <<>> /\ Head(todo).do = "wrong" /\ status' = "parse error"
       /\ UNCHANGED <<program, todo, last>>

Next == Evaluate \/ End

Spec == Init /\ [][Next]_vars
=============================================================================
