----------------------- MODULE InterpreterLoopsProofs -----------------------
(***************************************************************************)
(* The loops of the engine and the parser, for every script: where the     *)
(* parser is among the symbols that are left gives what the engine holds.  *)
(***************************************************************************)
EXTENDS InterpreterProofs

-----------------------------------------------------------------------------
(* What a symbol does to the flags and to for_stack *)

\* What the proofs tell apart among the semantic values: an offset is behind the token
\* above, and a call was asked for, entered or skipped.
Mark == [kind : {"value", "offset", "call", "called", "skipped"}, above : Nat]
Value == [kind |-> "value", above |-> 0]
OffsetAbove(x) == [kind |-> "offset", above |-> x]
Asked == [kind |-> "call", above |-> 0]
CalledMark == [kind |-> "called", above |-> 0]
SkippedCall == [kind |-> "skipped", above |-> 0]
Stacked(k, w) ==
  IF k = 0 THEN w ELSE IF k = 1 THEN Push(Value, w)
  ELSE IF k = 2 THEN Push(Value, Push(Value, w))
  ELSE Push(Value, Push(Value, Push(Value, w)))

\* What a flag on css was saved for, and how many loops there are up to it.
SavedFor == [kind : {"loop", "if", "other", "call"}, loops : Nat]
For(kind, k) == [kind |-> kind, loops |-> k]
More(kind) == IF kind = "loop" THEN 1 ELSE 0

\* Where the parser is between two symbols: what is among the values (w) and on css (e),
\* the number of loops on css (n), what is on for_stack (l), a token that it is behind (p),
\* the types of the functions that were entered (f), and the place in a call, a for or
\* call_user_function (m), for the token at o.
Moment == {"plain", "asked", "passing", "passed", "entered", "skipped", "begun", "over",
           "again", "repeated", "calling", "reading", "restored", "closing", "closed", "end"}
Fields == [w : Seq(Mark), e : Seq(SavedFor), n : Nat, l : Seq(Int), p : Nat,
           f : Seq({"none", "user", "internal"}), m : Moment, o : Nat]
Stage == {a \in Fields : a.l # <<>> => a.l[1] <= a.p}
StageOf(w, e, n, l, p, f, m, o) ==
  [w |-> w, e |-> e, n |-> n, l |-> l, p |-> p, f |-> f, m |-> m, o |-> o]
To(a, w, m, o) == StageOf(w, a.e, a.n, a.l, a.p, a.f, m, o)

Plain(a) == a.m = "plain" /\ a.o = 0
Same(a, b) == b.l = a.l /\ b.p = a.p /\ b.f = a.f
Gives(take, give, a, b) ==
  \E w \in Seq(Mark) : a.w = Stacked(take, w) /\ b.w = Stacked(give, w)
Trades(take, give, a, b) == Plain(a) /\ Plain(b) /\ Same(a, b) /\ Gives(take, give, a, b)
Stays(a, b) == b.e = a.e /\ b.n = a.n
Enters(kind, a, b) == b.n = a.n + More(kind) /\ b.e = Push(For(kind, b.n), a.e)
Leaves(kind, a, b) == a.n = b.n + More(kind) /\ a.e = Push(For(kind, a.n), b.e)
In(kind, a) == a.e # <<>> /\ a.e[1].kind = kind
Off(x) == x.kind = "offset"

HeaderLeft(a, b) ==
  \E w \in Seq(Mark), x \in Mark, y \in Mark :
    /\ Plain(a) /\ Off(x) /\ Off(y)
    /\ a.w = Push(Value, Push(x, Push(Value, Push(y, w))))
    /\ b = To(a, Push(x, Push(y, w)), "plain", 0)
ForLeft(t, a, b) ==
  \E w \in Seq(Mark), x \in Mark, y \in Mark, z \in Mark :
    /\ Plain(a) /\ Off(x) /\ Off(y) /\ Off(z)
    /\ a.w = Push(x, Push(y, Push(z, w))) /\ b.w = w
    /\ b.m = "again" /\ b.o = t.offset /\ b.f = a.f /\ t.offset > b.p
    /\ IF t.type = "CONTINUED_FOR" THEN a.l = Push(t.offset, b.l) /\ a.p = t.offset
       ELSE a.l = b.l /\ a.p = b.p
CallSkipped(a, b) ==
  \E w \in Seq(Mark), x \in Mark :
    /\ a.m = "passed" /\ a.o = 0 /\ Off(x) /\ x.above >= a.p
    /\ a.w = Push(x, Push(Asked, w))
    /\ b = To(a, Push(x, Push(SkippedCall, w)), "skipped", 0)
SkippedEnds(a, b) ==
  \E w \in Seq(Mark), x \in Mark :
    /\ a.m = "over" /\ a.o = 0 /\ Off(x) /\ a.w = Push(x, Push(SkippedCall, w))
    /\ b = To(a, Push(Value, w), "plain", 0)
CalledEnds(a, b) ==
  \E w \in Seq(Mark), x \in Mark, y \in {"none", "user", "internal"} :
    /\ a.m = "over" /\ a.o = 0 /\ Off(x) /\ x.above >= b.p
    /\ a.w = Push(x, Push(CalledMark, w)) /\ b.w = Push(Value, w) /\ Plain(b)
    /\ Leaves("call", a, b) /\ a.l = Push(-1, b.l) /\ a.f = Push(y, b.f)
    /\ y = "user" \/ a.p = b.p

Keepers == {")", "{", "}", ";", ":", "WHILE", "(", "statement", "statement_list", "EOF",
            "while_iterations", "do_while_iterations", "cs_switch_default_pre",
            "cs_break_continue"}

\* What a symbol with token t does between the stage before it and the stage behind it.
Takes(x, t, a, b) ==
  \/ x \in Keepers /\ Plain(a) /\ b = a
  \/ x \in {"elseif_list", "else_single", "cs_start_else"} /\ Plain(a) /\ In("if", a) /\ b = a
  \/ x \in {"case_list", "cs_switch_case_post", "for_pre_expr3"}
     /\ Plain(a) /\ In("loop", a) /\ b = a
  \/ x = "cs_force_eval_do_while" /\ Plain(a) /\ In("loop", a) /\ a.e[1].loops = a.n /\ b = a
  \/ x = "cs_questionmark_op_pre_expr2" /\ Plain(a) /\ In("other", a) /\ b = a
  \/ x \in Giving /\ Trades(0, 1, a, b) /\ Stays(a, b)
  \/ x = "operators" /\ Trades(1, 1, a, b) /\ Stays(a, b)
  \/ x \in {"drop", "cs_return", "cs_switch_case_pre"} /\ Trades(1, 0, a, b) /\ Stays(a, b)
  \/ x = "cs_start_elseif" /\ Trades(1, 0, a, b) /\ Stays(a, b) /\ In("if", a)
  \/ x = "for_pre_expr2" /\ Trades(1, 0, a, b) /\ Stays(a, b) /\ In("loop", a)
  \/ x = "cs_start_if" /\ Trades(1, 0, a, b) /\ Enters("if", a, b)
  \/ x = "cs_elseif_start_evaluate" /\ Trades(0, 0, a, b) /\ Enters("other", a, b) /\ In("if", a)
  \/ x = "start_function_decleration" /\ Trades(0, 0, a, b) /\ Enters("other", a, b)
  \/ x \in {"cs_elseif_end_evaluate", "end_function_decleration"}
     /\ Trades(0, 0, a, b) /\ Leaves("other", a, b)
  \/ x = "cs_end_if" /\ Trades(0, 0, a, b) /\ Leaves("if", a, b)
  \/ x \in {"cs_start_while", "cs_switch_start"} /\ Trades(1, 0, a, b) /\ Enters("loop", a, b)
  \/ x = "cs_start_do_while" /\ Trades(0, 0, a, b) /\ Enters("loop", a, b)
  \/ /\ x = "for_pre_expr1" /\ Same(a, b) /\ Gives(0, 0, a, b) /\ Enters("loop", a, b)
     /\ Plain(b) /\ (Plain(a) \/ (a.m = "repeated" /\ a.o = t.offset))
  \/ x = "cs_end_while" /\ Trades(0, 0, a, b) /\ Leaves("loop", a, b) /\ t.offset > b.p
  \/ x = "cs_end_do_while" /\ Trades(1, 0, a, b) /\ Leaves("loop", a, b) /\ t.offset > b.p
  \/ x = "cs_switch_end" /\ Trades(0, 0, a, b) /\ Leaves("loop", a, b)
  \/ x \in {"cs_pre_boolean_or", "cs_pre_boolean_and", "cs_questionmark_op_pre_expr1"}
     /\ Trades(1, 1, a, b) /\ Enters("other", a, b)
  \/ x \in {"cs_post_boolean_or", "cs_post_boolean_and"}
     /\ Trades(2, 1, a, b) /\ Leaves("other", a, b)
  \/ x = "cs_questionmark_op_post_expr2" /\ Trades(3, 1, a, b) /\ Leaves("other", a, b)
  \/ x \in {"offset of ;", "offset of )"} /\ Plain(a)
     /\ b = To(a, Push(OffsetAbove(a.p), a.w), "plain", 0)
  \/ x = "for_pre_statement" /\ In("loop", a) /\ HeaderLeft(a, b)
  \/ x = "for_post_statement" /\ Leaves("loop", a, b) /\ ForLeft(t, a, b)
  \/ x = "for_iterations" /\ a.m = "again" /\ a.o = t.offset /\ b = To(a, a.w, "plain", 0)
  \/ x = "cs_functioncall_pre_variable_passing" /\ Plain(a)
     /\ b = To(a, Push(Asked, a.w), "asked", 0)
  \/ x = "(" /\ a.m = "asked" /\ a.o = 0 /\ b = To(a, a.w, "passing", 0)
  \/ x = "offset of )" /\ a.m = "passing" /\ a.o = 0
     /\ b = To(a, Push(OffsetAbove(a.p), a.w), "passed", 0)
  \/ x = "cs_functioncall_post_variable_passing" /\ CallSkipped(a, b)
  \/ x \in {"call_user_function", "RETURN_TRUE"} /\ a.m = "entered" /\ a.o = 0 /\ b = a
  \/ x = "possible_function_call" /\ a.m \in {"entered", "skipped"} /\ a.o = 0
     /\ b = To(a, a.w, "over", 0)
  \/ x = "(" /\ a.m = "begun" /\ a.o = 0 /\ b = To(a, a.w, "plain", 0)
  \/ x = "}" /\ Plain(a) /\ (b = To(a, a.w, "over", 0) \/ b = To(a, a.w, "closing", 0))
  \/ x = "cs_functioncall_end" /\ (SkippedEnds(a, b) \/ CalledEnds(a, b))
  \/ x = "restore_token" /\ a.m = "restored" /\ a.o = t.offset /\ b = To(a, a.w, "plain", 0)
  \/ x = "terminate_phpparse" /\ a.m = "closing" /\ a.o = 0 /\ b = To(a, a.w, "closed", 0)
  \/ x = "statement" /\ a.m = "reading" /\ b = To(a, a.w, "closed", 0)
  \/ x = "statement_list" /\ a.m \in {"calling", "closed"} /\ b = To(a, a.w, "end", 0)
  \/ x = "EOF" /\ a.m = "end" /\ b = To(a, a.w, "plain", 0)

\* The symbols p lead from stage a to stage z.
IsWay(h, p, a, z) ==
  /\ h \in [1 .. Len(p) + 1 -> Stage]
  /\ h[1] = a /\ h[Len(p) + 1] = z
  /\ \A k \in 1 .. Len(p) : Takes(p[k].sym, p[k].tok, h[k], h[k + 1])
Way(p, a, z) == \E h : IsWay(h, p, a, z)

\* No symbols lead nowhere.
LEMMA WayEmpty ==
  ASSUME NEW a, NEW z, Way(<<>>, a, z)
  PROVE  a = z /\ a \in Stage
BY DEF Way, IsWay

\* The first symbol of a run has its effect, and the others run on from there.
LEMMA WayFirst ==
  ASSUME NEW I, NEW p \in Seq(I), p # <<>>, NEW a, NEW z, Way(p, a, z)
  PROVE  \E b \in Stage : Takes(Head(p).sym, Head(p).tok, a, b) /\ Way(Tail(p), b, z)
<1>1. PICK h : IsWay(h, p, a, z)
  BY Zenon DEF Way
<1>2. PICK n \in Nat : Len(p) = n + 1
  <2>1. Len(p) \in Nat /\ Len(p) # 0
    OBVIOUS
  <2>2. Len(p) - 1 \in Nat /\ Len(p) = (Len(p) - 1) + 1
    BY <2>1
  <2> QED BY <2>2
<1>3. Tail(p) \in Seq(I) /\ Len(Tail(p)) = n /\ Head(p) = p[1]
      /\ \A k \in 1 .. n : Tail(p)[k] = p[k + 1]
  BY <1>2
<1> DEFINE g == [k \in 1 .. n + 1 |-> h[k + 1]]
<1>4. g \in [1 .. n + 1 -> Stage] /\ g[1] = h[2] /\ g[n + 1] = z
  BY <1>1, <1>2 DEF IsWay
<1>5. \A k \in 1 .. n : Takes(Tail(p)[k].sym, Tail(p)[k].tok, g[k], g[k + 1])
  <2> SUFFICES ASSUME NEW k \in 1 .. n 
         PROVE Takes(Tail(p)[k].sym, Tail(p)[k].tok, g[k], g[k + 1])
    OBVIOUS
  <2>1. k + 1 \in 1 .. Len(p) /\ g[k] = h[k + 1] /\ g[k + 1] = h[(k + 1) + 1]
    BY <1>2
  <2> QED BY <1>1, <1>3, <2>1 DEF IsWay
<1>6. IsWay(g, Tail(p), h[2], z)
  BY <1>3, <1>4, <1>5 DEF IsWay
<1>7. Takes(p[1].sym, p[1].tok, a, h[2]) /\ h[2] \in Stage
  <2>1. 1 \in 1 .. Len(p) /\ 1 + 1 = 2 /\ 2 \in 1 .. Len(p) + 1
    BY <1>2
  <2> QED BY <1>1, <2>1 DEF IsWay
<1> QED BY <1>3, <1>6, <1>7 DEF Way

\* Runs follow each other.
LEMMA WayOn ==
  ASSUME NEW I, NEW p \in Seq(I), NEW q \in Seq(I), NEW a, NEW b, NEW z,
         Way(p, a, b), Way(q, b, z)
  PROVE  Way(p \o q, a, z)
<1>1. PICK h : IsWay(h, p, a, b)
  BY DEF Way
<1>2. PICK g : IsWay(g, q, b, z)
  BY DEF Way
<1>3. PICK n \in Nat, l \in Nat : n = Len(p) /\ l = Len(q)
  OBVIOUS
<1>4. p \o q \in Seq(I) /\ Len(p \o q) = n + l
      /\ \A k \in 1 .. n + l : (p \o q)[k] = IF k <= n THEN p[k] ELSE q[k - n]
  BY <1>3
<1> DEFINE f == [k \in 1 .. n + l + 1 |-> IF k <= n THEN h[k] ELSE g[k - n]]
<1>5. f \in [1 .. n + l + 1 -> Stage]
  <2> SUFFICES ASSUME NEW k \in 1 .. n + l + 1 PROVE f[k] \in Stage
    BY Zenon
  <2>1. CASE k <= n
    <3>1. k \in 1 .. Len(p) + 1
      BY <1>3, <2>1
    <3> QED BY <1>1, <2>1, <3>1 DEF IsWay
  <2>2. CASE ~ (k <= n)
    <3>1. k - n \in 1 .. Len(q) + 1
      BY <1>3, <2>2
    <3> QED BY <1>2, <2>2, <3>1 DEF IsWay
  <2> QED BY <2>1, <2>2
<1>6. \A k \in 1 .. n : f[k] = h[k] /\ f[k + 1] = h[k + 1]
  <2> SUFFICES ASSUME NEW k \in 1 .. n PROVE f[k] = h[k] /\ f[k + 1] = h[k + 1]
    OBVIOUS
  <2>1. f[k] = h[k]
    OBVIOUS
  <2>2. CASE k + 1 <= n
    BY <2>1, <2>2
  <2>3. CASE k = n
    <3>1. h[n + 1] = b /\ g[1] = b
      BY <1>1, <1>2, <1>3 DEF IsWay
    <3>2. f[n + 1] = g[(n + 1) - n] /\ (n + 1) - n = 1
      OBVIOUS
    <3> QED BY <2>1, <2>3, <3>1, <3>2
  <2> QED BY <2>2, <2>3
<1>7. \A k \in 1 .. l + 1 : f[n + k] = g[k]
  <2> SUFFICES ASSUME NEW k \in 1 .. l + 1 PROVE f[n + k] = g[k]
    OBVIOUS
  <2>1. n + k \in 1 .. n + l + 1 /\ ~ (n + k <= n) /\ (n + k) - n = k
    OBVIOUS
  <2> QED BY <2>1
<1>8. f[1] = a /\ f[n + l + 1] = z
  <2>1. f[n + (l + 1)] = g[l + 1] /\ g[l + 1] = z /\ n + (l + 1) = n + l + 1
    BY <1>2, <1>3, <1>7 DEF IsWay
  <2>2. CASE n = 0
    <3>1. f[n + 1] = g[1] /\ g[1] = b /\ h[n + 1] = b /\ h[1] = a
      BY <1>1, <1>2, <1>3, <1>7 DEF IsWay
    <3> QED BY <2>1, <2>2, <3>1
  <2>3. CASE n # 0
    <3>1. 1 \in 1 .. n /\ h[1] = a
      BY <1>1, <2>3 DEF IsWay
    <3> QED BY <1>6, <2>1, <3>1
  <2> HIDE DEF f
  <2> QED BY <2>2, <2>3
<1> HIDE DEF f
<1>9. \A k \in 1 .. n + l : Takes((p \o q)[k].sym, (p \o q)[k].tok, f[k], f[k + 1])
  <2> SUFFICES ASSUME NEW k \in 1 .. n + l
         PROVE Takes((p \o q)[k].sym, (p \o q)[k].tok, f[k], f[k + 1])
    OBVIOUS
  <2>1. CASE k <= n
    <3>1. k \in 1 .. n /\ (p \o q)[k] = p[k]
      BY <1>4, <2>1
    <3>2. Takes(p[k].sym, p[k].tok, h[k], h[k + 1])
      BY <1>1, <1>3, <3>1 DEF IsWay
    <3> QED BY <1>6, <3>1, <3>2
  <2>2. CASE ~ (k <= n)
    <3>1. k - n \in 1 .. l /\ (p \o q)[k] = q[k - n]
      BY <1>4, <2>2
    <3>2. PICK j \in 1 .. l : j = k - n
      BY <3>1
    <3>3. j \in 1 .. l + 1 /\ j + 1 \in 1 .. l + 1 /\ n + j = k /\ n + (j + 1) = k + 1
      BY <3>2
    <3>4. f[k] = g[j] /\ f[k + 1] = g[j + 1]
      BY <1>7, <3>3
    <3>5. Takes(q[j].sym, q[j].tok, g[j], g[j + 1])
      BY <1>2, <1>3 DEF IsWay
    <3> QED BY <3>1, <3>2, <3>4, <3>5
  <2> QED BY <2>1, <2>2
<1>10. IsWay(f, p \o q, a, z)
  BY <1>3, <1>4, <1>5, <1>8, <1>9 DEF IsWay
<1> QED BY <1>10 DEF Way

-----------------------------------------------------------------------------
(* Rules, as they lead from stage to stage *)

\* The symbols of a rule for token t lead from a to z.
Suits(rule, t, a, z) == rule \in Seq(Name) /\ Way(Symbols(rule, t), a, z)

LEMMA SameSeq ==
  ASSUME NEW S, NEW p \in Seq(S), NEW q \in Seq(S), NEW k \in Nat, Len(p) = k, Len(q) = k,
         \A i \in 1 .. k : p[i] = q[i]
  PROVE  p = q
OBVIOUS

LEMMA Joining ==
  ASSUME NEW S, NEW p \in Seq(S), NEW q \in Seq(S)
  PROVE  p \o q \in Seq(S) /\ Len(p \o q) = Len(p) + Len(q)
OBVIOUS

LEMMA SymbolsAre ==
  ASSUME NEW rule \in Seq(Name), NEW t
  PROVE  /\ Symbols(rule, t) \in Seq([sym : Name, tok : {t}])
         /\ Len(Symbols(rule, t)) = Len(rule)
         /\ \A k \in 1 .. Len(rule) : Symbols(rule, t)[k] = [sym |-> rule[k], tok |-> t]
<1>1. PICK n \in Nat : n = Len(rule)
  OBVIOUS
<1>2. Symbols(rule, t) = [i \in 1 .. n |-> [sym |-> rule[i], tok |-> t]]
  BY <1>1 DEF Symbols
<1>3. \A i \in 1 .. n : rule[i] \in Name
  BY <1>1
<1>4. \A i \in 1 .. n : [sym |-> rule[i], tok |-> t] \in [sym : Name, tok : {t}]
  BY <1>3
<1> QED BY <1>1, <1>2, <1>4

LEMMA SuitsNone ==
  ASSUME NEW a \in Stage, NEW t
  PROVE  Suits(<<>>, t, a, a)
<1>1. Symbols(<<>>, t) = <<>>
  BY DEF Symbols
<1>2. IsWay([k \in 1 .. 1 |-> a], <<>>, a, a)
  BY DEF IsWay
<1> QED BY <1>1, <1>2 DEF Suits, Way

LEMMA Suits1 ==
  ASSUME NEW x \in Name, NEW t, NEW a \in Stage, NEW b \in Stage, Takes(x, t, a, b)
  PROVE  Suits(<<x>>, t, a, b)
<1> DEFINE h == [k \in 1 .. 2 |-> IF k = 1 THEN a ELSE b]
<1>1. <<x>> \in Seq(Name) /\ Len(<<x>>) = 1 /\ <<x>>[1] = x
  OBVIOUS
<1>2. PICK p : p = Symbols(<<x>>, t)
  OBVIOUS
<1>3. Len(p) = 1 /\ p[1].sym = x /\ p[1].tok = t
  <2>1. /\ Len(Symbols(<<x>>, t)) = Len(<<x>>)
        /\ \A k \in 1 .. Len(<<x>>) : Symbols(<<x>>, t)[k] = [sym |-> <<x>>[k], tok |-> t]
    BY <1>1, SymbolsAre, Zenon
  <2>2. Len(p) = 1 /\ \A k \in 1 .. 1 : p[k] = [sym |-> <<x>>[k], tok |-> t]
    BY <1>1, <1>2, <2>1
  <2>3. p[1] = [sym |-> x, tok |-> t]
    BY <1>1, <2>2
  <2> QED BY <2>2, <2>3
<1>4. p[1].sym = x /\ p[1].tok = t
  BY <1>3
<1>5. h \in [1 .. Len(p) + 1 -> Stage] /\ h[1] = a /\ h[2] = b /\ Len(p) + 1 = 2
  BY <1>3
<1> HIDE DEF h
<1>6. ASSUME NEW k \in 1 .. Len(p) PROVE Takes(p[k].sym, p[k].tok, h[k], h[k + 1])
  <2>1. k = 1 /\ k + 1 = 2
    BY <1>3
  <2> QED BY <1>4, <1>5, <2>1
<1>7. IsWay(h, p, a, b)
  BY <1>5, <1>6 DEF IsWay
<1> QED BY <1>1, <1>2, <1>7 DEF Suits, Way

LEMMA SuitsOn ==
  ASSUME NEW q, NEW r, NEW t, NEW a, NEW b, NEW z, Suits(q, t, a, b), Suits(r, t, b, z)
  PROVE  Suits(q \o r, t, a, z)
<1>1. q \in Seq(Name) /\ r \in Seq(Name) /\ q \o r \in Seq(Name)
  BY DEF Suits
<1>2. PICK I : I = [sym : Name, tok : {t}]
  OBVIOUS
<1>3. Symbols(q, t) \in Seq(I) /\ Symbols(r, t) \in Seq(I)
  BY <1>1, <1>2, SymbolsAre
<1>4. Way(Symbols(q, t) \o Symbols(r, t), a, z)
  BY <1>3, WayOn DEF Suits
<1>5. Symbols(q \o r, t) = Symbols(q, t) \o Symbols(r, t)
  <2>1. PICK n \in Nat, l \in Nat : n = Len(q) /\ l = Len(r)
    BY <1>1
  <2>2. PICK p \in Seq(I) : p = Symbols(q \o r, t) /\ Len(p) = n + l
                           /\ \A k \in 1 .. n + l : p[k] = [sym |-> (q \o r)[k], tok |-> t]
    <3>1. Len(q \o r) = n + l
      BY <1>1, <2>1
    <3>2. /\ Symbols(q \o r, t) \in Seq(I) /\ Len(Symbols(q \o r, t)) = Len(q \o r)
          /\ \A k \in 1 .. Len(q \o r) : Symbols(q \o r, t)[k] = [sym |-> (q \o r)[k], tok |-> t]
      BY <1>1, <1>2, SymbolsAre, Zenon
    <3> QED BY <3>1, <3>2, Zenon
  <2>3. PICK g \in Seq(I) : g = Symbols(q, t) /\ Len(g) = n
                           /\ \A k \in 1 .. n : g[k] = [sym |-> q[k], tok |-> t]
    BY <1>1, <1>2, <2>1, SymbolsAre
  <2>4. PICK h \in Seq(I) : h = Symbols(r, t) /\ Len(h) = l
                           /\ \A k \in 1 .. l : h[k] = [sym |-> r[k], tok |-> t]
    BY <1>1, <1>2, <2>1, SymbolsAre
  <2>5. ASSUME NEW k \in 1 .. n + l PROVE p[k] = (g \o h)[k]
    <3>1. CASE k <= n
      <4>1. (q \o r)[k] = q[k] /\ (g \o h)[k] = g[k] /\ k \in 1 .. n
        BY <1>1, <2>1, <2>3, <2>4, <3>1
      <4> QED BY <2>2, <2>3, <4>1
    <3>2. CASE ~ (k <= n)
      <4>1. (q \o r)[k] = r[k - n] /\ (g \o h)[k] = h[k - n] /\ k - n \in 1 .. l
        BY <1>1, <2>1, <2>3, <2>4, <3>2
      <4> QED BY <2>2, <2>4, <4>1
    <3> QED BY <3>1, <3>2
  <2>6. g \o h \in Seq(I) /\ Len(g \o h) = n + l
    BY <2>3, <2>4, Joining, Zenon
  <2>7. p = g \o h
    <3>1. PICK s \in Seq(I) : s = g \o h /\ Len(s) = n + l /\ \A k \in 1 .. n + l : p[k] = s[k]
      BY <2>5, <2>6, Zenon
    <3>2. n + l \in Nat
      OBVIOUS
    <3>3. p = s
      BY <2>2, <3>1, <3>2, SameSeq, Zenon
    <3> QED BY <3>1, <3>3
  <2> QED BY <2>2, <2>3, <2>4, <2>7
<1> QED BY <1>1, <1>4, <1>5 DEF Suits

LEMMA Suits2 ==
  ASSUME NEW t, NEW x1 \in Name, NEW x2 \in Name,
         NEW h0 \in Stage, NEW h1 \in Stage, NEW h2 \in Stage,
         Takes(x1, t, h0, h1), Takes(x2, t, h1, h2)
  PROVE  Suits(<<x1, x2>>, t, h0, h2)
<1>1. Suits(<<x1>>, t, h0, h1)
  BY Suits1
<1>2. Suits(<<x2>>, t, h1, h2)
  BY Suits1
<1>3. <<x1, x2>> = <<x1>> \o <<x2>>
  BY Pair
<1> QED BY <1>1, <1>2, <1>3, SuitsOn

LEMMA Suits3 ==
  ASSUME NEW t, NEW x1 \in Name, NEW x2 \in Name, NEW x3 \in Name,
         NEW h0 \in Stage, NEW h1 \in Stage, NEW h2 \in Stage, NEW h3 \in Stage,
         Takes(x1, t, h0, h1), Takes(x2, t, h1, h2), Takes(x3, t, h2, h3)
  PROVE  Suits(<<x1, x2, x3>>, t, h0, h3)
<1>1. Suits(<<x1>>, t, h0, h1)
  BY Suits1
<1>2. Suits(<<x2, x3>>, t, h1, h3)
  BY Suits2
<1>3. <<x1, x2, x3>> = <<x1>> \o <<x2, x3>>
  OBVIOUS
<1> QED BY <1>1, <1>2, <1>3, SuitsOn

LEMMA Suits4 ==
  ASSUME NEW t, NEW x1 \in Name, NEW x2 \in Name, NEW x3 \in Name, NEW x4 \in Name,
         NEW h0 \in Stage, NEW h1 \in Stage, NEW h2 \in Stage, NEW h3 \in Stage, NEW h4 \in Stage,
         Takes(x1, t, h0, h1), Takes(x2, t, h1, h2), Takes(x3, t, h2, h3), Takes(x4, t, h3, h4)
  PROVE  Suits(<<x1, x2, x3, x4>>, t, h0, h4)
<1>1. Suits(<<x1>>, t, h0, h1)
  BY Suits1
<1>2. Suits(<<x2, x3, x4>>, t, h1, h4)
  BY Suits3
<1>3. <<x1, x2, x3, x4>> = <<x1>> \o <<x2, x3, x4>>
  OBVIOUS
<1> QED BY <1>1, <1>2, <1>3, SuitsOn

LEMMA Suits5 ==
  ASSUME NEW t, NEW x1 \in Name, NEW x2 \in Name, NEW x3 \in Name, NEW x4 \in Name, NEW x5 \in Name,
         NEW h0 \in Stage, NEW h1 \in Stage, NEW h2 \in Stage, NEW h3 \in Stage,
         NEW h4 \in Stage, NEW h5 \in Stage, Takes(x1, t, h0, h1), Takes(x2, t, h1, h2),
         Takes(x3, t, h2, h3), Takes(x4, t, h3, h4), Takes(x5, t, h4, h5)
  PROVE  Suits(<<x1, x2, x3, x4, x5>>, t, h0, h5)
<1>1. Suits(<<x1>>, t, h0, h1)
  BY Suits1
<1>2. Suits(<<x2, x3, x4, x5>>, t, h1, h5)
  BY Suits4
<1>3. <<x1, x2, x3, x4, x5>> = <<x1>> \o <<x2, x3, x4, x5>>
  OBVIOUS
<1> QED BY <1>1, <1>2, <1>3, SuitsOn

-----------------------------------------------------------------------------
(* Stages *)

LEMMA MarkTypes ==
  /\ Value \in Mark /\ Asked \in Mark /\ CalledMark \in Mark /\ SkippedCall \in Mark
  /\ \A x \in Nat : OffsetAbove(x) \in Mark /\ Off(OffsetAbove(x)) /\ OffsetAbove(x).above = x
BY DEF Mark, Value, Asked, CalledMark, SkippedCall, OffsetAbove, Off

FnType == {"none", "user", "internal"}

LEMMA StageParts ==
  ASSUME NEW a \in Stage
  PROVE  /\ a.w \in Seq(Mark) /\ a.e \in Seq(SavedFor) /\ a.n \in Nat /\ a.l \in Seq(Int)
         /\ a.p \in Nat /\ a.f \in Seq(FnType) /\ a.m \in Moment /\ a.o \in Nat
         /\ (a.l # <<>> => a.l[1] <= a.p)
         /\ a = StageOf(a.w, a.e, a.n, a.l, a.p, a.f, a.m, a.o)
BY DEF Stage, Fields, FnType, StageOf

LEMMA StageMade ==
  ASSUME NEW w \in Seq(Mark), NEW e \in Seq(SavedFor), NEW n \in Nat, NEW l \in Seq(Int),
         NEW p \in Nat, NEW f \in Seq(FnType), NEW m \in Moment, NEW o \in Nat,
         l # <<>> => l[1] <= p
  PROVE  /\ StageOf(w, e, n, l, p, f, m, o) \in Stage
         /\ StageOf(w, e, n, l, p, f, m, o).w = w /\ StageOf(w, e, n, l, p, f, m, o).e = e
         /\ StageOf(w, e, n, l, p, f, m, o).n = n /\ StageOf(w, e, n, l, p, f, m, o).l = l
         /\ StageOf(w, e, n, l, p, f, m, o).p = p /\ StageOf(w, e, n, l, p, f, m, o).f = f
         /\ StageOf(w, e, n, l, p, f, m, o).m = m /\ StageOf(w, e, n, l, p, f, m, o).o = o
BY DEF Stage, Fields, FnType, StageOf

LEMMA StageIs ==
  ASSUME NEW w \in Seq(Mark), NEW e \in Seq(SavedFor), NEW n \in Nat, NEW l \in Seq(Int),
         NEW p \in Nat, NEW f \in Seq(FnType), NEW m \in Moment, NEW o \in Nat,
         l # <<>> => l[1] <= p, NEW b, b = StageOf(w, e, n, l, p, f, m, o)
  PROVE  /\ b \in Stage /\ b.w = w /\ b.e = e /\ b.n = n /\ b.l = l /\ b.p = p /\ b.f = f
         /\ b.m = m /\ b.o = o
BY DEF Stage, Fields, FnType, StageOf

LEMMA StackedType ==
  ASSUME NEW w \in Seq(Mark), NEW k \in 0 .. 3
  PROVE  Stacked(k, w) \in Seq(Mark)
<1>1. PICK v \in Mark : v = Value
  BY MarkTypes
<1>2. Push(v, w) \in Seq(Mark)
  BY Pushed
<1>3. Push(v, Push(v, w)) \in Seq(Mark)
  BY <1>2, Pushed
<1>4. Push(v, Push(v, Push(v, w))) \in Seq(Mark)
  BY <1>3, Pushed
<1> QED BY <1>1, <1>2, <1>3, <1>4 DEF Stacked

LEMMA StackedMore ==
  ASSUME NEW w, NEW k \in 0 .. 3, NEW l \in 0 .. 3, k + l <= 3
  PROVE  Stacked(k, Stacked(l, w)) = Stacked(k + l, w)
<1>1. CASE k = 0
  BY <1>1 DEF Stacked
<1>2. CASE l = 0
  BY <1>2 DEF Stacked
<1>3. CASE k = 1 /\ l = 1
  BY <1>3 DEF Stacked
<1>4. CASE k = 1 /\ l = 2
  BY <1>4 DEF Stacked
<1>5. CASE k = 2 /\ l = 1
  BY <1>5 DEF Stacked
<1> QED BY <1>1, <1>2, <1>3, <1>4, <1>5

\* So many values more, and one level further.
Up(a, k) == StageOf(Stacked(k, a.w), a.e, a.n, a.l, a.p, a.f, "plain", 0)
Into(kind, a) == StageOf(a.w, Push(For(kind, a.n + More(kind)), a.e), a.n + More(kind),
                     a.l, a.p, a.f, "plain", 0)
EntryKind == {"loop", "if", "other", "call"}

LEMMA UpParts ==
  ASSUME NEW a \in Stage, NEW k \in 0 .. 3
  PROVE  /\ Up(a, k) \in Stage /\ Plain(Up(a, k)) /\ Up(a, k).w = Stacked(k, a.w)
         /\ Up(a, k).e = a.e /\ Up(a, k).n = a.n /\ Up(a, k).l = a.l /\ Up(a, k).p = a.p
         /\ Up(a, k).f = a.f
<1>1. PICK w \in Seq(Mark), e \in Seq(SavedFor), n \in Nat, l \in Seq(Int), p \in Nat,
           f \in Seq(FnType) :
        /\ w = Stacked(k, a.w) /\ e = a.e /\ n = a.n /\ l = a.l /\ p = a.p /\ f = a.f
        /\ (l # <<>> => l[1] <= p)
  BY StageParts, StackedType
<1>2. Up(a, k) = StageOf(w, e, n, l, p, f, "plain", 0)
  BY <1>1 DEF Up
<1>3. "plain" \in Moment /\ 0 \in Nat
  BY DEF Moment
<1>4. PICK b : b = StageOf(w, e, n, l, p, f, "plain", 0)
  OBVIOUS
<1>5. /\ b \in Stage /\ b.w = w /\ b.e = e /\ b.n = n /\ b.l = l /\ b.p = p /\ b.f = f
      /\ b.m = "plain" /\ b.o = 0
  <2>1. PICK m \in Moment, o \in Nat : m = "plain" /\ o = 0
    BY <1>3, Zenon
  <2>2. b = StageOf(w, e, n, l, p, f, m, o)
    BY <1>4, <2>1
  <2>3. l # <<>> => l[1] <= p
    BY <1>1
  <2> QED BY <2>1, <2>2, <2>3 DEF Stage, Fields, FnType, StageOf
<1> QED BY <1>1, <1>2, <1>4, <1>5, Zenon DEF Plain

LEMMA UpNone ==
  ASSUME NEW a \in Stage, Plain(a)
  PROVE  Up(a, 0) = a
BY StageParts DEF Up, Plain, Stacked

LEMMA IntoParts ==
  ASSUME NEW a \in Stage, NEW kind \in EntryKind
  PROVE  /\ Into(kind, a) \in Stage /\ Plain(Into(kind, a)) /\ Into(kind, a).w = a.w
         /\ Into(kind, a).e = Push(For(kind, a.n + More(kind)), a.e)
         /\ Into(kind, a).n = a.n + More(kind) /\ Into(kind, a).l = a.l
         /\ Into(kind, a).p = a.p /\ Into(kind, a).f = a.f
         /\ In(kind, Into(kind, a)) /\ Into(kind, a).e[1].loops = Into(kind, a).n
<1>1. PICK w \in Seq(Mark), d \in Seq(SavedFor), n \in Nat, l \in Seq(Int), p \in Nat,
           f \in Seq(FnType) :
        /\ w = a.w /\ d = a.e /\ n = a.n + More(kind) /\ l = a.l /\ p = a.p /\ f = a.f
        /\ (l # <<>> => l[1] <= p)
  <2>1. a.n + More(kind) \in Nat
    BY StageParts DEF More
  <2> QED BY <2>1, StageParts
<1>2. PICK x \in SavedFor : x = For(kind, n) /\ x.kind = kind /\ x.loops = n
  <2>1. For(kind, n) \in SavedFor /\ For(kind, n).kind = kind /\ For(kind, n).loops = n
    BY DEF For, SavedFor, EntryKind
  <2> QED BY <2>1
<1>3. PICK e \in Seq(SavedFor) : e = Push(x, d) /\ e # <<>> /\ e[1] = x
  BY Pushed, ZenonT(40)
<1>4. Into(kind, a) = StageOf(w, e, n, l, p, f, "plain", 0)
  BY <1>1, <1>2, <1>3 DEF Into
<1>5. "plain" \in Moment /\ 0 \in Nat
  BY DEF Moment
<1>6. PICK b : b = StageOf(w, e, n, l, p, f, "plain", 0)
  OBVIOUS
<1>7. /\ b \in Stage /\ b.w = w /\ b.e = e /\ b.n = n /\ b.l = l /\ b.p = p /\ b.f = f
      /\ b.m = "plain" /\ b.o = 0
  <2>1. PICK m \in Moment, o \in Nat : m = "plain" /\ o = 0
    BY <1>5, Zenon
  <2>2. b = StageOf(w, e, n, l, p, f, m, o)
    BY <1>6, <2>1
  <2>3. l # <<>> => l[1] <= p
    BY <1>1
  <2> QED BY <2>1, <2>2, <2>3 DEF Stage, Fields, FnType, StageOf
<1>8. In(kind, b) /\ b.e[1].loops = b.n
  BY <1>2, <1>3, <1>7, Zenon DEF In
<1> QED BY <1>1, <1>2, <1>3, <1>4, <1>6, <1>7, <1>8, Zenon DEF Plain

LEMMA UpIn ==
  ASSUME NEW a \in Stage, NEW k \in 0 .. 3, NEW kind, In(kind, a)
  PROVE  In(kind, Up(a, k))
BY UpParts DEF In

\* From any number of values to any other, on one level and between two.
LEMMA UpGives ==
  ASSUME NEW a \in Stage, NEW b \in Stage, b.w = a.w,
         NEW k \in 0 .. 3, NEW take \in 0 .. 3, NEW give \in 0 .. 3,
         k + take <= 3, k + give <= 3, b.l = a.l, b.p = a.p, b.f = a.f
  PROVE  Trades(take, give, Up(a, k + take), Up(b, k + give))
<1>1. PICK w \in Seq(Mark) : w = Stacked(k, a.w)
  BY StageParts, StackedType
<1>2. k + take \in 0 .. 3 /\ k + give \in 0 .. 3 /\ take + k = k + take /\ give + k = k + give
  OBVIOUS
<1>3. Stacked(k + take, a.w) = Stacked(take, w) /\ Stacked(k + give, a.w) = Stacked(give, w)
  BY <1>1, <1>2, StackedMore
<1>4. Gives(take, give, Up(a, k + take), Up(b, k + give))
  BY <1>2, <1>3, UpParts DEF Gives
<1>5. Same(Up(a, k + take), Up(b, k + give))
  BY <1>2, UpParts DEF Same
<1>6. Plain(Up(a, k + take)) /\ Plain(Up(b, k + give))
  BY <1>2, UpParts
<1> QED BY <1>4, <1>5, <1>6 DEF Trades

LEMMA UpStays ==
  ASSUME NEW a \in Stage, NEW k \in 0 .. 3, NEW take \in 0 .. 3, NEW give \in 0 .. 3,
         k + take <= 3, k + give <= 3
  PROVE  /\ Trades(take, give, Up(a, k + take), Up(a, k + give))
         /\ Stays(Up(a, k + take), Up(a, k + give))
<1>1. k + take \in 0 .. 3 /\ k + give \in 0 .. 3
  OBVIOUS
<1>2. Stays(Up(a, k + take), Up(a, k + give))
  BY <1>1, UpParts DEF Stays
<1> QED BY <1>2, UpGives

LEMMA UpEnters ==
  ASSUME NEW a \in Stage, NEW k \in 0 .. 3, NEW take \in 0 .. 3, NEW give \in 0 .. 3,
         k + take <= 3, k + give <= 3, NEW kind \in EntryKind
  PROVE  /\ Trades(take, give, Up(a, k + take), Up(Into(kind, a), k + give))
         /\ Enters(kind, Up(a, k + take), Up(Into(kind, a), k + give))
         /\ Trades(take, give, Up(Into(kind, a), k + take), Up(a, k + give))
         /\ Leaves(kind, Up(Into(kind, a), k + take), Up(a, k + give))
<1>1. k + take \in 0 .. 3 /\ k + give \in 0 .. 3
  OBVIOUS
<1>2. /\ Into(kind, a) \in Stage /\ Into(kind, a).w = a.w
      /\ Into(kind, a).e = Push(For(kind, a.n + More(kind)), a.e)
      /\ Into(kind, a).n = a.n + More(kind) /\ Into(kind, a).l = a.l
      /\ Into(kind, a).p = a.p /\ Into(kind, a).f = a.f
  BY IntoParts
<1>3. Enters(kind, Up(a, k + take), Up(Into(kind, a), k + give))
  BY <1>1, <1>2, UpParts DEF Enters
<1>4. Leaves(kind, Up(Into(kind, a), k + take), Up(a, k + give))
  BY <1>1, <1>2, UpParts DEF Leaves
<1> QED BY <1>2, <1>3, <1>4, UpGives

-----------------------------------------------------------------------------
(* Symbols between such stages *)

LEMMA KeepActs ==
  ASSUME NEW x \in Keepers, NEW t, NEW a, Plain(a)
  PROVE  Takes(x, t, a, a)
BY DEF Takes

LEMMA GiveActs ==
  ASSUME NEW x \in Giving, NEW t, NEW a \in Stage, NEW k \in 0 .. 2
  PROVE  Takes(x, t, Up(a, k), Up(a, k + 1))
<1>1. Trades(0, 1, Up(a, k + 0), Up(a, k + 1)) /\ Stays(Up(a, k + 0), Up(a, k + 1))
  BY UpStays
<1>2. k + 0 = k
  OBVIOUS
<1> QED BY <1>1, <1>2 DEF Takes

LEMMA ValueActs ==
  ASSUME NEW t, NEW a \in Stage, Plain(a)
  PROVE  /\ Up(a, 1) \in Stage /\ Plain(Up(a, 1))
         /\ \A x \in Giving : Takes(x, t, a, Up(a, 1))
         /\ \A kind : In(kind, a) => In(kind, Up(a, 1))
<1>1. Up(a, 1) \in Stage /\ Plain(Up(a, 1)) /\ Up(a, 0) = a
  BY UpParts, UpNone
<1>2. 0 + 1 = 1 /\ \A x \in Giving : Takes(x, t, Up(a, 0), Up(a, 0 + 1))
  BY GiveActs, SMTT(30)
<1> QED BY <1>1, <1>2, UpIn

LEMMA DropActs ==
  ASSUME NEW t, NEW a \in Stage, Plain(a)
  PROVE  /\ \A x \in {"drop", "cs_return", "cs_switch_case_pre"} : Takes(x, t, Up(a, 1), a)
         /\ In("if", a) => Takes("cs_start_elseif", t, Up(a, 1), a)
         /\ In("loop", a) => Takes("for_pre_expr2", t, Up(a, 1), a)
         /\ Takes("operators", t, Up(a, 1), Up(a, 1))
<1>1. /\ Trades(1, 0, Up(a, 0 + 1), Up(a, 0 + 0)) /\ Stays(Up(a, 0 + 1), Up(a, 0 + 0))
      /\ Trades(1, 1, Up(a, 0 + 1), Up(a, 0 + 1)) /\ Stays(Up(a, 0 + 1), Up(a, 0 + 1))
  BY UpStays
<1>2. 0 + 1 = 1 /\ 0 + 0 = 0 /\ Up(a, 0) = a /\ \A kind : In(kind, a) => In(kind, Up(a, 1))
  BY UpNone, UpIn
<1> QED BY <1>1, <1>2 DEF Takes

\* Entering a level, and leaving it.
LEMMA LevelActs ==
  ASSUME NEW t, NEW a \in Stage, Plain(a), NEW b, NEW kind \in EntryKind, b = Into(kind, a)
  PROVE  /\ b \in Stage /\ Plain(b) /\ In(kind, b) /\ b.p = a.p /\ b.w = a.w
         /\ kind = "if" => /\ Takes("cs_start_if", t, Up(a, 1), b)
                           /\ Takes("cs_end_if", t, b, a)
         /\ kind = "other" => /\ In("if", a) => Takes("cs_elseif_start_evaluate", t, a, b)
                              /\ Takes("start_function_decleration", t, a, b)
                              /\ Takes("end_function_decleration", t, b, a)
                              /\ Takes("cs_elseif_end_evaluate", t, b, a)
         /\ kind = "loop" => /\ Takes("cs_start_while", t, Up(a, 1), b)
                             /\ Takes("cs_switch_start", t, Up(a, 1), b)
                             /\ Takes("cs_start_do_while", t, a, b)
                             /\ Takes("cs_switch_end", t, b, a)
                             /\ Takes("cs_force_eval_do_while", t, b, b)
                             /\ t.offset > a.p => /\ Takes("cs_end_while", t, b, a)
                                                  /\ Takes("cs_end_do_while", t, Up(b, 1), a)
<1>1. /\ b \in Stage /\ Plain(b) /\ In(kind, b) /\ b.p = a.p /\ b.w = a.w
      /\ b.e[1].loops = b.n
  BY IntoParts
<1>2. /\ Trades(1, 0, Up(a, 0 + 1), Up(b, 0 + 0)) /\ Enters(kind, Up(a, 0 + 1), Up(b, 0 + 0))
      /\ Trades(1, 0, Up(b, 0 + 1), Up(a, 0 + 0)) /\ Leaves(kind, Up(b, 0 + 1), Up(a, 0 + 0))
      /\ Trades(0, 0, Up(a, 0 + 0), Up(b, 0 + 0)) /\ Enters(kind, Up(a, 0 + 0), Up(b, 0 + 0))
      /\ Trades(0, 0, Up(b, 0 + 0), Up(a, 0 + 0)) /\ Leaves(kind, Up(b, 0 + 0), Up(a, 0 + 0))
  BY UpEnters
<1>3. 0 + 1 = 1 /\ 0 + 0 = 0 /\ Up(a, 0) = a /\ Up(b, 0) = b
  BY <1>1, UpNone
<1>4. /\ Trades(1, 0, Up(a, 1), b) /\ Enters(kind, Up(a, 1), b)
      /\ Trades(1, 0, Up(b, 1), a) /\ Leaves(kind, Up(b, 1), a)
      /\ Trades(0, 0, a, b) /\ Enters(kind, a, b)
      /\ Trades(0, 0, b, a) /\ Leaves(kind, b, a)
  BY <1>2, <1>3, Zenon
<1>5. kind = "if" => /\ Takes("cs_start_if", t, Up(a, 1), b)
                     /\ Takes("cs_end_if", t, b, a)
  BY <1>4, Zenon DEF Takes
<1>6. kind = "other" => /\ In("if", a) => Takes("cs_elseif_start_evaluate", t, a, b)
                        /\ Takes("start_function_decleration", t, a, b)
                        /\ Takes("end_function_decleration", t, b, a)
                        /\ Takes("cs_elseif_end_evaluate", t, b, a)
  BY <1>4, Zenon DEF Takes
<1>7. kind = "loop" => /\ Takes("cs_start_while", t, Up(a, 1), b)
                       /\ Takes("cs_switch_start", t, Up(a, 1), b)
                       /\ Takes("cs_start_do_while", t, a, b)
                       /\ Takes("cs_switch_end", t, b, a)
                       /\ Takes("cs_force_eval_do_while", t, b, b)
                       /\ t.offset > a.p => /\ Takes("cs_end_while", t, b, a)
                                            /\ Takes("cs_end_do_while", t, Up(b, 1), a)
  BY <1>1, <1>4, Zenon DEF Takes
<1> QED BY <1>1, <1>5, <1>6, <1>7, Zenon

-----------------------------------------------------------------------------
(* The rules *)

LEMMA Halves8 ==
  ASSUME NEW t, NEW a, NEW b, NEW z,
         NEW x1, NEW x2, NEW x3, NEW x4, NEW x5, NEW x6, NEW x7, NEW x8,
         Suits(<<x1, x2, x3, x4>>, t, a, b), Suits(<<x5, x6, x7, x8>>, t, b, z)
  PROVE  Suits(<<x1, x2, x3, x4, x5, x6, x7, x8>>, t, a, z)
<1>1. <<x1, x2, x3, x4, x5, x6, x7, x8>> = <<x1, x2, x3, x4>> \o <<x5, x6, x7, x8>>
  OBVIOUS
<1> QED BY <1>1, SuitsOn

LEMMA Halves10 ==
  ASSUME NEW t, NEW a, NEW b, NEW z,
         NEW x1, NEW x2, NEW x3, NEW x4, NEW x5, NEW x6, NEW x7, NEW x8, NEW x9, NEW x10,
         Suits(<<x1, x2, x3, x4, x5>>, t, a, b), Suits(<<x6, x7, x8, x9, x10>>, t, b, z)
  PROVE  Suits(<<x1, x2, x3, x4, x5, x6, x7, x8, x9, x10>>, t, a, z)
<1>1. <<x1, x2, x3, x4, x5, x6, x7, x8, x9, x10>>
      = <<x1, x2, x3, x4, x5>> \o <<x6, x7, x8, x9, x10>>
  BY SMTT(30)
<1> QED BY <1>1, SuitsOn

LEMMA BlockSuits ==
  ASSUME NEW t, NEW a \in Stage, Plain(a)
  PROVE  Suits(<<"statement_list", "}">>, t, a, a)
<1>1. "statement_list" \in Keepers /\ "}" \in Keepers
  BY DEF Keepers
<1>2. "statement_list" \in Name /\ "}" \in Name
  BY DEF Name, Idle
<1> QED BY <1>1, <1>2, KeepActs, Suits2

LEMMA IfSuits ==
  ASSUME NEW t, NEW a \in Stage, Plain(a)
  PROVE  Suits(<<"(", "expr", ")", "cs_start_if", "statement", "elseif_list", "else_single",
                 "cs_end_if">>, t, a, a)
<1>1. PICK b \in Stage : /\ Plain(b) /\ In("if", b) /\ Takes("cs_start_if", t, Up(a, 1), b)
                         /\ Takes("cs_end_if", t, b, a)
  BY LevelActs DEF EntryKind
<1>2. PICK c \in Stage : Plain(c) /\ c = Up(a, 1) /\ Takes("expr", t, a, c)
  BY ValueActs DEF Giving
<1>3. /\ Takes("(", t, a, a) /\ Takes(")", t, c, c) /\ Takes("statement", t, b, b)
  BY <1>1, <1>2, KeepActs DEF Keepers
<1>4. Takes("elseif_list", t, b, b) /\ Takes("else_single", t, b, b)
  BY <1>1 DEF Takes
<1>5. "(" \in Name /\ "expr" \in Name /\ ")" \in Name /\ "cs_start_if" \in Name /\
      "statement" \in Name /\ "elseif_list" \in Name /\ "else_single" \in Name /\
      "cs_end_if" \in Name
  BY DEF Name, Idle, Giving, Dropping
<1>6. Suits(<<"(", "expr", ")", "cs_start_if">>, t, a, b)
  BY <1>1, <1>2, <1>3, <1>5, Suits4
<1>7. Suits(<<"statement", "elseif_list", "else_single", "cs_end_if">>, t, b, a)
  BY <1>1, <1>3, <1>4, <1>5, Suits4
<1> QED BY <1>6, <1>7, Halves8

LEMMA WhileSuits ==
  ASSUME NEW t, NEW a \in Stage, Plain(a), t.offset > a.p
  PROVE  Suits(while_rule, t, a, a)
<1>1. PICK b \in Stage : /\ Plain(b) /\ Takes("cs_start_while", t, Up(a, 1), b)
                         /\ Takes("cs_end_while", t, b, a)
  BY LevelActs DEF EntryKind
<1>2. PICK c \in Stage : Plain(c) /\ c = Up(a, 1) /\ Takes("expr", t, a, c)
  BY ValueActs DEF Giving
<1>3. /\ Takes("(", t, a, a) /\ Takes(")", t, c, c) /\ Takes("statement", t, b, b)
      /\ Takes("while_iterations", t, a, a)
  BY <1>1, <1>2, KeepActs DEF Keepers
<1>4. "(" \in Name /\ "expr" \in Name /\ ")" \in Name /\ "cs_start_while" \in Name /\
      "statement" \in Name /\ "cs_end_while" \in Name /\ "while_iterations" \in Name
  BY DEF Name, Idle, Giving, Dropping
<1>5. Suits(<<"(", "expr", ")", "cs_start_while">>, t, a, b)
  BY <1>1, <1>2, <1>3, <1>4, Suits4
<1>6. Suits(<<"statement", "cs_end_while", "while_iterations">>, t, b, a)
  BY <1>1, <1>3, <1>4, Suits3
<1>7. while_rule = <<"(", "expr", ")", "cs_start_while">> \o
                   <<"statement", "cs_end_while", "while_iterations">>
  BY DEF while_rule
<1> QED BY <1>5, <1>6, <1>7, SuitsOn

LEMMA DoSuits ==
  ASSUME NEW t, NEW a \in Stage, Plain(a), t.offset > a.p
  PROVE  Suits(dowhile_rule, t, a, a)
<1>1. PICK b \in Stage : /\ Plain(b) /\ Takes("cs_start_do_while", t, a, b)
                         /\ Takes("cs_end_do_while", t, Up(b, 1), a)
                         /\ Takes("cs_force_eval_do_while", t, b, b)
  BY LevelActs DEF EntryKind
<1>2. PICK c \in Stage : Plain(c) /\ c = Up(b, 1) /\ Takes("expr", t, b, c)
  BY <1>1, ValueActs DEF Giving
<1>3. /\ Takes("statement", t, b, b) /\ Takes("WHILE", t, b, b)
      /\ Takes("(", t, b, b) /\ Takes(")", t, c, c) /\ Takes(";", t, c, c)
      /\ Takes("do_while_iterations", t, a, a)
  BY <1>1, <1>2, KeepActs DEF Keepers
<1>4. "cs_start_do_while" \in Name /\ "statement" \in Name /\ "WHILE" \in Name /\
      "cs_force_eval_do_while" \in Name /\ "(" \in Name /\ "expr" \in Name /\
      ")" \in Name /\ ";" \in Name /\ "cs_end_do_while" \in Name /\
      "do_while_iterations" \in Name
  BY DEF Name, Idle, Giving, Dropping
<1>5. Suits(<<"cs_start_do_while", "statement", "WHILE", "cs_force_eval_do_while", "(">>,
            t, a, b)
  BY <1>1, <1>3, <1>4, Suits5
<1>6. Suits(<<"expr", ")", ";", "cs_end_do_while", "do_while_iterations">>, t, b, a)
  BY <1>1, <1>2, <1>3, <1>4, Suits5
<1> QED BY <1>5, <1>6, Halves10 DEF dowhile_rule

LEMMA SwitchSuits ==
  ASSUME NEW t, NEW a \in Stage, Plain(a)
  PROVE  Suits(<<"(", "expr", ")", "cs_switch_start", "{", "case_list", "}",
                 "cs_switch_end">>, t, a, a)
<1>1. PICK b \in Stage : /\ Plain(b) /\ In("loop", b) /\ Takes("cs_switch_start", t, Up(a, 1), b)
                         /\ Takes("cs_switch_end", t, b, a)
  BY LevelActs DEF EntryKind
<1>2. PICK c \in Stage : Plain(c) /\ c = Up(a, 1) /\ Takes("expr", t, a, c)
  BY ValueActs DEF Giving
<1>3. /\ Takes("(", t, a, a) /\ Takes(")", t, c, c) /\ Takes("{", t, b, b) /\ Takes("}", t, b, b)
  BY <1>1, <1>2, KeepActs DEF Keepers
<1>4. Takes("case_list", t, b, b)
  BY <1>1 DEF Takes
<1>5. "(" \in Name /\ "expr" \in Name /\ ")" \in Name /\ "cs_switch_start" \in Name /\
      "{" \in Name /\ "case_list" \in Name /\ "}" \in Name /\ "cs_switch_end" \in Name
  BY DEF Name, Idle, Giving, Dropping
<1>6. Suits(<<"(", "expr", ")", "cs_switch_start">>, t, a, b)
  BY <1>1, <1>2, <1>3, <1>5, Suits4
<1>7. Suits(<<"{", "case_list", "}", "cs_switch_end">>, t, b, a)
  BY <1>1, <1>3, <1>4, <1>5, Suits4
<1> QED BY <1>6, <1>7, Halves8

LEMMA BreakSuits ==
  ASSUME NEW t, NEW a \in Stage, Plain(a)
  PROVE  Suits(<<";", "cs_break_continue">>, t, a, a)
<1>1. Takes(";", t, a, a) /\ Takes("cs_break_continue", t, a, a)
  BY KeepActs DEF Keepers
<1>2. ";" \in Name /\ "cs_break_continue" \in Name
  BY DEF Name, Idle
<1> QED BY <1>1, <1>2, Suits2

\* Rules of an expression and a symbol that takes its value.
LEMMA TakenSuits ==
  ASSUME NEW t, NEW a \in Stage, Plain(a)
  PROVE  /\ Suits(<<"expr", ";", "cs_return">>, t, a, a)
         /\ Suits(<<"expr", ";", "drop">>, t, a, a)
<1>1. PICK c \in Stage : Plain(c) /\ c = Up(a, 1) /\ Takes("expr", t, a, c)
  BY ValueActs DEF Giving
<1>2. Takes(";", t, c, c) /\ Takes("cs_return", t, c, a) /\ Takes("drop", t, c, a)
  BY <1>1, KeepActs, DropActs DEF Keepers
<1>3. "expr" \in Name /\ ";" \in Name /\ "cs_return" \in Name /\ "drop" \in Name
  BY DEF Name, Idle, Giving, Dropping
<1> QED BY <1>1, <1>2, <1>3, Suits3

\* The body of a function, from a place in a call or none to one or none.
LEMMA BodySuits ==
  ASSUME NEW t, NEW u \in Stage, NEW a \in Stage, NEW z \in Stage, Plain(a),
         Takes("(", t, u, a), Takes("}", t, a, z)
  PROVE  Suits(function_body, t, u, z)
<1>1. Takes(")", t, a, a) /\ Takes("{", t, a, a) /\ Takes("statement_list", t, a, a)
  BY KeepActs DEF Keepers
<1>2. "(" \in Name /\ ")" \in Name /\ "{" \in Name /\ "statement_list" \in Name /\ "}" \in Name
  BY DEF Name, Idle
<1>3. Suits(<<"(", ")", "{", "statement_list", "}">>, t, u, z)
  BY <1>1, <1>2, Suits5
<1> QED BY <1>3 DEF function_body

LEMMA DeclarationSuits ==
  ASSUME NEW t, NEW a \in Stage, Plain(a)
  PROVE  Suits(<<"start_function_decleration">> \o function_body \o
               <<"end_function_decleration">>, t, a, a)
<1>1. PICK b \in Stage : /\ Plain(b) /\ Takes("start_function_decleration", t, a, b)
                         /\ Takes("end_function_decleration", t, b, a)
  BY LevelActs DEF EntryKind
<1>2. Takes("(", t, b, b) /\ Takes("}", t, b, b)
  BY <1>1, KeepActs DEF Keepers
<1>3. Suits(function_body, t, b, b)
  BY <1>1, <1>2, BodySuits
<1>4. "start_function_decleration" \in Name /\ "end_function_decleration" \in Name
  BY DEF Name
<1>5. Suits(<<"start_function_decleration">>, t, a, b) /\ Suits(<<"end_function_decleration">>, t, b, a)
  BY <1>1, <1>4, Suits1
<1>6. Suits(<<"start_function_decleration">> \o function_body, t, a, b)
  BY <1>3, <1>5, SuitsOn
<1> QED BY <1>5, <1>6, SuitsOn

\* The stage with another place in a call.
LEMMA ToParts ==
  ASSUME NEW a \in Stage, NEW w \in Seq(Mark), NEW m \in Moment, NEW o \in Nat
  PROVE  /\ To(a, w, m, o) \in Stage /\ To(a, w, m, o).w = w /\ To(a, w, m, o).e = a.e
         /\ To(a, w, m, o).n = a.n /\ To(a, w, m, o).l = a.l /\ To(a, w, m, o).p = a.p
         /\ To(a, w, m, o).f = a.f /\ To(a, w, m, o).m = m /\ To(a, w, m, o).o = o
         /\ \A v, k, q : To(To(a, w, m, o), v, k, q) = To(a, v, k, q)
         /\ To(a, a.w, a.m, a.o) = a
<1>1. a = StageOf(a.w, a.e, a.n, a.l, a.p, a.f, a.m, a.o)
  BY StageParts
<1> QED BY <1>1 DEF Stage, Fields, StageOf, To

\* A declaration that call_user_function has sought.
LEMMA CalledSuits ==
  ASSUME NEW t, NEW a \in Stage, t.offset \in Nat
  PROVE  Suits(<<"restore_token">> \o function_body \o <<"terminate_phpparse">>, t,
               To(a, a.w, "restored", t.offset), To(a, a.w, "closed", 0))
<1>1. PICK w \in Seq(Mark) : w = a.w
  BY StageParts
<1>2. PICK r \in Stage : r = To(a, w, "restored", t.offset) /\ r.m = "restored" /\ r.o = t.offset
                         /\ r.w = w /\ To(r, w, "plain", 0) = To(a, w, "plain", 0)
  <2>1. "restored" \in Moment
    BY DEF Moment
  <2>2. PICK g : g = To(a, w, "restored", t.offset)
    OBVIOUS
  <2> QED BY <2>1, <2>2, ToParts
<1>3. PICK b \in Stage : b = To(a, w, "plain", 0) /\ b.m = "plain" /\ b.o = 0
                         /\ b.w = w /\ To(b, w, "closing", 0) = To(a, w, "closing", 0)
  <2>1. "plain" \in Moment
    BY DEF Moment
  <2>2. PICK g : g = To(a, w, "plain", 0)
    OBVIOUS
  <2> QED BY <2>1, <2>2, ToParts
<1>4. PICK c \in Stage : c = To(a, w, "closing", 0) /\ c.m = "closing" /\ c.o = 0
                         /\ c.w = w /\ To(c, w, "closed", 0) = To(a, w, "closed", 0)
  <2>1. "closing" \in Moment
    BY DEF Moment
  <2>2. PICK g : g = To(a, w, "closing", 0)
    OBVIOUS
  <2> QED BY <2>1, <2>2, ToParts
<1>5. PICK z \in Stage : z = To(a, w, "closed", 0)
  <2>1. "closed" \in Moment /\ 0 \in Nat
    BY DEF Moment
  <2> QED BY <2>1, ToParts, Zenon DEF Plain
<1>6. Takes("restore_token", t, r, b)
  BY <1>2, <1>3, Zenon DEF Takes
<1>7. Plain(b) /\ Takes("(", t, b, b)
  BY <1>3, KeepActs DEF Keepers, Plain
<1>8. Takes("}", t, b, c)
  BY <1>3, <1>4, <1>7, Zenon DEF Takes
<1>9. Takes("terminate_phpparse", t, c, z)
  BY <1>4, <1>5, Zenon DEF Takes
<1>10. Suits(function_body, t, b, c)
  BY <1>7, <1>8, BodySuits
<1>11. "restore_token" \in Name /\ "terminate_phpparse" \in Name
  BY DEF Name, Idle
<1>12. Suits(<<"restore_token">>, t, r, b) /\ Suits(<<"terminate_phpparse">>, t, c, z)
  BY <1>6, <1>9, <1>11, Suits1
<1>13. Suits(<<"restore_token">> \o function_body, t, r, c)
  BY <1>10, <1>12, SuitsOn
<1>14. Suits(<<"restore_token">> \o function_body \o <<"terminate_phpparse">>, t, r, z)
  BY <1>12, <1>13, SuitsOn
<1> QED BY <1>1, <1>2, <1>5, <1>14

LEMMA ElseifSuits ==
  ASSUME NEW t, NEW a \in Stage, Plain(a), In("if", a)
  PROVE  Suits(<<"(", "cs_elseif_start_evaluate", "expr", "cs_elseif_end_evaluate", ")",
                 "cs_start_elseif", "statement", "elseif_list">>, t, a, a)
<1>1. PICK b \in Stage : /\ Plain(b) /\ b = Into("other", a)
                         /\ Takes("cs_elseif_start_evaluate", t, a, b)
  BY LevelActs DEF EntryKind
<1>2. PICK c \in Stage : Plain(c) /\ c = Up(b, 1) /\ Takes("expr", t, b, c)
  BY <1>1, ValueActs DEF Giving
<1>3. PICK d \in Stage : Plain(d) /\ d = Up(a, 1) /\ In("if", d)
  BY ValueActs
<1>4. Takes("cs_elseif_end_evaluate", t, c, d)
  <2>1. /\ Trades(0, 0, Up(b, 1 + 0), Up(a, 1 + 0)) /\ Leaves("other", Up(b, 1 + 0), Up(a, 1 + 0))
    BY <1>1, UpEnters DEF EntryKind
  <2>2. 1 + 0 = 1
    OBVIOUS
  <2>3. Trades(0, 0, c, d) /\ Leaves("other", c, d)
    BY <1>2, <1>3, <2>1, <2>2
  <2> QED BY <2>3 DEF Takes
<1>5. Takes("cs_start_elseif", t, d, a)
  BY <1>3, DropActs
<1>6. /\ Takes("(", t, a, a) /\ Takes(")", t, d, d) /\ Takes("statement", t, a, a)
  BY <1>3, KeepActs DEF Keepers
<1>7. Takes("elseif_list", t, a, a)
  BY DEF Takes
<1>8. /\ "(" \in Name /\ "cs_elseif_start_evaluate" \in Name /\ "expr" \in Name
      /\ "cs_elseif_end_evaluate" \in Name /\ ")" \in Name /\ "cs_start_elseif" \in Name
      /\ "statement" \in Name /\ "elseif_list" \in Name
  BY DEF Name, Idle, Giving, Dropping
<1>9. Suits(<<"(", "cs_elseif_start_evaluate", "expr", "cs_elseif_end_evaluate">>, t, a, d)
  BY <1>1, <1>2, <1>3, <1>4, <1>6, <1>8, Suits4
<1>10. Suits(<<")", "cs_start_elseif", "statement", "elseif_list">>, t, d, a)
  BY <1>3, <1>5, <1>6, <1>7, <1>8, Suits4
<1> QED BY <1>9, <1>10, Halves8

LEMMA ElseSuits ==
  ASSUME NEW t, NEW a \in Stage, Plain(a), In("if", a)
  PROVE  Suits(<<"cs_start_else", "statement">>, t, a, a)
<1>1. Takes("statement", t, a, a)
  BY KeepActs DEF Keepers
<1>2. Takes("cs_start_else", t, a, a)
  BY DEF Takes
<1>3. "cs_start_else" \in Name /\ "statement" \in Name
  BY DEF Name, Idle
<1> QED BY <1>1, <1>2, <1>3, Suits2

LEMMA CaseSuits ==
  ASSUME NEW t, NEW a \in Stage, Plain(a), In("loop", a)
  PROVE  Suits(<<"expr", ":", "cs_switch_case_pre", "statement_list", "cs_switch_case_post",
                 "case_list">>, t, a, a)
<1>1. PICK c \in Stage : Plain(c) /\ c = Up(a, 1) /\ Takes("expr", t, a, c)
  BY ValueActs DEF Giving
<1>2. Takes("cs_switch_case_pre", t, c, a)
  BY <1>1, DropActs
<1>3. Takes(":", t, c, c) /\ Takes("statement_list", t, a, a)
  BY <1>1, KeepActs DEF Keepers
<1>4. Takes("cs_switch_case_post", t, a, a) /\ Takes("case_list", t, a, a)
  BY DEF Takes
<1>5. /\ "expr" \in Name /\ ":" \in Name /\ "cs_switch_case_pre" \in Name
      /\ "statement_list" \in Name /\ "cs_switch_case_post" \in Name /\ "case_list" \in Name
  BY DEF Name, Idle, Giving, Dropping
<1>6. Suits(<<"expr", ":", "cs_switch_case_pre">>, t, a, a)
  BY <1>1, <1>2, <1>3, <1>5, Suits3
<1>7. Suits(<<"statement_list", "cs_switch_case_post", "case_list">>, t, a, a)
  BY <1>3, <1>4, <1>5, Suits3
<1>8. <<"expr", ":", "cs_switch_case_pre", "statement_list", "cs_switch_case_post", "case_list">>
      = <<"expr", ":", "cs_switch_case_pre">> \o
        <<"statement_list", "cs_switch_case_post", "case_list">>
  OBVIOUS
<1> QED BY <1>6, <1>7, <1>8, SuitsOn

LEMMA DefaultSuits ==
  ASSUME NEW t, NEW a \in Stage, Plain(a), In("loop", a)
  PROVE  Suits(<<":", "cs_switch_default_pre", "statement_list", "cs_switch_case_post">>, t, a, a)
<1>1. Takes(":", t, a, a) /\ Takes("cs_switch_default_pre", t, a, a) /\ Takes("statement_list", t, a, a)
  BY KeepActs DEF Keepers
<1>2. Takes("cs_switch_case_post", t, a, a)
  BY DEF Takes
<1>3. /\ ":" \in Name /\ "cs_switch_default_pre" \in Name
      /\ "statement_list" \in Name /\ "cs_switch_case_post" \in Name
  BY DEF Name, Idle
<1> QED BY <1>1, <1>2, <1>3, Suits4

\* Rules that leave one value.
LEMMA ValueSuits ==
  ASSUME NEW t, NEW a \in Stage, Plain(a), NEW b, b = Up(a, 1)
  PROVE  /\ \A x \in Giving : Suits(<<x>>, t, a, b)
         /\ Suits(<<"primary", "operators">>, t, a, b)
<1>1. b \in Stage /\ Plain(b) /\ \A x \in Giving : Takes(x, t, a, b)
  BY ValueActs
<1>2. Takes("operators", t, b, b)
  BY DropActs
<1>3. Giving \subseteq Name /\ "operators" \in Name /\ "primary" \in Giving
  BY DEF Name, Giving
<1> QED BY <1>1, <1>2, <1>3, Suits1, Suits2

LEMMA ListSuits ==
  ASSUME NEW t, NEW a \in Stage, NEW b \in Stage, NEW z \in Stage,
         Takes("statement", t, a, b), Takes("statement_list", t, b, z)
  PROVE  Suits(<<"statement", "statement_list">>, t, a, z)
<1>1. "statement" \in Name /\ "statement_list" \in Name
  BY DEF Name, Idle
<1> QED BY <1>1, Suits2

\* && and ||, behind their first operand.
LEMMA AndSuits ==
  ASSUME NEW t, NEW a \in Stage, Plain(a), NEW b, b = Up(a, 1)
  PROVE  /\ Suits(<<"cs_pre_boolean_and", "primary", "cs_post_boolean_and", "operators">>, t, b, b)
         /\ Suits(<<"cs_pre_boolean_or", "primary", "cs_post_boolean_or", "operators">>, t, b, b)
<1>1. b \in Stage /\ Plain(b) /\ Takes("operators", t, b, b)
  BY ValueActs, DropActs
<1>2. PICK i \in Stage : i = Into("other", a) /\ Plain(i)
  BY IntoParts DEF EntryKind
<1>3. PICK c \in Stage, d \in Stage : c = Up(i, 1) /\ d = Up(i, 2) /\ Takes("primary", t, c, d)
  <2>1. Up(i, 1) \in Stage /\ Up(i, 2) \in Stage
    BY UpParts
  <2>2. Takes("primary", t, Up(i, 1), Up(i, 1 + 1)) /\ 1 + 1 = 2
    BY GiveActs DEF Giving
  <2> QED BY <2>1, <2>2
<1>4. Trades(1, 1, b, c) /\ Enters("other", b, c)
  <2>1. /\ Trades(1, 1, Up(a, 0 + 1), Up(i, 0 + 1)) /\ Enters("other", Up(a, 0 + 1), Up(i, 0 + 1))
    BY <1>2, UpEnters DEF EntryKind
  <2>2. 0 + 1 = 1
    OBVIOUS
  <2> QED BY <1>3, <2>1, <2>2
<1>5. Trades(2, 1, d, b) /\ Leaves("other", d, b)
  <2>1. /\ Trades(2, 1, Up(i, 0 + 2), Up(a, 0 + 1)) /\ Leaves("other", Up(i, 0 + 2), Up(a, 0 + 1))
    BY <1>2, UpEnters DEF EntryKind
  <2>2. 0 + 1 = 1 /\ 0 + 2 = 2
    OBVIOUS
  <2> QED BY <1>3, <2>1, <2>2
<1>6. /\ Takes("cs_pre_boolean_and", t, b, c) /\ Takes("cs_post_boolean_and", t, d, b)
      /\ Takes("cs_pre_boolean_or", t, b, c) /\ Takes("cs_post_boolean_or", t, d, b)
  BY <1>4, <1>5, Zenon DEF Takes
<1>7. /\ "cs_pre_boolean_and" \in Name /\ "primary" \in Name /\ "cs_post_boolean_and" \in Name
      /\ "operators" \in Name /\ "cs_pre_boolean_or" \in Name /\ "cs_post_boolean_or" \in Name
  BY DEF Name, Giving
<1> QED BY <1>1, <1>3, <1>6, <1>7, Suits4

LEMMA QuestionSuits ==
  ASSUME NEW t, NEW a \in Stage, Plain(a), NEW b, b = Up(a, 1)
  PROVE  Suits(<<"cs_questionmark_op_pre_expr1", "expr", ":", "cs_questionmark_op_pre_expr2",
                 "expr", "cs_questionmark_op_post_expr2">>, t, b, b)
<1>1. b \in Stage /\ Plain(b)
  BY ValueActs
<1>2. PICK i \in Stage : i = Into("other", a) /\ Plain(i) /\ In("other", i)
  BY IntoParts DEF EntryKind
<1>3. PICK c \in Stage, d \in Stage, g \in Stage :
        /\ c = Up(i, 1) /\ d = Up(i, 2) /\ g = Up(i, 3) /\ Plain(d) /\ In("other", d)
        /\ Takes("expr", t, c, d) /\ Takes("expr", t, d, g)
  <2>1. Up(i, 1) \in Stage /\ Up(i, 2) \in Stage /\ Up(i, 3) \in Stage /\ Plain(Up(i, 2))
        /\ In("other", Up(i, 2))
    BY <1>2, UpParts, UpIn
  <2>2. /\ Takes("expr", t, Up(i, 1), Up(i, 1 + 1)) /\ 1 + 1 = 2
        /\ Takes("expr", t, Up(i, 2), Up(i, 2 + 1)) /\ 2 + 1 = 3
    BY GiveActs DEF Giving
  <2> QED BY <2>1, <2>2
<1>4. Trades(1, 1, b, c) /\ Enters("other", b, c)
  <2>1. /\ Trades(1, 1, Up(a, 0 + 1), Up(i, 0 + 1)) /\ Enters("other", Up(a, 0 + 1), Up(i, 0 + 1))
    BY <1>2, UpEnters DEF EntryKind
  <2>2. 0 + 1 = 1
    OBVIOUS
  <2> QED BY <1>3, <2>1, <2>2
<1>5. Trades(3, 1, g, b) /\ Leaves("other", g, b)
  <2>1. /\ Trades(3, 1, Up(i, 0 + 3), Up(a, 0 + 1)) /\ Leaves("other", Up(i, 0 + 3), Up(a, 0 + 1))
    BY <1>2, UpEnters DEF EntryKind
  <2>2. 0 + 1 = 1 /\ 0 + 3 = 3
    OBVIOUS
  <2> QED BY <1>3, <2>1, <2>2
<1>6. /\ Takes("cs_questionmark_op_pre_expr1", t, b, c)
      /\ Takes("cs_questionmark_op_pre_expr2", t, d, d)
      /\ Takes("cs_questionmark_op_post_expr2", t, g, b)
  BY <1>3, <1>4, <1>5, Zenon DEF Takes
<1>7. Takes(":", t, d, d)
  BY <1>3, KeepActs DEF Keepers
<1>8. /\ "cs_questionmark_op_pre_expr1" \in Name /\ "expr" \in Name /\ ":" \in Name
      /\ "cs_questionmark_op_pre_expr2" \in Name /\ "cs_questionmark_op_post_expr2" \in Name
  BY DEF Name, Idle, Giving
<1>9. Suits(<<"cs_questionmark_op_pre_expr1", "expr", ":">>, t, b, d)
  BY <1>1, <1>3, <1>6, <1>7, <1>8, Suits3
<1>10. Suits(<<"cs_questionmark_op_pre_expr2", "expr", "cs_questionmark_op_post_expr2">>, t, d, b)
  BY <1>1, <1>3, <1>6, <1>8, Suits3
<1>11. <<"cs_questionmark_op_pre_expr1", "expr", ":", "cs_questionmark_op_pre_expr2",
         "expr", "cs_questionmark_op_post_expr2">>
       = <<"cs_questionmark_op_pre_expr1", "expr", ":">> \o
         <<"cs_questionmark_op_pre_expr2", "expr", "cs_questionmark_op_post_expr2">>
  OBVIOUS
<1> QED BY <1>9, <1>10, <1>11, SuitsOn

\* Behind a token whose offset is kept.
Behind(a) == To(a, Push(OffsetAbove(a.p), a.w), "plain", 0)

LEMMA BehindParts ==
  ASSUME NEW a \in Stage, Plain(a), NEW b, b = Behind(a), NEW t
  PROVE  /\ b \in Stage /\ Plain(b) /\ b.w = Push(OffsetAbove(a.p), a.w)
         /\ OffsetAbove(a.p) \in Mark /\ Off(OffsetAbove(a.p))
         /\ b.e = a.e /\ b.n = a.n /\ b.l = a.l /\ b.p = a.p /\ b.f = a.f
         /\ Takes("offset of ;", t, a, b) /\ Takes("offset of )", t, a, b)
<1>1. PICK x \in Mark : x = OffsetAbove(a.p) /\ Off(x)
  BY StageParts, MarkTypes
<1>2. PICK w \in Seq(Mark) : w = Push(x, a.w)
  <2>1. a.w \in Seq(Mark)
    BY StageParts
  <2>2. Push(x, a.w) \in Seq(Mark)
    BY <2>1, Pushed, Zenon
  <2> QED BY <2>2
<1>3. b = To(a, w, "plain", 0)
  BY <1>1, <1>2 DEF Behind
<1>4. "plain" \in Moment /\ 0 \in Nat
  BY DEF Moment
<1>5. /\ b \in Stage /\ b.w = w /\ b.e = a.e /\ b.n = a.n /\ b.l = a.l /\ b.p = a.p
      /\ b.f = a.f /\ b.m = "plain" /\ b.o = 0
  BY <1>3, <1>4, ToParts
<1>6. b = To(a, Push(OffsetAbove(a.p), a.w), "plain", 0)
  BY DEF Behind
<1>7. Takes("offset of ;", t, a, b) /\ Takes("offset of )", t, a, b)
  BY <1>6, Zenon DEF Takes
<1> QED BY <1>1, <1>2, <1>5, <1>7, Zenon DEF Plain

LEMMA Parts14 ==
  ASSUME NEW t, NEW a, NEW b, NEW c, NEW d, NEW z,
         NEW x1, NEW x2, NEW x3, NEW x4, NEW x5, NEW x6, NEW x7,
         NEW x8, NEW x9, NEW x10, NEW x11, NEW x12, NEW x13, NEW x14,
         Suits(<<x1>>, t, a, b), Suits(<<x2, x3, x4, x5, x6>>, t, b, c),
         Suits(<<x7, x8, x9, x10>>, t, c, d),
         Suits(<<x11, x12, x13, x14>>, t, d, z)
  PROVE  Suits(<<x1, x2, x3, x4, x5, x6, x7, x8, x9, x10, x11, x12, x13, x14>>, t, a, z)
<1>1. Suits(<<x7, x8, x9, x10, x11, x12, x13, x14>>, t, c, z)
  BY Halves8
<1>2. <<x2, x3, x4, x5, x6, x7, x8, x9, x10, x11, x12, x13, x14>>
      = <<x2, x3, x4, x5, x6>> \o <<x7, x8, x9, x10, x11, x12, x13, x14>>
  BY SMTT(60)
<1>3. Suits(<<x2, x3, x4, x5, x6, x7, x8, x9, x10, x11, x12, x13, x14>>, t, b, z)
  BY <1>1, <1>2, SuitsOn
<1>4. <<x1, x2, x3, x4, x5, x6, x7, x8, x9, x10, x11, x12, x13, x14>>
      = <<x1>> \o <<x2, x3, x4, x5, x6, x7, x8, x9, x10, x11, x12, x13, x14>>
  BY SMTT(60)
<1> QED BY <1>3, <1>4, SuitsOn

\* The first part of a for: its expressions are among the values behind it.
LEMMA HeaderSuits ==
  ASSUME NEW t, NEW b \in Stage, Plain(b), In("loop", b)
  PROVE  \E x \in Mark, y \in Mark, c \in Stage :
           /\ Off(x) /\ Off(y) /\ Plain(c) /\ c = To(b, Push(x, Push(y, b.w)), "plain", 0)
           /\ \E d : /\ Suits(<<"(", "for_expr", "for_pre_expr2", "offset of ;", "for_expr">>,
                             t, b, d)
                    /\ Suits(<<"for_pre_expr3", "offset of ;", "for_expr",
                               "for_pre_statement">>, t, d, c)
<1>1. PICK b1 \in Stage : b1 = Up(b, 1) /\ Takes("for_expr", t, b, b1)
                          /\ Takes("for_pre_expr2", t, b1, b)
  BY ValueActs, DropActs DEF Giving
<1>2. PICK y \in Mark : y = OffsetAbove(b.p) /\ Off(y)
  BY BehindParts
<1>3. PICK c1 \in Stage : /\ c1 = Behind(b) /\ Plain(c1) /\ c1.w = Push(y, b.w)
                          /\ c1.e = b.e /\ c1.n = b.n /\ c1.l = b.l /\ c1.p = b.p /\ c1.f = b.f
                          /\ Takes("offset of ;", t, b, c1)
  BY <1>2, BehindParts
<1>4. PICK c2 \in Stage : /\ c2 = Up(c1, 1) /\ Plain(c2) /\ Takes("for_expr", t, c1, c2)
                          /\ c2.w = Push(Value, c1.w)
                          /\ c2.e = b.e /\ c2.n = b.n /\ c2.l = b.l /\ c2.p = b.p /\ c2.f = b.f
  <2>1. Up(c1, 1) \in Stage /\ Plain(Up(c1, 1)) /\ Takes("for_expr", t, c1, Up(c1, 1))
    BY <1>3, ValueActs DEF Giving
  <2>2. /\ Up(c1, 1).w = Stacked(1, c1.w) /\ Up(c1, 1).e = c1.e /\ Up(c1, 1).n = c1.n
        /\ Up(c1, 1).l = c1.l /\ Up(c1, 1).p = c1.p /\ Up(c1, 1).f = c1.f
    BY UpParts
  <2>3. Stacked(1, c1.w) = Push(Value, c1.w)
    BY DEF Stacked
  <2> QED BY <1>3, <2>1, <2>2, <2>3, Zenon
<1>5. PICK x \in Mark : x = OffsetAbove(c2.p) /\ Off(x)
  BY <1>4, BehindParts
<1>6. PICK c3 \in Stage : /\ c3 = Behind(c2) /\ Plain(c3) /\ c3.w = Push(x, c2.w)
                          /\ c3.e = b.e /\ c3.n = b.n /\ c3.l = b.l /\ c3.p = b.p /\ c3.f = b.f
                          /\ Takes("offset of ;", t, c2, c3)
  BY <1>4, <1>5, BehindParts
<1>7. PICK c4 \in Stage : /\ c4 = Up(c3, 1) /\ Plain(c4) /\ Takes("for_expr", t, c3, c4)
                          /\ c4.w = Push(Value, c3.w)
                          /\ c4.e = b.e /\ c4.n = b.n /\ c4.l = b.l /\ c4.p = b.p /\ c4.f = b.f
  <2>1. Up(c3, 1) \in Stage /\ Plain(Up(c3, 1)) /\ Takes("for_expr", t, c3, Up(c3, 1))
    BY <1>6, ValueActs DEF Giving
  <2>2. /\ Up(c3, 1).w = Stacked(1, c3.w) /\ Up(c3, 1).e = c3.e /\ Up(c3, 1).n = c3.n
        /\ Up(c3, 1).l = c3.l /\ Up(c3, 1).p = c3.p /\ Up(c3, 1).f = c3.f
    BY UpParts
  <2>3. Stacked(1, c3.w) = Push(Value, c3.w)
    BY DEF Stacked
  <2> QED BY <1>6, <2>1, <2>2, <2>3, Zenon
<1>8. PICK w \in Seq(Mark) : w = Push(x, Push(y, b.w))
  <2>1. b.w \in Seq(Mark)
    BY StageParts
  <2>2. Push(y, b.w) \in Seq(Mark)
    BY <2>1, Pushed, Zenon
  <2>3. Push(x, Push(y, b.w)) \in Seq(Mark)
    BY <2>2, Pushed, Zenon
  <2> QED BY <2>3
<1>9. PICK c \in Stage : c = To(b, w, "plain", 0) /\ Plain(c)
  <2>1. "plain" \in Moment /\ 0 \in Nat
    BY DEF Moment
  <2>2. PICK r : r = To(b, w, "plain", 0)
    OBVIOUS
  <2> QED BY <2>1, <2>2, ToParts DEF Plain
<1>10. c = To(c4, w, "plain", 0)
  BY <1>7, <1>9 DEF To
<1>11. HeaderLeft(c4, c)
  <2>1. b.w \in Seq(Mark)
    BY StageParts
  <2>2. c4.w = Push(Value, Push(x, Push(Value, Push(y, b.w))))
    BY <1>3, <1>4, <1>6, <1>7
  <2> QED BY <1>2, <1>5, <1>7, <1>8, <1>10, <2>1, <2>2, Zenon DEF HeaderLeft
<1>12. Takes("for_pre_statement", t, c4, c) /\ Takes("for_pre_expr3", t, c2, c2)
  <2>1. In("loop", c2) /\ In("loop", c4)
    BY <1>4, <1>7 DEF In
  <2> QED BY <1>4, <1>11, <2>1, Zenon DEF Takes
<1>13. Takes("(", t, b, b)
  BY KeepActs DEF Keepers
<1>14. /\ "(" \in Name /\ "for_expr" \in Name /\ "for_pre_expr2" \in Name
       /\ "offset of ;" \in Name /\ "for_pre_expr3" \in Name /\ "for_pre_statement" \in Name
  BY DEF Name, Idle, Giving, Dropping
<1>15. Suits(<<"(", "for_expr", "for_pre_expr2", "offset of ;", "for_expr">>, t, b, c2)
  BY <1>1, <1>3, <1>4, <1>13, <1>14, Suits5
<1>16. Suits(<<"for_pre_expr3", "offset of ;", "for_expr", "for_pre_statement">>, t, c2, c)
  BY <1>4, <1>6, <1>7, <1>12, <1>14, Suits4
<1> QED BY <1>2, <1>5, <1>8, <1>9, <1>15, <1>16, Zenon

\* A for starts again at the stage of its token.
ForStart(z, t) ==
  IF t.type = "CONTINUED_FOR"
  THEN StageOf(z.w, z.e, z.n, Push(t.offset, z.l), t.offset, z.f, "repeated", t.offset) ELSE z
ForLevel(z, t) ==
  IF t.type = "CONTINUED_FOR"
  THEN StageOf(z.w, z.e, z.n, Push(t.offset, z.l), t.offset, z.f, "plain", 0) ELSE z

LEMMA ForStages ==
  ASSUME NEW t, NEW z \in Stage, Plain(z), t.offset \in Nat,
         NEW s, s = ForStart(z, t), NEW y, y = ForLevel(z, t)
  PROVE  /\ s \in Stage /\ y \in Stage /\ Plain(y)
         /\ (Plain(s) \/ (s.m = "repeated" /\ s.o = t.offset))
         /\ s.w = z.w /\ s.e = z.e /\ s.n = z.n /\ s.f = z.f /\ Same(s, y)
         /\ y.w = z.w /\ y.e = z.e /\ y.n = z.n /\ y.f = z.f
         /\ IF t.type = "CONTINUED_FOR" THEN y.l = Push(t.offset, z.l) /\ y.p = t.offset
            ELSE y.l = z.l /\ y.p = z.p
<1>1. CASE t.type = "CONTINUED_FOR"
  <2>1. PICK w \in Seq(Mark), e \in Seq(SavedFor), n \in Nat, d \in Seq(Int), f \in Seq(FnType) :
          w = z.w /\ e = z.e /\ n = z.n /\ d = z.l /\ f = z.f
    BY StageParts
  <2>2. PICK x \in Nat : x = t.offset
    OBVIOUS
  <2>3. PICK l \in Seq(Int) : l = Push(x, d) /\ l[1] = x
    <3>1. x \in Int
      OBVIOUS
    <3> QED BY <3>1, Pushed, ZenonT(40)
  <2>4. PICK m \in Moment, k \in Moment : m = "repeated" /\ k = "plain"
    BY DEF Moment
  <2>5. s = StageOf(w, e, n, l, x, f, m, x) /\ y = StageOf(w, e, n, l, x, f, k, 0)
    BY <1>1, <2>1, <2>2, <2>3, <2>4 DEF ForStart, ForLevel
  <2>6. l # <<>> => l[1] <= x
    BY <2>3
  <2>7. /\ s \in Stage /\ s.w = w /\ s.e = e /\ s.n = n /\ s.l = l /\ s.p = x /\ s.f = f
        /\ s.m = m /\ s.o = x
    BY <2>5, <2>6 DEF Stage, Fields, FnType, StageOf
  <2>8. /\ y \in Stage /\ y.w = w /\ y.e = e /\ y.n = n /\ y.l = l /\ y.p = x /\ y.f = f
        /\ y.m = k /\ y.o = 0
    BY <2>5, <2>6 DEF Stage, Fields, FnType, StageOf
  <2> QED BY <1>1, <2>1, <2>2, <2>3, <2>4, <2>7, <2>8 DEF Plain, Same
<1>2. CASE t.type # "CONTINUED_FOR"
  BY <1>2 DEF ForStart, ForLevel, Same
<1> QED BY <1>1, <1>2

LEMMA ForSuits ==
  ASSUME NEW t, NEW z \in Stage, Plain(z), t.offset \in Nat, t.offset > z.p
  PROVE  Suits(for_rule, t, ForStart(z, t), z)
<1>1. PICK s \in Stage, y \in Stage :
         /\ s = ForStart(z, t) /\ y = ForLevel(z, t) /\ Plain(y)
         /\ (Plain(s) \/ (s.m = "repeated" /\ s.o = t.offset))
         /\ s.w = z.w /\ s.e = z.e /\ s.n = z.n /\ s.f = z.f /\ Same(s, y)
         /\ y.w = z.w /\ y.e = z.e /\ y.n = z.n /\ y.f = z.f
         /\ IF t.type = "CONTINUED_FOR" THEN y.l = Push(t.offset, z.l) /\ y.p = t.offset
            ELSE y.l = z.l /\ y.p = z.p
  BY ForStages
<1>2. PICK b \in Stage : /\ Plain(b) /\ In("loop", b) /\ b.w = z.w /\ b.p = y.p /\ b.l = y.l
                         /\ b.f = z.f /\ b.n = z.n + More("loop")
                         /\ b.e = Push(For("loop", b.n), z.e)
  <2>1. Into("loop", y) \in Stage
    BY IntoParts DEF EntryKind
  <2>2. PICK b \in Stage : b = Into("loop", y)
    BY <2>1
  <2>3. /\ Plain(b) /\ In("loop", b) /\ b.w = y.w /\ b.p = y.p /\ b.l = y.l
        /\ b.f = y.f /\ b.n = y.n + More("loop")
        /\ b.e = Push(For("loop", y.n + More("loop")), y.e)
    BY <2>2, IntoParts DEF EntryKind
  <2> QED BY <1>1, <2>3
<1>3. Takes("for_pre_expr1", t, s, b)
  <2>1. Same(s, b) /\ Enters("loop", s, b)
    BY <1>1, <1>2 DEF Same, Enters
  <2>2. Gives(0, 0, s, b)
    <3>1. s.w \in Seq(Mark) /\ b.w = s.w
      BY <1>1, <1>2, StageParts
    <3>2. Stacked(0, s.w) = s.w
      BY DEF Stacked
    <3> QED BY <3>1, <3>2 DEF Gives
  <2> QED BY <1>1, <1>2, <2>1, <2>2, Zenon DEF Takes
<1>4. PICK x \in Mark, v \in Mark, c \in Stage :
           /\ Off(x) /\ Off(v) /\ Plain(c) /\ c = To(b, Push(x, Push(v, b.w)), "plain", 0)
           /\ \E q : /\ Suits(<<"(", "for_expr", "for_pre_expr2", "offset of ;", "for_expr">>,
                             t, b, q)
                    /\ Suits(<<"for_pre_expr3", "offset of ;", "for_expr",
                               "for_pre_statement">>, t, q, c)
  BY <1>2, HeaderSuits
<1>5. /\ c.w = Push(x, Push(v, b.w)) /\ c.e = b.e /\ c.n = b.n /\ c.l = b.l /\ c.p = b.p
      /\ c.f = b.f
  BY <1>4 DEF To, StageOf
<1>6. PICK u \in Mark : u = OffsetAbove(c.p) /\ Off(u)
  BY <1>4, BehindParts
<1>7. PICK d \in Stage : /\ d = Behind(c) /\ Plain(d) /\ d.w = Push(u, c.w)
                         /\ d.e = b.e /\ d.n = b.n /\ d.l = b.l /\ d.p = b.p /\ d.f = b.f
                         /\ Takes("offset of )", t, c, d)
  BY <1>4, <1>5, <1>6, BehindParts
<1>8. PICK g \in Stage : /\ g = To(z, z.w, "again", t.offset) /\ g.w = z.w /\ g.e = z.e
                         /\ g.n = z.n /\ g.l = z.l /\ g.p = z.p /\ g.f = z.f /\ g.m = "again"
                         /\ g.o = t.offset /\ z = To(g, g.w, "plain", 0)
  <2>1. PICK w \in Seq(Mark), m \in Moment, k \in Nat : w = z.w /\ m = "again" /\ k = t.offset
    BY StageParts DEF Moment
  <2>2. PICK g : g = To(z, w, m, k)
    OBVIOUS
  <2>3. /\ g \in Stage /\ g.w = w /\ g.e = z.e /\ g.n = z.n /\ g.l = z.l /\ g.p = z.p /\ g.f = z.f
        /\ g.m = m /\ g.o = k /\ To(g, w, "plain", 0) = To(z, w, "plain", 0)
        /\ To(z, z.w, z.m, z.o) = z
    BY <2>2, ToParts
  <2>4. To(z, w, "plain", 0) = z
    BY <2>1, <2>3 DEF Plain
  <2> QED BY <2>1, <2>2, <2>3, <2>4, Zenon
<1>9. Takes("for_post_statement", t, d, g)
  <2>1. z.w \in Seq(Mark) /\ d.w = Push(u, Push(x, Push(v, z.w)))
    BY <1>2, <1>5, <1>7, StageParts
  <2>2. d.n = g.n + More("loop") /\ d.e = Push(For("loop", d.n), g.e)
    BY <1>2, <1>7, <1>8
  <2>3. IF t.type = "CONTINUED_FOR" THEN d.l = Push(t.offset, g.l) /\ d.p = t.offset
        ELSE d.l = g.l /\ d.p = g.p
    BY <1>1, <1>2, <1>7, <1>8
  <2>4. g.w = z.w /\ g.m = "again" /\ g.o = t.offset /\ g.f = d.f /\ t.offset > g.p
    BY <1>2, <1>7, <1>8
  <2>5. ForLeft(t, d, g)
    BY <1>4, <1>6, <1>7, <2>1, <2>3, <2>4, Zenon DEF ForLeft
  <2>6. Leaves("loop", d, g)
    BY <2>2 DEF Leaves
  <2> QED BY <2>5, <2>6, Zenon DEF Takes
<1>10. Takes("for_iterations", t, g, z)
  BY <1>8, Zenon DEF Takes
<1>11. Takes("statement", t, d, d)
  BY <1>7, KeepActs DEF Keepers
<1>12. /\ "for_pre_expr1" \in Name /\ "offset of )" \in Name /\ "statement" \in Name
       /\ "for_post_statement" \in Name /\ "for_iterations" \in Name
  BY DEF Name, Idle
<1>13. Suits(<<"offset of )", "statement", "for_post_statement", "for_iterations">>, t, c, z)
  BY <1>4, <1>7, <1>8, <1>9, <1>10, <1>11, <1>12, Suits4
<1>14. Suits(<<"for_pre_expr1">>, t, s, b)
  BY <1>1, <1>2, <1>3, <1>12, Suits1
<1>15. PICK q : /\ Suits(<<"(", "for_expr", "for_pre_expr2", "offset of ;", "for_expr">>, t, b, q)
                /\ Suits(<<"for_pre_expr3", "offset of ;", "for_expr", "for_pre_statement">>,
                         t, q, c)
  BY <1>4
<1>16. Suits(for_rule, t, s, z)
  BY <1>13, <1>14, <1>15, Parts14 DEF for_rule
<1> QED BY <1>1, <1>16

LEMMA StageMoved ==
  ASSUME NEW a \in Stage, NEW w \in Seq(Mark), NEW m \in Moment
  PROVE  \E b \in Stage :
           /\ b = To(a, w, m, 0) /\ b.w = w /\ b.m = m /\ b.o = 0
           /\ b.e = a.e /\ b.n = a.n /\ b.l = a.l /\ b.p = a.p /\ b.f = a.f
           /\ \A v, k : To(b, v, k, 0) = To(a, v, k, 0)
<1>1. PICK b : b = To(a, w, m, 0)
  OBVIOUS
<1>2. 0 \in Nat
  OBVIOUS
<1>3. /\ b \in Stage /\ b.w = w /\ b.e = a.e /\ b.n = a.n /\ b.l = a.l /\ b.p = a.p
      /\ b.f = a.f /\ b.m = m /\ b.o = 0
  BY <1>1, <1>2, ToParts
<1>4. \A v, k : To(b, v, k, 0) = To(a, v, k, 0)
  BY <1>3 DEF To
<1> QED BY <1>1, <1>3, <1>4, Zenon

LEMMA Halves6 ==
  ASSUME NEW t, NEW a, NEW b, NEW z, NEW x1, NEW x2, NEW x3, NEW x4, NEW x5, NEW x6,
         Suits(<<x1, x2, x3>>, t, a, b), Suits(<<x4, x5, x6>>, t, b, z)
  PROVE  Suits(<<x1, x2, x3, x4, x5, x6>>, t, a, z)
<1>1. <<x1, x2, x3, x4, x5, x6>> = <<x1, x2, x3>> \o <<x4, x5, x6>>
  OBVIOUS
<1> QED BY <1>1, SuitsOn

LEMMA CallSuits ==
  ASSUME NEW t, NEW a \in Stage, Plain(a)
  PROVE  Suits(call_rule, t, a, Up(a, 1))
<1>1. PICK w \in Seq(Mark) : w = a.w
  BY StageParts
<1>2. PICK q \in Mark, k \in Mark, v \in Mark, x \in Mark :
        q = Asked /\ k = SkippedCall /\ v = Value /\ x = OffsetAbove(a.p) /\ Off(x) /\ x.above = a.p
  <2>1. a.p \in Nat
    BY StageParts
  <2> QED BY <2>1, MarkTypes
<1>3. PICK w1 \in Seq(Mark), w2 \in Seq(Mark), w3 \in Seq(Mark), w4 \in Seq(Mark) :
        w1 = Push(q, w) /\ w2 = Push(x, w1) /\ w3 = Push(x, Push(k, w)) /\ w4 = Push(v, w)
  <2>1. Push(q, w) \in Seq(Mark) /\ Push(k, w) \in Seq(Mark) /\ Push(v, w) \in Seq(Mark)
    BY Pushed, Zenon
  <2>2. Push(x, Push(q, w)) \in Seq(Mark) /\ Push(x, Push(k, w)) \in Seq(Mark)
    BY <2>1, Pushed, Zenon
  <2> QED BY <2>1, <2>2, Zenon
<1>4. /\ "asked" \in Moment /\ "passing" \in Moment /\ "passed" \in Moment
      /\ "skipped" \in Moment /\ "over" \in Moment /\ "plain" \in Moment /\ 0 \in Nat
  BY DEF Moment
<1>5. PICK h1 \in Stage : h1 = To(a, w1, "asked", 0) /\ h1.m = "asked" /\ h1.o = 0 /\ h1.w = w1
                          /\ h1.p = a.p /\ To(h1, w1, "passing", 0) = To(a, w1, "passing", 0)
  <2>1. PICK b \in Stage :
          /\ b = To(a, w1, "asked", 0) /\ b.w = w1 /\ b.m = "asked" /\ b.o = 0
          /\ b.e = a.e /\ b.n = a.n /\ b.l = a.l /\ b.p = a.p /\ b.f = a.f
          /\ \A y, j : To(b, y, j, 0) = To(a, y, j, 0)
    BY <1>4, StageMoved
  <2> QED BY <2>1, Zenon
<1>6. PICK h2 \in Stage : h2 = To(a, w1, "passing", 0) /\ h2.m = "passing" /\ h2.o = 0 /\ h2.w = w1
                          /\ h2.p = a.p /\ To(h2, w2, "passed", 0) = To(a, w2, "passed", 0)
  <2>1. PICK b \in Stage :
          /\ b = To(a, w1, "passing", 0) /\ b.w = w1 /\ b.m = "passing" /\ b.o = 0
          /\ b.e = a.e /\ b.n = a.n /\ b.l = a.l /\ b.p = a.p /\ b.f = a.f
          /\ \A y, j : To(b, y, j, 0) = To(a, y, j, 0)
    BY <1>4, StageMoved
  <2> QED BY <2>1, Zenon
<1>7. PICK h3 \in Stage : /\ h3 = To(a, w2, "passed", 0) /\ h3.m = "passed" /\ h3.o = 0
                          /\ h3.w = w2 /\ h3.p = a.p
                          /\ To(h3, w3, "skipped", 0) = To(a, w3, "skipped", 0)
  <2>1. PICK b \in Stage :
          /\ b = To(a, w2, "passed", 0) /\ b.w = w2 /\ b.m = "passed" /\ b.o = 0
          /\ b.e = a.e /\ b.n = a.n /\ b.l = a.l /\ b.p = a.p /\ b.f = a.f
          /\ \A y, j : To(b, y, j, 0) = To(a, y, j, 0)
    BY <1>4, StageMoved
  <2> QED BY <2>1, Zenon
<1>8. PICK h4 \in Stage : h4 = To(a, w3, "skipped", 0) /\ h4.m = "skipped" /\ h4.o = 0 /\ h4.w = w3
                          /\ To(h4, w3, "over", 0) = To(a, w3, "over", 0)
  <2>1. PICK b \in Stage :
          /\ b = To(a, w3, "skipped", 0) /\ b.w = w3 /\ b.m = "skipped" /\ b.o = 0
          /\ b.e = a.e /\ b.n = a.n /\ b.l = a.l /\ b.p = a.p /\ b.f = a.f
          /\ \A y, j : To(b, y, j, 0) = To(a, y, j, 0)
    BY <1>4, StageMoved
  <2> QED BY <2>1, Zenon
<1>9. PICK h5 \in Stage : h5 = To(a, w3, "over", 0) /\ h5.m = "over" /\ h5.o = 0 /\ h5.w = w3
                          /\ To(h5, w4, "plain", 0) = To(a, w4, "plain", 0)
  <2>1. PICK b \in Stage :
          /\ b = To(a, w3, "over", 0) /\ b.w = w3 /\ b.m = "over" /\ b.o = 0
          /\ b.e = a.e /\ b.n = a.n /\ b.l = a.l /\ b.p = a.p /\ b.f = a.f
          /\ \A y, j : To(b, y, j, 0) = To(a, y, j, 0)
    BY <1>4, StageMoved
  <2> QED BY <2>1, Zenon
<1>10. PICK z \in Stage : z = Up(a, 1) /\ z = To(a, w4, "plain", 0)
  <2>1. Up(a, 1) \in Stage
    BY UpParts
  <2>2. Up(a, 1) = To(a, w4, "plain", 0)
    BY <1>1, <1>2, <1>3 DEF Up, To, Stacked
  <2> QED BY <2>1, <2>2
<1>11. Takes("cs_functioncall_pre_variable_passing", t, a, h1)
  BY <1>1, <1>2, <1>3, <1>5, Zenon DEF Takes
<1>12. Takes("(", t, h1, h2)
  BY <1>5, <1>6, Zenon DEF Takes
<1>13. Takes("offset of )", t, h2, h3)
  <2>1. h3 = To(h2, Push(OffsetAbove(h2.p), h2.w), "passed", 0)
    BY <1>2, <1>3, <1>6, <1>7
  <2> QED BY <1>6, <2>1, Zenon DEF Takes
<1>14. Takes("cs_functioncall_post_variable_passing", t, h3, h4)
  <2>1. h3.w = Push(x, Push(Asked, w)) /\ h4 = To(h3, Push(x, Push(SkippedCall, w)), "skipped", 0)
    BY <1>2, <1>3, <1>7, <1>8
  <2>2. x.above >= h3.p
    <3>1. a.p \in Nat
      BY StageParts
    <3> QED BY <1>2, <1>7, <3>1
  <2>3. CallSkipped(h3, h4)
    BY <1>2, <1>7, <2>1, <2>2, Zenon DEF CallSkipped
  <2> QED BY <2>3, Zenon DEF Takes
<1>15. Takes("possible_function_call", t, h4, h5)
  <2>1. h4.m \in {"entered", "skipped"} /\ h5 = To(h4, h4.w, "over", 0)
    BY <1>8, <1>9
  <2> QED BY <1>8, <2>1, Zenon DEF Takes
<1>16. Takes("cs_functioncall_end", t, h5, z)
  <2>1. h5.w = Push(x, Push(SkippedCall, w)) /\ z = To(h5, Push(Value, w), "plain", 0)
    BY <1>2, <1>3, <1>9, <1>10
  <2>2. SkippedEnds(h5, z)
    BY <1>2, <1>9, <2>1, Zenon DEF SkippedEnds
  <2> QED BY <2>2, Zenon DEF Takes
<1>17. /\ "cs_functioncall_pre_variable_passing" \in Name /\ "(" \in Name
       /\ "offset of )" \in Name /\ "cs_functioncall_post_variable_passing" \in Name
       /\ "possible_function_call" \in Name /\ "cs_functioncall_end" \in Name
  BY DEF Name
<1>18. Suits(<<"cs_functioncall_pre_variable_passing", "(", "offset of )">>, t, a, h3)
  BY <1>11, <1>12, <1>13, <1>17, Suits3
<1>19. Suits(<<"cs_functioncall_post_variable_passing", "possible_function_call",
               "cs_functioncall_end">>, t, h3, z)
  BY <1>14, <1>15, <1>16, <1>17, Suits3
<1> QED BY <1>10, <1>18, <1>19, Halves6 DEF call_rule

-----------------------------------------------------------------------------
(* A rule suits where its symbol stands *)

LEMMA StageSame ==
  ASSUME NEW a \in Stage, NEW b \in Stage, a.w = b.w, a.e = b.e, a.n = b.n, a.l = b.l, a.p = b.p,
         a.f = b.f, a.m = b.m, a.o = b.o
  PROVE  a = b
<1>1. /\ a = StageOf(a.w, a.e, a.n, a.l, a.p, a.f, a.m, a.o)
      /\ b = StageOf(b.w, b.e, b.n, b.l, b.p, b.f, b.m, b.o)
  BY StageParts
<1> QED BY <1>1

LEMMA GivingStages ==
  ASSUME NEW a \in Stage, NEW b \in Stage, Trades(0, 1, a, b), Stays(a, b)
  PROVE  b = Up(a, 1)
<1>1. PICK c \in Stage : c = Up(a, 1)
  BY UpParts
<1>2. /\ c.w = Stacked(1, a.w) /\ c.e = a.e /\ c.n = a.n /\ c.l = a.l /\ c.p = a.p /\ c.f = a.f
      /\ Plain(c)
  BY <1>1, UpParts
<1>3. b.w = Stacked(1, a.w)
  BY DEF Trades, Gives, Stacked
<1> QED BY <1>1, <1>2, <1>3, StageSame DEF Trades, Same, Stays, Plain

LEMMA OperatorsStages ==
  ASSUME NEW a \in Stage, NEW b \in Stage, Trades(1, 1, a, b), Stays(a, b)
  PROVE  b = a /\ \E u \in Stage : Plain(u) /\ a = Up(u, 1)
<1>1. PICK w \in Seq(Mark) : a.w = Push(Value, w) /\ b.w = Push(Value, w)
  BY DEF Trades, Gives, Stacked
<1>2. b = a
  BY <1>1, StageSame DEF Trades, Same, Stays, Plain
<1>3. PICK m \in Moment, o \in Nat : m = "plain" /\ o = 0
  BY DEF Moment
<1>4. PICK u : u = To(a, w, m, o)
  OBVIOUS
<1>5. /\ u \in Stage /\ u.w = w /\ u.e = a.e /\ u.n = a.n /\ u.l = a.l /\ u.p = a.p /\ u.f = a.f
      /\ u.m = m /\ u.o = o
  BY <1>4, ToParts
<1>6. PICK c \in Stage : c = Up(u, 1)
  BY <1>5, UpParts
<1>7. /\ c.w = Stacked(1, u.w) /\ c.e = u.e /\ c.n = u.n /\ c.l = u.l /\ c.p = u.p /\ c.f = u.f
      /\ Plain(c)
  BY <1>5, <1>6, UpParts
<1>8. c = a
  BY <1>1, <1>5, <1>7, StageSame DEF Trades, Plain, Stacked
<1> QED BY <1>2, <1>3, <1>5, <1>6, <1>8 DEF Plain

\* What a symbol of the grammar tells of the stages around it.
LEMMA PlainSymbol ==
  ASSUME NEW x \in Nonterminals, NEW t, NEW a \in Stage, NEW b \in Stage, Takes(x, t, a, b), Plain(a)
  PROVE  /\ x \notin {"for_iterations", "possible_function_call"}
         /\ x \in Giving => b = Up(a, 1)
         /\ x = "operators" => b = a /\ \E u \in Stage : Plain(u) /\ a = Up(u, 1)
         /\ x \notin Giving \cup {"operators"} => b = a
         /\ x \in {"elseif_list", "else_single"} => In("if", a)
         /\ x = "case_list" => In("loop", a)
<1>1. x \notin {"for_iterations", "possible_function_call"}
  BY DEF Takes, Plain, Keepers, Giving
<1>2. x \in Giving => Trades(0, 1, a, b) /\ Stays(a, b)
  BY DEF Takes, Plain, Keepers, Giving
<1>3. x = "operators" => Trades(1, 1, a, b) /\ Stays(a, b)
  BY DEF Takes, Plain, Keepers, Giving
<1>4. x \notin Giving \cup {"operators"} => b = a
  BY DEF Takes, Plain, Keepers, Giving, Nonterminals
<1>5. /\ x \in {"elseif_list", "else_single"} => In("if", a)
      /\ x = "case_list" => In("loop", a)
  BY DEF Takes, Plain, Keepers, Giving
<1> QED BY <1>1, <1>2, <1>3, <1>4, <1>5, GivingStages, OperatorsStages, Zenon

\* A rule that starts with a token leads from the stage that its symbol stands at to
\* the one behind it.
LEMMA PlainRule ==
  ASSUME NEW r \in Grammar, r[2] # "IC_FUNCTION", NEW s, NEW a \in Stage, Plain(a), NEW b \in Stage,
         r[1] \in Nonterminals, Takes(r[1], s, a, b),
         NEW t, t.type = r[2], t.offset \in Nat, t.offset > a.p
  PROVE  Suits(r[3], t, a, b)
<1>1. /\ r[1] \notin {"for_iterations", "possible_function_call"}
      /\ r[1] \in Giving => b = Up(a, 1)
      /\ r[1] = "operators" => b = a /\ \E u \in Stage : Plain(u) /\ a = Up(u, 1)
      /\ r[1] \notin Giving \cup {"operators"} => b = a
      /\ r[1] \in {"elseif_list", "else_single"} => In("if", a)
      /\ r[1] = "case_list" => In("loop", a)
  BY PlainSymbol, Zenon
<1>2. ASSUME r = <<"statement", "{",
           <<"statement_list", "}">>>>
      PROVE  Suits(r[3], t, a, b)
  <2>1. b = a
    BY <1>1, <1>2 DEF Giving
  <2>2. Suits(<<"statement_list", "}">>, t, a, a)
    BY <2>1, BlockSuits
  <2> QED BY <1>2, <2>1, <2>2
<1>3. ASSUME r = <<"statement", ";",
           <<>>>>
      PROVE  Suits(r[3], t, a, b)
  <2>1. b = a
    BY <1>1, <1>3 DEF Giving
  <2>2. Suits(<<>>, t, a, a)
    BY <2>1, SuitsNone
  <2> QED BY <1>3, <2>1, <2>2
<1>4. ASSUME r = <<"statement", "IF",
           <<"(", "expr", ")", "cs_start_if", "statement", "elseif_list", "else_single",
               "cs_end_if">>>>
      PROVE  Suits(r[3], t, a, b)
  <2>1. b = a
    BY <1>1, <1>4 DEF Giving
  <2>2. Suits(<<"(", "expr", ")", "cs_start_if", "statement", "elseif_list", "else_single",
               "cs_end_if">>, t, a, a)
    BY <2>1, IfSuits
  <2> QED BY <1>4, <2>1, <2>2
<1>5. ASSUME r = <<"statement", "WHILE",
           while_rule>>
      PROVE  Suits(r[3], t, a, b)
  <2>1. b = a
    BY <1>1, <1>5 DEF Giving
  <2>2. Suits(while_rule, t, a, a)
    BY <2>1, WhileSuits
  <2> QED BY <1>5, <2>1, <2>2
<1>6. ASSUME r = <<"statement", "DO",
           dowhile_rule>>
      PROVE  Suits(r[3], t, a, b)
  <2>1. b = a
    BY <1>1, <1>6 DEF Giving
  <2>2. Suits(dowhile_rule, t, a, a)
    BY <2>1, DoSuits
  <2> QED BY <1>6, <2>1, <2>2
<1>7. ASSUME r = <<"statement", "FOR",
           for_rule>>
      PROVE  Suits(r[3], t, a, b)
  <2>1. b = a /\ t.type = "FOR"
    BY <1>1, <1>7 DEF Giving
  <2>2. ForStart(a, t) = a
    BY <2>1 DEF ForStart
  <2>3. Suits(for_rule, t, ForStart(a, t), a)
    BY ForSuits
  <2> QED BY <1>7, <2>1, <2>2, <2>3
<1>8. ASSUME r = <<"statement", "SWITCH",
           <<"(", "expr", ")", "cs_switch_start", "{", "case_list", "}",
               "cs_switch_end">>>>
      PROVE  Suits(r[3], t, a, b)
  <2>1. b = a
    BY <1>1, <1>8 DEF Giving
  <2>2. Suits(<<"(", "expr", ")", "cs_switch_start", "{", "case_list", "}",
               "cs_switch_end">>, t, a, a)
    BY <2>1, SwitchSuits
  <2> QED BY <1>8, <2>1, <2>2
<1>9. ASSUME r = <<"statement", "BREAK",
           <<";", "cs_break_continue">>>>
      PROVE  Suits(r[3], t, a, b)
  <2>1. b = a
    BY <1>1, <1>9 DEF Giving
  <2>2. Suits(<<";", "cs_break_continue">>, t, a, a)
    BY <2>1, BreakSuits
  <2> QED BY <1>9, <2>1, <2>2
<1>10. ASSUME r = <<"statement", "CONTINUE",
           <<";", "cs_break_continue">>>>
      PROVE  Suits(r[3], t, a, b)
  <2>1. b = a
    BY <1>1, <1>10 DEF Giving
  <2>2. Suits(<<";", "cs_break_continue">>, t, a, a)
    BY <2>1, BreakSuits
  <2> QED BY <1>10, <2>1, <2>2
<1>11. ASSUME r = <<"statement", "RETURN",
           <<"expr", ";", "cs_return">>>>
      PROVE  Suits(r[3], t, a, b)
  <2>1. b = a
    BY <1>1, <1>11 DEF Giving
  <2>2. Suits(<<"expr", ";", "cs_return">>, t, a, a)
    BY <2>1, TakenSuits
  <2> QED BY <1>11, <2>1, <2>2
<1>12. ASSUME r = <<"statement", "FUNCTION",
           <<"start_function_decleration">> \o function_body \o
               <<"end_function_decleration">>>>
      PROVE  Suits(r[3], t, a, b)
  <2>1. b = a
    BY <1>1, <1>12 DEF Giving
  <2>2. Suits(<<"start_function_decleration">> \o function_body \o
               <<"end_function_decleration">>, t, a, a)
    BY <2>1, DeclarationSuits
  <2> QED BY <1>12, <2>1, <2>2
<1>13. ASSUME r = <<"statement", "IC_FUNCTION",
           <<"restore_token">> \o function_body \o <<"terminate_phpparse">>>>
      PROVE  Suits(r[3], t, a, b)
  BY <1>1, <1>13
<1>14. ASSUME r = <<"while_iterations", "CONTINUED_WHILE",
           while_rule>>
      PROVE  Suits(r[3], t, a, b)
  <2>1. b = a
    BY <1>1, <1>14 DEF Giving
  <2>2. Suits(while_rule, t, a, a)
    BY <2>1, WhileSuits
  <2> QED BY <1>14, <2>1, <2>2
<1>15. ASSUME r = <<"do_while_iterations", "CONTINUED_DOWHILE",
           dowhile_rule>>
      PROVE  Suits(r[3], t, a, b)
  <2>1. b = a
    BY <1>1, <1>15 DEF Giving
  <2>2. Suits(dowhile_rule, t, a, a)
    BY <2>1, DoSuits
  <2> QED BY <1>15, <2>1, <2>2
<1>16. ASSUME r = <<"for_iterations", "CONTINUED_FOR",
           for_rule>>
      PROVE  Suits(r[3], t, a, b)
  BY <1>1, <1>16
<1>17. ASSUME r = <<"elseif_list", "ELSEIF",
           <<"(", "cs_elseif_start_evaluate", "expr", "cs_elseif_end_evaluate",
               ")", "cs_start_elseif", "statement", "elseif_list">>>>
      PROVE  Suits(r[3], t, a, b)
  <2>1. b = a /\ In("if", a)
    BY <1>1, <1>17 DEF Giving
  <2>2. Suits(<<"(", "cs_elseif_start_evaluate", "expr", "cs_elseif_end_evaluate",
               ")", "cs_start_elseif", "statement", "elseif_list">>, t, a, a)
    BY <2>1, ElseifSuits
  <2> QED BY <1>17, <2>1, <2>2
<1>18. ASSUME r = <<"else_single", "ELSE",
           <<"cs_start_else", "statement">>>>
      PROVE  Suits(r[3], t, a, b)
  <2>1. b = a /\ In("if", a)
    BY <1>1, <1>18 DEF Giving
  <2>2. Suits(<<"cs_start_else", "statement">>, t, a, a)
    BY <2>1, ElseSuits
  <2> QED BY <1>18, <2>1, <2>2
<1>19. ASSUME r = <<"case_list", "CASE",
           <<"expr", ":", "cs_switch_case_pre", "statement_list",
               "cs_switch_case_post", "case_list">>>>
      PROVE  Suits(r[3], t, a, b)
  <2>1. b = a /\ In("loop", a)
    BY <1>1, <1>19 DEF Giving
  <2>2. Suits(<<"expr", ":", "cs_switch_case_pre", "statement_list",
               "cs_switch_case_post", "case_list">>, t, a, a)
    BY <2>1, CaseSuits
  <2> QED BY <1>19, <2>1, <2>2
<1>20. ASSUME r = <<"case_list", "DEFAULT",
           <<":", "cs_switch_default_pre", "statement_list",
               "cs_switch_case_post">>>>
      PROVE  Suits(r[3], t, a, b)
  <2>1. b = a /\ In("loop", a)
    BY <1>1, <1>20 DEF Giving
  <2>2. Suits(<<":", "cs_switch_default_pre", "statement_list",
               "cs_switch_case_post">>, t, a, a)
    BY <2>1, DefaultSuits
  <2> QED BY <1>20, <2>1, <2>2
<1>21. ASSUME r = <<"possible_function_call", "FUNCTION",
           function_body>>
      PROVE  Suits(r[3], t, a, b)
  BY <1>1, <1>21
<1>22. ASSUME r = <<"primary", "VARIABLE",
           <<"evaluate">>>>
      PROVE  Suits(r[3], t, a, b)
  <2>1. b = Up(a, 1)
    BY <1>1, <1>22 DEF Giving
  <2>2. Suits(<<"evaluate">>, t, a, b)
    BY <2>1, ValueSuits DEF Giving
  <2> QED BY <1>22, <2>2
<1>23. ASSUME r = <<"primary", "SCALAR",
           <<"evaluate">>>>
      PROVE  Suits(r[3], t, a, b)
  <2>1. b = Up(a, 1)
    BY <1>1, <1>23 DEF Giving
  <2>2. Suits(<<"evaluate">>, t, a, b)
    BY <2>1, ValueSuits DEF Giving
  <2> QED BY <1>23, <2>2
<1>24. ASSUME r = <<"primary", "CALL",
           call_rule>>
      PROVE  Suits(r[3], t, a, b)
  <2>1. b = Up(a, 1)
    BY <1>1, <1>24 DEF Giving
  <2>2. Suits(call_rule, t, a, b)
    BY <2>1, CallSuits DEF Giving
  <2> QED BY <1>24, <2>2
<1>25. ASSUME r = <<"primary", "ARRAY_WALK",
           call_rule>>
      PROVE  Suits(r[3], t, a, b)
  <2>1. b = Up(a, 1)
    BY <1>1, <1>25 DEF Giving
  <2>2. Suits(call_rule, t, a, b)
    BY <2>1, CallSuits DEF Giving
  <2> QED BY <1>25, <2>2
<1>26. ASSUME r = <<"operators", "&&",
           <<"cs_pre_boolean_and", "primary", "cs_post_boolean_and", "operators">>>>
      PROVE  Suits(r[3], t, a, b)
  <2>1. PICK u \in Stage : Plain(u) /\ a = Up(u, 1) /\ b = a
    BY <1>1, <1>26
  <2>2. Suits(<<"cs_pre_boolean_and", "primary", "cs_post_boolean_and", "operators">>, t, a, a)
    BY <2>1, AndSuits
  <2> QED BY <1>26, <2>1, <2>2
<1>27. ASSUME r = <<"operators", "||",
           <<"cs_pre_boolean_or", "primary", "cs_post_boolean_or", "operators">>>>
      PROVE  Suits(r[3], t, a, b)
  <2>1. PICK u \in Stage : Plain(u) /\ a = Up(u, 1) /\ b = a
    BY <1>1, <1>27
  <2>2. Suits(<<"cs_pre_boolean_or", "primary", "cs_post_boolean_or", "operators">>, t, a, a)
    BY <2>1, AndSuits
  <2> QED BY <1>27, <2>1, <2>2
<1>28. ASSUME r = <<"operators", "?",
           <<"cs_questionmark_op_pre_expr1", "expr", ":",
               "cs_questionmark_op_pre_expr2", "expr",
               "cs_questionmark_op_post_expr2">>>>
      PROVE  Suits(r[3], t, a, b)
  <2>1. PICK u \in Stage : Plain(u) /\ a = Up(u, 1) /\ b = a
    BY <1>1, <1>28
  <2>2. Suits(<<"cs_questionmark_op_pre_expr1", "expr", ":",
               "cs_questionmark_op_pre_expr2", "expr",
               "cs_questionmark_op_post_expr2">>, t, a, a)
    BY <2>1, QuestionSuits
  <2> QED BY <1>28, <2>1, <2>2
<1> QED BY <1>2, <1>3, <1>4, <1>5, <1>6, <1>7, <1>8, <1>9, <1>10, <1>11, <1>12, <1>13, <1>14,
     <1>15, <1>16, <1>17, <1>18, <1>19, <1>20, <1>21, <1>22, <1>23, <1>24, <1>25, <1>26,
     <1>27, <1>28, Zenon DEF Grammar

\* Which rules there are for the symbols that are met at another stage than a plain one.
LEMMA OtherRules ==
  ASSUME NEW r \in Grammar
  PROVE  /\ r[1] = "for_iterations" => r[2] = "CONTINUED_FOR" /\ r[3] = for_rule
         /\ r[1] = "possible_function_call" => r[3] = function_body
         /\ r[1] = "possible_function_call" => r[2] # "IC_FUNCTION"
         /\ r[2] = "IC_FUNCTION" => r[1] = "statement"
               /\ r[3] = <<"restore_token">> \o function_body \o <<"terminate_phpparse">>
         /\ r[1] # "statement_list"
         /\ r[2] = "CONTINUED_FOR" => r[1] = "for_iterations"
         /\ r[2] # "EOF"
<1> DEFINE Goal ==
      /\ r[1] = "for_iterations" => r[2] = "CONTINUED_FOR" /\ r[3] = for_rule
      /\ r[1] = "possible_function_call" => r[3] = function_body
      /\ r[1] = "possible_function_call" => r[2] # "IC_FUNCTION"
      /\ r[2] = "IC_FUNCTION" => r[1] = "statement"
            /\ r[3] = <<"restore_token">> \o function_body \o <<"terminate_phpparse">>
      /\ r[1] # "statement_list"
      /\ r[2] = "CONTINUED_FOR" => r[1] = "for_iterations"
      /\ r[2] # "EOF"
<1>1. ASSUME r = <<"statement", "{", <<"statement_list", "}">>>>
      PROVE  Goal
  BY <1>1
<1>2. ASSUME r = <<"statement", ";", <<>>>>
      PROVE  Goal
  BY <1>2
<1>3. ASSUME r = <<"statement", "IF", <<"(", "expr", ")", "cs_start_if", "statement",
           "elseif_list", "else_single", "cs_end_if">>>>
      PROVE  Goal
  BY <1>3
<1>4. ASSUME r = <<"statement", "WHILE", while_rule>>
      PROVE  Goal
  BY <1>4
<1>5. ASSUME r = <<"statement", "DO", dowhile_rule>>
      PROVE  Goal
  BY <1>5
<1>6. ASSUME r = <<"statement", "FOR", for_rule>>
      PROVE  Goal
  BY <1>6
<1>7. ASSUME r = <<"statement", "SWITCH", <<"(", "expr", ")", "cs_switch_start", "{",
           "case_list", "}", "cs_switch_end">>>>
      PROVE  Goal
  BY <1>7
<1>8. ASSUME r = <<"statement", "BREAK", <<";", "cs_break_continue">>>>
      PROVE  Goal
  BY <1>8
<1>9. ASSUME r = <<"statement", "CONTINUE", <<";", "cs_break_continue">>>>
      PROVE  Goal
  BY <1>9
<1>10. ASSUME r = <<"statement", "RETURN", <<"expr", ";", "cs_return">>>>
      PROVE  Goal
  BY <1>10
<1>11. ASSUME r = <<"statement", "FUNCTION", <<"start_function_decleration">> \o function_body
           \o <<"end_function_decleration">>>>
      PROVE  Goal
  BY <1>11
<1>12. ASSUME r = <<"statement", "IC_FUNCTION", <<"restore_token">> \o function_body \o
           <<"terminate_phpparse">>>>
      PROVE  Goal
  BY <1>12
<1>13. ASSUME r = <<"while_iterations", "CONTINUED_WHILE", while_rule>>
      PROVE  Goal
  BY <1>13
<1>14. ASSUME r = <<"do_while_iterations", "CONTINUED_DOWHILE", dowhile_rule>>
      PROVE  Goal
  BY <1>14
<1>15. ASSUME r = <<"for_iterations", "CONTINUED_FOR", for_rule>>
      PROVE  Goal
  BY <1>15
<1>16. ASSUME r = <<"elseif_list", "ELSEIF", <<"(", "cs_elseif_start_evaluate", "expr",
           "cs_elseif_end_evaluate", ")", "cs_start_elseif", "statement",
           "elseif_list">>>>
      PROVE  Goal
  BY <1>16
<1>17. ASSUME r = <<"else_single", "ELSE", <<"cs_start_else", "statement">>>>
      PROVE  Goal
  BY <1>17
<1>18. ASSUME r = <<"case_list", "CASE", <<"expr", ":", "cs_switch_case_pre", "statement_list",
           "cs_switch_case_post", "case_list">>>>
      PROVE  Goal
  BY <1>18
<1>19. ASSUME r = <<"case_list", "DEFAULT", <<":", "cs_switch_default_pre", "statement_list",
           "cs_switch_case_post">>>>
      PROVE  Goal
  BY <1>19
<1>20. ASSUME r = <<"possible_function_call", "FUNCTION", function_body>>
      PROVE  Goal
  BY <1>20
<1>21. ASSUME r = <<"primary", "VARIABLE", <<"evaluate">>>>
      PROVE  Goal
  BY <1>21
<1>22. ASSUME r = <<"primary", "SCALAR", <<"evaluate">>>>
      PROVE  Goal
  BY <1>22
<1>23. ASSUME r = <<"primary", "CALL", call_rule>>
      PROVE  Goal
  BY <1>23
<1>24. ASSUME r = <<"primary", "ARRAY_WALK", call_rule>>
      PROVE  Goal
  BY <1>24
<1>25. ASSUME r = <<"operators", "&&", <<"cs_pre_boolean_and", "primary", "cs_post_boolean_and",
           "operators">>>>
      PROVE  Goal
  BY <1>25
<1>26. ASSUME r = <<"operators", "||", <<"cs_pre_boolean_or", "primary", "cs_post_boolean_or",
           "operators">>>>
      PROVE  Goal
  BY <1>26
<1>27. ASSUME r = <<"operators", "?", <<"cs_questionmark_op_pre_expr1", "expr", ":",
           "cs_questionmark_op_pre_expr2", "expr", "cs_questionmark_op_post_expr2">>>>
      PROVE  Goal
  BY <1>27
<1> QED BY <1>1, <1>2, <1>3, <1>4, <1>5, <1>6, <1>7, <1>8, <1>9, <1>10, <1>11, <1>12,
     <1>13, <1>14, <1>15, <1>16, <1>17, <1>18, <1>19, <1>20, <1>21, <1>22, <1>23,
     <1>24, <1>25, <1>26, <1>27, Zenon DEF Grammar

\* The symbols that are met at another stage than a plain one.
LEMMA OtherSymbol ==
  ASSUME NEW x \in Nonterminals, NEW s, NEW a \in Stage, NEW b, Takes(x, s, a, b), ~ Plain(a)
  PROVE  \/ /\ a.m = "again" /\ x = "for_iterations" /\ a.o = s.offset
            /\ b = To(a, a.w, "plain", 0)
         \/ /\ a.m \in {"entered", "skipped"} /\ a.o = 0 /\ x = "possible_function_call"
            /\ b = To(a, a.w, "over", 0)
         \/ a.m = "reading" /\ x = "statement" /\ b = To(a, a.w, "closed", 0)
         \/ a.m \in {"calling", "closed"} /\ x = "statement_list" /\ b = To(a, a.w, "end", 0)
<1>1. /\ \A k, l : ~ Trades(k, l, a, b)
      /\ ~ HeaderLeft(a, b)
  BY Zenon DEF Trades, HeaderLeft
<1>2. x \notin {"for_pre_expr1", "for_post_statement", "cs_functioncall_post_variable_passing",
                "cs_functioncall_end", "offset of )", "restore_token", "terminate_phpparse",
                "EOF", "call_user_function", "RETURN_TRUE", "("}
  BY DEF Nonterminals
<1> QED BY <1>1, <1>2, ZenonT(40) DEF Takes

LEMMA BodyRuleStages ==
  ASSUME NEW a \in Stage, NEW b \in Stage, NEW t, a.m = "begun", a.o = 0,
         b = To(a, a.w, "over", 0)
  PROVE  Suits(function_body, t, a, b)
<1>1. PICK w \in Seq(Mark), m \in Moment : w = a.w /\ m = "plain"
  BY StageParts DEF Moment
<1>2. PICK c \in Stage : c = To(a, w, m, 0) /\ c.w = w /\ c.m = m /\ c.o = 0
                         /\ To(c, w, "over", 0) = To(a, w, "over", 0)
  BY StageMoved
<1>3. Takes("(", t, a, c)
  BY <1>1, <1>2, Zenon DEF Takes
<1>4. Plain(c)
  BY <1>1, <1>2 DEF Plain
<1>5. Takes("}", t, c, b)
  <2>1. b = To(c, c.w, "over", 0)
    BY <1>1, <1>2
  <2> QED BY <1>4, <2>1, Zenon DEF Takes
<1> QED BY <1>3, <1>4, <1>5, BodySuits

\* What stands in front of the rest of a way.
LEMMA WayJoin ==
  ASSUME NEW T, NEW p \in Seq(Items(T)), NEW t \in T, NEW rule, NEW c, NEW b, NEW z,
         Suits(rule, t, c, b), Way(p, b, z)
  PROVE  rule \in Seq(Name) /\ Way(Symbols(rule, t) \o p, c, z)
<1>1. rule \in Seq(Name) /\ Way(Symbols(rule, t), c, b)
  BY DEF Suits
<1>2. Symbols(rule, t) \in Seq(Items(T))
  BY <1>1, SymbolsType
<1> QED BY <1>1, <1>2, WayOn

\* The parser takes a rule that starts with token t.
LEMMA TokenRule ==
  ASSUME NEW T, NEW p \in Seq(Items(T)), p # <<>>, NEW a \in Stage, NEW z, Way(p, a, z),
         Head(p).sym \in Nonterminals, NEW r \in Grammar, r[1] = Head(p).sym,
         NEW t \in T, t.type = r[2], t.offset \in Nat, t.offset > a.p
  PROVE  /\ Plain(a) /\ r[2] # "IC_FUNCTION" => Way(Symbols(r[3], t) \o Tail(p), a, z)
         /\ a.m = "reading" /\ r[2] = "IC_FUNCTION" =>
              Way(Symbols(r[3], t) \o Tail(p), To(a, a.w, "restored", t.offset), z)
         /\ a.m = "again" => Way(Symbols(r[3], t) \o Tail(p), ForStart(To(a, a.w, "plain", 0), t), z)
         /\ a.m \in {"entered", "skipped"} =>
              Way(Symbols(r[3], t) \o Tail(p), To(a, a.w, "begun", 0), z)
         /\ a.m \notin {"calling", "closed"}
<1>1. PICK b \in Stage : Takes(Head(p).sym, Head(p).tok, a, b) /\ Way(Tail(p), b, z)
  BY WayFirst
<1>2. PICK q \in Seq(Items(T)) : q = Tail(p)
  <2>1. Tail(p) \in Seq(Items(T))
    OBVIOUS
  <2> QED BY <2>1
<1>3. ASSUME NEW c, Suits(r[3], t, c, b) PROVE Way(Symbols(r[3], t) \o Tail(p), c, z)
  BY <1>1, <1>2, <1>3, WayJoin
<1>4. ASSUME Plain(a), r[2] # "IC_FUNCTION" PROVE Way(Symbols(r[3], t) \o Tail(p), a, z)
  <2>1. Suits(r[3], t, a, b)
    BY <1>1, <1>4, PlainRule
  <2> QED BY <1>3, <2>1
<1>5. r[1] = "for_iterations" => r[2] = "CONTINUED_FOR" /\ r[3] = for_rule
  BY OtherRules, Zenon
<1>6. r[1] = "possible_function_call" => r[3] = function_body
  BY OtherRules, Zenon
<1>7. r[2] = "IC_FUNCTION" =>
        r[3] = <<"restore_token">> \o function_body \o <<"terminate_phpparse">>
  BY OtherRules, Zenon
<1>8. r[1] # "statement_list"
  BY OtherRules, Zenon
<1>9. ASSUME a.m = "reading", r[2] = "IC_FUNCTION"
      PROVE  Way(Symbols(r[3], t) \o Tail(p), To(a, a.w, "restored", t.offset), z)
  <2>1. b = To(a, a.w, "closed", 0)
    BY <1>1, <1>9, OtherSymbol DEF Plain
  <2>2. Suits(r[3], t, To(a, a.w, "restored", t.offset), b)
    BY <1>7, <1>9, <2>1, CalledSuits
  <2> QED BY <1>3, <2>2
<1>10. ASSUME a.m = "again"
       PROVE  Way(Symbols(r[3], t) \o Tail(p), ForStart(To(a, a.w, "plain", 0), t), z)
  <2>1. b = To(a, a.w, "plain", 0) /\ r[1] = "for_iterations"
    BY <1>1, <1>10, OtherSymbol DEF Plain
  <2>2. Plain(b) /\ b.p = a.p
    BY <2>1 DEF To, StageOf, Plain
  <2>3. Suits(r[3], t, ForStart(b, t), b)
    BY <1>5, <2>1, <2>2, ForSuits
  <2> QED BY <1>3, <2>1, <2>3
<1>11. ASSUME a.m \in {"entered", "skipped"}
       PROVE  Way(Symbols(r[3], t) \o Tail(p), To(a, a.w, "begun", 0), z)
  <2>1. b = To(a, a.w, "over", 0) /\ r[1] = "possible_function_call" /\ a.o = 0
    BY <1>1, <1>11, OtherSymbol DEF Plain
  <2>2. PICK w \in Seq(Mark), m \in Moment : w = a.w /\ m = "begun"
    BY StageParts DEF Moment
  <2>3. PICK c \in Stage : c = To(a, w, m, 0) /\ c.w = w /\ c.m = m /\ c.o = 0
                           /\ To(c, w, "over", 0) = To(a, w, "over", 0)
    BY StageMoved
  <2>4. b = To(c, c.w, "over", 0)
    BY <2>1, <2>2, <2>3
  <2>5. Suits(r[3], t, c, b)
    BY <1>1, <1>6, <2>1, <2>2, <2>3, <2>4, BodyRuleStages
  <2> QED BY <1>3, <2>2, <2>3, <2>5
<1>12. a.m \notin {"calling", "closed"}
  BY <1>1, <1>8, OtherSymbol DEF Plain
<1> QED BY <1>4, <1>9, <1>10, <1>11, <1>12

\* The parser takes a rule that does not start with a token.
LEMMA NoTokenRule ==
  ASSUME NEW T, NEW p \in Seq(Items(T)), p # <<>>, NEW a \in Stage, NEW z, Way(p, a, z),
         Head(p).sym \in Nonterminals, NEW type, NEW rule \in Otherwise(Head(p).sym, type),
         NEW t \in T
  PROVE  /\ Plain(a) => Way(Symbols(rule, t) \o Tail(p), a, z)
         /\ a.m = "reading" => type # "IC_FUNCTION"
         /\ a.m = "again" => Way(Symbols(rule, t) \o Tail(p), To(a, a.w, "plain", 0), z)
         /\ a.m \in {"entered", "skipped"} =>
              Way(Symbols(rule, t) \o Tail(p), To(a, a.w, "over", 0), z)
         /\ a.m = "closed" /\ type = "EOF" =>
              Way(Symbols(rule, t) \o Tail(p), To(a, a.w, "end", 0), z)
         /\ a.m = "calling" /\ type = "IC_FUNCTION" =>
              \A o \in Nat : Way(Symbols(rule, t) \o Tail(p), To(a, a.w, "reading", o), z)
<1>1. PICK b \in Stage : Takes(Head(p).sym, Head(p).tok, a, b) /\ Way(Tail(p), b, z)
  BY WayFirst
<1>2. PICK q \in Seq(Items(T)), x \in Nonterminals : q = Tail(p) /\ x = Head(p).sym
  <2>1. Tail(p) \in Seq(Items(T))
    OBVIOUS
  <2> QED BY <2>1
<1>3. ASSUME NEW c, Suits(rule, t, c, b) PROVE Way(Symbols(rule, t) \o Tail(p), c, z)
  BY <1>1, <1>2, <1>3, WayJoin
<1>4. ASSUME Plain(a) PROVE Suits(rule, t, a, b)
  <2>0. /\ x \notin {"for_iterations", "possible_function_call"}
        /\ x \in Giving => b = Up(a, 1)
        /\ x = "operators" => b = a
        /\ x \notin Giving \cup {"operators"} => b = a
    <3>1. PICK s : s = Head(p).tok
      OBVIOUS
    <3>2. Takes(x, s, a, b)
      BY <1>1, <1>2, <3>1
    <3>3. x \in Nonterminals /\ a \in Stage /\ b \in Stage /\ Plain(a)
      BY <1>1, <1>2, <1>4
    <3>4. /\ x \notin {"for_iterations", "possible_function_call"}
          /\ x \in Giving => b = Up(a, 1)
          /\ x = "operators" => b = a
          /\ x \notin Giving \cup {"operators"} => b = a
      BY <3>2, <3>3, PlainSymbol
    <3> QED BY <3>4, Zenon
  <2>1. CASE x = "expr"
    <3>1. rule = <<"primary", "operators">> /\ b = Up(a, 1)
      BY <1>2, <2>0, <2>1 DEF Otherwise, Giving
    <3> QED BY <1>4, <3>1, ValueSuits
  <2>2. CASE x = "for_expr"
    <3>1. (rule = <<"expr">> \/ rule = <<"empty">>) /\ b = Up(a, 1)
      BY <1>2, <2>0, <2>2 DEF Otherwise, Giving
    <3>2. "expr" \in Giving /\ "empty" \in Giving
      BY DEF Giving
    <3> QED BY <1>4, <3>1, <3>2, ValueSuits
  <2>3. CASE x = "primary"
    BY <1>2, <2>3 DEF Otherwise
  <2>4. CASE x = "statement"
    <3>1. rule = <<"expr", ";", "drop">> /\ b = a
      BY <1>2, <2>0, <2>4 DEF Otherwise, Giving
    <3> QED BY <1>4, <3>1, TakenSuits
  <2>5. CASE x = "statement_list"
    <3>1. (rule = <<>> \/ rule = <<"statement", "statement_list">>) /\ b = a
      BY <1>2, <2>0, <2>5 DEF Otherwise, Giving
    <3>2. Takes("statement", t, a, a) /\ Takes("statement_list", t, a, a)
      BY <1>4, KeepActs DEF Keepers
    <3> QED BY <1>4, <3>1, <3>2, SuitsNone, ListSuits
  <2>6. CASE x \notin {"expr", "for_expr", "primary", "statement", "statement_list"}
    <3>1. x \notin Giving
      BY <2>6 DEF Giving, Nonterminals
    <3>2. rule = <<>> /\ b = a
      BY <1>2, <2>0, <2>6, <3>1 DEF Otherwise
    <3> QED BY <3>2, SuitsNone
  <2> QED BY <2>1, <2>2, <2>3, <2>4, <2>5, <2>6
<1>5. ASSUME a.m = "reading" PROVE type # "IC_FUNCTION"
  <2>1. x = "statement"
    BY <1>1, <1>2, <1>5, OtherSymbol DEF Plain
  <2> QED BY <1>2, <2>1 DEF Otherwise, StartsExpr
<1>6. ASSUME a.m = "again" PROVE Suits(rule, t, To(a, a.w, "plain", 0), b)
  <2>1. x = "for_iterations" /\ b = To(a, a.w, "plain", 0)
    BY <1>1, <1>2, <1>6, OtherSymbol DEF Plain
  <2>2. rule = <<>>
    BY <1>2, <2>1 DEF Otherwise
  <2> QED BY <2>1, <2>2, SuitsNone
<1>7. ASSUME a.m \in {"entered", "skipped"} PROVE Suits(rule, t, To(a, a.w, "over", 0), b)
  <2>1. x = "possible_function_call" /\ b = To(a, a.w, "over", 0)
    BY <1>1, <1>2, <1>7, OtherSymbol DEF Plain
  <2>2. rule = <<>>
    BY <1>2, <2>1 DEF Otherwise
  <2> QED BY <2>1, <2>2, SuitsNone
<1>8. ASSUME a.m = "closed", type = "EOF" PROVE Suits(rule, t, To(a, a.w, "end", 0), b)
  <2>1. x = "statement_list" /\ b = To(a, a.w, "end", 0)
    BY <1>1, <1>2, <1>8, OtherSymbol DEF Plain
  <2>2. rule = <<>>
    BY <1>2, <1>8, <2>1 DEF Otherwise
  <2> QED BY <2>1, <2>2, SuitsNone
<1>9. ASSUME a.m = "calling", type = "IC_FUNCTION", NEW o \in Nat
      PROVE  Suits(rule, t, To(a, a.w, "reading", o), b)
  <2>1. x = "statement_list" /\ b = To(a, a.w, "end", 0)
    BY <1>1, <1>2, <1>9, OtherSymbol DEF Plain
  <2>2. rule = <<"statement", "statement_list">>
    BY <1>2, <1>9, <2>1 DEF Otherwise
  <2>3. PICK w \in Seq(Mark), m \in Moment, k \in Moment : w = a.w /\ m = "reading" /\ k = "closed"
    BY StageParts DEF Moment
  <2>4. PICK g : g = To(a, w, m, o)
    OBVIOUS
  <2>5. /\ g \in Stage /\ g.w = w /\ g.m = m /\ \A v, j, i : To(g, v, j, i) = To(a, v, j, i)
    BY <2>4, ToParts
  <2>6. PICK c \in Stage : c = To(a, w, k, 0) /\ c.w = w /\ c.m = k
                           /\ To(c, w, "end", 0) = To(a, w, "end", 0)
    BY StageMoved
  <2>7. To(g, g.w, "closed", 0) = c
    <3>1. To(g, w, "closed", 0) = To(a, w, "closed", 0)
      BY <2>5
    <3> QED BY <2>3, <2>5, <2>6, <3>1
  <2>8. Takes("statement", t, g, c)
    BY <2>3, <2>5, <2>7, Zenon DEF Takes
  <2>9. Takes("statement_list", t, c, b)
    <3>1. c.m \in {"calling", "closed"} /\ b = To(c, c.w, "end", 0)
      BY <2>1, <2>3, <2>6
    <3> QED BY <3>1, Zenon DEF Takes
  <2>10. Suits(rule, t, g, b)
    BY <2>2, <2>5, <2>8, <2>9, ListSuits
  <2> QED BY <2>3, <2>4, <2>10
<1> QED BY <1>3, <1>4, <1>5, <1>6, <1>7, <1>8, <1>9

-----------------------------------------------------------------------------
(* What the engine holds when the parser is at a stage *)

\* The stage at the end of a parser, and of one for call_user_function at u.
Origin == StageOf(<<>>, <<>>, 0, <<>>, 0, <<"none">>, "plain", 0)
Below(u) == StageOf(<<>>, Push(For("call", u.n), u.e), u.n, Push(-1, u.l), 0, Push("user", u.f),
                "plain", 0)
Floor(U) == IF U = <<>> THEN Origin ELSE Below(U[1])

\* The parser is at stage a, and those that wait for it at U.
Course(U, a, p, su) ==
  /\ a \in Stage /\ U \in Seq(Stage) /\ Len(U) = Len(su)
  /\ Way(p, a, Floor(U))
  /\ \A k \in 1 .. Len(U) : Way(su[k].parse, U[k], Floor(Pop(U, k)))

\* The flags, fl[1] and behind it those on css, which were saved for e: what is executed
\* is in loops and calls that are executed, and a chain of ifs that was executed, or may
\* be, is in what is executed.
Within(e, q, r) == \A j \in q .. r : e[j].kind # "call"
LoopFits(e, fl, q, r) ==
  q <= r /\ Within(e, q, r) /\ e[r].kind = "loop" /\ fl[q] = "EXECUTE" => fl[r + 1] = "EXECUTE"
FlagsFit(e, fl) ==
  /\ Len(fl) = Len(e) + 1
  /\ \A q, r \in 1 .. Len(e) : LoopFits(e, fl, q, r)
  /\ \A r \in 1 .. Len(e) : e[r].kind = "if" /\ fl[r] # "DONT_EXECUTE" => fl[r + 1] = "EXECUTE"
  /\ \A r \in 1 .. Len(e) : e[r].kind = "call" => fl[r + 1] = "EXECUTE"

\* A break or continue is for a loop that is executed, and the loops in it were.
LeftFits(e, n, fl, fs, q) ==
  Within(e, 1, q) /\ e[q].kind = "loop"
  /\ fs.loop_nest_level - (n - e[q].loops) <= fs.loop_change_level => fl[q + 1] = "EXECUTE"
ChangeFits(e, n, fl, fs) ==
  fs.loop_change_type # "DO_NOTHING" =>
    /\ ~ fs.returned /\ fs.loop_change_level <= fs.loop_nest_level
    /\ \A q \in 1 .. Len(e) : LeftFits(e, n, fl, fs, q)
FlowFits(a, fl, fs) == FlagsFit(a.e, fl) /\ ChangeFits(a.e, a.n, fl, fs)
Calm(fs) == fs.loop_change_type = "DO_NOTHING" /\ ~ fs.returned

\* The semantic values.
CallFits(v) == v = NoCall \/ v.type = "internal" \/ (v.type = "user" /\ v.offset \in Nat \ {0})
ItemFits(x, v) ==
  /\ x.kind = "offset" => v \in Nat /\ v > x.above
  /\ x.kind = "call" => CallFits(v)
  /\ x.kind = "called" => v # NoCall
  /\ x.kind = "skipped" => v = NoCall
ValuesFit(w, vs) == IsSeq(vs) /\ Len(vs) = Len(w) /\ \A i \in 1 .. Len(w) : ItemFits(w[i], vs[i])

\* The arguments of a function are being passed, which is entered behind them.
CallAt(a) == IF a.m = "passed" THEN 2 ELSE 1
Asking(a, vs) == a.m \in {"asked", "passing", "passed"} /\ vs[CallAt(a)] # NoCall
TypesOf(fs, stack) == Push(fs.type, [i \in 1 .. Len(stack) |-> stack[i].type])
AllCalm(stack) == \A i \in 1 .. Len(stack) : Calm(stack[i])
FunctionsFit(a, vs, fs, stack) ==
  /\ TypesOf(fs, stack) = IF Asking(a, vs) THEN Push(fs.type, a.f) ELSE a.f
  /\ Asking(a, vs) => fs.type = vs[CallAt(a)].type
  /\ AllCalm(stack)

\* The for at which the parser stands is repeated.
Again(a, ts) == a.m = "again" /\ ts[a.o].type = "CONTINUED_FOR"
ForsFit(a, vs, fors, ts) ==
  fors = IF Again(a, ts) THEN Push(a.o, a.l) ELSE IF Asking(a, vs) THEN Push(-1, a.l) ELSE a.l

\* The next token is behind a.p.
LookFits(p, y) == y = EMPTY \/ y.type = "EOF" \/ y.offset > p
PlaceFits(p, ps, y) == ps > p /\ LookFits(p, y)

MomentFits(a, vs, ex, y, sd) ==
  /\ Asking(a, vs) \/ a.m = "entered" => ex
  /\ a.m \in {"closing", "closed"} => y = EMPTY
  /\ sd = "TERMINATE" <=> a.m = "closed"

\* The tokens that were turned are those that the parser comes to next.
TurnedTypes == {"CONTINUED_FOR", "IC_FUNCTION"}
NoMark(y) == y = EMPTY \/ y.type \notin TurnedTypes
Unmarked(ts) == \A i \in DOMAIN ts : ts[i].type \notin TurnedTypes
TokenFits(a, t, i, ex) ==
  /\ t.type = "CONTINUED_FOR" => a.m \in {"again", "repeated"} /\ a.o = i /\ ex
  /\ t.type = "IC_FUNCTION" => a.m \in {"calling", "reading", "restored"} /\ a.o = i
TokensFit(a, ts, ps, y, ex) ==
  /\ \A i \in DOMAIN ts : TokenFits(a, ts[i], i, ex)
  /\ Again(a, ts) => ps = a.o /\ y = EMPTY
  /\ a.m = "calling" => ps = a.o /\ y = EMPTY /\ ts[a.o].type = "IC_FUNCTION"
  /\ IF a.m = "reading" THEN y # EMPTY /\ y.type = "IC_FUNCTION" /\ y.offset = a.o
     ELSE NoMark(y)

\* What waits for the end of a call from call_user_function.
FrameFits(u, fr) ==
  /\ u.m = "entered" /\ u.o = 0 /\ ValuesFit(u.w, fr.values)
  /\ fr.ExecuteFlag = "EXECUTE" /\ Calm(fr.function_state)
  /\ u.f # <<>> /\ fr.function_state.type = u.f[1] /\ fr.shutdown # "TERMINATE"
  /\ PlaceFits(u.p, fr.return_offset + 1, fr.yychar) /\ NoMark(fr.yychar)
FramesFit(U, su) == \A k \in 1 .. Len(U) : FrameFits(U[k], su[k])

RestFits(a) ==
  /\ FunctionsFit(a, values, function_state, function_state_stack)
  /\ ForsFit(a, values, for_stack, tokens)
  /\ PlaceFits(a.p, pos, yychar)
  /\ MomentFits(a, values, Execute, yychar, shutdown)
  /\ TokensFit(a, tokens, pos, yychar, Execute)
Fits(a) ==
  FlowFits(a, Push(ExecuteFlag, css), function_state) /\ ValuesFit(a.w, values) /\ RestFits(a)

\* The inductive invariant: the engine is where the parser is.
LoopInv ==
  Running => \E U, a : Course(U, a, parse, suspended) /\ FramesFit(U, suspended) /\ Fits(a)

-----------------------------------------------------------------------------
(* The stages at the end of a parser *)

LEMMA OriginParts ==
  /\ Origin \in Stage /\ Plain(Origin) /\ Origin.w = <<>> /\ Origin.e = <<>> /\ Origin.n = 0
  /\ Origin.l = <<>> /\ Origin.p = 0 /\ Origin.f = <<"none">>
<1>1. PICK w \in Seq(Mark), e \in Seq(SavedFor), n \in Nat, l \in Seq(Int), f \in Seq(FnType),
           m \in Moment :
        w = <<>> /\ e = <<>> /\ n = 0 /\ l = <<>> /\ f = <<"none">> /\ m = "plain"
  <2>1. "none" \in FnType /\ "plain" \in Moment
    BY DEF FnType, Moment
  <2>2. <<"none">> \in Seq(FnType)
    BY <2>1
  <2>3. <<>> \in Seq(Mark) /\ <<>> \in Seq(SavedFor) /\ <<>> \in Seq(Int) /\ 0 \in Nat
    OBVIOUS
  <2> QED BY <2>1, <2>2, <2>3, Zenon
<1>2. Origin = StageOf(w, e, n, l, 0, f, m, 0)
  BY <1>1 DEF Origin
<1>3. /\ Origin \in Stage /\ Origin.w = w /\ Origin.e = e /\ Origin.n = n /\ Origin.l = l
      /\ Origin.p = 0 /\ Origin.f = f /\ Origin.m = m /\ Origin.o = 0
  BY <1>1, <1>2 DEF Stage, Fields, FnType, StageOf
<1> QED BY <1>1, <1>3 DEF Plain

LEMMA BelowParts ==
  ASSUME NEW u \in Stage
  PROVE  /\ Below(u) \in Stage /\ Plain(Below(u)) /\ Below(u).w = <<>>
         /\ Below(u).e = Push(For("call", u.n), u.e) /\ Below(u).n = u.n
         /\ Below(u).l = Push(-1, u.l) /\ Below(u).p = 0 /\ Below(u).f = Push("user", u.f)
<1>1. PICK k \in SavedFor, e \in Seq(SavedFor), n \in Nat, l \in Seq(Int), f \in Seq(FnType),
           m \in Moment :
        k = For("call", u.n) /\ e = u.e /\ n = u.n /\ l = u.l /\ f = u.f /\ m = "plain"
  <2>1. u.e \in Seq(SavedFor) /\ u.n \in Nat /\ u.l \in Seq(Int) /\ u.f \in Seq(FnType)
    BY StageParts
  <2>2. For("call", u.n) \in SavedFor
    BY <2>1 DEF For, SavedFor
  <2>3. "plain" \in Moment
    BY DEF Moment
  <2> QED BY <2>1, <2>2, <2>3, Zenon
<1>2. PICK w \in Seq(Mark), e1 \in Seq(SavedFor), l1 \in Seq(Int), f1 \in Seq(FnType) :
        w = <<>> /\ e1 = Push(k, e) /\ l1 = Push(-1, l) /\ l1[1] = -1 /\ f1 = Push("user", f)
  <2>1. -1 \in Int /\ "user" \in FnType /\ <<>> \in Seq(Mark)
    BY DEF FnType
  <2>2. Push(k, e) \in Seq(SavedFor)
    BY Pushed, Zenon
  <2>3. Push(-1, l) \in Seq(Int) /\ Push(-1, l)[1] = -1
    BY <2>1, Pushed, ZenonT(40)
  <2>4. Push("user", f) \in Seq(FnType)
    BY <2>1, Pushed, Zenon
  <2> QED BY <2>1, <2>2, <2>3, <2>4, Zenon
<1>3. Below(u) = StageOf(w, e1, n, l1, 0, f1, m, 0)
  BY <1>1, <1>2 DEF Below
<1>4. l1 # <<>> => l1[1] <= 0
  BY <1>2
<1>5. /\ Below(u) \in Stage /\ Below(u).w = w /\ Below(u).e = e1 /\ Below(u).n = n
      /\ Below(u).l = l1 /\ Below(u).p = 0 /\ Below(u).f = f1 /\ Below(u).m = m /\ Below(u).o = 0
  BY <1>3, <1>4 DEF Stage, Fields, FnType, StageOf
<1> QED BY <1>1, <1>2, <1>5 DEF Plain

LEMMA FloorType ==
  ASSUME NEW U \in Seq(Stage)
  PROVE  Floor(U) \in Stage /\ Plain(Floor(U))
<1>1. CASE U = <<>>
  BY <1>1, OriginParts DEF Floor
<1>2. CASE U # <<>>
  <2>1. U[1] \in Stage
    BY <1>2
  <2> QED BY <1>2, <2>1, BelowParts DEF Floor
<1> QED BY <1>1, <1>2

\* The parser goes on by a symbol.
LEMMA CourseStep ==
  ASSUME NEW T, NEW p \in Seq(Items(T)), p # <<>>, NEW U, NEW a, NEW su, Course(U, a, p, su)
  PROVE  \E b \in Stage : Takes(Head(p).sym, Head(p).tok, a, b) /\ Course(U, b, Tail(p), su)
<1>1. PICK b \in Stage : Takes(Head(p).sym, Head(p).tok, a, b) /\ Way(Tail(p), b, Floor(U))
  BY WayFirst DEF Course
<1>2. Course(U, b, Tail(p), su)
  BY <1>1 DEF Course
<1> QED BY <1>1, <1>2

\* Another stage, and other symbols.
LEMMA CourseOther ==
  ASSUME NEW U, NEW a, NEW p, NEW su, Course(U, a, p, su), NEW b \in Stage, NEW q,
         Way(q, b, Floor(U))
  PROVE  Course(U, b, q, su)
BY DEF Course

-----------------------------------------------------------------------------
(* Stages where the next token is nothing special *)

QuietMoments == {"plain", "entered", "skipped", "begun", "over", "end"}
QuietFits(a) ==
  /\ TypesOf(function_state, function_state_stack) = a.f /\ AllCalm(function_state_stack)
  /\ for_stack = a.l /\ PlaceFits(a.p, pos, yychar) /\ shutdown # "TERMINATE"
  /\ Unmarked(tokens) /\ NoMark(yychar) /\ (a.m = "entered" => Execute)

LEMMA QuietRest ==
  \A a : a.m \in QuietMoments => (RestFits(a) <=> QuietFits(a))
<1> SUFFICES ASSUME NEW a, a.m \in QuietMoments PROVE RestFits(a) <=> QuietFits(a)
  OBVIOUS
<1>1. /\ ~ Asking(a, values) /\ ~ Again(a, tokens)
      /\ a.m \notin {"closing", "closed", "calling", "reading", "again", "repeated", "restored"}
  BY DEF QuietMoments, Asking, Again
<1>2. FunctionsFit(a, values, function_state, function_state_stack)
      <=> TypesOf(function_state, function_state_stack) = a.f /\ AllCalm(function_state_stack)
  BY <1>1, Zenon DEF FunctionsFit
<1>3. ForsFit(a, values, for_stack, tokens) <=> for_stack = a.l
  BY <1>1, Zenon DEF ForsFit
<1>4. MomentFits(a, values, Execute, yychar, shutdown)
      <=> shutdown # "TERMINATE" /\ (a.m = "entered" => Execute)
  BY <1>1, Zenon DEF MomentFits
<1>5. (\A i \in DOMAIN tokens : TokenFits(a, tokens[i], i, Execute)) <=> Unmarked(tokens)
  <2>1. \A i : TokenFits(a, tokens[i], i, Execute) <=> tokens[i].type \notin TurnedTypes
    BY <1>1 DEF TokenFits, TurnedTypes
  <2> QED BY <2>1, Zenon DEF Unmarked
<1>6. TokensFit(a, tokens, pos, yychar, Execute) <=> Unmarked(tokens) /\ NoMark(yychar)
  BY <1>1, <1>5, Zenon DEF TokensFit
<1> QED BY <1>2, <1>3, <1>4, <1>6, Zenon DEF RestFits, QuietFits

LEMMA QuietRestNext ==
  (\A a : a.m \in QuietMoments => (RestFits(a) <=> QuietFits(a)))'
BY QuietRest, PTL

-----------------------------------------------------------------------------
(* The values at a stage *)

LEMMA MarkPushed ==
  ASSUME NEW w \in Seq(Mark), NEW l \in Nat, Len(w) = l
  PROVE  /\ Push(Value, w) \in Seq(Mark) /\ Len(Push(Value, w)) = l + 1
         /\ Push(Value, w)[1] = Value
         /\ \A i \in 1 .. l : Push(Value, w)[i + 1] = w[i]
<1>1. PICK v \in Mark : v = Value
  BY MarkTypes
<1>2. Push(v, w) \in Seq(Mark) /\ Len(Push(v, w)) = Len(w) + 1 /\ Push(v, w)[1] = v
  <2>1. Push(v, w) \in Seq(Mark)
    BY Pushed, Zenon
  <2>2. Len(Push(v, w)) = Len(w) + 1
    BY Pushed, Zenon
  <2>3. Push(v, w)[1] = v
    BY Pushed
  <2> QED BY <2>1, <2>2, <2>3
<1>3. \A i \in 1 .. l : Push(v, w)[i + 1] = w[i]
  BY DEF Push
<1> QED BY <1>1, <1>2, <1>3

\* Where the values are among the kinds.
LEMMA StackedAt ==
  ASSUME NEW w \in Seq(Mark), NEW k \in 0 .. 3
  PROVE  /\ Stacked(k, w) \in Seq(Mark) /\ Len(Stacked(k, w)) = Len(w) + k
         /\ \A i \in 1 .. k : Stacked(k, w)[i] = Value
         /\ \A i \in 1 .. Len(w) : Stacked(k, w)[i + k] = w[i]
<1>1. PICK l \in Nat : l = Len(w)
  OBVIOUS
<1> DEFINE w1 == Push(Value, w)
           w2 == Push(Value, w1)
           w3 == Push(Value, w2)
<1>2. w1 \in Seq(Mark) /\ Len(w1) = l + 1 /\ w1[1] = Value
      /\ \A i \in 1 .. l : w1[i + 1] = w[i]
  BY <1>1, MarkPushed
<1>3. w2 \in Seq(Mark) /\ Len(w2) = l + 2 /\ w2[1] = Value
      /\ \A i \in 1 .. l + 1 : w2[i + 1] = w1[i]
  <2> HIDE DEF w1
  <2>1. w2 \in Seq(Mark) /\ Len(w2) = (l + 1) + 1 /\ w2[1] = Value
        /\ \A i \in 1 .. l + 1 : w2[i + 1] = w1[i]
    BY <1>2, MarkPushed
  <2> QED BY <2>1
<1>4. w3 \in Seq(Mark) /\ Len(w3) = l + 3 /\ w3[1] = Value
      /\ \A i \in 1 .. l + 2 : w3[i + 1] = w2[i]
  <2> HIDE DEF w2
  <2>1. w3 \in Seq(Mark) /\ Len(w3) = (l + 2) + 1 /\ w3[1] = Value
        /\ \A i \in 1 .. l + 2 : w3[i + 1] = w2[i]
    BY <1>3, MarkPushed
  <2> QED BY <2>1
<1>5. /\ Stacked(0, w) = w /\ Stacked(1, w) = w1 /\ Stacked(2, w) = w2 /\ Stacked(3, w) = w3
  BY DEF Stacked
<1> HIDE DEF w1, w2, w3
<1>6. \A i \in 1 .. l : w2[i + 2] = w[i]
  <2> SUFFICES ASSUME NEW i \in 1 .. l PROVE w2[i + 2] = w[i]
    OBVIOUS
  <2>1. i + 1 \in 1 .. l + 1 /\ (i + 1) + 1 = i + 2
    OBVIOUS
  <2> QED BY <1>2, <1>3, <2>1
<1>7. \A i \in 1 .. l : w3[i + 3] = w[i]
  <2> SUFFICES ASSUME NEW i \in 1 .. l PROVE w3[i + 3] = w[i]
    OBVIOUS
  <2>1. i + 2 \in 1 .. l + 2 /\ (i + 2) + 1 = i + 3
    OBVIOUS
  <2> QED BY <1>4, <1>6, <2>1
<1>8. w2[2] = Value /\ w3[2] = Value /\ w3[3] = Value
  <2>1. 1 \in 1 .. l + 1 /\ 1 \in 1 .. l + 2 /\ 2 \in 1 .. l + 2 /\ 1 + 1 = 2 /\ 2 + 1 = 3
    OBVIOUS
  <2> QED BY <1>2, <1>3, <1>4, <2>1
<1>9. CASE k = 0
  BY <1>1, <1>5, <1>9
<1>10. CASE k = 1
  BY <1>1, <1>2, <1>5, <1>10
<1>11. CASE k = 2
  BY <1>1, <1>3, <1>5, <1>6, <1>8, <1>11
<1>12. CASE k = 3
  BY <1>1, <1>4, <1>5, <1>7, <1>8, <1>12
<1> QED BY <1>9, <1>10, <1>11, <1>12

LEMMA FitsPush ==
  ASSUME NEW vs, NEW ks \in Seq(Mark), ValuesFit(ks, vs), NEW k \in Mark, NEW x,
         ItemFits(k, x)
  PROVE  ValuesFit(Push(k, ks), Push(x, vs))
<1>1. PICK l \in Nat : l = Len(vs) /\ l = Len(ks)
  BY DEF ValuesFit
<1>2. /\ IsSeq(Push(x, vs)) /\ Len(Push(x, vs)) = l + 1 /\ Push(x, vs)[1] = x
      /\ \A i \in 1 .. l : Push(x, vs)[i + 1] = vs[i]
  BY <1>1, AnyPushed DEF ValuesFit
<1>3. /\ Len(Push(k, ks)) = l + 1 /\ Push(k, ks)[1] = k
      /\ \A i \in 1 .. l : Push(k, ks)[i + 1] = ks[i]
  BY <1>1, Pushed
<1>4. ASSUME NEW i \in 1 .. l + 1 PROVE ItemFits(Push(k, ks)[i], Push(x, vs)[i])
  <2>1. CASE i = 1
    BY <1>2, <1>3, <2>1
  <2>2. CASE i # 1
    <3>1. PICK j \in 1 .. l : i = j + 1
      <4>1. i - 1 \in 1 .. l /\ i = (i - 1) + 1
        BY <2>2
      <4> QED BY <4>1
    <3>2. ItemFits(ks[j], vs[j])
      BY <1>1 DEF ValuesFit
    <3> QED BY <1>2, <1>3, <3>1, <3>2
  <2> QED BY <2>1, <2>2
<1> QED BY <1>2, <1>3, <1>4 DEF ValuesFit

LEMMA FitsPop ==
  ASSUME NEW vs, NEW ks \in Seq(Mark), NEW k \in Mark, ValuesFit(Push(k, ks), vs)
  PROVE  /\ ValuesFit(ks, Pop(vs, 1)) /\ ItemFits(k, vs[1]) /\ Len(vs) >= 1
         /\ Len(vs) = Len(ks) + 1
<1>1. PICK l \in Nat : l = Len(ks)
  OBVIOUS
<1>2. /\ Len(Push(k, ks)) = l + 1 /\ Push(k, ks)[1] = k
      /\ \A i \in 1 .. l : Push(k, ks)[i + 1] = ks[i]
  BY <1>1, Pushed
<1>3. IsSeq(vs) /\ Len(vs) = l + 1
      /\ \A i \in 1 .. l + 1 : ItemFits(Push(k, ks)[i], vs[i])
  BY <1>2 DEF ValuesFit
<1>4. /\ IsSeq(Pop(vs, 1)) /\ Len(Pop(vs, 1)) = l
      /\ \A i \in 1 .. l : Pop(vs, 1)[i] = vs[i + 1]
  <2>1. 1 <= Len(vs) /\ Len(vs) - 1 = l
    BY <1>3
  <2> QED BY <1>3, <2>1, AnyPopped
<1>5. ASSUME NEW i \in 1 .. l PROVE ItemFits(ks[i], Pop(vs, 1)[i])
  <2>1. i + 1 \in 1 .. l + 1
    OBVIOUS
  <2> QED BY <1>2, <1>3, <1>4, <2>1
<1>6. ItemFits(k, vs[1])
  <2>1. 1 \in 1 .. l + 1
    OBVIOUS
  <2> QED BY <1>2, <1>3, <2>1
<1> QED BY <1>1, <1>3, <1>4, <1>5, <1>6 DEF ValuesFit

\* To replace values by others.
LEMMA FitsPop2 ==
  ASSUME NEW vs, NEW ks \in Seq(Mark), NEW k \in Mark, NEW j \in Mark,
         ValuesFit(Push(k, Push(j, ks)), vs)
  PROVE  /\ ValuesFit(ks, Pop(vs, 2)) /\ ItemFits(k, vs[1]) /\ ItemFits(j, vs[2])
         /\ Len(vs) = Len(ks) + 2
<1>1. Push(j, ks) \in Seq(Mark) /\ Len(Push(j, ks)) = Len(ks) + 1
  BY Pushed
<1>2. /\ ValuesFit(Push(j, ks), Pop(vs, 1)) /\ ItemFits(k, vs[1])
      /\ Len(vs) = Len(Push(j, ks)) + 1
  BY <1>1, FitsPop
<1>3. /\ ValuesFit(ks, Pop(Pop(vs, 1), 1)) /\ ItemFits(j, Pop(vs, 1)[1])
  BY <1>2, FitsPop
<1>4. PICK S : vs \in Seq(S)
  BY DEF ValuesFit, IsSeq
<1>5. PICK l \in Nat : l = Len(ks) /\ Len(vs) = l + 2
  BY <1>1, <1>2
<1>6. 1 \in 0 .. Len(vs) - 1 /\ 1 \in 0 .. Len(vs) /\ 1 \in 1 .. Len(vs) - 1
  BY <1>5
<1>7. Pop(vs, 1 + 1) = Pop(Pop(vs, 1), 1) /\ Pop(vs, 1)[1] = vs[1 + 1]
  BY <1>4, <1>6, PopMore, Popped
<1> QED BY <1>2, <1>3, <1>5, <1>7

LEMMA FitsPop3 ==
  ASSUME NEW vs, NEW ks \in Seq(Mark), NEW k \in Mark, NEW j \in Mark, NEW i \in Mark,
         ValuesFit(Push(k, Push(j, Push(i, ks))), vs)
  PROVE  /\ ValuesFit(ks, Pop(vs, 3)) /\ ItemFits(k, vs[1]) /\ ItemFits(j, vs[2])
         /\ ItemFits(i, vs[3])
<1>1. Push(i, ks) \in Seq(Mark) /\ Len(Push(i, ks)) = Len(ks) + 1
  BY Pushed
<1>2. /\ ValuesFit(Push(i, ks), Pop(vs, 2)) /\ ItemFits(k, vs[1]) /\ ItemFits(j, vs[2])
      /\ Len(vs) = Len(Push(i, ks)) + 2
  BY <1>1, FitsPop2
<1>3. /\ ValuesFit(ks, Pop(Pop(vs, 2), 1)) /\ ItemFits(i, Pop(vs, 2)[1])
  BY <1>2, FitsPop
<1>4. PICK S : vs \in Seq(S)
  BY DEF ValuesFit, IsSeq
<1>5. PICK l \in Nat : l = Len(ks) /\ Len(vs) = l + 3
  BY <1>1, <1>2
<1>6. 2 \in 0 .. Len(vs) /\ 1 \in 1 .. Len(vs) - 2 /\ 2 + 1 <= Len(vs)
  BY <1>5
<1>7. Pop(Pop(vs, 2), 1) = Pop(vs, 2 + 1) /\ Pop(vs, 2)[1] = vs[1 + 2]
  BY <1>4, <1>6, PopPop, Popped
<1> QED BY <1>2, <1>3, <1>7

LEMMA ReplacedFits ==
  ASSUME NEW w \in Seq(Mark), NEW t \in 0 .. 3, NEW g \in 0 .. 3, NEW vs, NEW ws,
         ValuesFit(Stacked(t, w), vs), Replaced(vs, ws, t, g)
  PROVE  ValuesFit(Stacked(g, w), ws)
<1>1. PICK l \in Nat : l = Len(w)
  OBVIOUS
<1>2. PICK x \in Seq(Mark) : /\ x = Stacked(t, w) /\ Len(x) = l + t
                             /\ \A i \in 1 .. l : x[i + t] = w[i]
  <2>1. /\ Stacked(t, w) \in Seq(Mark) /\ Len(Stacked(t, w)) = l + t
        /\ \A i \in 1 .. l : Stacked(t, w)[i + t] = w[i]
    BY <1>1, StackedAt
  <2> QED BY <2>1, Zenon
<1>3. PICK y \in Seq(Mark) : /\ y = Stacked(g, w) /\ Len(y) = l + g
                             /\ \A i \in 1 .. g : y[i] = Value
                             /\ \A i \in 1 .. l : y[i + g] = w[i]
  <2>1. /\ Stacked(g, w) \in Seq(Mark) /\ Len(Stacked(g, w)) = l + g
        /\ \A i \in 1 .. g : Stacked(g, w)[i] = Value
        /\ \A i \in 1 .. l : Stacked(g, w)[i + g] = w[i]
    BY <1>1, StackedAt
  <2> QED BY <2>1, Zenon
<1>4. Len(vs) = l + t /\ \A i \in 1 .. l + t : ItemFits(x[i], vs[i])
  BY <1>2 DEF ValuesFit
<1>5. IsSeq(ws) /\ Len(ws) = l + g /\ \A i \in 1 .. l : ws[i + g] = vs[i + t]
  <2>1. Len(vs) - t = l
    BY <1>4
  <2> QED BY <2>1 DEF Replaced
<1>6. ASSUME NEW i \in 1 .. l + g PROVE ItemFits(y[i], ws[i])
  <2>1. CASE i <= g
    <3>1. i \in 1 .. g
      BY <2>1
    <3>2. y[i] = Value
      BY <1>3, <3>1
    <3> QED BY <3>2 DEF ItemFits, Value
  <2>2. CASE ~ (i <= g)
    <3>1. PICK j \in 1 .. l : i = j + g
      <4>1. i - g \in 1 .. l /\ i = (i - g) + g
        BY <2>2
      <4> QED BY <4>1
    <3>2. j + t \in 1 .. l + t
      OBVIOUS
    <3>3. ItemFits(x[j + t], vs[j + t])
      BY <1>4, <3>2
    <3> QED BY <1>2, <1>3, <1>5, <3>1, <3>3
  <2> QED BY <2>1, <2>2
<1> QED BY <1>3, <1>5, <1>6 DEF ValuesFit

\* How actions exchange the first t values for g values.
Exchanged(vs, ws, t, g) ==
  \/ g = t /\ ws = vs
  \/ g = 0 /\ ws = Pop(vs, t)
  \/ g = 1 /\ \E x : ws = Push(x, Pop(vs, t))
  \/ t = 0 /\ g = 1 /\ \E x : ws = Push(x, vs)

LEMMA ExchangedFits ==
  ASSUME NEW t \in 0 .. 3, NEW g \in 0 .. 3, NEW a, NEW b, Gives(t, g, a, b), NEW vs, NEW ws,
         ValuesFit(a.w, vs), Exchanged(vs, ws, t, g)
  PROVE  ValuesFit(b.w, ws)
<1>1. PICK w \in Seq(Mark) : a.w = Stacked(t, w) /\ b.w = Stacked(g, w)
  BY DEF Gives
<1>2. IsSeq(vs) /\ t <= Len(vs)
  <2>1. Len(Stacked(t, w)) = Len(w) + t /\ Len(w) \in Nat
    BY StackedAt
  <2> QED BY <1>1, <2>1 DEF ValuesFit
<1>3. Replaced(vs, ws, t, g)
  <2>1. CASE g = t /\ ws = vs
    BY <1>2, <2>1, ReplacedCases
  <2>2. CASE g = 0 /\ ws = Pop(vs, t)
    BY <1>2, <2>2, ReplacedCases
  <2>3. CASE g = 1 /\ \E x : ws = Push(x, Pop(vs, t))
    BY <1>2, <2>3, ReplacedCases
  <2>4. CASE t = 0 /\ g = 1 /\ \E x : ws = Push(x, vs)
    BY <1>2, <2>4, ReplacedCases
  <2> QED BY <2>1, <2>2, <2>3, <2>4 DEF Exchanged
<1>4. ValuesFit(Stacked(t, w), vs)
  BY <1>1
<1>5. ValuesFit(Stacked(g, w), ws)
  BY <1>3, <1>4, ReplacedFits
<1> QED BY <1>1, <1>5

-----------------------------------------------------------------------------
(* The flags at the stages *)

\* Another flag, where the ones on css stay.
LEMMA FlagTop ==
  ASSUME NEW e \in Seq(SavedFor), NEW cs \in Seq(Flag), NEW x, NEW g, FlagsFit(e, Push(x, cs)),
         g = "EXECUTE" => x = "EXECUTE" \/ (e # <<>> /\ cs[1] = "EXECUTE"),
         e # <<>> /\ e[1].kind = "if" /\ g # "DONT_EXECUTE" => cs[1] = "EXECUTE"
  PROVE  FlagsFit(e, Push(g, cs)) /\ Len(cs) = Len(e)
<1>1. PICK l \in Nat : l = Len(cs)
  OBVIOUS
<1>2. \A y : /\ Len(Push(y, cs)) = l + 1 /\ Push(y, cs)[1] = y
             /\ \A k \in 1 .. l : Push(y, cs)[k + 1] = cs[k]
  <2>1. IsSeq(cs)
    BY DEF IsSeq
  <2> QED BY <1>1, <2>1, AnyPushed
<1>3. Len(e) = l
  <2>1. Len(e) \in Nat /\ Len(Push(x, cs)) = Len(e) + 1
    BY DEF FlagsFit
  <2> QED BY <1>2, <2>1
<1>4. \A k \in 2 .. l + 1 : Push(g, cs)[k] = Push(x, cs)[k]
  <2> SUFFICES ASSUME NEW k \in 2 .. l + 1 PROVE Push(g, cs)[k] = Push(x, cs)[k]
    OBVIOUS
  <2>1. PICK j \in 1 .. l : k = j + 1
    <3>1. k - 1 \in 1 .. l /\ k = (k - 1) + 1
      OBVIOUS
    <3> QED BY <3>1
  <2> QED BY <1>2, <2>1
<1>5. PICK f1, f2 : f1 = Push(x, cs) /\ f2 = Push(g, cs) /\ f2[1] = g /\ f1[1] = x
                    /\ (\A k \in 1 .. l : f2[k + 1] = cs[k] /\ f1[k + 1] = cs[k])
                    /\ (\A k \in 2 .. l + 1 : f2[k] = f1[k]) /\ Len(f2) = l + 1
  <2>1. PICK f1, f2 : f1 = Push(x, cs) /\ f2 = Push(g, cs)
    BY Zenon
  <2>2. f2[1] = g /\ f1[1] = x /\ Len(f2) = l + 1
    BY <1>2, <2>1
  <2>3. \A k \in 1 .. l : f2[k + 1] = cs[k] /\ f1[k + 1] = cs[k]
    BY <1>2, <2>1
  <2>4. \A k \in 2 .. l + 1 : f2[k] = f1[k]
    BY <1>4, <2>1
  <2> QED BY <2>1, <2>2, <2>3, <2>4
<1>6. /\ \A q, r \in 1 .. l : LoopFits(e, f1, q, r)
      /\ \A r \in 1 .. l : e[r].kind = "if" /\ f1[r] # "DONT_EXECUTE" => f1[r + 1] = "EXECUTE"
      /\ \A r \in 1 .. l : e[r].kind = "call" => f1[r + 1] = "EXECUTE"
  BY <1>3, <1>5 DEF FlagsFit
<1>7. ASSUME NEW q \in 1 .. l, NEW r \in 1 .. l PROVE LoopFits(e, f2, q, r)
  <2> SUFFICES ASSUME q <= r, Within(e, q, r), e[r].kind = "loop", f2[q] = "EXECUTE"
               PROVE  f2[r + 1] = "EXECUTE"
    BY Zenon DEF LoopFits
  <2>1. LoopFits(e, f1, q, r) /\ r + 1 \in 2 .. l + 1
    BY <1>6
  <2>2. CASE q # 1
    <3>1. q \in 2 .. l + 1
      BY <2>2
    <3>2. f1[q] = "EXECUTE"
      BY <1>5, <3>1
    <3> QED BY <1>5, <2>1, <3>2 DEF LoopFits
  <2>3. CASE q = 1 /\ x = "EXECUTE"
    BY <1>5, <2>1, <2>3 DEF LoopFits
  <2>4. CASE q = 1 /\ x # "EXECUTE"
    <3>1. cs[1] = "EXECUTE" /\ 1 \in 1 .. l
      BY <1>5, <2>4
    <3>2. f1[2] = "EXECUTE"
      BY <1>5, <3>1
    <3>3. CASE r = 1
      BY <1>5, <3>1, <3>3
    <3>4. CASE r # 1
      <4>1. 2 \in 1 .. l /\ 2 <= r
        BY <3>4
      <4>2. Within(e, 2, r)
        BY <2>4 DEF Within
      <4>3. LoopFits(e, f1, 2, r)
        BY <1>6, <4>1
      <4> QED BY <1>5, <2>1, <3>2, <4>1, <4>2, <4>3 DEF LoopFits
    <3> QED BY <3>3, <3>4
  <2> QED BY <2>2, <2>3, <2>4
<1>8. ASSUME NEW r \in 1 .. l, e[r].kind = "if", f2[r] # "DONT_EXECUTE"
      PROVE  f2[r + 1] = "EXECUTE"
  <2>1. CASE r = 1
    <3>1. e # <<>> /\ f2[r] = g
      BY <1>3, <1>5, <2>1
    <3> QED BY <1>5, <1>8, <2>1, <3>1
  <2>2. CASE r # 1
    <3>1. r \in 2 .. l + 1 /\ r + 1 \in 2 .. l + 1
      BY <2>2
    <3> QED BY <1>5, <1>6, <1>8, <3>1
  <2> QED BY <2>1, <2>2
<1>9. ASSUME NEW r \in 1 .. l, e[r].kind = "call" PROVE f2[r + 1] = "EXECUTE"
  <2>1. r + 1 \in 2 .. l + 1
    OBVIOUS
  <2> QED BY <1>5, <1>6, <1>9, <2>1
<1> QED BY <1>1, <1>3, <1>5, <1>7, <1>8, <1>9 DEF FlagsFit

\* A flag is saved, and what it is saved for entered.
LEMMA FlagEnters ==
  ASSUME NEW e \in Seq(SavedFor), NEW fl \in Seq(Flag), NEW k \in SavedFor, NEW g, FlagsFit(e, fl),
         k.kind = "call" => fl[1] = "EXECUTE",
         k.kind = "loop" /\ g = "EXECUTE" => fl[1] = "EXECUTE",
         k.kind = "if" /\ g # "DONT_EXECUTE" => fl[1] = "EXECUTE",
         k.kind = "other" /\ g = "EXECUTE" =>
           fl[1] = "EXECUTE" \/ (e # <<>> /\ fl[2] = "EXECUTE")
  PROVE  FlagsFit(Push(k, e), Push(g, fl))
<1>1. PICK l \in Nat : l = Len(e) /\ Len(fl) = l + 1
  <2>1. Len(e) \in Nat /\ Len(fl) = Len(e) + 1
    BY DEF FlagsFit
  <2> QED BY <2>1
<1>2. PICK d : /\ d = Push(k, e) /\ Len(d) = l + 1 /\ d[1] = k /\ \A i \in 1 .. l : d[i + 1] = e[i]
  <2>1. IsSeq(e)
    BY DEF IsSeq
  <2> QED BY <1>1, <2>1, AnyPushed
<1>3. PICK f : /\ f = Push(g, fl) /\ Len(f) = l + 2 /\ f[1] = g
               /\ \A i \in 1 .. l + 1 : f[i + 1] = fl[i]
  <2>1. IsSeq(fl)
    BY DEF IsSeq
  <2> QED BY <1>1, <2>1, AnyPushed
<1>4. /\ \A q, r \in 1 .. l : LoopFits(e, fl, q, r)
      /\ \A r \in 1 .. l : e[r].kind = "if" /\ fl[r] # "DONT_EXECUTE" => fl[r + 1] = "EXECUTE"
      /\ \A r \in 1 .. l : e[r].kind = "call" => fl[r + 1] = "EXECUTE"
  BY <1>1 DEF FlagsFit
<1>5. \A r \in 2 .. l + 1 : \E j \in 1 .. l : r = j + 1 /\ d[r] = e[j] /\ f[r] = fl[j]
                                             /\ f[r + 1] = fl[j + 1]
  <2> SUFFICES ASSUME NEW r \in 2 .. l + 1
               PROVE  \E j \in 1 .. l : r = j + 1 /\ d[r] = e[j] /\ f[r] = fl[j]
                                        /\ f[r + 1] = fl[j + 1]
    OBVIOUS
  <2>1. PICK j \in 1 .. l : r = j + 1
    <3>1. r - 1 \in 1 .. l /\ r = (r - 1) + 1
      OBVIOUS
    <3> QED BY <3>1
  <2>2. j \in 1 .. l + 1 /\ j + 1 \in 1 .. l + 1
    OBVIOUS
  <2> QED BY <1>2, <1>3, <2>1, <2>2
<1>6. ASSUME NEW q \in 1 .. l + 1, NEW r \in 1 .. l + 1 PROVE LoopFits(d, f, q, r)
  <2> SUFFICES ASSUME q <= r, Within(d, q, r), d[r].kind = "loop", f[q] = "EXECUTE"
               PROVE  f[r + 1] = "EXECUTE"
    BY Zenon DEF LoopFits
  <2>1. CASE r = 1
    <3>1. k.kind = "loop" /\ g = "EXECUTE" /\ 1 \in 1 .. l + 1
      BY <1>2, <1>3, <2>1
    <3>2. f[2] = fl[1]
      BY <1>3, <3>1
    <3> QED BY <2>1, <3>1, <3>2
  <2>2. CASE r # 1
    <3>1. PICK j \in 1 .. l : r = j + 1 /\ d[r] = e[j] /\ f[r + 1] = fl[j + 1]
      <4>1. r \in 2 .. l + 1
        BY <2>2
      <4> QED BY <1>5, <4>1
    <3>2. \A i \in 1 .. j : q <= i + 1 => e[i].kind # "call"
      <4> SUFFICES ASSUME NEW i \in 1 .. j, q <= i + 1 PROVE e[i].kind # "call"
        OBVIOUS
      <4>1. i + 1 \in q .. r /\ d[i + 1] = e[i]
        BY <1>2, <3>1
      <4> QED BY <4>1 DEF Within
    <3>3. \A i \in 1 .. l : i <= j /\ q <= i + 1 /\ fl[i] = "EXECUTE" => fl[j + 1] = "EXECUTE"
      <4> SUFFICES ASSUME NEW i \in 1 .. l, i <= j, q <= i + 1, fl[i] = "EXECUTE"
                   PROVE  fl[j + 1] = "EXECUTE"
        OBVIOUS
      <4>1. Within(e, i, j)
        BY <3>2 DEF Within
      <4> QED BY <1>4, <3>1, <4>1 DEF LoopFits
    <3>4. CASE q # 1
      <4>1. PICK i \in 1 .. l : q = i + 1 /\ f[q] = fl[i]
        <5>1. q \in 2 .. l + 1
          BY <3>4
        <5> QED BY <1>5, <5>1
      <4> QED BY <3>1, <3>3, <4>1
    <3>5. CASE q = 1
      <4>1. k.kind # "call"
        <5>1. 1 \in q .. r
          BY <3>5
        <5> QED BY <1>2, <5>1 DEF Within
      <4>2. g = "EXECUTE"
        BY <1>3, <3>5
      <4>3. fl[1] = "EXECUTE" \/ fl[2] = "EXECUTE"
        BY <4>1, <4>2 DEF SavedFor
      <4>4. CASE fl[1] = "EXECUTE"
        <5>1. 1 \in 1 .. l /\ 1 <= j
          OBVIOUS
        <5> QED BY <3>1, <3>3, <3>5, <4>4, <5>1
      <4>5. CASE fl[2] = "EXECUTE" /\ j = 1
        BY <3>1, <4>5
      <4>6. CASE fl[2] = "EXECUTE" /\ j # 1
        <5>1. 2 \in 1 .. l /\ 2 <= j /\ q <= 2 + 1
          BY <3>5, <4>6
        <5> QED BY <3>1, <3>3, <4>6, <5>1
      <4> QED BY <4>3, <4>4, <4>5, <4>6
    <3> QED BY <3>4, <3>5
  <2> QED BY <2>1, <2>2
<1>7. ASSUME NEW r \in 1 .. l + 1, d[r].kind = "if", f[r] # "DONT_EXECUTE"
      PROVE  f[r + 1] = "EXECUTE"
  <2>1. CASE r = 1
    <3>1. 1 \in 1 .. l + 1 /\ k.kind = "if" /\ g # "DONT_EXECUTE"
      BY <1>2, <1>3, <1>7, <2>1
    <3> QED BY <1>3, <2>1, <3>1
  <2>2. CASE r # 1
    <3>1. r \in 2 .. l + 1
      BY <2>2
    <3> QED BY <1>4, <1>5, <1>7, <3>1
  <2> QED BY <2>1, <2>2
<1>8. ASSUME NEW r \in 1 .. l + 1, d[r].kind = "call" PROVE f[r + 1] = "EXECUTE"
  <2>1. CASE r = 1
    <3>1. 1 \in 1 .. l + 1 /\ k.kind = "call"
      BY <1>2, <1>8, <2>1
    <3> QED BY <1>3, <2>1, <3>1
  <2>2. CASE r # 1
    <3>1. r \in 2 .. l + 1
      BY <2>2
    <3> QED BY <1>4, <1>5, <1>8, <3>1
  <2> QED BY <2>1, <2>2
<1> QED BY <1>2, <1>3, <1>6, <1>7, <1>8 DEF FlagsFit

\* A saved flag is restored.
LEMMA FlagLeaves ==
  ASSUME NEW e \in Seq(SavedFor), NEW fl \in Seq(Flag), NEW k \in SavedFor, NEW x,
         FlagsFit(Push(k, e), Push(x, fl))
  PROVE  /\ FlagsFit(e, fl)
         /\ k.kind = "call" => fl[1] = "EXECUTE"
         /\ k.kind = "loop" /\ x = "EXECUTE" => fl[1] = "EXECUTE"
<1>1. PICK l \in Nat : l = Len(e)
  OBVIOUS
<1>2. PICK d : /\ d = Push(k, e) /\ Len(d) = l + 1 /\ d[1] = k /\ \A i \in 1 .. l : d[i + 1] = e[i]
  <2>1. IsSeq(e)
    BY DEF IsSeq
  <2> QED BY <1>1, <2>1, AnyPushed
<1>3. PICK j \in Nat : j = Len(fl)
  OBVIOUS
<1>4. PICK f : /\ f = Push(x, fl) /\ Len(f) = j + 1 /\ f[1] = x
               /\ \A i \in 1 .. j : f[i + 1] = fl[i]
  <2>1. IsSeq(fl)
    BY DEF IsSeq
  <2> QED BY <1>3, <2>1, AnyPushed
<1>5. j = l + 1
  BY <1>2, <1>4 DEF FlagsFit
<1>6. /\ \A q, r \in 1 .. l + 1 : LoopFits(d, f, q, r)
      /\ \A r \in 1 .. l + 1 : d[r].kind = "if" /\ f[r] # "DONT_EXECUTE" => f[r + 1] = "EXECUTE"
      /\ \A r \in 1 .. l + 1 : d[r].kind = "call" => f[r + 1] = "EXECUTE"
  BY <1>2, <1>4 DEF FlagsFit
<1>7. \A i \in 1 .. l : i + 1 \in 1 .. l + 1 /\ d[i + 1] = e[i] /\ f[i + 1] = fl[i]
                        /\ f[(i + 1) + 1] = fl[i + 1]
  BY <1>2, <1>4, <1>5
<1>8. ASSUME NEW q \in 1 .. l, NEW r \in 1 .. l PROVE LoopFits(e, fl, q, r)
  <2> SUFFICES ASSUME q <= r, Within(e, q, r), e[r].kind = "loop", fl[q] = "EXECUTE"
               PROVE  fl[r + 1] = "EXECUTE"
    BY Zenon DEF LoopFits
  <2>1. LoopFits(d, f, q + 1, r + 1)
    BY <1>6, <1>7
  <2>2. Within(d, q + 1, r + 1)
    <3> SUFFICES ASSUME NEW i \in q + 1 .. r + 1 PROVE d[i].kind # "call"
      BY DEF Within
    <3>1. PICK h \in q .. r : i = h + 1
      <4>1. i - 1 \in q .. r /\ i = (i - 1) + 1
        OBVIOUS
      <4> QED BY <4>1
    <3>2. h \in 1 .. l
      OBVIOUS
    <3> QED BY <1>7, <3>1, <3>2 DEF Within
  <2>3. q + 1 <= r + 1
    OBVIOUS
  <2> QED BY <1>7, <2>1, <2>2, <2>3 DEF LoopFits
<1>9. ASSUME NEW r \in 1 .. l, e[r].kind = "if", fl[r] # "DONT_EXECUTE"
      PROVE  fl[r + 1] = "EXECUTE"
  BY <1>6, <1>7, <1>9
<1>10. ASSUME NEW r \in 1 .. l, e[r].kind = "call" PROVE fl[r + 1] = "EXECUTE"
  BY <1>6, <1>7, <1>10
<1>11. FlagsFit(e, fl)
  BY <1>1, <1>3, <1>5, <1>8, <1>9, <1>10 DEF FlagsFit
<1>12. 1 \in 1 .. l + 1 /\ 1 \in 1 .. j /\ f[1 + 1] = fl[1]
  BY <1>4, <1>5
<1>13. k.kind = "call" => fl[1] = "EXECUTE"
  BY <1>2, <1>6, <1>12
<1>14. ASSUME k.kind = "loop", x = "EXECUTE" PROVE fl[1] = "EXECUTE"
  <2>1. LoopFits(d, f, 1, 1)
    BY <1>6, <1>12
  <2>2. Within(d, 1, 1)
    BY <1>2, <1>14 DEF Within
  <2> QED BY <1>2, <1>4, <1>12, <1>14, <2>1, <2>2 DEF LoopFits
<1> QED BY <1>11, <1>13, <1>14

-----------------------------------------------------------------------------
(* Break and continue at the stages *)

LEMMA ChangeTop ==
  ASSUME NEW e \in Seq(SavedFor), NEW n, NEW cs \in Seq(Flag), NEW x, NEW g, NEW fs, NEW fs2,
         Len(cs) = Len(e), ChangeFits(e, n, Push(x, cs), fs),
         fs2 = fs \/ fs2.loop_change_type = "DO_NOTHING"
  PROVE  ChangeFits(e, n, Push(g, cs), fs2)
<1>1. CASE fs2.loop_change_type = "DO_NOTHING"
  BY <1>1 DEF ChangeFits
<1>2. CASE fs2 = fs /\ fs.loop_change_type # "DO_NOTHING"
  <2>1. PICK l \in Nat : l = Len(cs)
    OBVIOUS
  <2>2. \A y : \A k \in 1 .. l : Push(y, cs)[k + 1] = cs[k]
    <3>1. IsSeq(cs)
      BY DEF IsSeq
    <3> QED BY <2>1, <3>1, AnyPushed
  <2>3. PICK f1, f2 : f1 = Push(x, cs) /\ f2 = Push(g, cs)
    BY Zenon
  <2>4. \A k \in 1 .. l : f2[k + 1] = f1[k + 1]
    BY <2>2, <2>3
  <2>5. \A q \in 1 .. l : LeftFits(e, n, f1, fs, q) => LeftFits(e, n, f2, fs, q)
    BY <2>4, Zenon DEF LeftFits
  <2>6. Len(e) = l
    BY <2>1
  <2> QED BY <1>2, <2>3, <2>5, <2>6, Zenon DEF ChangeFits
<1> QED BY <1>1, <1>2 DEF ChangeFits

LEMMA WithinTail ==
  ASSUME NEW e \in Seq(SavedFor), NEW k \in SavedFor, NEW q \in 1 .. Len(e)
  PROVE  Within(Push(k, e), 1, q + 1) <=> k.kind # "call" /\ Within(e, 1, q)
<1>1. PICK l \in Nat : l = Len(e)
  OBVIOUS
<1>2. PICK d : /\ d = Push(k, e) /\ d[1] = k /\ \A i \in 1 .. l : d[i + 1] = e[i]
  <2>1. IsSeq(e)
    BY DEF IsSeq
  <2> QED BY <1>1, <2>1, AnyPushed
<1>3. ASSUME Within(d, 1, q + 1) PROVE k.kind # "call" /\ Within(e, 1, q)
  <2>1. k.kind # "call"
    <3>1. 1 \in 1 .. q + 1
      OBVIOUS
    <3> QED BY <1>2, <1>3, <3>1 DEF Within
  <2>2. ASSUME NEW i \in 1 .. q PROVE e[i].kind # "call"
    <3>1. i + 1 \in 1 .. q + 1 /\ i \in 1 .. l
      BY <1>1
    <3> QED BY <1>2, <1>3, <3>1 DEF Within
  <2> QED BY <2>1, <2>2 DEF Within
<1>4. ASSUME k.kind # "call", Within(e, 1, q), NEW j \in 1 .. q + 1 PROVE d[j].kind # "call"
  <2>1. CASE j = 1
    BY <1>2, <1>4, <2>1
  <2>2. CASE j # 1
    <3>1. PICK i \in 1 .. q : j = i + 1
      <4>1. j - 1 \in 1 .. q /\ j = (j - 1) + 1
        BY <2>2
      <4> QED BY <4>1
    <3>2. i \in 1 .. l
      BY <1>1
    <3> QED BY <1>2, <1>4, <3>1, <3>2 DEF Within
  <2> QED BY <2>1, <2>2
<1> QED BY <1>2, <1>3, <1>4 DEF Within

\* The states of a function when it is within k more loops.
Deeper(fs, fs2, k) ==
  /\ fs2.loop_nest_level = fs.loop_nest_level + k
  /\ fs2.loop_change_level = fs.loop_change_level
  /\ fs2.loop_change_type = fs.loop_change_type /\ fs2.returned = fs.returned

\* What a flag is saved for.
LEMMA ForParts ==
  ASSUME NEW n \in Nat, NEW kind \in {"loop", "if", "other"}
  PROVE  \E c \in Nat, m \in Nat, k \in SavedFor :
           c = More(kind) /\ m = n + c /\ k = For(kind, m) /\ k.kind = kind /\ k.loops = m
           /\ (kind # "loop" => c = 0) /\ (kind = "loop" => c = 1)
<1>1. PICK c \in Nat : c = More(kind) /\ (kind # "loop" => c = 0) /\ (kind = "loop" => c = 1)
  <2>1. CASE kind = "loop"
    <3>1. More(kind) = 1 /\ 1 \in Nat
      BY <2>1 DEF More
    <3> QED BY <2>1, <3>1
  <2>2. CASE kind # "loop"
    <3>1. More(kind) = 0 /\ 0 \in Nat
      BY <2>2 DEF More
    <3> QED BY <2>2, <3>1
  <2> QED BY <2>1, <2>2
<1>2. PICK m \in Nat : m = n + c
  <2>1. n + c \in Nat
    OBVIOUS
  <2> QED BY <2>1
<1>3. For(kind, m) \in SavedFor /\ For(kind, m).kind = kind /\ For(kind, m).loops = m
  BY DEF For, SavedFor
<1> QED BY <1>1, <1>2, <1>3, Zenon

LEMMA ChangeEnters ==
  ASSUME NEW e \in Seq(SavedFor), NEW n \in Nat, NEW fl \in Seq(Flag), Len(fl) = Len(e) + 1,
         NEW kind \in {"loop", "if", "other"}, NEW g, NEW fs \in FunctionState, NEW fs2,
         ChangeFits(e, n, fl, fs),
         fs2.loop_change_type = "DO_NOTHING" \/ Deeper(fs, fs2, More(kind))
  PROVE  ChangeFits(Push(For(kind, n + More(kind)), e), n + More(kind), Push(g, fl), fs2)
<1>1. CASE fs2.loop_change_type = "DO_NOTHING"
  BY <1>1 DEF ChangeFits
<1>2. CASE fs2.loop_change_type # "DO_NOTHING"
  <2>1. PICK l \in Nat : l = Len(e) /\ Len(fl) = l + 1
    OBVIOUS
  <2>2. PICK c \in Nat, m \in Nat, k \in SavedFor :
          c = More(kind) /\ m = n + c /\ k = For(kind, m) /\ k.kind = kind /\ k.loops = m
          /\ (kind # "loop" => c = 0) /\ (kind = "loop" => c = 1)
    BY ForParts, Zenon
  <2>3. PICK d : /\ d = Push(k, e) /\ Len(d) = l + 1 /\ d[1] = k
                 /\ \A i \in 1 .. l : d[i + 1] = e[i]
    <3>1. IsSeq(e)
      BY DEF IsSeq
    <3> QED BY <2>1, <3>1, AnyPushed
  <2>4. PICK f : /\ f = Push(g, fl) /\ \A i \in 1 .. l + 1 : f[i + 1] = fl[i]
    <3>1. IsSeq(fl)
      BY DEF IsSeq
    <3> QED BY <2>1, <3>1, AnyPushed
  <2>5. PICK v \in Nat, w \in Nat : v = fs.loop_nest_level /\ w = fs.loop_change_level
    BY DEF FunctionState
  <2>6. /\ fs2.loop_nest_level = v + c /\ fs2.loop_change_level = w /\ ~ fs.returned
        /\ fs2.returned = fs.returned /\ w <= v /\ \A q \in 1 .. l : LeftFits(e, n, fl, fs, q)
    BY <1>2, <2>1, <2>2, <2>5 DEF Deeper, ChangeFits
  <2>7. ASSUME NEW q \in 1 .. l + 1 PROVE LeftFits(d, m, f, fs2, q)
    <3>1. CASE q = 1
      <4>1. d[q].kind = "loop" => ~ (fs2.loop_nest_level - (m - d[q].loops)
                                     <= fs2.loop_change_level)
        BY <2>2, <2>3, <2>6, <3>1, SMTT(30)
      <4> QED BY <4>1, Zenon DEF LeftFits
    <3>2. CASE q # 1
      <4>1. PICK i \in 1 .. l : q = i + 1
        <5>1. q - 1 \in 1 .. l /\ q = (q - 1) + 1
          BY <3>2
        <5> QED BY <5>1
      <4>2. d[q] = e[i] /\ f[q + 1] = fl[i + 1]
        <5>1. i + 1 \in 1 .. l + 1
          OBVIOUS
        <5> QED BY <2>3, <2>4, <4>1, <5>1
      <4>3. Within(d, 1, q) => Within(e, 1, i)
        BY <2>1, <2>3, <4>1, WithinTail
      <4>4. PICK z \in Nat : z = e[i].loops
        <5>1. e[i] \in SavedFor
          BY <2>1
        <5> QED BY <5>1 DEF SavedFor
      <4>5. fs2.loop_nest_level - (m - z) = fs.loop_nest_level - (n - z)
        BY <2>2, <2>5, <2>6, SMTT(30)
      <4>6. LeftFits(e, n, fl, fs, i)
        BY <2>6
      <4> QED BY <2>5, <2>6, <4>2, <4>3, <4>4, <4>5, <4>6 DEF LeftFits
    <3> QED BY <3>1, <3>2
  <2>8. ChangeFits(d, m, f, fs2)
    <3>1. fs2.loop_change_level <= fs2.loop_nest_level
      BY <2>6
    <3> QED BY <2>3, <2>6, <2>7, <3>1 DEF ChangeFits
  <2> QED BY <2>2, <2>3, <2>4, <2>8
<1> QED BY <1>1, <1>2

LEMMA ChangeLeaves ==
  ASSUME NEW e \in Seq(SavedFor), NEW n \in Nat, NEW fl \in Seq(Flag), Len(fl) = Len(e) + 1,
         NEW kind \in {"loop", "if", "other"}, NEW x, NEW fs \in FunctionState, NEW fs2,
         ChangeFits(Push(For(kind, n + More(kind)), e), n + More(kind), Push(x, fl), fs),
         fs2.loop_change_type = "DO_NOTHING" \/ Deeper(fs, fs2, - More(kind)),
         kind = "loop" /\ fs2.loop_change_type # "DO_NOTHING" =>
           fs.loop_change_level # fs.loop_nest_level
  PROVE  ChangeFits(e, n, fl, fs2)
<1>1. CASE fs2.loop_change_type = "DO_NOTHING"
  BY <1>1 DEF ChangeFits
<1>2. CASE fs2.loop_change_type # "DO_NOTHING"
  <2>1. PICK l \in Nat : l = Len(e) /\ Len(fl) = l + 1
    OBVIOUS
  <2>2. PICK c \in Nat, m \in Nat, k \in SavedFor :
          c = More(kind) /\ m = n + c /\ k = For(kind, m) /\ k.kind = kind /\ k.loops = m
          /\ (kind # "loop" => c = 0) /\ (kind = "loop" => c = 1)
    BY ForParts, Zenon
  <2>3. PICK d : /\ d = Push(k, e) /\ Len(d) = l + 1 /\ d[1] = k
                 /\ \A i \in 1 .. l : d[i + 1] = e[i]
    <3>1. IsSeq(e)
      BY DEF IsSeq
    <3> QED BY <2>1, <3>1, AnyPushed
  <2>4. PICK f : /\ f = Push(x, fl) /\ \A i \in 1 .. l + 1 : f[i + 1] = fl[i]
    <3>1. IsSeq(fl)
      BY DEF IsSeq
    <3> QED BY <2>1, <3>1, AnyPushed
  <2>5. PICK v \in Nat, w \in Nat : v = fs.loop_nest_level /\ w = fs.loop_change_level
    BY DEF FunctionState
  <2>6. ChangeFits(d, m, f, fs)
    BY <2>2, <2>3, <2>4
  <2>7. /\ fs2.loop_nest_level = v - c /\ fs2.loop_change_level = w /\ ~ fs.returned
        /\ fs2.returned = fs.returned /\ w <= v /\ \A q \in 1 .. l + 1 : LeftFits(d, m, f, fs, q)
        /\ w <= v - c
    <3>1. fs2.loop_nest_level = v + (- c) /\ fs2.loop_change_level = w
          /\ fs2.loop_change_type = fs.loop_change_type /\ fs2.returned = fs.returned
      BY <1>2, <2>2, <2>5, Zenon DEF Deeper
    <3>2. ~ fs.returned /\ w <= v /\ \A q \in 1 .. l + 1 : LeftFits(d, m, f, fs, q)
      BY <1>2, <2>3, <2>5, <2>6, <3>1 DEF ChangeFits
    <3>3. kind = "loop" => w # v
      BY <1>2, <2>5
    <3>4. w <= v - c /\ v + (- c) = v - c
      <4>1. CASE kind = "loop"
        <5>1. w # v /\ c = 1
          BY <2>2, <3>3, <4>1
        <5> QED BY <2>5, <3>2, <5>1
      <4>2. CASE kind # "loop"
        <5>1. c = 0
          BY <2>2, <4>2
        <5> QED BY <2>5, <3>2, <5>1
      <4> QED BY <4>1, <4>2
    <3> QED BY <3>1, <3>2, <3>4
  <2>8. ASSUME NEW i \in 1 .. l PROVE LeftFits(e, n, fl, fs2, i)
    <3>1. d[i + 1] = e[i] /\ f[(i + 1) + 1] = fl[i + 1]
      <4>1. i + 1 \in 1 .. l + 1
        OBVIOUS
      <4> QED BY <2>3, <2>4, <4>1
    <3>2. Within(e, 1, i) => Within(d, 1, i + 1)
      BY <2>1, <2>2, <2>3, WithinTail
    <3>3. PICK z \in Nat : z = e[i].loops
      <4>1. e[i] \in SavedFor
        BY <2>1
      <4> QED BY <4>1 DEF SavedFor
    <3>4. fs2.loop_nest_level - (n - z) = fs.loop_nest_level - (m - z)
      BY <2>2, <2>5, <2>7, SMTT(30)
    <3>5. LeftFits(d, m, f, fs, i + 1)
      BY <2>7
    <3> QED BY <2>5, <2>7, <3>1, <3>2, <3>3, <3>4, <3>5 DEF LeftFits
  <2> QED BY <2>1, <2>7, <2>8 DEF ChangeFits
<1> QED BY <1>1, <1>2

-----------------------------------------------------------------------------
(* The flags where a symbol stays, enters or leaves *)

LEMMA StayFits ==
  ASSUME NEW a \in Stage, NEW b \in Stage, Stays(a, b), NEW cs \in Seq(Flag), NEW x, NEW g,
         NEW fs, NEW fs2, FlowFits(a, Push(x, cs), fs),
         g = "EXECUTE" => x = "EXECUTE" \/ (a.e # <<>> /\ cs[1] = "EXECUTE"),
         In("if", a) /\ g # "DONT_EXECUTE" => cs[1] = "EXECUTE",
         fs2 = fs \/ fs2.loop_change_type = "DO_NOTHING"
  PROVE  FlowFits(b, Push(g, cs), fs2)
<1>1. PICK e \in Seq(SavedFor), n \in Nat : e = a.e /\ n = a.n /\ b.e = e /\ b.n = n
  BY StageParts DEF Stays
<1>2. FlagsFit(e, Push(x, cs)) /\ ChangeFits(e, n, Push(x, cs), fs)
  BY <1>1 DEF FlowFits
<1>3. /\ g = "EXECUTE" => x = "EXECUTE" \/ (e # <<>> /\ cs[1] = "EXECUTE")
      /\ e # <<>> /\ e[1].kind = "if" /\ g # "DONT_EXECUTE" => cs[1] = "EXECUTE"
  BY <1>1 DEF In
<1>4. FlagsFit(e, Push(g, cs)) /\ Len(cs) = Len(e)
  BY <1>2, <1>3, FlagTop
<1>5. ChangeFits(e, n, Push(g, cs), fs2)
  BY <1>2, <1>4, ChangeTop
<1> QED BY <1>1, <1>4, <1>5 DEF FlowFits

LEMMA EnterFits ==
  ASSUME NEW a \in Stage, NEW b \in Stage, NEW kind \in {"loop", "if", "other"},
         Enters(kind, a, b), NEW fl \in Seq(Flag), NEW g, NEW fs \in FunctionState, NEW fs2,
         FlowFits(a, fl, fs),
         kind = "loop" /\ g = "EXECUTE" => fl[1] = "EXECUTE",
         kind = "if" /\ g # "DONT_EXECUTE" => fl[1] = "EXECUTE",
         kind = "other" /\ g = "EXECUTE" =>
           fl[1] = "EXECUTE" \/ (a.e # <<>> /\ fl[2] = "EXECUTE"),
         fs2.loop_change_type = "DO_NOTHING" \/ Deeper(fs, fs2, More(kind))
  PROVE  FlowFits(b, Push(g, fl), fs2)
<1>1. PICK e \in Seq(SavedFor), n \in Nat : e = a.e /\ n = a.n
  BY StageParts
<1>2. PICK m \in Nat, k \in SavedFor : m = n + More(kind) /\ k = For(kind, m) /\ k.kind = kind
  <2>1. \E c \in Nat, j \in Nat, i \in SavedFor :
          c = More(kind) /\ j = n + c /\ i = For(kind, j) /\ i.kind = kind /\ i.loops = j
          /\ (kind # "loop" => c = 0) /\ (kind = "loop" => c = 1)
    BY ForParts, Zenon
  <2> QED BY <2>1, Zenon
<1>3. b.n = m /\ b.e = Push(k, e)
  BY <1>1, <1>2 DEF Enters
<1>4. FlagsFit(e, fl) /\ ChangeFits(e, n, fl, fs) /\ Len(fl) = Len(e) + 1
  BY <1>1 DEF FlowFits, FlagsFit
<1>5. FlagsFit(Push(k, e), Push(g, fl))
  BY <1>1, <1>2, <1>4, FlagEnters
<1>6. ChangeFits(Push(For(kind, n + More(kind)), e), n + More(kind), Push(g, fl), fs2)
  BY <1>4, ChangeEnters
<1> QED BY <1>2, <1>3, <1>5, <1>6 DEF FlowFits

LEMMA LeaveFits ==
  ASSUME NEW a \in Stage, NEW b \in Stage, NEW kind \in {"loop", "if", "other"},
         Leaves(kind, a, b), NEW fl \in Seq(Flag), NEW x, NEW fs \in FunctionState, NEW fs2,
         FlowFits(a, Push(x, fl), fs),
         fs2.loop_change_type = "DO_NOTHING" \/ Deeper(fs, fs2, - More(kind)),
         kind = "loop" /\ fs2.loop_change_type # "DO_NOTHING" =>
           fs.loop_change_level # fs.loop_nest_level
  PROVE  /\ FlowFits(b, fl, fs2)
         /\ kind = "loop" /\ x = "EXECUTE" => fl[1] = "EXECUTE"
<1>1. PICK e \in Seq(SavedFor), n \in Nat : e = b.e /\ n = b.n
  BY StageParts
<1>2. PICK m \in Nat, k \in SavedFor : m = n + More(kind) /\ k = For(kind, m) /\ k.kind = kind
  <2>1. \E c \in Nat, j \in Nat, i \in SavedFor :
          c = More(kind) /\ j = n + c /\ i = For(kind, j) /\ i.kind = kind /\ i.loops = j
          /\ (kind # "loop" => c = 0) /\ (kind = "loop" => c = 1)
    BY ForParts, Zenon
  <2> QED BY <2>1, Zenon
<1>3. a.n = m /\ a.e = Push(k, e)
  BY <1>1, <1>2 DEF Leaves
<1>4. FlagsFit(Push(k, e), Push(x, fl)) /\ ChangeFits(Push(k, e), m, Push(x, fl), fs)
  BY <1>3 DEF FlowFits
<1>5. FlagsFit(e, fl) /\ (k.kind = "loop" /\ x = "EXECUTE" => fl[1] = "EXECUTE")
  BY <1>4, FlagLeaves
<1>6. Len(fl) = Len(e) + 1
  BY <1>5 DEF FlagsFit
<1>7. ChangeFits(Push(For(kind, n + More(kind)), e), n + More(kind), Push(x, fl), fs)
  BY <1>2, <1>4
<1>8. ChangeFits(e, n, fl, fs2)
  BY <1>6, <1>7, ChangeLeaves
<1> QED BY <1>1, <1>2, <1>5, <1>8 DEF FlowFits

-----------------------------------------------------------------------------
(* Steps between plain stages *)

FlowNow(a) == FlowFits(a, Push(ExecuteFlag, css), function_state)

LEMMA LoopAt ==
  ASSUME LoopInv, Running
  PROVE  \E U, a : Course(U, a, parse, suspended) /\ FramesFit(U, suspended) /\ Fits(a)
BY DEF LoopInv

LEMMA LoopNext ==
  ASSUME NEW U, NEW a, Course(U, a, parse', suspended'), FramesFit(U, suspended'), Fits(a)'
  PROVE  LoopInv'
BY DEF LoopInv

LEMMA FitsNext ==
  ASSUME NEW a, FlowNow(a)', ValuesFit(a.w, values'), RestFits(a)'
  PROVE  Fits(a)'
BY DEF Fits, FlowNow

LEMMA PlainQuiet ==
  ASSUME NEW a, Plain(a)
  PROVE  a.m \in QuietMoments /\ a.m # "entered"
BY DEF Plain, QuietMoments

\* What an action does besides the flags, if it leads from a plain stage to a plain stage.
Passes(x) ==
  \A a, b \in Stage : Takes(x, Tok, a, b) =>
    /\ Plain(a) /\ Plain(b) /\ Same(a, b)
    /\ ValuesFit(a.w, values) => ValuesFit(b.w, values')
    /\ PlaceFits(a.p, pos, yychar) => PlaceFits(b.p, pos', yychar')
MarksStay ==
  Unmarked(tokens) /\ NoMark(yychar) => Unmarked(tokens)' /\ NoMark(yychar)'
PlainAction(x) ==
  /\ Action(x) /\ Passes(x) /\ MarksStay
  /\ shutdown' = shutdown /\ for_stack' = for_stack
  /\ function_state_stack' = function_state_stack /\ function_state'.type = function_state.type

\* Such an action keeps the invariant if the flags fit.
LEMMA PlainStep ==
  ASSUME IInv, LoopInv, NEW x, PlainAction(x)
  PROVE  \E a \in Stage, b \in Stage :
           Takes(x, Tok, a, b) /\ FlowNow(a) /\ (FlowNow(b)' => LoopInv')
<1>1. Running /\ parse # <<>> /\ Head(parse).sym = x
      /\ parse' = Tail(parse) /\ suspended' = suspended
  BY AtAction DEF PlainAction
<1>2. PICK U, a : Course(U, a, parse, suspended) /\ FramesFit(U, suspended) /\ Fits(a)
  BY <1>1, LoopAt
<1>3. parse \in Seq(Items(TokenOrEOF))
  BY IInvParts DEF InputInv, SymbolsOK
<1>4. PICK b \in Stage : Takes(x, Tok, a, b) /\ Course(U, b, Tail(parse), suspended)
  <2>1. \E c \in Stage : Takes(Head(parse).sym, Head(parse).tok, a, c)
                         /\ Course(U, c, Tail(parse), suspended)
    BY <1>1, <1>2, <1>3, CourseStep
  <2> QED BY <1>1, <2>1 DEF Tok
<1>5. a \in Stage /\ FlowNow(a) /\ ValuesFit(a.w, values) /\ RestFits(a)
  BY <1>2 DEF Course, Fits, FlowNow
<1>6. /\ Plain(a) /\ Plain(b) /\ Same(a, b) /\ ValuesFit(b.w, values')
      /\ PlaceFits(a.p, pos, yychar) => PlaceFits(b.p, pos', yychar')
  BY <1>4, <1>5 DEF PlainAction, Passes
<1>7. QuietFits(a)
  BY <1>5, <1>6, PlainQuiet, QuietRest
<1>8. QuietFits(b)'
  <2>1. TypesOf(function_state, function_state_stack)' = b.f
    <3>1. TypesOf(function_state, function_state_stack)'
          = TypesOf(function_state, function_state_stack)
      BY DEF PlainAction, TypesOf
    <3> QED BY <1>6, <1>7, <3>1 DEF Same, QuietFits
  <2>2. AllCalm(function_state_stack)' /\ for_stack' = b.l /\ shutdown' # "TERMINATE"
    BY <1>6, <1>7 DEF Same, QuietFits, PlainAction
  <2>3. Unmarked(tokens)' /\ NoMark(yychar)' /\ PlaceFits(b.p, pos', yychar')
    BY <1>6, <1>7 DEF QuietFits, PlainAction, MarksStay
  <2>4. b.m # "entered"
    BY <1>6, PlainQuiet
  <2> QED BY <2>1, <2>2, <2>3, <2>4 DEF QuietFits
<1>9. RestFits(b)'
  <2>1. b.m \in QuietMoments
    BY <1>6, PlainQuiet
  <2> QED BY <1>8, <2>1, QuietRestNext
<1>10. ASSUME FlowNow(b)' PROVE LoopInv'
  <2>1. Fits(b)'
    BY <1>6, <1>9, <1>10, FitsNext
  <2>2. Course(U, b, parse', suspended') /\ FramesFit(U, suspended')
    BY <1>1, <1>2, <1>4
  <2> QED BY <2>1, <2>2, LoopNext
<1> QED BY <1>4, <1>5, <1>10

\* What a symbol takes and gives, by its shape.
Shaped(x, t, g) == \A s : \A a, b \in Stage : Takes(x, s, a, b) => Trades(t, g, a, b)

LEMMA ShapedPasses ==
  ASSUME NEW x, NEW t \in 0 .. 3, NEW g \in 0 .. 3, Shaped(x, t, g), Exchanged(values, values', t, g),
         UNCHANGED input
  PROVE  Passes(x) /\ MarksStay /\ shutdown' = shutdown
<1>1. ASSUME NEW a \in Stage, NEW b \in Stage, Takes(x, Tok, a, b)
      PROVE  /\ Plain(a) /\ Plain(b) /\ Same(a, b)
             /\ ValuesFit(a.w, values) => ValuesFit(b.w, values')
             /\ PlaceFits(a.p, pos, yychar) => PlaceFits(b.p, pos', yychar')
  <2>1. Trades(t, g, a, b)
    BY <1>1 DEF Shaped
  <2>2. Plain(a) /\ Plain(b) /\ Same(a, b) /\ Gives(t, g, a, b)
    BY <2>1 DEF Trades
  <2>3. ValuesFit(a.w, values) => ValuesFit(b.w, values')
    BY <2>2, ExchangedFits
  <2>4. PlaceFits(a.p, pos, yychar) => PlaceFits(b.p, pos', yychar')
    BY <2>2 DEF Same, input
  <2> QED BY <2>2, <2>3, <2>4
<1>2. Passes(x)
  BY <1>1 DEF Passes
<1>3. tokens' = tokens /\ yychar' = yychar /\ shutdown' = shutdown
  BY DEF input
<1> QED BY <1>2, <1>3 DEF MarksStay

\* The types of the flags.
LEMMA FlowTypes ==
  ASSUME IInv
  PROVE  /\ css \in Seq(Flag) /\ ExecuteFlag \in Flag /\ function_state \in FunctionState
         /\ Execute = SHOULD_EXECUTE(ExecuteFlag, function_state)
         /\ Execute => ExecuteFlag = "EXECUTE" /\ function_state.loop_change_type = "DO_NOTHING"
                       /\ ~ function_state.returned
         /\ Push(ExecuteFlag, css) \in Seq(Flag) /\ Push(ExecuteFlag, css)[1] = ExecuteFlag
<1>1. css \in Seq(Flag) /\ ExecuteFlag \in Flag /\ function_state \in FunctionState
  BY IInvParts DEF Flowing, FlowInv
<1>2. Execute = SHOULD_EXECUTE(ExecuteFlag, function_state)
  BY IInvParts DEF Flowing, ExecuteInSync
<1>3. Push(ExecuteFlag, css) \in Seq(Flag) /\ Push(ExecuteFlag, css)[1] = ExecuteFlag
  BY <1>1, Pushed
<1> QED BY <1>1, <1>2, <1>3 DEF SHOULD_EXECUTE

\* In an if, the chain is in what is executed.
InIf(a) == In("if", a) /\ ExecuteFlag # "DONT_EXECUTE" => SavedFlag = "EXECUTE"

LEMMA FlagsAt ==
  ASSUME IInv, NEW a \in Stage, FlowNow(a)
  PROVE  /\ InIf(a) /\ Len(css) = Len(a.e)
         /\ \A k \in 1 .. Len(css) : Push(ExecuteFlag, css)[k + 1] = css[k]
<1>1. css \in Seq(Flag)
  BY FlowTypes
<1>2. PICK l \in Nat : l = Len(css)
  BY <1>1
<1>3. PICK f : /\ f = Push(ExecuteFlag, css) /\ Len(f) = l + 1 /\ f[1] = ExecuteFlag
               /\ \A k \in 1 .. l : f[k + 1] = css[k]
  <2>1. IsSeq(css)
    BY <1>1 DEF IsSeq
  <2> QED BY <1>2, <2>1, AnyPushed
<1>4. PICK e \in Seq(SavedFor) : e = a.e
  BY StageParts
<1>5. FlagsFit(e, f)
  BY <1>3, <1>4 DEF FlowNow, FlowFits
<1>6. Len(e) = l
  <2>1. Len(f) = Len(e) + 1 /\ Len(e) \in Nat
    BY <1>5 DEF FlagsFit
  <2> QED BY <1>3, <2>1
<1>7. ASSUME In("if", a), ExecuteFlag # "DONT_EXECUTE" PROVE SavedFlag = "EXECUTE"
  <2>1. e # <<>> /\ e[1].kind = "if"
    BY <1>4, <1>7 DEF In
  <2>2. 1 \in 1 .. l
    BY <1>6, <2>1
  <2>3. f[1 + 1] = "EXECUTE"
    BY <1>3, <1>5, <1>6, <1>7, <2>1, <2>2 DEF FlagsFit
  <2>4. f[1 + 1] = css[1]
    BY <1>3, <2>2
  <2> QED BY <2>3, <2>4 DEF SavedFlag
<1> QED BY <1>2, <1>3, <1>4, <1>6, <1>7 DEF InIf

\* The flag that an action sets, where the saved ones stay.
StayFlag(x) ==
  \A a, b \in Stage : Takes(x, Tok, a, b) /\ InIf(a) =>
    /\ ExecuteFlag' = "EXECUTE" =>
         ExecuteFlag = "EXECUTE" \/ (a.e # <<>> /\ SavedFlag = "EXECUTE")
    /\ In("if", a) /\ ExecuteFlag' # "DONT_EXECUTE" => SavedFlag = "EXECUTE"
Staying(x) == \A s : \A a, b \in Stage : Takes(x, s, a, b) => Stays(a, b)

LEMMA StayStep ==
  ASSUME IInv, LoopInv, NEW x, PlainAction(x), Staying(x), StayFlag(x), css' = css,
         function_state' = function_state \/ function_state'.loop_change_type = "DO_NOTHING"
  PROVE  LoopInv'
<1>1. PICK a \in Stage, b \in Stage :
        Takes(x, Tok, a, b) /\ FlowNow(a) /\ (FlowNow(b)' => LoopInv')
  BY PlainStep
<1>2. Stays(a, b) /\ InIf(a)
  BY <1>1, FlagsAt DEF Staying
<1>3. /\ ExecuteFlag' = "EXECUTE" => ExecuteFlag = "EXECUTE" \/ (a.e # <<>> /\ css[1] = "EXECUTE")
      /\ In("if", a) /\ ExecuteFlag' # "DONT_EXECUTE" => css[1] = "EXECUTE"
  BY <1>1, <1>2 DEF StayFlag, SavedFlag
<1>4. css \in Seq(Flag)
  BY FlowTypes
<1>5. PICK y, g, fs, fs2 : y = ExecuteFlag /\ g = ExecuteFlag' /\ fs = function_state
                           /\ fs2 = function_state'
  OBVIOUS
<1>6. PICK cs \in Seq(Flag) : cs = css
  BY <1>4
<1>7. FlowFits(a, Push(y, cs), fs)
  BY <1>1, <1>5, <1>6 DEF FlowNow
<1>8. FlowFits(b, Push(g, cs), fs2)
  BY <1>2, <1>3, <1>5, <1>6, <1>7, StayFits
<1>9. FlowNow(b)'
  BY <1>5, <1>6, <1>8 DEF FlowNow
<1> QED BY <1>1, <1>9

EntersBy(x, kind) == \A s : \A a, b \in Stage : Takes(x, s, a, b) => Enters(kind, a, b)
LeavesBy(x, kind) == \A s : \A a, b \in Stage : Takes(x, s, a, b) => Leaves(kind, a, b)

LEMMA EnterStep ==
  ASSUME IInv, LoopInv, NEW x, PlainAction(x), NEW kind \in {"loop", "if", "other"},
         EntersBy(x, kind), SaveFlag,
         kind # "if" /\ ExecuteFlag' = "EXECUTE" => ExecuteFlag = "EXECUTE",
         kind = "if" /\ ExecuteFlag' # "DONT_EXECUTE" => ExecuteFlag = "EXECUTE",
         function_state'.loop_change_type = "DO_NOTHING"
         \/ Deeper(function_state, function_state', More(kind))
  PROVE  LoopInv'
<1>1. PICK a \in Stage, b \in Stage :
        Takes(x, Tok, a, b) /\ FlowNow(a) /\ (FlowNow(b)' => LoopInv')
  BY PlainStep
<1>2. Enters(kind, a, b)
  BY <1>1 DEF EntersBy
<1>3. PICK fl \in Seq(Flag), fs \in FunctionState :
        fl = Push(ExecuteFlag, css) /\ fl[1] = ExecuteFlag /\ fs = function_state
  BY FlowTypes
<1>4. PICK g, fs2 : g = ExecuteFlag' /\ fs2 = function_state'
  OBVIOUS
<1>5. FlowFits(a, fl, fs)
  BY <1>1, <1>3 DEF FlowNow
<1>6. FlowFits(b, Push(g, fl), fs2)
  BY <1>2, <1>3, <1>4, <1>5, EnterFits
<1>7. FlowNow(b)'
  BY <1>3, <1>4, <1>6, SMTT(30) DEF FlowNow, SaveFlag
<1> QED BY <1>1, <1>7

\* A stack is its top and the rest.
LEMMA PushPop ==
  ASSUME NEW S, NEW s \in Seq(S), s # <<>>
  PROVE  Push(s[1], Pop(s, 1)) = s /\ Pop(s, 1) \in Seq(S)
<1>1. Pop(s, 1) = Tail(s) /\ Tail(s) \in Seq(S) /\ s[1] = Head(s)
  BY PopTail
<1>2. <<Head(s)>> \o Tail(s) = s
  OBVIOUS
<1> QED BY <1>1, <1>2, Zenon DEF Push
\* What an action does that restores the flag that was saved.
LeavesLevel(kind) ==
  /\ DropFlag /\ ExecuteFlag' = SavedFlag
  /\ \/ function_state'.loop_change_type = "DO_NOTHING"
     \/ Deeper(function_state, function_state', - More(kind))
  /\ kind = "loop" /\ function_state'.loop_change_type # "DO_NOTHING" =>
       function_state.loop_change_level # function_state.loop_nest_level

LEMMA LeaveFlow ==
  ASSUME IInv, NEW a \in Stage, NEW b \in Stage, NEW kind \in {"loop", "if", "other"},
         Leaves(kind, a, b), FlowNow(a), LeavesLevel(kind)
  PROVE  /\ FlowNow(b)'
         /\ kind = "loop" /\ ExecuteFlag = "EXECUTE" => SavedFlag = "EXECUTE"
<1>3. css # <<>> /\ css \in Seq(Flag)
  <2>1. Len(css) = Len(a.e) /\ css \in Seq(Flag)
    BY FlagsAt, FlowTypes
  <2>2. PICK e \in Seq(SavedFor), n \in Nat : e = b.e /\ n = a.n
    BY StageParts
  <2>3. Len(Push(For(kind, n), e)) = Len(e) + 1 /\ Len(e) \in Nat
    <3>1. IsSeq(e)
      BY DEF IsSeq
    <3> QED BY <3>1, AnyPushed
  <2>4. a.e = Push(For(kind, n), e)
    BY <2>2 DEF Leaves
  <2> QED BY <2>1, <2>3, <2>4
<1>4. PICK fl \in Seq(Flag), fs \in FunctionState : fl = css /\ fs = function_state
  BY <1>3, FlowTypes
<1>5. PICK y, fs2 : y = ExecuteFlag /\ fs2 = function_state'
  OBVIOUS
<1>6. FlowFits(a, Push(y, fl), fs)
  BY <1>4, <1>5 DEF FlowNow
<1>7. FlowFits(b, fl, fs2) /\ (kind = "loop" /\ y = "EXECUTE" => fl[1] = "EXECUTE")
  <2>1. /\ fs2.loop_change_type = "DO_NOTHING" \/ Deeper(fs, fs2, - More(kind))
        /\ kind = "loop" /\ fs2.loop_change_type # "DO_NOTHING" =>
             fs.loop_change_level # fs.loop_nest_level
    BY <1>4, <1>5 DEF LeavesLevel
  <2> QED BY <1>4, <1>6, <2>1, LeaveFits
<1>8. Push(ExecuteFlag', css') = fl
  BY <1>3, <1>4, PushPop DEF LeavesLevel, DropFlag, SavedFlag
<1>9. FlowNow(b)'
  BY <1>5, <1>7, <1>8 DEF FlowNow
<1> QED BY <1>4, <1>5, <1>7, <1>9 DEF SavedFlag

LEMMA LeaveStep ==
  ASSUME IInv, LoopInv, NEW x, PlainAction(x), NEW kind \in {"loop", "if", "other"},
         LeavesBy(x, kind), DropFlag, ExecuteFlag' = SavedFlag,
         function_state'.loop_change_type = "DO_NOTHING"
         \/ Deeper(function_state, function_state', - More(kind)),
         kind = "loop" /\ function_state'.loop_change_type # "DO_NOTHING" =>
           function_state.loop_change_level # function_state.loop_nest_level
  PROVE  LoopInv'
<1>1. PICK a \in Stage, b \in Stage :
        Takes(x, Tok, a, b) /\ FlowNow(a) /\ (FlowNow(b)' => LoopInv')
  BY PlainStep
<1>2. Leaves(kind, a, b)
  BY <1>1 DEF LeavesBy
<1>3. LeavesLevel(kind)
  BY DEF LeavesLevel
<1> QED BY <1>1, <1>2, <1>3, LeaveFlow

-----------------------------------------------------------------------------
(* What the actions take, give and do to the flags *)

LEMMA StayShapes ==
  /\ \A x \in {"cs_force_eval_do_while", "cs_switch_default_pre", "cs_break_continue",
               "cs_start_else", "cs_switch_case_post", "for_pre_expr3",
               "cs_questionmark_op_pre_expr2"} : Shaped(x, 0, 0) /\ Staying(x)
  /\ \A x \in {"evaluate", "empty"} : Shaped(x, 0, 1) /\ Staying(x)
  /\ \A x \in {"drop", "cs_return", "cs_switch_case_pre", "cs_start_elseif", "for_pre_expr2"} :
       Shaped(x, 1, 0) /\ Staying(x)
<1>1. ASSUME NEW a \in Stage, Plain(a)
      PROVE  Trades(0, 0, a, a) /\ Stays(a, a)
  <2>1. Same(a, a) /\ Stays(a, a)
    BY DEF Same, Stays
  <2>2. Gives(0, 0, a, a)
    BY StageParts DEF Gives, Stacked
  <2> QED BY <1>1, <2>1, <2>2 DEF Trades
<1>2. ASSUME NEW x \in {"cs_force_eval_do_while", "cs_switch_default_pre", "cs_break_continue",
                        "cs_start_else", "cs_switch_case_post", "for_pre_expr3",
                        "cs_questionmark_op_pre_expr2"},
             NEW s, NEW a \in Stage, NEW b \in Stage, Takes(x, s, a, b)
      PROVE  Trades(0, 0, a, b) /\ Stays(a, b)
  <2>1. Plain(a) /\ b = a
    BY <1>2 DEF Takes, Keepers, Giving
  <2> QED BY <1>1, <2>1
<1>3. ASSUME NEW x \in {"evaluate", "empty"},
             NEW s, NEW a \in Stage, NEW b \in Stage, Takes(x, s, a, b)
      PROVE  Trades(0, 1, a, b) /\ Stays(a, b)
  BY <1>3 DEF Takes, Keepers, Giving
<1>4. ASSUME NEW x \in {"drop", "cs_return", "cs_switch_case_pre", "cs_start_elseif", "for_pre_expr2"},
             NEW s, NEW a \in Stage, NEW b \in Stage, Takes(x, s, a, b)
      PROVE  Trades(1, 0, a, b) /\ Stays(a, b)
  BY <1>4 DEF Takes, Keepers, Giving
<1> QED BY <1>2, <1>3, <1>4, Zenon DEF Shaped, Staying

LEMMA EnterShapes ==
  /\ Shaped("cs_start_if", 1, 0) /\ EntersBy("cs_start_if", "if")
  /\ \A x \in {"cs_elseif_start_evaluate", "start_function_decleration"} :
       Shaped(x, 0, 0) /\ EntersBy(x, "other")
  /\ \A x \in {"cs_start_while", "cs_switch_start"} : Shaped(x, 1, 0) /\ EntersBy(x, "loop")
  /\ Shaped("cs_start_do_while", 0, 0) /\ EntersBy("cs_start_do_while", "loop")
  /\ \A x \in {"cs_pre_boolean_or", "cs_pre_boolean_and", "cs_questionmark_op_pre_expr1"} :
       Shaped(x, 1, 1) /\ EntersBy(x, "other")
<1>1. ASSUME NEW s, NEW a \in Stage, NEW b \in Stage
      PROVE  /\ Takes("cs_start_if", s, a, b) => Trades(1, 0, a, b) /\ Enters("if", a, b)
             /\ \A x \in {"cs_elseif_start_evaluate", "start_function_decleration"} :
                  Takes(x, s, a, b) => Trades(0, 0, a, b) /\ Enters("other", a, b)
  BY DEF Takes, Keepers, Giving
<1>2. ASSUME NEW s, NEW a \in Stage, NEW b \in Stage
      PROVE  /\ \A x \in {"cs_start_while", "cs_switch_start"} :
                  Takes(x, s, a, b) => Trades(1, 0, a, b) /\ Enters("loop", a, b)
             /\ Takes("cs_start_do_while", s, a, b) => Trades(0, 0, a, b) /\ Enters("loop", a, b)
             /\ \A x \in {"cs_pre_boolean_or", "cs_pre_boolean_and", "cs_questionmark_op_pre_expr1"} :
                  Takes(x, s, a, b) => Trades(1, 1, a, b) /\ Enters("other", a, b)
  BY DEF Takes, Keepers, Giving
<1> QED BY <1>1, <1>2, Zenon DEF Shaped, EntersBy

LEMMA LeaveShapes ==
  /\ \A x \in {"cs_elseif_end_evaluate", "end_function_decleration"} :
       Shaped(x, 0, 0) /\ LeavesBy(x, "other")
  /\ Shaped("cs_end_if", 0, 0) /\ LeavesBy("cs_end_if", "if")
  /\ Shaped("cs_end_while", 0, 0) /\ LeavesBy("cs_end_while", "loop")
  /\ Shaped("cs_end_do_while", 1, 0) /\ LeavesBy("cs_end_do_while", "loop")
  /\ Shaped("cs_switch_end", 0, 0) /\ LeavesBy("cs_switch_end", "loop")
  /\ \A x \in {"cs_post_boolean_or", "cs_post_boolean_and"} :
       Shaped(x, 2, 1) /\ LeavesBy(x, "other")
  /\ Shaped("cs_questionmark_op_post_expr2", 3, 1)
     /\ LeavesBy("cs_questionmark_op_post_expr2", "other")
<1>1. ASSUME NEW s, NEW a \in Stage, NEW b \in Stage
      PROVE  /\ \A x \in {"cs_elseif_end_evaluate", "end_function_decleration"} :
                  Takes(x, s, a, b) => Trades(0, 0, a, b) /\ Leaves("other", a, b)
             /\ Takes("cs_end_if", s, a, b) => Trades(0, 0, a, b) /\ Leaves("if", a, b)
  BY DEF Takes, Keepers, Giving
<1>2. ASSUME NEW s, NEW a \in Stage, NEW b \in Stage
      PROVE  /\ Takes("cs_end_while", s, a, b) => Trades(0, 0, a, b) /\ Leaves("loop", a, b)
             /\ Takes("cs_end_do_while", s, a, b) => Trades(1, 0, a, b) /\ Leaves("loop", a, b)
             /\ Takes("cs_switch_end", s, a, b) => Trades(0, 0, a, b) /\ Leaves("loop", a, b)
  BY DEF Takes, Keepers, Giving
<1>3. ASSUME NEW s, NEW a \in Stage, NEW b \in Stage
      PROVE  /\ \A x \in {"cs_post_boolean_or", "cs_post_boolean_and"} :
                  Takes(x, s, a, b) => Trades(2, 1, a, b) /\ Leaves("other", a, b)
             /\ Takes("cs_questionmark_op_post_expr2", s, a, b) =>
                  Trades(3, 1, a, b) /\ Leaves("other", a, b)
  BY DEF Takes, Keepers, Giving
<1> QED BY <1>1, <1>2, <1>3, Zenon DEF Shaped, LeavesBy

\* The flag that an action sets, where that follows from the flag alone.
LEMMA StayFlagSame ==
  ASSUME NEW x, ExecuteFlag' = "EXECUTE" => ExecuteFlag = "EXECUTE",
         ExecuteFlag' # "DONT_EXECUTE" => ExecuteFlag # "DONT_EXECUTE"
  PROVE  StayFlag(x)
BY DEF StayFlag, InIf

-----------------------------------------------------------------------------
(* The actions between plain stages *)

LEMMA ShapedAction ==
  ASSUME NEW x, Action(x), NEW t \in 0 .. 3, NEW g \in 0 .. 3, Shaped(x, t, g),
         Exchanged(values, values', t, g), UNCHANGED input,
         for_stack' = for_stack, function_state_stack' = function_state_stack,
         function_state'.type = function_state.type
  PROVE  PlainAction(x)
BY ShapedPasses, Zenon DEF PlainAction

LEMMA Kept ==
  ASSUME NEW vs, NEW t, NEW x
  PROVE  /\ Exchanged(vs, vs, t, t) /\ Exchanged(vs, Pop(vs, t), t, 0)
         /\ Exchanged(vs, Push(x, Pop(vs, t)), t, 1) /\ Exchanged(vs, Push(x, vs), 0, 1)
BY DEF Exchanged

\* The state of a function that has entered or left a loop.
LEMMA StateNested ==
  ASSUME IInv
  PROVE  /\ \A k \in {-1, 0, 1} : Deeper(function_state, Nested(k), k)
                                  /\ Nested(k).type = function_state.type
         /\ Deeper(function_state, function_state, 0)
         /\ \A fs \in {function_state, Nested(-1)} :
              /\ NoChange(fs).loop_change_type = "DO_NOTHING"
              /\ NoChange(fs).type = function_state.type
         /\ \A fs \in FunctionState : NoChange(fs).type = fs.type
         /\ More("loop") = 1 /\ More("if") = 0 /\ More("other") = 0
<1>1. function_state \in FunctionState
  BY FlowTypes
<1>2. \A k \in {-1, 0, 1} : Deeper(function_state, Nested(k), k)
                            /\ Nested(k).type = function_state.type
  BY <1>1 DEF Deeper, Nested, FunctionState
<1>3. Deeper(function_state, function_state, 0)
  BY <1>1 DEF Deeper, FunctionState
<1>4. \A fs \in FunctionState : NoChange(fs).type = fs.type
  BY DEF NoChange, FunctionState
<1>5. /\ NoChange(function_state).loop_change_type = "DO_NOTHING"
      /\ NoChange(function_state).type = function_state.type
      /\ NoChange(Nested(-1)).loop_change_type = "DO_NOTHING"
      /\ NoChange(Nested(-1)).type = function_state.type
  BY <1>1 DEF NoChange, Nested, FunctionState
<1> QED BY <1>2, <1>3, <1>4, <1>5 DEF More

LEMMA cs_start_if_Loops ==
  ASSUME IInv, LoopInv, cs_start_if
  PROVE  LoopInv'
<1>1. PlainAction("cs_start_if")
  BY ShapedAction, EnterShapes, Kept DEF cs_start_if, SetFlow
<1>2. function_state' = function_state /\ (ExecuteFlag' # "DONT_EXECUTE" => ExecuteFlag = "EXECUTE")
  BY FlowTypes DEF cs_start_if, SetFlow
<1>3. SaveFlag
  BY DEF cs_start_if
<1> QED BY <1>1, <1>2, <1>3, EnterStep, EnterShapes, StateNested

LEMMA cs_end_if_Loops ==
  ASSUME IInv, LoopInv, cs_end_if
  PROVE  LoopInv'
<1>1. function_state' = function_state /\ ExecuteFlag' = SavedFlag /\ DropFlag
  BY DEF cs_end_if, SetFlow
<1>2. CASE Action("cs_end_if")
  <2>1. PlainAction("cs_end_if")
    BY <1>1, <1>2, ShapedAction, LeaveShapes, Kept DEF cs_end_if
  <2> QED BY <1>1, <2>1, LeaveStep, LeaveShapes, StateNested
<1>3. CASE Action("cs_elseif_end_evaluate")
  <2>1. PlainAction("cs_elseif_end_evaluate")
    BY <1>1, <1>3, ShapedAction, LeaveShapes, Kept DEF cs_end_if
  <2> QED BY <1>1, <2>1, LeaveStep, LeaveShapes, StateNested
<1> QED BY <1>2, <1>3 DEF cs_end_if

LEMMA start_function_decleration_Loops ==
  ASSUME IInv, LoopInv, start_function_decleration
  PROVE  LoopInv'
<1>1. function_state' = function_state /\ ExecuteFlag' = "DONT_EXECUTE" /\ SaveFlag
  BY DEF start_function_decleration, SetFlow
<1>2. PlainAction("start_function_decleration")
  BY <1>1, ShapedAction, EnterShapes, Kept DEF start_function_decleration
<1> QED BY <1>1, <1>2, EnterStep, EnterShapes, StateNested

LEMMA end_function_decleration_Loops ==
  ASSUME IInv, LoopInv, end_function_decleration
  PROVE  LoopInv'
<1>1. function_state' = function_state /\ ExecuteFlag' = SavedFlag /\ DropFlag
  BY DEF end_function_decleration, SetFlow
<1>2. PlainAction("end_function_decleration")
  BY <1>1, ShapedAction, LeaveShapes, Kept DEF end_function_decleration
<1> QED BY <1>1, <1>2, LeaveStep, LeaveShapes, StateNested

LEMMA cs_switch_start_Loops ==
  ASSUME IInv, LoopInv, cs_switch_start
  PROVE  LoopInv'
<1>1. function_state' = Nested(1) /\ ExecuteFlag' = ExecuteFlag /\ SaveFlag
  BY DEF cs_switch_start
<1>2. PlainAction("cs_switch_start")
  BY <1>1, ShapedAction, EnterShapes, Kept, StateNested DEF cs_switch_start
<1> QED BY <1>1, <1>2, EnterStep, EnterShapes, StateNested

\* A break that was executed in the switch is forgotten.
LEMMA cs_switch_end_Loops ==
  ASSUME IInv, LoopInv, cs_switch_end
  PROVE  LoopInv'
<1>1. ExecuteFlag' = SavedFlag /\ DropFlag
      /\ function_state' =
           IF ~Execute /\ function_state.loop_change_level = function_state.loop_nest_level
           THEN [Nested(-1) EXCEPT !.loop_change_type = "DO_NOTHING"] ELSE Nested(-1)
  BY DEF cs_switch_end, SetFlow
<1>2. /\ function_state'.type = function_state.type
      /\ function_state'.loop_change_type = "DO_NOTHING" \/ function_state' = Nested(-1)
      /\ function_state'.loop_change_type # "DO_NOTHING" =>
           function_state.loop_change_level # function_state.loop_nest_level
  <2>1. /\ Nested(-1).type = function_state.type
        /\ Nested(-1).loop_change_type = function_state.loop_change_type
        /\ LET fs == [Nested(-1) EXCEPT !.loop_change_type = "DO_NOTHING"]
           IN  fs.type = function_state.type /\ fs.loop_change_type = "DO_NOTHING"
    BY FlowTypes DEF Nested, FunctionState
  <2>2. Execute => function_state.loop_change_type = "DO_NOTHING"
    BY FlowTypes
  <2>3. CASE ~Execute /\ function_state.loop_change_level = function_state.loop_nest_level
    BY <1>1, <2>1, <2>3, Zenon
  <2>4. CASE ~ (~Execute /\ function_state.loop_change_level = function_state.loop_nest_level)
    BY <1>1, <2>1, <2>2, <2>4, Zenon
  <2> QED BY <2>3, <2>4, Zenon
<1>3. PlainAction("cs_switch_end")
  <2>1. Action("cs_switch_end") /\ Exchanged(values, values', 0, 0) /\ UNCHANGED input
        /\ for_stack' = for_stack /\ function_state_stack' = function_state_stack
    BY Kept DEF cs_switch_end
  <2> QED BY <1>2, <2>1, ShapedAction, LeaveShapes
<1> QED BY <1>1, <1>2, <1>3, LeaveStep, LeaveShapes, StateNested

\* How an operator skips what follows, and ends.
LEMMA SkipIfLoops ==
  ASSUME IInv, LoopInv, NEW skip, SkipIf(skip),
         NEW x \in {"cs_pre_boolean_or", "cs_pre_boolean_and", "cs_questionmark_op_pre_expr1"},
         Action(x)
  PROVE  LoopInv'
<1>1. SaveFlag /\ function_state' = function_state
      /\ (ExecuteFlag' = "EXECUTE" => ExecuteFlag = "EXECUTE")
  BY DEF SkipIf, SetFlow, flow
<1>2. PlainAction(x)
  <2>1. Shaped(x, 1, 1)
    BY EnterShapes
  <2> QED BY <1>1, <2>1, ShapedAction, Kept DEF SkipIf
<1>3. EntersBy(x, "other")
  BY EnterShapes
<1> QED BY <1>1, <1>2, <1>3, EnterStep, StateNested

LEMMA ResultLoops ==
  ASSUME IInv, LoopInv, NEW result, NEW n \in {2, 3}, Result(result, n), NEW x, Action(x),
         Shaped(x, n, 1), LeavesBy(x, "other")
  PROVE  LoopInv'
<1>1. DropFlag /\ function_state' = function_state /\ ExecuteFlag' = SavedFlag
  BY DEF Result, SetFlow
<1>2. PlainAction(x)
  <2>1. Exchanged(values, values', n, 1)
    BY Kept DEF Result
  <2> QED BY <1>1, <2>1, ShapedAction DEF Result
<1> QED BY <1>1, <1>2, LeaveStep, StateNested

LEMMA OperatorsLoop ==
  ASSUME IInv, LoopInv,
         \/ cs_pre_boolean_or \/ cs_pre_boolean_and \/ cs_questionmark_op_pre_expr1
         \/ cs_post_boolean_or \/ cs_post_boolean_and \/ cs_questionmark_op_post_expr2
  PROVE  LoopInv'
<1>1. CASE cs_pre_boolean_or
  BY <1>1, SkipIfLoops DEF cs_pre_boolean_or
<1>2. CASE cs_pre_boolean_and
  BY <1>2, SkipIfLoops DEF cs_pre_boolean_and
<1>3. CASE cs_questionmark_op_pre_expr1
  BY <1>3, SkipIfLoops DEF cs_questionmark_op_pre_expr1
<1>4. CASE cs_post_boolean_or
  BY <1>4, ResultLoops, LeaveShapes DEF cs_post_boolean_or
<1>5. CASE cs_post_boolean_and
  BY <1>5, ResultLoops, LeaveShapes DEF cs_post_boolean_and
<1>6. CASE cs_questionmark_op_post_expr2
  BY <1>6, ResultLoops, LeaveShapes DEF cs_questionmark_op_post_expr2
<1> QED BY <1>1, <1>2, <1>3, <1>4, <1>5, <1>6

-----------------------------------------------------------------------------
(* The actions that set the flag within a level *)

LEMMA Surrounded ==
  /\ \A x \in {"for_pre_expr2", "for_pre_expr3", "cs_switch_case_post", "for_pre_statement",
               "cs_force_eval_do_while"} :
       \A s : \A a, b \in Stage : Takes(x, s, a, b) => In("loop", a)
  /\ \A s : \A a, b \in Stage : Takes("cs_questionmark_op_pre_expr2", s, a, b) => In("other", a)
  /\ \A x \in {"cs_start_elseif", "cs_start_else", "cs_elseif_start_evaluate"} :
       \A s : \A a, b \in Stage : Takes(x, s, a, b) => In("if", a)
<1>1. ASSUME NEW x \in {"for_pre_expr2", "for_pre_expr3", "cs_switch_case_post",
                        "for_pre_statement", "cs_force_eval_do_while"},
             NEW s, NEW a \in Stage, NEW b \in Stage, Takes(x, s, a, b)
      PROVE  In("loop", a)
  BY <1>1 DEF Takes, Keepers, Giving
<1>2. ASSUME NEW s, NEW a \in Stage, NEW b \in Stage, Takes("cs_questionmark_op_pre_expr2", s, a, b)
      PROVE  In("other", a)
  BY <1>2 DEF Takes, Keepers, Giving
<1>3. ASSUME NEW x \in {"cs_start_elseif", "cs_start_else", "cs_elseif_start_evaluate"},
             NEW s, NEW a \in Stage, NEW b \in Stage, Takes(x, s, a, b)
      PROVE  In("if", a)
  BY <1>3 DEF Takes, Keepers, Giving
<1> QED BY <1>1, <1>2, <1>3

\* Within a loop or an operator, the flag is that saved there, or nothing is executed.
LEMMA StayFlagSaved ==
  ASSUME NEW x \in {"for_pre_expr2", "for_pre_expr3", "cs_switch_case_post", "for_pre_statement",
                    "cs_force_eval_do_while", "cs_questionmark_op_pre_expr2"},
         ExecuteFlag' = "EXECUTE" => SavedFlag = "EXECUTE"
  PROVE  StayFlag(x)
<1>1. ASSUME NEW a \in Stage, NEW b \in Stage, Takes(x, Tok, a, b)
      PROVE  a.e # <<>> /\ ~ In("if", a)
  <2>1. In("loop", a) \/ In("other", a)
    BY <1>1, Surrounded
  <2> QED BY <2>1 DEF In
<1> QED BY <1>1 DEF StayFlag

\* Within an if, what is executed is in what is executed.
LEMMA StayFlagIf ==
  ASSUME NEW x \in {"cs_start_elseif", "cs_start_else"},
         ExecuteFlag' # "DONT_EXECUTE" => ExecuteFlag # "DONT_EXECUTE"
  PROVE  StayFlag(x)
<1>1. ASSUME NEW a \in Stage, NEW b \in Stage, Takes(x, Tok, a, b)
      PROVE  a.e # <<>> /\ In("if", a)
  BY <1>1, Surrounded DEF In
<1> QED BY <1>1 DEF StayFlag, InIf

LEMMA ChainLoops ==
  ASSUME IInv, LoopInv, cs_start_elseif \/ cs_start_else
  PROVE  LoopInv'
<1>1. CASE cs_start_elseif
  <2>1. function_state' = function_state /\ css' = css
        /\ (ExecuteFlag' # "DONT_EXECUTE" => ExecuteFlag # "DONT_EXECUTE")
    BY <1>1 DEF cs_start_elseif, SetFlow, Elseif, stacks
  <2>2. PlainAction("cs_start_elseif")
    <3>1. /\ Action("cs_start_elseif") /\ Exchanged(values, values', 1, 0) /\ UNCHANGED input
          /\ for_stack' = for_stack /\ function_state_stack' = function_state_stack
      BY <1>1, Kept DEF cs_start_elseif, stacks
    <3> QED BY <2>1, <3>1, ShapedAction, StayShapes
  <2> QED BY <2>1, <2>2, StayFlagIf, StayStep, StayShapes
<1>2. CASE cs_start_else
  <2>1. function_state' = function_state /\ css' = css
        /\ (ExecuteFlag' # "DONT_EXECUTE" => ExecuteFlag # "DONT_EXECUTE")
    BY <1>2 DEF cs_start_else, SetFlow, Else, Elseif, stacks
  <2>2. PlainAction("cs_start_else")
    <3>1. /\ Action("cs_start_else") /\ Exchanged(values, values', 0, 0) /\ UNCHANGED input
          /\ for_stack' = for_stack /\ function_state_stack' = function_state_stack
      BY <1>2, Kept DEF cs_start_else, stacks
    <3> QED BY <2>1, <3>1, ShapedAction, StayShapes
  <2> QED BY <2>1, <2>2, StayFlagIf, StayStep, StayShapes
<1> QED BY <1>1, <1>2

\* The flag within a loop or an operator.
LEMMA SavedLoops ==
  ASSUME IInv, LoopInv,
         NEW x \in {"for_pre_expr2", "for_pre_expr3", "cs_switch_case_post",
                    "cs_questionmark_op_pre_expr2"},
         NEW t \in {0, 1}, Shaped(x, t, 0), Staying(x), Action(x), NEW flag, SetFlow(flag, function_state),
         flag = "EXECUTE" => SavedFlag = "EXECUTE",
         Exchanged(values, values', t, 0), UNCHANGED <<input, stacks>>
  PROVE  LoopInv'
<1>1. function_state' = function_state /\ css' = css
      /\ (ExecuteFlag' = "EXECUTE" => SavedFlag = "EXECUTE")
      /\ for_stack' = for_stack /\ function_state_stack' = function_state_stack
      /\ UNCHANGED input
  BY DEF SetFlow, stacks
<1>2. PlainAction(x)
  BY <1>1, ShapedAction
<1>3. StayFlag(x)
  BY <1>1, StayFlagSaved
<1> QED BY <1>1, <1>2, <1>3, StayStep

LEMMA WithinLoops ==
  ASSUME IInv, LoopInv, \/ for_pre_expr2 \/ for_pre_expr3 \/ cs_switch_case_post
                        \/ cs_questionmark_op_pre_expr2
  PROVE  LoopInv'
<1>1. CASE for_pre_expr2
  <2>1. PICK flag : SetFlow(flag, function_state) /\ (flag = "EXECUTE" => SavedFlag = "EXECUTE")
    BY <1>1 DEF for_pre_expr2
  <2>2. Action("for_pre_expr2") /\ Exchanged(values, values', 1, 0) /\ UNCHANGED <<input, stacks>>
    BY <1>1, Kept DEF for_pre_expr2
  <2> QED BY <2>1, <2>2, SavedLoops, StayShapes
<1>2. CASE for_pre_expr3
  <2>1. PICK flag : SetFlow(flag, function_state) /\ (flag = "EXECUTE" => SavedFlag = "EXECUTE")
    BY <1>2 DEF for_pre_expr3
  <2>2. Action("for_pre_expr3") /\ Exchanged(values, values', 0, 0) /\ UNCHANGED <<input, stacks>>
    BY <1>2, Kept DEF for_pre_expr3
  <2> QED BY <2>1, <2>2, SavedLoops, StayShapes
<1>3. CASE cs_switch_case_post
  <2>1. PICK flag : SetFlow(flag, function_state) /\ (flag = "EXECUTE" => SavedFlag = "EXECUTE")
    BY <1>3 DEF cs_switch_case_post
  <2>2. /\ Action("cs_switch_case_post") /\ Exchanged(values, values', 0, 0)
        /\ UNCHANGED <<input, stacks>>
    BY <1>3, Kept DEF cs_switch_case_post
  <2> QED BY <2>1, <2>2, SavedLoops, StayShapes
<1>4. CASE cs_questionmark_op_pre_expr2
  <2>1. PICK flag : SetFlow(flag, function_state) /\ (flag = "EXECUTE" => SavedFlag = "EXECUTE")
    BY <1>4 DEF cs_questionmark_op_pre_expr2
  <2>2. /\ Action("cs_questionmark_op_pre_expr2") /\ Exchanged(values, values', 0, 0)
        /\ UNCHANGED <<input, stacks>>
    BY <1>4, Kept DEF cs_questionmark_op_pre_expr2
  <2> QED BY <2>1, <2>2, SavedLoops, StayShapes
<1> QED BY <1>1, <1>2, <1>3, <1>4

\* Actions that leave the flag alone, or execute nothing more.
LEMMA SameLoops ==
  ASSUME IInv, LoopInv, NEW x, NEW t \in {0, 1}, NEW g \in {0, 1}, Shaped(x, t, g), Staying(x),
         Action(x), Exchanged(values, values', t, g), UNCHANGED input,
         css' = css /\ for_stack' = for_stack /\ function_state_stack' = function_state_stack,
         ExecuteFlag' = "EXECUTE" => ExecuteFlag = "EXECUTE",
         ExecuteFlag' # "DONT_EXECUTE" => ExecuteFlag # "DONT_EXECUTE",
         function_state'.type = function_state.type,
         function_state' = function_state \/ function_state'.loop_change_type = "DO_NOTHING"
  PROVE  LoopInv'
<1>1. PlainAction(x)
  BY ShapedAction
<1>2. StayFlag(x)
  BY StayFlagSame
<1> QED BY <1>1, <1>2, StayStep

LEMMA OperandLoops ==
  ASSUME IInv, LoopInv, evaluate \/ empty \/ drop
  PROVE  LoopInv'
<1>1. CASE evaluate
  <2>1. /\ Action("evaluate") /\ UNCHANGED input /\ UNCHANGED flow /\ UNCHANGED stacks
        /\ \E v : values' = Push(v, values)
    BY <1>1 DEF evaluate
  <2>2. Exchanged(values, values', 0, 1)
    BY <2>1, Kept
  <2> QED BY <2>1, <2>2, SameLoops, StayShapes DEF flow, stacks
<1>2. CASE empty
  <2>1. /\ Action("empty") /\ UNCHANGED input /\ UNCHANGED flow /\ UNCHANGED stacks
        /\ Exchanged(values, values', 0, 1)
    BY <1>2, Kept DEF empty
  <2> QED BY <2>1, SameLoops, StayShapes DEF flow, stacks
<1>3. CASE drop
  <2>1. /\ Action("drop") /\ UNCHANGED input /\ UNCHANGED flow /\ UNCHANGED stacks
        /\ Exchanged(values, values', 1, 0)
    BY <1>3, Kept DEF drop
  <2> QED BY <2>1, SameLoops, StayShapes DEF flow, stacks
<1> QED BY <1>1, <1>2, <1>3

LEMMA CaseLoops ==
  ASSUME IInv, LoopInv, cs_switch_case_pre \/ cs_switch_default_pre
  PROVE  LoopInv'
<1>1. ASSUME NEW equal, Case(equal)
      PROVE  /\ function_state' = function_state /\ UNCHANGED input
             /\ css' = css /\ for_stack' = for_stack /\ function_state_stack' = function_state_stack
             /\ ExecuteFlag' = "EXECUTE" => ExecuteFlag = "EXECUTE"
             /\ ExecuteFlag' # "DONT_EXECUTE" => ExecuteFlag # "DONT_EXECUTE"
  BY <1>1, FlowTypes DEF Case, SetFlow, Chosen, flow
<1>2. CASE cs_switch_case_pre
  <2>1. Action("cs_switch_case_pre") /\ Exchanged(values, values', 1, 0) /\ \E e : Case(e)
    BY <1>2, Kept DEF cs_switch_case_pre
  <2> QED BY <1>1, <2>1, SameLoops, StayShapes
<1>3. CASE cs_switch_default_pre
  <2>1. Action("cs_switch_default_pre") /\ Exchanged(values, values', 0, 0) /\ \E e : Case(e)
    BY <1>3, Kept DEF cs_switch_default_pre
  <2> QED BY <1>1, <2>1, SameLoops, StayShapes
<1> QED BY <1>2, <1>3

\* A return stops the execution of the function.
LEMMA cs_return_Loops ==
  ASSUME IInv, LoopInv, cs_return
  PROVE  LoopInv'
<1>1. /\ Action("cs_return") /\ Exchanged(values, values', 1, 0) /\ UNCHANGED input
      /\ css' = css /\ for_stack' = for_stack /\ function_state_stack' = function_state_stack
  BY Kept DEF cs_return, stacks
<1>2. CASE Execute
  <2>1. /\ ExecuteFlag' = "DONT_EXECUTE"
        /\ function_state' = [function_state EXCEPT !.returned = TRUE]
    BY <1>2 DEF cs_return, SetFlow
  <2>2. function_state \in FunctionState /\ function_state.loop_change_type = "DO_NOTHING"
    BY <1>2, FlowTypes
  <2>3. function_state'.type = function_state.type
        /\ function_state'.loop_change_type = "DO_NOTHING"
    BY <2>1, <2>2 DEF FunctionState
  <2> QED BY <1>1, <2>1, <2>3, SameLoops, StayShapes
<1>3. CASE ~ Execute
  <2>1. UNCHANGED flow
    BY <1>3 DEF cs_return
  <2> QED BY <1>1, <2>1, SameLoops, StayShapes DEF flow
<1> QED BY <1>2, <1>3

\* The condition of an elseif: where the chain was executed, nothing more of it is.
LEMMA cs_elseif_start_evaluate_Loops ==
  ASSUME IInv, LoopInv, cs_elseif_start_evaluate
  PROVE  LoopInv'
<1>1. PICK g, fs, cs, y, z :
        /\ fs \in FunctionState /\ cs \in Seq(Flag)
        /\ g = ExecuteFlag' /\ fs = function_state /\ cs = css /\ y = ExecuteFlag /\ z = Elseif
        /\ css' = Push(z, cs) /\ function_state' = fs
        /\ g = (IF z = "BEFORE_EXECUTE" /\ cs[1] = "EXECUTE" THEN "EXECUTE" ELSE z)
  <2>1. function_state \in FunctionState /\ css \in Seq(Flag)
    BY FlowTypes
  <2>2. /\ css' = Push(Elseif, css) /\ function_state' = function_state
        /\ ExecuteFlag' = (IF Elseif = "BEFORE_EXECUTE" /\ css[1] = "EXECUTE" THEN "EXECUTE"
                          ELSE Elseif)
    BY Zenon DEF cs_elseif_start_evaluate, SetFlow, SavedFlag
  <2> QED BY <2>1, <2>2, Zenon
<1>2. PlainAction("cs_elseif_start_evaluate")
  <2>1. /\ Action("cs_elseif_start_evaluate") /\ Exchanged(values, values', 0, 0)
        /\ UNCHANGED input /\ for_stack' = for_stack
        /\ function_state_stack' = function_state_stack
    BY Kept DEF cs_elseif_start_evaluate
  <2> QED BY <1>1, <2>1, ShapedAction, EnterShapes
<1>3. PICK a \in Stage, b \in Stage :
        Takes("cs_elseif_start_evaluate", Tok, a, b) /\ FlowNow(a) /\ (FlowNow(b)' => LoopInv')
  BY <1>2, PlainStep
<1>4. In("if", a) /\ Enters("other", a, b) /\ InIf(a)
  BY <1>3, Surrounded, EnterShapes, FlagsAt DEF EntersBy
<1>5. FlowFits(a, Push(y, cs), fs)
  BY <1>1, <1>3 DEF FlowNow
<1>6. z \in Flag /\ z # "EXECUTE" /\ (z # "DONT_EXECUTE" => cs[1] = "EXECUTE")
  <2>1. z \in Flag /\ z # "EXECUTE" /\ (z # "DONT_EXECUTE" => y # "DONT_EXECUTE")
    BY <1>1, FlowTypes DEF Elseif, Flag
  <2> QED BY <1>1, <1>4, <2>1 DEF InIf, SavedFlag
<1>7. FlowFits(a, Push(z, cs), fs)
  <2>1. Stays(a, a)
    BY DEF Stays
  <2> QED BY <1>1, <1>4, <1>5, <1>6, <2>1, StayFits
<1>8. PICK fl \in Seq(Flag) : fl = Push(z, cs) /\ (a.e # <<>> => fl[2] = cs[1])
  <2>1. Len(cs) = Len(a.e)
    BY <1>1, <1>3, FlagsAt
  <2>2. Push(z, cs) \in Seq(Flag) /\ \A k \in 1 .. Len(cs) : Push(z, cs)[k + 1] = cs[k]
    <3>1. IsSeq(cs) /\ cs \in Seq(Flag) /\ z \in Flag
      BY <1>1, <1>6 DEF IsSeq
    <3>2. Push(z, cs) \in Seq(Flag)
      BY <3>1, Pushed, Zenon
    <3> QED BY <3>1, <3>2, AnyPushed
  <2>3. a.e # <<>> => 1 \in 1 .. Len(cs)
    BY <1>1, <2>1, StageParts
  <2>4. 1 + 1 = 2
    OBVIOUS
  <2> QED BY <2>2, <2>3, <2>4
<1>9. FlowFits(b, Push(g, fl), fs)
  <2>1. g = "EXECUTE" => a.e # <<>> /\ fl[2] = "EXECUTE"
    BY <1>1, <1>4, <1>6, <1>8 DEF In
  <2>2. Deeper(fs, fs, More("other"))
    BY <1>1, StateNested
  <2>3. FlowFits(a, fl, fs)
    BY <1>7, <1>8
  <2> QED BY <1>1, <1>4, <2>1, <2>2, <2>3, EnterFits
<1>10. FlowNow(b)'
  BY <1>1, <1>8, <1>9 DEF FlowNow
<1> QED BY <1>3, <1>10

\* The loop that is continued is executed.
LEMMA ContinuedExecutes ==
  ASSUME IInv, NEW a \in Stage, FlowNow(a), In("loop", a), a.e[1].loops = a.n,
         ContinuesThisLoop
  PROVE  SavedFlag = "EXECUTE"
<1>1. PICK e, n, f, fs :
        /\ e \in Seq(SavedFor) /\ n \in Nat /\ fs \in FunctionState
        /\ e = a.e /\ n = a.n /\ f = Push(ExecuteFlag, css) /\ fs = function_state
  <2>1. a.e \in Seq(SavedFor) /\ a.n \in Nat /\ function_state \in FunctionState
    BY StageParts, FlowTypes
  <2> QED BY <2>1, Zenon
<1>2. 1 \in 1 .. Len(e) /\ e[1].kind = "loop" /\ e[1].loops = n /\ Len(css) = Len(e)
  BY <1>1, FlagsAt DEF In
<1>3. LeftFits(e, n, f, fs, 1)
  BY <1>1, <1>2 DEF FlowNow, FlowFits, ChangeFits, ContinuesThisLoop, ChangesThisLoop
<1>4. Within(e, 1, 1)
  BY <1>2 DEF Within
<1>5. fs.loop_nest_level - (n - e[1].loops) <= fs.loop_change_level
  <2>1. fs.loop_nest_level \in Nat /\ fs.loop_change_level = fs.loop_nest_level
    BY <1>1 DEF ContinuesThisLoop, ChangesThisLoop, FunctionState
  <2> QED BY <1>1, <1>2, <2>1
<1>6. f[1 + 1] = "EXECUTE"
  BY <1>2, <1>3, <1>4, <1>5 DEF LeftFits
<1>7. f[1 + 1] = css[1]
  BY <1>1, <1>2, FlagsAt
<1> QED BY <1>6, <1>7 DEF SavedFlag

LEMMA cs_force_eval_do_while_Loops ==
  ASSUME IInv, LoopInv, cs_force_eval_do_while
  PROVE  LoopInv'
<1>1. /\ Action("cs_force_eval_do_while") /\ Exchanged(values, values', 0, 0) /\ UNCHANGED input
      /\ css' = css /\ for_stack' = for_stack /\ function_state_stack' = function_state_stack
  BY Kept DEF cs_force_eval_do_while, stacks
<1>2. CASE ~ ContinuesThisLoop
  <2>1. UNCHANGED flow
    BY <1>2 DEF cs_force_eval_do_while
  <2> QED BY <1>1, <2>1, SameLoops, StayShapes DEF flow
<1>3. CASE ContinuesThisLoop
  <2>1. ExecuteFlag' = "EXECUTE" /\ function_state' = NoChange(function_state)
    BY <1>3 DEF cs_force_eval_do_while, SetFlow
  <2>2. function_state'.type = function_state.type
        /\ function_state'.loop_change_type = "DO_NOTHING"
    BY <2>1, StateNested
  <2>3. PlainAction("cs_force_eval_do_while")
    BY <1>1, <2>2, ShapedAction, StayShapes
  <2>4. PICK a \in Stage, b \in Stage :
          Takes("cs_force_eval_do_while", Tok, a, b) /\ FlowNow(a) /\ (FlowNow(b)' => LoopInv')
    BY <2>3, PlainStep
  <2>5. In("loop", a) /\ a.e[1].loops = a.n
    BY <2>4 DEF Takes, Keepers, Giving
  <2>6. SavedFlag = "EXECUTE"
    BY <1>3, <2>4, <2>5, ContinuedExecutes
  <2>7. StayFlag("cs_force_eval_do_while")
    BY <2>6, StayFlagSaved
  <2> QED BY <1>1, <2>2, <2>3, <2>7, StayStep, StayShapes
<1> QED BY <1>2, <1>3

\* What is executed is in loops that are executed.
LEMMA BreakFits ==
  ASSUME NEW e \in Seq(SavedFor), NEW n, NEW fl, fl[1] = "EXECUTE", FlagsFit(e, fl), NEW fs,
         ~ fs.returned, fs.loop_change_level <= fs.loop_nest_level
  PROVE  ChangeFits(e, n, fl, fs)
<1>1. ASSUME NEW q \in 1 .. Len(e), Within(e, 1, q), e[q].kind = "loop"
      PROVE  fl[q + 1] = "EXECUTE"
  <2>1. 1 \in 1 .. Len(e) /\ 1 <= q
    OBVIOUS
  <2>2. LoopFits(e, fl, 1, q)
    BY <2>1 DEF FlagsFit
  <2> QED BY <1>1, <2>1, <2>2 DEF LoopFits
<1> QED BY <1>1 DEF ChangeFits, LeftFits

LEMMA cs_break_continue_Loops ==
  ASSUME IInv, LoopInv, cs_break_continue
  PROVE  LoopInv'
<1>1. /\ Action("cs_break_continue") /\ Exchanged(values, values', 0, 0) /\ UNCHANGED input
      /\ css' = css /\ for_stack' = for_stack /\ function_state_stack' = function_state_stack
      /\ ExecuteFlag' = ExecuteFlag
  BY Kept DEF cs_break_continue, stacks, flow, Die
<1>2. CASE function_state' = function_state
  BY <1>1, <1>2, SameLoops, StayShapes
<1>3. CASE function_state' # function_state
  <2>1. PICK level, type : Execute /\ level \in 1 .. function_state.loop_nest_level
          /\ function_state' = [function_state EXCEPT !.loop_change_level = level,
                                                      !.loop_change_type = type]
    BY <1>3 DEF cs_break_continue, flow, Die
  <2>2. /\ function_state'.type = function_state.type /\ ~ function_state'.returned
        /\ function_state'.loop_change_level <= function_state'.loop_nest_level
    <3>1. function_state \in FunctionState /\ ~ function_state.returned
      BY <2>1, FlowTypes
    <3>2. function_state.loop_nest_level \in Nat
      BY <3>1 DEF FunctionState
    <3> QED BY <2>1, <3>1, <3>2 DEF FunctionState
  <2>3. PlainAction("cs_break_continue")
    BY <1>1, <2>2, ShapedAction, StayShapes
  <2>4. PICK a \in Stage, b \in Stage :
          Takes("cs_break_continue", Tok, a, b) /\ FlowNow(a) /\ (FlowNow(b)' => LoopInv')
    BY <2>3, PlainStep
  <2>5. b.e = a.e /\ b.n = a.n
    BY <2>4, StayShapes DEF Staying, Stays
  <2>6. PICK e, n, fl, fs :
          /\ e \in Seq(SavedFor) /\ e = b.e /\ n = b.n /\ fl = Push(ExecuteFlag, css) /\ fl[1] = "EXECUTE"
          /\ fs = function_state'
    BY <2>1, FlowTypes, StageParts
  <2>7. FlagsFit(e, fl)
    BY <2>4, <2>5, <2>6 DEF FlowNow, FlowFits
  <2>8. ChangeFits(e, n, fl, fs)
    BY <2>2, <2>6, <2>7, BreakFits
  <2>9. FlowNow(b)'
    BY <1>1, <2>6, <2>7, <2>8 DEF FlowNow, FlowFits
  <2> QED BY <2>4, <2>9
<1> QED BY <1>2, <1>3

\* The value of a condition is taken, the offsets in the header stay.
LEMMA for_pre_statement_Loops ==
  ASSUME IInv, LoopInv, for_pre_statement
  PROVE  LoopInv'
<1>1. /\ Action("for_pre_statement") /\ values' = <<values[2]>> \o Pop(values, 3)
      /\ UNCHANGED input /\ css' = css /\ for_stack' = for_stack
      /\ function_state_stack' = function_state_stack /\ function_state' = function_state
      /\ ExecuteFlag' = "EXECUTE" => SavedFlag = "EXECUTE"
  BY DEF for_pre_statement, stacks, SetFlow, SHOULD_EXECUTE
<1>2. ASSUME NEW s, NEW a \in Stage, NEW b \in Stage, Takes("for_pre_statement", s, a, b)
      PROVE  /\ Plain(a) /\ Plain(b) /\ Same(a, b) /\ Stays(a, b)
             /\ ValuesFit(a.w, values) => ValuesFit(b.w, values')
  <2>1. HeaderLeft(a, b)
    BY <1>2 DEF Takes, Keepers, Giving
  <2>2. PICK w \in Seq(Mark), x \in Mark, y \in Mark :
          /\ Plain(a) /\ a.w = Push(Value, Push(x, Push(Value, Push(y, w))))
          /\ b = To(a, Push(x, Push(y, w)), "plain", 0)
    BY <2>1 DEF HeaderLeft
  <2>3. PICK w1 \in Seq(Mark), w2 \in Seq(Mark) : w1 = Push(y, w) /\ w2 = Push(x, w1)
    BY Pushed, Zenon
  <2>4. /\ b.w = w2 /\ b.m = "plain" /\ b.o = 0 /\ b.e = a.e /\ b.n = a.n /\ b.l = a.l
        /\ b.p = a.p /\ b.f = a.f
    BY <2>2, <2>3 DEF To, StageOf
  <2>5. ASSUME ValuesFit(a.w, values) PROVE ValuesFit(b.w, values')
    <3>1. Value \in Mark
      BY MarkTypes
    <3>2. ValuesFit(w1, Pop(values, 3)) /\ ItemFits(x, values[2])
      BY <2>2, <2>3, <2>5, <3>1, FitsPop3
    <3>3. ValuesFit(Push(x, w1), Push(values[2], Pop(values, 3)))
      BY <3>2, FitsPush
    <3> QED BY <1>1, <2>3, <2>4, <3>3 DEF Push
  <2> QED BY <2>2, <2>4, <2>5 DEF Plain, Same, Stays
<1>3. PlainAction("for_pre_statement")
  <2>1. Passes("for_pre_statement")
    BY <1>1, <1>2 DEF Passes, Same, input
  <2> QED BY <1>1, <2>1 DEF PlainAction, MarksStay, input
<1>4. Staying("for_pre_statement") /\ StayFlag("for_pre_statement")
  BY <1>1, <1>2, StayFlagSaved DEF Staying
<1> QED BY <1>1, <1>3, <1>4, StayStep

-----------------------------------------------------------------------------
(* while, and do while *)

\* The type of a token is changed, and nothing else.
LEMMA TurnedTo ==
  ASSUME NEW ts \in Seq(Token), NEW off \in 1 .. Len(ts), NEW type, NEW us,
         us = [ts EXCEPT ![off].type = type]
  PROVE  /\ DOMAIN us = 1 .. Len(ts) /\ us[off].type = type
         /\ \A i \in 1 .. Len(ts) : i # off => us[i] = ts[i]
<1>1. ts \in [1 .. Len(ts) -> Token] /\ DOMAIN ts = 1 .. Len(ts)
  OBVIOUS
<1>2. "type" \in DOMAIN ts[off]
  BY <1>1 DEF Token
<1>3. us = [ts EXCEPT ![off] = [ts[off] EXCEPT !.type = type]]
  BY Zenon
<1>4. us[off] = [ts[off] EXCEPT !.type = type]
  BY <1>1, <1>3
<1> QED BY <1>1, <1>2, <1>3, <1>4

LEMMA UnmarkedTurned ==
  ASSUME NEW ts \in Seq(Token), NEW off \in 1 .. Len(ts), NEW type, type \notin TurnedTypes,
         Unmarked(ts)
  PROVE  Unmarked([ts EXCEPT ![off].type = type])
<1>1. PICK us : us = [ts EXCEPT ![off].type = type]
  OBVIOUS
<1>2. /\ DOMAIN us = 1 .. Len(ts) /\ us[off].type = type
      /\ \A i \in 1 .. Len(ts) : i # off => us[i] = ts[i]
  BY <1>1, TurnedTo
<1>3. DOMAIN ts = 1 .. Len(ts)
  OBVIOUS
<1>4. Unmarked(us)
  BY <1>2, <1>3 DEF Unmarked
<1> QED BY <1>1, <1>4

LEMMA TokensType ==
  ASSUME IInv
  PROVE  /\ tokens \in Seq(Token) /\ InputInv
         /\ \A i \in 1 .. Len(tokens) : tokens[i].offset = i
BY IInvParts DEF InputInv, TokensOK

LoopTypes == {"WHILE", "CONTINUED_WHILE", "DO", "CONTINUED_DOWHILE"}
Ahead(x) == \A s : \A a, b \in Stage : Takes(x, s, a, b) => s.offset > b.p

\* An action that may turn the first token of its loop, and may seek it.
LEMMA TurningAction ==
  ASSUME IInv, NEW x, x \notin Bare, Action(x), NEW t \in 0 .. 3, NEW g \in 0 .. 3, Shaped(x, t, g),
         Exchanged(values, values', t, g),
         tokens' = tokens \/ \E type \in LoopTypes : tokens' = tc_set_token(Tok.offset, type),
         UNCHANGED <<pos, yychar>> \/ (seek_token(Tok.offset) /\ Ahead(x)),
         shutdown' = shutdown, for_stack' = for_stack,
         function_state_stack' = function_state_stack, function_state'.type = function_state.type
  PROVE  PlainAction(x)
<1>1. parse # <<>> /\ Head(parse).sym = x
  BY AtAction
<1>2. PICK off \in 1 .. Len(tokens) : off = Tok.offset
  BY <1>1, TokensType, TokenOfAction
<1>3. ASSUME Unmarked(tokens), NoMark(yychar) PROVE Unmarked(tokens)' /\ NoMark(yychar)'
  <2>1. NoMark(yychar)'
    BY <1>3 DEF seek_token, NoMark
  <2>2. CASE tokens' = tokens
    BY <1>3, <2>1, <2>2
  <2>3. ASSUME NEW type \in LoopTypes, tokens' = tc_set_token(Tok.offset, type)
        PROVE  Unmarked(tokens)' /\ NoMark(yychar)'
    <3>1. type \notin TurnedTypes
      BY DEF LoopTypes, TurnedTypes
    <3>2. Unmarked([tokens EXCEPT ![off].type = type])
      BY <1>3, <3>1, UnmarkedTurned, TokensType
    <3>3. tokens' = [tokens EXCEPT ![off].type = type]
      BY <1>2, <2>3 DEF tc_set_token
    <3>4. Unmarked(tokens')
      BY <3>2, <3>3, Zenon
    <3> QED BY <2>1, <3>4
  <2> QED BY <2>2, <2>3
<1>4. ASSUME NEW a \in Stage, NEW b \in Stage, Takes(x, Tok, a, b)
      PROVE  /\ Plain(a) /\ Plain(b) /\ Same(a, b)
             /\ ValuesFit(a.w, values) => ValuesFit(b.w, values')
             /\ PlaceFits(a.p, pos, yychar) => PlaceFits(b.p, pos', yychar')
  <2>1. Plain(a) /\ Plain(b) /\ Same(a, b) /\ Gives(t, g, a, b)
    BY <1>4 DEF Trades, Shaped
  <2>2. ValuesFit(a.w, values) => ValuesFit(b.w, values')
    BY <2>1, ExchangedFits
  <2>3. PlaceFits(a.p, pos, yychar) => PlaceFits(b.p, pos', yychar')
    <3>1. CASE UNCHANGED <<pos, yychar>>
      BY <2>1, <3>1 DEF Same
    <3>2. CASE seek_token(Tok.offset) /\ Ahead(x)
      BY <1>4, <3>2 DEF Ahead, seek_token, PlaceFits, LookFits
    <3> QED BY <3>1, <3>2
  <2> QED BY <2>1, <2>2, <2>3
<1> QED BY <1>3, <1>4, Zenon DEF PlainAction, Passes, MarksStay

\* The end of a loop leaves its level, and what break or continue asked for is done.
LEMMA LoopLeft ==
  ASSUME IInv, LeaveLoop
  PROVE  LeavesLevel("loop")
<1>1. /\ DropFlag /\ ExecuteFlag' = SavedFlag
      /\ function_state' =
           IF ~Execute /\ ChangesThisLoop THEN NoChange(Nested(-1)) ELSE Nested(-1)
  BY DEF LeaveLoop, SetFlow
<1>2. CASE ~Execute /\ ChangesThisLoop
  <2>1. function_state'.loop_change_type = "DO_NOTHING"
    BY <1>1, <1>2, StateNested
  <2> QED BY <1>1, <2>1 DEF LeavesLevel
<1>3. CASE ~ (~Execute /\ ChangesThisLoop)
  <2>1. Deeper(function_state, function_state', - More("loop"))
    BY <1>1, <1>3, StateNested
  <2>2. function_state'.loop_change_type # "DO_NOTHING" =>
          function_state.loop_change_level # function_state.loop_nest_level
    <3>1. function_state'.loop_change_type = function_state.loop_change_type
      BY <2>1 DEF Deeper
    <3>2. Execute => function_state.loop_change_type = "DO_NOTHING"
      BY FlowTypes
    <3> QED BY <1>3, <3>1, <3>2 DEF ChangesThisLoop
  <2> QED BY <1>1, <2>1, <2>2 DEF LeavesLevel
<1> QED BY <1>2, <1>3

LEMMA LeavingLoop ==
  ASSUME IInv, LoopInv, NEW x, PlainAction(x), LeavesBy(x, "loop"), LeaveLoop
  PROVE  LoopInv'
BY LoopLeft, LeaveStep DEF LeavesLevel

LEMMA LeftType ==
  ASSUME IInv, LeaveLoop
  PROVE  function_state'.type = function_state.type
BY StateNested DEF LeaveLoop, SetFlow

LEMMA cs_start_while_Loops ==
  ASSUME IInv, LoopInv, cs_start_while
  PROVE  LoopInv'
<1>1. /\ SaveFlag /\ function_state' = Nested(1)
      /\ ExecuteFlag' = "EXECUTE" => ExecuteFlag = "EXECUTE"
  BY FlowTypes DEF cs_start_while, SetFlow
<1>2. function_state'.type = function_state.type
      /\ Deeper(function_state, function_state', More("loop"))
  BY <1>1, StateNested
<1>3. tokens' = tokens \/ \E type \in LoopTypes : tokens' = tc_set_token(Tok.offset, type)
  BY DEF cs_start_while, ResetToken, LoopTypes
<1>4. /\ Action("cs_start_while") /\ Exchanged(values, values', 1, 0) /\ UNCHANGED <<pos, yychar>>
      /\ shutdown' = shutdown /\ for_stack' = for_stack
      /\ function_state_stack' = function_state_stack
  BY Kept DEF cs_start_while
<1>5. "cs_start_while" \notin Bare
  BY DEF Bare
<1>6. PlainAction("cs_start_while")
  BY <1>2, <1>3, <1>4, <1>5, TurningAction, EnterShapes
<1> QED BY <1>1, <1>2, <1>6, EnterStep, EnterShapes

LEMMA cs_end_while_Loops ==
  ASSUME IInv, LoopInv, cs_end_while
  PROVE  LoopInv'
<1>1. LeaveLoop
  BY DEF cs_end_while
<1>2. /\ tokens' = tokens \/ \E type \in LoopTypes : tokens' = tc_set_token(Tok.offset, type)
      /\ UNCHANGED <<pos, yychar>> \/ seek_token(Tok.offset)
  BY DEF cs_end_while, Repeat, GoOn, LoopTypes
<1>3. /\ Action("cs_end_while") /\ Exchanged(values, values', 0, 0)
      /\ shutdown' = shutdown /\ for_stack' = for_stack
      /\ function_state_stack' = function_state_stack
  BY Kept DEF cs_end_while
<1>4. "cs_end_while" \notin Bare
  BY DEF Bare
<1>5. Ahead("cs_end_while")
  BY DEF Ahead, Takes, Keepers, Giving
<1>6. PlainAction("cs_end_while")
  BY <1>1, <1>2, <1>3, <1>4, <1>5, TurningAction, LeaveShapes, LeftType
<1> QED BY <1>1, <1>6, LeavingLoop, LeaveShapes

LEMMA cs_start_do_while_Loops ==
  ASSUME IInv, LoopInv, cs_start_do_while
  PROVE  LoopInv'
<1>1. SaveFlag /\ function_state' = Nested(1) /\ ExecuteFlag' = ExecuteFlag
  BY DEF cs_start_do_while
<1>2. function_state'.type = function_state.type
      /\ Deeper(function_state, function_state', More("loop"))
  BY <1>1, StateNested
<1>3. tokens' = tokens \/ \E type \in LoopTypes : tokens' = tc_set_token(Tok.offset, type)
  BY DEF cs_start_do_while, ResetToken, LoopTypes
<1>4. /\ Action("cs_start_do_while") /\ Exchanged(values, values', 0, 0)
      /\ UNCHANGED <<pos, yychar>> /\ shutdown' = shutdown /\ for_stack' = for_stack
      /\ function_state_stack' = function_state_stack
  BY Kept DEF cs_start_do_while
<1>5. "cs_start_do_while" \notin Bare
  BY DEF Bare
<1>6. PlainAction("cs_start_do_while")
  BY <1>2, <1>3, <1>4, <1>5, TurningAction, EnterShapes
<1> QED BY <1>1, <1>2, <1>6, EnterStep, EnterShapes

LEMMA cs_end_do_while_Loops ==
  ASSUME IInv, LoopInv, cs_end_do_while
  PROVE  LoopInv'
<1>1. LeaveLoop
  BY DEF cs_end_do_while
<1>2. /\ tokens' = tokens \/ \E type \in LoopTypes : tokens' = tc_set_token(Tok.offset, type)
      /\ UNCHANGED <<pos, yychar>> \/ seek_token(Tok.offset)
  BY DEF cs_end_do_while, Repeat, GoOn, LoopTypes
<1>3. /\ Action("cs_end_do_while") /\ Exchanged(values, values', 1, 0)
      /\ shutdown' = shutdown /\ for_stack' = for_stack
      /\ function_state_stack' = function_state_stack
  BY Kept DEF cs_end_do_while
<1>4. "cs_end_do_while" \notin Bare
  BY DEF Bare
<1>5. Ahead("cs_end_do_while")
  BY DEF Ahead, Takes, Keepers, Giving
<1>6. PlainAction("cs_end_do_while")
  BY <1>1, <1>2, <1>3, <1>4, <1>5, TurningAction, LeaveShapes, LeftType
<1> QED BY <1>1, <1>6, LeavingLoop, LeaveShapes

-----------------------------------------------------------------------------
(* A symbol is passed *)

\* The stages before and behind the next symbol.
LEMMA SymbolStep ==
  ASSUME IInv, LoopInv, Running, parse # <<>>, parse' = Tail(parse), suspended' = suspended
  PROVE  \E a \in Stage, b \in Stage :
           /\ Takes(Head(parse).sym, Tok, a, b) /\ FlowNow(a) /\ ValuesFit(a.w, values)
           /\ RestFits(a)
           /\ FlowNow(b)' /\ ValuesFit(b.w, values') /\ RestFits(b)' => LoopInv'
<1>1. PICK U, a : Course(U, a, parse, suspended) /\ FramesFit(U, suspended) /\ Fits(a)
  BY LoopAt
<1>2. parse \in Seq(Items(TokenOrEOF))
  BY IInvParts DEF InputInv, SymbolsOK
<1>3. PICK b \in Stage : Takes(Head(parse).sym, Tok, a, b) /\ Course(U, b, Tail(parse), suspended)
  <2>1. \E c \in Stage : Takes(Head(parse).sym, Head(parse).tok, a, c)
                         /\ Course(U, c, Tail(parse), suspended)
    BY <1>1, <1>2, CourseStep
  <2> QED BY <2>1 DEF Tok
<1>4. a \in Stage /\ FlowNow(a) /\ ValuesFit(a.w, values) /\ RestFits(a)
  BY <1>1 DEF Course, Fits, FlowNow
<1>5. ASSUME FlowNow(b)', ValuesFit(b.w, values'), RestFits(b)' PROVE LoopInv'
  <2>1. Fits(b)'
    BY <1>5, FitsNext
  <2>2. Course(U, b, parse', suspended') /\ FramesFit(U, suspended')
    BY <1>1, <1>3
  <2> QED BY <2>1, <2>2, LoopNext
<1> QED BY <1>3, <1>4, <1>5

\* What holds at a quiet stage holds at the next.
LEMMA QuietStageNext ==
  ASSUME NEW b, b.m \in QuietMoments, QuietFits(b)'
  PROVE  RestFits(b)'
BY QuietRestNext

LEMMA FlowSameNext ==
  ASSUME NEW a, NEW b, FlowNow(a), b.e = a.e, b.n = a.n, UNCHANGED <<ExecuteFlag, css, function_state>>
  PROVE  FlowNow(b)'
BY DEF FlowNow, FlowFits

-----------------------------------------------------------------------------
(* for *)

\* The header of a for: where the loop is repeated, its first token was turned.
LEMMA for_pre_expr1_Loops ==
  ASSUME IInv, LoopInv, for_pre_expr1
  PROVE  LoopInv'
<1>1. /\ Action("for_pre_expr1") /\ SaveFlag /\ ResetToken("FOR")
      /\ UNCHANGED <<pos, yychar, shutdown, values, for_stack, function_state_stack>>
      /\ function_state' = Nested(1)
      /\ ExecuteFlag' = "EXECUTE" => ExecuteFlag = "EXECUTE"
  BY FlowTypes DEF for_pre_expr1, SetFlow
<1>2. function_state'.type = function_state.type
      /\ Deeper(function_state, function_state', More("loop"))
  BY <1>1, StateNested
<1>3. /\ Running /\ parse # <<>> /\ Head(parse).sym = "for_pre_expr1"
      /\ parse' = Tail(parse) /\ suspended' = suspended
  BY <1>1, AtAction
<1>4. PICK a \in Stage, b \in Stage :
        /\ Takes("for_pre_expr1", Tok, a, b) /\ FlowNow(a) /\ ValuesFit(a.w, values)
        /\ RestFits(a)
        /\ FlowNow(b)' /\ ValuesFit(b.w, values') /\ RestFits(b)' => LoopInv'
  BY <1>3, SymbolStep
<1>5. /\ Same(a, b) /\ Gives(0, 0, a, b) /\ Enters("loop", a, b) /\ Plain(b)
      /\ Plain(a) \/ (a.m = "repeated" /\ a.o = Tok.offset)
  BY <1>4 DEF Takes, Keepers, Giving
<1>6. PICK off \in 1 .. Len(tokens) : off = Tok.offset
  <2>1. "for_pre_expr1" \notin Bare
    BY DEF Bare
  <2> QED BY <1>3, <2>1, TokensType, TokenOfAction
<1>7. /\ \A i \in DOMAIN tokens : tokens[i].type \in TurnedTypes =>
           tokens[i].type = "CONTINUED_FOR" /\ Execute /\ i = off
      /\ NoMark(yychar) /\ ~ Asking(a, values) /\ ~ Again(a, tokens)
      /\ shutdown # "TERMINATE"
  BY <1>4, <1>5, <1>6
     DEF RestFits, TokensFit, TokenFits, Plain, TurnedTypes, Asking, Again, MomentFits
<1>8. Unmarked(tokens)'
  <2>1. CASE Execute
    <3>1. tokens' = [tokens EXCEPT ![off].type = "FOR"]
      BY <1>1, <1>6, <2>1 DEF ResetToken, tc_set_token
    <3>2. /\ DOMAIN tokens' = 1 .. Len(tokens) /\ tokens'[off].type = "FOR"
          /\ \A i \in 1 .. Len(tokens) : i # off => tokens'[i] = tokens[i]
      BY <3>1, TurnedTo, TokensType
    <3>3. DOMAIN tokens = 1 .. Len(tokens)
      BY TokensType
    <3> QED BY <1>7, <3>2, <3>3 DEF Unmarked, TurnedTypes
  <2>2. CASE ~ Execute
    BY <1>1, <1>7, <2>2 DEF ResetToken, Unmarked
  <2> QED BY <2>1, <2>2
<1>9. QuietFits(b)'
  <2>1. TypesOf(function_state, function_state_stack)' = b.f
    <3>1. TypesOf(function_state, function_state_stack)'
          = TypesOf(function_state, function_state_stack)
      BY <1>1, <1>2 DEF TypesOf
    <3> QED BY <1>4, <1>5, <1>7, <3>1 DEF RestFits, FunctionsFit, Same
  <2>2. AllCalm(function_state_stack)' /\ for_stack' = b.l /\ shutdown' # "TERMINATE"
    BY <1>1, <1>4, <1>5, <1>7 DEF RestFits, FunctionsFit, ForsFit, Same
  <2>3. NoMark(yychar)' /\ PlaceFits(b.p, pos', yychar')
    BY <1>1, <1>4, <1>5, <1>7 DEF RestFits, Same
  <2>4. b.m # "entered"
    BY <1>5, PlainQuiet
  <2> QED BY <1>8, <2>1, <2>2, <2>3, <2>4 DEF QuietFits
<1>10. RestFits(b)'
  <2>1. b.m \in QuietMoments
    BY <1>5, PlainQuiet
  <2> QED BY <1>9, <2>1, QuietStageNext
<1>11. ValuesFit(b.w, values')
  <2>1. Exchanged(values, values', 0, 0)
    BY <1>1, Kept
  <2> QED BY <1>4, <1>5, <2>1, ExchangedFits
<1>12. FlowNow(b)'
  <2>1. PICK fl, fs, g, fs2 :
          /\ fl \in Seq(Flag) /\ fs \in FunctionState
          /\ fl = Push(ExecuteFlag, css) /\ fl[1] = ExecuteFlag /\ fs = function_state
          /\ g = ExecuteFlag' /\ fs2 = function_state'
    <3>1. Push(ExecuteFlag, css) \in Seq(Flag) /\ Push(ExecuteFlag, css)[1] = ExecuteFlag
          /\ function_state \in FunctionState
      BY FlowTypes
    <3> QED BY <3>1, Zenon
  <2>2. FlowFits(a, fl, fs)
    BY <1>4, <2>1 DEF FlowNow
  <2>3. FlowFits(b, Push(g, fl), fs2)
    BY <1>1, <1>2, <1>5, <2>1, <2>2, EnterFits
  <2> QED BY <1>1, <2>1, <2>3 DEF FlowNow, SaveFlag
<1> QED BY <1>4, <1>10, <1>11, <1>12

\* The tokens of a header are moved, not turned.
LEMMA SubOfSeq ==
  ASSUME NEW Q, NEW s \in Seq(Q), NEW i \in Int, NEW j \in Int, 1 <= i, j <= Len(s)
  PROVE  SubSeq(s, i, j) \in Seq(Q)
OBVIOUS

LEMMA SwitchedUnmarked ==
  ASSUME tokens \in Seq(Token), Unmarked(tokens),
         NEW start \in Int, NEW middle \in Int, NEW end \in Int
  PROVE  Unmarked(tc_switch(start, end, middle))
<1>1. CASE start < 1 \/ end > Len(tokens) \/ middle < start \/ middle > end
  BY <1>1, Zenon DEF tc_switch
<1>2. CASE ~ (start < 1 \/ end > Len(tokens) \/ middle < start \/ middle > end)
  <2>1. PICK n, Q : n \in Nat /\ n = Len(tokens)
                    /\ Q = {t \in Token : t.type \notin TurnedTypes}
    <3>1. Len(tokens) \in Nat
      OBVIOUS
    <3> QED BY <3>1, Zenon
  <2>2. tokens \in Seq(Q)
    BY <2>1 DEF Unmarked
  <2>3. 1 <= start /\ end <= n /\ start <= middle /\ middle <= end
    BY <1>2, <2>1
  <2>4. /\ SubSeq(tokens, 1, start - 1) \in Seq(Q) /\ SubSeq(tokens, middle + 1, end) \in Seq(Q)
        /\ SubSeq(tokens, start, middle - 1) \in Seq(Q) /\ SubSeq(tokens, end + 1, n) \in Seq(Q)
    <3>1. 1 <= 1 /\ start - 1 <= n /\ 1 <= middle + 1 /\ middle - 1 <= n /\ 1 <= end + 1 /\ n <= n
      BY <2>1, <2>3
    <3> QED BY <2>1, <2>2, <2>3, <3>1, SubOfSeq
  <2>5. <<tokens[middle]>> \in Seq(Q)
    <3>1. tokens[middle] \in Q
      BY <2>1, <2>2, <2>3
    <3> QED BY <3>1
  <2>6. PICK ts \in Seq(Q) : ts = Switched(start, end, middle)
    <3>1. PICK A, B, C, D, F :
            /\ A \in Seq(Q) /\ B \in Seq(Q) /\ C \in Seq(Q) /\ D \in Seq(Q) /\ F \in Seq(Q)
            /\ A = SubSeq(tokens, 1, start - 1) /\ B = SubSeq(tokens, middle + 1, end)
            /\ C = <<tokens[middle]>> /\ D = SubSeq(tokens, start, middle - 1)
            /\ F = SubSeq(tokens, end + 1, n)
      BY <2>4, <2>5, Zenon
    <3>2. A \o B \o C \o D \o F \in Seq(Q)
      BY <3>1
    <3> QED BY <2>1, <3>1, <3>2, Zenon DEF Switched
  <2>7. tc_switch(start, end, middle) = Renumbered(ts)
    BY <1>2, <2>6, Zenon DEF tc_switch
  <2>8. \A i \in DOMAIN ts : [ts[i] EXCEPT !.offset = i].type = ts[i].type
                             /\ ts[i].type \notin TurnedTypes
    <3>1. \A i \in DOMAIN ts : ts[i] \in Q
      OBVIOUS
    <3> QED BY <2>1, <3>1 DEF Token
  <2>9. Unmarked(Renumbered(ts))
    BY <2>8, Zenon DEF Unmarked, Renumbered
  <2> QED BY <2>7, <2>9
<1> QED BY <1>1, <1>2

\* The offsets of the header at the end of a for, and the tokens between them.
LEMMA HeaderOffsets ==
  ASSUME IInv, for_post_statement
  PROVE  /\ values[1] \in 1 .. Len(tokens) - 1 /\ values[2] \in 1 .. Len(tokens) - 1
         /\ values[3] \in 1 .. Len(tokens) - 1
         /\ TokensOK(tc_switch(values[3] + 1, values[1] - 1, values[2]), Len(tokens))
<1>1. Action("for_post_statement")
  BY DEF for_post_statement
<1>2. /\ \E U, a, b : Between(U, a, b)
      /\ Head(parse).sym = "for_post_statement" /\ InputInv /\ Len(tokens) \in Nat
  BY <1>1, ActionBetween, Zenon
<1>3. PICK U, a, b : Between(U, a, b)
  BY <1>2, Zenon
<1>4. LeavesFor(a, b)
  BY <1>2, <1>3 DEF Between, Effect, Idle, Giving, Dropping
<1>5. PICK n \in Nat : n = Len(tokens) /\ TokensOK(tokens, n)
  BY <1>2, InputParts
<1>6. PICK w \in Seq(Kind) : a.v = Push("offset", Push("offset", Push("offset", w)))
  BY <1>4 DEF LeavesFor
<1>7. values[1] \in 1 .. n - 1 /\ values[2] \in 1 .. n - 1 /\ values[3] \in 1 .. n - 1
  <2>1. Conforms(values, Push("offset", Push("offset", Push("offset", w))), n)
    BY <1>3, <1>5, <1>6 DEF Between, IsAt
  <2>2. /\ ValueIs("offset", values[1], n) /\ ValueIs("offset", values[2], n)
        /\ ValueIs("offset", values[3], n)
    <3>1. "offset" \in Kind
      BY DEF Kind
    <3> QED BY <2>1, <3>1, ConformsPop3
  <2> QED BY <2>2 DEF ValueIs
<1>8. values[3] + 1 \in Int /\ values[1] - 1 \in Int /\ values[1] - 1 <= n - 1 /\ values[2] \in Int
  BY <1>7
<1>9. TokensOK(tc_switch(values[3] + 1, values[1] - 1, values[2]), n)
  BY <1>5, <1>8, Switching
<1> QED BY <1>5, <1>7, <1>9

\* After a for: its first token is turned if and only if the loop is repeated.
LEMMA ForTokens ==
  ASSUME IInv, for_post_statement, Unmarked(tokens), NEW again, again = (Execute \/ ContinuesThisLoop)
  PROVE  /\ Tok.offset \in 1 .. Len(tokens) /\ Tok.offset \in DOMAIN tokens'
         /\ again <=> tokens'[Tok.offset].type = "CONTINUED_FOR"
         /\ tokens'[Tok.offset].type # "IC_FUNCTION"
         /\ \A i \in DOMAIN tokens' : i # Tok.offset => tokens'[i].type \notin TurnedTypes
<1>1. PICK n \in Nat : n = Len(tokens) /\ tokens \in Seq(Token)
  BY TokensType
<1>2. PICK off \in 1 .. n : off = Tok.offset
  <2>1. "for_post_statement" \notin Bare
    BY DEF Bare
  <2>2. parse # <<>> /\ Head(parse).sym = "for_post_statement"
    BY AtAction DEF for_post_statement
  <2> QED BY <1>1, <2>1, <2>2, TokensType, TokenOfAction
<1>3. PICK us \in Seq(Token) :
        us = tc_switch(values[3] + 1, values[1] - 1, values[2]) /\ Len(us) = n /\ Unmarked(us)
  <2>1. TokensOK(tc_switch(values[3] + 1, values[1] - 1, values[2]), n)
    BY <1>1, HeaderOffsets
  <2>2. values[3] + 1 \in Int /\ values[1] - 1 \in Int /\ values[2] \in Int
    <3>1. values[1] \in 1 .. n - 1 /\ values[2] \in 1 .. n - 1 /\ values[3] \in 1 .. n - 1
      BY <1>1, HeaderOffsets
    <3> QED BY <3>1
  <2>3. Unmarked(tc_switch(values[3] + 1, values[1] - 1, values[2]))
    BY <1>1, <2>2, SwitchedUnmarked
  <2> QED BY <2>1, <2>3, Zenon DEF TokensOK
<1>4. PICK ts, vs :
        /\ vs = [us EXCEPT ![off].switched = TRUE] /\ ts = IF Tok.switched THEN tokens ELSE vs
        /\ ts \in Seq(Token) /\ Len(ts) = n /\ Unmarked(ts)
  <2>1. PICK vs : vs = [us EXCEPT ![off].switched = TRUE]
    OBVIOUS
  <2>2. us \in [1 .. n -> Token] /\ us[off] \in Token
    BY <1>3
  <2>3. [us[off] EXCEPT !.switched = TRUE] \in Token
        /\ [us[off] EXCEPT !.switched = TRUE].type = us[off].type
    BY <2>2 DEF Token
  <2>4. vs \in [1 .. n -> Token] /\ vs[off].type = us[off].type
        /\ \A i \in 1 .. n : i # off => vs[i] = us[i]
    BY <2>1, <2>2, <2>3
  <2>5. vs \in Seq(Token) /\ Len(vs) = n
    BY <2>4
  <2>6. Unmarked(vs)
    <3>1. \A i \in 1 .. n : us[i].type \notin TurnedTypes
      BY <1>3, <2>2 DEF Unmarked
    <3> QED BY <2>4, <3>1 DEF Unmarked
  <2>7. CASE Tok.switched
    BY <1>1, <2>1, <2>7, Zenon
  <2>8. CASE ~ Tok.switched
    BY <2>1, <2>5, <2>6, <2>8, Zenon
  <2> QED BY <2>7, <2>8
<1>5. \/ again /\ tokens' = [ts EXCEPT ![off].type = "CONTINUED_FOR"]
      \/ ~ again /\ tokens' = ts
  BY <1>2, <1>3, <1>4, Zenon DEF for_post_statement
<1>6. DOMAIN ts = 1 .. n /\ \A i \in 1 .. n : ts[i].type \notin TurnedTypes
  BY <1>4 DEF Unmarked
<1>7. CASE again
  <2>1. /\ DOMAIN tokens' = 1 .. n /\ tokens'[off].type = "CONTINUED_FOR"
        /\ \A i \in 1 .. n : i # off => tokens'[i] = ts[i]
    <3>1. ts \in Seq(Token) /\ off \in 1 .. Len(ts) /\ Len(ts) = n
      BY <1>4
    <3>2. tokens' = [ts EXCEPT ![off].type = "CONTINUED_FOR"]
      BY <1>5, <1>7
    <3> QED BY <3>1, <3>2, TurnedTo
  <2> QED BY <1>1, <1>2, <1>6, <1>7, <2>1
<1>8. CASE ~ again
  BY <1>1, <1>2, <1>5, <1>6, <1>8 DEF TurnedTypes
<1>9. again \in BOOLEAN
  OBVIOUS
<1> QED BY <1>7, <1>8

\* The for is on for_stack if and only if it is being repeated.
LEMMA ForsAfter ==
  ASSUME NEW a \in Stage, NEW b \in Stage, NEW t, ForLeft(t, a, b), for_stack = a.l, NEW again
  PROVE  /\ ForStackAfter(again, t) = IF again THEN Push(b.o, b.l) ELSE b.l
         /\ b.p <= a.p /\ b.o = t.offset /\ b.o > b.p
<1>1. PICK l \in Seq(Int), k \in Seq(Int), o \in Nat, p \in Nat, q \in Nat :
        l = a.l /\ k = b.l /\ o = b.o /\ p = a.p /\ q = b.p /\ (l # <<>> => l[1] <= p)
  BY StageParts
<1>2. /\ o = t.offset /\ o > q
      /\ IF t.type = "CONTINUED_FOR" THEN l = Push(o, k) /\ p = o ELSE l = k /\ p = q
  BY <1>1 DEF ForLeft
<1>3. CASE t.type = "CONTINUED_FOR"
  <2>1. l = Push(o, k) /\ p = o
    BY <1>2, <1>3
  <2>2. l # <<>> /\ l[1] = o /\ Pop(l, 1) = k
    <3>1. IsSeq(k)
      BY DEF IsSeq
    <3> QED BY <2>1, <3>1, AnyPushed
  <2>3. Iterating(t)
    BY <1>1, <1>2, <2>2 DEF Iterating
  <2> QED BY <1>1, <1>2, <2>1, <2>2, <2>3 DEF ForStackAfter
<1>4. CASE t.type # "CONTINUED_FOR"
  <2>1. l = k /\ p = q
    BY <1>2, <1>4
  <2>2. ~ Iterating(t)
    BY <1>1, <1>2, <2>1 DEF Iterating
  <2> QED BY <1>1, <1>2, <2>1, <2>2 DEF ForStackAfter
<1> QED BY <1>3, <1>4

\* A parser that is ahead of a token is ahead of those before it.
LEMMA PlaceBack ==
  ASSUME IInv, NEW p \in Nat, NEW q \in Nat, q <= p, PlaceFits(p, pos, yychar)
  PROVE  PlaceFits(q, pos, yychar)
<1>1. pos \in Nat /\ (yychar = EMPTY \/ yychar.type = "EOF" \/ yychar.offset \in Nat)
  <2>1. PICK n \in Nat : LookaheadOK(yychar, n) /\ PlaceOK(pos, yychar, parse, n)
    BY IInvParts, InputParts
  <2>2. pos \in Nat
    BY <2>1 DEF PlaceOK
  <2>3. \A t \in Token : t.offset \in Nat
    BY DEF Token
  <2>4. yychar = EMPTY \/ yychar = EOF \/ yychar \in Token
    BY <2>1, Zenon DEF LookaheadOK, Read
  <2>5. EOF.type = "EOF"
    BY DEF EOF
  <2> QED BY <2>2, <2>3, <2>4, <2>5, Zenon
<1> QED BY <1>1 DEF PlaceFits, LookFits

\* Where a loop is repeated, what is around it is executed.
LEMMA AgainExecutes ==
  ASSUME IInv, NEW a \in Stage, NEW b \in Stage, FlowNow(a), Leaves("loop", a, b), LeaveLoop,
         Execute \/ ContinuesThisLoop
  PROVE  Execute'
<1>1. SavedFlag = "EXECUTE"
  <2>1. CASE Execute
    <3>1. ExecuteFlag = "EXECUTE" /\ LeavesLevel("loop")
      BY <2>1, FlowTypes, LoopLeft
    <3>2. "loop" \in {"loop", "if", "other"}
      OBVIOUS
    <3> QED BY <3>1, <3>2, LeaveFlow
  <2>2. CASE ContinuesThisLoop
    <3>1. PICK e \in Seq(SavedFor), n \in Nat : e = b.e /\ n = a.n
      BY StageParts
    <3>2. a.e = Push(For("loop", n), e)
      BY <3>1 DEF Leaves
    <3>3. Push(For("loop", n), e) # <<>> /\ Push(For("loop", n), e)[1] = For("loop", n)
      <4>1. IsSeq(e)
        BY DEF IsSeq
      <4> QED BY <4>1, AnyPushed
    <3>4. In("loop", a) /\ a.e[1].loops = a.n
      BY <3>1, <3>2, <3>3 DEF In, For
    <3> QED BY <2>2, <3>4, ContinuedExecutes
  <2> QED BY <2>1, <2>2
<1>2. /\ ~ function_state'.returned /\ function_state'.loop_change_type = "DO_NOTHING"
      /\ Execute' = SHOULD_EXECUTE(SavedFlag, function_state')
  <2>1. /\ function_state' =
             IF ~Execute /\ ChangesThisLoop THEN NoChange(Nested(-1)) ELSE Nested(-1)
        /\ Execute' = SHOULD_EXECUTE(SavedFlag, function_state')
    BY DEF LeaveLoop, SetFlow
  <2>2. /\ Nested(-1).returned = function_state.returned
        /\ Nested(-1).loop_change_type = function_state.loop_change_type
        /\ NoChange(Nested(-1)).returned = function_state.returned
        /\ NoChange(Nested(-1)).loop_change_type = "DO_NOTHING"
    BY FlowTypes DEF Nested, NoChange, FunctionState
  <2>3. CASE Execute
    BY <2>1, <2>2, <2>3, FlowTypes
  <2>4. CASE ~ Execute
    <3>1. ChangesThisLoop /\ function_state.loop_change_type # "DO_NOTHING"
      BY <2>4 DEF ContinuesThisLoop, ChangesThisLoop
    <3>2. ~ function_state.returned
      BY <3>1 DEF FlowNow, FlowFits, ChangeFits
    <3> QED BY <2>1, <2>2, <2>4, <3>1, <3>2
  <2> QED BY <2>3, <2>4
<1> QED BY <1>1, <1>2 DEF SHOULD_EXECUTE

\* The end of a for: where it is repeated, its first token is turned, and comes next.
LEMMA for_post_statement_Loops ==
  ASSUME IInv, LoopInv, for_post_statement
  PROVE  LoopInv'
<1>1. PICK again : again = (Execute \/ ContinuesThisLoop)
  OBVIOUS
<1>2. /\ Action("for_post_statement") /\ values' = Pop(values, 3)
      /\ for_stack' = ForStackAfter(again, Tok) /\ LeaveLoop
      /\ IF again THEN seek_token(Tok.offset) ELSE UNCHANGED <<pos, yychar>>
      /\ UNCHANGED <<shutdown, function_state_stack>>
  BY <1>1, Zenon DEF for_post_statement
<1>3. function_state'.type = function_state.type
  BY <1>2, LeftType
<1>4. /\ Running /\ parse # <<>> /\ Head(parse).sym = "for_post_statement"
      /\ parse' = Tail(parse) /\ suspended' = suspended
  BY <1>2, AtAction
<1>5. PICK a \in Stage, b \in Stage :
        /\ Takes("for_post_statement", Tok, a, b) /\ FlowNow(a) /\ ValuesFit(a.w, values)
        /\ RestFits(a)
        /\ FlowNow(b)' /\ ValuesFit(b.w, values') /\ RestFits(b)' => LoopInv'
  BY <1>4, SymbolStep
<1>6. Leaves("loop", a, b) /\ ForLeft(Tok, a, b)
  BY <1>5 DEF Takes, Keepers, Giving
<1>7. QuietFits(a)
  <2>1. Plain(a)
    BY <1>6 DEF ForLeft
  <2> QED BY <1>5, <2>1, PlainQuiet, QuietRest
<1>8. /\ Tok.offset \in 1 .. Len(tokens) /\ Tok.offset \in DOMAIN tokens'
      /\ again <=> tokens'[Tok.offset].type = "CONTINUED_FOR"
      /\ tokens'[Tok.offset].type # "IC_FUNCTION"
      /\ \A i \in DOMAIN tokens' : i # Tok.offset => tokens'[i].type \notin TurnedTypes
  BY <1>1, <1>7, ForTokens DEF QuietFits
<1>9. /\ for_stack' = IF again THEN Push(b.o, b.l) ELSE b.l
      /\ b.p <= a.p /\ b.o = Tok.offset /\ b.o > b.p
  BY <1>2, <1>6, <1>7, ForsAfter DEF QuietFits
<1>10. b.m = "again" /\ b.f = a.f /\ (Again(b, tokens') <=> again)
  BY <1>6, <1>8, <1>9 DEF ForLeft, Again
<1>11. ~ Asking(b, values')
  BY <1>10 DEF Asking
<1>12. FunctionsFit(b, values, function_state, function_state_stack)'
  <2>1. TypesOf(function_state, function_state_stack)' = b.f
    <3>1. TypesOf(function_state, function_state_stack)'
          = TypesOf(function_state, function_state_stack)
      BY <1>2, <1>3 DEF TypesOf
    <3> QED BY <1>7, <1>10, <3>1 DEF QuietFits
  <2> QED BY <1>2, <1>7, <1>11, <2>1 DEF QuietFits, FunctionsFit
<1>13. ForsFit(b, values, for_stack, tokens)'
  BY <1>9, <1>10, <1>11 DEF ForsFit
<1>14. PlaceFits(b.p, pos', yychar') /\ (again => pos' = b.o /\ yychar' = EMPTY)
  <2>1. CASE again
    BY <1>2, <1>9, <2>1 DEF seek_token, PlaceFits, LookFits
  <2>2. CASE ~ again
    <3>1. b.p \in Nat /\ a.p \in Nat
      BY StageParts
    <3> QED BY <1>2, <1>7, <1>9, <2>2, <3>1, PlaceBack DEF QuietFits
  <2> QED BY <2>1, <2>2
<1>15. MomentFits(b, values, Execute, yychar, shutdown)'
  BY <1>2, <1>7, <1>10, <1>11 DEF QuietFits, MomentFits
<1>16. TokensFit(b, tokens, pos, yychar, Execute)'
  <2>1. \A i \in DOMAIN tokens' : TokenFits(b, tokens'[i], i, Execute')
    <3>1. again => Execute'
      BY <1>1, <1>2, <1>5, <1>6, AgainExecutes
    <3> SUFFICES ASSUME NEW i \in DOMAIN tokens' PROVE TokenFits(b, tokens'[i], i, Execute')
      OBVIOUS
    <3>2. CASE i = Tok.offset
      BY <1>8, <1>9, <1>10, <3>1, <3>2 DEF TokenFits
    <3>3. CASE i # Tok.offset
      BY <1>8, <3>3 DEF TokenFits, TurnedTypes
    <3> QED BY <3>2, <3>3
  <2>2. NoMark(yychar')
    <3>1. CASE again
      BY <1>14, <3>1 DEF NoMark
    <3>2. CASE ~ again
      BY <1>2, <1>7, <3>2 DEF QuietFits
    <3> QED BY <3>1, <3>2
  <2> QED BY <1>10, <1>14, <2>1, <2>2 DEF TokensFit
<1>17. RestFits(b)'
  BY <1>12, <1>13, <1>14, <1>15, <1>16 DEF RestFits
<1>18. ValuesFit(b.w, values')
  <2>1. PICK w \in Seq(Mark), x \in Mark, y \in Mark, z \in Mark :
          a.w = Push(x, Push(y, Push(z, w))) /\ b.w = w
    BY <1>6 DEF ForLeft
  <2> QED BY <1>2, <1>5, <2>1, FitsPop3
<1>19. FlowNow(b)'
  <2>1. LeavesLevel("loop") /\ "loop" \in {"loop", "if", "other"}
    BY <1>2, LoopLeft
  <2> QED BY <1>5, <1>6, <2>1, LeaveFlow
<1> QED BY <1>5, <1>17, <1>18, <1>19

-----------------------------------------------------------------------------
(* Functions *)

\* The moments where the tables of the engine are those of the stage.
LEMMA MomentRest ==
  ASSUME NEW a, a.m \notin {"asked", "passing", "passed", "again"}, NEW vs, NEW ts
  PROVE  ~ Asking(a, vs) /\ ~ Again(a, ts)
BY DEF Asking, Again

LEMMA RestSame ==
  ASSUME NEW a, RestFits(a), UNCHANGED <<input, values, Execute, function_state, function_state_stack, for_stack>>
  PROVE  RestFits(a)'
<1>1. /\ tokens' = tokens /\ pos' = pos /\ yychar' = yychar /\ shutdown' = shutdown
      /\ values' = values /\ Execute' = Execute /\ function_state' = function_state
      /\ function_state_stack' = function_state_stack /\ for_stack' = for_stack
  BY DEF input
<1> QED BY <1>1 DEF RestFits

\* Nothing but the symbol.
LEMMA RETURN_TRUE_Loops ==
  ASSUME IInv, LoopInv, RETURN_TRUE
  PROVE  LoopInv'
<1>1. /\ Action("RETURN_TRUE")
      /\ UNCHANGED <<input, values, Execute, function_state, function_state_stack, for_stack>>
      /\ values' = values /\ UNCHANGED <<ExecuteFlag, css, function_state>>
  BY DEF RETURN_TRUE, flow, stacks
<1>2. /\ Running /\ parse # <<>> /\ Head(parse).sym = "RETURN_TRUE"
      /\ parse' = Tail(parse) /\ suspended' = suspended
  BY <1>1, AtAction
<1>3. PICK a \in Stage, b \in Stage :
        /\ Takes("RETURN_TRUE", Tok, a, b) /\ FlowNow(a) /\ ValuesFit(a.w, values)
        /\ RestFits(a)
        /\ FlowNow(b)' /\ ValuesFit(b.w, values') /\ RestFits(b)' => LoopInv'
  BY <1>2, SymbolStep
<1>4. b = a
  BY <1>3 DEF Takes, Keepers, Giving
<1>5. RestFits(a)' /\ FlowNow(a)'
  BY <1>1, <1>3, RestSame, FlowSameNext
<1> QED BY <1>1, <1>3, <1>4, <1>5

\* The declaration of a function that is called from array_walk is as it was.
LEMMA restore_token_Loops ==
  ASSUME IInv, LoopInv, restore_token
  PROVE  LoopInv'
<1>1. /\ Action("restore_token") /\ tokens' = [tokens EXCEPT ![Tok.offset].type = "FUNCTION"]
      /\ UNCHANGED <<pos, yychar, shutdown, values, for_stack, function_state_stack>>
      /\ values' = values /\ UNCHANGED <<ExecuteFlag, css, function_state>>
  BY DEF restore_token, flow, stacks, tc_set_token
<1>2. /\ Running /\ parse # <<>> /\ Head(parse).sym = "restore_token"
      /\ parse' = Tail(parse) /\ suspended' = suspended
  BY <1>1, AtAction
<1>3. PICK a \in Stage, b \in Stage :
        /\ Takes("restore_token", Tok, a, b) /\ FlowNow(a) /\ ValuesFit(a.w, values)
        /\ RestFits(a)
        /\ FlowNow(b)' /\ ValuesFit(b.w, values') /\ RestFits(b)' => LoopInv'
  BY <1>2, SymbolStep
<1>4. a.m = "restored" /\ a.o = Tok.offset /\ b = To(a, a.w, "plain", 0)
  BY <1>3 DEF Takes, Keepers, Giving
<1>5. /\ Plain(b) /\ b.w = a.w /\ b.e = a.e /\ b.n = a.n /\ b.l = a.l /\ b.p = a.p /\ b.f = a.f
  <2>1. a.w \in Seq(Mark) /\ "plain" \in Moment
    BY StageParts DEF Moment
  <2>2. PICK c \in Stage : c = To(a, a.w, "plain", 0) /\ c.w = a.w /\ c.m = "plain" /\ c.o = 0
           /\ c.e = a.e /\ c.n = a.n /\ c.l = a.l /\ c.p = a.p /\ c.f = a.f
    BY <2>1, StageMoved
  <2> QED BY <1>4, <2>2 DEF Plain
<1>6. PICK off \in 1 .. Len(tokens) : off = Tok.offset
  <2>1. "restore_token" \notin Bare
    BY DEF Bare
  <2> QED BY <1>2, <2>1, TokensType, TokenOfAction
<1>7. /\ \A i \in DOMAIN tokens : tokens[i].type \in TurnedTypes => i = off
      /\ NoMark(yychar) /\ ~ Asking(a, values) /\ ~ Again(a, tokens)
      /\ shutdown # "TERMINATE"
  BY <1>3, <1>4, <1>6
     DEF RestFits, TokensFit, TokenFits, TurnedTypes, Asking, Again, MomentFits
<1>8. Unmarked(tokens)'
  <2>1. /\ DOMAIN tokens' = 1 .. Len(tokens) /\ tokens'[off].type = "FUNCTION"
        /\ \A i \in 1 .. Len(tokens) : i # off => tokens'[i] = tokens[i]
    BY <1>1, <1>6, TurnedTo, TokensType
  <2>2. DOMAIN tokens = 1 .. Len(tokens)
    BY TokensType
  <2> QED BY <1>7, <2>1, <2>2 DEF Unmarked, TurnedTypes
<1>9. QuietFits(b)'
  <2>1. TypesOf(function_state, function_state_stack)' = b.f
    BY <1>1, <1>3, <1>5, <1>7 DEF RestFits, FunctionsFit
  <2>2. AllCalm(function_state_stack)' /\ for_stack' = b.l /\ shutdown' # "TERMINATE"
    BY <1>1, <1>3, <1>5, <1>7 DEF RestFits, FunctionsFit, ForsFit
  <2>3. NoMark(yychar)' /\ PlaceFits(b.p, pos', yychar')
    BY <1>1, <1>3, <1>5, <1>7 DEF RestFits
  <2>4. b.m # "entered"
    BY <1>5, PlainQuiet
  <2> QED BY <1>8, <2>1, <2>2, <2>3, <2>4 DEF QuietFits
<1>10. RestFits(b)'
  <2>1. b.m \in QuietMoments
    BY <1>5, PlainQuiet
  <2> QED BY <1>9, <2>1, QuietStageNext
<1>11. FlowNow(b)'
  BY <1>1, <1>3, <1>5, FlowSameNext
<1> QED BY <1>1, <1>3, <1>5, <1>10, <1>11

\* The function has been executed: the parser that was started for it is told to end.
LEMMA terminate_phpparse_Loops ==
  ASSUME IInv, LoopInv, terminate_phpparse
  PROVE  LoopInv'
<1>1. /\ Action("terminate_phpparse")
      /\ shutdown' = IF shutdown = "NO" THEN "TERMINATE" ELSE shutdown
      /\ UNCHANGED <<tokens, pos, yychar, values, Execute, for_stack, function_state_stack>>
      /\ values' = values /\ UNCHANGED <<ExecuteFlag, css, function_state>>
  BY DEF terminate_phpparse, flow, stacks
<1>2. /\ Running /\ parse # <<>> /\ Head(parse).sym = "terminate_phpparse"
      /\ parse' = Tail(parse) /\ suspended' = suspended
  BY <1>1, AtAction
<1>3. PICK a \in Stage, b \in Stage :
        /\ Takes("terminate_phpparse", Tok, a, b) /\ FlowNow(a) /\ ValuesFit(a.w, values)
        /\ RestFits(a)
        /\ FlowNow(b)' /\ ValuesFit(b.w, values') /\ RestFits(b)' => LoopInv'
  BY <1>2, SymbolStep
<1>4. a.m = "closing" /\ b = To(a, a.w, "closed", 0)
  BY <1>3 DEF Takes, Keepers, Giving
<1>5. /\ b.m = "closed" /\ b.w = a.w /\ b.e = a.e /\ b.n = a.n /\ b.l = a.l /\ b.p = a.p
      /\ b.f = a.f
  <2>1. a.w \in Seq(Mark) /\ "closed" \in Moment
    BY StageParts DEF Moment
  <2>2. PICK c \in Stage : c = To(a, a.w, "closed", 0) /\ c.w = a.w /\ c.m = "closed" /\ c.o = 0
           /\ c.e = a.e /\ c.n = a.n /\ c.l = a.l /\ c.p = a.p /\ c.f = a.f
    BY <2>1, StageMoved
  <2> QED BY <1>4, <2>2
<1>6. /\ ~ Asking(a, values) /\ ~ Again(a, tokens) /\ ~ Asking(b, values') /\ ~ Again(b, tokens')
  BY <1>4, <1>5, MomentRest
<1>7. FunctionsFit(b, values, function_state, function_state_stack)'
  BY <1>1, <1>3, <1>5, <1>6 DEF RestFits, FunctionsFit
<1>8. ForsFit(b, values, for_stack, tokens)' /\ PlaceFits(b.p, pos, yychar)'
  BY <1>1, <1>3, <1>5, <1>6 DEF RestFits, ForsFit
<1>9. MomentFits(b, values, Execute, yychar, shutdown)'
  <2>1. shutdown \in Shutdown
    BY TokensType, InputParts
  <2>2. yychar = EMPTY /\ shutdown # "TERMINATE"
    BY <1>3, <1>4 DEF RestFits, MomentFits
  <2> QED BY <1>1, <1>5, <1>6, <2>1, <2>2 DEF MomentFits, Shutdown
<1>10. TokensFit(b, tokens, pos, yychar, Execute)'
  <2>1. \A i \in DOMAIN tokens : tokens[i].type \notin TurnedTypes
    BY <1>3, <1>4 DEF RestFits, TokensFit, TokenFits, TurnedTypes
  <2>2. \A i \in DOMAIN tokens' : TokenFits(b, tokens'[i], i, Execute')
    BY <1>1, <2>1 DEF TokenFits, TurnedTypes
  <2>3. NoMark(yychar)
    BY <1>3, <1>4 DEF RestFits, TokensFit
  <2> QED BY <1>1, <1>5, <1>6, <2>2, <2>3 DEF TokensFit
<1>11. RestFits(b)'
  BY <1>7, <1>8, <1>9, <1>10 DEF RestFits
<1>12. FlowNow(b)'
  BY <1>1, <1>3, <1>5, FlowSameNext
<1> QED BY <1>1, <1>3, <1>5, <1>11, <1>12

\* A script that ended.
LEMMA StoppedLoops ==
  ASSUME status' # "running"
  PROVE  LoopInv'
BY DEF LoopInv, Running

\* Functions from 1 .. n as sequences.
LEMMA SeqOf ==
  ASSUME NEW n \in Nat, NEW S, NEW g \in [1 .. n -> S]
  PROVE  IsSeq(g) /\ g \in Seq(S) /\ Len(g) = n
<1>1. g \in Seq(S) /\ Len(g) = n
  OBVIOUS
<1> QED BY <1>1 DEF IsSeq

LEMMA PushedIs ==
  ASSUME NEW n \in Nat, NEW S, NEW g \in [1 .. n -> S], NEW y \in S,
         NEW h \in [1 .. n + 1 -> S], h[1] = y, \A i \in 1 .. n : h[i + 1] = g[i]
  PROVE  Push(y, g) = h
<1>1. g \in Seq(S) /\ Len(g) = n /\ h \in Seq(S) /\ Len(h) = n + 1
  BY SeqOf
<1>2. PICK p \in Seq(S) : /\ p = Push(y, g) /\ Len(p) = n + 1 /\ p[1] = y
                          /\ \A k \in 1 .. n : p[k + 1] = g[k]
  <2>1. PICK q, p : q \in Seq(S) /\ q = g /\ Len(q) = n /\ p = Push(y, q)
    BY <1>1
  <2>2. q \in Seq(S)
    BY <2>1
  <2>3. /\ p \in Seq(S) /\ Len(p) = Len(q) + 1 /\ p[1] = y
        /\ \A k \in 1 .. Len(q) : p[k + 1] = q[k]
    <3>1. IsSeq(q)
      BY <2>2 DEF IsSeq
    <3>2. Push(y, q) \in Seq(S)
      BY <2>2, Pushed, Zenon
    <3> QED BY <2>1, <3>1, <3>2, AnyPushed, SMTT(30)
  <2>4. /\ p \in Seq(S) /\ p = Push(y, g) /\ Len(p) = n + 1 /\ p[1] = y
        /\ \A k \in 1 .. n : p[k + 1] = g[k]
    BY <2>1, <2>3
  <2> QED BY <2>4, Zenon
<1>3. \A i \in 1 .. n + 1 : p[i] = h[i]
  <2> SUFFICES ASSUME NEW i \in 1 .. n + 1 PROVE p[i] = h[i]
    OBVIOUS
  <2>1. CASE i = 1
    BY <1>2, <2>1
  <2>2. CASE i # 1
    <3>1. i - 1 \in 1 .. n /\ (i - 1) + 1 = i
      BY <2>2
    <3>2. p[(i - 1) + 1] = g[i - 1] /\ h[(i - 1) + 1] = g[i - 1]
      BY <1>2, <3>1
    <3> QED BY <3>1, <3>2
  <2> QED BY <2>1, <2>2
<1> QED BY <1>1, <1>2, <1>3

\* The types of the functions that were entered: one is entered, and left.
LEMMA TypesEntered ==
  ASSUME NEW Q, NEW stack \in Seq(Q), NEW fs \in Q, NEW fs2, NEW f, TypesOf(fs, stack) = f
  PROVE  /\ TypesOf(fs2, Push(fs, stack)) = Push(fs2.type, f)
         /\ Calm(fs) /\ AllCalm(stack) => AllCalm(Push(fs, stack))
<1>1. PICK n \in Nat : n = Len(stack)
  OBVIOUS
<1>2. PICK ts : ts = Push(fs, stack)
  OBVIOUS
<1>3. /\ ts \in Seq(Q) /\ Len(ts) = n + 1 /\ ts[1] = fs
      /\ \A k \in 1 .. n : ts[k + 1] = stack[k]
  <2>1. /\ Push(fs, stack) \in Seq(Q) /\ Len(Push(fs, stack)) = Len(stack) + 1
        /\ Push(fs, stack)[1] = fs /\ \A k \in 1 .. Len(stack) : Push(fs, stack)[k + 1] = stack[k]
    BY Pushed
  <2> QED BY <1>1, <1>2, <2>1
<1>4. PICK g, S : g = [i \in 1 .. n |-> stack[i].type] /\ S = {x.type : x \in Q}
  OBVIOUS
<1>5. g \in [1 .. n -> S] /\ \A i \in 1 .. n : g[i] = stack[i].type
  BY <1>1, <1>4
<1>6. PICK h : h = [i \in 1 .. n + 1 |-> ts[i].type]
  OBVIOUS
<1>7. Push(fs.type, g) = h
  <2>1. PICK y \in S : y = fs.type
    BY <1>4
  <2>2. h \in [1 .. n + 1 -> S] /\ h[1] = y /\ \A i \in 1 .. n : h[i + 1] = g[i]
    <3>1. \A i \in 1 .. n + 1 : ts[i].type \in S
      BY <1>3, <1>4
    <3>2. \A i \in 1 .. n : i + 1 \in 1 .. n + 1 /\ ts[i + 1] = stack[i]
      BY <1>3
    <3> QED BY <1>3, <1>5, <1>6, <2>1, <3>1, <3>2
  <2> QED BY <1>5, <2>1, <2>2, PushedIs
<1>8. TypesOf(fs2, ts) = Push(fs2.type, h) /\ f = Push(fs.type, g)
  BY <1>1, <1>3, <1>4, <1>6 DEF TypesOf
<1>9. Calm(fs) /\ AllCalm(stack) => AllCalm(ts)
  <2> SUFFICES ASSUME Calm(fs), AllCalm(stack), NEW i \in 1 .. n + 1 PROVE Calm(ts[i])
    BY <1>3 DEF AllCalm
  <2>1. CASE i = 1
    BY <1>3, <2>1
  <2>2. CASE i # 1
    <3>1. i - 1 \in 1 .. n /\ (i - 1) + 1 = i
      BY <2>2
    <3>2. ts[i] = stack[i - 1]
      BY <1>3, <3>1
    <3> QED BY <1>1, <3>1, <3>2 DEF AllCalm
  <2> QED BY <2>1, <2>2
<1> QED BY <1>2, <1>7, <1>8, <1>9

LEMMA TypesLeft ==
  ASSUME NEW Q, NEW stack \in Seq(Q), stack # <<>>, NEW fs, NEW fs2, NEW y, NEW f,
         f \in Seq(FnType), TypesOf(fs, stack) = Push(y, f),
         fs2 = stack[1] \/ (f # <<>> /\ fs2.type = f[1])
  PROVE  /\ TypesOf(fs2, Pop(stack, 1)) = f
         /\ AllCalm(stack) => Calm(stack[1]) /\ AllCalm(Pop(stack, 1))
<1>1. PICK n \in Nat : Len(stack) = n + 1
  <2>1. Len(stack) \in Nat /\ Len(stack) # 0
    OBVIOUS
  <2>2. Len(stack) - 1 \in Nat /\ Len(stack) = (Len(stack) - 1) + 1
    BY <2>1
  <2> QED BY <2>2
<1>2. PICK ts : ts = Pop(stack, 1)
  OBVIOUS
<1>3. ts \in Seq(Q) /\ Len(ts) = n /\ \A i \in 1 .. n : ts[i] = stack[i + 1]
  BY <1>1, <1>2 DEF Pop
<1>4. PICK g, S : g = [i \in 1 .. n + 1 |-> stack[i].type] /\ S = {x.type : x \in Q}
  OBVIOUS
<1>5. /\ IsSeq(g) /\ Len(g) = n + 1
      /\ \A i \in 1 .. n + 1 : g[i] = stack[i].type
  <2>1. g \in [1 .. n + 1 -> S] /\ n + 1 \in Nat
    BY <1>1, <1>4
  <2>2. IsSeq(g) /\ Len(g) = n + 1
    BY <2>1, SeqOf
  <2> QED BY <1>4, <2>2, Zenon
<1>6. Push(fs.type, g) = Push(y, f)
  BY <1>1, <1>4 DEF TypesOf
<1>7. g = f
  <2>1. IsSeq(f)
    BY DEF IsSeq
  <2>2. Pop(Push(fs.type, g), 1) = g /\ Pop(Push(y, f), 1) = f
    BY <1>5, <2>1, AnyPushed
  <2> QED BY <1>6, <2>2
<1>8. fs2.type = g[1]
  <2>1. CASE fs2 = stack[1]
    BY <1>5, <2>1
  <2>2. CASE f # <<>> /\ fs2.type = f[1]
    BY <1>7, <2>2
  <2> QED BY <2>1, <2>2
<1>9. PICK h : h = [i \in 1 .. n |-> ts[i].type]
  OBVIOUS
<1>10. Push(g[1], h) = f
  <2>1. Len(f) = n + 1 /\ f \in Seq(FnType) /\ g[1] = f[1]
    BY <1>5, <1>7
  <2>2. \A i \in 1 .. n : h[i] = f[i + 1]
    BY <1>3, <1>5, <1>7, <1>9
  <2>3. h \in Seq(FnType) /\ Len(h) = n
    <3>1. \A i \in 1 .. n : f[i + 1] \in FnType
      BY <2>1
    <3>2. h \in [1 .. n -> FnType]
      BY <1>9, <2>2, <3>1
    <3> QED BY <3>2
  <2>4. PICK z \in FnType : z = f[1] /\ z = g[1]
    BY <2>1
  <2>5. Push(z, h) = f
    BY <2>1, <2>2, <2>3, <2>4 DEF Push
  <2> QED BY <2>4, <2>5
<1>11. TypesOf(fs2, ts) = f
  <2>1. TypesOf(fs2, ts) = Push(fs2.type, h)
    BY <1>3, <1>9 DEF TypesOf
  <2> QED BY <1>8, <1>10, <2>1
<1>12. AllCalm(stack) => Calm(stack[1]) /\ AllCalm(ts)
  BY <1>1, <1>3 DEF AllCalm
<1> QED BY <1>2, <1>11, <1>12, SMTT(30)

\* The parser is asked for the arguments of a call.
LEMMA AskedStage ==
  ASSUME NEW a \in Stage, NEW b, b = To(a, Push(Asked, a.w), "asked", 0)
  PROVE  /\ b \in Stage /\ b.w = Push(Asked, a.w) /\ b.m = "asked" /\ b.o = 0
         /\ b.e = a.e /\ b.n = a.n /\ b.l = a.l /\ b.p = a.p /\ b.f = a.f
<1>1. PICK w \in Seq(Mark) : w = a.w
  BY StageParts
<1>2. Push(Asked, w) \in Seq(Mark) /\ "asked" \in Moment
  <2>1. Asked \in Mark
    BY MarkTypes
  <2>2. Push(Asked, w) \in Seq(Mark)
    BY <2>1, Pushed, Zenon
  <2> QED BY <2>2 DEF Moment
<1>3. PICK v \in Seq(Mark) : v = Push(Asked, a.w)
  BY <1>1, <1>2
<1>4. PICK c \in Stage : c = To(a, v, "asked", 0) /\ c.w = v /\ c.m = "asked" /\ c.o = 0
           /\ c.e = a.e /\ c.n = a.n /\ c.l = a.l /\ c.p = a.p /\ c.f = a.f
  BY <1>2, StageMoved
<1> QED BY <1>3, <1>4

\* What holds where a call was asked for.
AskedFits(b, vs, fs, stack, fors, call) ==
  IF call = NoCall THEN TypesOf(fs, stack) = b.f /\ AllCalm(stack) /\ fors = b.l
  ELSE /\ TypesOf(fs, stack) = Push(fs.type, b.f) /\ AllCalm(stack) /\ fors = Push(-1, b.l)
       /\ fs.type = call.type

LEMMA AskedRest ==
  ASSUME NEW b, b.m = "asked", NEW call, values'[1] = call,
         AskedFits(b, values', function_state', function_state_stack', for_stack', call),
         call # NoCall => Execute', PlaceFits(b.p, pos', yychar'), shutdown' # "TERMINATE",
         Unmarked(tokens'), NoMark(yychar')
  PROVE  RestFits(b)'
<1>1. (Asking(b, values') <=> call # NoCall) /\ CallAt(b) = 1 /\ ~ Again(b, tokens')
  BY DEF Asking, CallAt, Again
<1>2. FunctionsFit(b, values', function_state', function_state_stack')
  BY <1>1, Zenon DEF FunctionsFit, AskedFits
<1>3. ForsFit(b, values', for_stack', tokens')
  BY <1>1, Zenon DEF ForsFit, AskedFits
<1>4. MomentFits(b, values', Execute', yychar', shutdown')
  BY <1>1 DEF MomentFits
<1>5. TokensFit(b, tokens', pos', yychar', Execute')
  <2>1. \A i \in DOMAIN tokens' : TokenFits(b, tokens'[i], i, Execute')
    BY DEF TokenFits, Unmarked, TurnedTypes
  <2> QED BY <1>1, <2>1, Zenon DEF TokensFit
<1> QED BY <1>2, <1>3, <1>4, <1>5 DEF RestFits

\* A call of a function, which is looked up if the caller is executed.
CallOf(t, table) ==
  IF CallType(t) = "user" THEN [type |-> "user", offset |-> table[t.tag]] ELSE [type |-> "internal"]

LEMMA CallOfFits ==
  ASSUME NEW t, NEW table, NEW n \in Nat, TableOK(table, n), CallType(t) = "user" => t.tag \in DOMAIN table
  PROVE  /\ CallOf(t, table) # NoCall /\ CallOf(t, table).type = CallType(t)
         /\ CallFits(CallOf(t, table)) /\ CallType(t) \in {"user", "internal"}
<1>1. CASE CallType(t) = "user"
  <2>1. PICK o \in 1 .. n - 1 : o = table[t.tag]
    BY <1>1 DEF TableOK
  <2>2. CallOf(t, table) = [type |-> "user", offset |-> o]
    BY <1>1, <2>1 DEF CallOf
  <2>3. o \in Nat \ {0}
    OBVIOUS
  <2> QED BY <1>1, <2>2, <2>3 DEF CallFits, NoCall
<1>2. CASE CallType(t) # "user"
  <2>1. CallOf(t, table) = [type |-> "internal"] /\ CallType(t) = "internal"
    BY <1>2 DEF CallOf, CallType
  <2> QED BY <2>1 DEF CallFits, NoCall
<1> QED BY <1>1, <1>2

LEMMA cs_functioncall_pre_variable_passing_Loops ==
  ASSUME IInv, LoopInv, cs_functioncall_pre_variable_passing
  PROVE  LoopInv'
<1>1. Action("cs_functioncall_pre_variable_passing")
  BY DEF cs_functioncall_pre_variable_passing
<1>2. /\ Running /\ parse # <<>> /\ Head(parse).sym = "cs_functioncall_pre_variable_passing"
      /\ parse' = Tail(parse) /\ suspended' = suspended
  BY <1>1, AtAction
<1>3. PICK a \in Stage, b \in Stage :
        /\ Takes("cs_functioncall_pre_variable_passing", Tok, a, b) /\ FlowNow(a)
        /\ ValuesFit(a.w, values) /\ RestFits(a)
        /\ FlowNow(b)' /\ ValuesFit(b.w, values') /\ RestFits(b)' => LoopInv'
  BY <1>2, SymbolStep
<1>4. Plain(a) /\ b = To(a, Push(Asked, a.w), "asked", 0)
  BY <1>3 DEF Takes, Keepers, Giving
<1>5. /\ b.w = Push(Asked, a.w) /\ b.m = "asked" /\ b.o = 0
      /\ b.e = a.e /\ b.n = a.n /\ b.l = a.l /\ b.p = a.p /\ b.f = a.f
  BY <1>4, AskedStage
<1>6. QuietFits(a)
  BY <1>3, <1>4, PlainQuiet, QuietRest
<1>7. ASSUME NEW call, values' = Push(call, values), CallFits(call)
      PROVE  ValuesFit(b.w, values') /\ values'[1] = call
  <2>1. PICK w \in Seq(Mark) : w = a.w
    BY StageParts
  <2>2. ItemFits(Asked, call) /\ Asked \in Mark
    BY <1>7, MarkTypes DEF ItemFits, Asked
  <2>3. ValuesFit(Push(Asked, w), Push(call, values))
    BY <1>3, <2>1, <2>2, FitsPush
  <2>4. IsSeq(values)
    BY <1>3 DEF ValuesFit
  <2> QED BY <1>5, <1>7, <2>1, <2>3, <2>4, AnyPushed
<1>8. CASE ~ Execute /\ values' = Push(NoCall, values) /\ UNCHANGED <<input, flow, stacks>>
  <2>1. ValuesFit(b.w, values') /\ values'[1] = NoCall
    BY <1>7, <1>8 DEF CallFits
  <2>2. /\ tokens' = tokens /\ pos' = pos /\ yychar' = yychar /\ shutdown' = shutdown
        /\ function_state' = function_state /\ function_state_stack' = function_state_stack
        /\ for_stack' = for_stack /\ UNCHANGED <<ExecuteFlag, css, function_state>>
    BY <1>8 DEF input, flow, stacks
  <2>3. AskedFits(b, values', function_state', function_state_stack', for_stack', NoCall)
    BY <1>5, <1>6, <2>2 DEF AskedFits, QuietFits
  <2>4. RestFits(b)'
    BY <1>5, <1>6, <2>1, <2>2, <2>3, AskedRest DEF QuietFits
  <2>5. FlowNow(b)'
    BY <1>3, <1>5, <2>2, FlowSameNext
  <2> QED BY <1>3, <2>1, <2>4, <2>5
<1>9. CASE Die
  BY <1>9, StoppedLoops DEF Die
<1>10. CASE /\ Execute /\ (CallType(Tok) = "user" => Tok.tag \in DOMAIN function_table)
            /\ EnterCall(function_state)
            /\ function_state' = [function_state EXCEPT !.type = CallType(Tok)]
            /\ values' = Push(CallOf(Tok, function_table), values)
            /\ UNCHANGED <<input, ExecuteFlag, Execute, css>>
  <2>1. PICK call : call = CallOf(Tok, function_table) /\ call # NoCall /\ call.type = CallType(Tok)
          /\ CallFits(call) /\ CallType(Tok) \in {"user", "internal"}
    BY <1>10, CallOfFits, TokensType, InputParts
  <2>2. ValuesFit(b.w, values') /\ values'[1] = call
    BY <1>7, <1>10, <2>1
  <2>3. /\ tokens' = tokens /\ pos' = pos /\ yychar' = yychar /\ shutdown' = shutdown
        /\ Execute' = Execute /\ ExecuteFlag' = ExecuteFlag /\ css' = css
        /\ for_stack' = Push(-1, for_stack)
        /\ function_state_stack' = Push(function_state, function_state_stack)
    BY <1>10 DEF input, EnterCall
  <2>4. PICK fs2 : /\ fs2 = function_state' /\ fs2.type = CallType(Tok) /\ Calm(fs2)
                   /\ Calm(function_state)
    <3>1. function_state'.type = CallType(Tok) /\ Calm(function_state') /\ Calm(function_state)
      BY <1>10, FlowTypes DEF FunctionState, Calm
    <3> QED BY <3>1, Zenon
  <2>5. AskedFits(b, values', function_state', function_state_stack', for_stack', call)
    <3>1. function_state_stack \in Seq(FunctionState) /\ function_state \in FunctionState
      BY DEF IInv, FlowInv
    <3>2. /\ TypesOf(fs2, Push(function_state, function_state_stack)) = Push(fs2.type, a.f)
          /\ AllCalm(Push(function_state, function_state_stack))
      BY <1>6, <2>4, <3>1, TypesEntered DEF QuietFits
    <3> QED BY <1>5, <1>6, <2>1, <2>3, <2>4, <3>2 DEF AskedFits, QuietFits
  <2>6. RestFits(b)'
    BY <1>5, <1>6, <1>10, <2>2, <2>3, <2>5, AskedRest DEF QuietFits
  <2>7. FlowNow(b)'
    BY <1>3, <1>5, <2>3, <2>4 DEF FlowNow, FlowFits, ChangeFits, Calm
  <2> QED BY <1>3, <2>2, <2>6, <2>7
<1> QED
  BY <1>8, <1>9, <1>10, Zenon DEF cs_functioncall_pre_variable_passing, CallOf

-----------------------------------------------------------------------------
(* A function is entered *)

\* A symbol before a run.
LEMMA WayBefore ==
  ASSUME NEW I, NEW p \in Seq(I), p # <<>>, NEW a \in Stage, NEW b, NEW z,
         Takes(Head(p).sym, Head(p).tok, a, b), Way(Tail(p), b, z)
  PROVE  Way(p, a, z)
<1>1. PICK g : IsWay(g, Tail(p), b, z)
  BY Zenon DEF Way
<1>2. PICK n \in Nat : Len(p) = n + 1
  <2>1. Len(p) \in Nat /\ Len(p) # 0
    OBVIOUS
  <2>2. Len(p) - 1 \in Nat /\ Len(p) = (Len(p) - 1) + 1
    BY <2>1
  <2> QED BY <2>2
<1>3. Tail(p) \in Seq(I) /\ Len(Tail(p)) = n /\ Head(p) = p[1]
      /\ \A k \in 1 .. n : Tail(p)[k] = p[k + 1]
  BY <1>2
<1> DEFINE f == [k \in 1 .. n + 2 |-> IF k = 1 THEN a ELSE g[k - 1]]
<1>4. f[1] = a /\ \A k \in 1 .. n + 1 : f[k + 1] = g[k]
  <2> SUFFICES ASSUME NEW k \in 1 .. n + 1 PROVE f[1] = a /\ f[k + 1] = g[k]
    OBVIOUS
  <2>1. k + 1 \in 1 .. n + 2 /\ k + 1 # 1 /\ (k + 1) - 1 = k
    OBVIOUS
  <2> QED BY <2>1
<1>5. \A k \in 1 .. n + 2 : f[k] \in Stage
  <2> SUFFICES ASSUME NEW k \in 1 .. n + 2 PROVE f[k] \in Stage
    OBVIOUS
  <2>1. CASE k # 1
    <3>1. k - 1 \in 1 .. n + 1
      BY <2>1
    <3> QED BY <1>1, <1>3, <2>1, <3>1 DEF IsWay
  <2> QED BY <2>1
<1>6. f \in [1 .. (n + 1) + 1 -> Stage]
  <2>1. (n + 1) + 1 = n + 2
    OBVIOUS
  <2> QED BY <1>5, <2>1
<1> HIDE DEF f
<1>7. ASSUME NEW k \in 1 .. n + 1 PROVE Takes(p[k].sym, p[k].tok, f[k], f[k + 1])
  <2>1. CASE k = 1
    <3>1. f[1] = a /\ f[1 + 1] = b
      BY <1>1, <1>4 DEF IsWay
    <3> QED BY <1>3, <2>1, <3>1
  <2>2. CASE k # 1
    <3>1. PICK j \in 1 .. n : k = j + 1
      <4>1. k - 1 \in 1 .. n /\ k = (k - 1) + 1
        BY <2>2
      <4> QED BY <4>1
    <3>2. f[j + 1] = g[j] /\ f[(j + 1) + 1] = g[j + 1]
      BY <1>4
    <3>3. Takes(Tail(p)[j].sym, Tail(p)[j].tok, g[j], g[j + 1])
      BY <1>1, <1>3 DEF IsWay
    <3> QED BY <1>3, <3>1, <3>2, <3>3
  <2> QED BY <2>1, <2>2
<1>8. f[(n + 1) + 1] = z
  <2>1. g[n + 1] = z
    BY <1>1, <1>3 DEF IsWay
  <2> QED BY <1>4, <2>1
<1>9. IsWay(f, p, a, z)
  BY <1>2, <1>4, <1>6, <1>7, <1>8 DEF IsWay
<1> QED BY <1>9 DEF Way

\* Symbols that do nothing at a stage.
LEMMA WayConstant ==
  ASSUME NEW p, Len(p) \in Nat, NEW a \in Stage,
         \A i \in 1 .. Len(p) : Takes(p[i].sym, p[i].tok, a, a)
  PROVE  Way(p, a, a)
<1>1. PICK n \in Nat : n = Len(p)
  OBVIOUS
<1>2. PICK h : h = [k \in 1 .. n + 1 |-> a]
  OBVIOUS
<1>3. /\ h \in [1 .. n + 1 -> Stage] /\ h[1] = a /\ h[n + 1] = a
      /\ \A k \in 1 .. n : h[k] = a /\ h[k + 1] = a
  BY <1>2
<1>4. IsWay(h, p, a, a)
  BY <1>1, <1>3 DEF IsWay
<1> QED BY <1>4 DEF Way

LEMMA WalkWay ==
  ASSUME NEW t \in TokenOrEOF, NEW a \in Stage, a.m = "entered", a.o = 0
  PROVE  Symbols(Walk, t) \in Seq(Items(TokenOrEOF)) /\ Way(Symbols(Walk, t), a, a)
<1>1. PICK w : w = Walk
  OBVIOUS
<1>2. w \in Seq(Name) /\ \A i \in 1 .. Len(w) : w[i] \in {"call_user_function", "RETURN_TRUE"}
  BY <1>1, WalkType, Zenon
<1>3. /\ Symbols(w, t) \in Seq(Items(TokenOrEOF)) /\ Len(Symbols(w, t)) = Len(w)
      /\ \A i \in 1 .. Len(w) : Symbols(w, t)[i] = [sym |-> w[i], tok |-> t]
  BY <1>2, SymbolsType
<1>4. PICK s : s = Symbols(w, t)
  OBVIOUS
<1>5. /\ s \in Seq(Items(TokenOrEOF)) /\ Len(s) = Len(w) /\ Len(s) \in Nat
      /\ \A i \in 1 .. Len(w) : s[i] = [sym |-> w[i], tok |-> t]
  <2>1. s \in Seq(Items(TokenOrEOF))
    BY <1>3, <1>4, Zenon
  <2>2. Len(s) \in Nat
    BY <2>1
  <2> QED BY <1>3, <1>4, <2>2, Zenon
<1>6. ASSUME NEW i \in 1 .. Len(s) PROVE Takes(s[i].sym, s[i].tok, a, a)
  <2>1. s[i].sym \in {"call_user_function", "RETURN_TRUE"}
    <3>1. s[i] = [sym |-> w[i], tok |-> t]
      BY <1>5, Zenon
    <3>2. s[i].sym = w[i]
      BY <3>1
    <3>3. i \in 1 .. Len(w)
      BY <1>5, Zenon
    <3> QED BY <1>2, <3>2, <3>3, Zenon
  <2> QED BY <2>1, Zenon DEF Takes
<1>7. Way(s, a, a)
  BY <1>5, <1>6, WayConstant
<1> QED BY <1>1, <1>4, <1>5, <1>7, Zenon

LEMMA TwoMarks ==
  ASSUME NEW w \in Seq(Mark), NEW w2 \in Seq(Mark), NEW j \in Mark, NEW k \in Mark,
         NEW j2 \in Mark, NEW k2 \in Mark, Push(j, Push(k, w)) = Push(j2, Push(k2, w2))
  PROVE  j = j2 /\ k = k2 /\ w = w2
<1>1. PICK p, q : p \in Seq(Mark) /\ q \in Seq(Mark) /\ p = Push(k, w) /\ q = Push(k2, w2)
  <2>1. Push(k, w) \in Seq(Mark) /\ Push(k2, w2) \in Seq(Mark)
    BY Pushed, Zenon
  <2> QED BY <2>1, Zenon
<1>2. IsSeq(p) /\ IsSeq(q) /\ IsSeq(w) /\ IsSeq(w2)
  BY <1>1 DEF IsSeq
<1>3. /\ Pop(Push(j, p), 1) = p /\ Pop(Push(j2, q), 1) = q
      /\ Push(j, p)[1] = j /\ Push(j2, q)[1] = j2
  BY <1>2, AnyPushed
<1>4. p = q /\ j = j2
  BY <1>1, <1>3
<1>5. Pop(p, 1) = w /\ Pop(q, 1) = w2 /\ p[1] = k /\ q[1] = k2
  BY <1>1, <1>2, AnyPushed
<1> QED BY <1>4, <1>5

\* Where the parser is in the function that is called at a, of a type.
Entrance(a, x, w, y) ==
  StageOf(Push(x, Push(CalledMark, w)), Push(For("call", a.n), a.e), a.n, Push(-1, a.l),
      IF y = "user" THEN 0 ELSE a.p, Push(y, a.f), "entered", 0)

LEMMA EntranceParts ==
  ASSUME NEW a \in Stage, NEW x \in Mark, NEW w \in Seq(Mark), NEW y \in FnType,
         NEW c, c = Entrance(a, x, w, y)
  PROVE  /\ c \in Stage /\ c.w = Push(x, Push(CalledMark, w))
         /\ c.e = Push(For("call", a.n), a.e) /\ c.n = a.n /\ c.l = Push(-1, a.l)
         /\ c.p = (IF y = "user" THEN 0 ELSE a.p) /\ c.f = Push(y, a.f)
         /\ c.m = "entered" /\ c.o = 0
<1>1. PICK k, e, n, l, p, f, m :
        /\ k \in SavedFor /\ e \in Seq(SavedFor) /\ n \in Nat /\ l \in Seq(Int) /\ p \in Nat
        /\ f \in Seq(FnType) /\ m \in Moment
        /\ k = For("call", a.n) /\ e = a.e /\ n = a.n /\ l = a.l
        /\ p = (IF y = "user" THEN 0 ELSE a.p) /\ f = a.f /\ m = "entered"
  <2>1. /\ a.e \in Seq(SavedFor) /\ a.n \in Nat /\ a.l \in Seq(Int) /\ a.f \in Seq(FnType)
        /\ a.p \in Nat
    BY StageParts
  <2>2. For("call", a.n) \in SavedFor
    BY <2>1 DEF For, SavedFor
  <2>3. "entered" \in Moment /\ (IF y = "user" THEN 0 ELSE a.p) \in Nat
    BY <2>1 DEF Moment
  <2> QED BY <2>1, <2>2, <2>3, Zenon
<1>2. PICK v, e1, l1, f1 :
        /\ v \in Seq(Mark) /\ e1 \in Seq(SavedFor) /\ l1 \in Seq(Int) /\ f1 \in Seq(FnType)
        /\ v = Push(x, Push(CalledMark, w)) /\ e1 = Push(k, e) /\ l1 = Push(-1, l)
        /\ l1[1] = -1 /\ f1 = Push(y, f)
  <2>1. -1 \in Int /\ CalledMark \in Mark
    BY MarkTypes
  <2>2. Push(k, e) \in Seq(SavedFor)
    BY <1>1, Pushed, Zenon
  <2>3. Push(-1, l) \in Seq(Int) /\ Push(-1, l)[1] = -1
    BY <1>1, <2>1, Pushed, ZenonT(40)
  <2>4. Push(y, f) \in Seq(FnType)
    BY <1>1, Pushed, Zenon
  <2>5. Push(CalledMark, w) \in Seq(Mark)
    BY <2>1, Pushed, Zenon
  <2>6. Push(x, Push(CalledMark, w)) \in Seq(Mark)
    BY <2>5, Pushed, Zenon
  <2> QED BY <2>2, <2>3, <2>4, <2>6, Zenon
<1>3. c = StageOf(v, e1, n, l1, p, f1, m, 0)
  BY <1>1, <1>2 DEF Entrance
<1>4. l1 # <<>> => l1[1] <= p
  BY <1>1, <1>2
<1>5. /\ v \in Seq(Mark) /\ e1 \in Seq(SavedFor) /\ n \in Nat /\ l1 \in Seq(Int) /\ p \in Nat
      /\ f1 \in Seq(FnType) /\ m \in Moment /\ 0 \in Nat
  BY <1>1, <1>2
<1>6. /\ c \in Stage /\ c.w = v /\ c.e = e1 /\ c.n = n /\ c.l = l1
      /\ c.p = p /\ c.f = f1 /\ c.m = m /\ c.o = 0
  BY <1>3, <1>4, <1>5 DEF Stage, Fields, FnType, StageOf
<1> QED BY <1>1, <1>2, <1>6

\* Behind a call comes its end.
LEMMA BehindSkipped ==
  ASSUME NEW x, NEW t, NEW a, NEW b, Takes(x, t, a, b), a.m = "skipped"
  PROVE  x = "possible_function_call" /\ b = To(a, a.w, "over", 0)
BY Zenon DEF Takes, Plain, Trades, HeaderLeft, ForLeft, CallSkipped, SkippedEnds, CalledEnds

LEMMA BehindOver ==
  ASSUME NEW x, NEW t, NEW a, NEW b, Takes(x, t, a, b), a.m = "over"
  PROVE  x = "cs_functioncall_end" /\ (SkippedEnds(a, b) \/ CalledEnds(a, b))
BY Zenon DEF Takes, Plain, Trades, HeaderLeft, ForLeft, CallSkipped

\* The stage behind a call that was skipped.
LEMMA SkippedStage ==
  ASSUME NEW a \in Stage, NEW x \in Mark, NEW w \in Seq(Mark),
         NEW b, b = To(a, Push(x, Push(SkippedCall, w)), "skipped", 0)
  PROVE  /\ b \in Stage /\ b.w = Push(x, Push(SkippedCall, w)) /\ b.m = "skipped" /\ b.o = 0
         /\ b.e = a.e /\ b.n = a.n /\ b.l = a.l /\ b.p = a.p /\ b.f = a.f
         /\ \A v, k : To(b, v, k, 0) = To(a, v, k, 0)
<1>1. PICK v \in Seq(Mark), m \in Moment : v = Push(x, Push(SkippedCall, w)) /\ m = "skipped"
  <2>1. SkippedCall \in Mark /\ "skipped" \in Moment
    BY MarkTypes DEF Moment
  <2>2. Push(SkippedCall, w) \in Seq(Mark)
    BY <2>1, Pushed, Zenon
  <2>3. Push(x, Push(SkippedCall, w)) \in Seq(Mark)
    BY <2>2, Pushed, Zenon
  <2> QED BY <2>1, <2>3, Zenon
<1>2. PICK c \in Stage : c = To(a, v, m, 0) /\ c.w = v /\ c.m = m /\ c.o = 0
           /\ c.e = a.e /\ c.n = a.n /\ c.l = a.l /\ c.p = a.p /\ c.f = a.f
           /\ \A u, k : To(c, u, k, 0) = To(a, u, k, 0)
  BY StageMoved
<1> QED BY <1>1, <1>2

\* The function that is entered can also be left by the end of the call.
LEMMA EnteredWay ==
  ASSUME NEW I, NEW p \in Seq(I), NEW a \in Stage, NEW z, Plain(z), NEW w \in Seq(Mark),
         NEW x \in Mark, Off(x), x.above >= a.p, NEW y \in FnType,
         Way(p, To(a, Push(x, Push(SkippedCall, w)), "skipped", 0), z)
  PROVE  Way(p, Entrance(a, x, w, y), z)
<1>1. PICK b : b = To(a, Push(x, Push(SkippedCall, w)), "skipped", 0)
  OBVIOUS
<1>2. /\ b \in Stage /\ b.w = Push(x, Push(SkippedCall, w)) /\ b.m = "skipped" /\ b.o = 0
      /\ b.e = a.e /\ b.n = a.n /\ b.l = a.l /\ b.p = a.p /\ b.f = a.f
      /\ \A v, k : To(b, v, k, 0) = To(a, v, k, 0)
  BY <1>1, SkippedStage
<1>3. PICK c : c = Entrance(a, x, w, y)
  OBVIOUS
<1>4. /\ c \in Stage /\ c.w = Push(x, Push(CalledMark, w))
      /\ c.e = Push(For("call", a.n), a.e) /\ c.n = a.n /\ c.l = Push(-1, a.l)
      /\ c.p = (IF y = "user" THEN 0 ELSE a.p) /\ c.f = Push(y, a.f)
      /\ c.m = "entered" /\ c.o = 0
  BY <1>3, EntranceParts
<1>5. p # <<>>
  <2>1. ASSUME p = <<>> PROVE FALSE
    <3>1. b = z
      BY <1>1, <2>1, WayEmpty
    <3> QED BY <1>2, <3>1 DEF Plain
  <2> QED BY <2>1
<1>6. PICK b2 \in Stage : Takes(Head(p).sym, Head(p).tok, b, b2) /\ Way(Tail(p), b2, z)
  BY <1>1, <1>5, WayFirst
<1>7. Head(p).sym = "possible_function_call" /\ b2 = To(b, b.w, "over", 0)
  BY <1>2, <1>6, BehindSkipped
<1>8. /\ b2.w = b.w /\ b2.m = "over" /\ b2.o = 0 /\ b2.e = a.e /\ b2.n = a.n /\ b2.l = a.l
      /\ b2.p = a.p /\ b2.f = a.f /\ \A v, k : To(b2, v, k, 0) = To(a, v, k, 0)
  <2>1. b.w \in Seq(Mark) /\ "over" \in Moment
    BY <1>2, StageParts DEF Moment
  <2>2. PICK g \in Stage : /\ g = To(b, b.w, "over", 0) /\ g.w = b.w /\ g.m = "over" /\ g.o = 0
           /\ g.e = b.e /\ g.n = b.n /\ g.l = b.l /\ g.p = b.p /\ g.f = b.f
           /\ \A v, k : To(g, v, k, 0) = To(b, v, k, 0)
    BY <1>2, <2>1, StageMoved
  <2> QED BY <1>2, <1>7, <2>2
<1>9. PICK q \in Seq(I) : q = Tail(p)
  <2>1. Tail(p) \in Seq(I)
    BY <1>5
  <2> QED BY <2>1, Zenon
<1>10. q # <<>>
  <2>1. ASSUME q = <<>> PROVE FALSE
    <3>1. Way(<<>>, b2, z)
      BY <1>6, <1>9, <2>1
    <3>2. b2 = z
      BY <3>1, WayEmpty
    <3> QED BY <1>8, <3>2 DEF Plain
  <2> QED BY <2>1
<1>11. PICK d \in Stage : Takes(Head(q).sym, Head(q).tok, b2, d) /\ Way(Tail(q), d, z)
  <2>1. Way(q, b2, z)
    BY <1>6, <1>9
  <2> QED BY <1>10, <2>1, WayFirst
<1>12. Head(q).sym = "cs_functioncall_end" /\ (SkippedEnds(b2, d) \/ CalledEnds(b2, d))
  BY <1>8, <1>11, BehindOver
<1>13. "user" \in FnType /\ CalledMark \in Mark /\ SkippedCall \in Mark /\ Value \in Mark
       /\ CalledMark # SkippedCall
  BY MarkTypes DEF FnType, CalledMark, SkippedCall
<1>14. d = To(a, Push(Value, w), "plain", 0)
  <2>1. CASE SkippedEnds(b2, d)
    <3>1. PICK w2 \in Seq(Mark), x2 \in Mark : /\ b2.w = Push(x2, Push(SkippedCall, w2))
                                  /\ d = To(b2, Push(Value, w2), "plain", 0)
      BY <2>1 DEF SkippedEnds
    <3>2. w2 = w
      <4>1. Push(x2, Push(SkippedCall, w2)) = Push(x, Push(SkippedCall, w))
        BY <1>2, <1>8, <3>1
      <4>2. PICK k \in Mark : k = SkippedCall
        BY <1>13
      <4>3. Push(x2, Push(k, w2)) = Push(x, Push(k, w))
        BY <4>1, <4>2
      <4> QED BY <4>3, TwoMarks
    <3> QED BY <1>8, <3>1, <3>2
  <2>2. CASE CalledEnds(b2, d)
    <3>1. PICK w2 \in Seq(Mark), x2 \in Mark : b2.w = Push(x2, Push(CalledMark, w2))
      BY <2>2 DEF CalledEnds
    <3>2. CalledMark = SkippedCall
      <4>1. Push(x2, Push(CalledMark, w2)) = Push(x, Push(SkippedCall, w))
        BY <1>2, <1>8, <3>1
      <4>2. PICK k \in Mark, k2 \in Mark : k = SkippedCall /\ k2 = CalledMark
        BY <1>13
      <4>3. Push(x2, Push(k2, w2)) = Push(x, Push(k, w))
        BY <4>1, <4>2
      <4> QED BY <4>2, <4>3, TwoMarks
    <3> QED BY <1>13, <3>2
  <2> QED BY <1>12, <2>1, <2>2
<1>15. /\ d.w = Push(Value, w) /\ d.e = a.e /\ d.n = a.n /\ d.l = a.l /\ d.p = a.p /\ d.f = a.f
       /\ Plain(d)
  <2>1. Push(Value, w) \in Seq(Mark) /\ "plain" \in Moment
    <3>1. Push(Value, w) \in Seq(Mark)
      BY <1>13, Pushed, Zenon
    <3> QED BY <3>1 DEF Moment
  <2>2. PICK g \in Stage : /\ g = To(a, Push(Value, w), "plain", 0) /\ g.w = Push(Value, w)
           /\ g.m = "plain" /\ g.o = 0
           /\ g.e = a.e /\ g.n = a.n /\ g.l = a.l /\ g.p = a.p /\ g.f = a.f
    BY <2>1, StageMoved
  <2> QED BY <1>14, <2>2 DEF Plain
<1>16. PICK c2 \in Stage :
         /\ c2 = To(c, c.w, "over", 0) /\ c2.w = c.w /\ c2.m = "over" /\ c2.o = 0
         /\ c2.e = c.e /\ c2.n = c.n /\ c2.l = c.l /\ c2.p = c.p /\ c2.f = c.f
  <2>1. c.w \in Seq(Mark) /\ "over" \in Moment
    BY <1>4, StageParts DEF Moment
  <2> QED BY <1>4, <2>1, StageMoved
<1>17. CalledEnds(c2, d)
  <2>1. Leaves("call", c2, d)
    <3>1. a.n \in Nat /\ More("call") = 0
      BY StageParts DEF More
    <3> QED BY <1>4, <1>15, <1>16, <3>1 DEF Leaves
  <2>2. c2.l = Push(-1, d.l) /\ c2.f = Push(y, d.f) /\ (y = "user" \/ c2.p = d.p)
    BY <1>4, <1>15, <1>16
  <2>3. c2.w = Push(x, Push(CalledMark, w)) /\ d.w = Push(Value, w) /\ x.above >= d.p
    BY <1>4, <1>15, <1>16
  <2>4. y \in {"none", "user", "internal"}
    BY DEF FnType
  <2> QED BY <1>15, <1>16, <2>1, <2>2, <2>3, <2>4 DEF CalledEnds
<1>18. Way(q, c2, z)
  <2>1. Takes(Head(q).sym, Head(q).tok, c2, d)
    BY <1>12, <1>17, Zenon DEF Takes
  <2> QED BY <1>10, <1>11, <2>1, WayBefore
<1>19. Way(p, c, z)
  <2>1. Takes(Head(p).sym, Head(p).tok, c, c2)
    <3>1. c.m \in {"entered", "skipped"} /\ c.o = 0
      BY <1>4
    <3> QED BY <1>7, <1>16, <3>1, Zenon DEF Takes
  <2>2. Way(Tail(p), c2, z)
    BY <1>9, <1>18
  <2> QED BY <1>4, <1>5, <2>1, <2>2, WayBefore
<1> QED BY <1>3, <1>19

\* The stages before and behind the next symbol, and what follows.
Situation(U, a) ==
  /\ Course(U, a, parse, suspended) /\ FramesFit(U, suspended) /\ a \in Stage
  /\ FlowNow(a) /\ ValuesFit(a.w, values) /\ RestFits(a)

LEMMA SituationAt ==
  ASSUME IInv, LoopInv, Running, parse # <<>>
  PROVE  \E U, a, b :
           /\ Situation(U, a) /\ b \in Stage /\ Takes(Head(parse).sym, Tok, a, b)
           /\ Way(Tail(parse), b, Floor(U)) /\ Course(U, b, Tail(parse), suspended)
<1>1. PICK U, a : Course(U, a, parse, suspended) /\ FramesFit(U, suspended) /\ Fits(a)
  BY LoopAt
<1>2. parse \in Seq(Items(TokenOrEOF))
  BY IInvParts DEF InputInv, SymbolsOK
<1>3. PICK b \in Stage : Takes(Head(parse).sym, Tok, a, b) /\ Course(U, b, Tail(parse), suspended)
  <2>1. \E c \in Stage : Takes(Head(parse).sym, Head(parse).tok, a, c)
                         /\ Course(U, c, Tail(parse), suspended)
    BY <1>1, <1>2, CourseStep
  <2> QED BY <2>1 DEF Tok
<1>4. Situation(U, a)
  BY <1>1 DEF Course, Fits, FlowNow, Situation
<1>5. Way(Tail(parse), b, Floor(U))
  BY <1>3 DEF Course
<1> QED BY <1>3, <1>4, <1>5

LEMMA SituationNext ==
  ASSUME NEW U, NEW b, Course(U, b, parse', suspended'), FramesFit(U, suspended'),
         FlowNow(b)', ValuesFit(b.w, values'), RestFits(b)'
  PROVE  LoopInv'
<1>1. Fits(b)'
  BY FitsNext
<1> QED BY <1>1, LoopNext

\* The flag is saved, and the function starts without loops.
LEMMA EnterFlow ==
  ASSUME IInv, NEW a \in Stage, FlowNow(a), ExecuteFlag = "EXECUTE", NEW c, c \in Stage,
         c.e = Push(For("call", a.n), a.e), c.n = a.n,
         css' = Push(ExecuteFlag, css), ExecuteFlag' = "EXECUTE",
         function_state'.loop_change_type = "DO_NOTHING"
  PROVE  FlowNow(c)'
<1>1. PICK fl, e, k :
        /\ fl \in Seq(Flag) /\ fl = Push(ExecuteFlag, css) /\ fl[1] = "EXECUTE"
        /\ e \in Seq(SavedFor) /\ e = a.e /\ k \in SavedFor /\ k = For("call", a.n)
        /\ k.kind = "call"
  <2>1. Push(ExecuteFlag, css) \in Seq(Flag) /\ Push(ExecuteFlag, css)[1] = "EXECUTE"
    BY FlowTypes
  <2>2. a.e \in Seq(SavedFor) /\ a.n \in Nat
    BY StageParts
  <2>3. For("call", a.n) \in SavedFor /\ For("call", a.n).kind = "call"
    BY <2>2 DEF For, SavedFor
  <2> QED BY <2>1, <2>2, <2>3, Zenon
<1>2. FlagsFit(e, fl)
  BY <1>1 DEF FlowNow, FlowFits
<1>3. FlagsFit(Push(k, e), Push("EXECUTE", fl))
  BY <1>1, <1>2, FlagEnters
<1>4. Push(ExecuteFlag', css') = Push("EXECUTE", fl) /\ c.e = Push(k, e)
  BY <1>1
<1> QED BY <1>3, <1>4 DEF FlowNow, FlowFits, ChangeFits

\* The arguments are passed: the function is entered, or the call is skipped.
LEMMA PassedActs ==
  ASSUME cs_functioncall_post_variable_passing
  PROVE  /\ for_stack' = for_stack /\ suspended' = suspended /\ values' = values
         /\ tokens' = tokens /\ shutdown' = shutdown
         /\ ExecuteFlag' = ExecuteFlag /\ Execute' = Execute
         /\ function_state_stack' = function_state_stack
BY DEF cs_functioncall_post_variable_passing

LEMMA cs_functioncall_post_variable_passing_Loops ==
  ASSUME IInv, LoopInv, cs_functioncall_post_variable_passing
  PROVE  LoopInv'
<1>1. /\ Running /\ parse # <<>> /\ Head(parse).sym = "cs_functioncall_post_variable_passing"
      /\ \/ values[2] = NoCall /\ UNCHANGED <<pos, yychar, css, function_state>>
         \/ /\ values[2] # NoCall /\ SaveFlag /\ function_state' = NewLevels(function_state)
            /\ IF values[2].type = "user" THEN seek_token(values[2].offset)
               ELSE UNCHANGED <<pos, yychar>>
      /\ parse' = IF values[2].type = "internal" THEN Symbols(Walk, Tok) \o Tail(parse)
                  ELSE Tail(parse)
  BY PassedParts
<1>2. /\ for_stack' = for_stack /\ suspended' = suspended /\ values' = values
      /\ tokens' = tokens /\ shutdown' = shutdown
      /\ ExecuteFlag' = ExecuteFlag /\ Execute' = Execute
      /\ function_state_stack' = function_state_stack
  BY PassedActs
<1>3. PICK U, a, b :
        /\ Situation(U, a) /\ b \in Stage /\ Takes(Head(parse).sym, Tok, a, b)
        /\ Way(Tail(parse), b, Floor(U)) /\ Course(U, b, Tail(parse), suspended)
  BY <1>1, SituationAt
<1>4. CallSkipped(a, b)
  <2>1. Takes("cs_functioncall_post_variable_passing", Tok, a, b)
    BY <1>1, <1>3
  <2> QED BY <2>1 DEF Takes, Keepers, Giving
<1>5. PICK w \in Seq(Mark), x \in Mark :
        /\ a.m = "passed" /\ a.o = 0 /\ Off(x) /\ x.above >= a.p
        /\ a.w = Push(x, Push(Asked, w))
        /\ b = To(a, Push(x, Push(SkippedCall, w)), "skipped", 0)
  BY <1>4 DEF CallSkipped
<1>6. /\ a \in Stage /\ ValuesFit(a.w, values) /\ FlowNow(a) /\ FramesFit(U, suspended)
      /\ FunctionsFit(a, values, function_state, function_state_stack)
      /\ ForsFit(a, values, for_stack, tokens) /\ PlaceFits(a.p, pos, yychar)
      /\ MomentFits(a, values, Execute, yychar, shutdown)
      /\ TokensFit(a, tokens, pos, yychar, Execute)
  BY <1>3 DEF Situation, RestFits
<1>7. /\ CallAt(a) = 2 /\ ~ Again(a, tokens) /\ (Asking(a, values) <=> values[2] # NoCall)
  BY <1>5 DEF CallAt, Again, Asking
<1>8. Unmarked(tokens) /\ NoMark(yychar) /\ shutdown # "TERMINATE"
  <2>1. \A i \in DOMAIN tokens : tokens[i].type \notin TurnedTypes
    BY <1>5, <1>6 DEF TokensFit, TokenFits, TurnedTypes
  <2>2. NoMark(yychar) /\ shutdown # "TERMINATE"
    BY <1>5, <1>6 DEF TokensFit, MomentFits
  <2> QED BY <2>1, <2>2 DEF Unmarked
<1>9. /\ ValuesFit(w, Pop(values, 2)) /\ ItemFits(x, values[1]) /\ CallFits(values[2])
      /\ \A k \in Mark : ItemFits(k, values[2]) => ValuesFit(Push(x, Push(k, w)), values)
  <2>1. Asked \in Mark
    BY MarkTypes
  <2>2. ValuesFit(Push(x, Push(Asked, w)), values)
    BY <1>5, <1>6
  <2>3. /\ ValuesFit(w, Pop(values, 2)) /\ ItemFits(x, values[1]) /\ ItemFits(Asked, values[2])
    BY <2>1, <2>2, FitsPop2
  <2>4. PICK v \in Seq(Mark) : v = Push(Asked, w)
    <3>1. Push(Asked, w) \in Seq(Mark)
      BY <2>1, Pushed, Zenon
    <3> QED BY <3>1
  <2>5. ValuesFit(v, Pop(values, 1)) /\ Len(values) = Len(v) + 1
    BY <2>2, <2>4, FitsPop
  <2>6. ASSUME NEW k \in Mark, ItemFits(k, values[2]) PROVE ValuesFit(Push(x, Push(k, w)), values)
    <3>1. IsSeq(values) /\ Len(values) = Len(Push(x, Push(Asked, w)))
          /\ \A i \in 1 .. Len(Push(x, Push(Asked, w))) :
               ItemFits(Push(x, Push(Asked, w))[i], values[i])
      BY <2>2 DEF ValuesFit
    <3>2. PICK v2 \in Seq(Mark) : v2 = Push(k, w)
      <4>1. Push(k, w) \in Seq(Mark)
        BY <2>6, Pushed, Zenon
      <4> QED BY <4>1
    <3>3. IsSeq(w) /\ IsSeq(v) /\ IsSeq(v2)
      BY DEF IsSeq
    <3>4. /\ Len(v) = Len(w) + 1 /\ Len(v2) = Len(w) + 1 /\ Len(w) \in Nat
          /\ v2[1] = k /\ \A i \in 1 .. Len(w) : v[i + 1] = w[i] /\ v2[i + 1] = w[i]
      BY <2>4, <3>2, <3>3, AnyPushed
    <3>5. PICK y, y2 : y = Push(x, v) /\ y2 = Push(x, v2)
      OBVIOUS
    <3>6. /\ Len(y) = Len(v) + 1 /\ Len(y2) = Len(v2) + 1 /\ y[1] = x /\ y2[1] = x
          /\ \A i \in 1 .. Len(v) : y[i + 1] = v[i] /\ y2[i + 1] = v2[i]
      BY <3>3, <3>4, <3>5, AnyPushed
    <3>7. PICK n \in Nat : n = Len(w) /\ Len(y2) = n + 2 /\ Len(y) = n + 2
      BY <3>4, <3>6
    <3>8. ASSUME NEW i \in 1 .. n + 2 PROVE ItemFits(y2[i], values[i])
      <4>1. CASE i = 1
        <5>1. ItemFits(y[1], values[1])
          BY <2>4, <3>1, <3>5, <3>7
        <5> QED BY <3>6, <4>1, <5>1
      <4>2. CASE i = 2
        <5>1. y2[1 + 1] = v2[1]
          BY <3>4, <3>6, <3>7
        <5> QED BY <2>6, <3>4, <4>2, <5>1
      <4>3. CASE i > 2
        <5>1. PICK j \in 1 .. n : i = (j + 1) + 1
          <6>1. i - 2 \in 1 .. n /\ i = ((i - 2) + 1) + 1
            BY <4>3
          <6> QED BY <6>1
        <5>2. y2[(j + 1) + 1] = w[j] /\ y[(j + 1) + 1] = w[j]
          <6>1. j \in 1 .. Len(w) /\ j + 1 \in 1 .. Len(v) /\ j + 1 \in 1 .. Len(v2)
            BY <3>4, <3>7
          <6> QED BY <3>4, <3>6, <6>1
        <5>3. ItemFits(y[i], values[i])
          BY <2>4, <3>1, <3>5, <3>7
        <5> QED BY <5>1, <5>2, <5>3
      <4> QED BY <4>1, <4>2, <4>3
    <3>9. ValuesFit(y2, values)
      BY <2>4, <3>1, <3>5, <3>7, <3>8 DEF ValuesFit
    <3> QED BY <3>2, <3>5, <3>9
  <2>7. CallFits(values[2])
    BY <2>3 DEF ItemFits, Asked
  <2> QED BY <2>3, <2>6, <2>7
<1>10. CASE values[2] = NoCall
  <2>1. /\ UNCHANGED <<pos, yychar, css, function_state>> /\ parse' = Tail(parse)
    BY <1>1, <1>10 DEF NoCall
  <2>2. /\ b.w = Push(x, Push(SkippedCall, w)) /\ b.m = "skipped" /\ b.o = 0
        /\ b.e = a.e /\ b.n = a.n /\ b.l = a.l /\ b.p = a.p /\ b.f = a.f
    BY <1>5, <1>6, SkippedStage
  <2>3. ValuesFit(b.w, values')
    <3>1. SkippedCall \in Mark /\ ItemFits(SkippedCall, values[2])
      BY <1>10, MarkTypes DEF ItemFits, SkippedCall
    <3> QED BY <1>2, <1>9, <2>2, <3>1
  <2>4. FlowNow(b)'
    BY <1>2, <1>6, <2>1, <2>2, FlowSameNext
  <2>5. QuietFits(b)'
    <3>1. TypesOf(function_state, function_state_stack)' = b.f /\ AllCalm(function_state_stack)'
      BY <1>2, <1>6, <1>7, <1>10, <2>1, <2>2 DEF FunctionsFit
    <3>2. for_stack' = b.l
      BY <1>2, <1>6, <1>7, <1>10, <2>2 DEF ForsFit
    <3> QED BY <1>2, <1>6, <1>8, <2>1, <2>2, <3>1, <3>2 DEF QuietFits
  <2>6. RestFits(b)'
    BY <2>2, <2>5, QuietStageNext DEF QuietMoments
  <2>7. Course(U, b, parse', suspended') /\ FramesFit(U, suspended')
    BY <1>2, <1>3, <1>6, <2>1
  <2> QED BY <2>3, <2>4, <2>6, <2>7, SituationNext
<1>11. CASE values[2] # NoCall
  <2>1. PICK y : y = values[2].type
    OBVIOUS
  <2>2. y = function_state.type /\ y \in {"user", "internal"} /\ y \in FnType
        /\ (y = "user" => values[2].offset \in Nat \ {0})
    BY <1>6, <1>7, <1>9, <1>11, <2>1 DEF FunctionsFit, CallFits, FnType
  <2>3. PICK c : c = Entrance(a, x, w, y)
    OBVIOUS
  <2>4. /\ c \in Stage /\ c.w = Push(x, Push(CalledMark, w))
        /\ c.e = Push(For("call", a.n), a.e) /\ c.n = a.n /\ c.l = Push(-1, a.l)
        /\ c.p = (IF y = "user" THEN 0 ELSE a.p) /\ c.f = Push(y, a.f)
        /\ c.m = "entered" /\ c.o = 0
    BY <1>6, <2>2, <2>3, EntranceParts
  <2>5. /\ SaveFlag /\ function_state' = NewLevels(function_state)
        /\ IF y = "user" THEN seek_token(values[2].offset) ELSE UNCHANGED <<pos, yychar>>
    BY <1>1, <1>11, <2>1
  <2>6. /\ function_state'.type = function_state.type
        /\ function_state'.loop_change_type = "DO_NOTHING"
    BY <2>5, FlowTypes DEF NewLevels, NoChange, FunctionState
  <2>7. Execute /\ ExecuteFlag = "EXECUTE"
    BY <1>6, <1>7, <1>11, FlowTypes DEF MomentFits
  <2>8. FlowNow(c)'
    BY <1>2, <1>6, <2>4, <2>5, <2>6, <2>7, EnterFlow DEF SaveFlag
  <2>9. ValuesFit(c.w, values')
    <3>1. CalledMark \in Mark /\ ItemFits(CalledMark, values[2])
      BY <1>11, MarkTypes DEF ItemFits, CalledMark
    <3> QED BY <1>2, <1>9, <2>4, <3>1
  <2>10. QuietFits(c)'
    <3>1. TypesOf(function_state, function_state_stack)' = c.f /\ AllCalm(function_state_stack)'
      <4>1. TypesOf(function_state, function_state_stack) = Push(function_state.type, a.f)
        BY <1>6, <1>7, <1>11 DEF FunctionsFit
      <4>2. TypesOf(function_state, function_state_stack)'
            = TypesOf(function_state, function_state_stack)
        BY <1>2, <2>6 DEF TypesOf
      <4> QED BY <1>2, <1>6, <2>2, <2>4, <4>1, <4>2 DEF FunctionsFit
    <3>2. for_stack' = c.l
      BY <1>2, <1>6, <1>7, <1>11, <2>4 DEF ForsFit
    <3>3. PlaceFits(c.p, pos', yychar') /\ NoMark(yychar')
      <4>1. CASE y = "user"
        BY <2>2, <2>4, <2>5, <4>1 DEF seek_token, PlaceFits, LookFits, NoMark
      <4>2. CASE y # "user"
        BY <1>6, <1>8, <2>4, <2>5, <4>2
      <4> QED BY <4>1, <4>2
    <3> QED BY <1>2, <1>8, <2>7, <3>1, <3>2, <3>3 DEF QuietFits
  <2>11. RestFits(c)'
    BY <2>4, <2>10, QuietStageNext DEF QuietMoments
  <2>12. PICK q : q \in Seq(Items(TokenOrEOF)) /\ q = Tail(parse)
    <3>1. parse \in Seq(Items(TokenOrEOF)) /\ parse # <<>>
      BY <1>1, IInvParts DEF InputInv, SymbolsOK
    <3>2. Tail(parse) \in Seq(Items(TokenOrEOF))
      BY <3>1
    <3> QED BY <3>2, Zenon
  <2>13. Way(q, c, Floor(U))
    <3>1. Plain(Floor(U))
      BY <1>3, FloorType DEF Situation, Course
    <3> QED BY <1>3, <1>5, <1>6, <2>2, <2>3, <2>12, <3>1, EnteredWay
  <2>14. Way(parse', c, Floor(U))
    <3>1. CASE y = "internal"
      <4>1. Tok \in TokenOrEOF
        <5>1. parse \in Seq(Items(TokenOrEOF)) /\ parse # <<>>
          BY <1>1, IInvParts DEF InputInv, SymbolsOK
        <5>2. Head(parse) \in Items(TokenOrEOF)
          BY <5>1
        <5> QED BY <5>2 DEF Tok, Items
      <4>2. PICK s : s = Symbols(Walk, Tok)
        OBVIOUS
      <4>3. s \in Seq(Items(TokenOrEOF)) /\ Way(s, c, c)
        BY <2>4, <4>1, <4>2, WalkWay
      <4>4. Way(s \o q, c, Floor(U))
        BY <2>12, <2>13, <4>3, WayOn
      <4> QED BY <1>1, <2>1, <2>12, <3>1, <4>2, <4>4
    <3>2. CASE y # "internal"
      BY <1>1, <2>1, <2>12, <2>13, <3>2
    <3> QED BY <3>1, <3>2
  <2>15. Course(U, c, parse', suspended') /\ FramesFit(U, suspended')
    BY <1>2, <1>3, <1>6, <2>4, <2>14, CourseOther
  <2> QED BY <2>8, <2>9, <2>11, <2>15, SituationNext
<1> QED BY <1>10, <1>11

-----------------------------------------------------------------------------
(* A function is left *)

\* The flag that was saved for the call is restored, and the function that goes on
\* neither broke a loop nor returned.
LEMMA LeaveCallFlow ==
  ASSUME IInv, NEW a \in Stage, NEW b \in Stage, Leaves("call", a, b), FlowNow(a), DropFlag,
         ExecuteFlag' \in {SavedFlag, "EXECUTE"},
         function_state'.loop_change_type = "DO_NOTHING"
  PROVE  FlowNow(b)'
<1>1. PICK e \in Seq(SavedFor), k \in SavedFor : e = b.e /\ k = For("call", a.n) /\ k.kind = "call"
                                               /\ a.e = Push(k, e)
  <2>1. b.e \in Seq(SavedFor) /\ a.n \in Nat
    BY StageParts
  <2>2. For("call", a.n) \in SavedFor /\ For("call", a.n).kind = "call"
    BY <2>1 DEF For, SavedFor
  <2>3. a.e = Push(For("call", a.n), b.e)
    BY DEF Leaves
  <2> QED BY <2>1, <2>2, <2>3, Zenon
<1>2. css # <<>> /\ css \in Seq(Flag)
  <2>1. Len(css) = Len(a.e) /\ css \in Seq(Flag)
    BY FlagsAt, FlowTypes
  <2>2. Len(Push(k, e)) = Len(e) + 1 /\ Len(e) \in Nat
    <3>1. IsSeq(e)
      BY <1>1 DEF IsSeq
    <3> QED BY <3>1, AnyPushed
  <2> QED BY <1>1, <2>1, <2>2
<1>3. PICK fl, y : fl \in Seq(Flag) /\ fl = css /\ y = ExecuteFlag
  BY <1>2
<1>4. FlagsFit(Push(k, e), Push(y, fl))
  BY <1>1, <1>3 DEF FlowNow, FlowFits
<1>5. FlagsFit(e, fl) /\ fl[1] = "EXECUTE"
  BY <1>1, <1>3, <1>4, FlagLeaves
<1>6. Push(ExecuteFlag', css') = fl
  <2>1. ExecuteFlag' = css[1] /\ css' = Pop(css, 1)
    BY <1>3, <1>5 DEF DropFlag, SavedFlag
  <2> QED BY <1>2, <1>3, <2>1, PushPop
<1>7. ChangeFits(b.e, b.n, Push(ExecuteFlag', css'), function_state')
  BY DEF ChangeFits
<1> QED BY <1>1, <1>5, <1>6, <1>7 DEF FlowNow, FlowFits

\* There is a function to go on with.
LEMMA CallOnStack ==
  ASSUME IInv, Action("cs_functioncall_end"), values[2] # NoCall
  PROVE  function_state_stack # <<>> /\ function_state_stack \in Seq(FunctionState)
<1> DEFINE n == Len(tokens)
<1>1. /\ \E U, a, b : Between(U, a, b)
      /\ Running /\ parse # <<>> /\ Head(parse).sym = "cs_functioncall_end"
      /\ function_state_stack \in Seq(FunctionState)
  BY ActionBetween, Zenon
<1>2. PICK U, a, b : Between(U, a, b)
  BY <1>1, Zenon
<1>3. /\ a \in Height /\ b \in Height /\ Effect("cs_functioncall_end", a, b)
      /\ IsAt(a, values, css, switch_stack, function_state, function_state_stack, Execute, n)
  BY <1>1, <1>2, Zenon DEF Between
<1>4. EndsSkipped(a, b) \/ EndsCalled(a, b)
  BY <1>3, CallEffects, Zenon
<1>5. "offset" \in Kind /\ "skipped" \in Kind
  BY DEF Kind
<1>6. ~ EndsSkipped(a, b)
  <2> SUFFICES ASSUME NEW w \in Seq(Kind), a.v = Push("offset", Push("skipped", w)) PROVE FALSE
    BY DEF EndsSkipped
  <2>1. Conforms(values, Push("offset", Push("skipped", w)), n)
    BY <1>3 DEF IsAt
  <2>2. ValueIs("skipped", values[2], n)
    BY <1>5, <2>1, ConformsPop2
  <2> QED BY <2>2 DEF ValueIs
<1>7. a.m \in {0, 5} /\ a.f = Push(b.n, b.f)
  BY <1>4, <1>6 DEF EndsCalled
<1>8. Levels(function_state_stack) = Push(b.n, b.f)
  BY <1>3, <1>7 DEF IsAt, Waiting
<1>9. PICK k \in Nat, f \in Seq(Nat) : k = b.n /\ f = b.f
  BY <1>3 DEF Height
<1>10. \E fs \in FunctionState : fs = function_state_stack[1]
       /\ Levels(Pop(function_state_stack, 1)) = f
  <2>1. Levels(function_state_stack) = Push(k, f)
    BY <1>8, <1>9, Zenon
  <2> QED BY <1>1, <2>1, LevelsPop
<1>11. Len(function_state_stack) # 0
  <2>1. PICK m \in Nat : m = Len(function_state_stack)
    BY <1>1
  <2>2. PICK g : g = Levels(function_state_stack)
    OBVIOUS
  <2>3. g = [i \in 1 .. m |-> function_state_stack[i].loop_nest_level]
    BY <2>1, <2>2 DEF Levels
  <2>4. DOMAIN g = 1 .. m
    BY <2>3
  <2>5. g \in Seq(Nat) /\ Len(g) = Len(f) + 1
    <3>1. g = Push(k, f)
      BY <1>8, <1>9, <2>2
    <3>2. Push(k, f) \in Seq(Nat)
      BY <1>9, Pushed, Zenon
    <3>3. IsSeq(f)
      BY <1>9 DEF IsSeq
    <3>4. Len(Push(k, f)) = Len(f) + 1
      BY <3>3, AnyPushed
    <3> QED BY <3>1, <3>2, <3>4
  <2>6. 1 \in DOMAIN g
    BY <2>5
  <2> QED BY <2>1, <2>4, <2>6
<1> QED BY <1>1, <1>11

\* The for statements of a function are dropped.
LEMMA ForsLeft ==
  ASSUME NEW l \in Seq(Int), for_stack = Push(-1, l)
  PROVE  Pop(for_stack, InnermostCall) = l
<1>1. PICK fors : fors = for_stack
  OBVIOUS
<1>2. fors \in Seq(Int) /\ Len(fors) = Len(l) + 1 /\ fors[1] = -1 /\ Pop(fors, 1) = l
  <2>1. -1 \in Int
    OBVIOUS
  <2>2. Push(-1, l) \in Seq(Int)
    BY <2>1, Pushed, Zenon
  <2>3. IsSeq(l)
    BY DEF IsSeq
  <2>4. Len(Push(-1, l)) = Len(l) + 1 /\ Push(-1, l)[1] = -1 /\ Pop(Push(-1, l), 1) = l
    BY <2>3, AnyPushed
  <2> QED BY <1>1, <2>2, <2>4
<1>3. 1 \in DOMAIN for_stack
  BY <1>1, <1>2
<1>4. \A j \in 1 .. 1 - 1 : for_stack[j] # -1
  OBVIOUS
<1>5. \A i \in DOMAIN for_stack : (\A j \in 1 .. i - 1 : for_stack[j] # -1) => i = 1
  <2> SUFFICES ASSUME NEW i \in DOMAIN for_stack, \A j \in 1 .. i - 1 : for_stack[j] # -1
               PROVE  i = 1
    OBVIOUS
  <2>1. i \in Nat \ {0}
    BY <1>1, <1>2
  <2>2. 1 \notin 1 .. i - 1
    BY <1>1, <1>2
  <2> QED BY <2>1, <2>2
<1>6. InnermostCall = 1
  BY <1>1, <1>2, <1>3, <1>4, <1>5 DEF InnermostCall
<1> QED BY <1>1, <1>2, <1>6

LEMMA EndActs ==
  ASSUME cs_functioncall_end
  PROVE  /\ Action("cs_functioncall_end")
         /\ \E v : values' = Push(v, Pop(values, 2))
         /\ \/ values[2] = NoCall /\ UNCHANGED <<input, flow, stacks>>
            \/ /\ values[2] # NoCall /\ LeaveCall
               /\ IF function_state.type = "user" THEN seek_token(values[1] + 1)
                  ELSE UNCHANGED <<pos, yychar>>
               /\ DropFlag /\ SetFlow(SavedFlag, function_state_stack[1])
               /\ UNCHANGED <<tokens, shutdown, switch_stack>>
BY Zenon DEF cs_functioncall_end

\* The caller goes on behind the arguments, with the state that it had.
LEMMA cs_functioncall_end_Loops ==
  ASSUME IInv, LoopInv, cs_functioncall_end
  PROVE  LoopInv'
<1>1. /\ Action("cs_functioncall_end")
      /\ \E v : values' = Push(v, Pop(values, 2))
      /\ \/ values[2] = NoCall /\ UNCHANGED <<input, flow, stacks>>
         \/ /\ values[2] # NoCall /\ LeaveCall
            /\ IF function_state.type = "user" THEN seek_token(values[1] + 1)
               ELSE UNCHANGED <<pos, yychar>>
            /\ DropFlag /\ SetFlow(SavedFlag, function_state_stack[1])
            /\ UNCHANGED <<tokens, shutdown, switch_stack>>
  BY EndActs
<1>2. /\ Running /\ parse # <<>> /\ Head(parse).sym = "cs_functioncall_end"
      /\ parse' = Tail(parse) /\ suspended' = suspended
  BY <1>1, AtAction
<1>3. PICK a \in Stage, b \in Stage :
        /\ Takes("cs_functioncall_end", Tok, a, b) /\ FlowNow(a) /\ ValuesFit(a.w, values)
        /\ RestFits(a)
        /\ FlowNow(b)' /\ ValuesFit(b.w, values') /\ RestFits(b)' => LoopInv'
  BY <1>2, SymbolStep
<1>4. SkippedEnds(a, b) \/ CalledEnds(a, b)
  BY <1>3 DEF Takes, Keepers, Giving
<1>5. QuietFits(a) /\ a.m = "over"
  <2>1. a.m = "over"
    BY <1>4 DEF SkippedEnds, CalledEnds
  <2> QED BY <1>3, <2>1, QuietRest DEF QuietMoments
<1>6. PICK v : values' = Push(v, Pop(values, 2))
  BY <1>1
<1>7. Value \in Mark /\ CalledMark \in Mark /\ SkippedCall \in Mark /\ ItemFits(Value, v)
  BY MarkTypes DEF ItemFits, Value
<1>8. CASE SkippedEnds(a, b)
  <2>1. PICK w \in Seq(Mark), x \in Mark :
          /\ Off(x) /\ a.w = Push(x, Push(SkippedCall, w)) /\ b = To(a, Push(Value, w), "plain", 0)
    BY <1>8 DEF SkippedEnds
  <2>2. ValuesFit(w, Pop(values, 2)) /\ ItemFits(SkippedCall, values[2])
    BY <1>3, <1>7, <2>1, FitsPop2
  <2>3. values[2] = NoCall
    BY <2>2 DEF ItemFits, SkippedCall
  <2>4. UNCHANGED <<input, flow, stacks>>
    BY <1>1, <2>3
  <2>5. /\ b.w = Push(Value, w) /\ b.m = "plain" /\ b.e = a.e /\ b.n = a.n /\ b.l = a.l
        /\ b.p = a.p /\ b.f = a.f
    <3>1. Push(Value, w) \in Seq(Mark) /\ "plain" \in Moment
      BY <1>7, Pushed DEF Moment
    <3>2. PICK c \in Stage :
            /\ c = To(a, Push(Value, w), "plain", 0) /\ c.w = Push(Value, w) /\ c.m = "plain"
            /\ c.e = a.e /\ c.n = a.n /\ c.l = a.l /\ c.p = a.p /\ c.f = a.f
      BY <3>1, StageMoved
    <3> QED BY <2>1, <3>2
  <2>6. ValuesFit(b.w, values')
    BY <1>6, <1>7, <2>2, <2>5, FitsPush
  <2>7. FlowNow(b)'
    BY <1>3, <2>4, <2>5, FlowSameNext DEF flow, stacks
  <2>8. QuietFits(b)'
    BY <1>5, <2>4, <2>5 DEF QuietFits, input, flow, stacks
  <2>9. RestFits(b)'
    BY <2>5, <2>8, QuietStageNext DEF QuietMoments
  <2> QED BY <1>3, <2>6, <2>7, <2>9
<1>9. CASE CalledEnds(a, b)
  <2>1. PICK w \in Seq(Mark), x \in Mark, y \in {"none", "user", "internal"} :
          /\ Off(x) /\ x.above >= b.p
          /\ a.w = Push(x, Push(CalledMark, w)) /\ b.w = Push(Value, w) /\ Plain(b)
          /\ Leaves("call", a, b) /\ a.l = Push(-1, b.l) /\ a.f = Push(y, b.f)
          /\ y = "user" \/ a.p = b.p
    BY <1>9 DEF CalledEnds
  <2>2. /\ ValuesFit(w, Pop(values, 2)) /\ ItemFits(CalledMark, values[2]) /\ ItemFits(x, values[1])
    BY <1>3, <1>7, <2>1, FitsPop2
  <2>3. values[2] # NoCall
    BY <2>2 DEF ItemFits, CalledMark
  <2>4. /\ LeaveCall
        /\ IF function_state.type = "user" THEN seek_token(values[1] + 1)
           ELSE UNCHANGED <<pos, yychar>>
        /\ DropFlag /\ SetFlow(SavedFlag, function_state_stack[1])
        /\ tokens' = tokens /\ shutdown' = shutdown
    BY <1>1, <2>3
  <2>5. function_state_stack # <<>> /\ function_state_stack \in Seq(FunctionState)
    BY <1>1, <2>3, CallOnStack
  <2>6. PICK l \in Seq(Int), f \in Seq(FnType) : l = b.l /\ f = b.f
    BY StageParts
  <2>7. for_stack' = b.l
    <3>1. for_stack = Push(-1, l)
      BY <1>5, <2>1, <2>6 DEF QuietFits
    <3> QED BY <2>4, <2>6, <3>1, ForsLeft DEF LeaveCall
  <2>8. PICK fs, ss : fs = function_state /\ ss = function_state_stack /\ ss # <<>>
                      /\ ss \in Seq(FunctionState)
    BY <2>5
  <2>9. /\ function_state' = ss[1] /\ function_state_stack' = Pop(ss, 1)
        /\ ExecuteFlag' = SavedFlag
    BY <2>4, <2>8 DEF SetFlow, LeaveCall
  <2>10. TypesOf(fs, ss) = Push(y, f) /\ AllCalm(ss)
    BY <1>5, <2>1, <2>6, <2>8 DEF QuietFits
  <2>11. TypesOf(ss[1], Pop(ss, 1)) = f /\ Calm(ss[1]) /\ AllCalm(Pop(ss, 1))
    <3>1. PICK fs2 : fs2 = ss[1]
      OBVIOUS
    <3>2. /\ ss \in Seq(FunctionState) /\ ss # <<>> /\ f \in Seq(FnType)
          /\ TypesOf(fs, ss) = Push(y, f)
      BY <2>6, <2>8, <2>10
    <3>3. TypesOf(fs2, Pop(ss, 1)) = f /\ (AllCalm(ss) => Calm(ss[1]) /\ AllCalm(Pop(ss, 1)))
      BY <3>1, <3>2, TypesLeft
    <3> QED BY <2>10, <3>1, <3>3
  <2>12. FlowNow(b)'
    <3>1. function_state'.loop_change_type = "DO_NOTHING"
      BY <2>9, <2>11 DEF Calm
    <3>2. ExecuteFlag' \in {SavedFlag, "EXECUTE"}
      BY <2>9
    <3> QED BY <1>3, <2>1, <2>4, <3>1, <3>2, LeaveCallFlow
  <2>13. fs.type = y
    <3>1. PICK n \in Nat : n = Len(ss)
      BY <2>8
    <3>2. PICK g : g = [i \in 1 .. n |-> ss[i].type]
      OBVIOUS
    <3>3. IsSeq(g) /\ IsSeq(f)
      <4>1. g \in [1 .. n -> {ss[i].type : i \in 1 .. n}]
        BY <3>2
      <4>2. IsSeq(g)
        BY <3>1, <4>1, SeqOf
      <4> QED BY <2>6, <4>2 DEF IsSeq
    <3>4. Push(fs.type, g) = Push(y, f)
      BY <2>10, <3>1, <3>2 DEF TypesOf
    <3>5. Push(fs.type, g)[1] = fs.type /\ Push(y, f)[1] = y
      BY <3>3, AnyPushed
    <3> QED BY <3>4, <3>5
  <2>14. PlaceFits(b.p, pos', yychar') /\ NoMark(yychar')
    <3>1. CASE y = "user"
      <4>1. pos' = values[1] + 1 /\ yychar' = EMPTY
        BY <2>4, <2>8, <2>13, <3>1 DEF seek_token
      <4>2. values[1] \in Nat /\ values[1] > x.above
        BY <2>1, <2>2 DEF ItemFits, Off
      <4>3. values[1] + 1 > b.p
        <5>1. x.above \in Nat /\ b.p \in Nat
          BY StageParts DEF Mark
        <5> QED BY <2>1, <4>2, <5>1
      <4> QED BY <4>1, <4>3 DEF PlaceFits, LookFits, NoMark
    <3>2. CASE y # "user"
      <4>1. pos' = pos /\ yychar' = yychar /\ a.p = b.p
        BY <2>1, <2>4, <2>8, <2>13, <3>2
      <4> QED BY <1>5, <4>1 DEF QuietFits
    <3> QED BY <3>1, <3>2
  <2>15. QuietFits(b)'
    <3>1. TypesOf(function_state, function_state_stack)' = b.f /\ AllCalm(function_state_stack)'
      BY <2>6, <2>9, <2>11
    <3>2. shutdown' # "TERMINATE" /\ Unmarked(tokens)' /\ b.m # "entered"
      BY <1>5, <2>1, <2>4 DEF QuietFits, Plain
    <3> QED BY <2>7, <2>14, <3>1, <3>2 DEF QuietFits
  <2>16. RestFits(b)'
    BY <2>1, <2>15, QuietStageNext DEF QuietMoments, Plain
  <2>17. ValuesFit(b.w, values')
    BY <1>6, <1>7, <2>1, <2>2, FitsPush
  <2> QED BY <1>3, <2>12, <2>16, <2>17
<1> QED BY <1>4, <1>8, <1>9

-----------------------------------------------------------------------------
(* Parsers within the parser *)

LEMMA StartWay ==
  ASSUME NEW c \in Stage, NEW d \in Stage, NEW z \in Stage,
         Takes("statement_list", EOF, c, d), Takes("EOF", EOF, d, z)
  PROVE  Way(Start, c, z)
<1>1. PICK p, t : p = Start /\ t = EOF
  OBVIOUS
<1>2. PICK i1, i2 : i1 = [sym |-> "statement_list", tok |-> t] /\ i2 = [sym |-> "EOF", tok |-> t]
  OBVIOUS
<1>3. p = <<i1, i2>>
  <2>1. DOMAIN <<"statement_list", "EOF">> = 1 .. 2
    OBVIOUS
  <2>2. <<i1, i2>> = [i \in 1 .. 2 |-> [sym |-> <<"statement_list", "EOF">>[i], tok |-> t]]
    BY <1>2
  <2>3. p = [i \in 1 .. 2 |-> [sym |-> <<"statement_list", "EOF">>[i], tok |-> t]]
    BY <1>1, <2>1, Zenon DEF Start, Symbols
  <2> QED BY <2>2, <2>3
<1>4. Len(p) = 2 /\ p[1] = i1 /\ p[2] = i2
  BY <1>3
<1>5. PICK h : h = [i \in 1 .. 3 |-> IF i = 1 THEN c ELSE IF i = 2 THEN d ELSE z]
  OBVIOUS
<1>6. h \in [1 .. 3 -> Stage] /\ h[1] = c /\ h[2] = d /\ h[3] = z
  BY <1>5
<1>7. ASSUME NEW k \in 1 .. 2 PROVE Takes(p[k].sym, p[k].tok, h[k], h[k + 1])
  <2>1. CASE k = 1
    <3>1. p[1].sym = "statement_list" /\ p[1].tok = EOF
      BY <1>1, <1>2, <1>4
    <3> QED BY <1>6, <2>1, <3>1
  <2>2. CASE k = 2
    <3>1. p[2].sym = "EOF" /\ p[2].tok = EOF
      BY <1>1, <1>2, <1>4
    <3> QED BY <1>6, <2>2, <3>1
  <2> QED BY <2>1, <2>2
<1>8. IsWay(h, p, c, z)
  BY <1>4, <1>6, <1>7 DEF IsWay
<1> QED BY <1>1, <1>8 DEF Way

\* A parser is started at stage a, where the old one waits.
LEMMA CoursePush ==
  ASSUME NEW U, NEW a, NEW p, NEW su, Course(U, a, p, su), IsSeq(su), NEW fr, fr.parse = p,
         NEW q, NEW c \in Stage, Way(q, c, Below(a))
  PROVE  Course(Push(a, U), c, q, Push(fr, su))
<1>1. a \in Stage /\ U \in Seq(Stage) /\ Len(U) = Len(su) /\ Way(p, a, Floor(U))
      /\ \A k \in 1 .. Len(U) : Way(su[k].parse, U[k], Floor(Pop(U, k)))
  BY DEF Course
<1>2. PICK l \in Nat : l = Len(U)
  BY <1>1
<1>3. PICK V \in Seq(Stage) : /\ V = Push(a, U) /\ Len(V) = l + 1 /\ V[1] = a /\ V # <<>>
                              /\ \A k \in 1 .. l : V[k + 1] = U[k]
                              /\ Pop(V, 1) = U
  <2>1. /\ Push(a, U) \in Seq(Stage) /\ Len(Push(a, U)) = l + 1 /\ Push(a, U)[1] = a
        /\ Push(a, U) # <<>> /\ \A k \in 1 .. l : Push(a, U)[k + 1] = U[k]
        /\ Pop(Push(a, U), 1) = U
    <3>1. a \in Stage /\ U \in Seq(Stage)
      BY <1>1, Zenon
    <3>2. IsSeq(U)
      BY <3>1, Zenon DEF IsSeq
    <3>3. Push(a, U) \in Seq(Stage)
      BY <3>1, Pushed, Zenon
    <3> QED BY <1>2, <3>2, <3>3, AnyPushed
  <2> QED BY <2>1, Zenon
<1>4. /\ IsSeq(Push(fr, su)) /\ Len(Push(fr, su)) = l + 1 /\ Push(fr, su)[1] = fr
      /\ \A k \in 1 .. l : Push(fr, su)[k + 1] = su[k]
  BY <1>1, <1>2, AnyPushed
<1>5. PICK su2 : su2 = Push(fr, su)
  OBVIOUS
<1>6. ASSUME NEW k \in 1 .. l + 1 PROVE Way(su2[k].parse, V[k], Floor(Pop(V, k)))
  <2>1. CASE k = 1
    BY <1>1, <1>3, <1>4, <1>5, <2>1
  <2>2. CASE k # 1
    <3>1. PICK j \in 1 .. l : k = j + 1
      <4>1. k - 1 \in 1 .. l /\ k = (k - 1) + 1
        BY <2>2
      <4> QED BY <4>1
    <3>2. Pop(V, j + 1) = Pop(Pop(V, 1), j)
      <4>1. j \in 0 .. Len(V) - 1
        BY <1>3
      <4> QED BY <4>1, PopMore
    <3>3. Way(su[j].parse, U[j], Floor(Pop(U, j)))
      BY <1>1, <1>2
    <3> QED BY <1>3, <1>4, <1>5, <3>1, <3>2, <3>3
  <2> QED BY <2>1, <2>2
<1>7. Floor(V) = Below(a)
  BY <1>3 DEF Floor
<1> QED BY <1>3, <1>4, <1>5, <1>6, <1>7 DEF Course

LEMMA FitsPushed ==
  ASSUME NEW U \in Seq(Stage), NEW su, IsSeq(su), Len(U) = Len(su), FramesFit(U, su),
         NEW a, NEW fr, FrameFits(a, fr)
  PROVE  FramesFit(Push(a, U), Push(fr, su))
<1>1. PICK l \in Nat : l = Len(U)
  OBVIOUS
<1>2. PICK V : V = Push(a, U)
  OBVIOUS
<1>3. Len(V) = l + 1 /\ V[1] = a /\ \A k \in 1 .. l : V[k + 1] = U[k]
  <2>1. IsSeq(U)
    BY Zenon DEF IsSeq
  <2> QED BY <1>1, <1>2, <2>1, AnyPushed
<1>4. PICK su2 : su2 = Push(fr, su)
  OBVIOUS
<1>5. su2[1] = fr /\ \A k \in 1 .. l : su2[k + 1] = su[k]
  BY <1>1, <1>4, AnyPushed
<1>6. ASSUME NEW k \in 1 .. l + 1 PROVE FrameFits(V[k], su2[k])
  <2>1. CASE k = 1
    BY <1>3, <1>5, <2>1
  <2>2. CASE k # 1
    <3>1. PICK j \in 1 .. l : k = j + 1
      <4>1. k - 1 \in 1 .. l /\ k = (k - 1) + 1
        BY <2>2
      <4> QED BY <4>1
    <3>2. FrameFits(U[j], su[j])
      BY <1>1 DEF FramesFit
    <3> QED BY <1>3, <1>5, <3>1, <3>2
  <2> QED BY <2>1, <2>2
<1> QED BY <1>2, <1>3, <1>4, <1>6 DEF FramesFit

\* And it returns there.
LEMMA CoursePop ==
  ASSUME NEW U, NEW a, NEW su, Course(U, a, <<>>, su), IsSeq(su), su # <<>>, FramesFit(U, su)
  PROVE  /\ U[1] \in Stage /\ a = Below(U[1]) /\ Course(Pop(U, 1), U[1], su[1].parse, Pop(su, 1))
         /\ FrameFits(U[1], su[1]) /\ FramesFit(Pop(U, 1), Pop(su, 1))
<1>1. U \in Seq(Stage) /\ Len(U) = Len(su) /\ Way(<<>>, a, Floor(U))
      /\ \A k \in 1 .. Len(U) : Way(su[k].parse, U[k], Floor(Pop(U, k)))
  BY DEF Course
<1>2. Len(su) # 0 /\ Len(su) \in Nat
  BY DEF IsSeq
<1>3. PICK l \in Nat : Len(U) = l + 1 /\ Len(su) = l + 1
  <2>1. Len(su) - 1 \in Nat /\ Len(su) = (Len(su) - 1) + 1
    BY <1>2
  <2> QED BY <1>1, <2>1
<1>4. U # <<>> /\ U[1] \in Stage
  BY <1>1, <1>3
<1>5. a = Below(U[1])
  <2>1. a = Floor(U)
    BY <1>1, WayEmpty, Zenon
  <2> QED BY <1>4, <2>1 DEF Floor
<1>6. PICK V \in Seq(Stage) : /\ V = Pop(U, 1) /\ Len(V) = l
                              /\ \A k \in 1 .. l : V[k] = U[k + 1]
  <2>1. 1 \in 0 .. Len(U) /\ Len(U) - 1 = l
    BY <1>3
  <2>2. Pop(U, 1) \in Seq(Stage) /\ Len(Pop(U, 1)) = l
        /\ \A k \in 1 .. l : Pop(U, 1)[k] = U[k + 1]
    BY <1>1, <2>1, Popped
  <2> QED BY <2>2, Zenon
<1>7. /\ IsSeq(Pop(su, 1)) /\ Len(Pop(su, 1)) = l /\ \A k \in 1 .. l : Pop(su, 1)[k] = su[k + 1]
  <2>1. 1 <= Len(su) /\ Len(su) - 1 = l
    BY <1>3
  <2> QED BY <2>1, AnyPopped
<1>8. PICK su2 : su2 = Pop(su, 1)
  OBVIOUS
<1>9. ASSUME NEW k \in 1 .. l PROVE /\ Way(su2[k].parse, V[k], Floor(Pop(V, k)))
                                    /\ FrameFits(V[k], su2[k])
  <2>1. k + 1 \in 1 .. Len(U) /\ k \in 0 .. Len(U) - 1
    BY <1>3
  <2>2. Pop(U, k + 1) = Pop(Pop(U, 1), k)
    BY <1>1, <2>1, PopMore
  <2>3. Way(su[k + 1].parse, U[k + 1], Floor(Pop(U, k + 1)))
    BY <1>1, <2>1
  <2>4. FrameFits(U[k + 1], su[k + 1])
    BY <2>1 DEF FramesFit
  <2> QED BY <1>6, <1>7, <1>8, <2>2, <2>3, <2>4
<1>10. Way(su[1].parse, U[1], Floor(V)) /\ FrameFits(U[1], su[1])
  <2>1. 1 \in 1 .. Len(U)
    BY <1>3
  <2> QED BY <1>1, <1>6, <2>1 DEF FramesFit
<1>11. Course(V, U[1], su[1].parse, su2)
  BY <1>4, <1>6, <1>7, <1>8, <1>9, <1>10 DEF Course
<1>12. FramesFit(V, su2)
  BY <1>6, <1>9 DEF FramesFit
<1> QED BY <1>4, <1>5, <1>6, <1>8, <1>10, <1>11, <1>12

-----------------------------------------------------------------------------
(* call_user_function *)

LEMMA TypesPushed ==
  ASSUME NEW Q, NEW ss \in Seq(Q), NEW fs, NEW y, NEW f \in Seq(FnType), TypesOf(fs, ss) = Push(y, f),
         f # <<>>
  PROVE  ss # <<>>
<1>1. PICK n \in Nat : n = Len(ss)
  OBVIOUS
<1>2. PICK g : g = [i \in 1 .. n |-> ss[i].type]
  OBVIOUS
<1>3. IsSeq(g) /\ Len(g) = n /\ IsSeq(f)
  <2>1. g \in [1 .. n -> {ss[i].type : i \in 1 .. n}]
    BY <1>2
  <2>2. IsSeq(g) /\ Len(g) = n
    BY <1>1, <2>1, SeqOf
  <2> QED BY <2>2 DEF IsSeq
<1>4. Push(fs.type, g) = Push(y, f)
  BY <1>1, <1>2 DEF TypesOf
<1>5. g = f
  <2>1. Pop(Push(fs.type, g), 1) = g /\ Pop(Push(y, f), 1) = f
    BY <1>3, AnyPushed
  <2> QED BY <1>4, <2>1
<1>6. Len(f) # 0
  OBVIOUS
<1> QED BY <1>1, <1>3, <1>5, <1>6

\* The stage of a parser that call_user_function starts, for the token at off.
CalledStage(a, off) == To(Below(a), <<>>, "calling", off)

IsCalledStage(c, a, off) ==
  /\ c \in Stage /\ c.w = <<>> /\ c.m = "calling" /\ c.o = off
  /\ c.e = Push(For("call", a.n), a.e) /\ c.n = a.n /\ c.l = Push(-1, a.l) /\ c.p = 0
  /\ c.f = Push("user", a.f) /\ Way(Start, c, Below(a))

LEMMA CalledWay ==
  ASSUME NEW a \in Stage, NEW off \in Nat, NEW c, c = CalledStage(a, off)
  PROVE  IsCalledStage(c, a, off)
<1>1. PICK z \in Stage : /\ z = Below(a) /\ Plain(z) /\ z.w = <<>>
                         /\ z.e = Push(For("call", a.n), a.e) /\ z.n = a.n
                         /\ z.l = Push(-1, a.l) /\ z.p = 0 /\ z.f = Push("user", a.f)
  BY BelowParts
<1>2. PICK w \in Seq(Mark), m \in Moment, m2 \in Moment, m3 \in Moment, o \in Nat :
        w = <<>> /\ m = "calling" /\ m2 = "end" /\ m3 = "plain" /\ o = 0
  <2>1. <<>> \in Seq(Mark) /\ "calling" \in Moment /\ "end" \in Moment /\ "plain" \in Moment
        /\ 0 \in Nat
    BY DEF Moment
  <2> QED BY <2>1, Zenon
<1>3. /\ c \in Stage /\ c.w = w /\ c.e = z.e /\ c.n = z.n /\ c.l = z.l /\ c.p = z.p
      /\ c.f = z.f /\ c.m = "calling" /\ c.o = off
  <2>1. PICK g : g = To(z, w, m, off)
    OBVIOUS
  <2>2. /\ g \in Stage /\ g.w = w /\ g.e = z.e /\ g.n = z.n /\ g.l = z.l /\ g.p = z.p
        /\ g.f = z.f /\ g.m = m /\ g.o = off
    BY <2>1, ToParts
  <2>3. g = c
    BY <1>1, <1>2, <2>1 DEF CalledStage
  <2> QED BY <1>2, <2>2, <2>3
<1>4. PICK d : d = To(z, w, m2, o)
  OBVIOUS
<1>5. /\ d \in Stage /\ d.w = w /\ d.e = z.e /\ d.n = z.n /\ d.l = z.l /\ d.p = z.p
      /\ d.f = z.f /\ d.m = "end" /\ d.o = 0
  <2>1. /\ d \in Stage /\ d.w = w /\ d.e = z.e /\ d.n = z.n /\ d.l = z.l /\ d.p = z.p
        /\ d.f = z.f /\ d.m = m2 /\ d.o = o
    BY <1>4, ToParts
  <2> QED BY <1>2, <2>1
<1>6. Takes("statement_list", EOF, c, d)
  <2>1. c.m \in {"calling", "closed"} /\ d = To(c, c.w, "end", 0)
    BY <1>2, <1>3, <1>4 DEF To
  <2> QED BY <2>1, Zenon DEF Takes
<1>7. Takes("EOF", EOF, d, z)
  <2>1. z = StageOf(z.w, z.e, z.n, z.l, z.p, z.f, z.m, z.o)
    BY <1>1, StageParts, Zenon
  <2>2. d.m = "end" /\ z = To(d, d.w, "plain", 0)
    BY <1>1, <1>2, <1>5, <2>1 DEF To, Plain
  <2> QED BY <2>2, Zenon DEF Takes
<1>8. Way(Start, c, z)
  BY <1>1, <1>3, <1>5, <1>6, <1>7, StartWay
<1> QED BY <1>1, <1>2, <1>3, <1>8 DEF IsCalledStage

\* What a call from array_walk does to for_stack.
LEMMA CalledActs ==
  ASSUME call_user_function
  PROVE  /\ At({"call_user_function"})
         /\ \/ /\ parse' = Tail(parse)
               /\ UNCHANGED <<input, values, suspended, flow, stacks, world>>
            \/ /\ Tok.tag \in DOMAIN function_table
               /\ suspended' = Push(Frame, suspended) /\ shutdown' = "NO"
               /\ tokens' = tc_set_token(function_table[Tok.tag], "IC_FUNCTION")
               /\ for_stack' = Push(-1, for_stack)
               /\ function_state_stack' = Push(Entering, function_state_stack)
               /\ css' = Push("EXECUTE", css)
               /\ SetFlow("EXECUTE", [Entering EXCEPT !.type = "user"])
               /\ pos' = function_table[Tok.tag] /\ yychar' = EMPTY
               /\ parse' = Start /\ values' = <<>>
BY Zenon DEF call_user_function, Entering, EnterCall, Start

LEMMA call_user_function_Loops ==
  ASSUME IInv, LoopInv, call_user_function
  PROVE  LoopInv'
<1>1. Running /\ parse # <<>> /\ Head(parse).sym = "call_user_function"
  BY CalledActs DEF At
<1>2. PICK U, a, b :
        /\ Situation(U, a) /\ b \in Stage /\ Takes(Head(parse).sym, Tok, a, b)
        /\ Way(Tail(parse), b, Floor(U)) /\ Course(U, b, Tail(parse), suspended)
  BY <1>1, SituationAt
<1>3. a.m = "entered" /\ a.o = 0 /\ b = a
  <2>1. Takes("call_user_function", Tok, a, b)
    BY <1>1, <1>2
  <2> QED BY <2>1 DEF Takes, Keepers, Giving
<1>4. /\ a \in Stage /\ ValuesFit(a.w, values) /\ FlowNow(a) /\ FramesFit(U, suspended)
      /\ RestFits(a)
  BY <1>2 DEF Situation
<1>5. CASE parse' = Tail(parse) /\ UNCHANGED <<input, values, suspended, flow, stacks, world>>
  <2>1. UNCHANGED <<input, values, Execute, function_state, function_state_stack, for_stack>>
        /\ UNCHANGED <<ExecuteFlag, css, function_state>> /\ values' = values
        /\ suspended' = suspended
    BY <1>5 DEF flow, stacks
  <2>2. RestFits(a)' /\ FlowNow(a)'
    BY <1>4, <2>1, RestSame, FlowSameNext
  <2>3. Course(U, a, parse', suspended') /\ FramesFit(U, suspended') /\ ValuesFit(a.w, values')
    BY <1>2, <1>3, <1>4, <1>5, <2>1
  <2> QED BY <2>2, <2>3, SituationNext
<1>6. CASE /\ Tok.tag \in DOMAIN function_table
           /\ suspended' = Push(Frame, suspended) /\ shutdown' = "NO"
           /\ tokens' = tc_set_token(function_table[Tok.tag], "IC_FUNCTION")
           /\ for_stack' = Push(-1, for_stack)
           /\ function_state_stack' = Push(Entering, function_state_stack)
           /\ css' = Push("EXECUTE", css)
           /\ SetFlow("EXECUTE", [Entering EXCEPT !.type = "user"])
           /\ pos' = function_table[Tok.tag] /\ yychar' = EMPTY
           /\ parse' = Start /\ values' = <<>>
  <2>1. PICK off \in 1 .. Len(tokens) - 1 : off = function_table[Tok.tag]
    <3>1. TableOK(function_table, Len(tokens))
      BY <1>1, IInvParts, InputParts
    <3> QED BY <1>6, <3>1 DEF TableOK
  <2>2. tokens \in Seq(Token) /\ off \in Nat /\ off >= 1 /\ off \in 1 .. Len(tokens)
    <3>1. tokens \in Seq(Token)
      BY TokensType
    <3>2. Len(tokens) \in Nat
      BY <3>1
    <3> QED BY <2>1, <3>1, <3>2
  <2>3. QuietFits(a)
    BY <1>3, <1>4, QuietRest DEF QuietMoments
  <2>4. /\ TypesOf(function_state, function_state_stack) = a.f /\ AllCalm(function_state_stack)
        /\ for_stack = a.l /\ PlaceFits(a.p, pos, yychar) /\ shutdown # "TERMINATE"
        /\ Unmarked(tokens) /\ NoMark(yychar) /\ Execute
    BY <1>3, <2>3 DEF QuietFits
  <2>5. ExecuteFlag = "EXECUTE" /\ Calm(function_state) /\ function_state \in FunctionState
    BY <2>4, FlowTypes DEF Calm
  <2>6. PICK c : c = CalledStage(a, off)
    OBVIOUS
  <2>7. /\ c \in Stage /\ c.w = <<>> /\ c.m = "calling" /\ c.o = off
        /\ c.e = Push(For("call", a.n), a.e) /\ c.n = a.n /\ c.l = Push(-1, a.l) /\ c.p = 0
        /\ c.f = Push("user", a.f) /\ Way(Start, c, Below(a))
    <3>1. a \in Stage /\ off \in Nat
      BY <1>4, <2>2
    <3>2. IsCalledStage(c, a, off)
      BY <2>6, <3>1, CalledWay
    <3> QED BY <3>2 DEF IsCalledStage
  <2>8. PICK fs, gs : fs = Entering /\ gs = [fs EXCEPT !.type = "user"]
    OBVIOUS
  <2>9. /\ fs \in FunctionState /\ fs.type = function_state.type /\ Calm(fs)
        /\ gs \in FunctionState /\ gs.type = "user" /\ gs.loop_change_type = "DO_NOTHING"
    <3>1. PICK f0 \in FunctionState : f0 = function_state /\ f0.loop_change_type = "DO_NOTHING"
      BY <2>5 DEF Calm
    <3>2. PICK f1 : f1 = NewLevels(f0)
      OBVIOUS
    <3>3. f1 \in FunctionState /\ f1.type = f0.type /\ f1.loop_change_type = "DO_NOTHING"
      BY <3>1, <3>2 DEF NewLevels, NoChange, FunctionState
    <3>4. fs = [f1 EXCEPT !.returned = FALSE]
      BY <2>8, <3>1, <3>2 DEF Entering
    <3> QED BY <2>8, <3>1, <3>3, <3>4 DEF FunctionState, Calm
  <2>10. ExecuteFlag' = "EXECUTE" /\ function_state' = gs
    BY <1>6, <2>8 DEF SetFlow
  <2>11. FlowNow(c)'
    <3>1. css' = Push(ExecuteFlag, css) /\ function_state'.loop_change_type = "DO_NOTHING"
      BY <1>6, <2>5, <2>9, <2>10
    <3> QED BY <1>4, <2>5, <2>7, <2>10, <3>1, EnterFlow
  <2>12. ValuesFit(c.w, values')
    <3>1. <<>> \in Seq({}) /\ Len(<<>>) = 0
      OBVIOUS
    <3>2. IsSeq(<<>>)
      BY <3>1 DEF IsSeq
    <3> QED BY <1>6, <2>7, <3>1, <3>2 DEF ValuesFit
  <2>13. FunctionsFit(c, values', function_state', function_state_stack')
    <3>1. PICK ss : ss = function_state_stack /\ ss \in Seq(FunctionState)
      BY DEF IInv, FlowInv
    <3>2. TypesOf(fs, ss) = a.f
      BY <2>4, <2>9, <3>1 DEF TypesOf
    <3>3. TypesOf(gs, Push(fs, ss)) = Push(gs.type, a.f) /\ AllCalm(Push(fs, ss))
      BY <2>4, <2>9, <3>1, <3>2, TypesEntered
    <3>4. ~ Asking(c, values')
      BY <2>7 DEF Asking
    <3> QED BY <1>6, <2>7, <2>8, <2>9, <2>10, <3>1, <3>3, <3>4 DEF FunctionsFit
  <2>14. ForsFit(c, values', for_stack', tokens')
    BY <1>6, <2>4, <2>7 DEF ForsFit, Again, Asking
  <2>15. PlaceFits(c.p, pos', yychar') /\ MomentFits(c, values', Execute', yychar', shutdown')
    BY <1>6, <2>1, <2>2, <2>7 DEF PlaceFits, LookFits, MomentFits, Asking
  <2>16. TokensFit(c, tokens', pos', yychar', Execute')
    <3>1. PICK us : us = [tokens EXCEPT ![off].type = "IC_FUNCTION"]
      OBVIOUS
    <3>2. /\ DOMAIN us = 1 .. Len(tokens) /\ us[off].type = "IC_FUNCTION"
          /\ \A i \in 1 .. Len(tokens) : i # off => us[i] = tokens[i]
      BY <2>2, <3>1, TurnedTo
    <3>3. \A i \in 1 .. Len(tokens) : tokens[i].type \notin TurnedTypes
      BY <2>2, <2>4 DEF Unmarked
    <3>4. ASSUME NEW i \in 1 .. Len(tokens) PROVE TokenFits(c, us[i], i, Execute')
      BY <2>7, <3>2, <3>3 DEF TokenFits, TurnedTypes
    <3>5. tokens' = us
      BY <1>6, <2>1, <3>1 DEF tc_set_token
    <3> QED BY <1>6, <2>1, <2>7, <3>2, <3>4, <3>5 DEF TokensFit, Again, NoMark
  <2>17. RestFits(c)'
    BY <2>13, <2>14, <2>15, <2>16 DEF RestFits
  <2>18. PICK fr : /\ fr = Frame /\ fr.parse = Tail(parse) /\ fr.values = values
                   /\ fr.function_state = function_state /\ fr.ExecuteFlag = ExecuteFlag
                   /\ fr.shutdown = shutdown /\ fr.yychar = yychar /\ fr.return_offset = pos - 1
    <3>1. PICK fr : fr = Frame
      OBVIOUS
    <3>2. /\ fr.parse = Tail(parse) /\ fr.values = values /\ fr.function_state = function_state
          /\ fr.ExecuteFlag = ExecuteFlag /\ fr.shutdown = shutdown /\ fr.yychar = yychar
          /\ fr.return_offset = pos - 1
      BY <3>1 DEF Frame
    <3> QED BY <3>1, <3>2, Zenon
  <2>19. IsSeq(suspended) /\ pos \in Nat
    BY IInvParts, InputParts DEF FramesOK, InputInv, PlaceOK
  <2>20. FrameFits(a, fr)
    <3>1. PlaceFits(a.p, fr.return_offset + 1, fr.yychar)
      <4>1. fr.return_offset + 1 = pos
        BY <2>18, <2>19
      <4> QED BY <2>4, <2>18, <4>1
    <3>2. a.f # <<>> /\ fr.function_state.type = a.f[1]
      <4>1. PICK ss : ss = function_state_stack /\ ss \in Seq(FunctionState)
        BY DEF IInv, FlowInv
      <4>2. PICK n \in Nat : n = Len(ss)
        BY <4>1
      <4>3. PICK g : g = [i \in 1 .. n |-> ss[i].type]
        OBVIOUS
      <4>4. IsSeq(g)
        <5>1. g \in [1 .. n -> {ss[i].type : i \in 1 .. n}]
          BY <4>3
        <5> QED BY <4>2, <5>1, SeqOf
      <4>5. a.f = Push(function_state.type, g)
        BY <2>4, <4>1, <4>2, <4>3 DEF TypesOf
      <4> QED BY <2>18, <4>4, <4>5, AnyPushed
    <3> QED BY <1>3, <1>4, <2>4, <2>5, <2>18, <3>1, <3>2 DEF FrameFits
  <2>21. Course(Push(a, U), c, parse', suspended')
    BY <1>2, <1>3, <1>6, <2>7, <2>18, <2>19, CoursePush
  <2>22. FramesFit(Push(a, U), suspended')
    <3>1. U \in Seq(Stage) /\ Len(U) = Len(suspended)
      BY <1>2 DEF Course
    <3> QED BY <1>4, <1>6, <2>18, <2>19, <2>20, <3>1, FitsPushed
  <2> QED BY <2>11, <2>12, <2>17, <2>21, <2>22, SituationNext
<1> QED BY <1>5, <1>6, CalledActs

\* And goes on where it was called.
LEMMA phpparse_returns_Loops ==
  ASSUME IInv, LoopInv, phpparse_returns
  PROVE  LoopInv'
<1>1. PICK fr : fr = suspended[1]
  OBVIOUS
<1>2. /\ Running /\ parse = <<>> /\ suspended # <<>>
      /\ suspended' = Pop(suspended, 1) /\ LeaveCall /\ DropFlag
      /\ pos' = fr.return_offset + 1 /\ SetFlow(fr.ExecuteFlag, fr.function_state)
      /\ shutdown' = fr.shutdown /\ parse' = fr.parse /\ values' = fr.values
      /\ yychar' = fr.yychar /\ tokens' = tokens
  BY <1>1 DEF phpparse_returns
<1>3. PICK U, a : Course(U, a, parse, suspended) /\ FramesFit(U, suspended) /\ Fits(a)
  BY <1>2, LoopAt
<1>4. IsSeq(suspended)
  BY IInvParts, InputParts DEF FramesOK
<1>5. PICK u : /\ u = U[1] /\ u \in Stage /\ a = Below(u)
               /\ Course(Pop(U, 1), u, parse', suspended')
               /\ FrameFits(u, fr) /\ FramesFit(Pop(U, 1), suspended')
  <2>1. /\ U[1] \in Stage /\ a = Below(U[1])
        /\ Course(Pop(U, 1), U[1], suspended[1].parse, Pop(suspended, 1))
        /\ FrameFits(U[1], suspended[1]) /\ FramesFit(Pop(U, 1), Pop(suspended, 1))
    BY <1>2, <1>3, <1>4, CoursePop
  <2> QED BY <1>1, <1>2, <2>1
<1>6. /\ a \in Stage /\ Plain(a)
      /\ a.e = Push(For("call", u.n), u.e) /\ a.n = u.n /\ a.l = Push(-1, u.l)
      /\ a.f = Push("user", u.f) /\ u.e \in Seq(SavedFor) /\ u.n \in Nat /\ u.l \in Seq(Int)
      /\ u.f \in Seq(FnType)
  BY <1>5, BelowParts, StageParts
<1>7. QuietFits(a) /\ FlowNow(a)
  BY <1>3, <1>6, PlainQuiet, QuietRest DEF Fits, FlowNow
<1>8. /\ u.m = "entered" /\ ValuesFit(u.w, values')
      /\ fr.ExecuteFlag = "EXECUTE" /\ Calm(fr.function_state)
      /\ u.f # <<>> /\ fr.function_state.type = u.f[1] /\ shutdown' # "TERMINATE"
      /\ PlaceFits(u.p, pos', yychar') /\ NoMark(yychar')
  BY <1>2, <1>5 DEF FrameFits
<1>9. ExecuteFlag' = "EXECUTE" /\ function_state' = fr.function_state /\ Execute'
  BY <1>2, <1>8 DEF SetFlow, SHOULD_EXECUTE, Calm
<1>10. FlowNow(u)'
  <2>1. Leaves("call", a, u)
    BY <1>6 DEF Leaves, More
  <2>2. ExecuteFlag' \in {SavedFlag, "EXECUTE"} /\ function_state'.loop_change_type = "DO_NOTHING"
    BY <1>8, <1>9 DEF Calm
  <2> QED BY <1>2, <1>5, <1>6, <1>7, <2>1, <2>2, LeaveCallFlow
<1>11. TypesOf(function_state, function_state_stack)' = u.f /\ AllCalm(function_state_stack)'
  <2>1. PICK ss, fs, fs2, f : /\ ss = function_state_stack /\ ss \in Seq(FunctionState)
                              /\ fs = function_state /\ fs2 = fr.function_state
                              /\ f = u.f /\ f \in Seq(FnType) /\ f # <<>> /\ fs2.type = f[1]
    BY <1>6, <1>8 DEF IInv, FlowInv
  <2>2. TypesOf(fs, ss) = Push("user", f) /\ AllCalm(ss)
    BY <1>6, <1>7, <2>1 DEF QuietFits
  <2>3. ss # <<>>
    BY <2>1, <2>2, TypesPushed
  <2>4. TypesOf(fs2, Pop(ss, 1)) = f /\ (AllCalm(ss) => Calm(ss[1]) /\ AllCalm(Pop(ss, 1)))
    BY <2>1, <2>2, <2>3, TypesLeft
  <2>5. function_state_stack' = Pop(ss, 1)
    BY <1>2, <2>1 DEF LeaveCall
  <2> QED BY <1>9, <2>1, <2>2, <2>4, <2>5
<1>12. for_stack' = u.l
  <2>1. for_stack = Push(-1, u.l)
    BY <1>6, <1>7 DEF QuietFits
  <2> QED BY <1>2, <1>6, <2>1, ForsLeft DEF LeaveCall
<1>13. QuietFits(u)'
  <2>1. Unmarked(tokens)'
    BY <1>2, <1>7 DEF QuietFits
  <2> QED BY <1>8, <1>9, <1>11, <1>12, <2>1 DEF QuietFits
<1>14. RestFits(u)'
  BY <1>8, <1>13, QuietStageNext DEF QuietMoments
<1> QED BY <1>5, <1>8, <1>10, <1>14, SituationNext

-----------------------------------------------------------------------------
(* The next token *)

\* Where the next token comes from.
LEMMA LookCases ==
  ASSUME IInv, parse # <<>>, TakeToken \/ KeepToken
  PROVE  /\ pos \in Nat /\ tokens' = tokens
         /\ yychar' = EMPTY \/ yychar' = Look
         /\ \/ yychar # EMPTY /\ Look = yychar /\ pos' = pos /\ shutdown' = shutdown
            \/ /\ yychar = EMPTY /\ shutdown = "TERMINATE" /\ Look = EOF
               /\ pos' = pos /\ shutdown' = "NO"
            \/ /\ yychar = EMPTY /\ shutdown # "TERMINATE" /\ Look = tokens[pos]
               /\ pos \in DOMAIN tokens /\ Look.offset = pos /\ pos' = pos + 1 /\ shutdown' = shutdown
<1>1. PICK n \in Nat : n = Len(tokens) /\ TokensOK(tokens, n) /\ PlaceOK(pos, yychar, parse, n)
  BY TokensType, InputParts DEF InputInv
<1>2. pos \in 1 .. n + 1 /\ (yychar = EMPTY => pos \in 1 .. n) /\ pos \in Nat
  BY <1>1 DEF PlaceOK, EMPTY
<1>3. Advance /\ tokens' = tokens /\ (yychar' = EMPTY \/ yychar' = Look)
  BY DEF TakeToken, KeepToken
<1>4. CASE yychar # EMPTY
  BY <1>2, <1>3, <1>4 DEF Advance, Look
<1>5. CASE yychar = EMPTY /\ shutdown = "TERMINATE"
  BY <1>2, <1>3, <1>5 DEF Advance, Look
<1>6. CASE yychar = EMPTY /\ shutdown # "TERMINATE"
  <2>1. pos \in 1 .. n /\ DOMAIN tokens = 1 .. n /\ tokens[pos].offset = pos
    BY <1>1, <1>2, <1>6 DEF TokensOK
  <2> QED BY <1>2, <1>3, <1>6, <2>1 DEF Advance, Look
<1> QED BY <1>4, <1>5, <1>6

\* It is behind the place of the parser, which goes on behind that place.
LEMMA LookBehind ==
  ASSUME IInv, parse # <<>>, TakeToken \/ KeepToken, NEW p \in Nat, PlaceFits(p, pos, yychar)
  PROVE  (Look.type # "EOF" => Look.offset > p) /\ PlaceFits(p, pos', yychar')
<1>1. /\ pos \in Nat /\ (yychar' = EMPTY \/ yychar' = Look)
      /\ \/ yychar # EMPTY /\ Look = yychar /\ pos' = pos
         \/ Look = EOF /\ pos' = pos
         \/ Look.offset = pos /\ pos' = pos + 1
  BY LookCases
<1>2. pos > p /\ (yychar = EMPTY \/ yychar.type = "EOF" \/ yychar.offset > p)
  BY DEF PlaceFits, LookFits
<1>3. Look.type # "EOF" => Look.offset > p
  BY <1>1, <1>2 DEF EOF
<1>4. pos' > p
  BY <1>1, <1>2
<1> QED BY <1>1, <1>3, <1>4 DEF PlaceFits, LookFits

\* No token is turned.
LEMMA LookPlain ==
  ASSUME IInv, parse # <<>>, TakeToken \/ KeepToken, Unmarked(tokens), NoMark(yychar)
  PROVE  Look.type \notin TurnedTypes /\ Unmarked(tokens)' /\ NoMark(yychar)'
<1>1. /\ tokens' = tokens /\ (yychar' = EMPTY \/ yychar' = Look)
      /\ \/ yychar # EMPTY /\ Look = yychar
         \/ Look = EOF
         \/ Look = tokens[pos] /\ pos \in DOMAIN tokens
  BY LookCases
<1>2. Look.type \notin TurnedTypes
  BY <1>1 DEF NoMark, Unmarked, EOF, TurnedTypes
<1>3. Unmarked(tokens)'
  BY <1>1 DEF Unmarked
<1> QED BY <1>1, <1>2, <1>3 DEF NoMark

\* Only the parser is told to end, and it is told once.
LEMMA LookShutdown ==
  ASSUME IInv, parse # <<>>, TakeToken \/ KeepToken
  PROVE  /\ shutdown' # "TERMINATE" \/ (shutdown' = shutdown /\ yychar # EMPTY)
         /\ shutdown # "TERMINATE" => shutdown' # "TERMINATE"
         /\ shutdown = "TERMINATE" /\ yychar = EMPTY => Look = EOF
BY LookCases

\* What the parser leaves alone.
ParserOnly == UNCHANGED <<function_state, Execute, for_stack, function_state_stack>>

\* A quiet stage behind a quiet one.
LEMMA QuietMove ==
  ASSUME IInv, parse # <<>>, TakeToken \/ KeepToken, NEW a \in Stage, a.m \in QuietMoments, RestFits(a),
         NEW b, b.m \in QuietMoments, b.m = "entered" => a.m = "entered",
         b.l = a.l, b.p = a.p, b.f = a.f, ParserOnly
  PROVE  RestFits(b)'
<1>1. QuietFits(a)
  BY QuietRest
<1>2. a.p \in Nat
  BY StageParts
<1>3. PlaceFits(b.p, pos', yychar')
  BY <1>1, <1>2, LookBehind DEF QuietFits
<1>4. Unmarked(tokens)' /\ NoMark(yychar)' /\ shutdown' # "TERMINATE"
  BY <1>1, LookPlain, LookShutdown DEF QuietFits
<1>5. TypesOf(function_state, function_state_stack)' = b.f /\ AllCalm(function_state_stack)'
      /\ for_stack' = b.l /\ (b.m = "entered" => Execute')
  BY <1>1 DEF QuietFits, ParserOnly
<1>6. QuietFits(b)'
  BY <1>3, <1>4, <1>5 DEF QuietFits
<1> QED BY <1>6, QuietStageNext

\* The function that call_user_function called has been parsed.
LEMMA ClosingMove ==
  ASSUME IInv, parse # <<>>, TakeToken, NEW a \in Stage, Plain(a), RestFits(a),
         NEW b, b.m = "closing", b.l = a.l, b.p = a.p, b.f = a.f, ParserOnly
  PROVE  RestFits(b)'
<1>1. QuietFits(a)
  BY PlainQuiet, QuietRest
<1>2. a.p \in Nat
  BY StageParts
<1>3. PlaceFits(b.p, pos', yychar')
  BY <1>1, <1>2, LookBehind DEF QuietFits
<1>4. Unmarked(tokens)' /\ yychar' = EMPTY /\ shutdown' # "TERMINATE"
  BY <1>1, LookPlain, LookShutdown DEF QuietFits, TakeToken
<1>5. ~ Asking(b, values') /\ ~ Again(b, tokens')
  BY MomentRest
<1>6. FunctionsFit(b, values', function_state', function_state_stack')
      /\ ForsFit(b, values', for_stack', tokens')
  BY <1>1, <1>5 DEF QuietFits, ParserOnly, FunctionsFit, ForsFit
<1>7. MomentFits(b, values', Execute', yychar', shutdown')
  BY <1>4, <1>5 DEF MomentFits
<1>8. TokensFit(b, tokens', pos', yychar', Execute')
  <2>1. \A i \in DOMAIN tokens' : TokenFits(b, tokens'[i], i, Execute')
    BY <1>4 DEF TokenFits, Unmarked, TurnedTypes
  <2> QED BY <1>4, <1>5, <2>1 DEF TokensFit, NoMark
<1> QED BY <1>3, <1>6, <1>7, <1>8 DEF RestFits

\* The arguments of a call are read.
AskingMoments == {"asked", "passing", "passed"}
LEMMA AskingMove ==
  ASSUME IInv, parse # <<>>, TakeToken, NEW a \in Stage, a.m \in AskingMoments, RestFits(a),
         NEW b, b.m \in AskingMoments, values'[CallAt(b)] = values[CallAt(a)],
         b.l = a.l, b.p = a.p, b.f = a.f, ParserOnly
  PROVE  RestFits(b)'
<1>1. PICK vs, us : vs = values /\ us = values'
  OBVIOUS
<1>2. Asking(b, us) <=> Asking(a, vs)
  BY <1>1 DEF Asking, AskingMoments
<1>3. ~ Again(a, tokens) /\ ~ Again(b, tokens')
  BY DEF Again, AskingMoments
<1>4. a.p \in Nat /\ PlaceFits(a.p, pos, yychar)
  BY StageParts DEF RestFits
<1>5. PlaceFits(b.p, pos', yychar')
  BY <1>4, LookBehind
<1>6. shutdown # "TERMINATE" /\ NoMark(yychar) /\ Unmarked(tokens)
  BY DEF RestFits, MomentFits, TokensFit, AskingMoments, TokenFits, Unmarked, TurnedTypes
<1>7. Unmarked(tokens)' /\ NoMark(yychar)' /\ shutdown' # "TERMINATE"
  BY <1>6, LookPlain, LookShutdown
<1>8. FunctionsFit(b, us, function_state', function_state_stack')
  <2>1. FunctionsFit(a, vs, function_state, function_state_stack)
    BY <1>1 DEF RestFits
  <2> QED BY <1>1, <1>2, <2>1 DEF FunctionsFit, ParserOnly
<1>9. ForsFit(b, us, for_stack', tokens')
  <2>1. ForsFit(a, vs, for_stack, tokens)
    BY <1>1 DEF RestFits
  <2> QED BY <1>2, <1>3, <2>1 DEF ForsFit, ParserOnly
<1>10. MomentFits(b, us, Execute', yychar', shutdown')
  <2>1. Asking(a, vs) => Execute
    BY <1>1 DEF RestFits, MomentFits
  <2> QED BY <1>2, <1>7, <2>1 DEF MomentFits, AskingMoments, ParserOnly
<1>11. TokensFit(b, tokens', pos', yychar', Execute')
  <2>1. \A i \in DOMAIN tokens' : TokenFits(b, tokens'[i], i, Execute')
    BY <1>7 DEF TokenFits, Unmarked, TurnedTypes
  <2> QED BY <1>3, <1>7, <2>1 DEF TokensFit, AskingMoments
<1> QED BY <1>1, <1>5, <1>8, <1>9, <1>10, <1>11 DEF RestFits

-----------------------------------------------------------------------------
(* Steps of the parser *)

\* The same stage at another place in a call.
LEMMA SamePlace ==
  ASSUME NEW a \in Stage, NEW b, NEW m \in Moment, b = To(a, a.w, m, 0)
  PROVE  /\ b \in Stage /\ b.w = a.w /\ b.e = a.e /\ b.n = a.n /\ b.l = a.l /\ b.p = a.p
         /\ b.f = a.f /\ b.m = m /\ b.o = 0
<1>1. a.w \in Seq(Mark)
  BY StageParts
<1>2. PICK c \in Stage : c = To(a, a.w, m, 0) /\ c.w = a.w /\ c.m = m /\ c.o = 0
           /\ c.e = a.e /\ c.n = a.n /\ c.l = a.l /\ c.p = a.p /\ c.f = a.f
  BY <1>1, StageMoved
<1> QED BY <1>2

\* What a terminal does.
LEMMA OfTerminal ==
  ASSUME NEW x \in Terminals, NEW t, NEW a \in Stage, NEW b, Takes(x, t, a, b)
  PROVE  \/ Plain(a) /\ b = a
         \/ \E m \in Moment :
              /\ b = To(a, a.w, m, 0)
              /\ \/ a.m = "asked" /\ m = "passing"
                 \/ a.m \in {"begun", "end"} /\ m = "plain"
                 \/ Plain(a) /\ m \in {"over", "closing"}
<1>1. \/ Plain(a) /\ b = a
      \/ a.m = "asked" /\ b = To(a, a.w, "passing", 0)
      \/ a.m \in {"begun", "end"} /\ b = To(a, a.w, "plain", 0)
      \/ Plain(a) /\ b = To(a, a.w, "over", 0)
      \/ Plain(a) /\ b = To(a, a.w, "closing", 0)
  BY DEF Takes, Terminals, Giving
<1>2. "passing" \in Moment /\ "plain" \in Moment /\ "over" \in Moment /\ "closing" \in Moment
  BY DEF Moment
<1> QED BY <1>1, <1>2

LEMMA BehindPassed ==
  ASSUME NEW x, NEW t, NEW a, NEW b, Takes(x, t, a, b), a.m = "passed"
  PROVE  CallSkipped(a, b)
BY Zenon DEF Takes, Plain, Trades, HeaderLeft, ForLeft, SkippedEnds, CalledEnds

LEMMA Shift_Loops ==
  ASSUME IInv, LoopInv, Shift
  PROVE  LoopInv'
<1>1. /\ Running /\ parse # <<>> /\ Head(parse).sym \in Terminals /\ TakeToken
      /\ parse' = Tail(parse) /\ suspended' = suspended /\ values' = values
      /\ ParserOnly /\ UNCHANGED <<ExecuteFlag, css, function_state>>
  BY DEF Shift, At, flow, stacks, ParserOnly
<1>2. PICK a \in Stage, b \in Stage :
        /\ Takes(Head(parse).sym, Tok, a, b) /\ FlowNow(a) /\ ValuesFit(a.w, values)
        /\ RestFits(a)
        /\ FlowNow(b)' /\ ValuesFit(b.w, values') /\ RestFits(b)' => LoopInv'
  BY <1>1, SymbolStep
<1>3. \/ Plain(a) /\ b = a
      \/ \E m \in Moment :
           /\ b = To(a, a.w, m, 0)
           /\ \/ a.m = "asked" /\ m = "passing"
              \/ a.m \in {"begun", "end"} /\ m = "plain"
              \/ Plain(a) /\ m \in {"over", "closing"}
  BY <1>1, <1>2, OfTerminal
<1>4. /\ b.w = a.w /\ b.e = a.e /\ b.n = a.n /\ b.l = a.l /\ b.p = a.p /\ b.f = a.f
      /\ \/ Plain(a) /\ Plain(b)
         \/ a.m = "asked" /\ b.m = "passing"
         \/ a.m \in {"begun", "end"} /\ b.m = "plain"
         \/ Plain(a) /\ b.m = "over"
         \/ Plain(a) /\ b.m = "closing"
  <2>1. CASE Plain(a) /\ b = a
    BY <2>1
  <2>2. CASE ~ (Plain(a) /\ b = a)
    <3>1. PICK m \in Moment :
           /\ b = To(a, a.w, m, 0)
           /\ \/ a.m = "asked" /\ m = "passing"
              \/ a.m \in {"begun", "end"} /\ m = "plain"
              \/ Plain(a) /\ m \in {"over", "closing"}
      BY <1>3, <2>2, Zenon
    <3>2. /\ b.w = a.w /\ b.e = a.e /\ b.n = a.n /\ b.l = a.l /\ b.p = a.p /\ b.f = a.f /\ b.m = m
      BY <3>1, SamePlace
    <3> QED BY <3>1, <3>2
  <2> QED BY <2>1, <2>2
<1>5. RestFits(b)'
  <2>1. CASE a.m \in QuietMoments /\ b.m \in QuietMoments /\ b.m # "entered"
    BY <1>1, <1>2, <1>4, <2>1, QuietMove
  <2>2. CASE a.m = "asked" /\ b.m = "passing"
    <3>1. values'[CallAt(b)] = values[CallAt(a)] /\ a.m \in AskingMoments /\ b.m \in AskingMoments
      BY <1>1, <2>2 DEF CallAt, AskingMoments
    <3> QED BY <1>1, <1>2, <1>4, <3>1, AskingMove
  <2>3. CASE Plain(a) /\ b.m = "closing"
    BY <1>1, <1>2, <1>4, <2>3, ClosingMove
  <2> QED BY <1>4, <2>1, <2>2, <2>3 DEF QuietMoments, Plain
<1>6. FlowNow(b)'
  BY <1>1, <1>2, <1>4, FlowSameNext
<1> QED BY <1>1, <1>2, <1>4, <1>5, <1>6

\* The offset of a token becomes a value.
LEMMA OfOffset ==
  ASSUME NEW x \in {"offset of ;", "offset of )"}, NEW t, NEW a, NEW b, Takes(x, t, a, b)
  PROVE  \/ Plain(a) /\ b = To(a, Push(OffsetAbove(a.p), a.w), "plain", 0)
         \/ a.m = "passing" /\ b = To(a, Push(OffsetAbove(a.p), a.w), "passed", 0)
BY DEF Takes, Keepers, Giving

LEMMA ShiftOffset_Loops ==
  ASSUME IInv, LoopInv, ShiftOffset
  PROVE  LoopInv'
<1>1. /\ Running /\ parse # <<>> /\ TakeToken /\ parse' = Tail(parse) /\ suspended' = suspended
      /\ values' = Push(Look.offset, values)
      /\ UNCHANGED <<ExecuteFlag, css, function_state>> /\ ParserOnly
  BY DEF ShiftOffset, flow, stacks, ParserOnly
<1>2. Head(parse).sym \in {"offset of ;", "offset of )"} /\ Look.type # "EOF"
  BY DEF ShiftOffset, Offsets
<1>3. PICK U, a, b :
        /\ Situation(U, a) /\ b \in Stage /\ Takes(Head(parse).sym, Tok, a, b)
        /\ Way(Tail(parse), b, Floor(U)) /\ Course(U, b, Tail(parse), suspended)
  BY <1>1, SituationAt
<1>4. a \in Stage /\ b \in Stage /\ FlowNow(a) /\ ValuesFit(a.w, values) /\ RestFits(a)
      /\ FramesFit(U, suspended) /\ U \in Seq(Stage)
  BY <1>3 DEF Situation, Course
<1>5. PICK x \in Mark, w \in Seq(Mark) :
        /\ x = OffsetAbove(a.p) /\ Off(x) /\ x.above = a.p /\ w = Push(x, a.w)
  <2>1. a.p \in Nat /\ a.w \in Seq(Mark)
    BY <1>4, StageParts
  <2>2. OffsetAbove(a.p) \in Mark /\ Off(OffsetAbove(a.p)) /\ OffsetAbove(a.p).above = a.p
    BY <2>1, MarkTypes
  <2>3. Push(OffsetAbove(a.p), a.w) \in Seq(Mark)
    BY <2>1, <2>2, Pushed, Zenon
  <2> QED BY <2>2, <2>3, Zenon
<1>6. \/ Plain(a) /\ b = To(a, w, "plain", 0)
      \/ a.m = "passing" /\ b = To(a, w, "passed", 0)
  BY <1>2, <1>3, <1>5, OfOffset
<1>7. /\ b.w = w /\ b.e = a.e /\ b.n = a.n /\ b.l = a.l /\ b.p = a.p /\ b.f = a.f
      /\ \/ Plain(a) /\ Plain(b)
         \/ a.m = "passing" /\ b.m = "passed"
  <2>1. PICK m \in Moment : b = To(a, w, m, 0)
                            /\ ((Plain(a) /\ m = "plain") \/ (a.m = "passing" /\ m = "passed"))
    <3>1. "plain" \in Moment /\ "passed" \in Moment
      BY DEF Moment
    <3> QED BY <1>6, <3>1
  <2>2. PICK c \in Stage : c = To(a, w, m, 0) /\ c.w = w /\ c.m = m /\ c.o = 0
           /\ c.e = a.e /\ c.n = a.n /\ c.l = a.l /\ c.p = a.p /\ c.f = a.f
    BY <1>4, <1>5, StageMoved
  <2> QED BY <2>1, <2>2 DEF Plain
<1>8. PICK v : v = Look.offset /\ v \in Nat /\ v > a.p
  <2>1. Look.offset \in Nat
    <3>1. PICK n \in Nat : n = Len(tokens) /\ InputInv
      BY TokensType
    <3>2. Look.offset \in 1 .. n - 1
      BY <1>1, <1>2, <3>1, LookIsRead
    <3> QED BY <3>2
  <2>2. a.p \in Nat /\ PlaceFits(a.p, pos, yychar)
    BY <1>4, StageParts DEF RestFits
  <2> QED BY <1>1, <1>2, <2>1, <2>2, LookBehind
<1>9. ValuesFit(b.w, values')
  <2>1. ItemFits(x, v)
    BY <1>5, <1>8 DEF ItemFits, Off
  <2>2. ValuesFit(Push(x, a.w), Push(v, values))
    BY <1>4, <2>1, FitsPush, StageParts
  <2> QED BY <1>1, <1>5, <1>7, <1>8, <2>2
<1>10. RestFits(b)'
  <2>1. CASE Plain(a) /\ Plain(b)
    <3>1. a.m \in QuietMoments /\ b.m \in QuietMoments /\ b.m # "entered"
      BY <2>1, PlainQuiet
    <3> QED BY <1>1, <1>4, <1>7, <3>1, QuietMove
  <2>2. CASE a.m = "passing" /\ b.m = "passed"
    <3>1. Tail(parse) # <<>>
      <4>1. ~ (b = Floor(U))
        BY <1>4, <2>2, FloorType DEF Plain
      <4>2. CASE Tail(parse) = <<>>
        BY <1>3, <4>1, <4>2, WayEmpty
      <4> QED BY <4>2
    <3>2. PICK c \in Stage : Takes(Head(Tail(parse)).sym, Head(Tail(parse)).tok, b, c)
      <4>1. Tail(parse) \in Seq(Items(TokenOrEOF))
        BY <1>1, SymbolBetween
      <4> QED BY <1>3, <3>1, <4>1, WayFirst
    <3>3. PICK w2 \in Seq(Mark), x2 \in Mark : b.w = Push(x2, Push(Asked, w2))
      <4>1. CallSkipped(b, c)
        BY <2>2, <3>2, BehindPassed
      <4> QED BY <4>1 DEF CallSkipped
    <3>4. PICK u \in Seq(Mark) : u = Push(Asked, w2) /\ Len(u) = Len(w2) + 1
      BY MarkTypes, Pushed
    <3>5. Len(Push(x2, u)) = Len(u) + 1
      BY Pushed
    <3>6. Len(a.w) + 1 = Len(u) + 1
      <4>1. Len(b.w) = Len(a.w) + 1
        <5>1. PICK w3 \in Seq(Mark) : w3 = a.w
          BY <1>4, StageParts
        <5>2. Len(Push(x, w3)) = Len(w3) + 1
          BY Pushed
        <5> QED BY <1>5, <1>7, <5>1, <5>2
      <4> QED BY <3>3, <3>4, <3>5, <4>1
    <3>7. IsSeq(values) /\ 1 \in 1 .. Len(values)
      BY <1>4, <3>4, <3>6 DEF ValuesFit
    <3>8. values'[2] = values[1]
      BY <1>1, <3>7, AnyPushed
    <3>9. values'[CallAt(b)] = values[CallAt(a)] /\ a.m \in AskingMoments /\ b.m \in AskingMoments
      BY <2>2, <3>8 DEF CallAt, AskingMoments
    <3> QED BY <1>1, <1>4, <1>7, <3>9, AskingMove
  <2> QED BY <1>7, <2>1, <2>2
<1>11. FlowNow(b)'
  BY <1>1, <1>4, <1>7, FlowSameNext
<1> QED BY <1>1, <1>3, <1>4, <1>9, <1>10, <1>11, SituationNext

-----------------------------------------------------------------------------
(* Rules are taken *)

\* The parser takes a rule, and goes on at another stage.
LEMMA ExpandTo ==
  ASSUME NEW U, NEW a, Situation(U, a), NEW c \in Stage, Way(parse', c, Floor(U)),
         c.w = a.w, c.e = a.e, c.n = a.n, RestFits(c)', values' = values,
         suspended' = suspended, UNCHANGED <<ExecuteFlag, css, function_state>>
  PROVE  LoopInv'
<1>1. Course(U, c, parse', suspended') /\ FramesFit(U, suspended')
  BY CourseOther DEF Situation
<1>2. ValuesFit(c.w, values') /\ FlowNow(c)'
  BY FlowSameNext DEF Situation
<1> QED BY <1>1, <1>2, SituationNext

\* What was not quiet has been done.
LEMMA CalmMove ==
  ASSUME IInv, parse # <<>>, TakeToken \/ KeepToken, NEW a \in Stage, RestFits(a),
         ~ Asking(a, values), ~ Again(a, tokens), Unmarked(tokens), NoMark(yychar),
         shutdown' # "TERMINATE",
         NEW b, b.m \in QuietMoments, b.m # "entered", b.l = a.l, b.p = a.p, b.f = a.f, ParserOnly
  PROVE  RestFits(b)'
<1>1. a.p \in Nat /\ PlaceFits(a.p, pos, yychar)
  BY StageParts DEF RestFits
<1>2. PlaceFits(b.p, pos', yychar')
  BY <1>1, LookBehind
<1>3. Unmarked(tokens)' /\ NoMark(yychar)'
  BY LookPlain
<1>4. TypesOf(function_state, function_state_stack) = a.f /\ AllCalm(function_state_stack)
      /\ for_stack = a.l
  BY DEF RestFits, FunctionsFit, ForsFit
<1>5. TypesOf(function_state, function_state_stack)' = b.f /\ AllCalm(function_state_stack)'
      /\ for_stack' = b.l
  BY <1>4 DEF ParserOnly
<1>6. QuietFits(b)'
  BY <1>2, <1>3, <1>5 DEF QuietFits
<1> QED BY <1>6, QuietStageNext

\* The declaration that call_user_function sought is the next token.
LEMMA ReadingMove ==
  ASSUME IInv, parse # <<>>, KeepToken, NEW a \in Stage, a.m = "calling", RestFits(a),
         NEW b, b.m = "reading", b.o = a.o, b.l = a.l, b.p = a.p, b.f = a.f, ParserOnly
  PROVE  Look.type = "IC_FUNCTION" /\ RestFits(b)'
<1>1. /\ ~ Asking(a, values) /\ ~ Again(a, tokens) /\ ~ Asking(b, values') /\ ~ Again(b, tokens')
  BY MomentRest
<1>2. /\ pos = a.o /\ yychar = EMPTY /\ tokens[a.o].type = "IC_FUNCTION" /\ shutdown # "TERMINATE"
      /\ \A i \in DOMAIN tokens : TokenFits(a, tokens[i], i, Execute)
  BY DEF RestFits, TokensFit, MomentFits
<1>3. /\ tokens' = tokens /\ yychar' = Look /\ Look = tokens[pos] /\ Look.offset = pos
      /\ shutdown' = shutdown
  BY <1>2, LookCases DEF KeepToken
<1>4. Look.type = "IC_FUNCTION"
  BY <1>2, <1>3
<1>5. a.p \in Nat /\ PlaceFits(a.p, pos, yychar)
  BY StageParts DEF RestFits
<1>6. PlaceFits(b.p, pos', yychar')
  BY <1>5, LookBehind
<1>7. FunctionsFit(b, values', function_state', function_state_stack')
      /\ ForsFit(b, values', for_stack', tokens')
  <2>1. TypesOf(function_state, function_state_stack) = a.f /\ AllCalm(function_state_stack)
        /\ for_stack = a.l
    BY <1>1 DEF RestFits, FunctionsFit, ForsFit
  <2> QED BY <1>1, <2>1 DEF FunctionsFit, ForsFit, ParserOnly
<1>8. MomentFits(b, values', Execute', yychar', shutdown')
  BY <1>1, <1>2, <1>3 DEF MomentFits
<1>9. TokensFit(b, tokens', pos', yychar', Execute')
  <2>1. \A i \in DOMAIN tokens' : TokenFits(b, tokens'[i], i, Execute')
    BY <1>2, <1>3 DEF TokenFits
  <2>2. yychar'.type = "IC_FUNCTION" /\ yychar'.offset = b.o /\ yychar' # EMPTY
    BY <1>2, <1>3, <1>4 DEF EMPTY
  <2> QED BY <1>1, <2>1, <2>2 DEF TokensFit
<1> QED BY <1>4, <1>6, <1>7, <1>8, <1>9 DEF RestFits

\* And it is taken.
LEMMA RestoredMove ==
  ASSUME IInv, parse # <<>>, TakeToken, NEW a \in Stage, a.m = "reading", RestFits(a),
         NEW b, b.m = "restored", b.o = a.o, b.l = a.l, b.p = a.p, b.f = a.f, ParserOnly
  PROVE  RestFits(b)'
<1>1. /\ ~ Asking(a, values) /\ ~ Again(a, tokens) /\ ~ Asking(b, values') /\ ~ Again(b, tokens')
  BY MomentRest
<1>2. /\ yychar # EMPTY /\ shutdown # "TERMINATE"
      /\ \A i \in DOMAIN tokens : TokenFits(a, tokens[i], i, Execute)
  BY DEF RestFits, TokensFit, MomentFits
<1>3. /\ tokens' = tokens /\ yychar' = EMPTY /\ shutdown' = shutdown
  BY <1>2, LookCases DEF TakeToken
<1>4. a.p \in Nat /\ PlaceFits(a.p, pos, yychar)
  BY StageParts DEF RestFits
<1>5. PlaceFits(b.p, pos', yychar')
  BY <1>4, LookBehind
<1>6. FunctionsFit(b, values', function_state', function_state_stack')
      /\ ForsFit(b, values', for_stack', tokens')
  <2>1. TypesOf(function_state, function_state_stack) = a.f /\ AllCalm(function_state_stack)
        /\ for_stack = a.l
    BY <1>1 DEF RestFits, FunctionsFit, ForsFit
  <2> QED BY <1>1, <2>1 DEF FunctionsFit, ForsFit, ParserOnly
<1>7. MomentFits(b, values', Execute', yychar', shutdown')
  BY <1>1, <1>2, <1>3 DEF MomentFits
<1>8. TokensFit(b, tokens', pos', yychar', Execute')
  <2>1. \A i \in DOMAIN tokens' : TokenFits(b, tokens'[i], i, Execute')
    BY <1>2, <1>3 DEF TokenFits
  <2> QED BY <1>1, <1>3, <2>1 DEF TokensFit, NoMark
<1> QED BY <1>5, <1>6, <1>7, <1>8 DEF RestFits

\* A for starts again: it is on for_stack, and the parser is at its token.
LEMMA RepeatedMove ==
  ASSUME IInv, parse # <<>>, TakeToken, NEW a \in Stage, a.m = "again", RestFits(a),
         Look.type = "CONTINUED_FOR", NEW b, b.m = "repeated", b.o = Look.offset,
         b.l = Push(Look.offset, a.l), b.p = Look.offset, b.f = a.f, ParserOnly
  PROVE  RestFits(b)'
<1>1. /\ ~ Asking(b, values') /\ ~ Again(b, tokens')
  BY MomentRest
<1>2. ~ Asking(a, values)
  BY DEF Asking
<1>3. /\ NoMark(yychar) /\ shutdown # "TERMINATE"
      /\ \A i \in DOMAIN tokens : TokenFits(a, tokens[i], i, Execute)
  BY DEF RestFits, TokensFit, MomentFits
<1>4. /\ pos \in Nat /\ tokens' = tokens /\ yychar' = EMPTY
      /\ Look = tokens[pos] /\ pos \in DOMAIN tokens /\ Look.offset = pos /\ pos' = pos + 1
      /\ shutdown' = shutdown
  <2>1. ~ (yychar # EMPTY /\ Look = yychar)
    BY <1>3 DEF NoMark, TurnedTypes
  <2> QED BY <1>3, <2>1, LookCases DEF TakeToken
<1>5. a.o = pos /\ Execute
  BY <1>3, <1>4 DEF TokenFits
<1>6. Again(a, tokens)
  BY <1>4, <1>5 DEF Again
<1>7. PlaceFits(b.p, pos', yychar')
  BY <1>4 DEF PlaceFits, LookFits
<1>8. FunctionsFit(b, values', function_state', function_state_stack')
      /\ ForsFit(b, values', for_stack', tokens')
  <2>1. TypesOf(function_state, function_state_stack) = a.f /\ AllCalm(function_state_stack)
        /\ for_stack = Push(a.o, a.l)
    BY <1>2, <1>6 DEF RestFits, FunctionsFit, ForsFit
  <2> QED BY <1>1, <1>4, <1>5, <2>1 DEF FunctionsFit, ForsFit, ParserOnly
<1>9. MomentFits(b, values', Execute', yychar', shutdown')
  BY <1>1, <1>3, <1>4 DEF MomentFits
<1>10. TokensFit(b, tokens', pos', yychar', Execute')
  <2>1. \A i \in DOMAIN tokens' : TokenFits(b, tokens'[i], i, Execute')
    BY <1>3, <1>4, <1>5 DEF TokenFits, ParserOnly
  <2> QED BY <1>1, <1>4, <2>1 DEF TokensFit, NoMark
<1> QED BY <1>7, <1>8, <1>9, <1>10 DEF RestFits

\* The stages at which a symbol of the grammar stands.
LEMMA RuleStages ==
  ASSUME NEW x \in Nonterminals, NEW s, NEW a \in Stage, NEW b, Takes(x, s, a, b)
  PROVE  \/ Plain(a) \/ (a.m = "again" /\ x = "for_iterations")
         \/ a.m \in {"entered", "skipped", "reading", "calling", "closed"}
<1>1. CASE Plain(a)
  BY <1>1
<1>2. CASE ~ Plain(a)
  BY <1>2, OtherSymbol
<1> QED BY <1>1, <1>2

\* What is left alone when a rule is taken.
ExpandKeeps ==
  /\ values' = values /\ suspended' = suspended
  /\ UNCHANGED <<ExecuteFlag, css, function_state>> /\ ParserOnly

\* A rule that starts with the next token.
LEMMA TokenRule_Loops ==
  ASSUME IInv, LoopInv, Running, parse # <<>>, Head(parse).sym \in Nonterminals, TakeToken,
         NEW rule \in Rules(Head(parse).sym, Look.type), parse' = Symbols(rule, Look) \o Tail(parse),
         ExpandKeeps
  PROVE  LoopInv'
<1>1. PICK U, a, b :
        /\ Situation(U, a) /\ b \in Stage /\ Takes(Head(parse).sym, Tok, a, b)
        /\ Way(Tail(parse), b, Floor(U)) /\ Course(U, b, Tail(parse), suspended)
  BY SituationAt
<1>2. a \in Stage /\ RestFits(a) /\ Way(parse, a, Floor(U)) /\ U \in Seq(Stage)
  BY <1>1 DEF Situation, Course
<1>3. PICK r \in Grammar : r[1] = Head(parse).sym /\ r[2] = Look.type /\ r[3] = rule
  BY DEF Rules
<1>4. PICK t \in TokenOrEOF : t = Look /\ t.type = r[2] /\ t.offset \in Nat /\ t.offset > a.p
  <2>1. Look.type # "EOF"
    BY <1>3, GrammarTokens
  <2>2. Look \in TokenOrEOF /\ Look.offset \in Nat
    <3>1. PICK n \in Nat : n = Len(tokens) /\ InputInv
      BY TokensType
    <3>2. Look.offset \in 1 .. n - 1 /\ Look \in TokenOrEOF
      BY <2>1, <3>1, LookIsRead
    <3> QED BY <3>2
  <2>3. a.p \in Nat /\ PlaceFits(a.p, pos, yychar)
    BY <1>2, StageParts DEF RestFits
  <2> QED BY <1>3, <2>1, <2>2, <2>3, LookBehind
<1>5. parse \in Seq(Items(TokenOrEOF))
  BY SymbolBetween
<1>6. /\ Plain(a) /\ r[2] # "IC_FUNCTION" => Way(parse', a, Floor(U))
      /\ a.m = "reading" /\ r[2] = "IC_FUNCTION" => Way(parse', To(a, a.w, "restored", t.offset), Floor(U))
      /\ a.m = "again" => Way(parse', ForStart(To(a, a.w, "plain", 0), t), Floor(U))
      /\ a.m \in {"entered", "skipped"} => Way(parse', To(a, a.w, "begun", 0), Floor(U))
      /\ a.m \notin {"calling", "closed"}
  <2>1. PICK p \in Seq(Items(TokenOrEOF)) : p = parse
    BY <1>5
  <2>2. p # <<>> /\ Way(p, a, Floor(U)) /\ Head(p).sym \in Nonterminals /\ r[1] = Head(p).sym
    BY <1>2, <1>3, <2>1
  <2>3. PICK q : q = Symbols(r[3], t) \o Tail(p)
    OBVIOUS
  <2>4. /\ Plain(a) /\ r[2] # "IC_FUNCTION" => Way(q, a, Floor(U))
        /\ a.m = "reading" /\ r[2] = "IC_FUNCTION" => Way(q, To(a, a.w, "restored", t.offset), Floor(U))
        /\ a.m = "again" => Way(q, ForStart(To(a, a.w, "plain", 0), t), Floor(U))
        /\ a.m \in {"entered", "skipped"} => Way(q, To(a, a.w, "begun", 0), Floor(U))
        /\ a.m \notin {"calling", "closed"}
    BY <1>2, <1>4, <2>2, <2>3, TokenRule
  <2>5. q = parse'
    BY <1>3, <1>4, <2>1, <2>3
  <2> QED BY <2>4, <2>5
<1>7. CASE Plain(a)
  <2>1. QuietFits(a) /\ a.m \in QuietMoments /\ a.m # "entered"
    BY <1>2, <1>7, PlainQuiet, QuietRest
  <2>2. Look.type \notin TurnedTypes
    BY <2>1, LookPlain DEF QuietFits
  <2>3. Way(parse', a, Floor(U))
    BY <1>3, <1>6, <1>7, <2>2 DEF TurnedTypes
  <2>4. RestFits(a)'
    BY <1>2, <2>1, QuietMove DEF ExpandKeeps
  <2> QED BY <1>1, <1>2, <2>3, <2>4, ExpandTo DEF ExpandKeeps
<1>8. CASE a.m \in {"entered", "skipped"}
  <2>1. PICK c : c = To(a, a.w, "begun", 0)
    OBVIOUS
  <2>2. /\ c \in Stage /\ c.w = a.w /\ c.e = a.e /\ c.n = a.n /\ c.l = a.l /\ c.p = a.p
        /\ c.f = a.f /\ c.m = "begun"
    <3>1. "begun" \in Moment
      BY DEF Moment
    <3> QED BY <1>2, <2>1, <3>1, SamePlace
  <2>3. a.m \in QuietMoments /\ c.m \in QuietMoments /\ c.m # "entered"
    BY <1>8, <2>2 DEF QuietMoments
  <2>4. RestFits(c)'
    BY <1>2, <2>2, <2>3, QuietMove DEF ExpandKeeps
  <2>5. Way(parse', c, Floor(U))
    BY <1>6, <1>8, <2>1
  <2> QED BY <1>1, <2>2, <2>4, <2>5, ExpandTo DEF ExpandKeeps
<1>9. CASE a.m = "reading"
  <2>1. yychar # EMPTY /\ yychar.type = "IC_FUNCTION" /\ yychar.offset = a.o
    BY <1>2, <1>9 DEF RestFits, TokensFit
  <2>2. r[2] = "IC_FUNCTION" /\ t.offset = a.o
    BY <1>3, <1>4, <2>1 DEF Look
  <2>3. PICK c : c = To(a, a.w, "restored", a.o)
    OBVIOUS
  <2>4. /\ c \in Stage /\ c.w = a.w /\ c.e = a.e /\ c.n = a.n /\ c.l = a.l /\ c.p = a.p
        /\ c.f = a.f /\ c.m = "restored" /\ c.o = a.o
    <3>1. PICK w \in Seq(Mark), m \in Moment, o \in Nat : w = a.w /\ m = "restored" /\ o = a.o
      <4>1. a.w \in Seq(Mark) /\ a.o \in Nat /\ "restored" \in Moment
        BY <1>2, StageParts DEF Moment
      <4> QED BY <4>1
    <3>2. PICK g : g = To(a, w, m, o)
      OBVIOUS
    <3>3. /\ g \in Stage /\ g.w = w /\ g.e = a.e /\ g.n = a.n /\ g.l = a.l /\ g.p = a.p
          /\ g.f = a.f /\ g.m = m /\ g.o = o
      BY <1>2, <3>2, ToParts
    <3> QED BY <2>3, <3>1, <3>2, <3>3
  <2>5. RestFits(c)'
    BY <1>2, <1>9, <2>4, RestoredMove DEF ExpandKeeps
  <2>6. Way(parse', c, Floor(U))
    BY <1>6, <1>9, <2>2, <2>3
  <2> QED BY <1>1, <2>4, <2>5, <2>6, ExpandTo DEF ExpandKeeps
<1>10. CASE a.m = "again" /\ Head(parse).sym = "for_iterations"
  <2>1. Look.type = "CONTINUED_FOR"
    BY <1>3, <1>10, OtherRules
  <2>2. PICK z : z = To(a, a.w, "plain", 0)
    OBVIOUS
  <2>3. /\ z \in Stage /\ z.w = a.w /\ z.e = a.e /\ z.n = a.n /\ z.l = a.l /\ z.p = a.p
        /\ z.f = a.f /\ Plain(z)
    <3>1. "plain" \in Moment
      BY DEF Moment
    <3> QED BY <1>2, <2>2, <3>1, SamePlace DEF Plain
  <2>4. PICK c : c = ForStart(z, t)
    OBVIOUS
  <2>5. /\ c \in Stage /\ c.w = a.w /\ c.e = a.e /\ c.n = a.n /\ c.f = a.f
    BY <1>4, <2>3, <2>4, ForStages
  <2>6. c.l = Push(Look.offset, a.l) /\ c.p = Look.offset /\ c.m = "repeated" /\ c.o = Look.offset
    <3>1. c = StageOf(z.w, z.e, z.n, Push(t.offset, z.l), t.offset, z.f, "repeated", t.offset)
      BY <1>4, <2>1, <2>4 DEF ForStart
    <3>2. c.l = Push(t.offset, z.l) /\ c.p = t.offset /\ c.m = "repeated" /\ c.o = t.offset
      BY <3>1 DEF StageOf
    <3> QED BY <1>4, <2>3, <3>2
  <2>7. RestFits(c)'
    BY <1>2, <1>10, <2>1, <2>5, <2>6, RepeatedMove DEF ExpandKeeps
  <2>8. Way(parse', c, Floor(U))
    BY <1>6, <1>10, <2>2, <2>4
  <2> QED BY <1>1, <2>5, <2>7, <2>8, ExpandTo DEF ExpandKeeps
<1> QED BY <1>1, <1>2, <1>6, <1>7, <1>8, <1>9, <1>10, RuleStages

\* A rule that does not.
LEMMA NoTokenRule_Loops ==
  ASSUME IInv, LoopInv, Running, parse # <<>>, Head(parse).sym \in Nonterminals, KeepToken,
         Rules(Head(parse).sym, Look.type) = {},
         NEW rule \in Otherwise(Head(parse).sym, Look.type), parse' = Symbols(rule, Tok) \o Tail(parse),
         ExpandKeeps
  PROVE  LoopInv'
<1>1. PICK U, a, b :
        /\ Situation(U, a) /\ b \in Stage /\ Takes(Head(parse).sym, Tok, a, b)
        /\ Way(Tail(parse), b, Floor(U)) /\ Course(U, b, Tail(parse), suspended)
  BY SituationAt
<1>2. a \in Stage /\ RestFits(a) /\ Way(parse, a, Floor(U)) /\ U \in Seq(Stage)
  BY <1>1 DEF Situation, Course
<1>3. parse \in Seq(Items(TokenOrEOF)) /\ Tok \in TokenOrEOF
  <2>1. parse \in Seq(Items(TokenOrEOF))
    BY SymbolBetween
  <2>2. Head(parse) \in Items(TokenOrEOF)
    BY <2>1
  <2> QED BY <2>1, <2>2 DEF Items, Tok
<1>4. /\ Plain(a) => Way(parse', a, Floor(U))
      /\ a.m = "reading" => Look.type # "IC_FUNCTION"
      /\ a.m = "again" => Way(parse', To(a, a.w, "plain", 0), Floor(U))
      /\ a.m \in {"entered", "skipped"} => Way(parse', To(a, a.w, "over", 0), Floor(U))
      /\ a.m = "closed" /\ Look.type = "EOF" => Way(parse', To(a, a.w, "end", 0), Floor(U))
      /\ a.m = "calling" /\ Look.type = "IC_FUNCTION" =>
           \A o \in Nat : Way(parse', To(a, a.w, "reading", o), Floor(U))
  <2>1. PICK p \in Seq(Items(TokenOrEOF)), t \in TokenOrEOF : p = parse /\ t = Tok
    BY <1>3
  <2>2. p # <<>> /\ Way(p, a, Floor(U)) /\ Head(p).sym \in Nonterminals
        /\ rule \in Otherwise(Head(p).sym, Look.type)
    BY <1>2, <2>1
  <2>3. PICK q : q = Symbols(rule, t) \o Tail(p)
    OBVIOUS
  <2>4. /\ Plain(a) => Way(q, a, Floor(U))
        /\ a.m = "reading" => Look.type # "IC_FUNCTION"
        /\ a.m = "again" => Way(q, To(a, a.w, "plain", 0), Floor(U))
        /\ a.m \in {"entered", "skipped"} => Way(q, To(a, a.w, "over", 0), Floor(U))
        /\ a.m = "closed" /\ Look.type = "EOF" => Way(q, To(a, a.w, "end", 0), Floor(U))
        /\ a.m = "calling" /\ Look.type = "IC_FUNCTION" =>
             \A o \in Nat : Way(q, To(a, a.w, "reading", o), Floor(U))
    BY <1>2, <2>2, <2>3, NoTokenRule
  <2>5. q = parse'
    BY <2>1, <2>3
  <2> QED BY <2>4, <2>5
<1>5. CASE Plain(a)
  <2>1. a.m \in QuietMoments /\ a.m # "entered"
    BY <1>5, PlainQuiet
  <2>2. RestFits(a)'
    BY <1>2, <2>1, QuietMove DEF ExpandKeeps
  <2> QED BY <1>1, <1>2, <1>4, <1>5, <2>2, ExpandTo DEF ExpandKeeps
<1>6. CASE a.m \in {"entered", "skipped"}
  <2>1. PICK c : c = To(a, a.w, "over", 0)
    OBVIOUS
  <2>2. /\ c \in Stage /\ c.w = a.w /\ c.e = a.e /\ c.n = a.n /\ c.l = a.l /\ c.p = a.p
        /\ c.f = a.f /\ c.m = "over"
    <3>1. "over" \in Moment
      BY DEF Moment
    <3> QED BY <1>2, <2>1, <3>1, SamePlace
  <2>3. a.m \in QuietMoments /\ c.m \in QuietMoments /\ c.m # "entered"
    BY <1>6, <2>2 DEF QuietMoments
  <2>4. RestFits(c)'
    BY <1>2, <2>2, <2>3, QuietMove DEF ExpandKeeps
  <2>5. Way(parse', c, Floor(U))
    BY <1>4, <1>6, <2>1
  <2> QED BY <1>1, <2>2, <2>4, <2>5, ExpandTo DEF ExpandKeeps
<1>7. a.m # "reading"
  <2>1. SUFFICES ASSUME a.m = "reading" PROVE FALSE
    OBVIOUS
  <2>2. yychar # EMPTY /\ yychar.type = "IC_FUNCTION"
    BY <1>2, <2>1 DEF RestFits, TokensFit
  <2> QED BY <1>4, <2>1, <2>2 DEF Look
<1>8. CASE a.m = "again" /\ Head(parse).sym = "for_iterations"
  <2>1. /\ ~ Asking(a, values) /\ NoMark(yychar) /\ shutdown # "TERMINATE"
        /\ \A i \in DOMAIN tokens : TokenFits(a, tokens[i], i, Execute)
        /\ Again(a, tokens) => pos = a.o /\ yychar = EMPTY
    BY <1>2, <1>8 DEF RestFits, TokensFit, MomentFits, Asking
  <2>2. ~ Again(a, tokens)
    <3>1. SUFFICES ASSUME Again(a, tokens) PROVE FALSE
      OBVIOUS
    <3>2. Look.type = "CONTINUED_FOR"
      BY <2>1, <3>1 DEF Look, Again
    <3>3. \E r \in Grammar : r[1] = "for_iterations" /\ r[2] = "CONTINUED_FOR"
      <4>1. PICK r : r = <<"for_iterations", "CONTINUED_FOR", for_rule>>
        OBVIOUS
      <4>2. r \in Grammar /\ r[1] = "for_iterations" /\ r[2] = "CONTINUED_FOR"
        BY <4>1 DEF Grammar
      <4> QED BY <4>2
    <3> QED BY <1>8, <3>2, <3>3 DEF Rules
  <2>3. Unmarked(tokens)
    BY <1>8, <2>1, <2>2 DEF Unmarked, TurnedTypes, TokenFits, Again
  <2>4. PICK c : c = To(a, a.w, "plain", 0)
    OBVIOUS
  <2>5. /\ c \in Stage /\ c.w = a.w /\ c.e = a.e /\ c.n = a.n /\ c.l = a.l /\ c.p = a.p
        /\ c.f = a.f /\ c.m = "plain"
    <3>1. "plain" \in Moment
      BY DEF Moment
    <3> QED BY <1>2, <2>4, <3>1, SamePlace
  <2>6. RestFits(c)'
    <3>1. shutdown' # "TERMINATE"
      BY <2>1, LookShutdown
    <3>2. c.m \in QuietMoments /\ c.m # "entered"
      BY <2>5 DEF QuietMoments
    <3> QED BY <1>2, <2>1, <2>2, <2>3, <2>5, <3>1, <3>2, CalmMove DEF ExpandKeeps
  <2>7. Way(parse', c, Floor(U))
    BY <1>4, <1>8, <2>4
  <2> QED BY <1>1, <2>5, <2>6, <2>7, ExpandTo DEF ExpandKeeps
<1>9. CASE a.m = "closed"
  <2>1. /\ ~ Asking(a, values) /\ ~ Again(a, tokens)
    BY <1>9, MomentRest
  <2>2. /\ NoMark(yychar) /\ shutdown = "TERMINATE" /\ yychar = EMPTY
        /\ \A i \in DOMAIN tokens : TokenFits(a, tokens[i], i, Execute)
    BY <1>2, <1>9 DEF RestFits, TokensFit, MomentFits
  <2>3. Unmarked(tokens)
    BY <1>9, <2>2 DEF Unmarked, TurnedTypes, TokenFits
  <2>4. Look.type = "EOF" /\ shutdown' # "TERMINATE"
    BY <2>2, LookShutdown DEF EOF
  <2>5. PICK c : c = To(a, a.w, "end", 0)
    OBVIOUS
  <2>6. /\ c \in Stage /\ c.w = a.w /\ c.e = a.e /\ c.n = a.n /\ c.l = a.l /\ c.p = a.p
        /\ c.f = a.f /\ c.m = "end"
    <3>1. "end" \in Moment
      BY DEF Moment
    <3> QED BY <1>2, <2>5, <3>1, SamePlace
  <2>7. RestFits(c)'
    <3>1. c.m \in QuietMoments /\ c.m # "entered"
      BY <2>6 DEF QuietMoments
    <3> QED BY <1>2, <2>1, <2>2, <2>3, <2>4, <2>6, <3>1, CalmMove DEF ExpandKeeps
  <2>8. Way(parse', c, Floor(U))
    BY <1>4, <1>9, <2>4, <2>5
  <2> QED BY <1>1, <2>6, <2>7, <2>8, ExpandTo DEF ExpandKeeps
<1>10. CASE a.m = "calling"
  <2>1. PICK c : c = To(a, a.w, "reading", a.o)
    OBVIOUS
  <2>2. /\ c \in Stage /\ c.w = a.w /\ c.e = a.e /\ c.n = a.n /\ c.l = a.l /\ c.p = a.p
        /\ c.f = a.f /\ c.m = "reading" /\ c.o = a.o /\ a.o \in Nat
    <3>1. PICK w \in Seq(Mark), m \in Moment, o \in Nat : w = a.w /\ m = "reading" /\ o = a.o
      <4>1. a.w \in Seq(Mark) /\ a.o \in Nat /\ "reading" \in Moment
        BY <1>2, StageParts DEF Moment
      <4> QED BY <4>1
    <3>2. PICK g : g = To(a, w, m, o)
      OBVIOUS
    <3>3. /\ g \in Stage /\ g.w = w /\ g.e = a.e /\ g.n = a.n /\ g.l = a.l /\ g.p = a.p
          /\ g.f = a.f /\ g.m = m /\ g.o = o
      BY <1>2, <3>2, ToParts
    <3> QED BY <2>1, <3>1, <3>2, <3>3
  <2>3. Look.type = "IC_FUNCTION" /\ RestFits(c)'
    BY <1>2, <1>10, <2>2, ReadingMove DEF ExpandKeeps
  <2>4. Way(parse', c, Floor(U))
    BY <1>4, <1>10, <2>1, <2>2, <2>3
  <2> QED BY <1>1, <2>2, <2>3, <2>4, ExpandTo DEF ExpandKeeps
<1> QED BY <1>1, <1>2, <1>5, <1>6, <1>7, <1>8, <1>9, <1>10, RuleStages

LEMMA Expand_Loops ==
  ASSUME IInv, LoopInv, Expand
  PROVE  LoopInv'
<1>1. /\ Running /\ parse # <<>> /\ Head(parse).sym \in Nonterminals /\ ExpandKeeps
      /\ \/ /\ TakeToken
            /\ \E rule \in Rules(Head(parse).sym, Look.type) :
                 parse' = Symbols(rule, Look) \o Tail(parse)
         \/ /\ Rules(Head(parse).sym, Look.type) = {} /\ KeepToken
            /\ \E rule \in Otherwise(Head(parse).sym, Look.type) :
                 parse' = Symbols(rule, Tok) \o Tail(parse)
  BY DEF Expand, At, ExpandKeeps, ParserOnly, flow, stacks, Tok
<1>2. CASE /\ TakeToken
           /\ \E rule \in Rules(Head(parse).sym, Look.type) :
                parse' = Symbols(rule, Look) \o Tail(parse)
  <2>1. PICK rule \in Rules(Head(parse).sym, Look.type) :
          parse' = Symbols(rule, Look) \o Tail(parse)
    BY <1>2
  <2> QED BY <1>1, <1>2, <2>1, TokenRule_Loops
<1>3. CASE /\ Rules(Head(parse).sym, Look.type) = {} /\ KeepToken
           /\ \E rule \in Otherwise(Head(parse).sym, Look.type) :
                parse' = Symbols(rule, Tok) \o Tail(parse)
  <2>1. PICK rule \in Otherwise(Head(parse).sym, Look.type) :
          parse' = Symbols(rule, Tok) \o Tail(parse)
    BY <1>3
  <2> QED BY <1>1, <1>3, <2>1, NoTokenRule_Loops
<1> QED BY <1>1, <1>2, <1>3

-----------------------------------------------------------------------------
(* The start and the steps *)

\* A token of a script has no type that only the engine gives.
LEMMA InitUnmarked ==
  ASSUME NEW p \in DOMAIN Text
  PROVE  Unmarked(Renumbered(Text[p]))
<1>1. PICK n \in Nat : n = Len(Text[p])
  <2>1. Len(Text[p]) \in Nat \ {0}
    BY TextAssumption, Zenon
  <2> QED BY <2>1
<1>2. DOMAIN Text[p] = 1 .. n
  <2>1. Text[p] = [i \in 1 .. Len(Text[p]) |-> Text[p][i]]
    BY TextAssumption, Zenon
  <2> QED BY <1>1, <2>1, Zenon
<1>3. PICK ts : ts = Renumbered(Text[p])
  OBVIOUS
<1>4. ts = [i \in 1 .. n |-> [Text[p][i] EXCEPT !.offset = i]]
  BY <1>2, <1>3, Zenon DEF Renumbered
<1>5. ASSUME NEW i \in 1 .. n PROVE ts[i].type \notin TurnedTypes
  <2>1. ts[i].type = Text[p][i].type
    BY <1>1, <1>4, TextToken
  <2>2. Text[p][i].type \notin
          {"CONTINUED_WHILE", "CONTINUED_DOWHILE", "CONTINUED_FOR", "IC_FUNCTION"}
    BY <1>1, ScannerAssumption, Zenon
  <2> QED BY <2>1, <2>2 DEF TurnedTypes
<1>6. DOMAIN ts = 1 .. n
  BY <1>4
<1> QED BY <1>3, <1>5, <1>6 DEF Unmarked

\* A script starts at the stage where it ends.
LEMMA InitLoops ==
  ASSUME Init
  PROVE  LoopInv
<1>1. /\ pos = 1 /\ yychar = EMPTY /\ shutdown = "NO" /\ parse = Start /\ values = <<>>
      /\ suspended = <<>> /\ ExecuteFlag = "EXECUTE" /\ Execute = TRUE
      /\ function_state = [loop_nest_level |-> 0, loop_change_level |-> 0,
                           loop_change_type |-> "DO_NOTHING", returned |-> FALSE, type |-> "none"]
      /\ css = <<>> /\ for_stack = <<>> /\ function_state_stack = <<>>
  BY DEF Init, Start
<1>2. PICK a \in Stage : /\ a = Origin /\ Plain(a) /\ a.w = <<>> /\ a.e = <<>> /\ a.n = 0
                         /\ a.l = <<>> /\ a.p = 0 /\ a.f = <<"none">>
  BY OriginParts, Zenon
<1>3. PICK U \in Seq(Stage) : U = <<>> /\ Len(U) = 0
  <2>1. <<>> \in Seq(Stage) /\ Len(<<>>) = 0
    OBVIOUS
  <2> QED BY <2>1, Zenon
<1>4. Course(U, a, parse, suspended)
  <2>1. Takes("statement_list", EOF, a, a) /\ Takes("EOF", EOF, a, a)
    <3>1. "statement_list" \in Keepers /\ "EOF" \in Keepers
      BY DEF Keepers
    <3> QED BY <1>2, <3>1, KeepActs
  <2>2. Way(Start, a, a)
    BY <2>1, StartWay
  <2>3. Floor(U) = a
    BY <1>2, <1>3 DEF Floor
  <2>4. Len(suspended) = 0
    BY <1>1
  <2>5. \A k \in 1 .. Len(U) : Way(suspended[k].parse, U[k], Floor(Pop(U, k)))
    BY <1>3
  <2> QED BY <1>1, <1>3, <2>2, <2>3, <2>4, <2>5, Zenon DEF Course
<1>5. FramesFit(U, suspended)
  BY <1>3 DEF FramesFit
<1>6. FlowFits(a, Push(ExecuteFlag, css), function_state)
  <2>1. PICK fl : fl = Push(ExecuteFlag, css) /\ Len(fl) = 1
    <3>1. css \in Seq(Flag) /\ ExecuteFlag \in Flag /\ Len(css) = 0
      BY <1>1 DEF Flag
    <3>2. PICK s \in Seq(Flag), g \in Flag : s = css /\ g = ExecuteFlag
      BY <3>1
    <3>3. Len(Push(g, s)) = Len(s) + 1
      BY Pushed
    <3> QED BY <3>1, <3>2, <3>3
  <2>2. Len(a.e) = 0
    BY <1>2
  <2>3. FlagsFit(a.e, fl)
    BY <2>1, <2>2 DEF FlagsFit
  <2>4. ChangeFits(a.e, a.n, fl, function_state)
    BY <1>1 DEF ChangeFits
  <2> QED BY <2>1, <2>3, <2>4, Zenon DEF FlowFits
<1>7. ValuesFit(a.w, values)
  <2>1. \A S : <<>> \in Seq(S)
    OBVIOUS
  <2>2. Len(<<>>) = 0 /\ IsSeq(<<>>)
    BY <2>1 DEF IsSeq
  <2> QED BY <1>1, <1>2, <2>2 DEF ValuesFit
<1>8. RestFits(a)
  <2>1. TypesOf(function_state, function_state_stack) = a.f
    <3>1. function_state.type = "none"
      BY <1>1
    <3>2. [i \in 1 .. Len(<<>>) |-> <<>>[i].type] = <<>>
      OBVIOUS
    <3>3. Push("none", <<>>) = <<"none">>
      BY DEF Push
    <3> QED BY <1>1, <1>2, <3>1, <3>2, <3>3, Zenon DEF TypesOf
  <2>2. AllCalm(function_state_stack)
    BY <1>1 DEF AllCalm
  <2>3. PlaceFits(a.p, pos, yychar)
    BY <1>1, <1>2 DEF PlaceFits, LookFits
  <2>4. Unmarked(tokens)
    BY InitUnmarked DEF Init
  <2>5. NoMark(yychar) /\ shutdown # "TERMINATE"
    BY <1>1 DEF NoMark
  <2>6. for_stack = a.l
    BY <1>1, <1>2
  <2>7. QuietFits(a)
    BY <1>1, <2>1, <2>2, <2>3, <2>4, <2>5, <2>6, Zenon DEF QuietFits
  <2>8. a.m \in QuietMoments
    BY <1>2, PlainQuiet
  <2> QED BY <2>7, <2>8, QuietRest
<1>9. Fits(a)
  BY <1>6, <1>7, <1>8, Zenon DEF Fits
<1> QED BY <1>4, <1>5, <1>9, Zenon DEF LoopInv

\* Every step keeps the invariant.
LEMMA NextLoops ==
  ASSUME IInv, LoopInv, Next
  PROVE  LoopInv'
<1>1. CASE Parser
  <2>1. CASE ParseError \/ Accept
    BY <2>1, StoppedLoops DEF ParseError, Accept
  <2> QED BY <1>1, <2>1, Shift_Loops, ShiftOffset_Loops, Expand_Loops, Zenon DEF Parser
<1>2. CASE IfActions
  BY <1>2, cs_start_if_Loops, cs_end_if_Loops, cs_elseif_start_evaluate_Loops, ChainLoops,
     Zenon DEF IfActions
<1>3. CASE LoopActions
  BY <1>3, cs_start_while_Loops, cs_end_while_Loops, cs_start_do_while_Loops,
     cs_force_eval_do_while_Loops, cs_end_do_while_Loops, for_pre_expr1_Loops, WithinLoops,
     for_pre_statement_Loops, for_post_statement_Loops, Zenon DEF LoopActions
<1>4. CASE SwitchActions
  BY <1>4, cs_switch_start_Loops, CaseLoops, WithinLoops, cs_switch_end_Loops,
     cs_break_continue_Loops, Zenon DEF SwitchActions
<1>5. CASE Operators
  BY <1>5, OperandLoops, OperatorsLoop, WithinLoops, Zenon DEF Operators
<1>6. CASE Functions
  BY <1>6, start_function_decleration_Loops, end_function_decleration_Loops,
     restore_token_Loops, terminate_phpparse_Loops,
     cs_functioncall_pre_variable_passing_Loops, cs_functioncall_post_variable_passing_Loops,
     cs_functioncall_end_Loops, cs_return_Loops, call_user_function_Loops,
     phpparse_returns_Loops, RETURN_TRUE_Loops, Zenon DEF Functions
<1> QED BY <1>1, <1>2, <1>3, <1>4, <1>5, <1>6 DEF Next

LEMMA StutterLoops ==
  ASSUME LoopInv, UNCHANGED vars
  PROVE  LoopInv'
<1>1. /\ tokens' = tokens /\ pos' = pos /\ yychar' = yychar /\ shutdown' = shutdown
      /\ parse' = parse /\ values' = values /\ suspended' = suspended
      /\ ExecuteFlag' = ExecuteFlag /\ Execute' = Execute /\ function_state' = function_state
      /\ css' = css /\ for_stack' = for_stack /\ function_state_stack' = function_state_stack
      /\ status' = status
  BY DEF vars, input, parser, flow, stacks, world
<1>2. \A a : Fits(a)' <=> Fits(a)
  BY <1>1, Zenon DEF Fits, RestFits
<1>3. SUFFICES ASSUME Running' PROVE LoopInv'
  BY Zenon DEF LoopInv
<1>4. PICK U, a : Course(U, a, parse, suspended) /\ FramesFit(U, suspended) /\ Fits(a)
  BY <1>1, <1>3, Zenon DEF LoopInv, Running
<1>5. Fits(a)'
  BY <1>2, <1>4
<1> QED BY <1>1, <1>4, <1>5, LoopNext

\* The engine is where the parser is, always.
THEOREM LoopInvHolds == Spec => []LoopInv
<1>1. Init => LoopInv
  BY InitLoops
<1>2. IInv /\ LoopInv /\ [Next]_vars => LoopInv'
  BY NextLoops, StutterLoops
<1> QED BY <1>1, <1>2, IInvHolds, PTL DEF Spec

-----------------------------------------------------------------------------
(* What the stages count *)

\* The fors that are iterated are those whose end takes one off for_stack, and with it
\* goes the offset of their token.
Iterates(x, t) == x = "for_post_statement" /\ t.type = "CONTINUED_FOR"
LEMMA TakesMoves ==
  ASSUME NEW x, NEW t, NEW a, NEW b, Takes(x, t, a, b)
  PROVE  \/ b = a \/ Same(a, b) \/ \E w, m, o : b = To(a, w, m, o)
         \/ HeaderLeft(a, b) \/ CallSkipped(a, b)
         \/ x = "cs_functioncall_end" /\ (SkippedEnds(a, b) \/ CalledEnds(a, b))
         \/ x = "for_post_statement" /\ ForLeft(t, a, b)
BY ZenonT(40) DEF Takes, Plain, Trades

LEMMA TakesFors ==
  ASSUME NEW x, NEW t, NEW a \in Stage, NEW b \in Stage, Takes(x, t, a, b)
  PROVE  \/ b.l = a.l /\ b.f = a.f /\ ~ Iterates(x, t)
         \/ /\ Iterates(x, t) /\ t.offset \in Nat /\ a.l = Push(t.offset, b.l) /\ b.f = a.f
         \/ /\ x = "cs_functioncall_end" /\ a.l = Push(-1, b.l)
            /\ \E y \in FnType : a.f = Push(y, b.f)
<1>1. CASE x = "for_post_statement"
  <2>1. ForLeft(t, a, b)
    BY <1>1 DEF Takes, Keepers, Giving
  <2>2. b.o = t.offset /\ b.o \in Nat
    BY <2>1 DEF ForLeft, Stage, Fields
  <2> QED BY <1>1, <2>1, <2>2 DEF ForLeft, Iterates
<1>2. CASE x # "for_post_statement"
  <2>1. ~ Iterates(x, t)
    BY <1>2 DEF Iterates
  <2>2. CASE x = "cs_functioncall_end" /\ CalledEnds(a, b)
    <3>1. PICK y \in {"none", "user", "internal"} : a.l = Push(-1, b.l) /\ a.f = Push(y, b.f)
      BY <2>2, Zenon DEF CalledEnds
    <3>2. y \in FnType
      BY DEF FnType
    <3> QED BY <2>2, <3>1, <3>2, Zenon
  <2>3. CASE ~ (x = "cs_functioncall_end" /\ CalledEnds(a, b))
    <3>1. \/ b = a \/ Same(a, b) \/ \E w, m, o : b = To(a, w, m, o)
          \/ HeaderLeft(a, b) \/ CallSkipped(a, b) \/ SkippedEnds(a, b)
      <4>1. \/ b = a \/ Same(a, b) \/ \E w, m, o : b = To(a, w, m, o)
            \/ HeaderLeft(a, b) \/ CallSkipped(a, b)
            \/ x = "cs_functioncall_end" /\ (SkippedEnds(a, b) \/ CalledEnds(a, b))
            \/ x = "for_post_statement" /\ ForLeft(t, a, b)
        BY TakesMoves
      <4> QED BY <1>2, <2>3, <4>1, Zenon
    <3>2. b = a \/ Same(a, b) \/ \E w, m, o : b = To(a, w, m, o)
      BY <3>1, Zenon DEF HeaderLeft, CallSkipped, SkippedEnds
    <3>3. b.l = a.l /\ b.f = a.f
      BY <3>2 DEF Same, To, StageOf
    <3> QED BY <2>1, <3>3
  <2> QED BY <2>2, <2>3
<1> QED BY <1>1, <1>2

\* A way counts the functions that are left on it.
LEMMA TypesCount ==
  ASSUME NEW h, NEW p, NEW a, NEW z, IsWay(h, p, a, z), Len(p) \in Nat, DOMAIN p = 1 .. Len(p)
  PROVE  /\ Len(a.f) = Len(z.f) + Cardinality(Drops(h, p)) /\ IsFiniteSet(Drops(h, p))
         /\ Drops(h, p) \subseteq Where(p, {"cs_functioncall_end"})
<1>1. PICK n \in Nat : n = Len(p)
  OBVIOUS
<1>2. PICK y : y = [i \in 1 .. n + 1 |-> Len(h[i].f)]
  OBVIOUS
<1>3. \A i \in 1 .. n + 1 : h[i] \in Stage /\ h[i].f \in Seq(FnType)
  BY <1>1, StageParts DEF IsWay
<1>4. y \in [1 .. n + 1 -> Int] /\ \A i \in 1 .. n + 1 : y[i] = Len(h[i].f)
  <2>1. \A f \in Seq(FnType) : Len(f) \in Int
    OBVIOUS
  <2> QED BY <1>2, <1>3, <2>1
<1>5. PICK P, M : P = Drops(h, p) /\ M = {}
  OBVIOUS
<1>6. P \in SUBSET (1 .. n) /\ M \in SUBSET (1 .. n)
  BY <1>1, <1>5 DEF Drops
<1>7. ASSUME NEW i \in 1 .. n
      PROVE  /\ y[i] = y[i + 1] + (One(i \in P) - One(i \in M))
             /\ i \in P => p[i].sym = "cs_functioncall_end"
  <2>1. i \in 1 .. n + 1 /\ i + 1 \in 1 .. n + 1 /\ i \in DOMAIN p
    BY <1>1
  <2>2. Takes(p[i].sym, p[i].tok, h[i], h[i + 1])
    BY <1>1 DEF IsWay
  <2>3. CASE i \in P
    <3>1. h[i].f # h[i + 1].f
      BY <1>5, <2>3 DEF Drops
    <3>2. p[i].sym = "cs_functioncall_end" /\ \E x \in FnType : h[i].f = Push(x, h[i + 1].f)
      BY <1>3, <2>1, <2>2, <3>1, TakesFors, Zenon
    <3>3. Len(h[i].f) = Len(h[i + 1].f) + 1
      <4>1. PICK x \in FnType, f \in Seq(FnType) : f = h[i + 1].f /\ h[i].f = Push(x, f)
        BY <1>3, <2>1, <3>2
      <4>2. Len(Push(x, f)) = Len(f) + 1
        BY Pushed
      <4> QED BY <4>1, <4>2
    <3>4. One(i \in P) = 1 /\ One(i \in M) = 0
      BY <1>5, <2>3 DEF One
    <3>5. y[i] = y[i + 1] + 1 /\ y[i + 1] \in Int
      BY <1>4, <2>1, <3>3
    <3>6. y[i] = y[i + 1] + (One(i \in P) - One(i \in M))
      BY <3>4, <3>5
    <3> QED BY <3>2, <3>6
  <2>4. CASE i \notin P
    <3>1. h[i].f = h[i + 1].f
      BY <1>5, <2>1, <2>4 DEF Drops
    <3>2. One(i \in P) = 0 /\ One(i \in M) = 0
      BY <1>5, <2>4 DEF One
    <3>3. y[i] = y[i + 1] /\ y[i + 1] \in Int
      BY <1>4, <2>1, <3>1
    <3> QED BY <2>4, <3>2, <3>3
  <2> QED BY <2>3, <2>4
<1>8. y[1] = y[n + 1] + (Cardinality(P) - Cardinality(M)) /\ Cardinality(P) \in Nat
  BY <1>4, <1>6, <1>7, Summed
<1>9. y[1] = Len(a.f) /\ y[n + 1] = Len(z.f)
  <2>1. h[1] = a /\ h[n + 1] = z
    BY <1>1 DEF IsWay
  <2>2. 1 \in 1 .. n + 1 /\ n + 1 \in 1 .. n + 1
    OBVIOUS
  <2> QED BY <1>4, <2>1, <2>2
<1>10. Len(a.f) = Len(z.f) + Cardinality(P)
  <2>1. Cardinality(M) = 0
    BY <1>5, FS_EmptySet
  <2>2. y[n + 1] \in Int
    BY <1>4
  <2> QED BY <1>8, <1>9, <2>1, <2>2
<1>11. IsFiniteSet(P)
  <2>1. IsFiniteSet(1 .. n)
    BY FS_Interval
  <2> QED BY <1>6, <2>1, FS_Subset
<1>12. P \subseteq Where(p, {"cs_functioncall_end"})
  BY <1>1, <1>6, <1>7 DEF Where
<1> QED BY <1>5, <1>10, <1>11, <1>12, SMTT(30)

-----------------------------------------------------------------------------
(* The parsers that wait *)

\* A parser ends in one function more than the one that waits for it.
LEMMA LevelFloors ==
  ASSUME NEW U \in Seq(Stage), NEW a \in Stage, NEW l \in Nat, l = Len(U), NEW k \in 0 .. l
  PROVE  /\ Station(U, a, k) \in Stage /\ Floor(Pop(U, k)) \in Stage
         /\ k # l => Len(Floor(Pop(U, k)).f) = Len(Station(U, a, k + 1).f) + 1
         /\ k = l => Len(Floor(Pop(U, k)).f) = 1
<1>1. Station(U, a, k) \in Stage
  BY DEF Station
<1>2. PICK V \in Seq(Stage) : /\ V = Pop(U, k) /\ Len(V) = l - k
                              /\ \A i \in 1 .. l - k : V[i] = U[i + k]
  <2>1. Pop(U, k) \in Seq(Stage) /\ Len(Pop(U, k)) = l - k
        /\ \A i \in 1 .. l - k : Pop(U, k)[i] = U[i + k]
    BY Popped
  <2> QED BY <2>1, Zenon
<1>3. Floor(V) \in Stage
  BY FloorType
<1>4. CASE k # l
  <2>1. V # <<>> /\ V[1] = U[k + 1] /\ k + 1 # 0 /\ k + 1 \in 1 .. l
    BY <1>2, <1>4
  <2>2. PICK u \in Stage : u = U[k + 1]
    BY <2>1
  <2>3. Floor(V) = Below(u) /\ Station(U, a, k + 1) = u
    BY <2>1, <2>2 DEF Floor, Station
  <2>4. Below(u).f = Push("user", u.f)
    BY BelowParts
  <2>5. PICK x \in FnType, f \in Seq(FnType) : x = "user" /\ f = u.f
    <3>1. u.f \in Seq(FnType)
      BY StageParts
    <3> QED BY <3>1 DEF FnType
  <2>6. Len(Push(x, f)) = Len(f) + 1
    BY Pushed
  <2>7. Len(Floor(V).f) = Len(Station(U, a, k + 1).f) + 1
    BY <2>3, <2>4, <2>5, <2>6
  <2> QED BY <1>1, <1>2, <1>3, <1>4, <2>7
<1>5. CASE k = l
  <2>1. V = <<>>
    BY <1>2, <1>5
  <2>2. Floor(V).f = <<"none">>
    BY <2>1, OriginParts DEF Floor
  <2>3. Len(Floor(V).f) = 1
    BY <2>2
  <2> QED BY <1>1, <1>2, <1>3, <1>5, <2>3
<1> QED BY <1>4, <1>5

\* The parsers at all levels are on their ways.
LEMMA LevelWays ==
  ASSUME InputInv, NEW U, NEW a, Course(U, a, parse, suspended), NEW l \in Nat, l = Len(U)
  PROVE  /\ a \in Stage /\ U \in Seq(Stage) /\ l = Len(suspended) /\ DOMAIN Left = 0 .. l
         /\ Left[0] = parse
         /\ \A k \in 0 .. l : /\ Len(Left[k]) \in Nat /\ DOMAIN Left[k] = 1 .. Len(Left[k])
                              /\ Way(Left[k], Station(U, a, k), Floor(Pop(U, k)))
<1>1. /\ a \in Stage /\ U \in Seq(Stage) /\ Len(U) = Len(suspended)
      /\ Way(parse, a, Floor(U))
      /\ \A k \in 1 .. Len(U) : Way(suspended[k].parse, U[k], Floor(Pop(U, k)))
  BY DEF Course
<1>2. Left = [k \in 0 .. l |-> IF k = 0 THEN parse ELSE suspended[k].parse]
  BY <1>1 DEF Left
<1>3. PICK n : SymbolsOK(parse, n) /\ FramesOK(suspended, n)
  BY InputParts
<1>4. ASSUME NEW k \in 0 .. l
      PROVE  /\ Len(Left[k]) \in Nat /\ DOMAIN Left[k] = 1 .. Len(Left[k])
             /\ Way(Left[k], Station(U, a, k), Floor(Pop(U, k)))
  <2>1. CASE k = 0
    <3>1. Left[k] = parse
      BY <1>2, <2>1
    <3>2. parse \in Seq(Items(TokenOrEOF))
      BY <1>3 DEF SymbolsOK
    <3>3. Pop(U, 0) = U
      BY <1>1, PopNone
    <3> QED BY <1>1, <2>1, <3>1, <3>2, <3>3 DEF Station
  <2>2. CASE k # 0
    <3>1. k \in 1 .. Len(suspended) /\ k \in 1 .. Len(U)
      BY <1>1, <2>2
    <3>2. Left[k] = suspended[k].parse
      BY <1>2, <2>2
    <3>3. suspended[k].parse \in Seq(Items(TokenOrEOF))
      BY <1>3, <3>1 DEF FramesOK, FrameOK, SymbolsOK
    <3>4. Station(U, a, k) = U[k]
      BY <2>2 DEF Station
    <3> QED BY <1>1, <3>1, <3>2, <3>3, <3>4
  <2> QED BY <2>1, <2>2
<1>5. DOMAIN Left = 0 .. l /\ Left[0] = parse
  BY <1>2
<1> QED BY <1>1, <1>4, <1>5

\* If no call is pending that was skipped, a function is left at the end of every call.
LEMMA CallsTaken ==
  ASSUME InputInv, NEW U, NEW a, Course(U, a, parse, suspended), CallsEntered,
         Len(a.f) = Len(function_state_stack) + 1, Len(function_state_stack) \in Nat
  PROVE  \E h : /\ IsWay(h, parse, a, Floor(U))
                /\ Drops(h, parse) = Where(parse, {"cs_functioncall_end"})
<1>1. PICK l \in Nat : l = Len(U)
  BY DEF Course
<1>2. /\ a \in Stage /\ U \in Seq(Stage) /\ l = Len(suspended)
      /\ DOMAIN Left = 0 .. l /\ Left[0] = parse
      /\ \A k \in 0 .. l : /\ Len(Left[k]) \in Nat /\ DOMAIN Left[k] = 1 .. Len(Left[k])
                           /\ Way(Left[k], Station(U, a, k), Floor(Pop(U, k)))
  BY <1>1, LevelWays
<1> DEFINE S(k) == Station(U, a, k)
           B(k) == Floor(Pop(U, k))
           H(k) == CHOOSE h : IsWay(h, Left[k], S(k), B(k))
<1>3. \A k \in 0 .. l : IsWay(H(k), Left[k], S(k), B(k))
  BY <1>2, Zenon DEF Way
<1> HIDE DEF H
<1>4. ASSUME NEW k \in 0 .. l
      PROVE  /\ S(k) \in Stage /\ B(k) \in Stage
             /\ k # l => Len(B(k).f) = Len(S(k + 1).f) + 1
             /\ k = l => Len(B(k).f) = 1
  <2>1. U \in Seq(Stage) /\ a \in Stage /\ l = Len(U)
    BY <1>1, <1>2
  <2> QED BY <2>1, LevelFloors
<1>5. S(0) = a /\ B(0) = Floor(U)
  BY <1>2, PopNone DEF Station
<1> HIDE DEF S, B
<1>6. \A s \in Stage : Len(s.f) \in Nat
  BY StageParts
<1>7. PICK D, E : /\ D = [k \in 0 .. l |-> Drops(H(k), Left[k])]
                  /\ E = [k \in 0 .. l |-> Where(Left[k], {"cs_functioncall_end"})]
  OBVIOUS
<1>8. ASSUME NEW k \in 0 .. l
      PROVE  /\ IsFiniteSet(D[k]) /\ IsFiniteSet(E[k]) /\ D[k] \subseteq E[k]
             /\ Len(S(k).f) = Len(B(k).f) + Cardinality(D[k])
  <2>1. PICK p : p = Left[k] /\ Len(p) \in Nat /\ DOMAIN p = 1 .. Len(p)
    BY <1>2
  <2>2. IsWay(H(k), p, S(k), B(k))
    BY <1>3, <2>1
  <2>3. /\ Len(S(k).f) = Len(B(k).f) + Cardinality(Drops(H(k), p)) /\ IsFiniteSet(Drops(H(k), p))
        /\ Drops(H(k), p) \subseteq Where(p, {"cs_functioncall_end"})
    BY <2>1, <2>2, TypesCount
  <2>4. IsFiniteSet(Where(p, {"cs_functioncall_end"}))
    BY <2>1, WhereOne
  <2>5. D[k] = Drops(H(k), p) /\ E[k] = Where(p, {"cs_functioncall_end"})
    BY <1>7, <2>1
  <2> QED BY <2>3, <2>4, <2>5
<1>9. PICK y : y = [k \in 0 .. l + 1 |-> IF k = l + 1 THEN l + 1 ELSE Len(S(k).f) + k]
  OBVIOUS
<1>10. y \in [0 .. l + 1 -> Int] /\ y[l + 1] = l + 1 /\ \A k \in 0 .. l : y[k] = Len(S(k).f) + k
  <2>1. ASSUME NEW k \in 0 .. l PROVE y[k] = Len(S(k).f) + k /\ y[k] \in Int
    <3>1. Len(S(k).f) \in Nat
      BY <1>4, <1>6
    <3>2. k # l + 1 /\ k \in 0 .. l + 1
      OBVIOUS
    <3> QED BY <1>9, <3>1, <3>2
  <2>2. y[l + 1] = l + 1
    BY <1>9
  <2>3. \A k \in 0 .. l + 1 : k = l + 1 \/ k \in 0 .. l
    OBVIOUS
  <2>4. \A k \in 0 .. l + 1 : y[k] \in Int
    BY <2>1, <2>2, <2>3
  <2> QED BY <1>9, <2>1, <2>2, <2>4
<1>11. ASSUME NEW k \in 0 .. l PROVE y[k] = y[k + 1] + Cardinality(D[k])
  <2>1. PICK d \in Nat, m \in Nat : d = Cardinality(D[k]) /\ m = Len(B(k).f)
    BY <1>4, <1>6, <1>8, FS_CardinalityType
  <2>2. y[k + 1] = m + k
    <3>1. CASE k = l
      <4>1. Len(B(k).f) = 1
        BY <1>4, <3>1
      <4>2. m = 1
        BY <2>1, <4>1
      <4>3. y[k + 1] = l + 1
        BY <1>10, <3>1, Zenon
      <4> QED BY <3>1, <4>2, <4>3
    <3>2. CASE k # l
      <4>1. k + 1 \in 0 .. l
        BY <3>2
      <4>2. PICK j \in Nat : j = Len(S(k + 1).f)
        BY <1>4, <1>6, <4>1
      <4>3. m = j + 1 /\ y[k + 1] = j + (k + 1)
        BY <1>4, <1>10, <2>1, <3>2, <4>1, <4>2
      <4> QED BY <4>3
    <3> QED BY <3>1, <3>2
  <2>3. y[k] = (m + d) + k
    BY <1>8, <1>10, <2>1
  <2> QED BY <2>1, <2>2, <2>3
<1>12. Cardinality(UpTo(E, l)) = y[0] - y[l + 1]
  <2>1. Places({"cs_functioncall_end"}, Left) = UpTo(E, l)
    BY <1>2, <1>7, PlacesUpTo
  <2>2. Cardinality(UpTo(E, l)) = Len(function_state_stack) - l
    BY <1>2, <2>1 DEF CallsEntered
  <2>3. y[0] = Len(a.f) + 0
    <3>1. 0 \in 0 .. l
      OBVIOUS
    <3> QED BY <1>5, <1>10, <3>1
  <2>4. PICK s \in Nat : s = Len(function_state_stack)
    OBVIOUS
  <2>5. s - l = ((s + 1) + 0) - (l + 1)
    OBVIOUS
  <2> QED BY <1>10, <2>2, <2>3, <2>4, <2>5
<1>13. D[0] = E[0]
  <2>1. CountedAmong(l, D, E, y)
    BY <1>8, <1>10, <1>11 DEF CountedAmong
  <2> QED BY <1>12, <2>1, EveryPlace, Zenon
<1>14. 0 \in 0 .. l
  OBVIOUS
<1> QED BY <1>2, <1>3, <1>5, <1>7, <1>13, <1>14

-----------------------------------------------------------------------------
(* What is on for_stack *)

\* How many of the places I there are up to k.
HowMany(I, k) == Cardinality(I \cap (1 .. k))

\* What the stacks g have above g[k], if only the places I push something on them.
StackedOn(j, I, g, o) ==
  /\ g \in [1 .. j + 1 -> Seq(Int)]
  /\ \A i \in 1 .. j :
       IF i \in I THEN o[i] \in Nat /\ g[i] = Push(o[i], g[i + 1]) ELSE g[i] = g[i + 1]
OnTop(I, g, k) ==
  /\ HowMany(I, k) \in Nat /\ Len(g[1]) = HowMany(I, k) + Len(g[k + 1])
  /\ \A x \in 1 .. Len(g[k + 1]) : g[1][HowMany(I, k) + x] = g[k + 1][x]
  /\ \A x \in 1 .. HowMany(I, k) : g[1][x] # -1

LEMMA StackedUp ==
  ASSUME NEW j \in Nat, NEW I \in SUBSET (1 .. j), NEW g, NEW o, StackedOn(j, I, g, o)
  PROVE  \A k \in 0 .. j : OnTop(I, g, k)
<1> DEFINE T == {k \in 0 .. j : ~ OnTop(I, g, k)}
<1>1. HowMany(I, 0) = 0
  <2>1. I \cap (1 .. 0) = {}
    OBVIOUS
  <2> QED BY <2>1, FS_EmptySet DEF HowMany
<1>2. ASSUME NEW k \in 0 .. j - 1
      PROVE  HowMany(I, k) \in Nat /\ HowMany(I, k + 1) = HowMany(I, k) + One(k + 1 \in I)
  BY CountedNext DEF HowMany
<1>3. T = {}
  <2> SUFFICES ASSUME T # {} PROVE FALSE
    OBVIOUS
  <2>1. T \in SUBSET Nat
    OBVIOUS
  <2>2. PICK k \in T : \A l \in T : k <= l
    BY <2>1, Least
  <2>3. OnTop(I, g, 0)
    <3>1. PICK s \in Seq(Int) : s = g[1]
      <4>1. 1 \in 1 .. j + 1
        OBVIOUS
      <4> QED BY <4>1 DEF StackedOn
    <3>2. g[0 + 1] = s /\ \A x \in 1 .. Len(s) : 0 + x = x
      BY <3>1
    <3>3. Len(s) = 0 + Len(s) /\ (1 .. 0) = {}
      OBVIOUS
    <3> QED BY <1>1, <3>1, <3>2, <3>3, SMTT(30) DEF OnTop
  <2>4. PICK i \in 0 .. j - 1 : k = i + 1
    <3>1. k # 0
      BY <2>2, <2>3
    <3>2. k - 1 \in 0 .. j - 1 /\ k = (k - 1) + 1
      BY <2>2, <3>1
    <3> QED BY <3>2
  <2>5. OnTop(I, g, i)
    <3>1. ~ (k <= i) /\ i \in 0 .. j
      BY <2>4
    <3> QED BY <2>2, <3>1
  <2>6. PICK c \in Nat, s \in Seq(Int), p \in Seq(Int), q \in Seq(Int) :
          c = HowMany(I, i) /\ s = g[1] /\ p = g[i + 1] /\ q = g[k + 1]
    <3>1. 1 \in 1 .. j + 1 /\ i + 1 \in 1 .. j + 1 /\ k + 1 \in 1 .. j + 1
      BY <2>4
    <3> QED BY <1>2, <3>1 DEF StackedOn
  <2>7. /\ Len(s) = c + Len(p) /\ \A x \in 1 .. Len(p) : s[c + x] = p[x]
        /\ \A x \in 1 .. c : s[x] # -1
    BY <2>5, <2>6 DEF OnTop
  <2>8. IF k \in I THEN o[k] \in Nat /\ p = Push(o[k], q) ELSE p = q
    <3>1. k \in 1 .. j /\ g[k] = p
      BY <2>4, <2>6
    <3> QED BY <2>6, <3>1 DEF StackedOn
  <2>9. CASE k \in I
    <3>1. HowMany(I, k) = c + 1
      BY <1>2, <2>4, <2>6, <2>9 DEF One
    <3>2. PICK e \in Int : e = o[k] /\ e # -1 /\ p = Push(e, q)
      BY <2>8, <2>9
    <3>3. Len(p) = Len(q) + 1 /\ p[1] = e /\ \A x \in 1 .. Len(q) : p[x + 1] = q[x]
      <4>1. Len(Push(e, q)) = Len(q) + 1 /\ Push(e, q)[1] = e
        BY Pushed, ZenonT(40)
      <4>2. \A x \in 1 .. Len(q) : Push(e, q)[x + 1] = q[x]
        <5>1. IsSeq(q)
          BY DEF IsSeq
        <5>2. \A n \in 1 .. Len(q) : Push(e, q)[n + 1] = q[n]
          BY <5>1, AnyPushed
        <5> QED BY <5>2, Zenon
      <4> QED BY <3>2, <4>1, <4>2, Zenon
    <3>4. Len(s) = (c + 1) + Len(q)
      BY <2>7, <3>3
    <3>5. ASSUME NEW x \in 1 .. Len(q) PROVE s[(c + 1) + x] = q[x]
      <4>1. x + 1 \in 1 .. Len(p) /\ c + (x + 1) = (c + 1) + x
        BY <3>3
      <4>2. s[c + (x + 1)] = p[x + 1]
        BY <2>7, <4>1
      <4> QED BY <3>3, <4>1, <4>2
    <3>6. ASSUME NEW x \in 1 .. c + 1 PROVE s[x] # -1
      <4>1. 1 \in 1 .. Len(p)
        BY <3>3
      <4>2. s[c + 1] = e
        BY <2>7, <3>3, <4>1
      <4>3. x = c + 1 \/ x \in 1 .. c
        OBVIOUS
      <4> QED BY <2>7, <3>2, <4>2, <4>3
    <3>7. OnTop(I, g, k)
      <4>1. HowMany(I, k) \in Nat /\ Len(g[1]) = HowMany(I, k) + Len(g[k + 1])
        BY <2>6, <3>1, <3>4, SMTT(30)
      <4>2. \A x \in 1 .. Len(g[k + 1]) : g[1][HowMany(I, k) + x] = g[k + 1][x]
        BY <2>6, <3>1, <3>5
      <4>3. \A x \in 1 .. HowMany(I, k) : g[1][x] # -1
        BY <2>6, <3>1, <3>6
      <4> QED BY <4>1, <4>2, <4>3, Zenon DEF OnTop
    <3> QED BY <2>2, <3>7
  <2>10. CASE k \notin I
    <3>1. HowMany(I, k) = c
      BY <1>2, <2>4, <2>6, <2>10 DEF One
    <3>2. p = q
      BY <2>8, <2>10
    <3>3. OnTop(I, g, k)
      BY <2>6, <2>7, <3>1, <3>2 DEF OnTop
    <3> QED BY <2>2, <3>3
  <2> QED BY <2>9, <2>10
<1> QED BY <1>3, Zenon

\* The fors at the places of a function, and those on the stack.
LEMMA StackFollows ==
  ASSUME NEW j \in Nat, NEW I \in SUBSET (1 .. j), NEW g, NEW o, StackedOn(j, I, g, o),
         NEW i \in I
  PROVE  g[1][HowMany(I, i)] = o[i] /\ HowMany(I, i) \in 1 .. HowMany(I, j)
<1>1. PICK k \in 0 .. j - 1 : i = k + 1
  <2>1. i - 1 \in 0 .. j - 1 /\ i = (i - 1) + 1
    OBVIOUS
  <2> QED BY <2>1
<1>2. OnTop(I, g, k)
  <2>1. k \in 0 .. j
    OBVIOUS
  <2> QED BY <2>1, StackedUp
<1>3. PICK c \in Nat : c = HowMany(I, k) /\ HowMany(I, i) = c + 1
  <2>1. HowMany(I, k) \in Nat /\ HowMany(I, k + 1) = HowMany(I, k) + One(k + 1 \in I)
    BY CountedNext DEF HowMany
  <2> QED BY <1>1, <2>1 DEF One
<1>4. PICK p \in Seq(Int), e \in Int : p = g[i + 1] /\ e = o[i] /\ g[k + 1] = Push(e, p)
  <2>1. i \in 1 .. j /\ i + 1 \in 1 .. j + 1
    OBVIOUS
  <2>2. o[i] \in Nat /\ g[i] = Push(o[i], g[i + 1])
    BY <2>1 DEF StackedOn
  <2>3. g[i + 1] \in Seq(Int)
    BY <2>1 DEF StackedOn
  <2>4. o[i] \in Int
    BY <2>2
  <2> QED BY <1>1, <2>2, <2>3, <2>4, Zenon
<1>5. Len(Push(e, p)) = Len(p) + 1 /\ Push(e, p)[1] = e
  BY Pushed, ZenonT(40)
<1>6. g[1][c + 1] = e
  <2>1. 1 \in 1 .. Len(Push(e, p))
    BY <1>5
  <2> QED BY <1>2, <1>3, <1>4, <1>5, <2>1 DEF OnTop
<1>7. c + 1 <= HowMany(I, j)
  <2>1. I \cap (1 .. i) \subseteq I \cap (1 .. j) /\ IsFiniteSet(I \cap (1 .. j))
    <3>1. IsFiniteSet(1 .. j)
      BY FS_Interval
    <3>2. IsFiniteSet(I \cap (1 .. j))
      BY <3>1, FS_Subset
    <3> QED BY <3>2
  <2>2. Cardinality(I \cap (1 .. i)) <= Cardinality(I \cap (1 .. j))
    BY <2>1, FS_Subset
  <2> QED BY <1>3, <2>2 DEF HowMany
<1>8. HowMany(I, j) \in Nat
  <2>1. j \in 0 .. j
    OBVIOUS
  <2> QED BY <2>1, StackedUp DEF OnTop
<1> QED BY <1>3, <1>4, <1>6, <1>7, <1>8

\* Between statements no call is about to be entered, and no for repeated.
LEMMA StageBetween ==
  ASSUME IInv, LoopInv, BetweenStatements
  PROVE  \E U, a : /\ Situation(U, a) /\ for_stack = a.l
                   /\ TypesOf(function_state, function_state_stack) = a.f
<1>1. /\ Running
      /\ parse = <<>> \/ (parse # <<>> /\ Head(parse).sym \in {"statement", "statement_list"})
  BY IInvParts DEF BetweenStatements
<1>2. ASSUME NEW a, RestFits(a), ~ Asking(a, values), ~ Again(a, tokens)
      PROVE  for_stack = a.l /\ TypesOf(function_state, function_state_stack) = a.f
  BY <1>2, Zenon DEF RestFits, FunctionsFit, ForsFit
<1>3. CASE parse = <<>>
  <2>1. PICK U, a : Course(U, a, parse, suspended) /\ FramesFit(U, suspended) /\ Fits(a)
    BY <1>1, LoopAt
  <2>2. a = Floor(U) /\ a \in Stage /\ U \in Seq(Stage)
    BY <1>3, <2>1, WayEmpty DEF Course
  <2>3. Plain(a)
    BY <2>2, FloorType
  <2>4. ~ Asking(a, values) /\ ~ Again(a, tokens)
    BY <2>3 DEF Plain, Asking, Again
  <2>5. Situation(U, a)
    BY <2>1, <2>2, Zenon DEF Situation, Fits, FlowNow
  <2> QED BY <1>2, <2>4, <2>5 DEF Situation
<1>4. CASE parse # <<>> /\ Head(parse).sym \in {"statement", "statement_list"}
  <2>1. PICK U, a, b : Situation(U, a) /\ b \in Stage /\ Takes(Head(parse).sym, Tok, a, b)
    BY <1>1, <1>4, SituationAt, Zenon
  <2>2. Head(parse).sym \in Nonterminals /\ Head(parse).sym # "for_iterations"
    BY <1>4 DEF Nonterminals
  <2>3. \/ Plain(a) \/ a.m \in {"entered", "skipped", "reading", "calling", "closed"}
    <3>1. PICK x, t : x \in Nonterminals /\ x = Head(parse).sym /\ t = Tok
      BY <2>2
    <3>2. a \in Stage /\ Takes(x, t, a, b)
      BY <2>1, <3>1 DEF Situation
    <3> QED BY <2>2, <3>1, <3>2, RuleStages, Zenon
  <2>4. ~ Asking(a, values) /\ ~ Again(a, tokens)
    BY <2>3 DEF Plain, Asking, Again
  <2> QED BY <1>2, <2>1, <2>4 DEF Situation
<1> QED BY <1>1, <1>3, <1>4

\* The symbols of the function that is executed, up to the end of its call.
LEMMA CurrentSymbols ==
  ASSUME NEW I, parse \in Seq(I)
  PROVE  \E j \in 0 .. Len(parse) :
           /\ \A i \in 1 .. j : parse[i].sym # "cs_functioncall_end"
           /\ \/ j = Len(parse) /\ DOMAIN Current = 1 .. j
              \/ /\ j + 1 \in Where(parse, {"cs_functioncall_end"})
                 /\ DOMAIN Current = 1 .. j + 1
                 /\ Current[j + 1].sym = "cs_functioncall_end"
           /\ \A i \in 1 .. j : Current[i] = parse[i]
<1>1. PICK n \in Nat : n = Len(parse) /\ DOMAIN parse = 1 .. n
  OBVIOUS
<1>2. CASE Calls = {}
  <2>1. Current = parse
    BY <1>2 DEF Current
  <2>2. \A i \in 1 .. n : parse[i].sym # "cs_functioncall_end"
    BY <1>1, <1>2 DEF Calls
  <2>3. n \in 0 .. Len(parse)
    BY <1>1
  <2> QED BY <1>1, <2>1, <2>2, <2>3
<1>3. CASE Calls # {}
  <2> DEFINE c == CHOOSE i \in Calls : \A k \in Calls : i <= k
  <2>1. Current = SubSeq(parse, 1, c)
    BY <1>3 DEF Current
  <2>2. c \in Calls /\ \A k \in Calls : c <= k
    <3>1. Calls \in SUBSET Nat
      BY <1>1 DEF Calls
    <3>2. \E i \in Calls : \A k \in Calls : i <= k
      BY <1>3, <3>1, Least
    <3> QED BY <3>2, Zenon
  <2> HIDE DEF c
  <2>3. c \in 1 .. n /\ parse[c].sym = "cs_functioncall_end"
    BY <1>1, <2>2 DEF Calls
  <2>4. PICK j \in 0 .. n : j + 1 = c
    <3>1. c - 1 \in 0 .. n /\ (c - 1) + 1 = c
      BY <2>3
    <3> QED BY <3>1
  <2>5. DOMAIN Current = 1 .. j + 1 /\ \A i \in 1 .. j + 1 : Current[i] = parse[i]
    BY <1>1, <2>1, <2>3, <2>4
  <2>6. ASSUME NEW i \in 1 .. j PROVE parse[i].sym # "cs_functioncall_end"
    <3>1. i \in DOMAIN parse /\ ~ (c <= i)
      BY <1>1, <2>3, <2>4
    <3> QED BY <2>2, <3>1 DEF Calls
  <2>7. j + 1 \in Where(parse, {"cs_functioncall_end"})
        /\ Current[j + 1].sym = "cs_functioncall_end"
    <3>1. j + 1 \in DOMAIN parse /\ j + 1 \in 1 .. j + 1
      BY <1>1, <2>3, <2>4
    <3> QED BY <2>3, <2>4, <2>5, <3>1 DEF Where
  <2>8. j \in 0 .. Len(parse) /\ \A i \in 1 .. j : i \in 1 .. j + 1
    BY <1>1
  <2> QED BY <2>5, <2>6, <2>7, <2>8
<1> QED BY <1>2, <1>3

\* The fors of the function that is executed, up to the mark of its call.
LEMMA CurrentStack ==
  ASSUME NEW s \in Seq(Int), s = for_stack, NEW c \in Nat, c <= Len(s),
         \A x \in 1 .. c : s[x] # -1, c = Len(s) \/ s[c + 1] = -1
  PROVE  Len(CurrentFors) = c /\ \A x \in 1 .. c : CurrentFors[x] = s[x]
<1>1. PICK n \in Nat : n = Len(s) /\ DOMAIN s = 1 .. n
  OBVIOUS
<1>2. CASE c = n
  <2>1. Marks = {}
    BY <1>1, <1>2 DEF Marks
  <2> QED BY <1>1, <1>2, <2>1 DEF CurrentFors
<1>3. CASE c # n
  <2>1. c + 1 \in 1 .. n /\ s[c + 1] = -1
    BY <1>1, <1>3
  <2>2. c + 1 \in Marks
    BY <1>1, <2>1 DEF Marks
  <2>3. ASSUME NEW i \in Marks PROVE c + 1 <= i
    <3>1. i \in 1 .. n /\ s[i] = -1
      BY <1>1 DEF Marks
    <3>2. i \notin 1 .. c
      BY <3>1
    <3> QED BY <3>1, <3>2
  <2> DEFINE m == CHOOSE i \in Marks : \A j \in Marks : i <= j
  <2>4. m \in Marks /\ \A j \in Marks : m <= j
    <3>1. \E i \in Marks : \A j \in Marks : i <= j
      BY <2>2, <2>3
    <3> QED BY <3>1, Zenon
  <2>5. CurrentFors = SubSeq(s, 1, m - 1)
    BY <2>2 DEF CurrentFors
  <2> HIDE DEF m
  <2>6. m = c + 1
    <3>1. m <= c + 1 /\ c + 1 <= m /\ m \in 1 .. n
      BY <1>1, <2>2, <2>3, <2>4 DEF Marks
    <3> QED BY <3>1
  <2>7. CurrentFors = SubSeq(s, 1, c)
    BY <2>5, <2>6
  <2> QED BY <1>1, <2>7
<1> QED BY <1>2, <1>3

\* Along the way of a function, for_stack gives the fors that are iterated.
LEMMA WayStacks ==
  ASSUME NEW I, parse \in Seq(I), NEW h, NEW a, NEW z, IsWay(h, parse, a, z),
         NEW j \in 0 .. Len(parse), \A i \in 1 .. j : parse[i].sym # "cs_functioncall_end"
  PROVE  LET iterated == {i \in 1 .. j : Iterates(parse[i].sym, parse[i].tok)}
             g == [i \in 1 .. j + 1 |-> h[i].l]
             o == [i \in 1 .. j |-> parse[i].tok.offset]
         IN  StackedOn(j, iterated, g, o)
<1> DEFINE It == {i \in 1 .. j : Iterates(parse[i].sym, parse[i].tok)}
           g == [i \in 1 .. j + 1 |-> h[i].l]
           o == [i \in 1 .. j |-> parse[i].tok.offset]
<1>1. PICK n \in Nat : n = Len(parse)
  OBVIOUS
<1>2. \A i \in 1 .. n + 1 : h[i] \in Stage /\ h[i].l \in Seq(Int)
  BY <1>1, StageParts DEF IsWay
<1>3. g \in [1 .. j + 1 -> Seq(Int)]
  BY <1>1, <1>2
<1>4. ASSUME NEW i \in 1 .. j
      PROVE  IF i \in It THEN o[i] \in Nat /\ g[i] = Push(o[i], g[i + 1]) ELSE g[i] = g[i + 1]
  <2>1. /\ i \in 1 .. n /\ i \in 1 .. n + 1 /\ i + 1 \in 1 .. n + 1
        /\ i \in 1 .. j + 1 /\ i + 1 \in 1 .. j + 1
    BY <1>1
  <2>2. g[i] = h[i].l /\ g[i + 1] = h[i + 1].l /\ o[i] = parse[i].tok.offset
    BY <2>1
  <2>3. i \in It <=> Iterates(parse[i].sym, parse[i].tok)
    OBVIOUS
  <2> HIDE DEF It, g, o
  <2>4. PICK x, t, b, d : /\ x = parse[i].sym /\ t = parse[i].tok /\ b = h[i] /\ d = h[i + 1]
    OBVIOUS
  <2>5. b \in Stage /\ d \in Stage /\ Takes(x, t, b, d) /\ x # "cs_functioncall_end"
    BY <1>1, <1>2, <2>1, <2>4 DEF IsWay
  <2>6. \/ d.l = b.l /\ ~ Iterates(x, t)
        \/ Iterates(x, t) /\ t.offset \in Nat /\ b.l = Push(t.offset, d.l)
    BY <2>5, TakesFors, Zenon
  <2> QED BY <2>2, <2>3, <2>4, <2>6, Zenon
<1> HIDE DEF It, g, o
<1>5. StackedOn(j, It, g, o)
  BY <1>3, <1>4, Zenon DEF StackedOn
<1> QED BY <1>5, Zenon DEF It, g, o

\* The fors that ForStackFollowsLoops is about.
LEMMA LoopsFollow ==
  ASSUME NEW I, parse \in Seq(I), NEW h, NEW a, NEW z, IsWay(h, parse, a, z), for_stack = a.l,
         Drops(h, parse) = Where(parse, {"cs_functioncall_end"}),
         z.l = <<>> \/ z.l[1] = -1
  PROVE  LET iterated == {i \in DOMAIN Current : Current[i].sym = "for_post_statement"
                                                 /\ Current[i].tok.type = "CONTINUED_FOR"}
         IN  /\ Len(CurrentFors) = Cardinality(iterated)
             /\ \A i \in iterated :
                  Current[i].tok.offset = CurrentFors[Cardinality({j \in iterated : j <= i})]
<1>1. PICK n \in Nat : n = Len(parse) /\ DOMAIN parse = 1 .. n
  OBVIOUS
<1>2. PICK j \in 0 .. n :
           /\ \A i \in 1 .. j : parse[i].sym # "cs_functioncall_end"
           /\ \/ j = n /\ DOMAIN Current = 1 .. j
              \/ /\ j + 1 \in Where(parse, {"cs_functioncall_end"})
                 /\ DOMAIN Current = 1 .. j + 1
                 /\ Current[j + 1].sym = "cs_functioncall_end"
           /\ \A i \in 1 .. j : Current[i] = parse[i]
  BY <1>1, CurrentSymbols
<1>3. PICK It, g, o : /\ It = {i \in 1 .. j : Iterates(parse[i].sym, parse[i].tok)}
                      /\ g = [i \in 1 .. j + 1 |-> h[i].l]
                      /\ o = [i \in 1 .. j |-> parse[i].tok.offset]
  OBVIOUS
<1>4. StackedOn(j, It, g, o) /\ It \in SUBSET (1 .. j) /\ j \in Nat
  BY <1>1, <1>2, <1>3, WayStacks, SMTT(30)
<1>5. {i \in DOMAIN Current : Current[i].sym = "for_post_statement"
                              /\ Current[i].tok.type = "CONTINUED_FOR"} = It
  <2>1. ASSUME NEW i \in DOMAIN Current, Current[i].sym = "for_post_statement"
        PROVE  i \in 1 .. j
    <3>1. i \in 1 .. j + 1 /\ (i = j + 1 => i \in 1 .. j)
      BY <1>2, <2>1
    <3> QED BY <3>1
  <2>2. \A i \in 1 .. j : i \in DOMAIN Current
    BY <1>2
  <2>3. \A i \in 1 .. j : Current[i] = parse[i]
    BY <1>2
  <2> QED BY <1>3, <2>1, <2>2, <2>3 DEF Iterates
<1>6. PICK s \in Seq(Int) : s = for_stack /\ s = g[1] /\ g[1] \in Seq(Int)
  <2>1. 1 \in 1 .. j + 1
    OBVIOUS
  <2>2. g[1] = h[1].l /\ g[1] \in Seq(Int)
    BY <1>3, <1>4, <2>1 DEF StackedOn
  <2>3. h[1] = a
    BY DEF IsWay
  <2> QED BY <2>2, <2>3
<1>7. OnTop(It, g, j)
  <2>1. j \in 0 .. j
    OBVIOUS
  <2> QED BY <1>4, <2>1, StackedUp
<1>8. PICK c \in Nat, q \in Seq(Int) : c = HowMany(It, j) /\ q = g[j + 1]
  <2>1. g[j + 1] \in Seq(Int)
    <3>1. j + 1 \in 1 .. j + 1
      OBVIOUS
    <3> QED BY <1>4, <3>1 DEF StackedOn
  <2> QED BY <1>7, <2>1 DEF OnTop
<1>9. /\ Len(s) = c + Len(q) /\ \A x \in 1 .. Len(q) : s[c + x] = q[x]
      /\ \A x \in 1 .. c : s[x] # -1
  BY <1>6, <1>7, <1>8 DEF OnTop
<1>10. q = <<>> \/ q[1] = -1
  <2>1. q = h[j + 1].l
    <3>1. j + 1 \in 1 .. j + 1
      OBVIOUS
    <3> QED BY <1>3, <1>8, <3>1
  <2>2. CASE j = n
    <3>1. h[n + 1] = z
      BY <1>1 DEF IsWay
    <3> QED BY <2>1, <2>2, <3>1
  <2>3. CASE j + 1 \in Where(parse, {"cs_functioncall_end"})
    <3>1. j + 1 \in 1 .. n /\ h[j + 1].f # h[(j + 1) + 1].f
      BY <1>1, <2>3 DEF Drops
    <3>2. PICK x, t, b, d : /\ x = parse[j + 1].sym /\ t = parse[j + 1].tok /\ b = h[j + 1]
                            /\ d = h[(j + 1) + 1]
      OBVIOUS
    <3>3. Takes(x, t, b, d)
      BY <1>1, <3>1, <3>2 DEF IsWay
    <3>4. b \in Stage /\ d \in Stage
      <4>1. j + 1 \in 1 .. Len(parse) + 1 /\ (j + 1) + 1 \in 1 .. Len(parse) + 1
        BY <1>1, <3>1
      <4> QED BY <3>2, <4>1 DEF IsWay
    <3>5. b.f # d.f
      BY <3>1, <3>2
    <3>6. b.l = Push(-1, d.l)
      BY <3>3, <3>4, <3>5, TakesFors, Zenon
    <3>7. PICK r \in Seq(Int) : r = d.l
      BY <3>4, StageParts
    <3>8. Push(-1, r)[1] = -1
      <4>1. IsSeq(r)
        BY DEF IsSeq
      <4> QED BY <4>1, AnyPushed, Zenon
    <3> QED BY <2>1, <3>2, <3>6, <3>7, <3>8
  <2> QED BY <1>2, <2>2, <2>3
<1>11. c <= Len(s) /\ (c = Len(s) \/ s[c + 1] = -1)
  <2>1. PICK l \in Nat : l = Len(q)
    OBVIOUS
  <2>2. CASE q = <<>>
    BY <1>9, <2>1, <2>2
  <2>3. CASE q # <<>> /\ q[1] = -1
    <3>1. 1 \in 1 .. Len(q)
      BY <2>3
    <3>2. s[c + 1] = -1
      BY <1>9, <2>3, <3>1
    <3> QED BY <1>9, <2>1, <3>2
  <2> QED BY <1>10, <2>2, <2>3
<1>12. Len(CurrentFors) = c /\ \A x \in 1 .. c : CurrentFors[x] = s[x]
  <2>1. \A x \in 1 .. c : s[x] # -1
    BY <1>9
  <2>2. s = for_stack
    BY <1>6
  <2> QED BY <1>11, <2>1, <2>2, CurrentStack
<1>13. c = Cardinality(It)
  <2>1. It \cap (1 .. j) = It
    BY <1>4
  <2> QED BY <1>8, <2>1 DEF HowMany
<1>14. ASSUME NEW i \in It
       PROVE  Current[i].tok.offset = CurrentFors[Cardinality({k \in It : k <= i})]
  <2>1. g[1][HowMany(It, i)] = o[i] /\ HowMany(It, i) \in 1 .. HowMany(It, j)
    BY <1>4, StackFollows
  <2>2. {k \in It : k <= i} = It \cap (1 .. i)
    BY <1>4
  <2>3. i \in 1 .. j /\ o[i] = parse[i].tok.offset /\ Current[i] = parse[i]
    BY <1>2, <1>3, <1>4
  <2>4. PICK m : m = HowMany(It, i) /\ m \in 1 .. c /\ s[m] = o[i]
    BY <1>6, <1>8, <2>1
  <2>5. CurrentFors[m] = o[i]
    BY <1>12, <2>4
  <2>6. Cardinality({k \in It : k <= i}) = m
    BY <2>2, <2>4 DEF HowMany
  <2> QED BY <2>3, <2>5, <2>6
<1> QED BY <1>5, <1>12, <1>13, <1>14

\* The types of the functions that were entered are as many as the functions.
LEMMA TypesCounted ==
  ASSUME IInv, NEW f, TypesOf(function_state, function_state_stack) = f
  PROVE  Len(f) = Len(function_state_stack) + 1 /\ Len(function_state_stack) \in Nat
<1>1. PICK st \in Seq(FunctionState) : st = function_state_stack
  BY DEF IInv, FlowInv
<1>2. PICK r : r = [i \in 1 .. Len(st) |-> st[i].type]
  OBVIOUS
<1>3. PICK l \in Nat : l = Len(st)
  OBVIOUS
<1>4. IsSeq(r) /\ Len(r) = l
  <2>1. \A i \in 1 .. l : st[i].type \in FnType
    <3>1. \A i \in 1 .. l : st[i] \in FunctionState
      BY <1>3
    <3>2. \A y \in FunctionState : y.type \in FnType
      BY DEF FunctionState, FnType
    <3> QED BY <3>1, <3>2
  <2>2. r \in Seq(FnType) /\ Len(r) = l
    BY <1>2, <1>3, <2>1
  <2> QED BY <2>2 DEF IsSeq
<1>5. Len(Push(function_state.type, r)) = Len(r) + 1
  BY <1>4, AnyPushed
<1>6. f = Push(function_state.type, r)
  BY <1>1, <1>2 DEF TypesOf
<1> QED BY <1>1, <1>3, <1>4, <1>5, <1>6

\* Between statements, the stage of the parser gives what ForStackFollowsLoops says.
LEMMA ForsCounted ==
  ASSUME IInv, LoopInv
  PROVE  ForStackFollowsLoops
<1> SUFFICES ASSUME BetweenStatements, CallsEntered
             PROVE  LET iterated == {i \in DOMAIN Current :
                                       Current[i].sym = "for_post_statement"
                                       /\ Current[i].tok.type = "CONTINUED_FOR"}
                    IN  /\ Len(CurrentFors) = Cardinality(iterated)
                        /\ \A i \in iterated : Current[i].tok.offset
                             = CurrentFors[Cardinality({j \in iterated : j <= i})]
  BY Zenon DEF ForStackFollowsLoops
<1>1. PICK U, a : /\ Situation(U, a) /\ for_stack = a.l
                  /\ TypesOf(function_state, function_state_stack) = a.f
  BY StageBetween
<1>2. Course(U, a, parse, suspended) /\ U \in Seq(Stage)
  BY <1>1 DEF Situation, Course
<1>3. InputInv
  BY IInvParts
<1>4. parse \in Seq(Items(TokenOrEOF))
  BY <1>3, InputParts DEF SymbolsOK
<1>5. Len(a.f) = Len(function_state_stack) + 1 /\ Len(function_state_stack) \in Nat
  BY <1>1, TypesCounted
<1>6. PICK h : /\ IsWay(h, parse, a, Floor(U))
               /\ Drops(h, parse) = Where(parse, {"cs_functioncall_end"})
  BY <1>2, <1>3, <1>5, CallsTaken
<1>7. Floor(U).l = <<>> \/ Floor(U).l[1] = -1
  <2>1. CASE U = <<>>
    BY <2>1, OriginParts DEF Floor
  <2>2. CASE U # <<>>
    <3>1. PICK u \in Stage : u = U[1]
      BY <1>2, <2>2
    <3>2. Floor(U).l = Push(-1, u.l)
      BY <2>2, <3>1, BelowParts DEF Floor
    <3>3. PICK r \in Seq(Int) : r = u.l
      BY StageParts
    <3>4. Push(-1, r)[1] = -1
      <4>1. IsSeq(r)
        BY DEF IsSeq
      <4> QED BY <4>1, AnyPushed, Zenon
    <3> QED BY <3>2, <3>3, <3>4
  <2> QED BY <2>1, <2>2
<1>8. PICK z : z = Floor(U)
  OBVIOUS
<1>9. IsWay(h, parse, a, z) /\ (z.l = <<>> \/ z.l[1] = -1)
  BY <1>6, <1>7, <1>8
<1> QED BY <1>1, <1>4, <1>6, <1>9, LoopsFollow, Zenon

\* Between statements the fors on the stack of the engine are those whose statement the
\* parser is in and that are not at their first iteration, in this order from the inside
\* out, for every script, and what is above the last mark belongs to the current function:
\* for_pre_expr1 and for_post_statement tell the first iteration of a for from the others,
\* also if it was left by break or return, if a function that it calls has fors too or is
\* called in its own header, and if it is repeated within call_user_function.
THEOREM ForsFollow == Spec => []ForStackFollowsLoops
BY IInvHolds, LoopInvHolds, ForsCounted, PTL

-----------------------------------------------------------------------------
(* The end of a script *)

\* No action but Accept ends a script as one that ran to its end.
Goes == Running /\ (status' = status \/ status' \in {"died", "parse error"})

LEMMA OthersGo ==
  ASSUME Next
  PROVE  Accept \/ Goes
<1>1. CASE Parser
  <2>1. CASE Shift \/ ShiftOffset \/ Expand
    BY <2>1 DEF Shift, ShiftOffset, Expand, At, world, Goes
  <2>2. CASE ParseError
    BY <2>2 DEF ParseError, Goes
  <2> QED BY <1>1, <2>1, <2>2 DEF Parser
<1>2. CASE IfActions
  BY <1>2 DEF IfActions, cs_start_if, cs_end_if, cs_elseif_start_evaluate, cs_start_elseif,
     cs_start_else, Action, At, world, Goes
<1>3. CASE LoopActions
  BY <1>3 DEF LoopActions, cs_start_while, cs_end_while, cs_start_do_while,
     cs_force_eval_do_while, cs_end_do_while, for_pre_expr1, for_pre_expr2, for_pre_expr3,
     for_pre_statement, for_post_statement, Action, At, world, Goes
<1>4. CASE SwitchActions
  BY <1>4 DEF SwitchActions, cs_switch_start, cs_switch_case_pre, cs_switch_default_pre, Case,
     cs_switch_case_post, cs_switch_end, cs_break_continue, Die, Action, At, world, Goes
<1>5. CASE Operators
  BY <1>5 DEF Operators, evaluate, empty, drop, cs_pre_boolean_or, cs_post_boolean_or,
     cs_pre_boolean_and, cs_post_boolean_and, cs_questionmark_op_pre_expr1,
     cs_questionmark_op_pre_expr2, cs_questionmark_op_post_expr2, SkipIf, Result,
     Action, At, world, Goes
<1>6. CASE Functions
  <2>1. CASE start_function_decleration \/ end_function_decleration
    BY <2>1 DEF start_function_decleration, end_function_decleration, Action, At, world, Goes
  <2>2. CASE restore_token \/ terminate_phpparse \/ cs_return \/ RETURN_TRUE
    BY <2>2 DEF restore_token, terminate_phpparse, cs_return, RETURN_TRUE, Action, At, world,
       Goes
  <2>3. CASE cs_functioncall_pre_variable_passing
    BY <2>3 DEF cs_functioncall_pre_variable_passing, Die, Action, At, world, Goes
  <2>4. CASE cs_functioncall_post_variable_passing \/ cs_functioncall_end
    BY <2>4 DEF cs_functioncall_post_variable_passing, cs_functioncall_end, Action, At, world,
       Goes
  <2>5. CASE call_user_function \/ phpparse_returns
    BY <2>5 DEF call_user_function, phpparse_returns, At, world, Goes
  <2> QED BY <1>6, <2>1, <2>2, <2>3, <2>4, <2>5 DEF Functions
<1> QED BY <1>1, <1>2, <1>3, <1>4, <1>5, <1>6 DEF Next

\* At the end of a script nothing is left of the fors and of the calls.
NothingLeft ==
  status = "done" => Unmarked(tokens) /\ for_stack = <<>> /\ css = <<>>
                     /\ function_state_stack = <<>>

LEMMA NoneIn ==
  ASSUME NEW S, NEW q \in Seq(S), Len(q) = 0
  PROVE  q = <<>>
OBVIOUS

LEMMA AcceptLeaves ==
  ASSUME IInv, LoopInv, Accept
  PROVE  NothingLeft'
<1>1. /\ Running /\ parse = <<>> /\ suspended = <<>> /\ tokens' = tokens
      /\ for_stack' = for_stack /\ css' = css /\ function_state_stack' = function_state_stack
  BY DEF Accept, input, stacks
<1>2. PICK U, a : Course(U, a, parse, suspended) /\ FramesFit(U, suspended) /\ Fits(a)
  BY <1>1, Zenon DEF LoopInv
<1>3. U = <<>>
  <2>1. U \in Seq(Stage) /\ Len(U) = Len(<<>>)
    BY <1>1, <1>2 DEF Course
  <2> QED BY <2>1
<1>4. a = Origin
  <2>1. Way(<<>>, a, Origin)
    BY <1>1, <1>2, <1>3 DEF Course, Floor
  <2> QED BY <2>1, WayEmpty
<1>5. QuietFits(a)
  <2>1. a.m \in QuietMoments
    BY <1>4, OriginParts, PlainQuiet DEF Plain
  <2> QED BY <1>2, <2>1, QuietRest DEF Fits
<1>6. Unmarked(tokens) /\ for_stack = <<>>
  BY <1>4, <1>5, OriginParts DEF QuietFits
<1>7. css = <<>>
  <2>1. PICK q \in Seq(Flag) : q = css
    BY DEF IInv, FlowInv
  <2>2. IsSeq(q)
    BY DEF IsSeq
  <2>3. Len(Push(ExecuteFlag, q)) = Len(Origin.e) + 1
    BY <1>2, <1>4, <2>1 DEF Fits, FlowFits, FlagsFit
  <2>4. Len(Push(ExecuteFlag, q)) = Len(q) + 1 /\ Len(Origin.e) = 0
    BY <2>2, AnyPushed, OriginParts
  <2>5. PICK n \in Nat : n = Len(q)
    OBVIOUS
  <2>6. q = <<>>
    <3>1. n + 1 = 0 + 1
      BY <2>3, <2>4, <2>5, Zenon
    <3>2. n = 0
      BY <3>1
    <3> QED BY <2>5, <3>2, NoneIn, Zenon
  <2> QED BY <2>1, <2>6
<1>8. function_state_stack = <<>>
  <2>1. PICK st \in Seq(FunctionState) : st = function_state_stack
    BY DEF IInv, FlowInv
  <2>2. Len(a.f) = Len(st) + 1 /\ Len(st) \in Nat
    BY <1>5, <2>1, TypesCounted DEF QuietFits
  <2>3. Len(a.f) = 1
    BY <1>4, OriginParts
  <2>4. st = <<>>
    <3>1. PICK n \in Nat : n = Len(st)
      BY <2>2
    <3>2. n + 1 = 1
      BY <2>1, <2>2, <2>3, <3>1, Zenon
    <3>3. n = 0
      BY <3>2
    <3> QED BY <3>1, <3>3, NoneIn, Zenon
  <2> QED BY <2>1, <2>4
<1> QED BY <1>1, <1>6, <1>7, <1>8, Zenon DEF NothingLeft, Unmarked

\* A script that ran to its end has left no for as one that is being iterated and no
\* declaration as one being called, neither in the token cache (TokensRestored) nor on a
\* stack: for_stack, the flags on css and the functions that were entered are gone, however
\* the loops and the functions were left.
THEOREM EndLeavesNothing == Spec => []NothingLeft
<1>1. Init => NothingLeft
  BY DEF Init, NothingLeft
<1>2. IInv /\ LoopInv /\ NothingLeft /\ [Next]_vars => NothingLeft'
  <2>1. ASSUME IInv, LoopInv, Next PROVE NothingLeft'
    <3>1. CASE Goes
      BY <3>1 DEF Goes, Running, NothingLeft
    <3> QED BY <2>1, <3>1, OthersGo, AcceptLeaves
  <2>2. ASSUME NothingLeft, UNCHANGED vars PROVE NothingLeft'
    BY <2>2 DEF vars, input, stacks, world, NothingLeft, Unmarked
  <2> QED BY <2>1, <2>2
<1> QED BY <1>1, <1>2, IInvHolds, LoopInvHolds, PTL DEF Spec
=============================================================================
