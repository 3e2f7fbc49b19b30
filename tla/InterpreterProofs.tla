--------------------------- MODULE InterpreterProofs ---------------------------
(***************************************************************************)
(* Theorems about Interpreter, for every script and every bound: the flags *)
(* agree, and the stacks of the engine always stand as the symbols that    *)
(* the parser has still to recognize will need them.                       *)
(*                                                                         *)
(* InterpreterInvariant has the inductive invariant, IInv.  Each rule of   *)
(* the grammar leads from the height before its symbol to the height       *)
(* behind it (RuleLeads), so that the parser stays on a run when it takes  *)
(* a rule for a symbol.  IInvHolds is the proof that IInv holds; it has a  *)
(* lemma for each action, named for it.                                    *)
(*                                                                         *)
(* The last sections count.  On a run from a height to the bottom, the     *)
(* stacks fall by one at each symbol that leaves a level and rise by one   *)
(* at each that enters one, so that their lengths are the numbers of such  *)
(* symbols that are still to come (StacksCounted), as StacksFollowParser   *)
(* states.                                                                 *)
(***************************************************************************)
EXTENDS InterpreterInvariant, FiniteSetTheorems, WellFoundedInduction, TLAPS

-----------------------------------------------------------------------------
(* Stacks *)

\* A stack on which something was pushed: php3_stack_push.
LEMMA Pushed ==
  ASSUME NEW S, NEW x \in S, NEW s \in Seq(S)
  PROVE  /\ Push(x, s) \in Seq(S) /\ Len(Push(x, s)) = Len(s) + 1
         /\ Push(x, s)[1] = x /\ Head(Push(x, s)) = x /\ Tail(Push(x, s)) = s
         /\ \A k \in 1 .. Len(s) : Push(x, s)[k + 1] = s[k]
         /\ Push(x, s) # <<>> /\ Pop(Push(x, s), 1) = s
<1>1. /\ Push(x, s) \in Seq(S) /\ Len(Push(x, s)) = Len(s) + 1 /\ Push(x, s)[1] = x
      /\ \A k \in 1 .. Len(s) : Push(x, s)[k + 1] = s[k]
  BY DEF Push
<1>2. Push(x, s) # <<>> /\ Head(Push(x, s)) = x
  BY <1>1
<1>3. Tail(Push(x, s)) = s
  BY DEF Push
<1>4. Pop(Push(x, s), 1) = s
  <2> DEFINE p == Push(x, s)
  <2>1. PICK n \in Nat : n = Len(s)
    OBVIOUS
  <2>2. SubSeq(p, 2, n + 1) \in Seq(S) /\ Len(SubSeq(p, 2, n + 1)) = n
        /\ \A k \in 1 .. n : SubSeq(p, 2, n + 1)[k] = p[k + 1]
    BY <1>1, <2>1
  <2> HIDE DEF p
  <2>3. \A k \in 1 .. n : SubSeq(p, 2, n + 1)[k] = s[k]
    BY <1>1, <2>1, <2>2 DEF p
  <2>4. SubSeq(p, 2, n + 1) = s
    BY <2>1, <2>2, <2>3
  <2> QED BY <1>1, <2>1, <2>4 DEF Pop, p
<1> QED BY <1>1, <1>2, <1>3, <1>4

\* A stack without its n top elements.
LEMMA Popped ==
  ASSUME NEW S, NEW s \in Seq(S), NEW n \in 0 .. Len(s)
  PROVE  /\ Pop(s, n) \in Seq(S) /\ Len(Pop(s, n)) = Len(s) - n
         /\ \A k \in 1 .. Len(s) - n : Pop(s, n)[k] = s[k + n]
BY DEF Pop

LEMMA PopTail ==
  ASSUME NEW S, NEW s \in Seq(S), s # <<>>
  PROVE  Pop(s, 1) = Tail(s) /\ s = Push(s[1], Tail(s)) /\ s[1] \in S /\ Head(s) = s[1]
         /\ Tail(s) \in Seq(S) /\ Len(Tail(s)) = Len(s) - 1 /\ Len(s) >= 1
<1>1. s[1] \in S /\ Tail(s) \in Seq(S) /\ Len(Tail(s)) = Len(s) - 1 /\ Len(s) >= 1
      /\ Head(s) = s[1] /\ \A k \in 1 .. Len(s) - 1 : Tail(s)[k] = s[k + 1]
  OBVIOUS
<1>2. Pop(s, 1) = Tail(s)
  <2>1. Pop(s, 1) \in Seq(S) /\ Len(Pop(s, 1)) = Len(s) - 1
        /\ \A k \in 1 .. Len(s) - 1 : Pop(s, 1)[k] = s[k + 1]
    <3>1. 1 \in 0 .. Len(s)
      BY <1>1
    <3> QED BY <3>1, Popped
  <2> QED BY <1>1, <2>1
<1>3. s = Push(s[1], Tail(s))
  BY <1>1 DEF Push
<1> QED BY <1>1, <1>2, <1>3

LEMMA PopPop ==
  ASSUME NEW S, NEW s \in Seq(S), NEW n \in Nat, NEW m \in Nat, n + m <= Len(s)
  PROVE  Pop(Pop(s, n), m) = Pop(s, n + m)
<1>1. PICK l \in Nat : l = Len(s)
  OBVIOUS
<1>2. n \in 0 .. Len(s) /\ n + m \in 0 .. Len(s) /\ l - (n + m) = (l - n) - m
  BY <1>1
<1>3. PICK r \in Seq(S) : /\ r = Pop(s, n + m) /\ Len(r) = l - (n + m)
                          /\ \A q \in 1 .. l - (n + m) : r[q] = s[q + (n + m)]
  <2>1. /\ Pop(s, n + m) \in Seq(S) /\ Len(Pop(s, n + m)) = l - (n + m)
        /\ \A q \in 1 .. l - (n + m) : Pop(s, n + m)[q] = s[q + (n + m)]
    BY <1>1, <1>2, Popped
  <2> QED BY <2>1, Zenon
<1>4. PICK t \in Seq(S) : /\ t = Pop(s, n) /\ Len(t) = l - n
                          /\ \A q \in 1 .. l - n : t[q] = s[q + n]
  <2>1. /\ Pop(s, n) \in Seq(S) /\ Len(Pop(s, n)) = l - n
        /\ \A q \in 1 .. l - n : Pop(s, n)[q] = s[q + n]
    BY <1>1, <1>2, Popped
  <2> QED BY <2>1, Zenon
<1>5. PICK u \in Seq(S) : /\ u = Pop(t, m) /\ Len(u) = (l - n) - m
                          /\ \A q \in 1 .. (l - n) - m : u[q] = t[q + m]
  <2>1. m \in 0 .. Len(t)
    BY <1>1, <1>4
  <2>2. /\ Pop(t, m) \in Seq(S) /\ Len(Pop(t, m)) = (l - n) - m
        /\ \A q \in 1 .. (l - n) - m : Pop(t, m)[q] = t[q + m]
    BY <1>4, <2>1, Popped, ZenonT(60)
  <2> QED BY <2>2, Zenon
<1>6. ASSUME NEW q \in 1 .. (l - n) - m PROVE u[q] = r[q]
  <2>1. q + m \in 1 .. l - n /\ (q + m) + n = q + (n + m) /\ q \in 1 .. l - (n + m)
    BY <1>1
  <2> QED BY <1>3, <1>4, <1>5, <2>1
<1>7. PICK k \in Nat : k = (l - n) - m /\ Len(u) = k /\ Len(r) = k
  BY <1>1, <1>2, <1>3, <1>5
<1>8. u = r
  <2>1. \A q \in 1 .. k : u[q] = r[q]
    BY <1>6, <1>7
  <2>2. u \in Seq(S) /\ r \in Seq(S) /\ Len(u) = k /\ Len(r) = k
    BY <1>3, <1>5, <1>7
  <2> QED BY <2>1, <2>2
<1> QED BY <1>3, <1>4, <1>5, <1>8

LEMMA PopMore ==
  ASSUME NEW S, NEW s \in Seq(S), NEW n \in 0 .. Len(s) - 1
  PROVE  Pop(s, n + 1) = Pop(Pop(s, 1), n)
<1>1. 1 \in Nat /\ n \in Nat /\ 1 + n <= Len(s) /\ 1 + n = n + 1
  OBVIOUS
<1>2. Pop(Pop(s, 1), n) = Pop(s, 1 + n)
  BY <1>1, PopPop, Zenon
<1> QED BY <1>1, <1>2

LEMMA PopNone ==
  ASSUME NEW S, NEW s \in Seq(S)
  PROVE  Pop(s, 0) = s
<1>1. Pop(s, 0) \in Seq(S) /\ Len(Pop(s, 0)) = Len(s) - 0
      /\ \A k \in 1 .. Len(s) - 0 : Pop(s, 0)[k] = s[k + 0]
  BY Popped
<1> QED BY <1>1

\* No symbols lead nowhere.
LEMMA RunsEmpty ==
  ASSUME NEW a, NEW z, Runs(<<>>, a, z)
  PROVE  a = z /\ a \in Height
BY DEF Runs, IsRun

\* The first symbol of a run has its effect, and the others run on from there.
LEMMA RunsFirst ==
  ASSUME NEW I, NEW p \in Seq(I), p # <<>>, NEW a, NEW z, Runs(p, a, z)
  PROVE  \E b \in Height : Effect(Head(p).sym, a, b) /\ Runs(Tail(p), b, z)
<1>1. PICK h : IsRun(h, p, a, z)
  BY SMTT(40) DEF Runs
<1>2. PICK n \in Nat : Len(p) = n + 1
  <2>1. Len(p) \in Nat /\ Len(p) # 0
    OBVIOUS
  <2>2. Len(p) - 1 \in Nat /\ Len(p) = (Len(p) - 1) + 1
    BY <2>1
  <2> QED BY <2>2
<1>3. Tail(p) \in Seq(I) /\ Len(Tail(p)) = n /\ Head(p) = p[1]
      /\ \A k \in 1 .. n : Tail(p)[k] = p[k + 1]
  BY <1>2
<1> DEFINE g == [k \in 1 .. n + 1 |-> h[k + 1]]
<1>4. g \in [1 .. n + 1 -> Height] /\ g[1] = h[2] /\ g[n + 1] = z
  BY <1>1, <1>2 DEF IsRun
<1>5. \A k \in 1 .. n : Effect(Tail(p)[k].sym, g[k], g[k + 1])
  <2> SUFFICES ASSUME NEW k \in 1 .. n PROVE Effect(Tail(p)[k].sym, g[k], g[k + 1])
    OBVIOUS
  <2>1. k + 1 \in 1 .. Len(p) /\ g[k] = h[k + 1] /\ g[k + 1] = h[(k + 1) + 1]
    BY <1>2
  <2> QED BY <1>1, <1>3, <2>1 DEF IsRun
<1>6. IsRun(g, Tail(p), h[2], z)
  BY <1>3, <1>4, <1>5 DEF IsRun
<1>7. Effect(p[1].sym, a, h[2]) /\ h[2] \in Height
  <2>1. 1 \in 1 .. Len(p) /\ 1 + 1 = 2 /\ 2 \in 1 .. Len(p) + 1
    BY <1>2
  <2> QED BY <1>1, <2>1 DEF IsRun
<1> QED BY <1>3, <1>6, <1>7 DEF Runs

\* Runs follow each other.
LEMMA RunsOn ==
  ASSUME NEW I, NEW p \in Seq(I), NEW q \in Seq(I), NEW a, NEW b, NEW z,
         Runs(p, a, b), Runs(q, b, z)
  PROVE  Runs(p \o q, a, z)
<1>1. PICK h : IsRun(h, p, a, b)
  BY DEF Runs
<1>2. PICK g : IsRun(g, q, b, z)
  BY DEF Runs
<1>3. PICK n \in Nat, l \in Nat : n = Len(p) /\ l = Len(q)
  OBVIOUS
<1>4. p \o q \in Seq(I) /\ Len(p \o q) = n + l
      /\ \A k \in 1 .. n + l : (p \o q)[k] = IF k <= n THEN p[k] ELSE q[k - n]
  BY <1>3
<1> DEFINE f == [k \in 1 .. n + l + 1 |-> IF k <= n THEN h[k] ELSE g[k - n]]
<1>5. f \in [1 .. n + l + 1 -> Height]
  <2> SUFFICES ASSUME NEW k \in 1 .. n + l + 1 PROVE f[k] \in Height
    BY Zenon
  <2>1. CASE k <= n
    <3>1. k \in 1 .. Len(p) + 1
      BY <1>3, <2>1
    <3> QED BY <1>1, <2>1, <3>1 DEF IsRun
  <2>2. CASE ~ (k <= n)
    <3>1. k - n \in 1 .. Len(q) + 1
      BY <1>3, <2>2
    <3> QED BY <1>2, <2>2, <3>1 DEF IsRun
  <2> QED BY <2>1, <2>2
<1>6. \A k \in 1 .. n : f[k] = h[k] /\ f[k + 1] = h[k + 1]
  <2> SUFFICES ASSUME NEW k \in 1 .. n PROVE f[k] = h[k] /\ f[k + 1] = h[k + 1]
    OBVIOUS
  <2>1. f[k] = h[k]
    OBVIOUS
  <2>2. CASE k + 1 <= n
    BY <2>1, <2>2
  <2>3. CASE k = n
    <3>1. h[n + 1] = b /\ g[1] = b
      BY <1>1, <1>2, <1>3 DEF IsRun
    <3>2. f[n + 1] = g[(n + 1) - n] /\ (n + 1) - n = 1
      OBVIOUS
    <3> QED BY <2>1, <2>3, <3>1, <3>2
  <2> QED BY <2>2, <2>3
<1>7. \A k \in 1 .. l + 1 : f[n + k] = g[k]
  <2> SUFFICES ASSUME NEW k \in 1 .. l + 1 PROVE f[n + k] = g[k]
    OBVIOUS
  <2>1. n + k \in 1 .. n + l + 1 /\ ~ (n + k <= n) /\ (n + k) - n = k
    OBVIOUS
  <2> QED BY <2>1
<1>8. f[1] = a /\ f[n + l + 1] = z
  <2>1. f[n + (l + 1)] = g[l + 1] /\ g[l + 1] = z /\ n + (l + 1) = n + l + 1
    BY <1>2, <1>3, <1>7 DEF IsRun
  <2>2. CASE n = 0
    <3>1. f[n + 1] = g[1] /\ g[1] = b /\ h[n + 1] = b /\ h[1] = a
      BY <1>1, <1>2, <1>3, <1>7 DEF IsRun
    <3> QED BY <2>1, <2>2, <3>1
  <2>3. CASE n # 0
    <3>1. 1 \in 1 .. n /\ h[1] = a
      BY <1>1, <2>3 DEF IsRun
    <3> QED BY <1>6, <2>1, <3>1
  <2> HIDE DEF f
  <2> QED BY <2>2, <2>3
<1> HIDE DEF f
<1>9. \A k \in 1 .. n + l : Effect((p \o q)[k].sym, f[k], f[k + 1])
  <2> SUFFICES ASSUME NEW k \in 1 .. n + l PROVE Effect((p \o q)[k].sym, f[k], f[k + 1])
    OBVIOUS
  <2>1. CASE k <= n
    <3>1. k \in 1 .. n /\ (p \o q)[k] = p[k]
      BY <1>4, <2>1
    <3>2. Effect(p[k].sym, h[k], h[k + 1])
      BY <1>1, <1>3, <3>1 DEF IsRun
    <3> QED BY <1>6, <3>1, <3>2
  <2>2. CASE ~ (k <= n)
    <3>1. k - n \in 1 .. l /\ (p \o q)[k] = q[k - n]
      BY <1>4, <2>2
    <3>2. PICK j \in 1 .. l : j = k - n
      BY <3>1
    <3>3. j \in 1 .. l + 1 /\ j + 1 \in 1 .. l + 1 /\ n + j = k /\ n + (j + 1) = k + 1
      BY <3>2
    <3>4. f[k] = g[j] /\ f[k + 1] = g[j + 1]
      BY <1>7, <3>3
    <3>5. Effect(q[j].sym, g[j], g[j + 1])
      BY <1>2, <1>3 DEF IsRun
    <3> QED BY <3>1, <3>2, <3>4, <3>5
  <2> QED BY <2>1, <2>2
<1>10. IsRun(f, p \o q, a, z)
  BY <1>3, <1>4, <1>5, <1>8, <1>9 DEF IsRun
<1> QED BY <1>10 DEF Runs

-----------------------------------------------------------------------------
(* The rules of the grammar *)

\* Heights between the symbols of a rule.
IsChain(rule, hs) ==
  /\ hs \in [1 .. Len(rule) + 1 -> Height]
  /\ \A k \in 1 .. Len(rule) : Effect(rule[k], hs[k], hs[k + 1])

\* The symbols of a rule do what the symbol does that it is a rule for.
Leads(rule, a, z) ==
  /\ rule \in Seq(Name)
  /\ \E hs : IsChain(rule, hs) /\ hs[1] = a /\ hs[Len(rule) + 1] = z

LEMMA SymbolsRun ==
  ASSUME NEW rule, NEW a, NEW z, NEW t, Leads(rule, a, z)
  PROVE  Runs(Symbols(rule, t), a, z)
<1>1. PICK hs : IsChain(rule, hs) /\ hs[1] = a /\ hs[Len(rule) + 1] = z
  BY DEF Leads
<1>2. rule \in Seq(Name) /\ Len(Symbols(rule, t)) = Len(rule)
      /\ \A k \in 1 .. Len(rule) : Symbols(rule, t)[k].sym = rule[k]
  BY DEF Symbols, Leads
<1>3. IsRun(hs, Symbols(rule, t), a, z)
  BY <1>1, <1>2 DEF IsChain, IsRun
<1> QED BY <1>3 DEF Runs

LEMMA LeadsNowhere ==
  ASSUME NEW a \in Height
  PROVE  Leads(<<>>, a, a)
<1>1. IsChain(<<>>, [k \in 1 .. 1 |-> a])
  BY DEF IsChain
<1> QED BY <1>1 DEF Leads

\* A symbol in front of a rule.
LEMMA LeadsOn ==
  ASSUME NEW x \in Name, NEW rule, NEW a \in Height, NEW b, NEW z,
         Effect(x, a, b), Leads(rule, b, z)
  PROVE  Leads(<<x>> \o rule, a, z)
<1>1. PICK g : IsChain(rule, g) /\ g[1] = b /\ g[Len(rule) + 1] = z
  BY DEF Leads
<1>2. PICK n \in Nat : n = Len(rule) /\ rule \in Seq(Name)
  BY DEF Leads
<1>3. <<x>> \o rule \in Seq(Name) /\ Len(<<x>> \o rule) = n + 1 /\ (<<x>> \o rule)[1] = x
      /\ \A k \in 1 .. n : (<<x>> \o rule)[k + 1] = rule[k]
  BY <1>2, Pushed DEF Push
<1> DEFINE f == [k \in 1 .. n + 2 |-> IF k = 1 THEN a ELSE g[k - 1]]
<1>4. f[1] = a /\ \A k \in 1 .. n + 1 : f[k + 1] = g[k]
  <2> SUFFICES ASSUME NEW k \in 1 .. n + 1 PROVE f[1] = a /\ f[k + 1] = g[k]
    OBVIOUS
  <2>1. k + 1 \in 1 .. n + 2 /\ k + 1 # 1 /\ (k + 1) - 1 = k
    OBVIOUS
  <2> QED BY <2>1
<1>5. \A k \in 1 .. n + 2 : f[k] \in Height
  <2> SUFFICES ASSUME NEW k \in 1 .. n + 2 PROVE f[k] \in Height
    OBVIOUS
  <2>1. CASE k # 1
    <3>1. k - 1 \in 1 .. n + 1
      BY <2>1
    <3> QED BY <1>1, <1>2, <2>1, <3>1 DEF IsChain
  <2> QED BY <2>1
<1>6. f \in [1 .. (n + 1) + 1 -> Height]
  <2>1. (n + 1) + 1 = n + 2
    OBVIOUS
  <2> QED BY <1>5, <2>1
<1> HIDE DEF f
<1>7. ASSUME NEW k \in 1 .. n + 1 PROVE Effect((<<x>> \o rule)[k], f[k], f[k + 1])
  <2>1. CASE k = 1
    <3>1. f[1] = a /\ f[1 + 1] = b
      BY <1>1, <1>4
    <3> QED BY <1>3, <2>1, <3>1
  <2>2. CASE k # 1
    <3>1. PICK j \in 1 .. n : k = j + 1
      <4>1. k - 1 \in 1 .. n /\ k = (k - 1) + 1
        BY <2>2
      <4> QED BY <4>1
    <3>2. f[j + 1] = g[j] /\ f[(j + 1) + 1] = g[j + 1]
      BY <1>4
    <3>3. (<<x>> \o rule)[k] = rule[j]
      BY <1>3, <3>1
    <3>4. Effect(rule[j], g[j], g[j + 1])
      BY <1>1, <1>2 DEF IsChain
    <3> QED BY <3>1, <3>2, <3>3, <3>4
  <2> QED BY <2>1, <2>2
<1>8. IsChain(<<x>> \o rule, f)
  BY <1>3, <1>6, <1>7 DEF IsChain
<1>9. f[(n + 1) + 1] = z
  <2>1. n + 1 \in 1 .. n + 1
    OBVIOUS
  <2> QED BY <1>1, <1>2, <1>4, <2>1
<1> QED BY <1>3, <1>4, <1>8, <1>9 DEF Leads

-----------------------------------------------------------------------------
\* So many values, and so much more on the other stacks.
Above(a, k, c, s, n) ==
  [v |-> Values(k, a.v), c |-> a.c + c, s |-> a.s + s, f |-> a.f, n |-> a.n + n, m |-> 0]

LEMMA KindPushed ==
  ASSUME NEW w \in Seq(Kind), NEW k \in Kind
  PROVE  Push(k, w) \in Seq(Kind)
BY Pushed

LEMMA ValuesType ==
  ASSUME NEW w \in Seq(Kind), NEW k \in 0 .. 3
  PROVE  Values(k, w) \in Seq(Kind)
<1>1. "value" \in Kind
  BY DEF Kind
<1>2. Push("value", w) \in Seq(Kind)
  BY <1>1, KindPushed
<1>3. Push("value", Push("value", w)) \in Seq(Kind)
  BY <1>1, <1>2, KindPushed
<1>4. Push("value", Push("value", Push("value", w))) \in Seq(Kind)
  BY <1>1, <1>3, KindPushed
<1> QED BY <1>2, <1>3, <1>4 DEF Values

LEMMA ValuesMore ==
  ASSUME NEW w, NEW k \in 0 .. 3, NEW l \in 0 .. 3, k + l <= 3
  PROVE  Values(k, Values(l, w)) = Values(k + l, w)
<1>1. CASE k = 0
  BY <1>1 DEF Values
<1>2. CASE l = 0
  BY <1>2 DEF Values
<1>3. CASE k = 1 /\ l = 1
  BY <1>3 DEF Values
<1>4. CASE k = 1 /\ l = 2
  BY <1>4 DEF Values
<1>5. CASE k = 2 /\ l = 1
  BY <1>5 DEF Values
<1> QED BY <1>1, <1>2, <1>3, <1>4, <1>5

LEMMA AboveType ==
  ASSUME NEW a \in Height, NEW k \in 0 .. 3, NEW c \in Nat, NEW s \in Nat, NEW n \in Nat
  PROVE  Above(a, k, c, s, n) \in Height
<1>1. Values(k, a.v) \in Seq(Kind)
  BY ValuesType DEF Height
<1> QED BY <1>1 DEF Above, Height

LEMMA AboveNone ==
  ASSUME NEW a \in Height, a.m = 0
  PROVE  Above(a, 0, 0, 0, 0) = a
BY DEF Above, Height, Values

\* From any number of values above u to any other.
LEMMA AboveDoes ==
  ASSUME NEW a \in Height, NEW e \in 0 .. 3, NEW t \in 0 .. 3, NEW g \in 0 .. 3,
         e + t <= 3, e + g <= 3,
         NEW c \in Int, NEW s \in Int, NEW n \in Int,
         NEW dc \in Int, NEW ds \in Int, NEW dn \in Int
  PROVE  Does(Above(a, e + t, c, s, n), Above(a, e + g, c + dc, s + ds, n + dn),
              t, g, dc, ds, dn)
<1>1. PICK w \in Seq(Kind) : w = Values(e, a.v)
  BY ValuesType DEF Height
<1>2. Values(e + t, a.v) = Values(t, w) /\ Values(e + g, a.v) = Values(g, w)
  <2>1. t + e = e + t /\ g + e = e + g
    OBVIOUS
  <2> QED BY <1>1, <2>1, ValuesMore
<1>3. PICK p \in Int, q \in Int, r \in Int : p = a.c /\ q = a.s /\ r = a.n
  BY DEF Height
<1>4. p + (c + dc) = (p + c) + dc /\ q + (s + ds) = (q + s) + ds /\ r + (n + dn) = (r + n) + dn
  OBVIOUS
<1> QED BY <1>2, <1>3, <1>4 DEF Does, Above

LEMMA WithType ==
  ASSUME NEW a \in Height, NEW w \in Seq(Kind), NEW m \in 0 .. 6
  PROVE  /\ With(a, w, m) \in Height /\ With(a, w, m).v = w /\ With(a, w, m).m = m
         /\ With(a, w, m).c = a.c /\ With(a, w, m).s = a.s /\ With(a, w, m).f = a.f
         /\ With(a, w, m).n = a.n
BY DEF With, Height

LEMMA WithWith ==
  ASSUME NEW a, NEW w, NEW m, NEW x, NEW k
  PROVE  With(With(a, w, m), x, k) = With(a, x, k)
BY DEF With

LEMMA WithSame ==
  ASSUME NEW a \in Height, NEW m, a.m = m
  PROVE  With(a, a.v, m) = a
BY DEF With, Height

LEMMA AboveWith ==
  ASSUME NEW a \in Height
  PROVE  Above(a, 1, 0, 0, 0) = With(a, Push("value", a.v), 0)
BY DEF With, Height, Above, Values

LEMMA AboveSame ==
  ASSUME NEW a \in Height, NEW k
  PROVE  /\ Above(a, k, 0, 0, 0).s = a.s /\ Above(a, k, 0, 0, 0).f = a.f
         /\ Above(a, k, 0, 0, 0).c = a.c /\ Above(a, k, 0, 0, 0).n = a.n
<1>1. PICK c \in Nat, s \in Nat, n \in Nat : c = a.c /\ s = a.s /\ n = a.n
  BY DEF Height
<1> QED BY <1>1 DEF Above

LEMMA AboveIdle ==
  ASSUME NEW a \in Height, a.m = 0
  PROVE  /\ \A x \in Idle \cup {"("} : x \notin Inside => Effect(x, a, a)
         /\ a.c # 0 => \A x \in Idle : Effect(x, a, a)
BY DEF Effect, Keeps, Parenthesis

LEMMA Pair ==
  ASSUME NEW S, NEW p \in S, NEW q \in S
  PROVE  <<p, q>> = <<p>> \o <<q>>
<1>1. <<p, q>> \in Seq(S) /\ Len(<<p, q>>) = 2 /\ <<p, q>>[1] = p /\ <<p, q>>[2] = q
  OBVIOUS
<1>2. /\ <<p>> \in Seq(S) /\ Len(<<p>>) = 1 /\ <<p>>[1] = p
      /\ <<q>> \in Seq(S) /\ Len(<<q>>) = 1 /\ <<q>>[1] = q
  OBVIOUS
<1>3. PICK s \in Seq(S) : s = <<p, q>> /\ Len(s) = 2 /\ s[1] = p /\ s[2] = q
  BY <1>1, Zenon
<1>4. PICK a \in Seq(S) : a = <<p>> /\ Len(a) = 1 /\ a[1] = p
  BY <1>2, Zenon
<1>5. PICK b \in Seq(S) : b = <<q>> /\ Len(b) = 1 /\ b[1] = q
  BY <1>2, Zenon
<1>6. a \o b \in Seq(S) /\ Len(a \o b) = 2 /\ (a \o b)[1] = p /\ (a \o b)[2] = q
  BY <1>4, <1>5
<1>7. PICK r \in Seq(S) : r = a \o b /\ Len(r) = 2 /\ r[1] = p /\ r[2] = q
  BY <1>6, Zenon
<1>8. s = r
  <2>1. ASSUME NEW k \in 1 .. 2 PROVE s[k] = r[k]
    <3>1. k = 1 \/ k = 2
      OBVIOUS
    <3> QED BY <1>3, <1>7, <3>1, Zenon
  <2>2. Len(s) = 2 /\ Len(r) = 2
    BY <1>3, <1>7, Zenon
  <2> QED BY <2>1, <2>2
<1> QED BY <1>3, <1>4, <1>5, <1>7, <1>8, Zenon

\* A rule of so many symbols leads through so many heights.
LEMMA Chain1 ==
  ASSUME NEW x1 \in Name,
         NEW h0 \in Height, NEW h1 \in Height,
         Effect(x1, h0, h1)
  PROVE  Leads(<<x1>>, h0, h1)
<1>1. Leads(<<>>, h1, h1)
  BY LeadsNowhere
<1>2. Leads(<<x1>> \o <<>>, h0, h1)
  BY <1>1, LeadsOn
<1>3. <<x1>> = <<x1>> \o <<>>
  OBVIOUS
<1> QED BY <1>2, <1>3, Zenon

LEMMA Chain2 ==
  ASSUME NEW x1 \in Name, NEW x2 \in Name,
         NEW h0 \in Height, NEW h1 \in Height, NEW h2 \in Height,
         Effect(x1, h0, h1), Effect(x2, h1, h2)
  PROVE  Leads(<<x1, x2>>, h0, h2)
<1>1. Leads(<<x2>>, h1, h2)
  BY Chain1
<1>2. Leads(<<x1>> \o <<x2>>, h0, h2)
  BY <1>1, LeadsOn
<1>3. <<x1, x2>> = <<x1>> \o <<x2>>
  BY Pair
<1> QED BY <1>2, <1>3, Zenon

LEMMA Chain3 ==
  ASSUME NEW x1 \in Name, NEW x2 \in Name, NEW x3 \in Name,
         NEW h0 \in Height, NEW h1 \in Height, NEW h2 \in Height, NEW h3 \in Height,
         Effect(x1, h0, h1), Effect(x2, h1, h2), Effect(x3, h2, h3)
  PROVE  Leads(<<x1, x2, x3>>, h0, h3)
<1>1. Leads(<<x2, x3>>, h1, h3)
  BY Chain2
<1>2. Leads(<<x1>> \o <<x2, x3>>, h0, h3)
  BY <1>1, LeadsOn
<1>3. <<x1, x2, x3>> = <<x1>> \o <<x2, x3>>
  OBVIOUS
<1> QED BY <1>2, <1>3, Zenon

LEMMA Chain4 ==
  ASSUME NEW x1 \in Name, NEW x2 \in Name, NEW x3 \in Name, NEW x4 \in Name,
         NEW h0 \in Height, NEW h1 \in Height, NEW h2 \in Height, NEW h3 \in Height, NEW h4
         \in Height,
         Effect(x1, h0, h1), Effect(x2, h1, h2), Effect(x3, h2, h3), Effect(x4, h3, h4)
  PROVE  Leads(<<x1, x2, x3, x4>>, h0, h4)
<1>1. Leads(<<x2, x3, x4>>, h1, h4)
  BY Chain3
<1>2. Leads(<<x1>> \o <<x2, x3, x4>>, h0, h4)
  BY <1>1, LeadsOn
<1>3. <<x1, x2, x3, x4>> = <<x1>> \o <<x2, x3, x4>>
  OBVIOUS
<1> QED BY <1>2, <1>3, Zenon

LEMMA Chain5 ==
  ASSUME NEW x1 \in Name, NEW x2 \in Name, NEW x3 \in Name, NEW x4 \in Name, NEW x5 \in
         Name,
         NEW h0 \in Height, NEW h1 \in Height, NEW h2 \in Height, NEW h3 \in Height, NEW h4
         \in Height, NEW h5 \in Height,
         Effect(x1, h0, h1), Effect(x2, h1, h2), Effect(x3, h2, h3), Effect(x4, h3, h4),
         Effect(x5, h4, h5)
  PROVE  Leads(<<x1, x2, x3, x4, x5>>, h0, h5)
<1>1. Leads(<<x2, x3, x4, x5>>, h1, h5)
  BY Chain4
<1>2. Leads(<<x1>> \o <<x2, x3, x4, x5>>, h0, h5)
  BY <1>1, LeadsOn
<1>3. <<x1, x2, x3, x4, x5>> = <<x1>> \o <<x2, x3, x4, x5>>
  OBVIOUS
<1> QED BY <1>2, <1>3, Zenon

LEMMA Chain6 ==
  ASSUME NEW x1 \in Name, NEW x2 \in Name, NEW x3 \in Name, NEW x4 \in Name, NEW x5 \in
         Name, NEW x6 \in Name,
         NEW h0 \in Height, NEW h1 \in Height, NEW h2 \in Height, NEW h3 \in Height, NEW h4
         \in Height, NEW h5 \in Height, NEW h6 \in Height,
         Effect(x1, h0, h1), Effect(x2, h1, h2), Effect(x3, h2, h3), Effect(x4, h3, h4),
         Effect(x5, h4, h5), Effect(x6, h5, h6)
  PROVE  Leads(<<x1, x2, x3, x4, x5, x6>>, h0, h6)
<1>1. Leads(<<x2, x3, x4, x5, x6>>, h1, h6)
  BY Chain5
<1>2. Leads(<<x1>> \o <<x2, x3, x4, x5, x6>>, h0, h6)
  BY <1>1, LeadsOn
<1>3. <<x1, x2, x3, x4, x5, x6>> = <<x1>> \o <<x2, x3, x4, x5, x6>>
  OBVIOUS
<1> QED BY <1>2, <1>3, Zenon

LEMMA Chain7 ==
  ASSUME NEW x1 \in Name, NEW x2 \in Name, NEW x3 \in Name, NEW x4 \in Name, NEW x5 \in
         Name, NEW x6 \in Name, NEW x7 \in Name,
         NEW h0 \in Height, NEW h1 \in Height, NEW h2 \in Height, NEW h3 \in Height, NEW h4
         \in Height, NEW h5 \in Height, NEW h6 \in Height, NEW h7 \in Height,
         Effect(x1, h0, h1), Effect(x2, h1, h2), Effect(x3, h2, h3), Effect(x4, h3, h4),
         Effect(x5, h4, h5), Effect(x6, h5, h6), Effect(x7, h6, h7)
  PROVE  Leads(<<x1, x2, x3, x4, x5, x6, x7>>, h0, h7)
<1>1. Leads(<<x2, x3, x4, x5, x6, x7>>, h1, h7)
  BY Chain6
<1>2. Leads(<<x1>> \o <<x2, x3, x4, x5, x6, x7>>, h0, h7)
  BY <1>1, LeadsOn
<1>3. <<x1, x2, x3, x4, x5, x6, x7>> = <<x1>> \o <<x2, x3, x4, x5, x6, x7>>
  OBVIOUS
<1> QED BY <1>2, <1>3, Zenon

LEMMA Chain8 ==
  ASSUME NEW x1 \in Name, NEW x2 \in Name, NEW x3 \in Name, NEW x4 \in Name, NEW x5 \in
         Name, NEW x6 \in Name, NEW x7 \in Name, NEW x8 \in Name,
         NEW h0 \in Height, NEW h1 \in Height, NEW h2 \in Height, NEW h3 \in Height, NEW h4
         \in Height, NEW h5 \in Height, NEW h6 \in Height, NEW h7 \in Height, NEW h8 \in
         Height,
         Effect(x1, h0, h1), Effect(x2, h1, h2), Effect(x3, h2, h3), Effect(x4, h3, h4),
         Effect(x5, h4, h5), Effect(x6, h5, h6), Effect(x7, h6, h7), Effect(x8, h7, h8)
  PROVE  Leads(<<x1, x2, x3, x4, x5, x6, x7, x8>>, h0, h8)
<1>1. Leads(<<x2, x3, x4, x5, x6, x7, x8>>, h1, h8)
  BY Chain7
<1>2. Leads(<<x1>> \o <<x2, x3, x4, x5, x6, x7, x8>>, h0, h8)
  BY <1>1, LeadsOn
<1>3. <<x1, x2, x3, x4, x5, x6, x7, x8>> = <<x1>> \o <<x2, x3, x4, x5, x6, x7, x8>>
  OBVIOUS
<1> QED BY <1>2, <1>3, Zenon

LEMMA Chain9 ==
  ASSUME NEW x1 \in Name, NEW x2 \in Name, NEW x3 \in Name, NEW x4 \in Name, NEW x5 \in
         Name, NEW x6 \in Name, NEW x7 \in Name, NEW x8 \in Name, NEW x9 \in Name,
         NEW h0 \in Height, NEW h1 \in Height, NEW h2 \in Height, NEW h3 \in Height, NEW h4
         \in Height, NEW h5 \in Height, NEW h6 \in Height, NEW h7 \in Height, NEW h8 \in
         Height, NEW h9 \in Height,
         Effect(x1, h0, h1), Effect(x2, h1, h2), Effect(x3, h2, h3), Effect(x4, h3, h4),
         Effect(x5, h4, h5), Effect(x6, h5, h6), Effect(x7, h6, h7), Effect(x8, h7, h8),
         Effect(x9, h8, h9)
  PROVE  Leads(<<x1, x2, x3, x4, x5, x6, x7, x8, x9>>, h0, h9)
<1>1. Leads(<<x2, x3, x4, x5, x6, x7, x8, x9>>, h1, h9)
  BY Chain8
<1>2. Leads(<<x1>> \o <<x2, x3, x4, x5, x6, x7, x8, x9>>, h0, h9)
  BY <1>1, LeadsOn
<1>3. <<x1, x2, x3, x4, x5, x6, x7, x8, x9>> = <<x1>> \o <<x2, x3, x4, x5, x6, x7, x8, x9>>
  OBVIOUS
<1> QED BY <1>2, <1>3, Zenon

LEMMA Chain10 ==
  ASSUME NEW x1 \in Name, NEW x2 \in Name, NEW x3 \in Name, NEW x4 \in Name, NEW x5 \in
         Name, NEW x6 \in Name, NEW x7 \in Name, NEW x8 \in Name, NEW x9 \in Name, NEW x10
         \in Name,
         NEW h0 \in Height, NEW h1 \in Height, NEW h2 \in Height, NEW h3 \in Height, NEW h4
         \in Height, NEW h5 \in Height, NEW h6 \in Height, NEW h7 \in Height, NEW h8 \in
         Height, NEW h9 \in Height, NEW h10 \in Height,
         Effect(x1, h0, h1), Effect(x2, h1, h2), Effect(x3, h2, h3), Effect(x4, h3, h4),
         Effect(x5, h4, h5), Effect(x6, h5, h6), Effect(x7, h6, h7), Effect(x8, h7, h8),
         Effect(x9, h8, h9), Effect(x10, h9, h10)
  PROVE  Leads(<<x1, x2, x3, x4, x5, x6, x7, x8, x9, x10>>, h0, h10)
<1>1. Leads(<<x2, x3, x4, x5, x6, x7, x8, x9, x10>>, h1, h10)
  BY Chain9
<1>2. Leads(<<x1>> \o <<x2, x3, x4, x5, x6, x7, x8, x9, x10>>, h0, h10)
  BY <1>1, LeadsOn
<1>3. <<x1, x2, x3, x4, x5, x6, x7, x8, x9, x10>>
      = <<x1>> \o <<x2, x3, x4, x5, x6, x7, x8, x9, x10>>
  OBVIOUS
<1> QED BY <1>2, <1>3, Zenon

LEMMA Chain11 ==
  ASSUME NEW x1 \in Name, NEW x2 \in Name, NEW x3 \in Name, NEW x4 \in Name, NEW x5 \in
         Name, NEW x6 \in Name, NEW x7 \in Name, NEW x8 \in Name, NEW x9 \in Name, NEW x10
         \in Name, NEW x11 \in Name,
         NEW h0 \in Height, NEW h1 \in Height, NEW h2 \in Height, NEW h3 \in Height, NEW h4
         \in Height, NEW h5 \in Height, NEW h6 \in Height, NEW h7 \in Height, NEW h8 \in
         Height, NEW h9 \in Height, NEW h10 \in Height, NEW h11 \in Height,
         Effect(x1, h0, h1), Effect(x2, h1, h2), Effect(x3, h2, h3), Effect(x4, h3, h4),
         Effect(x5, h4, h5), Effect(x6, h5, h6), Effect(x7, h6, h7), Effect(x8, h7, h8),
         Effect(x9, h8, h9), Effect(x10, h9, h10), Effect(x11, h10, h11)
  PROVE  Leads(<<x1, x2, x3, x4, x5, x6, x7, x8, x9, x10, x11>>, h0, h11)
<1>1. Leads(<<x2, x3, x4, x5, x6, x7, x8, x9, x10, x11>>, h1, h11)
  BY Chain10
<1>2. Leads(<<x1>> \o <<x2, x3, x4, x5, x6, x7, x8, x9, x10, x11>>, h0, h11)
  BY <1>1, LeadsOn
<1>3. <<x1, x2, x3, x4, x5, x6, x7, x8, x9, x10, x11>>
      = <<x1>> \o <<x2, x3, x4, x5, x6, x7, x8, x9, x10, x11>>
  OBVIOUS
<1> QED BY <1>2, <1>3, Zenon

LEMMA Chain12 ==
  ASSUME NEW x1 \in Name, NEW x2 \in Name, NEW x3 \in Name, NEW x4 \in Name, NEW x5 \in
         Name, NEW x6 \in Name, NEW x7 \in Name, NEW x8 \in Name, NEW x9 \in Name, NEW x10
         \in Name, NEW x11 \in Name, NEW x12 \in Name,
         NEW h0 \in Height, NEW h1 \in Height, NEW h2 \in Height, NEW h3 \in Height, NEW h4
         \in Height, NEW h5 \in Height, NEW h6 \in Height, NEW h7 \in Height, NEW h8 \in
         Height, NEW h9 \in Height, NEW h10 \in Height, NEW h11 \in Height, NEW h12 \in
         Height,
         Effect(x1, h0, h1), Effect(x2, h1, h2), Effect(x3, h2, h3), Effect(x4, h3, h4),
         Effect(x5, h4, h5), Effect(x6, h5, h6), Effect(x7, h6, h7), Effect(x8, h7, h8),
         Effect(x9, h8, h9), Effect(x10, h9, h10), Effect(x11, h10, h11), Effect(x12, h11,
         h12)
  PROVE  Leads(<<x1, x2, x3, x4, x5, x6, x7, x8, x9, x10, x11, x12>>, h0, h12)
<1>1. Leads(<<x2, x3, x4, x5, x6, x7, x8, x9, x10, x11, x12>>, h1, h12)
  BY Chain11
<1>2. Leads(<<x1>> \o <<x2, x3, x4, x5, x6, x7, x8, x9, x10, x11, x12>>, h0, h12)
  BY <1>1, LeadsOn
<1>3. <<x1, x2, x3, x4, x5, x6, x7, x8, x9, x10, x11, x12>>
      = <<x1>> \o <<x2, x3, x4, x5, x6, x7, x8, x9, x10, x11, x12>>
  OBVIOUS
<1> QED BY <1>2, <1>3, Zenon

LEMMA Chain13 ==
  ASSUME NEW x1 \in Name, NEW x2 \in Name, NEW x3 \in Name, NEW x4 \in Name, NEW x5 \in
         Name, NEW x6 \in Name, NEW x7 \in Name, NEW x8 \in Name, NEW x9 \in Name, NEW x10
         \in Name, NEW x11 \in Name, NEW x12 \in Name, NEW x13 \in Name,
         NEW h0 \in Height, NEW h1 \in Height, NEW h2 \in Height, NEW h3 \in Height, NEW h4
         \in Height, NEW h5 \in Height, NEW h6 \in Height, NEW h7 \in Height, NEW h8 \in
         Height, NEW h9 \in Height, NEW h10 \in Height, NEW h11 \in Height, NEW h12 \in
         Height, NEW h13 \in Height,
         Effect(x1, h0, h1), Effect(x2, h1, h2), Effect(x3, h2, h3), Effect(x4, h3, h4),
         Effect(x5, h4, h5), Effect(x6, h5, h6), Effect(x7, h6, h7), Effect(x8, h7, h8),
         Effect(x9, h8, h9), Effect(x10, h9, h10), Effect(x11, h10, h11), Effect(x12, h11,
         h12), Effect(x13, h12, h13)
  PROVE  Leads(<<x1, x2, x3, x4, x5, x6, x7, x8, x9, x10, x11, x12, x13>>, h0, h13)
<1>1. Leads(<<x2, x3, x4, x5, x6, x7, x8, x9, x10, x11, x12, x13>>, h1, h13)
  BY Chain12
<1>2. Leads(<<x1>> \o <<x2, x3, x4, x5, x6, x7, x8, x9, x10, x11, x12, x13>>, h0, h13)
  BY <1>1, LeadsOn
<1>3. <<x1, x2, x3, x4, x5, x6, x7, x8, x9, x10, x11, x12, x13>>
      = <<x1>> \o <<x2, x3, x4, x5, x6, x7, x8, x9, x10, x11, x12, x13>>
  OBVIOUS
<1> QED BY <1>2, <1>3, Zenon

LEMMA Chain14 ==
  ASSUME NEW x1 \in Name, NEW x2 \in Name, NEW x3 \in Name, NEW x4 \in Name, NEW x5 \in
         Name, NEW x6 \in Name, NEW x7 \in Name, NEW x8 \in Name, NEW x9 \in Name, NEW x10
         \in Name, NEW x11 \in Name, NEW x12 \in Name, NEW x13 \in Name, NEW x14 \in Name,
         NEW h0 \in Height, NEW h1 \in Height, NEW h2 \in Height, NEW h3 \in Height, NEW h4
         \in Height, NEW h5 \in Height, NEW h6 \in Height, NEW h7 \in Height, NEW h8 \in
         Height, NEW h9 \in Height, NEW h10 \in Height, NEW h11 \in Height, NEW h12 \in
         Height, NEW h13 \in Height, NEW h14 \in Height,
         Effect(x1, h0, h1), Effect(x2, h1, h2), Effect(x3, h2, h3), Effect(x4, h3, h4),
         Effect(x5, h4, h5), Effect(x6, h5, h6), Effect(x7, h6, h7), Effect(x8, h7, h8),
         Effect(x9, h8, h9), Effect(x10, h9, h10), Effect(x11, h10, h11), Effect(x12, h11,
         h12), Effect(x13, h12, h13), Effect(x14, h13, h14)
  PROVE  Leads(<<x1, x2, x3, x4, x5, x6, x7, x8, x9, x10, x11, x12, x13, x14>>, h0, h14)
<1>1. Leads(<<x2, x3, x4, x5, x6, x7, x8, x9, x10, x11, x12, x13, x14>>, h1, h14)
  BY Chain13
<1>2. Leads(<<x1>> \o <<x2, x3, x4, x5, x6, x7, x8, x9, x10, x11, x12, x13, x14>>, h0, h14)
  BY <1>1, LeadsOn
<1>3. <<x1, x2, x3, x4, x5, x6, x7, x8, x9, x10, x11, x12, x13, x14>>
      = <<x1>> \o <<x2, x3, x4, x5, x6, x7, x8, x9, x10, x11, x12, x13, x14>>
  OBVIOUS
<1> QED BY <1>2, <1>3, Zenon

\* The rules of the grammar, one by one: each leads from a height to the height that
\* its symbol leads to.
LEMMA BlockRule ==
  ASSUME NEW u \in Height, u.m = 0
  PROVE  Leads(<<"statement_list", "}">>,
               Above(u, 0, 0, 0, 0), Above(u, 0, 0, 0, 0))
<1> DEFINE h0 == Above(u, 0, 0, 0, 0)
           rule == <<"statement_list", "}">>
<1>1. h0 \in Height /\ h0.m = 0
  BY AboveType DEF Above
<1> HIDE DEF h0
<1>2. /\ Effect("statement_list", h0, h0) /\ Effect("}", h0, h0)
  BY <1>1, AboveIdle DEF Idle, Inside
<1>3. "statement_list" \in Name /\ "}" \in Name
  BY DEF Name, Idle, Giving, Dropping
<1>4. Leads(rule, h0, h0)
  BY <1>1, <1>2, <1>3, Chain2
<1> QED BY <1>4 DEF h0

LEMMA IfRule ==
  ASSUME NEW u \in Height, u.m = 0
  PROVE  Leads(<<"(", "expr", ")", "cs_start_if", "statement", "elseif_list", "else_single",
                 "cs_end_if">>,
               Above(u, 0, 0, 0, 0), Above(u, 0, 0, 0, 0))
<1> DEFINE h0 == Above(u, 0, 0, 0, 0)
           h1 == Above(u, 1, 0, 0, 0)
           h2 == Above(u, 0, 1, 0, 0)
           rule == <<"(", "expr", ")", "cs_start_if", "statement", "elseif_list",
                    "else_single", "cs_end_if">>
<1>1. h0 \in Height /\ h0.m = 0 /\ h1 \in Height /\ h1.m = 0 /\ h2 \in Height /\ h2.m = 0
  BY AboveType DEF Above
<1>2. Does(h0, h1, 0, 1, 0, 0, 0)
  BY AboveDoes DEF Down
<1>3. Does(h1, h2, 1, 0, 1, 0, 0)
  BY AboveDoes DEF Down
<1>4. Does(h2, h0, 0, 0, Down, 0, 0)
  BY AboveDoes DEF Down
<1> HIDE DEF h0, h1, h2
<1>5. Effect("expr", h0, h1)
  BY <1>2 DEF Effect, Inside, Giving
<1>6. Effect("cs_start_if", h1, h2)
  BY <1>3 DEF Effect, Inside
<1>7. Effect("cs_end_if", h2, h0)
  BY <1>4 DEF Effect, Inside
<1>8. /\ Effect("(", h0, h0) /\ Effect(")", h1, h1) /\ Effect("statement", h2, h2) /\
         Effect("elseif_list", h2, h2) /\ Effect("else_single", h2, h2)
  BY <1>1, AboveIdle DEF Idle, Inside
<1>9. "(" \in Name /\ "expr" \in Name /\ ")" \in Name /\ "cs_start_if" \in Name /\
      "statement" \in Name /\ "elseif_list" \in Name /\ "else_single" \in Name /\
      "cs_end_if" \in Name
  BY DEF Name, Idle, Giving, Dropping
<1>10. Leads(rule, h0, h0)
  BY <1>1, <1>5, <1>6, <1>7, <1>8, <1>9, Chain8
<1> QED BY <1>10 DEF h0

LEMMA WhileRule ==
  ASSUME NEW u \in Height, u.m = 0
  PROVE  Leads(<<"(", "expr", ")", "cs_start_while", "statement", "cs_end_while",
                 "while_iterations">>,
               Above(u, 0, 0, 0, 0), Above(u, 0, 0, 0, 0))
<1> DEFINE h0 == Above(u, 0, 0, 0, 0)
           h1 == Above(u, 1, 0, 0, 0)
           h2 == Above(u, 0, 1, 0, 1)
           rule == <<"(", "expr", ")", "cs_start_while", "statement", "cs_end_while",
                    "while_iterations">>
<1>1. h0 \in Height /\ h0.m = 0 /\ h1 \in Height /\ h1.m = 0 /\ h2 \in Height /\ h2.m = 0
  BY AboveType DEF Above
<1>2. Does(h0, h1, 0, 1, 0, 0, 0)
  BY AboveDoes DEF Down
<1>3. Does(h1, h2, 1, 0, 1, 0, 1)
  BY AboveDoes DEF Down
<1>4. Does(h2, h0, 0, 0, Down, 0, Down)
  BY AboveDoes DEF Down
<1> HIDE DEF h0, h1, h2
<1>5. Effect("expr", h0, h1)
  BY <1>2 DEF Effect, Inside, Giving
<1>6. Effect("cs_start_while", h1, h2)
  BY <1>3 DEF Effect, Inside
<1>7. Effect("cs_end_while", h2, h0)
  BY <1>4 DEF Effect, Inside
<1>8. /\ Effect("(", h0, h0) /\ Effect(")", h1, h1) /\ Effect("statement", h2, h2) /\
         Effect("while_iterations", h0, h0)
  BY <1>1, AboveIdle DEF Idle, Inside
<1>9. "(" \in Name /\ "expr" \in Name /\ ")" \in Name /\ "cs_start_while" \in Name /\
      "statement" \in Name /\ "cs_end_while" \in Name /\ "while_iterations" \in Name
  BY DEF Name, Idle, Giving, Dropping
<1>10. Leads(rule, h0, h0)
  BY <1>1, <1>5, <1>6, <1>7, <1>8, <1>9, Chain7
<1> QED BY <1>10 DEF h0

LEMMA DoRule ==
  ASSUME NEW u \in Height, u.m = 0
  PROVE  Leads(<<"cs_start_do_while", "statement", "WHILE", "cs_force_eval_do_while", "(",
                 "expr", ")", ";", "cs_end_do_while", "do_while_iterations">>,
               Above(u, 0, 0, 0, 0), Above(u, 0, 0, 0, 0))
<1> DEFINE h0 == Above(u, 0, 0, 0, 0)
           h1 == Above(u, 0, 1, 0, 1)
           h2 == Above(u, 1, 1, 0, 1)
           rule == <<"cs_start_do_while", "statement", "WHILE", "cs_force_eval_do_while",
                    "(", "expr", ")", ";", "cs_end_do_while", "do_while_iterations">>
<1>1. h0 \in Height /\ h0.m = 0 /\ h1 \in Height /\ h1.m = 0 /\ h2 \in Height /\ h2.m = 0
  BY AboveType, SMTT(40) DEF Above
<1>2. Does(h0, h1, 0, 0, 1, 0, 1)
  BY AboveDoes DEF Down
<1>3. Does(h1, h2, 0, 1, 0, 0, 0)
  BY AboveDoes DEF Down
<1>4. Does(h2, h0, 1, 0, Down, 0, Down)
  BY AboveDoes DEF Down
<1> HIDE DEF h0, h1, h2
<1>5. Effect("cs_start_do_while", h0, h1)
  BY <1>2 DEF Effect, Inside
<1>6. Effect("expr", h1, h2)
  BY <1>3 DEF Effect, Inside, Giving
<1>7. Effect("cs_end_do_while", h2, h0)
  BY <1>4 DEF Effect, Inside
<1>8. /\ Effect("statement", h1, h1) /\ Effect("WHILE", h1, h1) /\
         Effect("cs_force_eval_do_while", h1, h1) /\ Effect("(", h1, h1) /\ Effect(")", h2,
         h2) /\ Effect(";", h2, h2) /\ Effect("do_while_iterations", h0, h0)
  BY <1>1, AboveIdle DEF Idle, Inside
<1>9. "cs_start_do_while" \in Name /\ "statement" \in Name /\ "WHILE" \in Name /\
      "cs_force_eval_do_while" \in Name /\ "(" \in Name /\ "expr" \in Name /\ ")" \in Name
      /\ ";" \in Name /\ "cs_end_do_while" \in Name /\ "do_while_iterations" \in Name
  BY DEF Name, Idle, Giving, Dropping
<1>10. Leads(rule, h0, h0)
  BY <1>1, <1>5, <1>6, <1>7, <1>8, <1>9, Chain10
<1> QED BY <1>10 DEF h0

LEMMA SwitchRule ==
  ASSUME NEW u \in Height, u.m = 0
  PROVE  Leads(<<"(", "expr", ")", "cs_switch_start", "{", "case_list", "}", "cs_switch_end">>,
               Above(u, 0, 0, 0, 0), Above(u, 0, 0, 0, 0))
<1> DEFINE h0 == Above(u, 0, 0, 0, 0)
           h1 == Above(u, 1, 0, 0, 0)
           h2 == Above(u, 0, 1, 1, 1)
           rule == <<"(", "expr", ")", "cs_switch_start", "{", "case_list", "}",
                    "cs_switch_end">>
<1>1. h0 \in Height /\ h0.m = 0 /\ h1 \in Height /\ h1.m = 0 /\ h2 \in Height /\ h2.m = 0 /\
      h2.c # 0
  BY AboveType DEF Above, Height
<1>2. Does(h0, h1, 0, 1, 0, 0, 0)
  BY AboveDoes DEF Down
<1>3. Does(h1, h2, 1, 0, 1, 1, 1)
  BY AboveDoes DEF Down
<1>4. Does(h2, h0, 0, 0, Down, Down, Down)
  BY AboveDoes DEF Down
<1> HIDE DEF h0, h1, h2
<1>5. Effect("expr", h0, h1)
  BY <1>2 DEF Effect, Inside, Giving
<1>6. Effect("cs_switch_start", h1, h2)
  BY <1>3 DEF Effect, Inside
<1>7. Effect("cs_switch_end", h2, h0)
  BY <1>4 DEF Effect, Inside
<1>8. /\ Effect("(", h0, h0) /\ Effect(")", h1, h1) /\ Effect("{", h2, h2) /\
         Effect("case_list", h2, h2) /\ Effect("}", h2, h2)
  BY <1>1, AboveIdle DEF Idle, Inside
<1>9. "(" \in Name /\ "expr" \in Name /\ ")" \in Name /\ "cs_switch_start" \in Name /\ "{"
      \in Name /\ "case_list" \in Name /\ "}" \in Name /\ "cs_switch_end" \in Name
  BY DEF Name, Idle, Giving, Dropping
<1>10. Leads(rule, h0, h0)
  BY <1>1, <1>5, <1>6, <1>7, <1>8, <1>9, Chain8
<1> QED BY <1>10 DEF h0

LEMMA BreakRule ==
  ASSUME NEW u \in Height, u.m = 0
  PROVE  Leads(<<";", "cs_break_continue">>,
               Above(u, 0, 0, 0, 0), Above(u, 0, 0, 0, 0))
<1> DEFINE h0 == Above(u, 0, 0, 0, 0)
           rule == <<";", "cs_break_continue">>
<1>1. h0 \in Height /\ h0.m = 0
  BY AboveType DEF Above
<1> HIDE DEF h0
<1>2. /\ Effect(";", h0, h0) /\ Effect("cs_break_continue", h0, h0)
  BY <1>1, AboveIdle DEF Idle, Inside
<1>3. ";" \in Name /\ "cs_break_continue" \in Name
  BY DEF Name, Idle, Giving, Dropping
<1>4. Leads(rule, h0, h0)
  BY <1>1, <1>2, <1>3, Chain2
<1> QED BY <1>4 DEF h0

LEMMA ReturnRule ==
  ASSUME NEW u \in Height, u.m = 0
  PROVE  Leads(<<"expr", ";", "cs_return">>,
               Above(u, 0, 0, 0, 0), Above(u, 0, 0, 0, 0))
<1> DEFINE h0 == Above(u, 0, 0, 0, 0)
           h1 == Above(u, 1, 0, 0, 0)
           rule == <<"expr", ";", "cs_return">>
<1>1. h0 \in Height /\ h0.m = 0 /\ h1 \in Height /\ h1.m = 0
  BY AboveType DEF Above
<1>2. Does(h0, h1, 0, 1, 0, 0, 0)
  BY AboveDoes DEF Down
<1>3. Does(h1, h0, 1, 0, 0, 0, 0)
  BY AboveDoes DEF Down
<1> HIDE DEF h0, h1
<1>4. Effect("expr", h0, h1)
  BY <1>2 DEF Effect, Inside, Giving
<1>5. Effect("cs_return", h1, h0)
  BY <1>3 DEF Effect, Inside, Dropping
<1>6. /\ Effect(";", h1, h1)
  BY <1>1, AboveIdle DEF Idle, Inside
<1>7. "expr" \in Name /\ ";" \in Name /\ "cs_return" \in Name
  BY DEF Name, Idle, Giving, Dropping
<1>8. Leads(rule, h0, h0)
  BY <1>1, <1>4, <1>5, <1>6, <1>7, Chain3
<1> QED BY <1>8 DEF h0

LEMMA DeclarationRule ==
  ASSUME NEW u \in Height, u.m = 0
  PROVE  Leads(<<"start_function_decleration", "(", ")", "{", "statement_list", "}",
                 "end_function_decleration">>,
               Above(u, 0, 0, 0, 0), Above(u, 0, 0, 0, 0))
<1> DEFINE h0 == Above(u, 0, 0, 0, 0)
           h1 == Above(u, 0, 1, 0, 0)
           rule == <<"start_function_decleration", "(", ")", "{", "statement_list", "}",
                    "end_function_decleration">>
<1>1. h0 \in Height /\ h0.m = 0 /\ h1 \in Height /\ h1.m = 0
  BY AboveType DEF Above
<1>2. Does(h0, h1, 0, 0, 1, 0, 0)
  BY AboveDoes DEF Down
<1>3. Does(h1, h0, 0, 0, Down, 0, 0)
  BY AboveDoes DEF Down
<1> HIDE DEF h0, h1
<1>4. Effect("start_function_decleration", h0, h1)
  BY <1>2 DEF Effect, Inside
<1>5. Effect("end_function_decleration", h1, h0)
  BY <1>3 DEF Effect, Inside
<1>6. /\ Effect("(", h1, h1) /\ Effect(")", h1, h1) /\ Effect("{", h1, h1) /\
         Effect("statement_list", h1, h1) /\ Effect("}", h1, h1)
  BY <1>1, AboveIdle DEF Idle, Inside
<1>7. "start_function_decleration" \in Name /\ "(" \in Name /\ ")" \in Name /\ "{" \in Name
      /\ "statement_list" \in Name /\ "}" \in Name /\ "end_function_decleration" \in Name
  BY DEF Name, Idle, Giving, Dropping
<1>8. Leads(rule, h0, h0)
  BY <1>1, <1>4, <1>5, <1>6, <1>7, Chain7
<1> QED BY <1>8 DEF h0

LEMMA CalledRule ==
  ASSUME NEW u \in Height, u.m = 0
  PROVE  Leads(<<"restore_token", "(", ")", "{", "statement_list", "}", "terminate_phpparse">>,
               Above(u, 0, 0, 0, 0), Above(u, 0, 0, 0, 0))
<1> DEFINE h0 == Above(u, 0, 0, 0, 0)
           rule == <<"restore_token", "(", ")", "{", "statement_list", "}",
                    "terminate_phpparse">>
<1>1. h0 \in Height /\ h0.m = 0
  BY AboveType DEF Above
<1> HIDE DEF h0
<1>2. /\ Effect("restore_token", h0, h0) /\ Effect("(", h0, h0) /\ Effect(")", h0, h0) /\
         Effect("{", h0, h0) /\ Effect("statement_list", h0, h0) /\ Effect("}", h0, h0) /\
         Effect("terminate_phpparse", h0, h0)
  BY <1>1, AboveIdle DEF Idle, Inside
<1>3. "restore_token" \in Name /\ "(" \in Name /\ ")" \in Name /\ "{" \in Name /\
      "statement_list" \in Name /\ "}" \in Name /\ "terminate_phpparse" \in Name
  BY DEF Name, Idle, Giving, Dropping
<1>4. Leads(rule, h0, h0)
  BY <1>1, <1>2, <1>3, Chain7
<1> QED BY <1>4 DEF h0

LEMMA ElseifRule ==
  ASSUME NEW u \in Height, u.m = 0
  PROVE  Leads(<<"(", "cs_elseif_start_evaluate", "expr", "cs_elseif_end_evaluate", ")",
                 "cs_start_elseif", "statement", "elseif_list">>,
               Above(u, 0, 0, 0, 0), Above(u, 0, 0, 0, 0))
<1> DEFINE h0 == Above(u, 0, 0, 0, 0)
           h1 == Above(u, 0, 1, 0, 0)
           h2 == Above(u, 1, 1, 0, 0)
           h3 == Above(u, 1, 0, 0, 0)
           rule == <<"(", "cs_elseif_start_evaluate", "expr", "cs_elseif_end_evaluate", ")",
                    "cs_start_elseif", "statement", "elseif_list">>
<1>1. h0 \in Height /\ h0.m = 0 /\ h1 \in Height /\ h1.m = 0 /\ h2 \in Height /\ h2.m = 0 /\
      h3 \in Height /\ h3.m = 0
  BY AboveType DEF Above
<1>2. Does(h0, h1, 0, 0, 1, 0, 0)
  BY AboveDoes DEF Down
<1>3. Does(h1, h2, 0, 1, 0, 0, 0)
  BY AboveDoes DEF Down
<1>4. Does(h2, h3, 0, 0, Down, 0, 0)
  BY AboveDoes DEF Down
<1>5. Does(h3, h0, 1, 0, 0, 0, 0)
  BY AboveDoes DEF Down
<1> HIDE DEF h0, h1, h2, h3
<1>6. Effect("cs_elseif_start_evaluate", h0, h1)
  BY <1>2 DEF Effect, Inside
<1>7. Effect("expr", h1, h2)
  BY <1>3 DEF Effect, Inside, Giving
<1>8. Effect("cs_elseif_end_evaluate", h2, h3)
  BY <1>4 DEF Effect, Inside
<1>9. Effect("cs_start_elseif", h3, h0)
  BY <1>5 DEF Effect, Inside, Dropping
<1>10. /\ Effect("(", h0, h0) /\ Effect(")", h3, h3) /\ Effect("statement", h0, h0) /\
         Effect("elseif_list", h0, h0)
  BY <1>1, AboveIdle DEF Idle, Inside
<1>11. "(" \in Name /\ "cs_elseif_start_evaluate" \in Name /\ "expr" \in Name /\
      "cs_elseif_end_evaluate" \in Name /\ ")" \in Name /\ "cs_start_elseif" \in Name /\
      "statement" \in Name /\ "elseif_list" \in Name
  BY DEF Name, Idle, Giving, Dropping
<1>12. Leads(rule, h0, h0)
  BY <1>1, <1>6, <1>7, <1>8, <1>9, <1>10, <1>11, Chain8
<1> QED BY <1>12 DEF h0

LEMMA ElseRule ==
  ASSUME NEW u \in Height, u.m = 0
  PROVE  Leads(<<"cs_start_else", "statement">>,
               Above(u, 0, 0, 0, 0), Above(u, 0, 0, 0, 0))
<1> DEFINE h0 == Above(u, 0, 0, 0, 0)
           rule == <<"cs_start_else", "statement">>
<1>1. h0 \in Height /\ h0.m = 0
  BY AboveType DEF Above
<1> HIDE DEF h0
<1>2. /\ Effect("cs_start_else", h0, h0) /\ Effect("statement", h0, h0)
  BY <1>1, AboveIdle DEF Idle, Inside
<1>3. "cs_start_else" \in Name /\ "statement" \in Name
  BY DEF Name, Idle, Giving, Dropping
<1>4. Leads(rule, h0, h0)
  BY <1>1, <1>2, <1>3, Chain2
<1> QED BY <1>4 DEF h0

LEMMA CaseRule ==
  ASSUME NEW u \in Height, u.m = 0, u.c # 0
  PROVE  Leads(<<"expr", ":", "cs_switch_case_pre", "statement_list", "cs_switch_case_post",
                 "case_list">>,
               Above(u, 0, 0, 0, 0), Above(u, 0, 0, 0, 0))
<1> DEFINE h0 == Above(u, 0, 0, 0, 0)
           h1 == Above(u, 1, 0, 0, 0)
           rule == <<"expr", ":", "cs_switch_case_pre", "statement_list",
                    "cs_switch_case_post", "case_list">>
<1>1. h0 \in Height /\ h0.m = 0 /\ h1 \in Height /\ h1.m = 0 /\ h0.c # 0 /\ h1.c # 0
  BY AboveType DEF Above, Height
<1>2. Does(h0, h1, 0, 1, 0, 0, 0)
  BY AboveDoes DEF Down
<1>3. Does(h1, h0, 1, 0, 0, 0, 0)
  BY AboveDoes DEF Down
<1> HIDE DEF h0, h1
<1>4. Effect("expr", h0, h1)
  BY <1>2 DEF Effect, Inside, Giving
<1>5. Effect("cs_switch_case_pre", h1, h0)
  BY <1>3 DEF Effect, Inside, Dropping
<1>6. /\ Effect(":", h1, h1) /\ Effect("statement_list", h0, h0) /\
         Effect("cs_switch_case_post", h0, h0) /\ Effect("case_list", h0, h0)
  BY <1>1, AboveIdle DEF Idle, Inside
<1>7. "expr" \in Name /\ ":" \in Name /\ "cs_switch_case_pre" \in Name /\ "statement_list"
      \in Name /\ "cs_switch_case_post" \in Name /\ "case_list" \in Name
  BY DEF Name, Idle, Giving, Dropping
<1>8. Leads(rule, h0, h0)
  BY <1>1, <1>4, <1>5, <1>6, <1>7, Chain6
<1> QED BY <1>8 DEF h0

LEMMA DefaultRule ==
  ASSUME NEW u \in Height, u.m = 0, u.c # 0
  PROVE  Leads(<<":", "cs_switch_default_pre", "statement_list", "cs_switch_case_post">>,
               Above(u, 0, 0, 0, 0), Above(u, 0, 0, 0, 0))
<1> DEFINE h0 == Above(u, 0, 0, 0, 0)
           rule == <<":", "cs_switch_default_pre", "statement_list", "cs_switch_case_post">>
<1>1. h0 \in Height /\ h0.m = 0 /\ h0.c # 0
  BY AboveType DEF Above, Height
<1> HIDE DEF h0
<1>2. /\ Effect(":", h0, h0) /\ Effect("cs_switch_default_pre", h0, h0) /\
         Effect("statement_list", h0, h0) /\ Effect("cs_switch_case_post", h0, h0)
  BY <1>1, AboveIdle DEF Idle, Inside
<1>3. ":" \in Name /\ "cs_switch_default_pre" \in Name /\ "statement_list" \in Name /\
      "cs_switch_case_post" \in Name
  BY DEF Name, Idle, Giving, Dropping
<1>4. Leads(rule, h0, h0)
  BY <1>1, <1>2, <1>3, Chain4
<1> QED BY <1>4 DEF h0

LEMMA BodyRule ==
  ASSUME NEW u \in Height, u.m = 0
  PROVE  Leads(<<"(", ")", "{", "statement_list", "}">>,
               Above(u, 0, 0, 0, 0), Above(u, 0, 0, 0, 0))
<1> DEFINE h0 == Above(u, 0, 0, 0, 0)
           rule == <<"(", ")", "{", "statement_list", "}">>
<1>1. h0 \in Height /\ h0.m = 0
  BY AboveType DEF Above
<1> HIDE DEF h0
<1>2. /\ Effect("(", h0, h0) /\ Effect(")", h0, h0) /\ Effect("{", h0, h0) /\
         Effect("statement_list", h0, h0) /\ Effect("}", h0, h0)
  BY <1>1, AboveIdle DEF Idle, Inside
<1>3. "(" \in Name /\ ")" \in Name /\ "{" \in Name /\ "statement_list" \in Name /\ "}" \in
      Name
  BY DEF Name, Idle, Giving, Dropping
<1>4. Leads(rule, h0, h0)
  BY <1>1, <1>2, <1>3, Chain5
<1> QED BY <1>4 DEF h0

LEMMA EvaluateRule ==
  ASSUME NEW u \in Height, u.m = 0
  PROVE  Leads(<<"evaluate">>,
               Above(u, 0, 0, 0, 0), Above(u, 1, 0, 0, 0))
<1> DEFINE h0 == Above(u, 0, 0, 0, 0)
           h1 == Above(u, 1, 0, 0, 0)
           rule == <<"evaluate">>
<1>1. h0 \in Height /\ h0.m = 0 /\ h1 \in Height /\ h1.m = 0
  BY AboveType DEF Above
<1>2. Does(h0, h1, 0, 1, 0, 0, 0)
  BY AboveDoes DEF Down
<1> HIDE DEF h0, h1
<1>3. Effect("evaluate", h0, h1)
  BY <1>2 DEF Effect, Inside, Giving
<1>4. "evaluate" \in Name
  BY DEF Name, Idle, Giving, Dropping
<1>5. Leads(rule, h0, h1)
  BY <1>1, <1>3, <1>4, Chain1
<1> QED BY <1>5 DEF h0, h1

LEMMA AndRule ==
  ASSUME NEW u \in Height, u.m = 0
  PROVE  Leads(<<"cs_pre_boolean_and", "primary", "cs_post_boolean_and", "operators">>,
               Above(u, 1, 0, 0, 0), Above(u, 1, 0, 0, 0))
<1> DEFINE h0 == Above(u, 1, 0, 0, 0)
           h1 == Above(u, 1, 1, 0, 0)
           h2 == Above(u, 2, 1, 0, 0)
           rule == <<"cs_pre_boolean_and", "primary", "cs_post_boolean_and", "operators">>
<1>1. h0 \in Height /\ h0.m = 0 /\ h1 \in Height /\ h1.m = 0 /\ h2 \in Height /\ h2.m = 0
  BY AboveType DEF Above
<1>2. Does(h0, h1, 1, 1, 1, 0, 0)
  BY AboveDoes DEF Down
<1>3. Does(h1, h2, 0, 1, 0, 0, 0)
  BY AboveDoes DEF Down
<1>4. Does(h2, h0, 2, 1, Down, 0, 0)
  BY AboveDoes DEF Down
<1>5. Does(h0, h0, 1, 1, 0, 0, 0)
  BY AboveDoes DEF Down
<1> HIDE DEF h0, h1, h2
<1>6. Effect("cs_pre_boolean_and", h0, h1)
  BY <1>2 DEF Effect, Inside
<1>7. Effect("primary", h1, h2)
  BY <1>3 DEF Effect, Inside, Giving
<1>8. Effect("cs_post_boolean_and", h2, h0)
  BY <1>4 DEF Effect, Inside
<1>9. Effect("operators", h0, h0)
  BY <1>5 DEF Effect, Inside
<1>10. "cs_pre_boolean_and" \in Name /\ "primary" \in Name /\ "cs_post_boolean_and" \in Name
      /\ "operators" \in Name
  BY DEF Name, Idle, Giving, Dropping
<1>11. Leads(rule, h0, h0)
  BY <1>1, <1>6, <1>7, <1>8, <1>9, <1>10, Chain4
<1> QED BY <1>11 DEF h0

LEMMA OrRule ==
  ASSUME NEW u \in Height, u.m = 0
  PROVE  Leads(<<"cs_pre_boolean_or", "primary", "cs_post_boolean_or", "operators">>,
               Above(u, 1, 0, 0, 0), Above(u, 1, 0, 0, 0))
<1> DEFINE h0 == Above(u, 1, 0, 0, 0)
           h1 == Above(u, 1, 1, 0, 0)
           h2 == Above(u, 2, 1, 0, 0)
           rule == <<"cs_pre_boolean_or", "primary", "cs_post_boolean_or", "operators">>
<1>1. h0 \in Height /\ h0.m = 0 /\ h1 \in Height /\ h1.m = 0 /\ h2 \in Height /\ h2.m = 0
  BY AboveType DEF Above
<1>2. Does(h0, h1, 1, 1, 1, 0, 0)
  BY AboveDoes DEF Down
<1>3. Does(h1, h2, 0, 1, 0, 0, 0)
  BY AboveDoes DEF Down
<1>4. Does(h2, h0, 2, 1, Down, 0, 0)
  BY AboveDoes DEF Down
<1>5. Does(h0, h0, 1, 1, 0, 0, 0)
  BY AboveDoes DEF Down
<1> HIDE DEF h0, h1, h2
<1>6. Effect("cs_pre_boolean_or", h0, h1)
  BY <1>2 DEF Effect, Inside
<1>7. Effect("primary", h1, h2)
  BY <1>3 DEF Effect, Inside, Giving
<1>8. Effect("cs_post_boolean_or", h2, h0)
  BY <1>4 DEF Effect, Inside
<1>9. Effect("operators", h0, h0)
  BY <1>5 DEF Effect, Inside
<1>10. "cs_pre_boolean_or" \in Name /\ "primary" \in Name /\ "cs_post_boolean_or" \in Name /\
      "operators" \in Name
  BY DEF Name, Idle, Giving, Dropping
<1>11. Leads(rule, h0, h0)
  BY <1>1, <1>6, <1>7, <1>8, <1>9, <1>10, Chain4
<1> QED BY <1>11 DEF h0

LEMMA QuestionRule ==
  ASSUME NEW u \in Height, u.m = 0
  PROVE  Leads(<<"cs_questionmark_op_pre_expr1", "expr", ":",
                 "cs_questionmark_op_pre_expr2", "expr", "cs_questionmark_op_post_expr2">>,
               Above(u, 1, 0, 0, 0), Above(u, 1, 0, 0, 0))
<1> DEFINE h0 == Above(u, 1, 0, 0, 0)
           h1 == Above(u, 1, 1, 0, 0)
           h2 == Above(u, 2, 1, 0, 0)
           h3 == Above(u, 3, 1, 0, 0)
           rule == <<"cs_questionmark_op_pre_expr1", "expr", ":",
                    "cs_questionmark_op_pre_expr2", "expr", "cs_questionmark_op_post_expr2">>
<1>1. h0 \in Height /\ h0.m = 0 /\ h1 \in Height /\ h1.m = 0 /\ h2 \in Height /\ h2.m = 0 /\
      h3 \in Height /\ h3.m = 0 /\ h1.c # 0 /\ h2.c # 0 /\ h3.c # 0
  BY AboveType, SMTT(40) DEF Above, Height
<1>2. Does(h0, h1, 1, 1, 1, 0, 0)
  BY AboveDoes DEF Down
<1>3. Does(h1, h2, 0, 1, 0, 0, 0)
  BY AboveDoes DEF Down
<1>4. Does(h2, h3, 0, 1, 0, 0, 0)
  BY AboveDoes DEF Down
<1>5. Does(h3, h0, 3, 1, Down, 0, 0)
  BY AboveDoes DEF Down
<1> HIDE DEF h0, h1, h2, h3
<1>6. Effect("cs_questionmark_op_pre_expr1", h0, h1)
  BY <1>2 DEF Effect, Inside
<1>7. Effect("expr", h1, h2)
  BY <1>3 DEF Effect, Inside, Giving
<1>8. Effect("expr", h2, h3)
  BY <1>4 DEF Effect, Inside, Giving
<1>9. Effect("cs_questionmark_op_post_expr2", h3, h0)
  BY <1>5 DEF Effect, Inside
<1>10. /\ Effect(":", h2, h2) /\ Effect("cs_questionmark_op_pre_expr2", h2, h2)
  BY <1>1, AboveIdle DEF Idle, Inside
<1>11. "cs_questionmark_op_pre_expr1" \in Name /\ "expr" \in Name /\ ":" \in Name /\
      "cs_questionmark_op_pre_expr2" \in Name /\ "cs_questionmark_op_post_expr2" \in Name
  BY DEF Name, Idle, Giving, Dropping
<1>12. Leads(rule, h0, h0)
  BY <1>1, <1>6, <1>7, <1>8, <1>9, <1>10, <1>11, Chain6
<1> QED BY <1>12 DEF h0

LEMMA ExprRule ==
  ASSUME NEW u \in Height, u.m = 0
  PROVE  Leads(<<"primary", "operators">>,
               Above(u, 0, 0, 0, 0), Above(u, 1, 0, 0, 0))
<1> DEFINE h0 == Above(u, 0, 0, 0, 0)
           h1 == Above(u, 1, 0, 0, 0)
           rule == <<"primary", "operators">>
<1>1. h0 \in Height /\ h0.m = 0 /\ h1 \in Height /\ h1.m = 0
  BY AboveType DEF Above
<1>2. Does(h0, h1, 0, 1, 0, 0, 0)
  BY AboveDoes DEF Down
<1>3. Does(h1, h1, 1, 1, 0, 0, 0)
  BY AboveDoes DEF Down
<1> HIDE DEF h0, h1
<1>4. Effect("primary", h0, h1)
  BY <1>2 DEF Effect, Inside, Giving
<1>5. Effect("operators", h1, h1)
  BY <1>3 DEF Effect, Inside
<1>6. "primary" \in Name /\ "operators" \in Name
  BY DEF Name, Idle, Giving, Dropping
<1>7. Leads(rule, h0, h1)
  BY <1>1, <1>4, <1>5, <1>6, Chain2
<1> QED BY <1>7 DEF h0, h1

LEMMA ExprStatementRule ==
  ASSUME NEW u \in Height, u.m = 0
  PROVE  Leads(<<"expr", ";", "drop">>,
               Above(u, 0, 0, 0, 0), Above(u, 0, 0, 0, 0))
<1> DEFINE h0 == Above(u, 0, 0, 0, 0)
           h1 == Above(u, 1, 0, 0, 0)
           rule == <<"expr", ";", "drop">>
<1>1. h0 \in Height /\ h0.m = 0 /\ h1 \in Height /\ h1.m = 0
  BY AboveType DEF Above
<1>2. Does(h0, h1, 0, 1, 0, 0, 0)
  BY AboveDoes DEF Down
<1>3. Does(h1, h0, 1, 0, 0, 0, 0)
  BY AboveDoes DEF Down
<1> HIDE DEF h0, h1
<1>4. Effect("expr", h0, h1)
  BY <1>2 DEF Effect, Inside, Giving
<1>5. Effect("drop", h1, h0)
  BY <1>3 DEF Effect, Inside, Dropping
<1>6. /\ Effect(";", h1, h1)
  BY <1>1, AboveIdle DEF Idle, Inside
<1>7. "expr" \in Name /\ ";" \in Name /\ "drop" \in Name
  BY DEF Name, Idle, Giving, Dropping
<1>8. Leads(rule, h0, h0)
  BY <1>1, <1>4, <1>5, <1>6, <1>7, Chain3
<1> QED BY <1>8 DEF h0

LEMMA ListRule ==
  ASSUME NEW u \in Height, u.m = 0
  PROVE  Leads(<<"statement", "statement_list">>,
               Above(u, 0, 0, 0, 0), Above(u, 0, 0, 0, 0))
<1> DEFINE h0 == Above(u, 0, 0, 0, 0)
           rule == <<"statement", "statement_list">>
<1>1. h0 \in Height /\ h0.m = 0
  BY AboveType DEF Above
<1> HIDE DEF h0
<1>2. /\ Effect("statement", h0, h0) /\ Effect("statement_list", h0, h0)
  BY <1>1, AboveIdle DEF Idle, Inside
<1>3. "statement" \in Name /\ "statement_list" \in Name
  BY DEF Name, Idle, Giving, Dropping
<1>4. Leads(rule, h0, h0)
  BY <1>1, <1>2, <1>3, Chain2
<1> QED BY <1>4 DEF h0

LEMMA ForExprRule ==
  ASSUME NEW u \in Height, u.m = 0
  PROVE  Leads(<<"expr">>,
               Above(u, 0, 0, 0, 0), Above(u, 1, 0, 0, 0))
<1> DEFINE h0 == Above(u, 0, 0, 0, 0)
           h1 == Above(u, 1, 0, 0, 0)
           rule == <<"expr">>
<1>1. h0 \in Height /\ h0.m = 0 /\ h1 \in Height /\ h1.m = 0
  BY AboveType DEF Above
<1>2. Does(h0, h1, 0, 1, 0, 0, 0)
  BY AboveDoes DEF Down
<1> HIDE DEF h0, h1
<1>3. Effect("expr", h0, h1)
  BY <1>2 DEF Effect, Inside, Giving
<1>4. "expr" \in Name
  BY DEF Name, Idle, Giving, Dropping
<1>5. Leads(rule, h0, h1)
  BY <1>1, <1>3, <1>4, Chain1
<1> QED BY <1>5 DEF h0, h1

LEMMA EmptyRule ==
  ASSUME NEW u \in Height, u.m = 0
  PROVE  Leads(<<"empty">>,
               Above(u, 0, 0, 0, 0), Above(u, 1, 0, 0, 0))
<1> DEFINE h0 == Above(u, 0, 0, 0, 0)
           h1 == Above(u, 1, 0, 0, 0)
           rule == <<"empty">>
<1>1. h0 \in Height /\ h0.m = 0 /\ h1 \in Height /\ h1.m = 0
  BY AboveType DEF Above
<1>2. Does(h0, h1, 0, 1, 0, 0, 0)
  BY AboveDoes DEF Down
<1> HIDE DEF h0, h1
<1>3. Effect("empty", h0, h1)
  BY <1>2 DEF Effect, Inside, Giving
<1>4. "empty" \in Name
  BY DEF Name, Idle, Giving, Dropping
<1>5. Leads(rule, h0, h1)
  BY <1>1, <1>3, <1>4, Chain1
<1> QED BY <1>5 DEF h0, h1

\* An offset on top of the values.
Marked(a) == With(a, Push("offset", a.v), 0)

LEMMA MarkedType ==
  ASSUME NEW a \in Height
  PROVE  /\ Marked(a) \in Height /\ Marked(a).m = 0 /\ Marked(a).c = a.c
         /\ Marked(a).v = Push("offset", a.v)
         /\ a.m = 0 => /\ Effect("offset of ;", a, Marked(a))
                       /\ Effect("offset of )", a, Marked(a))
<1>1. "offset" \in Kind
  BY DEF Kind
<1>2. Push("offset", a.v) \in Seq(Kind)
  BY <1>1, KindPushed DEF Height
<1>3. /\ Marked(a) \in Height /\ Marked(a).m = 0 /\ Marked(a).c = a.c
      /\ Marked(a).v = Push("offset", a.v)
  <2>1. 0 \in 0 .. 6
    OBVIOUS
  <2> QED BY <1>2, <2>1, WithType, Zenon DEF Marked
<1>4. a.m = 0 => GivesOffset(a, Marked(a))
  BY DEF GivesOffset, Marked
<1> QED BY <1>3, <1>4 DEF Effect, Inside

\* The header of a for statement leaves the offsets of its parts among the values,
\* and for_post_statement takes them away.
LEMMA ForRule ==
  ASSUME NEW u \in Height, u.m = 0
  PROVE  Leads(for_rule, u, u)
<1> DEFINE h1 == Above(u, 0, 1, 0, 1)
           h2 == Above(u, 1, 1, 0, 1)
           h3 == Marked(h1)
           h4 == Above(h3, 1, 0, 0, 0)
           h5 == Marked(h4)
           h6 == Above(h5, 1, 0, 0, 0)
           h7 == Marked(Marked(h1))
           h8 == Marked(h7)
<1>1. /\ h1 \in Height /\ h1.m = 0 /\ h1.c # 0 /\ h1.v = u.v
      /\ h2 \in Height /\ h2.m = 0 /\ h2.c # 0
  BY AboveType DEF Above, Values, Height
<1>2. /\ Does(u, h1, 0, 0, 1, 0, 1) /\ Does(h1, h2, 0, 1, 0, 0, 0)
      /\ Does(h2, h1, 1, 0, 0, 0, 0)
  <2>1. Above(u, 0, 0, 0, 0) = u
    BY AboveNone
  <2>2. Does(Above(u, 0, 0, 0, 0), h1, 0, 0, 1, 0, 1)
    BY AboveDoes
  <2>3. Does(h1, h2, 0, 1, 0, 0, 0)
    BY AboveDoes
  <2>4. Does(h2, h1, 1, 0, 0, 0, 0)
    BY AboveDoes
  <2> QED BY <2>1, <2>2, <2>3, <2>4, Zenon
<1>3. h1.s = u.s /\ h1.f = u.f /\ h1.c = u.c + 1 /\ h1.n = u.n + 1
  BY DEF Above, Height
<1> HIDE DEF h1, h2
<1>4. h3 \in Height /\ h3.m = 0 /\ h3.c # 0 /\ h3.v = Push("offset", u.v)
      /\ Effect("offset of ;", h1, h3)
  BY <1>1, MarkedType
<1>5. h4 \in Height /\ h4.m = 0 /\ h4.c # 0 /\ h4.v = Push("value", Push("offset", u.v))
      /\ Does(h3, h4, 0, 1, 0, 0, 0)
  <2>1. PICK h \in Height : h = h3
    BY <1>4, Zenon
  <2>2. Above(h, 0, 0, 0, 0) = h
    BY <1>4, <2>1, AboveNone
  <2>3. Does(Above(h, 0, 0, 0, 0), Above(h, 1, 0, 0, 0), 0, 1, 0, 0, 0)
    BY AboveDoes
  <2>4. Above(h, 1, 0, 0, 0) \in Height
    BY AboveType
  <2>5. /\ Above(h, 1, 0, 0, 0).m = 0 /\ Above(h, 1, 0, 0, 0).c = h.c
        /\ Above(h, 1, 0, 0, 0).v = Push("value", h.v)
    BY DEF Above, Values, Height
  <2> HIDE DEF h3
  <2> QED BY <1>4, <2>1, <2>2, <2>3, <2>4, <2>5
<1>6. h5 \in Height /\ h5.m = 0 /\ h5.c # 0
      /\ h5.v = Push("offset", Push("value", Push("offset", u.v)))
      /\ Effect("offset of ;", h4, h5)
  BY <1>5, MarkedType, ZenonT(60)
<1>7. h6 \in Height /\ h6.m = 0 /\ h6.c # 0
      /\ h6.v = Push("value", Push("offset", Push("value", Push("offset", u.v))))
      /\ Does(h5, h6, 0, 1, 0, 0, 0)
  <2>1. PICK h \in Height : h = h5
    BY <1>6, Zenon
  <2>2. Above(h, 0, 0, 0, 0) = h
    BY <1>6, <2>1, AboveNone
  <2>3. Does(Above(h, 0, 0, 0, 0), Above(h, 1, 0, 0, 0), 0, 1, 0, 0, 0)
    BY AboveDoes
  <2>4. Above(h, 1, 0, 0, 0) \in Height
    BY AboveType
  <2>5. /\ Above(h, 1, 0, 0, 0).m = 0 /\ Above(h, 1, 0, 0, 0).c = h.c
        /\ Above(h, 1, 0, 0, 0).v = Push("value", h.v)
    BY DEF Above, Values, Height
  <2> HIDE DEF h5
  <2> QED BY <1>6, <2>1, <2>2, <2>3, <2>4, <2>5
<1>8. h6.s = u.s /\ h6.f = u.f /\ h6.c = u.c + 1 /\ h6.n = u.n + 1
  <2>1. /\ h3.s = h1.s /\ h3.f = h1.f /\ h3.c = h1.c /\ h3.n = h1.n
        /\ h5.s = h4.s /\ h5.f = h4.f /\ h5.c = h4.c /\ h5.n = h4.n
    BY DEF Marked, With
  <2> HIDE DEF h3, h5
  <2>2. /\ h4.s = h3.s /\ h4.f = h3.f /\ h4.c = h3.c /\ h4.n = h3.n
        /\ h6.s = h5.s /\ h6.f = h5.f /\ h6.c = h5.c /\ h6.n = h5.n
    BY <1>4, <1>6, AboveSame, Zenon
  <2> QED BY <1>3, <2>1, <2>2, Zenon
<1>9. h7 \in Height /\ h7.m = 0 /\ h7.v = Push("offset", Push("offset", u.v))
      /\ h7.s = u.s /\ h7.f = u.f /\ h7.c = u.c + 1 /\ h7.n = u.n + 1
  <2>1. h7 \in Height /\ h7.m = 0 /\ h7.v = Push("offset", Push("offset", u.v))
    BY <1>1, <1>4, MarkedType
  <2> QED BY <1>1, <1>3, <2>1 DEF Marked, With, Height
<1> HIDE DEF h6
<1>10. LeavesHeader(h6, h7)
  <2>1. u.v \in Seq(Kind)
    BY DEF Height
  <2>2. h7 = With(h6, Push("offset", Push("offset", u.v)), 0)
    BY <1>8, <1>9 DEF With, Height
  <2> QED BY <1>7, <2>1, <2>2 DEF LeavesHeader
<1>11. h8 \in Height /\ h8.m = 0 /\ h8.v = Push("offset", Push("offset", Push("offset", u.v)))
       /\ Effect("offset of )", h7, h8)
       /\ h8.s = u.s /\ h8.f = u.f /\ h8.c = u.c + 1 /\ h8.n = u.n + 1
  <2>1. h8 \in Height /\ h8.m = 0 /\ h8.v = Push("offset", Push("offset", Push("offset", u.v)))
        /\ Effect("offset of )", h7, h8)
    BY <1>9, MarkedType
  <2> QED BY <1>9, <2>1, ZenonT(60) DEF Marked, With, Height
<1> HIDE DEF h3, h4, h5, h7, h8
<1>12. LeavesFor(h8, u)
  <2>1. u.v \in Seq(Kind)
    BY DEF Height
  <2>2. h8.c - 1 = u.c /\ h8.n - 1 = u.n
    <3>1. PICK c \in Nat, n \in Nat : c = u.c /\ n = u.n
      BY DEF Height
    <3>2. h8.c = c + 1 /\ h8.n = n + 1
      BY <1>11, <3>1, Zenon
    <3>3. (c + 1) - 1 = c /\ (n + 1) - 1 = n
      OBVIOUS
    <3> QED BY <3>1, <3>2, <3>3, Zenon
  <2>3. u = [v |-> u.v, c |-> h8.c - 1, s |-> h8.s, f |-> h8.f, n |-> h8.n - 1, m |-> 0]
    BY <1>11, <2>2 DEF Height
  <2> QED BY <1>11, <2>1, <2>3 DEF LeavesFor
<1>13. /\ Effect("for_pre_expr1", u, h1) /\ Effect("for_expr", h1, h2)
       /\ Effect("for_pre_expr2", h2, h1) /\ Effect("for_expr", h3, h4)
       /\ Effect("for_expr", h5, h6) /\ Effect("for_pre_statement", h6, h7)
       /\ Effect("for_post_statement", h8, u)
  BY <1>1, <1>2, <1>5, <1>7, <1>10, <1>12 DEF Effect, Giving, Dropping, Inside
<1>14. /\ Effect("(", h1, h1) /\ Effect("for_pre_expr3", h4, h4) /\ Effect("statement", h8, h8)
       /\ Effect("for_iterations", u, u)
  BY <1>1, <1>5, <1>11, AboveIdle DEF Idle, Inside
<1>15. /\ "for_pre_expr1" \in Name /\ "(" \in Name /\ "for_expr" \in Name
       /\ "for_pre_expr2" \in Name /\ "offset of ;" \in Name /\ "for_pre_expr3" \in Name
       /\ "for_pre_statement" \in Name /\ "offset of )" \in Name /\ "statement" \in Name
       /\ "for_post_statement" \in Name /\ "for_iterations" \in Name
  BY DEF Name, Idle, Giving, Dropping
<1>16. Leads(<<"for_pre_expr1", "(", "for_expr", "for_pre_expr2", "offset of ;", "for_expr",
               "for_pre_expr3", "offset of ;", "for_expr", "for_pre_statement",
               "offset of )", "statement", "for_post_statement", "for_iterations">>, u, u)
  <2>1. /\ h1 \in Height /\ h2 \in Height /\ h3 \in Height /\ h4 \in Height
        /\ h5 \in Height /\ h6 \in Height /\ h7 \in Height /\ h8 \in Height
    BY <1>1, <1>4, <1>5, <1>6, <1>7, <1>9, <1>11, Zenon
  <2>2. /\ Effect("offset of ;", h1, h3) /\ Effect("offset of ;", h4, h5)
        /\ Effect("offset of )", h7, h8)
    BY <1>4, <1>6, <1>11, Zenon
  <2> QED BY <2>1, <2>2, <1>13, <1>14, <1>15, Chain14, ZenonT(60)
<1> QED BY <1>16 DEF for_rule

\* A function call, from the place in the call 0 to 6 and back.
LEMMA CallRule ==
  ASSUME NEW u \in Height, u.m = 0
  PROVE  Leads(call_rule, u, Above(u, 1, 0, 0, 0))
<1> DEFINE w1 == Push("call", u.v)
           w3 == Push("offset", w1)
           w4 == Push("offset", Push("skipped", u.v))
           h1 == With(u, w1, 1)
           h2 == With(u, w1, 2)
           h3 == With(u, w3, 3)
           h4 == With(u, w4, 6)
           h5 == With(u, w4, 5)
           z == With(u, Push("value", u.v), 0)
<1>1. u.v \in Seq(Kind) /\ w1 \in Seq(Kind) /\ w3 \in Seq(Kind) /\ w4 \in Seq(Kind)
      /\ Push("value", u.v) \in Seq(Kind)
  <2>1. "call" \in Kind /\ "offset" \in Kind /\ "skipped" \in Kind /\ "value" \in Kind
    BY DEF Kind
  <2>2. u.v \in Seq(Kind)
    BY DEF Height
  <2>3. w1 \in Seq(Kind) /\ Push("skipped", u.v) \in Seq(Kind) /\ Push("value", u.v) \in Seq(Kind)
    BY <2>1, <2>2, KindPushed
  <2> QED BY <2>1, <2>2, <2>3, KindPushed
<1>2. /\ h1 \in Height /\ h1.v = w1 /\ h1.m = 1
      /\ h2 \in Height /\ h2.v = w1 /\ h2.m = 2
      /\ h3 \in Height /\ h3.v = w3 /\ h3.m = 3
      /\ h4 \in Height /\ h4.v = w4 /\ h4.m = 6
      /\ h5 \in Height /\ h5.v = w4 /\ h5.m = 5
      /\ z \in Height
  <2> HIDE DEF w1, w3, w4
  <2> QED BY <1>1, WithType
<1>3. /\ h2 = With(h1, w1, 2) /\ h3 = With(h2, w3, 3) /\ h4 = With(h3, w4, 6)
      /\ h5 = With(h4, w4, 5) /\ z = With(h5, Push("value", u.v), 0)
  BY WithWith
<1> HIDE DEF h1, h2, h3, h4, h5, z
<1>4. Asks(u, h1)
  BY DEF Asks, h1
<1>5. Parenthesis(h1, h2) /\ ClosesCall(h2, h3) /\ Bodyless(h4, h5)
  <2>1. w1 # <<>>
    <3>1. "call" \in Kind /\ u.v \in Seq(Kind)
      BY DEF Kind, Height
    <3> QED BY <3>1, Pushed
  <2> HIDE DEF w1
  <2> QED BY <1>2, <1>3, <2>1 DEF Parenthesis, ClosesCall, Bodyless
<1>6. Skips(h3, h4) /\ EndsSkipped(h5, z)
  BY <1>1, <1>2, <1>3 DEF Skips, EndsSkipped
<1>7. /\ Effect("cs_functioncall_pre_variable_passing", u, h1) /\ Effect("(", h1, h2)
      /\ Effect("offset of )", h2, h3) /\ Effect("cs_functioncall_post_variable_passing", h3, h4)
      /\ Effect("possible_function_call", h4, h5) /\ Effect("cs_functioncall_end", h5, z)
  BY <1>4, <1>5, <1>6 DEF Effect, Inside
<1>8. /\ "cs_functioncall_pre_variable_passing" \in Name /\ "(" \in Name
      /\ "offset of )" \in Name /\ "cs_functioncall_post_variable_passing" \in Name
      /\ "possible_function_call" \in Name /\ "cs_functioncall_end" \in Name
  BY DEF Name
<1>9. Leads(call_rule, u, z)
  BY <1>2, <1>7, <1>8, Chain6, Zenon DEF call_rule
<1> QED BY <1>9, AboveWith DEF z

-----------------------------------------------------------------------------
(* A rule does what its symbol does *)

LEMMA OfSymbol ==
  ASSUME NEW x, NEW a, NEW b, Effect(x, a, b)
  PROVE  /\ x \in Idle => a.m = 0 /\ b = a
         /\ x \in Giving => Does(a, b, 0, 1, 0, 0, 0)
         /\ x = "operators" => Does(a, b, 1, 1, 0, 0, 0)
         /\ x = "case_list" => a.c # 0
         /\ x = "possible_function_call" => Bodyless(a, b)
BY DEF Effect, Idle, Giving, Dropping, Inside, Keeps

LEMMA OfGiving ==
  ASSUME NEW a \in Height, NEW b, Does(a, b, 0, 1, 0, 0, 0)
  PROVE  a.m = 0 /\ b = Above(a, 1, 0, 0, 0)
BY DEF Does, Above, Values

LEMMA OfOperators ==
  ASSUME NEW a \in Height, NEW b \in Height, Does(a, b, 1, 1, 0, 0, 0)
  PROVE  a.m = 0 /\ b = a /\ \E u \in Height : u.m = 0 /\ a = Above(u, 1, 0, 0, 0)
<1>1. PICK w \in Seq(Kind) :
        /\ a.m = 0 /\ a.v = Push("value", w)
        /\ b = [v |-> Push("value", w), c |-> a.c + 0, s |-> a.s + 0, f |-> a.f, n |-> a.n + 0,
                m |-> 0]
  BY DEF Does, Values
<1>2. b = a
  BY <1>1 DEF Height
<1>3. PICK u \in Height : u = With(a, w, 0) /\ u.v = w /\ u.m = 0 /\ u.c = a.c /\ u.s = a.s
                          /\ u.f = a.f /\ u.n = a.n
  <2>1. 0 \in 0 .. 6
    OBVIOUS
  <2>2. LET u == With(a, w, 0)
        IN  u \in Height /\ u.v = w /\ u.m = 0 /\ u.c = a.c /\ u.s = a.s /\ u.f = a.f
            /\ u.n = a.n
    BY <2>1, WithType
  <2> QED BY <2>2, Zenon
<1>4. a = With(u, Push("value", u.v), 0)
  BY <1>1, <1>3 DEF With, Height
<1> QED BY <1>1, <1>2, <1>3, <1>4, AboveWith

LEMMA Enclosed ==
  ASSUME NEW x, NEW p, NEW q, NEW r, NEW s, NEW t, NEW y,
         NEW a, NEW z, Leads(<<x, p, q, r, s, t, y>>, a, z)
  PROVE  Leads(<<x>> \o <<p, q, r, s, t>> \o <<y>>, a, z)
<1>1. <<x, p, q, r, s, t, y>> = <<x>> \o <<p, q, r, s, t>> \o <<y>>
  OBVIOUS
<1> QED BY <1>1, Zenon

\* Rules of symbols that leave everything as it is.
LEMMA KeptRule ==
  ASSUME NEW r \in Grammar, r[1] \notin {"possible_function_call", "primary", "operators"},
         NEW a \in Height, a.m = 0, r[1] = "case_list" => a.c # 0
  PROVE  r[1] \in Idle /\ Leads(r[3], a, a)
<1>1. Above(a, 0, 0, 0, 0) = a
  BY AboveNone
<1>2. Leads(<<"start_function_decleration", "(", ")", "{", "statement_list", "}",
              "end_function_decleration">>, a, a)
  BY <1>1, DeclarationRule
<1>3. Leads(<<"restore_token", "(", ")", "{", "statement_list", "}",
              "terminate_phpparse">>, a, a)
  BY <1>1, CalledRule
<1>4. ASSUME r = <<"statement", "{", <<"statement_list", "}">>>>
      PROVE  r[1] \in Idle /\ Leads(r[3], a, a)
  <2>1. r[1] = "statement" /\ r[3] = <<"statement_list", "}">>
    BY <1>4
  <2>2. "statement" \in Idle
    BY DEF Idle
  <2>3. Leads(<<"statement_list", "}">>, a, a)
    BY <1>1, BlockRule
  <2> QED BY <2>1, <2>2, <2>3
<1>5. ASSUME r = <<"statement", ";", <<>>>> PROVE r[1] \in Idle /\ Leads(r[3], a, a)
  <2>1. r[1] = "statement" /\ r[3] = <<>>
    BY <1>5
  <2>2. "statement" \in Idle
    BY DEF Idle
  <2> QED BY <2>1, <2>2, LeadsNowhere
<1>6. ASSUME r = <<"statement", "IF", <<"(", "expr", ")", "cs_start_if", "statement",
                 "elseif_list", "else_single", "cs_end_if">>>>
      PROVE  r[1] \in Idle /\ Leads(r[3], a, a)
  <2>1. r[1] = "statement"
        /\ r[3] = <<"(", "expr", ")", "cs_start_if", "statement", "elseif_list", "else_single",
                   "cs_end_if">>
    BY <1>6
  <2>2. "statement" \in Idle
    BY DEF Idle
  <2>3. Leads(<<"(", "expr", ")", "cs_start_if", "statement", "elseif_list", "else_single",
              "cs_end_if">>, a, a)
    BY <1>1, IfRule
  <2> QED BY <2>1, <2>2, <2>3
<1>7. ASSUME r = <<"statement", "WHILE", while_rule>> PROVE r[1] \in Idle /\ Leads(r[3], a, a)
  <2>1. r[1] = "statement" /\ r[3] = while_rule
    BY <1>7
  <2>2. "statement" \in Idle
    BY DEF Idle
  <2>3. Leads(while_rule, a, a)
    BY <1>1, WhileRule DEF while_rule
  <2> QED BY <2>1, <2>2, <2>3
<1>8. ASSUME r = <<"statement", "DO", dowhile_rule>> PROVE r[1] \in Idle /\ Leads(r[3], a, a)
  <2>1. r[1] = "statement" /\ r[3] = dowhile_rule
    BY <1>8
  <2>2. "statement" \in Idle
    BY DEF Idle
  <2>3. Leads(dowhile_rule, a, a)
    BY <1>1, DoRule DEF dowhile_rule
  <2> QED BY <2>1, <2>2, <2>3
<1>9. ASSUME r = <<"statement", "FOR", for_rule>> PROVE r[1] \in Idle /\ Leads(r[3], a, a)
  <2>1. r[1] = "statement" /\ r[3] = for_rule
    BY <1>9
  <2>2. "statement" \in Idle
    BY DEF Idle
  <2> QED BY <2>1, <2>2, ForRule
<1>10. ASSUME r = <<"statement", "SWITCH", <<"(", "expr", ")", "cs_switch_start", "{",
                 "case_list", "}", "cs_switch_end">>>> PROVE r[1] \in Idle /\ Leads(r[3], a, a)
  <2>1. r[1] = "statement"
        /\ r[3] = <<"(", "expr", ")", "cs_switch_start", "{", "case_list", "}", "cs_switch_end">>
    BY <1>10
  <2>2. "statement" \in Idle
    BY DEF Idle
  <2>3. Leads(<<"(", "expr", ")", "cs_switch_start", "{", "case_list", "}",
              "cs_switch_end">>, a, a)
    BY <1>1, SwitchRule
  <2> QED BY <2>1, <2>2, <2>3
<1>11. ASSUME r = <<"statement", "BREAK", <<";", "cs_break_continue">>>>
       PROVE  r[1] \in Idle /\ Leads(r[3], a, a)
  <2>1. r[1] = "statement" /\ r[3] = <<";", "cs_break_continue">>
    BY <1>11
  <2>2. "statement" \in Idle
    BY DEF Idle
  <2>3. Leads(<<";", "cs_break_continue">>, a, a)
    BY <1>1, BreakRule
  <2> QED BY <2>1, <2>2, <2>3
<1>12. ASSUME r = <<"statement", "CONTINUE", <<";", "cs_break_continue">>>>
       PROVE  r[1] \in Idle /\ Leads(r[3], a, a)
  <2>1. r[1] = "statement" /\ r[3] = <<";", "cs_break_continue">>
    BY <1>12
  <2>2. "statement" \in Idle
    BY DEF Idle
  <2>3. Leads(<<";", "cs_break_continue">>, a, a)
    BY <1>1, BreakRule
  <2> QED BY <2>1, <2>2, <2>3
<1>13. ASSUME r = <<"statement", "RETURN", <<"expr", ";", "cs_return">>>>
       PROVE  r[1] \in Idle /\ Leads(r[3], a, a)
  <2>1. r[1] = "statement" /\ r[3] = <<"expr", ";", "cs_return">>
    BY <1>13
  <2>2. "statement" \in Idle
    BY DEF Idle
  <2>3. Leads(<<"expr", ";", "cs_return">>, a, a)
    BY <1>1, ReturnRule
  <2> QED BY <2>1, <2>2, <2>3
<1>14. ASSUME r = <<"statement", "FUNCTION", <<"start_function_decleration">> \o function_body
                 \o <<"end_function_decleration">>>> PROVE r[1] \in Idle /\ Leads(r[3], a, a)
  <2>1. r[1] = "statement" /\ r[3] = <<"start_function_decleration">> \o function_body \o
          <<"end_function_decleration">>
    BY <1>14
  <2>2. "statement" \in Idle
    BY DEF Idle
  <2>3. Leads(<<"start_function_decleration">> \o function_body
                \o <<"end_function_decleration">>, a, a)
    BY <1>2, Enclosed, Zenon DEF function_body
  <2>4. Leads(r[3], a, a)
    BY <2>1, <2>3, Zenon
  <2> QED BY <2>1, <2>2, <2>4, Zenon
<1>15. ASSUME r = <<"statement", "IC_FUNCTION", <<"restore_token">> \o function_body \o
                 <<"terminate_phpparse">>>> PROVE r[1] \in Idle /\ Leads(r[3], a, a)
  <2>1. r[1] = "statement"
        /\ r[3] = <<"restore_token">> \o function_body \o <<"terminate_phpparse">>
    BY <1>15
  <2>2. "statement" \in Idle
    BY DEF Idle
  <2>3. Leads(<<"restore_token">> \o function_body \o <<"terminate_phpparse">>, a, a)
    BY <1>3, Enclosed, Zenon DEF function_body
  <2>4. Leads(r[3], a, a)
    BY <2>1, <2>3, Zenon
  <2> QED BY <2>1, <2>2, <2>4, Zenon
<1>16. ASSUME r = <<"while_iterations", "CONTINUED_WHILE", while_rule>>
       PROVE  r[1] \in Idle /\ Leads(r[3], a, a)
  <2>1. r[1] = "while_iterations" /\ r[3] = while_rule
    BY <1>16
  <2>2. "while_iterations" \in Idle
    BY DEF Idle
  <2>3. Leads(while_rule, a, a)
    BY <1>1, WhileRule DEF while_rule
  <2> QED BY <2>1, <2>2, <2>3
<1>17. ASSUME r = <<"do_while_iterations", "CONTINUED_DOWHILE", dowhile_rule>>
       PROVE  r[1] \in Idle /\ Leads(r[3], a, a)
  <2>1. r[1] = "do_while_iterations" /\ r[3] = dowhile_rule
    BY <1>17
  <2>2. "do_while_iterations" \in Idle
    BY DEF Idle
  <2>3. Leads(dowhile_rule, a, a)
    BY <1>1, DoRule DEF dowhile_rule
  <2> QED BY <2>1, <2>2, <2>3
<1>18. ASSUME r = <<"for_iterations", "CONTINUED_FOR", for_rule>>
       PROVE  r[1] \in Idle /\ Leads(r[3], a, a)
  <2>1. r[1] = "for_iterations" /\ r[3] = for_rule
    BY <1>18
  <2>2. "for_iterations" \in Idle
    BY DEF Idle
  <2> QED BY <2>1, <2>2, ForRule
<1>19. ASSUME r = <<"elseif_list", "ELSEIF", <<"(", "cs_elseif_start_evaluate", "expr",
                 "cs_elseif_end_evaluate", ")", "cs_start_elseif", "statement",
                 "elseif_list">>>> PROVE r[1] \in Idle /\ Leads(r[3], a, a)
  <2>1. r[1] = "elseif_list"
        /\ r[3] = <<"(", "cs_elseif_start_evaluate", "expr", "cs_elseif_end_evaluate", ")",
          "cs_start_elseif", "statement", "elseif_list">>
    BY <1>19
  <2>2. "elseif_list" \in Idle
    BY DEF Idle
  <2>3. Leads(<<"(", "cs_elseif_start_evaluate", "expr", "cs_elseif_end_evaluate", ")",
              "cs_start_elseif", "statement", "elseif_list">>, a, a)
    BY <1>1, ElseifRule
  <2> QED BY <2>1, <2>2, <2>3
<1>20. ASSUME r = <<"else_single", "ELSE", <<"cs_start_else", "statement">>>>
       PROVE  r[1] \in Idle /\ Leads(r[3], a, a)
  <2>1. r[1] = "else_single" /\ r[3] = <<"cs_start_else", "statement">>
    BY <1>20
  <2>2. "else_single" \in Idle
    BY DEF Idle
  <2>3. Leads(<<"cs_start_else", "statement">>, a, a)
    BY <1>1, ElseRule
  <2> QED BY <2>1, <2>2, <2>3
<1>21. ASSUME r = <<"case_list", "CASE", <<"expr", ":", "cs_switch_case_pre", "statement_list",
                 "cs_switch_case_post", "case_list">>>> PROVE r[1] \in Idle /\ Leads(r[3], a, a)
  <2>1. r[1] = "case_list"
        /\ r[3] = <<"expr", ":", "cs_switch_case_pre", "statement_list", "cs_switch_case_post",
          "case_list">>
    BY <1>21
  <2>2. "case_list" \in Idle
    BY DEF Idle
  <2>3. a.c # 0
    BY <2>1
  <2>4. Leads(<<"expr", ":", "cs_switch_case_pre", "statement_list", "cs_switch_case_post",
              "case_list">>, a, a)
    BY <1>1, <2>3, CaseRule
  <2> QED BY <2>1, <2>2, <2>4
<1>22. ASSUME r = <<"case_list", "DEFAULT", <<":", "cs_switch_default_pre", "statement_list",
                 "cs_switch_case_post">>>> PROVE r[1] \in Idle /\ Leads(r[3], a, a)
  <2>1. r[1] = "case_list"
        /\ r[3] = <<":", "cs_switch_default_pre", "statement_list", "cs_switch_case_post">>
    BY <1>22
  <2>2. "case_list" \in Idle
    BY DEF Idle
  <2>3. a.c # 0
    BY <2>1
  <2>4. Leads(<<":", "cs_switch_default_pre", "statement_list", "cs_switch_case_post">>, a, a)
    BY <1>1, <2>3, DefaultRule
  <2> QED BY <2>1, <2>2, <2>4
<1>23. r # <<"possible_function_call", "FUNCTION", function_body>>
  OBVIOUS
<1>24. r # <<"primary", "VARIABLE", <<"evaluate">>>>
  OBVIOUS
<1>25. r # <<"primary", "SCALAR", <<"evaluate">>>>
  OBVIOUS
<1>26. r # <<"primary", "CALL", call_rule>>
  OBVIOUS
<1>27. r # <<"primary", "ARRAY_WALK", call_rule>>
  OBVIOUS
<1>28. r # <<"operators", "&&", <<"cs_pre_boolean_and", "primary", "cs_post_boolean_and",
            "operators">>>>
  OBVIOUS
<1>29. r # <<"operators", "||", <<"cs_pre_boolean_or", "primary", "cs_post_boolean_or",
            "operators">>>>
  OBVIOUS
<1>30. r # <<"operators", "?", <<"cs_questionmark_op_pre_expr1", "expr", ":",
            "cs_questionmark_op_pre_expr2", "expr", "cs_questionmark_op_post_expr2">>>>
  OBVIOUS
<1> QED BY <1>4, <1>5, <1>6, <1>7, <1>8, <1>9, <1>10, <1>11, <1>12, <1>13, <1>14, <1>15, <1>16,
       <1>17, <1>18, <1>19, <1>20, <1>21, <1>22, <1>23, <1>24, <1>25, <1>26, <1>27, <1>28,
       <1>29, <1>30, Zenon DEF Grammar

LEMMA OtherRule ==
  ASSUME NEW r \in Grammar, NEW a \in Height, a.m = 0
  PROVE  /\ r[1] = "possible_function_call" => Leads(r[3], a, a)
         /\ r[1] = "primary" => Leads(r[3], a, Above(a, 1, 0, 0, 0))
         /\ r[1] = "operators" => Leads(r[3], Above(a, 1, 0, 0, 0), Above(a, 1, 0, 0, 0))
<1>1. Above(a, 0, 0, 0, 0) = a
  BY AboveNone
<1> DEFINE Goal ==
      /\ r[1] = "possible_function_call" => Leads(r[3], a, a)
      /\ r[1] = "primary" => Leads(r[3], a, Above(a, 1, 0, 0, 0))
      /\ r[1] = "operators" => Leads(r[3], Above(a, 1, 0, 0, 0), Above(a, 1, 0, 0, 0))
<1>2. ASSUME r = <<"possible_function_call", "FUNCTION", function_body>> PROVE Goal
  <2>1. r[1] = "possible_function_call" /\ r[3] = function_body
    BY <1>2
  <2>2. Leads(function_body, a, a)
    BY <1>1, BodyRule DEF function_body
  <2> QED BY <2>1, <2>2
<1>3. ASSUME r = <<"primary", "VARIABLE", <<"evaluate">>>> PROVE Goal
  <2>1. r[1] = "primary" /\ r[3] = <<"evaluate">>
    BY <1>3
  <2>2. Leads(<<"evaluate">>, a, Above(a, 1, 0, 0, 0))
    BY <1>1, EvaluateRule
  <2> QED BY <2>1, <2>2
<1>4. ASSUME r = <<"primary", "SCALAR", <<"evaluate">>>> PROVE Goal
  <2>1. r[1] = "primary" /\ r[3] = <<"evaluate">>
    BY <1>4
  <2>2. Leads(<<"evaluate">>, a, Above(a, 1, 0, 0, 0))
    BY <1>1, EvaluateRule
  <2> QED BY <2>1, <2>2
<1>5. ASSUME r = <<"primary", "CALL", call_rule>> PROVE Goal
  <2>1. r[1] = "primary" /\ r[3] = call_rule
    BY <1>5
  <2>2. Leads(call_rule, a, Above(a, 1, 0, 0, 0))
    BY <1>1, CallRule
  <2> QED BY <2>1, <2>2
<1>6. ASSUME r = <<"primary", "ARRAY_WALK", call_rule>> PROVE Goal
  <2>1. r[1] = "primary" /\ r[3] = call_rule
    BY <1>6
  <2>2. Leads(call_rule, a, Above(a, 1, 0, 0, 0))
    BY <1>1, CallRule
  <2> QED BY <2>1, <2>2
<1>7. ASSUME r = <<"operators", "&&", <<"cs_pre_boolean_and", "primary",
                 "cs_post_boolean_and", "operators">>>> PROVE Goal
  <2>1. r[1] = "operators"
        /\ r[3] = <<"cs_pre_boolean_and", "primary", "cs_post_boolean_and", "operators">>
    BY <1>7
  <2>2. Leads(<<"cs_pre_boolean_and", "primary", "cs_post_boolean_and", "operators">>,
              Above(a, 1, 0, 0, 0), Above(a, 1, 0, 0, 0))
    BY AndRule
  <2> QED BY <2>1, <2>2
<1>8. ASSUME r = <<"operators", "||", <<"cs_pre_boolean_or", "primary", "cs_post_boolean_or",
                 "operators">>>> PROVE Goal
  <2>1. r[1] = "operators"
        /\ r[3] = <<"cs_pre_boolean_or", "primary", "cs_post_boolean_or", "operators">>
    BY <1>8
  <2>2. Leads(<<"cs_pre_boolean_or", "primary", "cs_post_boolean_or", "operators">>,
              Above(a, 1, 0, 0, 0), Above(a, 1, 0, 0, 0))
    BY OrRule
  <2> QED BY <2>1, <2>2
<1>9. ASSUME r = <<"operators", "?", <<"cs_questionmark_op_pre_expr1", "expr", ":",
                 "cs_questionmark_op_pre_expr2", "expr", "cs_questionmark_op_post_expr2">>>>
      PROVE  Goal
  <2>1. r[1] = "operators"
        /\ r[3] = <<"cs_questionmark_op_pre_expr1", "expr", ":", "cs_questionmark_op_pre_expr2",
          "expr", "cs_questionmark_op_post_expr2">>
    BY <1>9
  <2>2. Leads(<<"cs_questionmark_op_pre_expr1", "expr", ":", "cs_questionmark_op_pre_expr2",
              "expr", "cs_questionmark_op_post_expr2">>,
              Above(a, 1, 0, 0, 0), Above(a, 1, 0, 0, 0))
    BY QuestionRule
  <2> QED BY <2>1, <2>2
<1>10. ASSUME r = <<"statement", "{", <<"statement_list", "}">>>> PROVE Goal
  BY <1>10
<1>11. ASSUME r = <<"statement", ";", <<>>>> PROVE Goal
  BY <1>11
<1>12. ASSUME r = <<"statement", "IF", <<"(", "expr", ")", "cs_start_if", "statement",
                 "elseif_list", "else_single", "cs_end_if">>>> PROVE Goal
  BY <1>12
<1>13. ASSUME r = <<"statement", "WHILE", while_rule>> PROVE Goal
  BY <1>13
<1>14. ASSUME r = <<"statement", "DO", dowhile_rule>> PROVE Goal
  BY <1>14
<1>15. ASSUME r = <<"statement", "FOR", for_rule>> PROVE Goal
  BY <1>15
<1>16. ASSUME r = <<"statement", "SWITCH", <<"(", "expr", ")", "cs_switch_start", "{",
                 "case_list", "}", "cs_switch_end">>>> PROVE Goal
  BY <1>16
<1>17. ASSUME r = <<"statement", "BREAK", <<";", "cs_break_continue">>>> PROVE Goal
  BY <1>17
<1>18. ASSUME r = <<"statement", "CONTINUE", <<";", "cs_break_continue">>>> PROVE Goal
  BY <1>18
<1>19. ASSUME r = <<"statement", "RETURN", <<"expr", ";", "cs_return">>>> PROVE Goal
  BY <1>19
<1>20. ASSUME r = <<"statement", "FUNCTION", <<"start_function_decleration">> \o function_body
                 \o <<"end_function_decleration">>>> PROVE Goal
  BY <1>20
<1>21. ASSUME r = <<"statement", "IC_FUNCTION", <<"restore_token">> \o function_body \o
                 <<"terminate_phpparse">>>> PROVE Goal
  BY <1>21
<1>22. ASSUME r = <<"while_iterations", "CONTINUED_WHILE", while_rule>> PROVE Goal
  BY <1>22
<1>23. ASSUME r = <<"do_while_iterations", "CONTINUED_DOWHILE", dowhile_rule>> PROVE Goal
  BY <1>23
<1>24. ASSUME r = <<"for_iterations", "CONTINUED_FOR", for_rule>> PROVE Goal
  BY <1>24
<1>25. ASSUME r = <<"elseif_list", "ELSEIF", <<"(", "cs_elseif_start_evaluate", "expr",
                 "cs_elseif_end_evaluate", ")", "cs_start_elseif", "statement",
                 "elseif_list">>>> PROVE Goal
  BY <1>25
<1>26. ASSUME r = <<"else_single", "ELSE", <<"cs_start_else", "statement">>>> PROVE Goal
  BY <1>26
<1>27. ASSUME r = <<"case_list", "CASE", <<"expr", ":", "cs_switch_case_pre", "statement_list",
                 "cs_switch_case_post", "case_list">>>> PROVE Goal
  BY <1>27
<1>28. ASSUME r = <<"case_list", "DEFAULT", <<":", "cs_switch_default_pre", "statement_list",
                 "cs_switch_case_post">>>> PROVE Goal
  BY <1>28
<1> HIDE DEF Goal
<1>29. Goal
  BY <1>2, <1>3, <1>4, <1>5, <1>6, <1>7, <1>8, <1>9, <1>10, <1>11, <1>12, <1>13, <1>14,
     <1>15, <1>16, <1>17, <1>18, <1>19, <1>20, <1>21, <1>22, <1>23, <1>24, <1>25, <1>26,
     <1>27, <1>28, Zenon DEF Grammar
<1> QED BY <1>29 DEF Goal

LEMMA OtherwiseRule ==
  ASSUME NEW x \in Nonterminals, NEW type, NEW rule \in Otherwise(x, type),
         NEW a \in Height, NEW b \in Height, Effect(x, a, b),
         x # "possible_function_call"
  PROVE  a.m = 0 /\ Leads(rule, a, b)
<1>1. ASSUME x \in Idle PROVE a.m = 0 /\ b = a
  BY <1>1, OfSymbol, Zenon
<1>2. ASSUME x \in Giving PROVE a.m = 0 /\ b = Above(a, 1, 0, 0, 0)
  BY <1>2, OfSymbol, OfGiving, Zenon
<1>3. a.m = 0 => Above(a, 0, 0, 0, 0) = a
  BY AboveNone
<1>4. CASE x = "expr"
  <2>1. rule = <<"primary", "operators">> /\ x \in Giving
    BY <1>4 DEF Otherwise, Giving
  <2>2. a.m = 0 /\ b = Above(a, 1, 0, 0, 0) /\ Above(a, 0, 0, 0, 0) = a
    BY <1>2, <1>3, <2>1
  <2>3. Leads(<<"primary", "operators">>, Above(a, 0, 0, 0, 0), Above(a, 1, 0, 0, 0))
    BY <2>2, ExprRule
  <2> QED BY <2>1, <2>2, <2>3
<1>5. CASE x = "statement"
  <2>1. rule = <<"expr", ";", "drop">> /\ x \in Idle
    BY <1>5 DEF Otherwise, Idle
  <2>2. a.m = 0 /\ b = a /\ Above(a, 0, 0, 0, 0) = a
    BY <1>1, <1>3, <2>1
  <2>3. Leads(<<"expr", ";", "drop">>, Above(a, 0, 0, 0, 0), Above(a, 0, 0, 0, 0))
    BY <2>2, ExprStatementRule
  <2> QED BY <2>1, <2>2, <2>3
<1>6. CASE x = "statement_list"
  <2>1. rule \in {<<>>, <<"statement", "statement_list">>} /\ x \in Idle
    BY <1>6 DEF Otherwise, Idle
  <2>2. a.m = 0 /\ b = a /\ Above(a, 0, 0, 0, 0) = a
    BY <1>1, <1>3, <2>1
  <2>3. Leads(<<"statement", "statement_list">>, Above(a, 0, 0, 0, 0), Above(a, 0, 0, 0, 0))
    BY <2>2, ListRule
  <2> QED BY <2>1, <2>2, <2>3, LeadsNowhere
<1>7. CASE x = "for_expr"
  <2>1. rule \in {<<"expr">>, <<"empty">>} /\ x \in Giving
    BY <1>7 DEF Otherwise, Giving
  <2>2. a.m = 0 /\ b = Above(a, 1, 0, 0, 0) /\ Above(a, 0, 0, 0, 0) = a
    BY <1>2, <1>3, <2>1
  <2>3. Leads(<<"expr">>, Above(a, 0, 0, 0, 0), Above(a, 1, 0, 0, 0))
    BY <2>2, ForExprRule
  <2>4. Leads(<<"empty">>, Above(a, 0, 0, 0, 0), Above(a, 1, 0, 0, 0))
    BY <2>2, EmptyRule
  <2> QED BY <2>1, <2>2, <2>3, <2>4
<1>8. CASE x = "primary"
  BY <1>8 DEF Otherwise
<1>9. CASE x = "operators"
  <2>1. rule = <<>>
    BY <1>9 DEF Otherwise
  <2>2. a.m = 0 /\ b = a
    BY <1>9, OfSymbol, OfOperators, Zenon
  <2> QED BY <2>1, <2>2, LeadsNowhere
<1>10. CASE x \in {"while_iterations", "do_while_iterations", "for_iterations", "elseif_list",
                   "else_single", "case_list"}
  <2>1. rule = <<>> /\ x \in Idle
    BY <1>10 DEF Otherwise, Idle
  <2> QED BY <1>1, <2>1, LeadsNowhere
<1> QED BY <1>4, <1>5, <1>6, <1>7, <1>8, <1>9, <1>10 DEF Nonterminals

\* A rule for x, whichever way it was found.
IsRule(x, rule) == \E type : rule \in Rules(x, type) \/ rule \in Otherwise(x, type)

\* Whatever rule the parser chooses for a symbol, its symbols lead where the symbol
\* would have led.
LEMMA RuleLeads ==
  ASSUME NEW x \in Nonterminals, NEW rule, IsRule(x, rule),
         NEW a \in Height, NEW b \in Height, Effect(x, a, b)
  PROVE  /\ x # "possible_function_call" => a.m = 0 /\ Leads(rule, a, b)
         /\ x = "possible_function_call" =>
              Bodyless(a, b) /\ Leads(rule, With(a, a.v, 0), With(a, a.v, 0))
<1>1. a.v \in Seq(Kind) /\ With(a, a.v, 0) \in Height /\ With(a, a.v, 0).m = 0
  <2>1. a.v \in Seq(Kind) /\ 0 \in 0 .. 6
    BY DEF Height
  <2> QED BY <2>1, WithType
<1>2. CASE x = "possible_function_call"
  <2>1. Bodyless(a, b)
    BY <1>2, OfSymbol, Zenon
  <2>2. CASE \E type : rule \in Rules(x, type)
    <3>1. PICK r \in Grammar : r[1] = x /\ rule = r[3]
      BY <2>2, Zenon DEF Rules
    <3> QED BY <1>1, <1>2, <2>1, <3>1, OtherRule
  <2>3. CASE \E type : rule \in Otherwise(x, type)
    <3>1. rule = <<>>
      BY <1>2, <2>3 DEF Otherwise
    <3> QED BY <1>1, <1>2, <2>1, <3>1, LeadsNowhere
  <2> QED BY <2>2, <2>3 DEF IsRule
<1>3. CASE x # "possible_function_call" /\ \E type : rule \in Rules(x, type)
  <2>1. PICK r \in Grammar : r[1] = x /\ rule = r[3]
    BY <1>3, Zenon DEF Rules
  <2>2. CASE x = "primary"
    <3>1. a.m = 0 /\ b = Above(a, 1, 0, 0, 0)
      <4>1. x \in Giving
        BY <2>2 DEF Giving
      <4> QED BY <4>1, OfSymbol, OfGiving, Zenon
    <3> QED BY <1>3, <2>1, <2>2, <3>1, OtherRule, Zenon
  <2>3. CASE x = "operators"
    <3>1. a.m = 0 /\ b = a /\ \E u \in Height : u.m = 0 /\ a = Above(u, 1, 0, 0, 0)
      BY <2>3, OfSymbol, OfOperators, Zenon
    <3> QED BY <1>3, <2>1, <2>3, <3>1, OtherRule, Zenon
  <2>4. CASE x = "expr" \/ x = "for_expr"
    <3>1. x \in Giving /\ x # "case_list"
          /\ x \notin {"possible_function_call", "primary", "operators"} /\ x \notin Idle
      BY <2>4 DEF Giving, Idle
    <3>2. a.m = 0
      BY <3>1, OfSymbol, OfGiving, Zenon
    <3>3. r[1] \in Idle
      BY <2>1, <3>1, <3>2, KeptRule, Zenon
    <3> QED BY <2>1, <3>1, <3>3, Zenon
  <2>5. CASE x \notin {"primary", "operators", "expr", "for_expr"}
    <3>1. x \in Idle
      BY <1>3, <2>5 DEF Idle, Nonterminals
    <3>2. a.m = 0 /\ b = a /\ (x = "case_list" => a.c # 0)
      BY <3>1, OfSymbol, Zenon
    <3>3. r[1] \notin {"possible_function_call", "primary", "operators"}
      BY <1>3, <2>1, <2>5
    <3>4. Leads(r[3], a, a)
      BY <2>1, <3>2, <3>3, KeptRule, Zenon
    <3> QED BY <1>3, <2>1, <3>2, <3>4, Zenon
  <2> QED BY <2>2, <2>3, <2>4, <2>5
<1>4. CASE x # "possible_function_call" /\ \E type : rule \in Otherwise(x, type)
  BY <1>4, OtherwiseRule, Zenon
<1> QED BY <1>2, <1>3, <1>4, Zenon DEF IsRule

\* A rule with a token, as it is put in front of the parser.
LEMMA SymbolsType ==
  ASSUME NEW rule \in Seq(Name), NEW T, NEW t \in T
  PROVE  Symbols(rule, t) \in Seq(Items(T)) /\ Len(Symbols(rule, t)) = Len(rule)
         /\ \A i \in 1 .. Len(rule) : Symbols(rule, t)[i] = [sym |-> rule[i], tok |-> t]
<1>1. PICK n \in Nat : n = Len(rule) /\ DOMAIN rule = 1 .. n
  OBVIOUS
<1>2. \A i \in 1 .. n : [sym |-> rule[i], tok |-> t] \in Items(T)
  BY <1>1 DEF Items
<1>3. Symbols(rule, t) = [i \in 1 .. n |-> [sym |-> rule[i], tok |-> t]]
  BY <1>1 DEF Symbols
<1> QED BY <1>1, <1>2, <1>3

\* A symbol in front of a run.
LEMMA RunsJoin ==
  ASSUME NEW I, NEW p \in Seq(I), p # <<>>, NEW a \in Height, NEW b, NEW z,
         Effect(Head(p).sym, a, b), Runs(Tail(p), b, z)
  PROVE  Runs(p, a, z)
<1>1. PICK g : IsRun(g, Tail(p), b, z)
  BY SMTT(40) DEF Runs
<1>2. PICK n \in Nat : Len(p) = n + 1
  <2>1. Len(p) \in Nat /\ Len(p) # 0
    OBVIOUS
  <2>2. Len(p) - 1 \in Nat /\ Len(p) = (Len(p) - 1) + 1
    BY <2>1
  <2> QED BY <2>2
<1>3. Tail(p) \in Seq(I) /\ Len(Tail(p)) = n /\ Head(p) = p[1]
      /\ \A k \in 1 .. n : Tail(p)[k] = p[k + 1]
  BY <1>2
<1> DEFINE f == [k \in 1 .. n + 2 |-> IF k = 1 THEN a ELSE g[k - 1]]
<1>4. f[1] = a /\ \A k \in 1 .. n + 1 : f[k + 1] = g[k]
  <2> SUFFICES ASSUME NEW k \in 1 .. n + 1 PROVE f[1] = a /\ f[k + 1] = g[k]
    OBVIOUS
  <2>1. k + 1 \in 1 .. n + 2 /\ k + 1 # 1 /\ (k + 1) - 1 = k
    OBVIOUS
  <2> QED BY <2>1
<1>5. \A k \in 1 .. n + 2 : f[k] \in Height
  <2> SUFFICES ASSUME NEW k \in 1 .. n + 2 PROVE f[k] \in Height
    OBVIOUS
  <2>1. CASE k # 1
    <3>1. k - 1 \in 1 .. n + 1
      BY <2>1
    <3> QED BY <1>1, <1>3, <2>1, <3>1 DEF IsRun
  <2> QED BY <2>1
<1>6. f \in [1 .. (n + 1) + 1 -> Height]
  <2>1. (n + 1) + 1 = n + 2
    OBVIOUS
  <2> QED BY <1>5, <2>1
<1> HIDE DEF f
<1>7. ASSUME NEW k \in 1 .. n + 1 PROVE Effect(p[k].sym, f[k], f[k + 1])
  <2>1. CASE k = 1
    <3>1. f[1] = a /\ f[1 + 1] = b
      BY <1>1, <1>4 DEF IsRun
    <3> QED BY <1>3, <2>1, <3>1
  <2>2. CASE k # 1
    <3>1. PICK j \in 1 .. n : k = j + 1
      <4>1. k - 1 \in 1 .. n /\ k = (k - 1) + 1
        BY <2>2
      <4> QED BY <4>1
    <3>2. f[j + 1] = g[j] /\ f[(j + 1) + 1] = g[j + 1]
      BY <1>4
    <3>3. Tail(p)[j] = p[k]
      BY <1>3, <3>1
    <3>4. Effect(Tail(p)[j].sym, g[j], g[j + 1])
      BY <1>1, <1>3 DEF IsRun
    <3> QED BY <3>1, <3>2, <3>3, <3>4
  <2> QED BY <2>1, <2>2
<1>8. f[(n + 1) + 1] = z
  <2>1. g[n + 1] = z /\ n + 1 \in 1 .. n + 1
    BY <1>1, <1>3 DEF IsRun
  <2> QED BY <1>4, <2>1
<1>9. IsRun(f, p, a, z)
  BY <1>2, <1>4, <1>6, <1>7, <1>8 DEF IsRun
<1> QED BY <1>9 DEF Runs

\* Behind possible_function_call only the end of the call can come.
LEMMA BehindCall ==
  ASSUME NEW x, NEW a, NEW b, a.m = 5, Effect(x, a, b)
  PROVE  x = "cs_functioncall_end" /\ (EndsSkipped(a, b) \/ EndsCalled(a, b))
<1>1. a.m # 0 /\ a.m # 1 /\ a.m # 2 /\ a.m # 3 /\ a.m # 4 /\ a.m # 6
  OBVIOUS
<1>2. /\ ~ Keeps(a, b) /\ ~ Parenthesis(a, b) /\ ~ GivesOffset(a, b) /\ ~ ClosesCall(a, b)
      /\ ~ LeavesHeader(a, b) /\ ~ LeavesFor(a, b) /\ ~ Asks(a, b) /\ ~ Skips(a, b)
      /\ ~ InCall(a, b) /\ ~ Bodyless(a, b)
  BY <1>1 DEF Keeps, Parenthesis, GivesOffset, ClosesCall, LeavesHeader, LeavesFor, Asks, Skips,
              InCall, Bodyless
<1>3. \A t, g, c, s, n : ~ Does(a, b, t, g, c, s, n)
  BY <1>1 DEF Does
<1> QED BY <1>2, <1>3, Zenon DEF Effect

\* Where the body of the function comes in, the end of the call does what it would
\* have done.
LEMMA BehindBody ==
  ASSUME NEW a \in Height, NEW b, a.m = 5, EndsSkipped(a, b) \/ EndsCalled(a, b)
  PROVE  Effect("cs_functioncall_end", With(a, a.v, 0), b)
<1>1. EndsSkipped(a, b) => EndsSkipped(With(a, a.v, 0), b)
  BY DEF EndsSkipped, With
<1>2. EndsCalled(a, b) => EndsCalled(With(a, a.v, 0), b)
  BY DEF EndsCalled, With
<1> QED BY <1>1, <1>2 DEF Effect, Inside

\* The parser stays on a run when it takes a rule for a symbol.
LEMMA ExpandRuns ==
  ASSUME NEW T, NEW p \in Seq(Items(T)), p # <<>>, NEW a \in Height, NEW z, z.m = 0,
         Runs(p, a, z), Head(p).sym \in Nonterminals,
         NEW rule, IsRule(Head(p).sym, rule), NEW t \in T
  PROVE  /\ rule \in Seq(Name)
         /\ Runs(Symbols(rule, t) \o Tail(p), With(a, a.v, 0), z)
         /\ a.m \in {0, 4, 6} /\ With(a, a.v, 0) \in Height
<1>1. PICK b \in Height : Effect(Head(p).sym, a, b) /\ Runs(Tail(p), b, z)
  BY RunsFirst
<1>2. Tail(p) \in Seq(Items(T))
  OBVIOUS
<1>3. a.v \in Seq(Kind) /\ With(a, a.v, 0) \in Height
  <2>1. a.v \in Seq(Kind) /\ 0 \in 0 .. 6
    BY DEF Height
  <2> QED BY <2>1, WithType
<1>4. CASE Head(p).sym # "possible_function_call"
  <2>1. a.m = 0 /\ Leads(rule, a, b)
    BY <1>1, <1>4, RuleLeads
  <2>2. rule \in Seq(Name)
    BY <2>1 DEF Leads
  <2>3. Symbols(rule, t) \in Seq(Items(T)) /\ Runs(Symbols(rule, t), a, b)
    BY <2>1, <2>2, SymbolsRun, SymbolsType
  <2>4. Runs(Symbols(rule, t) \o Tail(p), a, z)
    BY <1>1, <1>2, <2>3, RunsOn
  <2>5. With(a, a.v, 0) = a
    BY <2>1, WithSame
  <2> QED BY <1>3, <2>1, <2>2, <2>4, <2>5
<1>5. CASE Head(p).sym = "possible_function_call"
  <2>1. Bodyless(a, b) /\ Leads(rule, With(a, a.v, 0), With(a, a.v, 0))
    BY <1>1, <1>5, RuleLeads
  <2>2. rule \in Seq(Name)
    BY <2>1 DEF Leads
  <2>3. b = With(a, a.v, 5) /\ b.m = 5 /\ b.v = a.v /\ a.m \in {4, 6}
    BY <2>1 DEF Bodyless, With
  <2>4. Tail(p) # <<>>
    <3>1. ASSUME Tail(p) = <<>> PROVE FALSE
      <4>1. b = z
        BY <1>1, <3>1, RunsEmpty
      <4> QED BY <2>3, <4>1
    <3> QED BY <3>1
  <2>5. PICK q \in Seq(Items(T)) : q = Tail(p)
    BY <1>2
  <2>6. PICK c \in Height : Effect(Head(q).sym, b, c) /\ Runs(Tail(q), c, z)
    <3>1. q \in Seq(Items(T)) /\ q # <<>> /\ Runs(q, b, z)
      BY <1>1, <2>4, <2>5
    <3> QED BY <3>1, RunsFirst, Zenon
  <2>7. Effect(Head(q).sym, With(b, b.v, 0), c)
    <3>1. Head(q).sym = "cs_functioncall_end" /\ (EndsSkipped(b, c) \/ EndsCalled(b, c))
      BY <2>3, <2>6, BehindCall
    <3>2. Effect("cs_functioncall_end", With(b, b.v, 0), c)
      BY <2>3, <3>1, BehindBody
    <3> QED BY <3>1, <3>2
  <2>8. With(b, b.v, 0) = With(a, a.v, 0)
    BY <2>3, WithWith
  <2>9. Runs(Tail(p), With(a, a.v, 0), z)
    BY <1>3, <2>4, <2>5, <2>6, <2>7, <2>8, RunsJoin
  <2>10. Symbols(rule, t) \in Seq(Items(T))
         /\ Runs(Symbols(rule, t), With(a, a.v, 0), With(a, a.v, 0))
    BY <2>1, <2>2, SymbolsRun, SymbolsType
  <2>11. Runs(Symbols(rule, t) \o Tail(p), With(a, a.v, 0), z)
    BY <1>2, <2>9, <2>10, RunsOn
  <2> QED BY <1>3, <2>2, <2>3, <2>11
<1> QED BY <1>4, <1>5

-----------------------------------------------------------------------------
(* What the engine holds when the parser is at a height *)

LEMMA AnyPushed ==
  ASSUME NEW x, NEW s, IsSeq(s)
  PROVE  /\ IsSeq(Push(x, s)) /\ Len(Push(x, s)) = Len(s) + 1 /\ Push(x, s)[1] = x
         /\ \A k \in 1 .. Len(s) : Push(x, s)[k + 1] = s[k]
         /\ Len(s) \in Nat /\ Pop(Push(x, s), 1) = s /\ Push(x, s) # <<>>
<1>1. PICK S : s \in Seq(S)
  BY DEF IsSeq
<1>2. PICK R : R = S \cup {x}
  OBVIOUS
<1>3. x \in R /\ s \in Seq(R)
  BY <1>1, <1>2
<1>4. Push(x, s) \in Seq(R)
  BY <1>3, Pushed
<1>5. Len(s) \in Nat
  BY <1>1
<1>6. /\ Len(Push(x, s)) = Len(s) + 1 /\ Push(x, s)[1] = x
      /\ \A k \in 1 .. Len(s) : Push(x, s)[k + 1] = s[k]
      /\ Pop(Push(x, s), 1) = s /\ Push(x, s) # <<>>
  BY <1>3, Pushed
<1> QED BY <1>4, <1>5, <1>6 DEF IsSeq

LEMMA AnyPopped ==
  ASSUME NEW s, IsSeq(s), NEW n \in Nat, n <= Len(s)
  PROVE  /\ IsSeq(Pop(s, n)) /\ Len(Pop(s, n)) = Len(s) - n
         /\ \A k \in 1 .. Len(s) - n : Pop(s, n)[k] = s[k + n]
<1>1. PICK S : s \in Seq(S)
  BY DEF IsSeq
<1>2. n \in 0 .. Len(s)
  BY <1>1
<1>3. Pop(s, n) \in Seq(S)
  BY <1>1, <1>2, Popped
<1> QED BY <1>1, <1>2, <1>3, Popped DEF IsSeq

LEMMA ConformsPush ==
  ASSUME NEW vs, NEW ks \in Seq(Kind), NEW n, Conforms(vs, ks, n), NEW k \in Kind, NEW x,
         ValueIs(k, x, n)
  PROVE  Conforms(Push(x, vs), Push(k, ks), n)
<1>1. PICK l \in Nat : l = Len(vs) /\ l = Len(ks)
  BY DEF Conforms
<1>2. /\ IsSeq(Push(x, vs)) /\ Len(Push(x, vs)) = l + 1 /\ Push(x, vs)[1] = x
      /\ \A i \in 1 .. l : Push(x, vs)[i + 1] = vs[i]
  BY <1>1, AnyPushed DEF Conforms
<1>3. /\ Len(Push(k, ks)) = l + 1 /\ Push(k, ks)[1] = k
      /\ \A i \in 1 .. l : Push(k, ks)[i + 1] = ks[i]
  BY <1>1, Pushed
<1>4. ASSUME NEW i \in 1 .. l + 1 PROVE ValueIs(Push(k, ks)[i], Push(x, vs)[i], n)
  <2>1. CASE i = 1
    BY <1>2, <1>3, <2>1
  <2>2. CASE i # 1
    <3>1. PICK j \in 1 .. l : i = j + 1
      <4>1. i - 1 \in 1 .. l /\ i = (i - 1) + 1
        BY <2>2
      <4> QED BY <4>1
    <3>2. ValueIs(ks[j], vs[j], n)
      BY <1>1 DEF Conforms
    <3> QED BY <1>2, <1>3, <3>1, <3>2
  <2> QED BY <2>1, <2>2
<1> QED BY <1>2, <1>3, <1>4 DEF Conforms

LEMMA ConformsPop ==
  ASSUME NEW vs, NEW ks \in Seq(Kind), NEW n, NEW k \in Kind, Conforms(vs, Push(k, ks), n)
  PROVE  /\ Conforms(Pop(vs, 1), ks, n) /\ ValueIs(k, vs[1], n) /\ Len(vs) >= 1
         /\ Len(vs) = Len(ks) + 1
<1>1. PICK l \in Nat : l = Len(ks)
  OBVIOUS
<1>2. /\ Len(Push(k, ks)) = l + 1 /\ Push(k, ks)[1] = k
      /\ \A i \in 1 .. l : Push(k, ks)[i + 1] = ks[i]
  BY <1>1, Pushed
<1>3. IsSeq(vs) /\ Len(vs) = l + 1
      /\ \A i \in 1 .. l + 1 : ValueIs(Push(k, ks)[i], vs[i], n)
  BY <1>2 DEF Conforms
<1>4. /\ IsSeq(Pop(vs, 1)) /\ Len(Pop(vs, 1)) = l
      /\ \A i \in 1 .. l : Pop(vs, 1)[i] = vs[i + 1]
  <2>1. 1 <= Len(vs) /\ Len(vs) - 1 = l
    BY <1>3
  <2> QED BY <1>3, <2>1, AnyPopped
<1>5. ASSUME NEW i \in 1 .. l PROVE ValueIs(ks[i], Pop(vs, 1)[i], n)
  <2>1. i + 1 \in 1 .. l + 1
    OBVIOUS
  <2> QED BY <1>2, <1>3, <1>4, <2>1
<1>6. ValueIs(k, vs[1], n)
  <2>1. 1 \in 1 .. l + 1
    OBVIOUS
  <2> QED BY <1>2, <1>3, <2>1
<1> QED BY <1>1, <1>3, <1>4, <1>5, <1>6 DEF Conforms

\* To replace values by others.
LEMMA ConformsPop2 ==
  ASSUME NEW vs, NEW ks \in Seq(Kind), NEW n, NEW k \in Kind, NEW j \in Kind,
         Conforms(vs, Push(k, Push(j, ks)), n)
  PROVE  /\ Conforms(Pop(vs, 2), ks, n) /\ ValueIs(k, vs[1], n) /\ ValueIs(j, vs[2], n)
         /\ Len(vs) = Len(ks) + 2
<1>1. Push(j, ks) \in Seq(Kind) /\ Len(Push(j, ks)) = Len(ks) + 1
  BY Pushed
<1>2. /\ Conforms(Pop(vs, 1), Push(j, ks), n) /\ ValueIs(k, vs[1], n)
      /\ Len(vs) = Len(Push(j, ks)) + 1
  BY <1>1, ConformsPop
<1>3. /\ Conforms(Pop(Pop(vs, 1), 1), ks, n) /\ ValueIs(j, Pop(vs, 1)[1], n)
  BY <1>2, ConformsPop
<1>4. PICK S : vs \in Seq(S)
  BY DEF Conforms, IsSeq
<1>5. PICK l \in Nat : l = Len(ks) /\ Len(vs) = l + 2
  BY <1>1, <1>2
<1>6. 1 \in 0 .. Len(vs) - 1 /\ 1 \in 0 .. Len(vs) /\ 1 \in 1 .. Len(vs) - 1
  BY <1>5
<1>7. Pop(vs, 1 + 1) = Pop(Pop(vs, 1), 1) /\ Pop(vs, 1)[1] = vs[1 + 1]
  BY <1>4, <1>6, PopMore, Popped
<1> QED BY <1>2, <1>3, <1>5, <1>7

LEMMA ConformsPop3 ==
  ASSUME NEW vs, NEW ks \in Seq(Kind), NEW n, NEW k \in Kind, NEW j \in Kind, NEW i \in Kind,
         Conforms(vs, Push(k, Push(j, Push(i, ks))), n)
  PROVE  /\ Conforms(Pop(vs, 3), ks, n) /\ ValueIs(k, vs[1], n) /\ ValueIs(j, vs[2], n)
         /\ ValueIs(i, vs[3], n)
<1>1. Push(i, ks) \in Seq(Kind) /\ Len(Push(i, ks)) = Len(ks) + 1
  BY Pushed
<1>2. /\ Conforms(Pop(vs, 2), Push(i, ks), n) /\ ValueIs(k, vs[1], n) /\ ValueIs(j, vs[2], n)
      /\ Len(vs) = Len(Push(i, ks)) + 2
  BY <1>1, ConformsPop2
<1>3. /\ Conforms(Pop(Pop(vs, 2), 1), ks, n) /\ ValueIs(i, Pop(vs, 2)[1], n)
  BY <1>2, ConformsPop
<1>4. PICK S : vs \in Seq(S)
  BY DEF Conforms, IsSeq
<1>5. PICK l \in Nat : l = Len(ks) /\ Len(vs) = l + 3
  BY <1>1, <1>2
<1>6. 2 \in 0 .. Len(vs) /\ 1 \in 1 .. Len(vs) - 2 /\ 2 + 1 <= Len(vs)
  BY <1>5
<1>7. Pop(Pop(vs, 2), 1) = Pop(vs, 2 + 1) /\ Pop(vs, 2)[1] = vs[1 + 2]
  BY <1>4, <1>6, PopPop, Popped
<1> QED BY <1>2, <1>3, <1>7

-----------------------------------------------------------------------------
(* Steps of the parser that only take and give values *)

LEMMA ValuePushed ==
  ASSUME NEW w \in Seq(Kind), NEW l \in Nat, Len(w) = l
  PROVE  /\ Push("value", w) \in Seq(Kind) /\ Len(Push("value", w)) = l + 1
         /\ Push("value", w)[1] = "value"
         /\ \A i \in 1 .. l : Push("value", w)[i + 1] = w[i]
<1>1. PICK v \in Kind : v = "value"
  BY DEF Kind
<1>2. Push(v, w) \in Seq(Kind) /\ Len(Push(v, w)) = Len(w) + 1 /\ Push(v, w)[1] = v
  <2>1. Push(v, w) \in Seq(Kind)
    BY Pushed, Zenon
  <2>2. Len(Push(v, w)) = Len(w) + 1
    BY Pushed, Zenon
  <2>3. Push(v, w)[1] = v
    BY Pushed
  <2> QED BY <2>1, <2>2, <2>3
<1>3. \A i \in 1 .. l : Push(v, w)[i + 1] = w[i]
  BY DEF Push
<1> QED BY <1>1, <1>2, <1>3

\* Where the values are among the kinds.
LEMMA ValuesAt ==
  ASSUME NEW w \in Seq(Kind), NEW k \in 0 .. 3
  PROVE  /\ Values(k, w) \in Seq(Kind) /\ Len(Values(k, w)) = Len(w) + k
         /\ \A i \in 1 .. k : Values(k, w)[i] = "value"
         /\ \A i \in 1 .. Len(w) : Values(k, w)[i + k] = w[i]
<1>1. PICK l \in Nat : l = Len(w)
  OBVIOUS
<1> DEFINE w1 == Push("value", w)
           w2 == Push("value", w1)
           w3 == Push("value", w2)
<1>2. w1 \in Seq(Kind) /\ Len(w1) = l + 1 /\ w1[1] = "value"
      /\ \A i \in 1 .. l : w1[i + 1] = w[i]
  BY <1>1, ValuePushed
<1>3. w2 \in Seq(Kind) /\ Len(w2) = l + 2 /\ w2[1] = "value"
      /\ \A i \in 1 .. l + 1 : w2[i + 1] = w1[i]
  <2> HIDE DEF w1
  <2>1. w2 \in Seq(Kind) /\ Len(w2) = (l + 1) + 1 /\ w2[1] = "value"
        /\ \A i \in 1 .. l + 1 : w2[i + 1] = w1[i]
    BY <1>2, ValuePushed
  <2> QED BY <2>1
<1>4. w3 \in Seq(Kind) /\ Len(w3) = l + 3 /\ w3[1] = "value"
      /\ \A i \in 1 .. l + 2 : w3[i + 1] = w2[i]
  <2> HIDE DEF w2
  <2>1. w3 \in Seq(Kind) /\ Len(w3) = (l + 2) + 1 /\ w3[1] = "value"
        /\ \A i \in 1 .. l + 2 : w3[i + 1] = w2[i]
    BY <1>3, ValuePushed
  <2> QED BY <2>1
<1>5. /\ Values(0, w) = w /\ Values(1, w) = w1 /\ Values(2, w) = w2 /\ Values(3, w) = w3
  BY DEF Values
<1> HIDE DEF w1, w2, w3
<1>6. \A i \in 1 .. l : w2[i + 2] = w[i]
  <2> SUFFICES ASSUME NEW i \in 1 .. l PROVE w2[i + 2] = w[i]
    OBVIOUS
  <2>1. i + 1 \in 1 .. l + 1 /\ (i + 1) + 1 = i + 2
    OBVIOUS
  <2> QED BY <1>2, <1>3, <2>1
<1>7. \A i \in 1 .. l : w3[i + 3] = w[i]
  <2> SUFFICES ASSUME NEW i \in 1 .. l PROVE w3[i + 3] = w[i]
    OBVIOUS
  <2>1. i + 2 \in 1 .. l + 2 /\ (i + 2) + 1 = i + 3
    OBVIOUS
  <2> QED BY <1>4, <1>6, <2>1
<1>8. w2[2] = "value" /\ w3[2] = "value" /\ w3[3] = "value"
  <2>1. 1 \in 1 .. l + 1 /\ 1 \in 1 .. l + 2 /\ 2 \in 1 .. l + 2 /\ 1 + 1 = 2 /\ 2 + 1 = 3
    OBVIOUS
  <2> QED BY <1>2, <1>3, <1>4, <2>1
<1>9. CASE k = 0
  BY <1>1, <1>5, <1>9
<1>10. CASE k = 1
  BY <1>1, <1>2, <1>5, <1>10
<1>11. CASE k = 2
  BY <1>1, <1>3, <1>5, <1>6, <1>8, <1>11
<1>12. CASE k = 3
  BY <1>1, <1>4, <1>5, <1>7, <1>8, <1>12
<1> QED BY <1>9, <1>10, <1>11, <1>12

\* The first t values are replaced by g values.
Replaced(vs, ws, t, g) ==
  /\ IsSeq(ws) /\ Len(ws) = Len(vs) - t + g
  /\ \A i \in 1 .. Len(vs) - t : ws[i + g] = vs[i + t]

LEMMA ReplacedConforms ==
  ASSUME NEW w \in Seq(Kind), NEW t \in 0 .. 3, NEW g \in 0 .. 3, NEW vs, NEW ws, NEW n,
         Conforms(vs, Values(t, w), n), Replaced(vs, ws, t, g)
  PROVE  Conforms(ws, Values(g, w), n)
<1>1. PICK l \in Nat : l = Len(w)
  OBVIOUS
<1>2. PICK x \in Seq(Kind) : /\ x = Values(t, w) /\ Len(x) = l + t
                             /\ \A i \in 1 .. l : x[i + t] = w[i]
  <2>1. /\ Values(t, w) \in Seq(Kind) /\ Len(Values(t, w)) = l + t
        /\ \A i \in 1 .. l : Values(t, w)[i + t] = w[i]
    BY <1>1, ValuesAt
  <2> QED BY <2>1, Zenon
<1>3. PICK y \in Seq(Kind) : /\ y = Values(g, w) /\ Len(y) = l + g
                             /\ \A i \in 1 .. g : y[i] = "value"
                             /\ \A i \in 1 .. l : y[i + g] = w[i]
  <2>1. /\ Values(g, w) \in Seq(Kind) /\ Len(Values(g, w)) = l + g
        /\ \A i \in 1 .. g : Values(g, w)[i] = "value"
        /\ \A i \in 1 .. l : Values(g, w)[i + g] = w[i]
    BY <1>1, ValuesAt
  <2> QED BY <2>1, Zenon
<1>4. Len(vs) = l + t /\ \A i \in 1 .. l + t : ValueIs(x[i], vs[i], n)
  BY <1>2 DEF Conforms
<1>5. IsSeq(ws) /\ Len(ws) = l + g /\ \A i \in 1 .. l : ws[i + g] = vs[i + t]
  <2>1. Len(vs) - t = l
    BY <1>4
  <2> QED BY <2>1 DEF Replaced
<1>6. ASSUME NEW i \in 1 .. l + g PROVE ValueIs(y[i], ws[i], n)
  <2>1. CASE i <= g
    <3>1. i \in 1 .. g
      BY <2>1
    <3> QED BY <1>3, <3>1 DEF ValueIs
  <2>2. CASE ~ (i <= g)
    <3>1. PICK j \in 1 .. l : i = j + g
      <4>1. i - g \in 1 .. l /\ i = (i - g) + g
        BY <2>2
      <4> QED BY <4>1
    <3>2. j + t \in 1 .. l + t
      OBVIOUS
    <3>3. ValueIs(x[j + t], vs[j + t], n)
      BY <1>4, <3>2
    <3> QED BY <1>2, <1>3, <1>5, <3>1, <3>3
  <2> QED BY <2>1, <2>2
<1> QED BY <1>3, <1>5, <1>6 DEF Conforms

\* How the actions replace values.
LEMMA ReplacedCases ==
  ASSUME NEW vs, IsSeq(vs)
  PROVE  /\ \A t \in 0 .. 3 : t <= Len(vs) => Replaced(vs, vs, t, t)
         /\ \A t \in 0 .. 3 : t <= Len(vs) => Replaced(vs, Pop(vs, t), t, 0)
         /\ \A x : \A t \in 0 .. 3 : t <= Len(vs) => Replaced(vs, Push(x, Pop(vs, t)), t, 1)
         /\ \A x : Replaced(vs, Push(x, vs), 0, 1)
<1>1. PICK l \in Nat : l = Len(vs)
  BY DEF IsSeq
<1>2. ASSUME NEW t \in 0 .. 3, t <= Len(vs) PROVE Replaced(vs, vs, t, t)
  BY <1>1 DEF Replaced
<1>3. ASSUME NEW t \in 0 .. 3, t <= Len(vs)
      PROVE  /\ IsSeq(Pop(vs, t)) /\ Len(Pop(vs, t)) = l - t
             /\ \A i \in 1 .. l - t : Pop(vs, t)[i] = vs[i + t]
  <2>1. t \in Nat
    OBVIOUS
  <2> QED BY <1>1, <1>3, <2>1, AnyPopped
<1>4. ASSUME NEW t \in 0 .. 3, t <= Len(vs) PROVE Replaced(vs, Pop(vs, t), t, 0)
  BY <1>1, <1>3, <1>4 DEF Replaced
<1>5. ASSUME NEW t \in 0 .. 3, t <= Len(vs), NEW x PROVE Replaced(vs, Push(x, Pop(vs, t)), t, 1)
  <2>1. PICK ws : /\ ws = Pop(vs, t) /\ IsSeq(ws) /\ Len(ws) = l - t
                  /\ \A i \in 1 .. l - t : ws[i] = vs[i + t]
    BY <1>3, <1>5, Zenon
  <2>2. l - t \in Nat /\ Len(vs) - t = l - t
    BY <1>1, <1>5
  <2>3. PICK k \in Nat : k = l - t /\ Len(vs) - t = k
    BY <2>2, Zenon
  <2>4. /\ IsSeq(Push(x, ws)) /\ Len(Push(x, ws)) = k + 1
        /\ \A i \in 1 .. k : Push(x, ws)[i + 1] = ws[i]
    <3>1. IsSeq(ws) /\ Len(ws) = k
      BY <2>1, <2>3
    <3> QED BY <3>1, AnyPushed
  <2>5. \A i \in 1 .. k : Push(x, ws)[i + 1] = vs[i + t]
    BY <2>1, <2>3, <2>4
  <2> QED BY <2>1, <2>3, <2>4, <2>5 DEF Replaced
<1>6. ASSUME NEW x PROVE Replaced(vs, Push(x, vs), 0, 1)
  <2>1. /\ IsSeq(Push(x, vs)) /\ Len(Push(x, vs)) = l + 1
        /\ \A i \in 1 .. l : Push(x, vs)[i + 1] = vs[i]
    BY <1>1, AnyPushed
  <2> QED BY <1>1, <2>1 DEF Replaced
<1> QED BY <1>2, <1>4, <1>5, <1>6

\* There is room on the stacks for what a symbol takes, and if it is done the engine
\* is at the next height.
CanStep(a, b, vs, cs, sw, fs, stack, n, t, g, dc, ds, dn) ==
  /\ IsSeq(vs) /\ Len(vs) \in Nat /\ t <= Len(vs)
  /\ Len(cs) = a.c /\ Len(cs) + dc \in Nat /\ IsSeq(sw) /\ Len(sw) + ds \in Nat
  /\ fs.loop_nest_level + dn \in Nat
  /\ \A ws, cs2, sw2, fs2, ex2 :
       /\ Replaced(vs, ws, t, g) /\ Len(cs2) = Len(cs) + dc
       /\ IsSeq(sw2) /\ Len(sw2) = Len(sw) + ds
       /\ fs2.loop_nest_level = fs.loop_nest_level + dn
       => IsAt(b, ws, cs2, sw2, fs2, stack, ex2, n)

LEMMA DoesIsAt ==
  ASSUME NEW a \in Height, NEW b \in Height, NEW t \in 0 .. 3, NEW g \in 0 .. 3,
         NEW dc \in Int, NEW ds \in Int, NEW dn \in Int, Does(a, b, t, g, dc, ds, dn),
         NEW vs, NEW cs, NEW sw, NEW fs, NEW stack, NEW ex, NEW n,
         IsAt(a, vs, cs, sw, fs, stack, ex, n)
  PROVE  CanStep(a, b, vs, cs, sw, fs, stack, n, t, g, dc, ds, dn)
<1>1. PICK w \in Seq(Kind) :
        /\ a.m = 0 /\ a.v = Values(t, w)
        /\ b = [v |-> Values(g, w), c |-> a.c + dc, s |-> a.s + ds, f |-> a.f,
                n |-> a.n + dn, m |-> 0]
  BY DEF Does
<1>2. Conforms(vs, Values(t, w), n) /\ IsSeq(sw) /\ Len(cs) = a.c /\ Len(sw) = a.s
      /\ fs.loop_nest_level = a.n /\ Levels(stack) = a.f
  BY <1>1 DEF IsAt, Waiting
<1>3. b.v = Values(g, w) /\ b.c = a.c + dc /\ b.s = a.s + ds /\ b.f = a.f /\ b.n = a.n + dn
      /\ b.m = 0
  BY <1>1
<1>4. b.c \in Nat /\ b.s \in Nat /\ b.n \in Nat
  BY DEF Height
<1>5. IsSeq(vs) /\ Len(vs) \in Nat /\ t <= Len(vs)
  <2>1. Len(Values(t, w)) = Len(w) + t /\ Len(w) \in Nat
    BY ValuesAt
  <2> QED BY <1>2, <2>1 DEF Conforms
<1>6. ASSUME NEW ws, NEW cs2, NEW sw2, NEW fs2, NEW ex2,
             Replaced(vs, ws, t, g), Len(cs2) = Len(cs) + dc,
             IsSeq(sw2), Len(sw2) = Len(sw) + ds,
             fs2.loop_nest_level = fs.loop_nest_level + dn
      PROVE  IsAt(b, ws, cs2, sw2, fs2, stack, ex2, n)
  <2>1. Conforms(ws, b.v, n)
    BY <1>2, <1>3, <1>6, ReplacedConforms
  <2>2. ~ Waiting(b, ws)
    BY <1>3 DEF Waiting
  <2> QED BY <1>2, <1>3, <1>6, <2>1, <2>2 DEF IsAt
<1> QED BY <1>2, <1>3, <1>4, <1>5, <1>6 DEF CanStep

LEMMA BottomType ==
  ASSUME NEW U \in Seq(Height)
  PROVE  Bottom(U) \in Height /\ Bottom(U).m = 0
<1>1. Ground \in Height /\ Ground.m = 0
  BY DEF Ground, Height
<1>2. ASSUME NEW u \in Height PROVE Under(u) \in Height /\ Under(u).m = 0
  <2>1. Push(0, u.f) \in Seq(Nat)
    <3>1. u.f \in Seq(Nat) /\ 0 \in Nat
      BY DEF Height
    <3> QED BY <3>1, Pushed
  <2> QED BY <2>1 DEF Under, Height
<1>3. CASE U = <<>>
  BY <1>1, <1>3 DEF Bottom
<1>4. CASE U # <<>>
  <2>1. U[1] \in Height
    BY <1>4
  <2> QED BY <1>2, <1>4, <2>1 DEF Bottom
<1> QED BY <1>3, <1>4

\* The parser goes on by a symbol.
LEMMA ShapeStep ==
  ASSUME NEW T, NEW p \in Seq(Items(T)), p # <<>>, NEW U, NEW a, NEW su, Shape(U, a, p, su)
  PROVE  \E b \in Height : Effect(Head(p).sym, a, b) /\ Shape(U, b, Tail(p), su)
<1>1. PICK b \in Height : Effect(Head(p).sym, a, b) /\ Runs(Tail(p), b, Bottom(U))
  <2>1. Runs(p, a, Bottom(U))
    BY DEF Shape
  <2> QED BY <2>1, RunsFirst
<1>2. Shape(U, b, Tail(p), su)
  BY <1>1, Zenon DEF Shape
<1> QED BY <1>1, <1>2

-----------------------------------------------------------------------------
(* What each symbol does, by its action *)

\* The symbol does only this.
Acts(x, t, g, dc, ds, dn) ==
  \A a, b \in Height : Effect(x, a, b) => Does(a, b, t, g, dc, ds, dn)

LEMMA KeepsDoes ==
  ASSUME NEW a \in Height, NEW b \in Height, Keeps(a, b)
  PROVE  Does(a, b, 0, 0, 0, 0, 0)
<1>1. a.v \in Seq(Kind) /\ a.c + 0 = a.c /\ a.s + 0 = a.s /\ a.n + 0 = a.n
  BY DEF Height
<1>2. b = [v |-> a.v, c |-> a.c, s |-> a.s, f |-> a.f, n |-> a.n, m |-> 0]
  BY DEF Keeps, Height
<1> QED BY <1>1, <1>2 DEF Does, Keeps, Values

\* In the invariant, at the next symbol.
LEMMA Here ==
  ASSUME IInv, Running, parse # <<>>
  PROVE  /\ parse \in Seq(Items(TokenOrEOF))
         /\ \E U, a : \E b \in Height :
              /\ a \in Height /\ Effect(Head(parse).sym, a, b)
              /\ Shape(U, a, parse, suspended) /\ Shape(U, b, Tail(parse), suspended)
              /\ WaitAt(U, suspended, Len(tokens))
              /\ IsAt(a, values, css, switch_stack, function_state, function_state_stack, Execute,
                      Len(tokens))
<1>1. parse \in Seq(Items(TokenOrEOF))
  BY DEF IInv, InputInv, SymbolsOK
<1>2. PICK U, a : /\ Shape(U, a, parse, suspended) /\ WaitAt(U, suspended, Len(tokens))
                  /\ IsAt(a, values, css, switch_stack, function_state, function_state_stack,
                          Execute, Len(tokens))
  BY DEF IInv, StructInv
<1>3. PICK b \in Height : Effect(Head(parse).sym, a, b) /\ Shape(U, b, Tail(parse), suspended)
  BY <1>1, <1>2, ShapeStep
<1>4. a \in Height
  BY <1>2 DEF Shape
<1> QED BY <1>1, <1>2, <1>3, <1>4

\* A step of the parser that takes t values, gives g, and moves the other
\* stacks as given.
Moved(t, g, dc, ds, dn) ==
  /\ parse' = Tail(parse) /\ suspended' = suspended /\ Len(tokens') = Len(tokens)
  /\ Replaced(values, values', t, g)
  /\ Len(css') = Len(css) + dc
  /\ IsSeq(switch_stack') /\ Len(switch_stack') = Len(switch_stack) + ds
  /\ function_state'.loop_nest_level = function_state.loop_nest_level + dn
  /\ function_state_stack' = function_state_stack

\* What an action may rely on.
Doing(t, g, dc, ds, dn) ==
  /\ IsSeq(values) /\ Len(values) \in Nat /\ t <= Len(values)
  /\ Len(css) + dc \in Nat /\ IsSeq(switch_stack) /\ Len(switch_stack) + ds \in Nat
  /\ function_state.loop_nest_level + dn \in Nat
  /\ Head(parse).sym \in Inside => css # <<>>

\* An action that moves the stacks as its symbol does keeps the engine where the
\* parser is.
LEMMA ActionMoves ==
  ASSUME IInv, Running, parse # <<>>, NEW t \in 0 .. 3, NEW g \in 0 .. 3,
         NEW dc \in Int, NEW ds \in Int, NEW dn \in Int,
         Acts(Head(parse).sym, t, g, dc, ds, dn)
  PROVE  Doing(t, g, dc, ds, dn) /\ (Moved(t, g, dc, ds, dn) => StructInv')
<1> DEFINE n == Len(tokens)
<1>1. PICK U, a : \E b \in Height :
              /\ a \in Height /\ Effect(Head(parse).sym, a, b)
              /\ Shape(U, a, parse, suspended) /\ Shape(U, b, Tail(parse), suspended)
              /\ WaitAt(U, suspended, n)
              /\ IsAt(a, values, css, switch_stack, function_state, function_state_stack, Execute,
                      n)
  BY Here, Zenon
<1>2. PICK b \in Height :
              /\ a \in Height /\ Effect(Head(parse).sym, a, b)
              /\ Shape(U, a, parse, suspended) /\ Shape(U, b, Tail(parse), suspended)
              /\ WaitAt(U, suspended, n)
              /\ IsAt(a, values, css, switch_stack, function_state, function_state_stack, Execute,
                      n)
  BY <1>1, Zenon
<1>3. Does(a, b, t, g, dc, ds, dn)
  BY <1>2, Zenon DEF Acts
<1>4. /\ IsSeq(values) /\ Len(values) \in Nat /\ t <= Len(values)
      /\ Len(css) = a.c /\ Len(css) + dc \in Nat
      /\ IsSeq(switch_stack) /\ Len(switch_stack) + ds \in Nat
      /\ function_state.loop_nest_level + dn \in Nat
      /\ \A ws, cs2, sw2, fs2, ex2 :
              /\ Replaced(values, ws, t, g) /\ Len(cs2) = Len(css) + dc
              /\ IsSeq(sw2) /\ Len(sw2) = Len(switch_stack) + ds
              /\ fs2.loop_nest_level = function_state.loop_nest_level + dn
              => IsAt(b, ws, cs2, sw2, fs2, function_state_stack, ex2, n)
  <2>1. CanStep(a, b, values, css, switch_stack, function_state, function_state_stack, n,
                t, g, dc, ds, dn)
    BY <1>2, <1>3, DoesIsAt, Zenon
  <2> QED BY <2>1, Zenon DEF CanStep
<1>5. Doing(t, g, dc, ds, dn)
  <2>1. ASSUME Head(parse).sym \in Inside PROVE css # <<>>
    <3>1. a.c # 0
      BY <1>2, <2>1 DEF Effect
    <3>2. Len(css) # 0
      BY <1>4, <3>1
    <3> QED BY <3>2
  <2> QED BY <1>4, <2>1 DEF Doing
<1>6. ASSUME Moved(t, g, dc, ds, dn) PROVE StructInv'
  <2>1. IsAt(b, values', css', switch_stack', function_state', function_state_stack', Execute', n)
    BY <1>4, <1>6, Zenon DEF Moved
  <2>2. Shape(U, b, parse', suspended') /\ WaitAt(U, suspended', Len(tokens'))
    BY <1>2, <1>6, Zenon DEF Moved
  <2>3. n = Len(tokens')
    BY <1>6 DEF Moved
  <2> HIDE DEF n
  <2> QED BY <2>1, <2>2, <2>3, Zenon DEF StructInv
<1> QED BY <1>5, <1>6

LEMMA IdleActs ==
  ASSUME NEW x \in Idle
  PROVE  Acts(x, 0, 0, 0, 0, 0)
<1> SUFFICES ASSUME NEW a \in Height, NEW b \in Height, Effect(x, a, b)
             PROVE  Does(a, b, 0, 0, 0, 0, 0)
  BY Zenon DEF Acts
<1>1. a.m = 0 /\ b = a
  BY OfSymbol, Zenon
<1> QED BY <1>1, KeepsDoes DEF Keeps

\* What the symbols of the actions do.
LEMMA ActionActs ==
  ASSUME NEW x
  PROVE  /\ x \in {"evaluate", "empty"} => Acts(x, 0, 1, 0, 0, 0)
         /\ x \in Dropping => Acts(x, 1, 0, 0, 0, 0)
         /\ x = "cs_start_if" => Acts(x, 1, 0, 1, 0, 0)
         /\ x \in {"cs_elseif_start_evaluate", "start_function_decleration"}
              => Acts(x, 0, 0, 1, 0, 0)
         /\ x \in {"cs_end_if", "cs_elseif_end_evaluate", "end_function_decleration"}
              => Acts(x, 0, 0, Down, 0, 0)
         /\ x = "cs_start_while" => Acts(x, 1, 0, 1, 0, 1)
         /\ x \in {"cs_start_do_while", "for_pre_expr1"} => Acts(x, 0, 0, 1, 0, 1)
         /\ x = "cs_end_while" => Acts(x, 0, 0, Down, 0, Down)
         /\ x = "cs_end_do_while" => Acts(x, 1, 0, Down, 0, Down)
         /\ x = "cs_switch_start" => Acts(x, 1, 0, 1, 1, 1)
         /\ x = "cs_switch_end" => Acts(x, 0, 0, Down, Down, Down)
         /\ x \in {"cs_pre_boolean_or", "cs_pre_boolean_and", "cs_questionmark_op_pre_expr1"}
              => Acts(x, 1, 1, 1, 0, 0)
         /\ x \in {"cs_post_boolean_or", "cs_post_boolean_and"} => Acts(x, 2, 1, Down, 0, 0)
         /\ x = "cs_questionmark_op_post_expr2" => Acts(x, 3, 1, Down, 0, 0)
<1>1. ASSUME x \in {"evaluate", "empty"} PROVE Acts(x, 0, 1, 0, 0, 0)
  <2> SUFFICES ASSUME NEW a \in Height, NEW b \in Height, Effect(x, a, b)
               PROVE  Does(a, b, 0, 1, 0, 0, 0)
    BY Zenon DEF Acts
  <2> QED BY <1>1 DEF Effect, Idle, Giving, Dropping, Inside
<1>2. ASSUME x \in Dropping PROVE Acts(x, 1, 0, 0, 0, 0)
  <2> SUFFICES ASSUME NEW a \in Height, NEW b \in Height, Effect(x, a, b)
               PROVE  Does(a, b, 1, 0, 0, 0, 0)
    BY Zenon DEF Acts
  <2> QED BY <1>2 DEF Effect, Idle, Giving, Dropping, Inside
<1>3. ASSUME x = "cs_start_if" PROVE Acts(x, 1, 0, 1, 0, 0)
  <2> SUFFICES ASSUME NEW a \in Height, NEW b \in Height, Effect(x, a, b)
               PROVE  Does(a, b, 1, 0, 1, 0, 0)
    BY Zenon DEF Acts
  <2> QED BY <1>3 DEF Effect, Idle, Giving, Dropping, Inside
<1>4. ASSUME x \in {"cs_elseif_start_evaluate", "start_function_decleration"}
      PROVE  Acts(x, 0, 0, 1, 0, 0)
  <2> SUFFICES ASSUME NEW a \in Height, NEW b \in Height, Effect(x, a, b)
               PROVE  Does(a, b, 0, 0, 1, 0, 0)
    BY Zenon DEF Acts
  <2> QED BY <1>4 DEF Effect, Idle, Giving, Dropping, Inside
<1>5. ASSUME x \in {"cs_end_if", "cs_elseif_end_evaluate", "end_function_decleration"}
      PROVE  Acts(x, 0, 0, Down, 0, 0)
  <2> SUFFICES ASSUME NEW a \in Height, NEW b \in Height, Effect(x, a, b)
               PROVE  Does(a, b, 0, 0, Down, 0, 0)
    BY Zenon DEF Acts
  <2> QED BY <1>5 DEF Effect, Idle, Giving, Dropping, Inside
<1>6. ASSUME x = "cs_start_while" PROVE Acts(x, 1, 0, 1, 0, 1)
  <2> SUFFICES ASSUME NEW a \in Height, NEW b \in Height, Effect(x, a, b)
               PROVE  Does(a, b, 1, 0, 1, 0, 1)
    BY Zenon DEF Acts
  <2> QED BY <1>6 DEF Effect, Idle, Giving, Dropping, Inside
<1>7. ASSUME x \in {"cs_start_do_while", "for_pre_expr1"} PROVE Acts(x, 0, 0, 1, 0, 1)
  <2> SUFFICES ASSUME NEW a \in Height, NEW b \in Height, Effect(x, a, b)
               PROVE  Does(a, b, 0, 0, 1, 0, 1)
    BY Zenon DEF Acts
  <2> QED BY <1>7 DEF Effect, Idle, Giving, Dropping, Inside
<1>8. ASSUME x = "cs_end_while" PROVE Acts(x, 0, 0, Down, 0, Down)
  <2> SUFFICES ASSUME NEW a \in Height, NEW b \in Height, Effect(x, a, b)
               PROVE  Does(a, b, 0, 0, Down, 0, Down)
    BY Zenon DEF Acts
  <2> QED BY <1>8 DEF Effect, Idle, Giving, Dropping, Inside
<1>9. ASSUME x = "cs_end_do_while" PROVE Acts(x, 1, 0, Down, 0, Down)
  <2> SUFFICES ASSUME NEW a \in Height, NEW b \in Height, Effect(x, a, b)
               PROVE  Does(a, b, 1, 0, Down, 0, Down)
    BY Zenon DEF Acts
  <2> QED BY <1>9 DEF Effect, Idle, Giving, Dropping, Inside
<1>10. ASSUME x = "cs_switch_start" PROVE Acts(x, 1, 0, 1, 1, 1)
  <2> SUFFICES ASSUME NEW a \in Height, NEW b \in Height, Effect(x, a, b)
               PROVE  Does(a, b, 1, 0, 1, 1, 1)
    BY Zenon DEF Acts
  <2> QED BY <1>10 DEF Effect, Idle, Giving, Dropping, Inside
<1>11. ASSUME x = "cs_switch_end" PROVE Acts(x, 0, 0, Down, Down, Down)
  <2> SUFFICES ASSUME NEW a \in Height, NEW b \in Height, Effect(x, a, b)
               PROVE  Does(a, b, 0, 0, Down, Down, Down)
    BY Zenon DEF Acts
  <2> QED BY <1>11 DEF Effect, Idle, Giving, Dropping, Inside
<1>12. ASSUME x \in {"cs_pre_boolean_or", "cs_pre_boolean_and", "cs_questionmark_op_pre_expr1"}
       PROVE  Acts(x, 1, 1, 1, 0, 0)
  <2> SUFFICES ASSUME NEW a \in Height, NEW b \in Height, Effect(x, a, b)
               PROVE  Does(a, b, 1, 1, 1, 0, 0)
    BY Zenon DEF Acts
  <2> QED BY <1>12 DEF Effect, Idle, Giving, Dropping, Inside
<1>13. ASSUME x \in {"cs_post_boolean_or", "cs_post_boolean_and"}
       PROVE  Acts(x, 2, 1, Down, 0, 0)
  <2> SUFFICES ASSUME NEW a \in Height, NEW b \in Height, Effect(x, a, b)
               PROVE  Does(a, b, 2, 1, Down, 0, 0)
    BY Zenon DEF Acts
  <2> QED BY <1>13 DEF Effect, Idle, Giving, Dropping, Inside
<1>14. ASSUME x = "cs_questionmark_op_post_expr2" PROVE Acts(x, 3, 1, Down, 0, 0)
  <2> SUFFICES ASSUME NEW a \in Height, NEW b \in Height, Effect(x, a, b)
               PROVE  Does(a, b, 3, 1, Down, 0, 0)
    BY Zenon DEF Acts
  <2> QED BY <1>14 DEF Effect, Idle, Giving, Dropping, Inside
<1> QED BY <1>1, <1>2, <1>3, <1>4, <1>5, <1>6, <1>7, <1>8, <1>9, <1>10, <1>11, <1>12, <1>13,
        <1>14, Zenon

-----------------------------------------------------------------------------
(* The flags and the function state *)

\* loop_change_type, and the levels of a function that is entered.
LEMMA StateChanges ==
  ASSUME NEW fs \in FunctionState
  PROVE  /\ NoChange(fs) \in FunctionState /\ NoChange(fs).loop_nest_level = fs.loop_nest_level
         /\ NewLevels(fs) \in FunctionState /\ NewLevels(fs).loop_nest_level = 0
BY DEF NoChange, NewLevels, FunctionState

\* A loop more or less does not change whether the function executes.
LEMMA NestedState ==
  ASSUME function_state \in FunctionState, NEW k \in Int, function_state.loop_nest_level + k \in Nat
  PROVE  /\ Nested(k) \in FunctionState
         /\ Nested(k).loop_nest_level = function_state.loop_nest_level + k
         /\ \A flag : SHOULD_EXECUTE(flag, Nested(k)) = SHOULD_EXECUTE(flag, function_state)
BY DEF Nested, FunctionState, SHOULD_EXECUTE

Statuses == {"running", "done", "died", "parse error"}
Flowing == FlowInv /\ ExecuteInSync

\* Where ExecuteFlag is set, Execute is set from it.
LEMMA FlowSet ==
  ASSUME NEW flag \in Flag, NEW fs \in FunctionState, SetFlow(flag, fs),
         css' \in Seq(Flag), function_state_stack' \in Seq(FunctionState), status' \in Statuses
  PROVE  Flowing' /\ function_state' = fs
BY Zenon DEF SetFlow, Flowing, FlowInv, ExecuteInSync, Statuses

LEMMA FlowSame ==
  ASSUME Flowing, UNCHANGED flow,
         css' \in Seq(Flag), function_state_stack' \in Seq(FunctionState), status' \in Statuses
  PROVE  Flowing' /\ function_state' = function_state
<1>1. ExecuteFlag' = ExecuteFlag /\ Execute' = Execute /\ function_state' = function_state
  BY DEF flow
<1> QED BY <1>1, Zenon DEF Flowing, FlowInv, ExecuteInSync, Statuses

LEMMA FlowNested ==
  ASSUME Flowing, function_state' = Nested(1), UNCHANGED <<ExecuteFlag, Execute>>,
         css' \in Seq(Flag), function_state_stack' \in Seq(FunctionState), status' \in Statuses
  PROVE  Flowing' /\ function_state'.loop_nest_level = function_state.loop_nest_level + 1
<1>1. function_state \in FunctionState /\ function_state.loop_nest_level + 1 \in Nat
  <2>1. function_state \in FunctionState
    BY Zenon DEF Flowing, FlowInv
  <2>2. PICK k \in Nat : k = function_state.loop_nest_level
    BY <2>1 DEF FunctionState
  <2> QED BY <2>1, <2>2
<1>2. /\ Nested(1) \in FunctionState
      /\ Nested(1).loop_nest_level = function_state.loop_nest_level + 1
      /\ \A flag : SHOULD_EXECUTE(flag, Nested(1)) = SHOULD_EXECUTE(flag, function_state)
  BY <1>1, NestedState
<1> QED BY <1>2, Zenon DEF Flowing, FlowInv, ExecuteInSync, Statuses

\* The flags are saved on css and taken from it.
LEMMA FlagStack ==
  ASSUME Flowing
  PROVE  /\ css \in Seq(Flag) /\ Len(css) \in Nat
         /\ SaveFlag => css' \in Seq(Flag) /\ Len(css') = Len(css) + 1
         /\ css # <<>> => /\ SavedFlag \in Flag
                          /\ DropFlag => css' \in Seq(Flag) /\ Len(css') = Len(css) - 1
<1>1. css \in Seq(Flag) /\ ExecuteFlag \in Flag /\ Len(css) \in Nat
  <2>1. css \in Seq(Flag) /\ ExecuteFlag \in Flag
    BY Zenon DEF Flowing, FlowInv
  <2> QED BY <2>1
<1>2. SaveFlag => css' \in Seq(Flag) /\ Len(css') = Len(css) + 1
  BY <1>1, Pushed, SMTT(40) DEF SaveFlag
<1>3. ASSUME css # <<>> PROVE SavedFlag \in Flag /\ Pop(css, 1) \in Seq(Flag)
                              /\ Len(Pop(css, 1)) = Len(css) - 1
  <2>1. css[1] \in Flag /\ Pop(css, 1) = Tail(css) /\ Tail(css) \in Seq(Flag)
        /\ Len(Tail(css)) = Len(css) - 1
    BY <1>1, <1>3, PopTail
  <2> QED BY <2>1, ZenonT(60) DEF SavedFlag
<1> QED BY <1>1, <1>2, <1>3 DEF DropFlag

-----------------------------------------------------------------------------
(* The tokens *)

\* The tokens of the symbols behind the first.
LEMMA SymbolsTail ==
  ASSUME NEW p, p # <<>>, NEW n \in Nat, SymbolsOK(p, n)
  PROVE  /\ SymbolsOK(Tail(p), n) /\ Head(p) \in Items(TokenOrEOF)
         /\ Head(p).sym \notin Bare => Head(p).tok.offset \in 1 .. n - 1
         /\ Head(p).sym = "EOF" => Tail(p) = <<>>
<1>1. p \in Seq(Items(TokenOrEOF))
  BY DEF SymbolsOK
<1>2. PICK l \in Nat : Len(p) = l + 1
  <2>1. Len(p) - 1 \in Nat /\ Len(p) = (Len(p) - 1) + 1
    BY <1>1
  <2> QED BY <2>1, Zenon
<1>3. Tail(p) \in Seq(Items(TokenOrEOF)) /\ Len(Tail(p)) = l /\ Head(p) = p[1]
      /\ p[1] \in Items(TokenOrEOF) /\ \A i \in 1 .. l : Tail(p)[i] = p[i + 1]
  BY <1>1, <1>2
<1>4. \A i \in 1 .. l + 1 : /\ p[i].sym \in Bare \/ p[i].tok.offset \in 1 .. n - 1
                            /\ p[i].sym = "EOF" => i = l + 1
  BY <1>2 DEF SymbolsOK
<1>5. ASSUME NEW i \in 1 .. l
      PROVE  /\ Tail(p)[i].sym \in Bare \/ Tail(p)[i].tok.offset \in 1 .. n - 1
             /\ Tail(p)[i].sym = "EOF" => i = l
  <2>1. i + 1 \in 1 .. l + 1 /\ (i + 1 = l + 1 => i = l)
    OBVIOUS
  <2> QED BY <1>3, <1>4, <2>1
<1>6. 1 \in 1 .. l + 1
  OBVIOUS
<1>7. Head(p).sym = "EOF" => l = 0
  BY <1>3, <1>4, <1>6
<1>8. l = 0 => Tail(p) = <<>>
  <2>1. PICK q \in Seq(Items(TokenOrEOF)) : q = Tail(p) /\ Len(q) = l
    BY <1>3, Zenon
  <2>2. l = 0 => q = <<>>
    BY <2>1
  <2> QED BY <2>1, <2>2
<1>9. SymbolsOK(Tail(p), n)
  <2>1. PICK q \in Seq(Items(TokenOrEOF)) :
          /\ q = Tail(p) /\ Len(q) = l
          /\ \A i \in 1 .. l : /\ q[i].sym \in Bare \/ q[i].tok.offset \in 1 .. n - 1
                              /\ q[i].sym = "EOF" => i = l
    BY <1>3, <1>5, Zenon
  <2>2. SymbolsOK(q, n)
    BY <2>1 DEF SymbolsOK
  <2> QED BY <2>1, <2>2
<1> QED BY <1>3, <1>4, <1>6, <1>7, <1>8, <1>9

\* Nothing is read or turned, and the next symbol is done.
LEMMA InputKept ==
  ASSUME InputInv, parse # <<>>, parse' = Tail(parse),
         UNCHANGED <<input, suspended, function_table>>
  PROVE  InputInv'
<1>1. PICK n \in Nat : n = Len(tokens) /\ TokensOK(tokens, n)
  BY DEF InputInv, TokensOK
<1>2. /\ LookaheadOK(yychar, n) /\ PlaceOK(pos, yychar, parse, n) /\ shutdown \in Shutdown
      /\ SymbolsOK(parse, n) /\ TableOK(function_table, n) /\ FramesOK(suspended, n)
  BY <1>1 DEF InputInv
<1>3. /\ tokens' = tokens /\ pos' = pos /\ yychar' = yychar /\ shutdown' = shutdown
      /\ suspended' = suspended /\ function_table' = function_table
  BY DEF input
<1>4. SymbolsOK(Tail(parse), n)
  BY <1>2, SymbolsTail
<1>5. PlaceOK(pos, yychar, Tail(parse), n)
  BY <1>2 DEF PlaceOK
<1>6. Len(tokens') = n
  BY <1>1, <1>3
<1> QED BY <1>1, <1>2, <1>3, <1>4, <1>5, <1>6, Zenon DEF InputInv

\* The parts of the invariant.
LEMMA IInvParts ==
  ASSUME IInv
  PROVE  Flowing /\ InputInv
BY DEF IInv, Flowing

LEMMA IInvWhole ==
  ASSUME Flowing', InputInv', Running' => StructInv'
  PROVE  IInv'
BY DEF IInv, Flowing

LEMMA AtAction ==
  ASSUME NEW x, Action(x)
  PROVE  /\ Running /\ parse # <<>> /\ Head(parse).sym = x
         /\ parse' = Tail(parse) /\ suspended' = suspended
BY DEF Action, At

-----------------------------------------------------------------------------
(* Each action keeps the invariant *)

Entered(t, g, dc, ds, dn) ==
  /\ Doing(t, g, dc, ds, dn) /\ Flowing /\ InputInv /\ function_state \in FunctionState
  /\ function_state.loop_nest_level \in Nat /\ css \in Seq(Flag) /\ Len(css) \in Nat
  /\ function_state_stack \in Seq(FunctionState) /\ status \in Statuses

\* What an action finds: values on the stack, and a flag on css where it takes one.
LEMMA Entry ==
  ASSUME IInv, NEW x, Action(x), NEW t \in 0 .. 3, NEW g \in 0 .. 3,
         NEW dc \in Int, NEW ds \in Int, NEW dn \in Int, Acts(x, t, g, dc, ds, dn)
  PROVE  Entered(t, g, dc, ds, dn) /\ (x \in Inside \/ dc = Down => css # <<>>)
<1>1. Running /\ parse # <<>> /\ Head(parse).sym = x
  BY AtAction, Zenon
<1>2. Doing(t, g, dc, ds, dn)
  BY <1>1, ActionMoves
<1>3. Flowing /\ InputInv
  BY IInvParts
<1>4. /\ function_state \in FunctionState /\ css \in Seq(Flag)
      /\ function_state_stack \in Seq(FunctionState) /\ status \in Statuses
  BY <1>3, Zenon DEF Flowing, FlowInv, Statuses
<1>5. function_state.loop_nest_level \in Nat
  BY <1>4 DEF FunctionState
<1>6. Len(css) \in Nat
  BY <1>4
<1>7. x \in Inside => css # <<>>
  BY <1>1, <1>2 DEF Doing
<1>8. dc = Down => css # <<>>
  <2>1. Len(css) + dc \in Nat
    BY <1>2 DEF Doing
  <2>2. dc = Down => Len(css) # 0
    BY <1>6, <2>1 DEF Down
  <2> QED BY <2>2
<1> QED BY <1>2, <1>3, <1>4, <1>5, <1>6, <1>7, <1>8 DEF Entered

\* An action that moves the stacks as its symbol does, and leaves the tokens in order,
\* keeps the invariant.
LEMMA MoveStep ==
  ASSUME IInv, NEW x, Action(x), NEW t \in 0 .. 3, NEW g \in 0 .. 3,
         NEW dc \in Int, NEW ds \in Int, NEW dn \in Int, Acts(x, t, g, dc, ds, dn),
         InputInv', Len(tokens') = Len(tokens),
         Replaced(values, values', t, g), Len(css') = Len(css) + dc,
         IsSeq(switch_stack'), Len(switch_stack') = Len(switch_stack) + ds,
         function_state_stack' = function_state_stack,
         Flowing', function_state'.loop_nest_level = function_state.loop_nest_level + dn
  PROVE  IInv'
<1>1. Running /\ parse # <<>> /\ Head(parse).sym = x
      /\ parse' = Tail(parse) /\ suspended' = suspended
  BY AtAction, Zenon
<1>2. Moved(t, g, dc, ds, dn) => StructInv'
  BY <1>1, ActionMoves
<1>3. Moved(t, g, dc, ds, dn)
  BY <1>1 DEF Moved
<1> QED BY <1>2, <1>3, IInvWhole

\* The same for an action that leaves the tokens alone.
LEMMA QuietStep ==
  ASSUME IInv, NEW x, Action(x), NEW t \in 0 .. 3, NEW g \in 0 .. 3,
         NEW dc \in Int, NEW ds \in Int, NEW dn \in Int, Acts(x, t, g, dc, ds, dn),
         UNCHANGED <<input, function_table>>,
         Replaced(values, values', t, g), Len(css') = Len(css) + dc,
         IsSeq(switch_stack'), Len(switch_stack') = Len(switch_stack) + ds,
         function_state_stack' = function_state_stack,
         Flowing', function_state'.loop_nest_level = function_state.loop_nest_level + dn
  PROVE  IInv'
<1>1. Running /\ parse # <<>> /\ Head(parse).sym = x
      /\ parse' = Tail(parse) /\ suspended' = suspended
  BY AtAction, Zenon
<1>2. InputInv /\ tokens' = tokens
  BY IInvParts DEF input
<1>3. InputInv'
  <2>1. UNCHANGED <<input, suspended, function_table>>
    BY <1>1
  <2> QED BY <1>1, <1>2, <2>1, InputKept
<1> QED BY <1>2, <1>3, MoveStep, Zenon

Changed(s, x) == [s EXCEPT ![1] = x]

LEMMA AnyChanged ==
  ASSUME NEW s, IsSeq(s), NEW x
  PROVE  IsSeq(Changed(s, x)) /\ Len(Changed(s, x)) = Len(s)
<1>1. PICK S : s \in Seq(S)
  BY DEF IsSeq
<1>2. PICK R : R = S \cup {x}
  OBVIOUS
<1>3. s \in Seq(R) /\ x \in R
  BY <1>1, <1>2
<1>4. [s EXCEPT ![1] = x] \in Seq(R) /\ Len([s EXCEPT ![1] = x]) = Len(s)
  <2>1. PICK l \in Nat : l = Len(s) /\ s \in [1 .. l -> R]
    BY <1>3
  <2>2. [s EXCEPT ![1] = x] \in [1 .. l -> R]
    BY <1>3, <2>1
  <2> QED BY <2>1, <2>2
<1> QED BY <1>4 DEF IsSeq, Changed

LEMMA AnyTop ==
  ASSUME NEW s, IsSeq(s)
  PROVE  /\ Len(s) \in Nat
         /\ \A x : IsSeq(Push(x, s)) /\ Len(Push(x, s)) = Len(s) + 1
         /\ Len(s) + Down \in Nat => IsSeq(Pop(s, 1)) /\ Len(Pop(s, 1)) = Len(s) + Down
<1>1. Len(s) \in Nat
  BY DEF IsSeq
<1>2. ASSUME NEW x PROVE IsSeq(Push(x, s)) /\ Len(Push(x, s)) = Len(s) + 1
  BY AnyPushed
<1>3. ASSUME Len(s) + Down \in Nat PROVE IsSeq(Pop(s, 1)) /\ Len(Pop(s, 1)) = Len(s) + Down
  <2>1. 1 <= Len(s) /\ Len(s) - 1 = Len(s) + Down
    BY <1>1, <1>3 DEF Down
  <2> QED BY <2>1, AnyPopped
<1> QED BY <1>1, <1>2, <1>3

\* if: the condition is taken, the flag saved.
LEMMA cs_start_if_Keeps ==
  ASSUME IInv, cs_start_if
  PROVE  IInv'
<1>1. Action("cs_start_if") /\ Acts("cs_start_if", 1, 0, 1, 0, 0)
  BY ActionActs DEF cs_start_if
<1>2. Entered(1, 0, 1, 0, 0)
  BY <1>1, Entry DEF Down
<1>3. css' \in Seq(Flag) /\ Len(css') = Len(css) + 1
  BY <1>2, FlagStack DEF Entered, cs_start_if
<1>4. function_state_stack' \in Seq(FunctionState) /\ status' \in Statuses
      /\ function_state_stack' = function_state_stack
  BY <1>2 DEF Entered, cs_start_if, stacks, world, Case
<1>5. Flowing' /\ function_state'.loop_nest_level = function_state.loop_nest_level + 0
  <2>1. CASE Execute
    <3>1. PICK flag \in Flag : SetFlow(flag, function_state)
      BY <2>1 DEF cs_start_if, Flag
    <3>2. Flowing' /\ function_state' = function_state
      BY <1>2, <1>3, <1>4, <3>1, FlowSet DEF Entered
    <3> QED BY <1>2, <3>2 DEF Entered
  <2>2. CASE ~ Execute
    <3>1. /\ ExecuteFlag' = "DONT_EXECUTE" /\ Execute' = Execute
          /\ function_state' = function_state
      BY <2>2 DEF cs_start_if
    <3>2. SHOULD_EXECUTE("DONT_EXECUTE", function_state) = FALSE
      BY DEF SHOULD_EXECUTE
    <3>3. Execute = FALSE
      BY <1>2, <2>2 DEF Entered, Flowing, ExecuteInSync, SHOULD_EXECUTE
    <3>4. "DONT_EXECUTE" \in Flag
      BY DEF Flag
    <3>5. SetFlow("DONT_EXECUTE", function_state)
      BY <3>1, <3>2, <3>3 DEF SetFlow
    <3>6. Flowing' /\ function_state' = function_state
      BY <1>2, <1>3, <1>4, <3>4, <3>5, FlowSet DEF Entered
    <3> QED BY <1>2, <3>6 DEF Entered
  <2> QED BY <2>1, <2>2
<1>6. Replaced(values, values', 1, 0)
  <2>1. IsSeq(values) /\ 1 <= Len(values)
    BY <1>2 DEF Entered, Doing
  <2> QED BY <2>1, ReplacedCases DEF cs_start_if, Case
<1>7. IsSeq(switch_stack') /\ Len(switch_stack') = Len(switch_stack) + 0
  <2>1. IsSeq(switch_stack) /\ switch_stack' = switch_stack
    BY <1>2 DEF Entered, Doing, cs_start_if, stacks
  <2> QED BY <2>1, AnyTop
<1>8. UNCHANGED <<input, function_table>>
  BY DEF cs_start_if, world, Case
<1> QED BY <1>1, <1>2, <1>3, <1>4, <1>5, <1>6, <1>7, <1>8, QuietStep DEF Down

\* The end of an if, and of the condition of an elseif: the flag is restored.
LEMMA cs_end_if_Keeps ==
  ASSUME IInv, NEW x \in {"cs_end_if", "cs_elseif_end_evaluate"}, Action(x), cs_end_if
  PROVE  IInv'
<1>1. Action(x) /\ Acts(x, 0, 0, Down, 0, 0)
  BY ActionActs DEF cs_end_if
<1>2. Entered(0, 0, Down, 0, 0) /\ css # <<>>
  BY <1>1, Entry DEF Down
<1>3. css' \in Seq(Flag) /\ Len(css') = Len(css) + Down
  BY <1>2, FlagStack DEF Entered, Down, cs_end_if
<1>4. function_state_stack' \in Seq(FunctionState) /\ status' \in Statuses
      /\ function_state_stack' = function_state_stack
  BY <1>2 DEF Entered, cs_end_if, stacks, world, Case
<1>5. Flowing' /\ function_state'.loop_nest_level = function_state.loop_nest_level + 0
  <2>1. PICK flag : flag = SavedFlag
    OBVIOUS
  <2>2. SetFlow(flag, function_state)
    BY <2>1 DEF cs_end_if
  <2>3. flag \in Flag
    BY <1>2, <2>1, FlagStack DEF Entered, Flag
  <2>4. Flowing' /\ function_state' = function_state
    BY <1>2, <1>3, <1>4, <2>2, <2>3, FlowSet DEF Entered
  <2> QED BY <1>2, <2>4 DEF Entered
<1>6. Replaced(values, values', 0, 0)
  <2>1. IsSeq(values) /\ 0 <= Len(values)
    BY <1>2 DEF Entered, Doing
  <2> QED BY <2>1, ReplacedCases DEF cs_end_if, Case
<1>7. IsSeq(switch_stack') /\ Len(switch_stack') = Len(switch_stack) + 0
  <2>1. IsSeq(switch_stack) /\ switch_stack' = switch_stack
    BY <1>2 DEF Entered, Doing, cs_end_if, stacks
  <2> QED BY <2>1, AnyTop
<1>8. UNCHANGED <<input, function_table>>
  BY DEF cs_end_if, world, Case
<1> QED BY <1>1, <1>2, <1>3, <1>4, <1>5, <1>6, <1>7, <1>8, QuietStep DEF Down

LEMMA cs_elseif_start_evaluate_Keeps ==
  ASSUME IInv, cs_elseif_start_evaluate
  PROVE  IInv'
<1>1. Action("cs_elseif_start_evaluate") /\ Acts("cs_elseif_start_evaluate", 0, 0, 1, 0, 0)
  BY ActionActs DEF cs_elseif_start_evaluate
<1>2. Entered(0, 0, 1, 0, 0)
  BY <1>1, Entry DEF Down
<1>3. css' \in Seq(Flag) /\ Len(css') = Len(css) + 1
  <2>1. css' = Push(Elseif, css)
    BY DEF cs_elseif_start_evaluate
  <2>2. ExecuteFlag \in Flag
    BY <1>2 DEF Entered, Flowing, FlowInv
  <2>3. PICK flag \in Flag : flag = Elseif
    BY <2>2 DEF Elseif, Flag
  <2>4. Push(flag, css) \in Seq(Flag) /\ Len(Push(flag, css)) = Len(css) + 1
    BY <1>2, Pushed DEF Entered
  <2> QED BY <2>1, <2>3, <2>4
<1>4. function_state_stack' \in Seq(FunctionState) /\ status' \in Statuses
      /\ function_state_stack' = function_state_stack
  BY <1>2 DEF Entered, cs_elseif_start_evaluate, stacks, world, Case
<1>5. Flowing' /\ function_state'.loop_nest_level = function_state.loop_nest_level + 0
  <2>1. PICK flag : flag = IF Elseif = "BEFORE_EXECUTE" /\ SavedFlag = "EXECUTE" THEN "EXECUTE"
                          ELSE Elseif
    OBVIOUS
  <2>2. SetFlow(flag, function_state)
    BY <2>1 DEF cs_elseif_start_evaluate
  <2>3. ExecuteFlag \in Flag
    BY <1>2 DEF Entered, Flowing, FlowInv
  <2>4. flag \in Flag
    BY <2>1, <2>3 DEF Elseif, Else, Flag
  <2>5. Flowing' /\ function_state' = function_state
    BY <1>2, <1>3, <1>4, <2>2, <2>4, FlowSet DEF Entered
  <2> QED BY <1>2, <2>5 DEF Entered
<1>6. Replaced(values, values', 0, 0)
  <2>1. IsSeq(values) /\ 0 <= Len(values)
    BY <1>2 DEF Entered, Doing
  <2> QED BY <2>1, ReplacedCases DEF cs_elseif_start_evaluate, Case
<1>7. IsSeq(switch_stack') /\ Len(switch_stack') = Len(switch_stack) + 0
  <2>1. IsSeq(switch_stack) /\ switch_stack' = switch_stack
    BY <1>2 DEF Entered, Doing, cs_elseif_start_evaluate, stacks
  <2> QED BY <2>1, AnyTop
<1>8. UNCHANGED <<input, function_table>>
  BY DEF cs_elseif_start_evaluate, world, Case
<1> QED BY <1>1, <1>2, <1>3, <1>4, <1>5, <1>6, <1>7, <1>8, QuietStep DEF Down

\* elseif: the flag is set from the saved one and from its condition.
LEMMA cs_start_elseif_Keeps ==
  ASSUME IInv, cs_start_elseif
  PROVE  IInv'
<1>1. Action("cs_start_elseif") /\ Acts("cs_start_elseif", 1, 0, 0, 0, 0)
  BY ActionActs DEF cs_start_elseif, Dropping
<1>2. Entered(1, 0, 0, 0, 0)
  BY <1>1, Entry DEF Down
<1>3. css' \in Seq(Flag) /\ Len(css') = Len(css) + 0
  BY <1>2 DEF Entered, cs_start_elseif, stacks, Case
<1>4. function_state_stack' \in Seq(FunctionState) /\ status' \in Statuses
      /\ function_state_stack' = function_state_stack
  BY <1>2 DEF Entered, cs_start_elseif, stacks, world, Case
<1>5. Flowing' /\ function_state'.loop_nest_level = function_state.loop_nest_level + 0
  <2>1. PICK flag : flag = IF Elseif # "BEFORE_EXECUTE" THEN Elseif
                         ELSE IF values[1] THEN "EXECUTE" ELSE "BEFORE_EXECUTE"
    OBVIOUS
  <2>2. SetFlow(flag, function_state)
    BY <2>1 DEF cs_start_elseif
  <2>3. ExecuteFlag \in Flag
    BY <1>2 DEF Entered, Flowing, FlowInv
  <2>4. flag \in Flag
    BY <2>1, <2>3 DEF Elseif, Else, Flag
  <2>5. Flowing' /\ function_state' = function_state
    BY <1>2, <1>3, <1>4, <2>2, <2>4, FlowSet DEF Entered
  <2> QED BY <1>2, <2>5 DEF Entered
<1>6. Replaced(values, values', 1, 0)
  <2>1. IsSeq(values) /\ 1 <= Len(values)
    BY <1>2 DEF Entered, Doing
  <2> QED BY <2>1, ReplacedCases DEF cs_start_elseif, Case
<1>7. IsSeq(switch_stack') /\ Len(switch_stack') = Len(switch_stack) + 0
  <2>1. IsSeq(switch_stack) /\ switch_stack' = switch_stack
    BY <1>2 DEF Entered, Doing, cs_start_elseif, stacks
  <2> QED BY <2>1, AnyTop
<1>8. UNCHANGED <<input, function_table>>
  BY DEF cs_start_elseif, world, Case
<1> QED BY <1>1, <1>2, <1>3, <1>4, <1>5, <1>6, <1>7, <1>8, QuietStep DEF Down

LEMMA cs_start_else_Keeps ==
  ASSUME IInv, cs_start_else
  PROVE  IInv'
<1>1. Action("cs_start_else") /\ Acts("cs_start_else", 0, 0, 0, 0, 0)
  BY Zenon, IdleActs DEF cs_start_else, Idle
<1>2. Entered(0, 0, 0, 0, 0)
  BY <1>1, Entry DEF Down
<1>3. css' \in Seq(Flag) /\ Len(css') = Len(css) + 0
  BY <1>2 DEF Entered, cs_start_else, stacks, Case
<1>4. function_state_stack' \in Seq(FunctionState) /\ status' \in Statuses
      /\ function_state_stack' = function_state_stack
  BY <1>2 DEF Entered, cs_start_else, stacks, world, Case
<1>5. Flowing' /\ function_state'.loop_nest_level = function_state.loop_nest_level + 0
  <2>1. PICK flag : flag = Else
    OBVIOUS
  <2>2. SetFlow(flag, function_state)
    BY <2>1 DEF cs_start_else
  <2>3. ExecuteFlag \in Flag
    BY <1>2 DEF Entered, Flowing, FlowInv
  <2>4. flag \in Flag
    BY <2>1, <2>3 DEF Elseif, Else, Flag
  <2>5. Flowing' /\ function_state' = function_state
    BY <1>2, <1>3, <1>4, <2>2, <2>4, FlowSet DEF Entered
  <2> QED BY <1>2, <2>5 DEF Entered
<1>6. Replaced(values, values', 0, 0)
  <2>1. IsSeq(values) /\ 0 <= Len(values)
    BY <1>2 DEF Entered, Doing
  <2> QED BY <2>1, ReplacedCases DEF cs_start_else, Case
<1>7. IsSeq(switch_stack') /\ Len(switch_stack') = Len(switch_stack) + 0
  <2>1. IsSeq(switch_stack) /\ switch_stack' = switch_stack
    BY <1>2 DEF Entered, Doing, cs_start_else, stacks
  <2> QED BY <2>1, AnyTop
<1>8. UNCHANGED <<input, function_table>>
  BY DEF cs_start_else, world, Case
<1> QED BY <1>1, <1>2, <1>3, <1>4, <1>5, <1>6, <1>7, <1>8, QuietStep DEF Down

LEMMA cs_force_eval_do_while_Keeps ==
  ASSUME IInv, cs_force_eval_do_while
  PROVE  IInv'
<1>1. Action("cs_force_eval_do_while") /\ Acts("cs_force_eval_do_while", 0, 0, 0, 0, 0)
  BY Zenon, IdleActs DEF cs_force_eval_do_while, Idle
<1>2. Entered(0, 0, 0, 0, 0)
  BY <1>1, Entry DEF Down
<1>3. css' \in Seq(Flag) /\ Len(css') = Len(css) + 0
  BY <1>2 DEF Entered, cs_force_eval_do_while, stacks, Case
<1>4. function_state_stack' \in Seq(FunctionState) /\ status' \in Statuses
      /\ function_state_stack' = function_state_stack
  BY <1>2 DEF Entered, cs_force_eval_do_while, stacks, world, Case
<1>5. Flowing' /\ function_state'.loop_nest_level = function_state.loop_nest_level + 0
  <2>1. CASE ContinuesThisLoop
    <3>1. SetFlow("EXECUTE", NoChange(function_state))
      BY <2>1 DEF cs_force_eval_do_while
    <3>2. /\ "EXECUTE" \in Flag /\ NoChange(function_state) \in FunctionState
          /\ NoChange(function_state).loop_nest_level = function_state.loop_nest_level
      BY <1>2, StateChanges DEF Entered, Flag
    <3>3. Flowing' /\ function_state' = NoChange(function_state)
      BY <1>3, <1>4, <3>1, <3>2, FlowSet
    <3> QED BY <1>2, <3>2, <3>3 DEF Entered
  <2>2. CASE ~ ContinuesThisLoop
    <3>1. UNCHANGED flow
      BY <2>2 DEF cs_force_eval_do_while
    <3>2. Flowing' /\ function_state' = function_state
      BY <1>2, <1>3, <1>4, <3>1, FlowSame DEF Entered
    <3> QED BY <1>2, <3>2 DEF Entered
  <2> QED BY <2>1, <2>2
<1>6. Replaced(values, values', 0, 0)
  <2>1. IsSeq(values) /\ 0 <= Len(values)
    BY <1>2 DEF Entered, Doing
  <2> QED BY <2>1, ReplacedCases DEF cs_force_eval_do_while, Case
<1>7. IsSeq(switch_stack') /\ Len(switch_stack') = Len(switch_stack) + 0
  <2>1. IsSeq(switch_stack) /\ switch_stack' = switch_stack
    BY <1>2 DEF Entered, Doing, cs_force_eval_do_while, stacks
  <2> QED BY <2>1, AnyTop
<1>8. UNCHANGED <<input, function_table>>
  BY DEF cs_force_eval_do_while, world, Case
<1> QED BY <1>1, <1>2, <1>3, <1>4, <1>5, <1>6, <1>7, <1>8, QuietStep DEF Down

\* for: the flags that its parts are recognized under.
LEMMA for_pre_expr2_Keeps ==
  ASSUME IInv, for_pre_expr2
  PROVE  IInv'
<1>1. Action("for_pre_expr2") /\ Acts("for_pre_expr2", 1, 0, 0, 0, 0)
  BY ActionActs DEF for_pre_expr2, Dropping
<1>2. Entered(1, 0, 0, 0, 0) /\ css # <<>>
  BY <1>1, Entry DEF Down, Inside
<1>3. css' \in Seq(Flag) /\ Len(css') = Len(css) + 0
  BY <1>2 DEF Entered, for_pre_expr2, stacks, Case
<1>4. function_state_stack' \in Seq(FunctionState) /\ status' \in Statuses
      /\ function_state_stack' = function_state_stack
  BY <1>2 DEF Entered, for_pre_expr2, stacks, world, Case
<1>5. Flowing' /\ function_state'.loop_nest_level = function_state.loop_nest_level + 0
  <2>1. PICK flag : flag = IF FirstOfSwitched(Tok) THEN "DONT_EXECUTE" ELSE SavedFlag
    OBVIOUS
  <2>2. SetFlow(flag, function_state)
    BY <2>1 DEF for_pre_expr2
  <2>3. flag \in Flag
    BY <1>2, <2>1, FlagStack DEF Entered, Flag
  <2>4. Flowing' /\ function_state' = function_state
    BY <1>2, <1>3, <1>4, <2>2, <2>3, FlowSet DEF Entered
  <2> QED BY <1>2, <2>4 DEF Entered
<1>6. Replaced(values, values', 1, 0)
  <2>1. IsSeq(values) /\ 1 <= Len(values)
    BY <1>2 DEF Entered, Doing
  <2> QED BY <2>1, ReplacedCases DEF for_pre_expr2, Case
<1>7. IsSeq(switch_stack') /\ Len(switch_stack') = Len(switch_stack) + 0
  <2>1. IsSeq(switch_stack) /\ switch_stack' = switch_stack
    BY <1>2 DEF Entered, Doing, for_pre_expr2, stacks
  <2> QED BY <2>1, AnyTop
<1>8. UNCHANGED <<input, function_table>>
  BY DEF for_pre_expr2, world, Case
<1> QED BY <1>1, <1>2, <1>3, <1>4, <1>5, <1>6, <1>7, <1>8, QuietStep DEF Down

LEMMA for_pre_expr3_Keeps ==
  ASSUME IInv, for_pre_expr3
  PROVE  IInv'
<1>1. Action("for_pre_expr3") /\ Acts("for_pre_expr3", 0, 0, 0, 0, 0)
  BY Zenon, IdleActs DEF for_pre_expr3, Idle
<1>2. Entered(0, 0, 0, 0, 0) /\ css # <<>>
  BY <1>1, Entry DEF Down, Inside
<1>3. css' \in Seq(Flag) /\ Len(css') = Len(css) + 0
  BY <1>2 DEF Entered, for_pre_expr3, stacks, Case
<1>4. function_state_stack' \in Seq(FunctionState) /\ status' \in Statuses
      /\ function_state_stack' = function_state_stack
  BY <1>2 DEF Entered, for_pre_expr3, stacks, world, Case
<1>5. Flowing' /\ function_state'.loop_nest_level = function_state.loop_nest_level + 0
  <2>1. PICK flag : flag = IF SHOULD_EXECUTE(SavedFlag, function_state) /\ ~ Tok.switched
                         THEN "DONT_EXECUTE" ELSE SavedFlag
    OBVIOUS
  <2>2. SetFlow(flag, function_state)
    BY <2>1 DEF for_pre_expr3
  <2>3. flag \in Flag
    BY <1>2, <2>1, FlagStack DEF Entered, Flag
  <2>4. Flowing' /\ function_state' = function_state
    BY <1>2, <1>3, <1>4, <2>2, <2>3, FlowSet DEF Entered
  <2> QED BY <1>2, <2>4 DEF Entered
<1>6. Replaced(values, values', 0, 0)
  <2>1. IsSeq(values) /\ 0 <= Len(values)
    BY <1>2 DEF Entered, Doing
  <2> QED BY <2>1, ReplacedCases DEF for_pre_expr3, Case
<1>7. IsSeq(switch_stack') /\ Len(switch_stack') = Len(switch_stack) + 0
  <2>1. IsSeq(switch_stack) /\ switch_stack' = switch_stack
    BY <1>2 DEF Entered, Doing, for_pre_expr3, stacks
  <2> QED BY <2>1, AnyTop
<1>8. UNCHANGED <<input, function_table>>
  BY DEF for_pre_expr3, world, Case
<1> QED BY <1>1, <1>2, <1>3, <1>4, <1>5, <1>6, <1>7, <1>8, QuietStep DEF Down

\* switch: its value goes on a stack of its own.
LEMMA cs_switch_start_Keeps ==
  ASSUME IInv, cs_switch_start
  PROVE  IInv'
<1>1. Action("cs_switch_start") /\ Acts("cs_switch_start", 1, 0, 1, 1, 1)
  BY ActionActs DEF cs_switch_start
<1>2. Entered(1, 0, 1, 1, 1)
  BY <1>1, Entry DEF Down
<1>3. css' \in Seq(Flag) /\ Len(css') = Len(css) + 1
  BY <1>2, FlagStack DEF Entered, cs_switch_start
<1>4. function_state_stack' \in Seq(FunctionState) /\ status' \in Statuses
      /\ function_state_stack' = function_state_stack
  BY <1>2 DEF Entered, cs_switch_start, stacks, world, Case
<1>5. Flowing' /\ function_state'.loop_nest_level = function_state.loop_nest_level + 1
  <2>1. function_state' = Nested(1) /\ UNCHANGED <<ExecuteFlag, Execute>>
    BY DEF cs_switch_start
  <2> QED BY <1>2, <1>3, <1>4, <2>1, FlowNested DEF Entered
<1>6. Replaced(values, values', 1, 0)
  <2>1. IsSeq(values) /\ 1 <= Len(values)
    BY <1>2 DEF Entered, Doing
  <2> QED BY <2>1, ReplacedCases DEF cs_switch_start, Case
<1>7. IsSeq(switch_stack') /\ Len(switch_stack') = Len(switch_stack) + 1
  <2>1. IsSeq(switch_stack)
    BY <1>2 DEF Entered, Doing
  <2> QED BY <2>1, AnyTop DEF cs_switch_start
<1>8. UNCHANGED <<input, function_table>>
  BY DEF cs_switch_start, world, Case
<1> QED BY <1>1, <1>2, <1>3, <1>4, <1>5, <1>6, <1>7, <1>8, QuietStep DEF Down

LEMMA cs_switch_case_pre_Keeps ==
  ASSUME IInv, cs_switch_case_pre
  PROVE  IInv'
<1>1. Action("cs_switch_case_pre") /\ Acts("cs_switch_case_pre", 1, 0, 0, 0, 0)
  BY ActionActs DEF cs_switch_case_pre, Dropping
<1>2. Entered(1, 0, 0, 0, 0)
  BY <1>1, Entry DEF Down
<1>3. css' \in Seq(Flag) /\ Len(css') = Len(css) + 0
  BY <1>2 DEF Entered, cs_switch_case_pre, stacks, Case
<1>4. function_state_stack' \in Seq(FunctionState) /\ status' \in Statuses
      /\ function_state_stack' = function_state_stack
  BY <1>2 DEF Entered, cs_switch_case_pre, stacks, world, Case
<1>5. Flowing' /\ function_state'.loop_nest_level = function_state.loop_nest_level + 0
  <2>1. CASE Execute /\ ~ switch_stack[1].matched
    <3>1. PICK flag \in Flag : SetFlow(flag, function_state)
      BY <2>1 DEF cs_switch_case_pre, Case, Chosen, Flag
    <3>2. Flowing' /\ function_state' = function_state
      BY <1>2, <1>3, <1>4, <3>1, FlowSet DEF Entered
    <3> QED BY <1>2, <3>2 DEF Entered
  <2>2. CASE ~ (Execute /\ ~ switch_stack[1].matched)
    <3>1. UNCHANGED flow
      BY <2>2 DEF cs_switch_case_pre, Case
    <3>2. Flowing' /\ function_state' = function_state
      BY <1>2, <1>3, <1>4, <3>1, FlowSame DEF Entered
    <3> QED BY <1>2, <3>2 DEF Entered
  <2> QED BY <2>1, <2>2
<1>6. Replaced(values, values', 1, 0)
  <2>1. IsSeq(values) /\ 1 <= Len(values)
    BY <1>2 DEF Entered, Doing
  <2> QED BY <2>1, ReplacedCases DEF cs_switch_case_pre, Case
<1>7. IsSeq(switch_stack') /\ Len(switch_stack') = Len(switch_stack) + 0
  <2>1. IsSeq(switch_stack) /\ Len(switch_stack) \in Nat
    BY <1>2, AnyTop DEF Entered, Doing
  <2>2. \/ switch_stack' = switch_stack
        \/ switch_stack' = [switch_stack EXCEPT
                              ![1] = [switch_stack[1] EXCEPT !.matched = values[1]]]
    BY DEF cs_switch_case_pre, Case
  <2>3. IsSeq(switch_stack') /\ Len(switch_stack') = Len(switch_stack)
    <3>1. \/ switch_stack' = switch_stack
          \/ switch_stack' = Changed(switch_stack, [switch_stack[1] EXCEPT !.matched = values[1]])
      BY <2>2, Zenon DEF Changed
    <3> QED BY <2>1, <3>1, AnyChanged, Zenon
  <2> QED BY <2>1, <2>3
<1>8. UNCHANGED <<input, function_table>>
  BY DEF cs_switch_case_pre, world, Case
<1> QED BY <1>1, <1>2, <1>3, <1>4, <1>5, <1>6, <1>7, <1>8, QuietStep DEF Down

LEMMA cs_switch_default_pre_Keeps ==
  ASSUME IInv, cs_switch_default_pre
  PROVE  IInv'
<1>1. Action("cs_switch_default_pre") /\ Acts("cs_switch_default_pre", 0, 0, 0, 0, 0)
  BY Zenon, IdleActs DEF cs_switch_default_pre, Idle
<1>2. Entered(0, 0, 0, 0, 0)
  BY <1>1, Entry DEF Down
<1>3. css' \in Seq(Flag) /\ Len(css') = Len(css) + 0
  BY <1>2 DEF Entered, cs_switch_default_pre, stacks, Case
<1>4. function_state_stack' \in Seq(FunctionState) /\ status' \in Statuses
      /\ function_state_stack' = function_state_stack
  BY <1>2 DEF Entered, cs_switch_default_pre, stacks, world, Case
<1>5. Flowing' /\ function_state'.loop_nest_level = function_state.loop_nest_level + 0
  <2>1. CASE Execute /\ ~ switch_stack[1].matched
    <3>1. PICK flag \in Flag : SetFlow(flag, function_state)
      BY <2>1 DEF cs_switch_default_pre, Case, Chosen, Flag
    <3>2. Flowing' /\ function_state' = function_state
      BY <1>2, <1>3, <1>4, <3>1, FlowSet DEF Entered
    <3> QED BY <1>2, <3>2 DEF Entered
  <2>2. CASE ~ (Execute /\ ~ switch_stack[1].matched)
    <3>1. UNCHANGED flow
      BY <2>2 DEF cs_switch_default_pre, Case
    <3>2. Flowing' /\ function_state' = function_state
      BY <1>2, <1>3, <1>4, <3>1, FlowSame DEF Entered
    <3> QED BY <1>2, <3>2 DEF Entered
  <2> QED BY <2>1, <2>2
<1>6. Replaced(values, values', 0, 0)
  <2>1. IsSeq(values) /\ 0 <= Len(values)
    BY <1>2 DEF Entered, Doing
  <2> QED BY <2>1, ReplacedCases DEF cs_switch_default_pre, Case
<1>7. IsSeq(switch_stack') /\ Len(switch_stack') = Len(switch_stack) + 0
  <2>1. IsSeq(switch_stack) /\ Len(switch_stack) \in Nat
    BY <1>2, AnyTop DEF Entered, Doing
  <2>2. \/ switch_stack' = switch_stack
        \/ switch_stack' = [switch_stack EXCEPT ![1] = [switch_stack[1] EXCEPT !.matched = TRUE]]
    BY DEF cs_switch_default_pre, Case
  <2>3. IsSeq(switch_stack') /\ Len(switch_stack') = Len(switch_stack)
    <3>1. \/ switch_stack' = switch_stack
          \/ switch_stack' = Changed(switch_stack, [switch_stack[1] EXCEPT !.matched = TRUE])
      BY <2>2, Zenon DEF Changed
    <3> QED BY <2>1, <3>1, AnyChanged, Zenon
  <2> QED BY <2>1, <2>3
<1>8. UNCHANGED <<input, function_table>>
  BY DEF cs_switch_default_pre, world, Case
<1> QED BY <1>1, <1>2, <1>3, <1>4, <1>5, <1>6, <1>7, <1>8, QuietStep DEF Down

LEMMA cs_switch_case_post_Keeps ==
  ASSUME IInv, cs_switch_case_post
  PROVE  IInv'
<1>1. Action("cs_switch_case_post") /\ Acts("cs_switch_case_post", 0, 0, 0, 0, 0)
  BY Zenon, IdleActs DEF cs_switch_case_post, Idle
<1>2. Entered(0, 0, 0, 0, 0) /\ css # <<>>
  BY <1>1, Entry DEF Down, Inside
<1>3. css' \in Seq(Flag) /\ Len(css') = Len(css) + 0
  BY <1>2 DEF Entered, cs_switch_case_post, stacks, Case
<1>4. function_state_stack' \in Seq(FunctionState) /\ status' \in Statuses
      /\ function_state_stack' = function_state_stack
  BY <1>2 DEF Entered, cs_switch_case_post, stacks, world, Case
<1>5. Flowing' /\ function_state'.loop_nest_level = function_state.loop_nest_level + 0
  <2>1. PICK flag : flag = SavedFlag
    OBVIOUS
  <2>2. SetFlow(flag, function_state)
    BY <2>1 DEF cs_switch_case_post
  <2>3. flag \in Flag
    BY <1>2, <2>1, FlagStack DEF Entered, Flag
  <2>4. Flowing' /\ function_state' = function_state
    BY <1>2, <1>3, <1>4, <2>2, <2>3, FlowSet DEF Entered
  <2> QED BY <1>2, <2>4 DEF Entered
<1>6. Replaced(values, values', 0, 0)
  <2>1. IsSeq(values) /\ 0 <= Len(values)
    BY <1>2 DEF Entered, Doing
  <2> QED BY <2>1, ReplacedCases DEF cs_switch_case_post, Case
<1>7. IsSeq(switch_stack') /\ Len(switch_stack') = Len(switch_stack) + 0
  <2>1. IsSeq(switch_stack) /\ switch_stack' = switch_stack
    BY <1>2 DEF Entered, Doing, cs_switch_case_post, stacks
  <2> QED BY <2>1, AnyTop
<1>8. UNCHANGED <<input, function_table>>
  BY DEF cs_switch_case_post, world, Case
<1> QED BY <1>1, <1>2, <1>3, <1>4, <1>5, <1>6, <1>7, <1>8, QuietStep DEF Down

LEMMA cs_switch_end_Keeps ==
  ASSUME IInv, cs_switch_end
  PROVE  IInv'
<1>1. Action("cs_switch_end") /\ Acts("cs_switch_end", 0, 0, Down, Down, Down)
  BY ActionActs DEF cs_switch_end
<1>2. Entered(0, 0, Down, Down, Down) /\ css # <<>>
  BY <1>1, Entry DEF Down
<1>3. css' \in Seq(Flag) /\ Len(css') = Len(css) + Down
  BY <1>2, FlagStack DEF Entered, Down, cs_switch_end
<1>4. function_state_stack' \in Seq(FunctionState) /\ status' \in Statuses
      /\ function_state_stack' = function_state_stack
  BY <1>2 DEF Entered, cs_switch_end, stacks, world, Case
<1>5. Flowing' /\ function_state'.loop_nest_level = function_state.loop_nest_level + Down
  <2>1. PICK fs : fs = IF ~ Execute /\ function_state.loop_change_level
                                       = function_state.loop_nest_level
                       THEN [Nested(-1) EXCEPT !.loop_change_type = "DO_NOTHING"]
                       ELSE Nested(-1)
    OBVIOUS
  <2>2. SetFlow(SavedFlag, fs)
    BY <2>1 DEF cs_switch_end
  <2>3. /\ Nested(-1) \in FunctionState
        /\ Nested(-1).loop_nest_level = function_state.loop_nest_level + (-1)
    <3>1. function_state \in FunctionState /\ function_state.loop_nest_level + (-1) \in Nat
      BY <1>2 DEF Entered, Doing, Down
    <3> QED BY <3>1, NestedState
  <2>4. fs \in FunctionState /\ fs.loop_nest_level = function_state.loop_nest_level + (-1)
    BY <2>1, <2>3 DEF FunctionState
  <2>5. SavedFlag \in Flag
    BY <1>2, FlagStack DEF Entered
  <2>6. Flowing' /\ function_state' = fs
    BY <1>3, <1>4, <2>2, <2>4, <2>5, FlowSet
  <2> QED BY <2>4, <2>6 DEF Down
<1>6. Replaced(values, values', 0, 0)
  <2>1. IsSeq(values) /\ 0 <= Len(values)
    BY <1>2 DEF Entered, Doing
  <2> QED BY <2>1, ReplacedCases DEF cs_switch_end, Case
<1>7. IsSeq(switch_stack') /\ Len(switch_stack') = Len(switch_stack) + Down
  <2>1. IsSeq(switch_stack) /\ Len(switch_stack) + Down \in Nat
    BY <1>2 DEF Entered, Doing
  <2> QED BY <2>1, AnyTop DEF cs_switch_end
<1>8. UNCHANGED <<input, function_table>>
  BY DEF cs_switch_end, world, Case
<1> QED BY <1>1, <1>2, <1>3, <1>4, <1>5, <1>6, <1>7, <1>8, QuietStep DEF Down

\* Values.
LEMMA evaluate_Keeps ==
  ASSUME IInv, evaluate
  PROVE  IInv'
<1>1. Action("evaluate") /\ Acts("evaluate", 0, 1, 0, 0, 0)
  BY ActionActs DEF evaluate
<1>2. Entered(0, 1, 0, 0, 0)
  BY <1>1, Entry DEF Down
<1>3. css' \in Seq(Flag) /\ Len(css') = Len(css) + 0
  BY <1>2 DEF Entered, evaluate, stacks, Case
<1>4. function_state_stack' \in Seq(FunctionState) /\ status' \in Statuses
      /\ function_state_stack' = function_state_stack
  BY <1>2 DEF Entered, evaluate, stacks, world, Case
<1>5. Flowing' /\ function_state'.loop_nest_level = function_state.loop_nest_level + 0
  <2>1. UNCHANGED flow
    BY DEF evaluate
  <2>2. Flowing' /\ function_state' = function_state
    BY <1>2, <1>3, <1>4, <2>1, FlowSame DEF Entered
  <2> QED BY <1>2, <2>2 DEF Entered
<1>6. Replaced(values, values', 0, 1)
  <2>1. IsSeq(values) /\ 0 <= Len(values)
    BY <1>2 DEF Entered, Doing
  <2> QED BY <2>1, ReplacedCases DEF evaluate, Case
<1>7. IsSeq(switch_stack') /\ Len(switch_stack') = Len(switch_stack) + 0
  <2>1. IsSeq(switch_stack) /\ switch_stack' = switch_stack
    BY <1>2 DEF Entered, Doing, evaluate, stacks
  <2> QED BY <2>1, AnyTop
<1>8. UNCHANGED <<input, function_table>>
  BY DEF evaluate, world, Case
<1> QED BY <1>1, <1>2, <1>3, <1>4, <1>5, <1>6, <1>7, <1>8, QuietStep DEF Down

LEMMA empty_Keeps ==
  ASSUME IInv, empty
  PROVE  IInv'
<1>1. Action("empty") /\ Acts("empty", 0, 1, 0, 0, 0)
  BY ActionActs DEF empty
<1>2. Entered(0, 1, 0, 0, 0)
  BY <1>1, Entry DEF Down
<1>3. css' \in Seq(Flag) /\ Len(css') = Len(css) + 0
  BY <1>2 DEF Entered, empty, stacks, Case
<1>4. function_state_stack' \in Seq(FunctionState) /\ status' \in Statuses
      /\ function_state_stack' = function_state_stack
  BY <1>2 DEF Entered, empty, stacks, world, Case
<1>5. Flowing' /\ function_state'.loop_nest_level = function_state.loop_nest_level + 0
  <2>1. UNCHANGED flow
    BY DEF empty
  <2>2. Flowing' /\ function_state' = function_state
    BY <1>2, <1>3, <1>4, <2>1, FlowSame DEF Entered
  <2> QED BY <1>2, <2>2 DEF Entered
<1>6. Replaced(values, values', 0, 1)
  <2>1. IsSeq(values) /\ 0 <= Len(values)
    BY <1>2 DEF Entered, Doing
  <2> QED BY <2>1, ReplacedCases DEF empty, Case
<1>7. IsSeq(switch_stack') /\ Len(switch_stack') = Len(switch_stack) + 0
  <2>1. IsSeq(switch_stack) /\ switch_stack' = switch_stack
    BY <1>2 DEF Entered, Doing, empty, stacks
  <2> QED BY <2>1, AnyTop
<1>8. UNCHANGED <<input, function_table>>
  BY DEF empty, world, Case
<1> QED BY <1>1, <1>2, <1>3, <1>4, <1>5, <1>6, <1>7, <1>8, QuietStep DEF Down

LEMMA drop_Keeps ==
  ASSUME IInv, drop
  PROVE  IInv'
<1>1. Action("drop") /\ Acts("drop", 1, 0, 0, 0, 0)
  BY ActionActs DEF drop, Dropping
<1>2. Entered(1, 0, 0, 0, 0)
  BY <1>1, Entry DEF Down
<1>3. css' \in Seq(Flag) /\ Len(css') = Len(css) + 0
  BY <1>2 DEF Entered, drop, stacks, Case
<1>4. function_state_stack' \in Seq(FunctionState) /\ status' \in Statuses
      /\ function_state_stack' = function_state_stack
  BY <1>2 DEF Entered, drop, stacks, world, Case
<1>5. Flowing' /\ function_state'.loop_nest_level = function_state.loop_nest_level + 0
  <2>1. UNCHANGED flow
    BY DEF drop
  <2>2. Flowing' /\ function_state' = function_state
    BY <1>2, <1>3, <1>4, <2>1, FlowSame DEF Entered
  <2> QED BY <1>2, <2>2 DEF Entered
<1>6. Replaced(values, values', 1, 0)
  <2>1. IsSeq(values) /\ 1 <= Len(values)
    BY <1>2 DEF Entered, Doing
  <2> QED BY <2>1, ReplacedCases DEF drop, Case
<1>7. IsSeq(switch_stack') /\ Len(switch_stack') = Len(switch_stack) + 0
  <2>1. IsSeq(switch_stack) /\ switch_stack' = switch_stack
    BY <1>2 DEF Entered, Doing, drop, stacks
  <2> QED BY <2>1, AnyTop
<1>8. UNCHANGED <<input, function_table>>
  BY DEF drop, world, Case
<1> QED BY <1>1, <1>2, <1>3, <1>4, <1>5, <1>6, <1>7, <1>8, QuietStep DEF Down

\* Operators that evaluate only one side: the flag is saved and restored around it.
LEMMA cs_pre_boolean_or_Keeps ==
  ASSUME IInv, cs_pre_boolean_or
  PROVE  IInv'
<1>1. Action("cs_pre_boolean_or") /\ Acts("cs_pre_boolean_or", 1, 1, 1, 0, 0)
  BY ActionActs DEF cs_pre_boolean_or
<1>2. Entered(1, 1, 1, 0, 0)
  BY <1>1, Entry DEF Down
<1>3. css' \in Seq(Flag) /\ Len(css') = Len(css) + 1
  BY <1>2, FlagStack DEF Entered, cs_pre_boolean_or, SkipIf
<1>4. function_state_stack' \in Seq(FunctionState) /\ status' \in Statuses
      /\ function_state_stack' = function_state_stack
  BY <1>2 DEF Entered, cs_pre_boolean_or, stacks, world, Case, SkipIf
<1>5. Flowing' /\ function_state'.loop_nest_level = function_state.loop_nest_level + 0
  <2>1. SetFlow("DONT_EXECUTE", function_state) \/ UNCHANGED flow
    BY DEF cs_pre_boolean_or, SkipIf
  <2>2. "DONT_EXECUTE" \in Flag
    BY DEF Flag
  <2>3. Flowing' /\ function_state' = function_state
    BY <1>2, <1>3, <1>4, <2>1, <2>2, FlowSame, FlowSet DEF Entered
  <2> QED BY <1>2, <2>3 DEF Entered
<1>6. Replaced(values, values', 1, 1)
  <2>1. IsSeq(values) /\ 1 <= Len(values)
    BY <1>2 DEF Entered, Doing
  <2> QED BY <2>1, ReplacedCases DEF cs_pre_boolean_or, Case, SkipIf
<1>7. IsSeq(switch_stack') /\ Len(switch_stack') = Len(switch_stack) + 0
  <2>1. IsSeq(switch_stack) /\ switch_stack' = switch_stack
    BY <1>2 DEF Entered, Doing, cs_pre_boolean_or, stacks, SkipIf
  <2> QED BY <2>1, AnyTop
<1>8. UNCHANGED <<input, function_table>>
  BY DEF cs_pre_boolean_or, world, Case, SkipIf
<1> QED BY <1>1, <1>2, <1>3, <1>4, <1>5, <1>6, <1>7, <1>8, QuietStep DEF Down

LEMMA cs_pre_boolean_and_Keeps ==
  ASSUME IInv, cs_pre_boolean_and
  PROVE  IInv'
<1>1. Action("cs_pre_boolean_and") /\ Acts("cs_pre_boolean_and", 1, 1, 1, 0, 0)
  BY ActionActs DEF cs_pre_boolean_and
<1>2. Entered(1, 1, 1, 0, 0)
  BY <1>1, Entry DEF Down
<1>3. css' \in Seq(Flag) /\ Len(css') = Len(css) + 1
  BY <1>2, FlagStack DEF Entered, cs_pre_boolean_and, SkipIf
<1>4. function_state_stack' \in Seq(FunctionState) /\ status' \in Statuses
      /\ function_state_stack' = function_state_stack
  BY <1>2 DEF Entered, cs_pre_boolean_and, stacks, world, Case, SkipIf
<1>5. Flowing' /\ function_state'.loop_nest_level = function_state.loop_nest_level + 0
  <2>1. SetFlow("DONT_EXECUTE", function_state) \/ UNCHANGED flow
    BY DEF cs_pre_boolean_and, SkipIf
  <2>2. "DONT_EXECUTE" \in Flag
    BY DEF Flag
  <2>3. Flowing' /\ function_state' = function_state
    BY <1>2, <1>3, <1>4, <2>1, <2>2, FlowSame, FlowSet DEF Entered
  <2> QED BY <1>2, <2>3 DEF Entered
<1>6. Replaced(values, values', 1, 1)
  <2>1. IsSeq(values) /\ 1 <= Len(values)
    BY <1>2 DEF Entered, Doing
  <2> QED BY <2>1, ReplacedCases DEF cs_pre_boolean_and, Case, SkipIf
<1>7. IsSeq(switch_stack') /\ Len(switch_stack') = Len(switch_stack) + 0
  <2>1. IsSeq(switch_stack) /\ switch_stack' = switch_stack
    BY <1>2 DEF Entered, Doing, cs_pre_boolean_and, stacks, SkipIf
  <2> QED BY <2>1, AnyTop
<1>8. UNCHANGED <<input, function_table>>
  BY DEF cs_pre_boolean_and, world, Case, SkipIf
<1> QED BY <1>1, <1>2, <1>3, <1>4, <1>5, <1>6, <1>7, <1>8, QuietStep DEF Down

LEMMA cs_questionmark_op_pre_expr1_Keeps ==
  ASSUME IInv, cs_questionmark_op_pre_expr1
  PROVE  IInv'
<1>1. Action("cs_questionmark_op_pre_expr1") /\ Acts("cs_questionmark_op_pre_expr1", 1, 1, 1, 0, 0)
  BY ActionActs DEF cs_questionmark_op_pre_expr1
<1>2. Entered(1, 1, 1, 0, 0)
  BY <1>1, Entry DEF Down
<1>3. css' \in Seq(Flag) /\ Len(css') = Len(css) + 1
  BY <1>2, FlagStack DEF Entered, cs_questionmark_op_pre_expr1, SkipIf
<1>4. function_state_stack' \in Seq(FunctionState) /\ status' \in Statuses
      /\ function_state_stack' = function_state_stack
  BY <1>2 DEF Entered, cs_questionmark_op_pre_expr1, stacks, world, Case, SkipIf
<1>5. Flowing' /\ function_state'.loop_nest_level = function_state.loop_nest_level + 0
  <2>1. SetFlow("DONT_EXECUTE", function_state) \/ UNCHANGED flow
    BY DEF cs_questionmark_op_pre_expr1, SkipIf
  <2>2. "DONT_EXECUTE" \in Flag
    BY DEF Flag
  <2>3. Flowing' /\ function_state' = function_state
    BY <1>2, <1>3, <1>4, <2>1, <2>2, FlowSame, FlowSet DEF Entered
  <2> QED BY <1>2, <2>3 DEF Entered
<1>6. Replaced(values, values', 1, 1)
  <2>1. IsSeq(values) /\ 1 <= Len(values)
    BY <1>2 DEF Entered, Doing
  <2> QED BY <2>1, ReplacedCases DEF cs_questionmark_op_pre_expr1, Case, SkipIf
<1>7. IsSeq(switch_stack') /\ Len(switch_stack') = Len(switch_stack) + 0
  <2>1. IsSeq(switch_stack) /\ switch_stack' = switch_stack
    BY <1>2 DEF Entered, Doing, cs_questionmark_op_pre_expr1, stacks, SkipIf
  <2> QED BY <2>1, AnyTop
<1>8. UNCHANGED <<input, function_table>>
  BY DEF cs_questionmark_op_pre_expr1, world, Case, SkipIf
<1> QED BY <1>1, <1>2, <1>3, <1>4, <1>5, <1>6, <1>7, <1>8, QuietStep DEF Down

LEMMA cs_post_boolean_or_Keeps ==
  ASSUME IInv, cs_post_boolean_or
  PROVE  IInv'
<1>1. Action("cs_post_boolean_or") /\ Acts("cs_post_boolean_or", 2, 1, Down, 0, 0)
  BY ActionActs DEF cs_post_boolean_or
<1>2. Entered(2, 1, Down, 0, 0) /\ css # <<>>
  BY <1>1, Entry DEF Down
<1>3. css' \in Seq(Flag) /\ Len(css') = Len(css) + Down
  BY <1>2, FlagStack DEF Entered, Down, cs_post_boolean_or, Result
<1>4. function_state_stack' \in Seq(FunctionState) /\ status' \in Statuses
      /\ function_state_stack' = function_state_stack
  BY <1>2 DEF Entered, cs_post_boolean_or, stacks, world, Case, Result
<1>5. Flowing' /\ function_state'.loop_nest_level = function_state.loop_nest_level + 0
  <2>1. PICK flag : flag = SavedFlag
    OBVIOUS
  <2>2. SetFlow(flag, function_state)
    BY <2>1 DEF cs_post_boolean_or, Result
  <2>3. flag \in Flag
    BY <1>2, <2>1, FlagStack DEF Entered, Flag
  <2>4. Flowing' /\ function_state' = function_state
    BY <1>2, <1>3, <1>4, <2>2, <2>3, FlowSet DEF Entered
  <2> QED BY <1>2, <2>4 DEF Entered
<1>6. Replaced(values, values', 2, 1)
  <2>1. IsSeq(values) /\ 2 <= Len(values)
    BY <1>2 DEF Entered, Doing
  <2>2. \E x : values' = Push(x, Pop(values, 2))
    BY Zenon DEF cs_post_boolean_or, Result
  <2> QED BY <2>1, <2>2, ReplacedCases
<1>7. IsSeq(switch_stack') /\ Len(switch_stack') = Len(switch_stack) + 0
  <2>1. IsSeq(switch_stack) /\ switch_stack' = switch_stack
    BY <1>2 DEF Entered, Doing, cs_post_boolean_or, stacks, Result
  <2> QED BY <2>1, AnyTop
<1>8. UNCHANGED <<input, function_table>>
  BY DEF cs_post_boolean_or, world, Case, Result
<1> QED BY <1>1, <1>2, <1>3, <1>4, <1>5, <1>6, <1>7, <1>8, QuietStep DEF Down

LEMMA cs_post_boolean_and_Keeps ==
  ASSUME IInv, cs_post_boolean_and
  PROVE  IInv'
<1>1. Action("cs_post_boolean_and") /\ Acts("cs_post_boolean_and", 2, 1, Down, 0, 0)
  BY ActionActs DEF cs_post_boolean_and
<1>2. Entered(2, 1, Down, 0, 0) /\ css # <<>>
  BY <1>1, Entry DEF Down
<1>3. css' \in Seq(Flag) /\ Len(css') = Len(css) + Down
  BY <1>2, FlagStack DEF Entered, Down, cs_post_boolean_and, Result
<1>4. function_state_stack' \in Seq(FunctionState) /\ status' \in Statuses
      /\ function_state_stack' = function_state_stack
  BY <1>2 DEF Entered, cs_post_boolean_and, stacks, world, Case, Result
<1>5. Flowing' /\ function_state'.loop_nest_level = function_state.loop_nest_level + 0
  <2>1. PICK flag : flag = SavedFlag
    OBVIOUS
  <2>2. SetFlow(flag, function_state)
    BY <2>1 DEF cs_post_boolean_and, Result
  <2>3. flag \in Flag
    BY <1>2, <2>1, FlagStack DEF Entered, Flag
  <2>4. Flowing' /\ function_state' = function_state
    BY <1>2, <1>3, <1>4, <2>2, <2>3, FlowSet DEF Entered
  <2> QED BY <1>2, <2>4 DEF Entered
<1>6. Replaced(values, values', 2, 1)
  <2>1. IsSeq(values) /\ 2 <= Len(values)
    BY <1>2 DEF Entered, Doing
  <2>2. \E x : values' = Push(x, Pop(values, 2))
    BY Zenon DEF cs_post_boolean_and, Result
  <2> QED BY <2>1, <2>2, ReplacedCases
<1>7. IsSeq(switch_stack') /\ Len(switch_stack') = Len(switch_stack) + 0
  <2>1. IsSeq(switch_stack) /\ switch_stack' = switch_stack
    BY <1>2 DEF Entered, Doing, cs_post_boolean_and, stacks, Result
  <2> QED BY <2>1, AnyTop
<1>8. UNCHANGED <<input, function_table>>
  BY DEF cs_post_boolean_and, world, Case, Result
<1> QED BY <1>1, <1>2, <1>3, <1>4, <1>5, <1>6, <1>7, <1>8, QuietStep DEF Down

LEMMA cs_questionmark_op_post_expr2_Keeps ==
  ASSUME IInv, cs_questionmark_op_post_expr2
  PROVE  IInv'
<1>1. Action("cs_questionmark_op_post_expr2")
      /\ Acts("cs_questionmark_op_post_expr2", 3, 1, Down, 0, 0)
  BY ActionActs DEF cs_questionmark_op_post_expr2
<1>2. Entered(3, 1, Down, 0, 0) /\ css # <<>>
  BY <1>1, Entry DEF Down
<1>3. css' \in Seq(Flag) /\ Len(css') = Len(css) + Down
  BY <1>2, FlagStack DEF Entered, Down, cs_questionmark_op_post_expr2, Result
<1>4. function_state_stack' \in Seq(FunctionState) /\ status' \in Statuses
      /\ function_state_stack' = function_state_stack
  BY <1>2 DEF Entered, cs_questionmark_op_post_expr2, stacks, world, Case, Result
<1>5. Flowing' /\ function_state'.loop_nest_level = function_state.loop_nest_level + 0
  <2>1. PICK flag : flag = SavedFlag
    OBVIOUS
  <2>2. SetFlow(flag, function_state)
    BY <2>1 DEF cs_questionmark_op_post_expr2, Result
  <2>3. flag \in Flag
    BY <1>2, <2>1, FlagStack DEF Entered, Flag
  <2>4. Flowing' /\ function_state' = function_state
    BY <1>2, <1>3, <1>4, <2>2, <2>3, FlowSet DEF Entered
  <2> QED BY <1>2, <2>4 DEF Entered
<1>6. Replaced(values, values', 3, 1)
  <2>1. IsSeq(values) /\ 3 <= Len(values)
    BY <1>2 DEF Entered, Doing
  <2>2. \E x : values' = Push(x, Pop(values, 3))
    BY Zenon DEF cs_questionmark_op_post_expr2, Result
  <2> QED BY <2>1, <2>2, ReplacedCases
<1>7. IsSeq(switch_stack') /\ Len(switch_stack') = Len(switch_stack) + 0
  <2>1. IsSeq(switch_stack) /\ switch_stack' = switch_stack
    BY <1>2 DEF Entered, Doing, cs_questionmark_op_post_expr2, stacks, Result
  <2> QED BY <2>1, AnyTop
<1>8. UNCHANGED <<input, function_table>>
  BY DEF cs_questionmark_op_post_expr2, world, Case, Result
<1> QED BY <1>1, <1>2, <1>3, <1>4, <1>5, <1>6, <1>7, <1>8, QuietStep DEF Down

LEMMA cs_questionmark_op_pre_expr2_Keeps ==
  ASSUME IInv, cs_questionmark_op_pre_expr2
  PROVE  IInv'
<1>1. Action("cs_questionmark_op_pre_expr2") /\ Acts("cs_questionmark_op_pre_expr2", 0, 0, 0, 0, 0)
  BY Zenon, IdleActs DEF cs_questionmark_op_pre_expr2, Idle
<1>2. Entered(0, 0, 0, 0, 0) /\ css # <<>>
  BY <1>1, Entry DEF Down, Inside
<1>3. css' \in Seq(Flag) /\ Len(css') = Len(css) + 0
  BY <1>2 DEF Entered, cs_questionmark_op_pre_expr2, stacks, Case
<1>4. function_state_stack' \in Seq(FunctionState) /\ status' \in Statuses
      /\ function_state_stack' = function_state_stack
  BY <1>2 DEF Entered, cs_questionmark_op_pre_expr2, stacks, world, Case
<1>5. Flowing' /\ function_state'.loop_nest_level = function_state.loop_nest_level + 0
  <2>1. PICK flag : flag = IF SHOULD_EXECUTE(SavedFlag, function_state) /\ values[2]
                         THEN "DONT_EXECUTE" ELSE SavedFlag
    OBVIOUS
  <2>2. SetFlow(flag, function_state)
    BY <2>1 DEF cs_questionmark_op_pre_expr2
  <2>3. flag \in Flag
    BY <1>2, <2>1, FlagStack DEF Entered, Flag
  <2>4. Flowing' /\ function_state' = function_state
    BY <1>2, <1>3, <1>4, <2>2, <2>3, FlowSet DEF Entered
  <2> QED BY <1>2, <2>4 DEF Entered
<1>6. Replaced(values, values', 0, 0)
  <2>1. IsSeq(values) /\ 0 <= Len(values)
    BY <1>2 DEF Entered, Doing
  <2> QED BY <2>1, ReplacedCases DEF cs_questionmark_op_pre_expr2, Case
<1>7. IsSeq(switch_stack') /\ Len(switch_stack') = Len(switch_stack) + 0
  <2>1. IsSeq(switch_stack) /\ switch_stack' = switch_stack
    BY <1>2 DEF Entered, Doing, cs_questionmark_op_pre_expr2, stacks
  <2> QED BY <2>1, AnyTop
<1>8. UNCHANGED <<input, function_table>>
  BY DEF cs_questionmark_op_pre_expr2, world, Case
<1> QED BY <1>1, <1>2, <1>3, <1>4, <1>5, <1>6, <1>7, <1>8, QuietStep DEF Down

\* A declaration is skipped.
LEMMA start_function_decleration_Keeps ==
  ASSUME IInv, start_function_decleration
  PROVE  IInv'
<1>1. Action("start_function_decleration") /\ Acts("start_function_decleration", 0, 0, 1, 0, 0)
  BY ActionActs DEF start_function_decleration
<1>2. Entered(0, 0, 1, 0, 0)
  BY <1>1, Entry DEF Down
<1>3. css' \in Seq(Flag) /\ Len(css') = Len(css) + 1
  BY <1>2, FlagStack DEF Entered, start_function_decleration
<1>4. function_state_stack' \in Seq(FunctionState) /\ status' \in Statuses
      /\ function_state_stack' = function_state_stack
  BY <1>2 DEF Entered, start_function_decleration, stacks, world, Case
<1>5. Flowing' /\ function_state'.loop_nest_level = function_state.loop_nest_level + 0
  <2>1. PICK flag : flag = "DONT_EXECUTE"
    OBVIOUS
  <2>2. SetFlow(flag, function_state)
    BY <2>1 DEF start_function_decleration
  <2>3. flag \in Flag
    BY <1>2, <2>1 DEF Entered, Flag
  <2>4. Flowing' /\ function_state' = function_state
    BY <1>2, <1>3, <1>4, <2>2, <2>3, FlowSet DEF Entered
  <2> QED BY <1>2, <2>4 DEF Entered
<1>6. Replaced(values, values', 0, 0)
  <2>1. IsSeq(values) /\ 0 <= Len(values)
    BY <1>2 DEF Entered, Doing
  <2> QED BY <2>1, ReplacedCases DEF start_function_decleration, Case
<1>7. IsSeq(switch_stack') /\ Len(switch_stack') = Len(switch_stack) + 0
  <2>1. IsSeq(switch_stack) /\ switch_stack' = switch_stack
    BY <1>2 DEF Entered, Doing, start_function_decleration, stacks
  <2> QED BY <2>1, AnyTop
<1>8. UNCHANGED <<input, function_table>>
  BY DEF start_function_decleration, world, Case
<1> QED BY <1>1, <1>2, <1>3, <1>4, <1>5, <1>6, <1>7, <1>8, QuietStep DEF Down

\* return: the function executes nothing more.
LEMMA cs_return_Keeps ==
  ASSUME IInv, cs_return
  PROVE  IInv'
<1>1. Action("cs_return") /\ Acts("cs_return", 1, 0, 0, 0, 0)
  BY ActionActs DEF cs_return, Dropping
<1>2. Entered(1, 0, 0, 0, 0)
  BY <1>1, Entry DEF Down
<1>3. css' \in Seq(Flag) /\ Len(css') = Len(css) + 0
  BY <1>2 DEF Entered, cs_return, stacks, Case
<1>4. function_state_stack' \in Seq(FunctionState) /\ status' \in Statuses
      /\ function_state_stack' = function_state_stack
  BY <1>2 DEF Entered, cs_return, stacks, world, Case
<1>5. Flowing' /\ function_state'.loop_nest_level = function_state.loop_nest_level + 0
  <2>1. CASE Execute
    <3>1. PICK fs : fs = [function_state EXCEPT !.returned = TRUE]
      OBVIOUS
    <3>2. SetFlow("DONT_EXECUTE", fs)
      BY <2>1, <3>1 DEF cs_return
    <3>3. /\ "DONT_EXECUTE" \in Flag /\ fs \in FunctionState
          /\ fs.loop_nest_level = function_state.loop_nest_level
      BY <1>2, <3>1 DEF Entered, Flag, FunctionState
    <3>4. Flowing' /\ function_state' = fs
      BY <1>3, <1>4, <3>2, <3>3, FlowSet
    <3> QED BY <1>2, <3>3, <3>4 DEF Entered
  <2>2. CASE ~ Execute
    <3>1. UNCHANGED flow
      BY <2>2 DEF cs_return
    <3>2. Flowing' /\ function_state' = function_state
      BY <1>2, <1>3, <1>4, <3>1, FlowSame DEF Entered
    <3> QED BY <1>2, <3>2 DEF Entered
  <2> QED BY <2>1, <2>2
<1>6. Replaced(values, values', 1, 0)
  <2>1. IsSeq(values) /\ 1 <= Len(values)
    BY <1>2 DEF Entered, Doing
  <2> QED BY <2>1, ReplacedCases DEF cs_return, Case
<1>7. IsSeq(switch_stack') /\ Len(switch_stack') = Len(switch_stack) + 0
  <2>1. IsSeq(switch_stack) /\ switch_stack' = switch_stack
    BY <1>2 DEF Entered, Doing, cs_return, stacks
  <2> QED BY <2>1, AnyTop
<1>8. UNCHANGED <<input, function_table>>
  BY DEF cs_return, world, Case
<1> QED BY <1>1, <1>2, <1>3, <1>4, <1>5, <1>6, <1>7, <1>8, QuietStep DEF Down

-----------------------------------------------------------------------------
(* The actions that turn tokens *)

Turnable == {"WHILE", "CONTINUED_WHILE", "DO", "CONTINUED_DOWHILE", "FOR", "CONTINUED_FOR",
             "FUNCTION", "IC_FUNCTION"}

\* A token of the cache may be turned: its offset stays what it is.
LEMMA TokenChanged ==
  ASSUME NEW n \in Nat, NEW ts, TokensOK(ts, n), NEW off \in 1 .. n - 1
  PROVE  /\ \A type \in Turnable : TokensOK([ts EXCEPT ![off].type = type], n)
         /\ TokensOK([ts EXCEPT ![off].switched = TRUE], n)
<1>1. ts \in [1 .. n -> Token] /\ n >= 1 /\ ts[n].type = "EOF"
      /\ \A i \in 1 .. n : ts[i].offset = i
  BY DEF TokensOK
<1>2. off \in 1 .. n /\ off # n
  OBVIOUS
<1>3. ASSUME NEW t \in Token, NEW type \in Turnable
      PROVE  /\ [t EXCEPT !.type = type] \in Token
             /\ [t EXCEPT !.type = type].offset = t.offset
  BY DEF Token, Turnable
<1>4. ASSUME NEW t \in Token
      PROVE  /\ [t EXCEPT !.switched = TRUE] \in Token
             /\ [t EXCEPT !.switched = TRUE].offset = t.offset
  BY DEF Token
<1>5. ASSUME NEW u \in Token, u.offset = off PROVE TokensOK([ts EXCEPT ![off] = u], n)
  <2>1. [ts EXCEPT ![off] = u] \in [1 .. n -> Token]
    BY <1>1
  <2>2. \A i \in 1 .. n : [ts EXCEPT ![off] = u][i] = IF i = off THEN u ELSE ts[i]
    BY <1>1
  <2>3. \A i \in 1 .. n : [ts EXCEPT ![off] = u][i].offset = i
    BY <1>1, <1>5, <2>2
  <2>4. [ts EXCEPT ![off] = u][n].type = "EOF"
    BY <1>1, <1>2, <2>2
  <2> QED BY <1>1, <2>1, <2>3, <2>4 DEF TokensOK
<1>6. ts[off] \in Token /\ ts[off].offset = off
  BY <1>1, <1>2
<1>7. ASSUME NEW type \in Turnable PROVE TokensOK([ts EXCEPT ![off].type = type], n)
  <2>1. PICK u \in Token : u = [ts[off] EXCEPT !.type = type] /\ u.offset = off
    BY <1>3, <1>6, ZenonT(60)
  <2>2. TokensOK([ts EXCEPT ![off] = u], n)
    BY <1>5, <2>1
  <2> QED BY <2>1, <2>2
<1>8. TokensOK([ts EXCEPT ![off].switched = TRUE], n)
  <2>1. PICK u \in Token : u = [ts[off] EXCEPT !.switched = TRUE] /\ u.offset = off
    BY <1>4, <1>6
  <2>2. TokensOK([ts EXCEPT ![off] = u], n)
    BY <1>5, <2>1
  <2> QED BY <2>1, <2>2
<1> QED BY <1>7, <1>8

\* The parts of InputInv where the cache has n tokens.
LEMMA InputParts ==
  ASSUME InputInv
  PROVE  /\ Len(tokens) \in Nat /\ TokensOK(tokens, Len(tokens))
         /\ LookaheadOK(yychar, Len(tokens)) /\ PlaceOK(pos, yychar, parse, Len(tokens))
         /\ shutdown \in Shutdown /\ SymbolsOK(parse, Len(tokens))
         /\ TableOK(function_table, Len(tokens)) /\ FramesOK(suspended, Len(tokens))
BY DEF InputInv, TokensOK

\* An action that turns tokens, and goes to one of them.
LEMMA InputTurned ==
  ASSUME InputInv, parse # <<>>, parse' = Tail(parse), suspended' = suspended,
         TokensOK(tokens', Len(tokens)), shutdown' \in Shutdown,
         TableOK(function_table', Len(tokens)),
         UNCHANGED <<pos, yychar>> \/ \E off \in 1 .. Len(tokens) : seek_token(off)
  PROVE  InputInv' /\ Len(tokens') = Len(tokens)
<1>1. PICK n \in Nat : n = Len(tokens)
  BY InputParts
<1>2. SymbolsOK(Tail(parse), n)
  BY <1>1, InputParts, SymbolsTail
<1>3. LookaheadOK(yychar', n) /\ PlaceOK(pos', yychar', Tail(parse), n)
  <2>1. CASE UNCHANGED <<pos, yychar>>
    BY <1>1, <2>1, InputParts DEF PlaceOK
  <2>2. CASE \E off \in 1 .. Len(tokens) : seek_token(off)
    <3>1. PICK off \in 1 .. n : pos' = off /\ yychar' = EMPTY
      BY <1>1, <2>2 DEF seek_token
    <3> QED BY <3>1 DEF LookaheadOK, PlaceOK
  <2> QED BY <2>1, <2>2
<1>4. Len(tokens') = n
  BY <1>1 DEF TokensOK
<1>5. FramesOK(suspended', n)
  BY <1>1, InputParts
<1> QED BY <1>1, <1>2, <1>3, <1>4, <1>5, Zenon DEF InputInv

\* The token of the next symbol.
LEMMA TokenOfAction ==
  ASSUME InputInv, parse # <<>>, Head(parse).sym \notin Bare
  PROVE  Tok.offset \in 1 .. Len(tokens) - 1 /\ Tok.offset \in 1 .. Len(tokens)
<1>1. PICK n \in Nat : n = Len(tokens)
  BY InputParts
<1>2. Tok.offset \in 1 .. n - 1
  BY <1>1, InputParts, SymbolsTail DEF Tok
<1> QED BY <1>1, <1>2

\* The end of a loop: its level is left, and what break or continue asked for is done.
LEMMA LeaveLoopFlow ==
  ASSUME LeaveLoop, Flowing, css # <<>>, function_state \in FunctionState,
         function_state.loop_nest_level + Down \in Nat,
         function_state_stack' \in Seq(FunctionState), status' \in Statuses
  PROVE  /\ Flowing' /\ Len(css') = Len(css) + Down
         /\ function_state'.loop_nest_level = function_state.loop_nest_level + Down
<1>1. PICK fs : fs = IF ~ Execute /\ ChangesThisLoop THEN NoChange(Nested(-1)) ELSE Nested(-1)
  OBVIOUS
<1>2. DropFlag /\ SetFlow(SavedFlag, fs)
  BY <1>1, Zenon DEF LeaveLoop
<1>3. Nested(-1) \in FunctionState
      /\ Nested(-1).loop_nest_level = function_state.loop_nest_level + (-1)
  <2>1. function_state.loop_nest_level + (-1) \in Nat
    BY DEF Down
  <2> QED BY <2>1, NestedState
<1>4. fs \in FunctionState /\ fs.loop_nest_level = function_state.loop_nest_level + (-1)
  <2>1. NoChange(Nested(-1)) \in FunctionState
        /\ NoChange(Nested(-1)).loop_nest_level = Nested(-1).loop_nest_level
    BY <1>3, StateChanges
  <2> QED BY <1>1, <1>3, <2>1
<1>5. SavedFlag \in Flag /\ css' \in Seq(Flag) /\ Len(css') = Len(css) - 1 /\ Len(css) \in Nat
  BY <1>2, FlagStack
<1>6. Flowing' /\ function_state' = fs
  BY <1>2, <1>4, <1>5, FlowSet
<1> QED BY <1>4, <1>5, <1>6 DEF Down

\* The token of a loop is turned for the next round, and restored behind the last.
LEMMA Turning ==
  ASSUME InputInv, parse # <<>>, Head(parse).sym \notin Bare, NEW type \in Turnable
  PROVE  /\ ResetToken(type) => TokensOK(tokens', Len(tokens))
         /\ Repeat(Tok, type) => /\ TokensOK(tokens', Len(tokens))
                                 /\ \E off \in 1 .. Len(tokens) : seek_token(off)
         /\ GoOn => TokensOK(tokens', Len(tokens)) /\ UNCHANGED <<pos, yychar>>
<1>1. PICK n \in Nat : n = Len(tokens) /\ TokensOK(tokens, n)
  BY InputParts
<1>2. PICK off \in 1 .. n - 1 : off = Tok.offset /\ off \in 1 .. n
  BY <1>1, TokenOfAction
<1>3. TokensOK(tc_set_token(off, type), n)
  BY <1>1, TokenChanged DEF tc_set_token
<1>4. ResetToken(type) => TokensOK(tokens', n)
  BY <1>1, <1>2, <1>3 DEF ResetToken
<1>5. Repeat(Tok, type) => TokensOK(tokens', n) /\ seek_token(off)
  BY <1>2, <1>3, Zenon DEF Repeat
<1>6. GoOn => TokensOK(tokens', n) /\ UNCHANGED <<pos, yychar>>
  BY <1>1 DEF GoOn
<1> QED BY <1>1, <1>2, <1>4, <1>5, <1>6

\* Loops: each round is started by its token, which is sought again at the end.
LEMMA cs_start_while_Keeps ==
  ASSUME IInv, cs_start_while
  PROVE  IInv'
<1>1. Action("cs_start_while") /\ Acts("cs_start_while", 1, 0, 1, 0, 1)
  BY ActionActs DEF cs_start_while
<1>2. Entered(1, 0, 1, 0, 1)
  BY <1>1, Entry DEF Down
<1>3. parse # <<>> /\ Head(parse).sym \notin Bare /\ parse' = Tail(parse) /\ suspended' = suspended
  <2>1. parse # <<>> /\ Head(parse).sym = "cs_start_while" /\ parse' = Tail(parse)
        /\ suspended' = suspended
    BY <1>1, AtAction, Zenon
  <2> QED BY <2>1 DEF Bare
<1>4. IsSeq(values) /\ 1 <= Len(values) /\ IsSeq(switch_stack) /\ switch_stack' = switch_stack
      /\ Len(switch_stack) \in Nat
  BY <1>2, AnyTop DEF Entered, Doing, cs_start_while, stacks
<1>5. function_state_stack' \in Seq(FunctionState) /\ function_state_stack' = function_state_stack
  BY <1>2 DEF Entered, cs_start_while, stacks
<1>6. status' \in Statuses /\ function_table' = function_table
  BY <1>2 DEF Entered, cs_start_while, world
<1>7. Flowing' /\ Len(css') = Len(css) + 1
      /\ function_state'.loop_nest_level = function_state.loop_nest_level + 1
  <2>1. css' \in Seq(Flag) /\ Len(css') = Len(css) + 1
    BY <1>2, FlagStack DEF Entered, cs_start_while
  <2>2. CASE Execute
    <3>1. PICK flag \in Flag : SetFlow(flag, Nested(1))
      BY <1>2, <2>2, Zenon DEF cs_start_while, Chosen, Flag, Entered, Flowing, FlowInv
    <3>2. /\ Nested(1) \in FunctionState
          /\ Nested(1).loop_nest_level = function_state.loop_nest_level + 1
      BY <1>2, NestedState DEF Entered, Doing
    <3>3. Flowing' /\ function_state' = Nested(1)
      BY <1>5, <1>6, <2>1, <3>1, <3>2, FlowSet
    <3> QED BY <2>1, <3>2, <3>3
  <2>3. CASE ~ Execute
    <3>1. function_state' = Nested(1) /\ UNCHANGED <<ExecuteFlag, Execute>>
      BY <2>3 DEF cs_start_while
    <3> QED BY <1>2, <1>5, <1>6, <2>1, <3>1, FlowNested DEF Entered
  <2> QED BY <2>2, <2>3
<1>8. Replaced(values, values', 1, 0)
  BY <1>4, ReplacedCases DEF cs_start_while
<1>9. InputInv' /\ Len(tokens') = Len(tokens)
  <2>1. InputInv /\ shutdown \in Shutdown /\ TableOK(function_table, Len(tokens))
    BY <1>2, InputParts DEF Entered
  <2>2. ResetToken("WHILE") /\ UNCHANGED <<pos, yychar>>
    BY DEF cs_start_while
  <2>3. "WHILE" \in Turnable
    BY DEF Turnable
  <2>4. TokensOK(tokens', Len(tokens))
        /\ (UNCHANGED <<pos, yychar>> \/ \E off \in 1 .. Len(tokens) : seek_token(off))
    BY <1>3, <2>1, <2>2, <2>3, Turning
  <2>5. shutdown' = shutdown
    BY DEF cs_start_while
  <2> QED BY <1>3, <1>6, <2>1, <2>4, <2>5, InputTurned
<1>10. IsSeq(switch_stack') /\ Len(switch_stack') = Len(switch_stack) + 0
  BY <1>4
<1> QED BY <1>1, <1>5, <1>7, <1>8, <1>9, <1>10, MoveStep DEF Down

LEMMA cs_end_while_Keeps ==
  ASSUME IInv, cs_end_while
  PROVE  IInv'
<1>1. Action("cs_end_while") /\ Acts("cs_end_while", 0, 0, Down, 0, Down)
  BY ActionActs DEF cs_end_while
<1>2. Entered(0, 0, Down, 0, Down) /\ css # <<>>
  BY <1>1, Entry DEF Down
<1>3. parse # <<>> /\ Head(parse).sym \notin Bare /\ parse' = Tail(parse) /\ suspended' = suspended
  <2>1. parse # <<>> /\ Head(parse).sym = "cs_end_while" /\ parse' = Tail(parse)
        /\ suspended' = suspended
    BY <1>1, AtAction, Zenon
  <2> QED BY <2>1 DEF Bare
<1>4. IsSeq(values) /\ 0 <= Len(values) /\ IsSeq(switch_stack) /\ switch_stack' = switch_stack
      /\ Len(switch_stack) \in Nat
  BY <1>2, AnyTop DEF Entered, Doing, cs_end_while, stacks
<1>5. function_state_stack' \in Seq(FunctionState) /\ function_state_stack' = function_state_stack
  BY <1>2 DEF Entered, cs_end_while, stacks
<1>6. status' \in Statuses /\ function_table' = function_table
  BY <1>2 DEF Entered, cs_end_while, world
<1>7. Flowing' /\ Len(css') = Len(css) + Down
      /\ function_state'.loop_nest_level = function_state.loop_nest_level + Down
  <2>1. LeaveLoop
    BY DEF cs_end_while
  <2> QED BY <1>2, <1>5, <1>6, <2>1, LeaveLoopFlow DEF Entered, Doing
<1>8. Replaced(values, values', 0, 0)
  BY <1>4, ReplacedCases DEF cs_end_while
<1>9. InputInv' /\ Len(tokens') = Len(tokens)
  <2>1. InputInv /\ shutdown \in Shutdown /\ TableOK(function_table, Len(tokens))
    BY <1>2, InputParts DEF Entered
  <2>2. Repeat(Tok, "CONTINUED_WHILE") \/ GoOn
    BY DEF cs_end_while
  <2>3. "CONTINUED_WHILE" \in Turnable
    BY DEF Turnable
  <2>4. TokensOK(tokens', Len(tokens))
        /\ (UNCHANGED <<pos, yychar>> \/ \E off \in 1 .. Len(tokens) : seek_token(off))
    BY <1>3, <2>1, <2>2, <2>3, Turning
  <2>5. shutdown' = shutdown
    BY DEF cs_end_while
  <2> QED BY <1>3, <1>6, <2>1, <2>4, <2>5, InputTurned
<1>10. IsSeq(switch_stack') /\ Len(switch_stack') = Len(switch_stack) + 0
  BY <1>4
<1> QED BY <1>1, <1>5, <1>7, <1>8, <1>9, <1>10, MoveStep DEF Down

LEMMA cs_start_do_while_Keeps ==
  ASSUME IInv, cs_start_do_while
  PROVE  IInv'
<1>1. Action("cs_start_do_while") /\ Acts("cs_start_do_while", 0, 0, 1, 0, 1)
  BY ActionActs DEF cs_start_do_while
<1>2. Entered(0, 0, 1, 0, 1)
  BY <1>1, Entry DEF Down
<1>3. parse # <<>> /\ Head(parse).sym \notin Bare /\ parse' = Tail(parse) /\ suspended' = suspended
  <2>1. parse # <<>> /\ Head(parse).sym = "cs_start_do_while" /\ parse' = Tail(parse)
        /\ suspended' = suspended
    BY <1>1, AtAction, Zenon
  <2> QED BY <2>1 DEF Bare
<1>4. IsSeq(values) /\ 0 <= Len(values) /\ IsSeq(switch_stack) /\ switch_stack' = switch_stack
      /\ Len(switch_stack) \in Nat
  BY <1>2, AnyTop DEF Entered, Doing, cs_start_do_while, stacks
<1>5. function_state_stack' \in Seq(FunctionState) /\ function_state_stack' = function_state_stack
  BY <1>2 DEF Entered, cs_start_do_while, stacks
<1>6. status' \in Statuses /\ function_table' = function_table
  BY <1>2 DEF Entered, cs_start_do_while, world
<1>7. Flowing' /\ Len(css') = Len(css) + 1
      /\ function_state'.loop_nest_level = function_state.loop_nest_level + 1
  <2>1. css' \in Seq(Flag) /\ Len(css') = Len(css) + 1
    BY <1>2, FlagStack DEF Entered, cs_start_do_while
  <2>2. function_state' = Nested(1) /\ UNCHANGED <<ExecuteFlag, Execute>>
    BY DEF cs_start_do_while
  <2> QED BY <1>2, <1>5, <1>6, <2>1, <2>2, FlowNested DEF Entered
<1>8. Replaced(values, values', 0, 0)
  BY <1>4, ReplacedCases DEF cs_start_do_while
<1>9. InputInv' /\ Len(tokens') = Len(tokens)
  <2>1. InputInv /\ shutdown \in Shutdown /\ TableOK(function_table, Len(tokens))
    BY <1>2, InputParts DEF Entered
  <2>2. ResetToken("DO") /\ UNCHANGED <<pos, yychar>>
    BY DEF cs_start_do_while
  <2>3. "DO" \in Turnable
    BY DEF Turnable
  <2>4. TokensOK(tokens', Len(tokens))
        /\ (UNCHANGED <<pos, yychar>> \/ \E off \in 1 .. Len(tokens) : seek_token(off))
    BY <1>3, <2>1, <2>2, <2>3, Turning
  <2>5. shutdown' = shutdown
    BY DEF cs_start_do_while
  <2> QED BY <1>3, <1>6, <2>1, <2>4, <2>5, InputTurned
<1>10. IsSeq(switch_stack') /\ Len(switch_stack') = Len(switch_stack) + 0
  BY <1>4
<1> QED BY <1>1, <1>5, <1>7, <1>8, <1>9, <1>10, MoveStep DEF Down

LEMMA cs_end_do_while_Keeps ==
  ASSUME IInv, cs_end_do_while
  PROVE  IInv'
<1>1. Action("cs_end_do_while") /\ Acts("cs_end_do_while", 1, 0, Down, 0, Down)
  BY ActionActs DEF cs_end_do_while
<1>2. Entered(1, 0, Down, 0, Down) /\ css # <<>>
  BY <1>1, Entry DEF Down
<1>3. parse # <<>> /\ Head(parse).sym \notin Bare /\ parse' = Tail(parse) /\ suspended' = suspended
  <2>1. parse # <<>> /\ Head(parse).sym = "cs_end_do_while" /\ parse' = Tail(parse)
        /\ suspended' = suspended
    BY <1>1, AtAction, Zenon
  <2> QED BY <2>1 DEF Bare
<1>4. IsSeq(values) /\ 1 <= Len(values) /\ IsSeq(switch_stack) /\ switch_stack' = switch_stack
      /\ Len(switch_stack) \in Nat
  BY <1>2, AnyTop DEF Entered, Doing, cs_end_do_while, stacks
<1>5. function_state_stack' \in Seq(FunctionState) /\ function_state_stack' = function_state_stack
  BY <1>2 DEF Entered, cs_end_do_while, stacks
<1>6. status' \in Statuses /\ function_table' = function_table
  BY <1>2 DEF Entered, cs_end_do_while, world
<1>7. Flowing' /\ Len(css') = Len(css) + Down
      /\ function_state'.loop_nest_level = function_state.loop_nest_level + Down
  <2>1. LeaveLoop
    BY DEF cs_end_do_while
  <2> QED BY <1>2, <1>5, <1>6, <2>1, LeaveLoopFlow DEF Entered, Doing
<1>8. Replaced(values, values', 1, 0)
  BY <1>4, ReplacedCases DEF cs_end_do_while
<1>9. InputInv' /\ Len(tokens') = Len(tokens)
  <2>1. InputInv /\ shutdown \in Shutdown /\ TableOK(function_table, Len(tokens))
    BY <1>2, InputParts DEF Entered
  <2>2. Repeat(Tok, "CONTINUED_DOWHILE") \/ GoOn
    BY DEF cs_end_do_while
  <2>3. "CONTINUED_DOWHILE" \in Turnable
    BY DEF Turnable
  <2>4. TokensOK(tokens', Len(tokens))
        /\ (UNCHANGED <<pos, yychar>> \/ \E off \in 1 .. Len(tokens) : seek_token(off))
    BY <1>3, <2>1, <2>2, <2>3, Turning
  <2>5. shutdown' = shutdown
    BY DEF cs_end_do_while
  <2> QED BY <1>3, <1>6, <2>1, <2>4, <2>5, InputTurned
<1>10. IsSeq(switch_stack') /\ Len(switch_stack') = Len(switch_stack) + 0
  BY <1>4
<1> QED BY <1>1, <1>5, <1>7, <1>8, <1>9, <1>10, MoveStep DEF Down

LEMMA for_pre_expr1_Keeps ==
  ASSUME IInv, for_pre_expr1
  PROVE  IInv'
<1>1. Action("for_pre_expr1") /\ Acts("for_pre_expr1", 0, 0, 1, 0, 1)
  BY ActionActs DEF for_pre_expr1
<1>2. Entered(0, 0, 1, 0, 1)
  BY <1>1, Entry DEF Down
<1>3. parse # <<>> /\ Head(parse).sym \notin Bare /\ parse' = Tail(parse) /\ suspended' = suspended
  <2>1. parse # <<>> /\ Head(parse).sym = "for_pre_expr1" /\ parse' = Tail(parse)
        /\ suspended' = suspended
    BY <1>1, AtAction, Zenon
  <2> QED BY <2>1 DEF Bare
<1>4. IsSeq(values) /\ 0 <= Len(values) /\ IsSeq(switch_stack) /\ switch_stack' = switch_stack
      /\ Len(switch_stack) \in Nat
  BY <1>2, AnyTop DEF Entered, Doing, for_pre_expr1, stacks
<1>5. function_state_stack' \in Seq(FunctionState) /\ function_state_stack' = function_state_stack
  BY <1>2 DEF Entered, for_pre_expr1, stacks
<1>6. status' \in Statuses /\ function_table' = function_table
  BY <1>2 DEF Entered, for_pre_expr1, world
<1>7. Flowing' /\ Len(css') = Len(css) + 1
      /\ function_state'.loop_nest_level = function_state.loop_nest_level + 1
  <2>1. css' \in Seq(Flag) /\ Len(css') = Len(css) + 1
    BY <1>2, FlagStack DEF Entered, for_pre_expr1
  <2>2. CASE Execute
    <3>1. PICK flag \in Flag : SetFlow(flag, Nested(1))
      BY <1>2, <2>2, Zenon DEF for_pre_expr1, Chosen, Flag, Entered, Flowing, FlowInv
    <3>2. /\ Nested(1) \in FunctionState
          /\ Nested(1).loop_nest_level = function_state.loop_nest_level + 1
      BY <1>2, NestedState DEF Entered, Doing
    <3>3. Flowing' /\ function_state' = Nested(1)
      BY <1>5, <1>6, <2>1, <3>1, <3>2, FlowSet
    <3> QED BY <2>1, <3>2, <3>3
  <2>3. CASE ~ Execute
    <3>1. function_state' = Nested(1) /\ UNCHANGED <<ExecuteFlag, Execute>>
      BY <2>3 DEF for_pre_expr1
    <3> QED BY <1>2, <1>5, <1>6, <2>1, <3>1, FlowNested DEF Entered
  <2> QED BY <2>2, <2>3
<1>8. Replaced(values, values', 0, 0)
  BY <1>4, ReplacedCases DEF for_pre_expr1
<1>9. InputInv' /\ Len(tokens') = Len(tokens)
  <2>1. InputInv /\ shutdown \in Shutdown /\ TableOK(function_table, Len(tokens))
    BY <1>2, InputParts DEF Entered
  <2>2. ResetToken("FOR") /\ UNCHANGED <<pos, yychar>>
    BY DEF for_pre_expr1
  <2>3. "FOR" \in Turnable
    BY DEF Turnable
  <2>4. TokensOK(tokens', Len(tokens))
        /\ (UNCHANGED <<pos, yychar>> \/ \E off \in 1 .. Len(tokens) : seek_token(off))
    BY <1>3, <2>1, <2>2, <2>3, Turning
  <2>5. shutdown' = shutdown
    BY DEF for_pre_expr1
  <2> QED BY <1>3, <1>6, <2>1, <2>4, <2>5, InputTurned
<1>10. IsSeq(switch_stack') /\ Len(switch_stack') = Len(switch_stack) + 0
  BY <1>4
<1> QED BY <1>1, <1>5, <1>7, <1>8, <1>9, <1>10, MoveStep DEF Down

\* The body of a function: its token is restored at the start, and the parser of
\* call_user_function is ended behind it.
LEMMA restore_token_Keeps ==
  ASSUME IInv, restore_token
  PROVE  IInv'
<1>1. Action("restore_token") /\ Acts("restore_token", 0, 0, 0, 0, 0)
  BY IdleActs DEF restore_token, Idle
<1>2. Entered(0, 0, 0, 0, 0)
  BY <1>1, Entry DEF Down
<1>3. parse # <<>> /\ Head(parse).sym \notin Bare /\ parse' = Tail(parse) /\ suspended' = suspended
  <2>1. parse # <<>> /\ Head(parse).sym = "restore_token" /\ parse' = Tail(parse)
        /\ suspended' = suspended
    BY <1>1, AtAction, Zenon
  <2> QED BY <2>1 DEF Bare
<1>4. IsSeq(values) /\ 0 <= Len(values) /\ IsSeq(switch_stack) /\ switch_stack' = switch_stack
      /\ Len(switch_stack) \in Nat
  BY <1>2, AnyTop DEF Entered, Doing, restore_token, stacks
<1>5. function_state_stack' \in Seq(FunctionState) /\ function_state_stack' = function_state_stack
  BY <1>2 DEF Entered, restore_token, stacks
<1>6. status' \in Statuses /\ function_table' = function_table
  BY <1>2 DEF Entered, restore_token, world
<1>7. Flowing' /\ Len(css') = Len(css) + 0
      /\ function_state'.loop_nest_level = function_state.loop_nest_level + 0
  <2>1. UNCHANGED flow /\ css' = css
    BY DEF restore_token, stacks
  <2>2. Flowing' /\ function_state' = function_state
    BY <1>2, <1>5, <1>6, <2>1, FlowSame DEF Entered
  <2> QED BY <1>2, <2>1, <2>2 DEF Entered
<1>8. Replaced(values, values', 0, 0)
  BY <1>4, ReplacedCases DEF restore_token
<1>9. InputInv' /\ Len(tokens') = Len(tokens)
  <2>1. InputInv /\ shutdown \in Shutdown /\ TableOK(function_table, Len(tokens))
    BY <1>2, InputParts DEF Entered
  <2>2. tokens' = tc_set_token(Tok.offset, "FUNCTION") /\ UNCHANGED <<pos, yychar, shutdown>>
    BY DEF restore_token
  <2>3. "FUNCTION" \in Turnable
    BY DEF Turnable
  <2>4. TokensOK(tokens', Len(tokens))
    <3>1. Tok.offset \in 1 .. Len(tokens) - 1 /\ Len(tokens) \in Nat
          /\ TokensOK(tokens, Len(tokens))
      BY <1>3, <2>1, TokenOfAction, InputParts
    <3> QED BY <2>2, <2>3, <3>1, TokenChanged, Zenon DEF tc_set_token
  <2> QED BY <1>3, <1>6, <2>1, <2>2, <2>4, InputTurned
<1>10. IsSeq(switch_stack') /\ Len(switch_stack') = Len(switch_stack) + 0
  BY <1>4
<1> QED BY <1>1, <1>5, <1>7, <1>8, <1>9, <1>10, MoveStep DEF Down

LEMMA terminate_phpparse_Keeps ==
  ASSUME IInv, terminate_phpparse
  PROVE  IInv'
<1>1. Action("terminate_phpparse") /\ Acts("terminate_phpparse", 0, 0, 0, 0, 0)
  BY IdleActs DEF terminate_phpparse, Idle
<1>2. Entered(0, 0, 0, 0, 0)
  BY <1>1, Entry DEF Down
<1>3. parse # <<>> /\ Head(parse).sym \notin Bare /\ parse' = Tail(parse) /\ suspended' = suspended
  <2>1. parse # <<>> /\ Head(parse).sym = "terminate_phpparse" /\ parse' = Tail(parse)
        /\ suspended' = suspended
    BY <1>1, AtAction, Zenon
  <2> QED BY <2>1 DEF Bare
<1>4. IsSeq(values) /\ 0 <= Len(values) /\ IsSeq(switch_stack) /\ switch_stack' = switch_stack
      /\ Len(switch_stack) \in Nat
  BY <1>2, AnyTop DEF Entered, Doing, terminate_phpparse, stacks
<1>5. function_state_stack' \in Seq(FunctionState) /\ function_state_stack' = function_state_stack
  BY <1>2 DEF Entered, terminate_phpparse, stacks
<1>6. status' \in Statuses /\ function_table' = function_table
  BY <1>2 DEF Entered, terminate_phpparse, world
<1>7. Flowing' /\ Len(css') = Len(css) + 0
      /\ function_state'.loop_nest_level = function_state.loop_nest_level + 0
  <2>1. UNCHANGED flow /\ css' = css
    BY DEF terminate_phpparse, stacks
  <2>2. Flowing' /\ function_state' = function_state
    BY <1>2, <1>5, <1>6, <2>1, FlowSame DEF Entered
  <2> QED BY <1>2, <2>1, <2>2 DEF Entered
<1>8. Replaced(values, values', 0, 0)
  BY <1>4, ReplacedCases DEF terminate_phpparse
<1>9. InputInv' /\ Len(tokens') = Len(tokens)
  <2>1. InputInv /\ shutdown \in Shutdown /\ TableOK(function_table, Len(tokens))
        /\ TokensOK(tokens, Len(tokens))
    BY <1>2, InputParts DEF Entered
  <2>2. UNCHANGED <<tokens, pos, yychar>>
    BY DEF terminate_phpparse
  <2>3. shutdown' \in Shutdown
    BY <2>1 DEF terminate_phpparse, Shutdown
  <2> QED BY <1>3, <1>6, <2>1, <2>2, <2>3, InputTurned
<1>10. IsSeq(switch_stack') /\ Len(switch_stack') = Len(switch_stack) + 0
  BY <1>4
<1> QED BY <1>1, <1>5, <1>7, <1>8, <1>9, <1>10, MoveStep DEF Down

\* The function is entered into function_table, at the offset of its declaration.
LEMMA end_function_decleration_Keeps ==
  ASSUME IInv, end_function_decleration
  PROVE  IInv'
<1>1. Action("end_function_decleration") /\ Acts("end_function_decleration", 0, 0, Down, 0, 0)
  BY ActionActs DEF end_function_decleration
<1>2. Entered(0, 0, Down, 0, 0) /\ css # <<>>
  BY <1>1, Entry DEF Down
<1>3. parse # <<>> /\ Head(parse).sym \notin Bare /\ parse' = Tail(parse) /\ suspended' = suspended
  <2>1. parse # <<>> /\ Head(parse).sym = "end_function_decleration" /\ parse' = Tail(parse)
        /\ suspended' = suspended
    BY <1>1, AtAction, Zenon
  <2> QED BY <2>1 DEF Bare
<1>4. IsSeq(values) /\ 0 <= Len(values) /\ IsSeq(switch_stack) /\ switch_stack' = switch_stack
      /\ Len(switch_stack) \in Nat
  BY <1>2, AnyTop DEF Entered, Doing, end_function_decleration, stacks
<1>5. function_state_stack' \in Seq(FunctionState) /\ function_state_stack' = function_state_stack
  BY <1>2 DEF Entered, end_function_decleration, stacks
<1>6. status' \in Statuses
  BY <1>2 DEF Entered, end_function_decleration, Statuses
<1>7. Flowing' /\ Len(css') = Len(css) + Down
      /\ function_state'.loop_nest_level = function_state.loop_nest_level + 0
  <2>1. SetFlow(SavedFlag, function_state) /\ DropFlag
    BY DEF end_function_decleration
  <2>2. SavedFlag \in Flag /\ css' \in Seq(Flag) /\ Len(css') = Len(css) - 1
    BY <1>2, <2>1, FlagStack DEF Entered
  <2>3. Flowing' /\ function_state' = function_state
    BY <1>2, <1>5, <1>6, <2>1, <2>2, FlowSet DEF Entered
  <2> QED BY <1>2, <2>2, <2>3 DEF Entered, Down
<1>8. Replaced(values, values', 0, 0)
  BY <1>4, ReplacedCases DEF end_function_decleration
<1>9. InputInv' /\ Len(tokens') = Len(tokens)
  <2>1. InputInv /\ shutdown \in Shutdown /\ TableOK(function_table, Len(tokens))
        /\ TokensOK(tokens, Len(tokens))
    BY <1>2, InputParts DEF Entered
  <2>2. UNCHANGED <<tokens, pos, yychar, shutdown>>
    BY DEF end_function_decleration, input
  <2>3. Tok.offset \in 1 .. Len(tokens) - 1
    BY <1>3, <2>1, TokenOfAction
  <2>4. TableOK(function_table', Len(tokens))
    <3>1. CASE function_table' = function_table
      BY <2>1, <3>1
    <3>2. CASE function_table' = [f \in DOMAIN function_table \cup {Tok.tag} |->
                                  IF f = Tok.tag THEN Tok.offset ELSE function_table[f]]
      BY <2>1, <2>3, <3>2 DEF TableOK
    <3> QED BY <3>1, <3>2 DEF end_function_decleration
  <2> QED BY <1>3, <2>1, <2>2, <2>4, InputTurned
<1>10. IsSeq(switch_stack') /\ Len(switch_stack') = Len(switch_stack) + 0
  BY <1>4
<1> QED BY <1>1, <1>5, <1>7, <1>8, <1>9, <1>10, MoveStep DEF Down

LEMMA StructOn ==
  ASSUME NEW U, NEW b, Shape(U, b, parse', suspended'), WaitAt(U, suspended', Len(tokens)),
         Len(tokens') = Len(tokens),
         IsAt(b, values', css', switch_stack', function_state', function_state_stack', Execute',
              Len(tokens))
  PROVE  StructInv'
<1>1. PICK n : n = Len(tokens) /\ n = Len(tokens')
  OBVIOUS
<1> QED BY <1>1, Zenon DEF StructInv

\* Before the action of the next symbol, between the heights a and b.
Between(U, a, b) ==
  /\ a \in Height /\ b \in Height /\ Effect(Head(parse).sym, a, b)
  /\ Shape(U, a, parse, suspended) /\ Shape(U, b, Tail(parse), suspended)
  /\ WaitAt(U, suspended, Len(tokens))
  /\ IsAt(a, values, css, switch_stack, function_state, function_state_stack, Execute,
          Len(tokens))

LEMMA ActionBetween ==
  ASSUME IInv, NEW x, Action(x)
  PROVE  /\ \E U, a, b : Between(U, a, b)
         /\ Running /\ parse # <<>> /\ Head(parse).sym = x /\ parse' = Tail(parse)
         /\ suspended' = suspended /\ Flowing /\ InputInv
         /\ function_state \in FunctionState /\ css \in Seq(Flag)
         /\ function_state_stack \in Seq(FunctionState) /\ status \in Statuses
         /\ Len(tokens) \in Nat
<1>1. /\ Running /\ parse # <<>> /\ Head(parse).sym = x /\ parse' = Tail(parse)
      /\ suspended' = suspended
  BY AtAction, Zenon
<1>2. \E U, a, b : Between(U, a, b)
  BY <1>1, Here, Zenon DEF Between
<1>3. Flowing /\ InputInv
  BY IInvParts
<1>4. /\ function_state \in FunctionState /\ css \in Seq(Flag)
      /\ function_state_stack \in Seq(FunctionState) /\ status \in Statuses
  BY <1>3, Zenon DEF Flowing, FlowInv, Statuses
<1>5. Len(tokens) \in Nat
  BY <1>3, InputParts
<1> QED BY <1>1, <1>2, <1>3, <1>4, <1>5

\* There is a flag to restore.
LEMMA FlagsHeld ==
  ASSUME NEW U, NEW a, NEW b, Between(U, a, b), Head(parse).sym \in Inside \/ b.c = a.c - 1,
         css \in Seq(Flag)
  PROVE  css # <<>>
<1>1. Len(css) = a.c
  BY DEF Between, IsAt
<1>2. a.c # 0
  <2>1. Head(parse).sym \in Inside => a.c # 0
    BY DEF Between, Effect
  <2>2. a.c \in Nat /\ b.c \in Nat
    BY DEF Between, Height
  <2> QED BY <2>1, <2>2
<1> QED BY <1>1, <1>2

\* Parts of sequences.
LEMMA PartOf ==
  ASSUME NEW S, NEW s \in Seq(S), NEW i \in 1 .. Len(s), NEW j \in Int, i - 1 <= j, j <= Len(s)
  PROVE  /\ SubSeq(s, i, j) \in Seq(S) /\ Len(SubSeq(s, i, j)) = (j - i) + 1
         /\ i <= j => SubSeq(s, i, j)[(j - i) + 1] = s[j]
<1>1. PICK l \in Nat : l = Len(s)
  OBVIOUS
<1>2. SubSeq(s, i, j) \in Seq(S)
  BY <1>1
<1>3. Len(SubSeq(s, i, j)) = (j - i) + 1
  BY <1>1
<1>4. i <= j => SubSeq(s, i, j)[(j - i) + 1] = s[j]
  BY <1>1
<1> QED BY <1>2, <1>3, <1>4

LEMMA Abutted ==
  ASSUME NEW S, NEW p \in Seq(S), NEW q \in Seq(S)
  PROVE  /\ p \o q \in Seq(S) /\ Len(p \o q) = Len(p) + Len(q)
         /\ q # <<>> => (p \o q)[Len(p) + Len(q)] = q[Len(q)]
<1>1. p \o q \in Seq(S) /\ Len(p \o q) = Len(p) + Len(q)
  OBVIOUS
<1>2. PICK k \in Nat, l \in Nat : k = Len(p) /\ l = Len(q)
  OBVIOUS
<1>3. q # <<>> => (p \o q)[k + l] = q[l]
  BY <1>2
<1> QED BY <1>1, <1>2, <1>3

\* tc_switch moves tokens and gives them their new offsets.
LEMMA Switching ==
  ASSUME NEW n \in Nat, TokensOK(tokens, n), NEW start \in Int, NEW middle \in Int, NEW end \in Int,
         end <= n - 1
  PROVE  TokensOK(tc_switch(start, end, middle), n)
<1>1. tokens \in Seq(Token) /\ Len(tokens) = n /\ n >= 1 /\ tokens[n].type = "EOF"
  BY DEF TokensOK
<1>2. CASE start < 1 \/ end > Len(tokens) \/ middle < start \/ middle > end
  BY <1>2 DEF tc_switch
<1>3. CASE ~ (start < 1 \/ end > Len(tokens) \/ middle < start \/ middle > end)
  <2>1. /\ start \in 1 .. n /\ middle \in 1 .. n /\ end \in 1 .. n - 1
        /\ start <= middle /\ middle <= end
    BY <1>1, <1>3
  <2>2. PICK A \in Seq(Token) : A = SubSeq(tokens, 1, start - 1) /\ Len(A) = start - 1
    <3>1. 1 \in 1 .. Len(tokens) /\ start - 1 \in Int /\ 1 - 1 <= start - 1
          /\ start - 1 <= Len(tokens) /\ ((start - 1) - 1) + 1 = start - 1
      BY <1>1, <2>1
    <3>2. SubSeq(tokens, 1, start - 1) \in Seq(Token)
          /\ Len(SubSeq(tokens, 1, start - 1)) = ((start - 1) - 1) + 1
      BY <1>1, <3>1, PartOf, ZenonT(60)
    <3> QED BY <3>1, <3>2, Zenon
  <2>3. PICK B \in Seq(Token) : B = SubSeq(tokens, middle + 1, end) /\ Len(B) = end - middle
    <3>1. middle + 1 \in 1 .. Len(tokens) /\ (middle + 1) - 1 <= end
          /\ end <= Len(tokens) /\ (end - (middle + 1)) + 1 = end - middle
      BY <1>1, <2>1
    <3>2. SubSeq(tokens, middle + 1, end) \in Seq(Token)
          /\ Len(SubSeq(tokens, middle + 1, end)) = (end - (middle + 1)) + 1
      BY <1>1, <3>1, PartOf, Zenon
    <3> QED BY <3>1, <3>2, Zenon
  <2>4. PICK C \in Seq(Token) : C = <<tokens[middle]>> /\ Len(C) = 1
    <3>1. tokens[middle] \in Token
      BY <1>1, <2>1
    <3>2. <<tokens[middle]>> \in Seq(Token) /\ Len(<<tokens[middle]>>) = 1
      BY <3>1
    <3> QED BY <3>2, Zenon
  <2>5. PICK D \in Seq(Token) : D = SubSeq(tokens, start, middle - 1) /\ Len(D) = middle - start
    <3>1. start \in 1 .. Len(tokens) /\ middle - 1 \in Int /\ start - 1 <= middle - 1
          /\ middle - 1 <= Len(tokens) /\ ((middle - 1) - start) + 1 = middle - start
      BY <1>1, <2>1
    <3>2. SubSeq(tokens, start, middle - 1) \in Seq(Token)
          /\ Len(SubSeq(tokens, start, middle - 1)) = ((middle - 1) - start) + 1
      BY <1>1, <3>1, PartOf, Zenon
    <3> QED BY <3>1, <3>2, Zenon
  <2>6. PICK F \in Seq(Token) : /\ F = SubSeq(tokens, end + 1, n) /\ Len(F) = n - end
                                /\ F[n - end] = tokens[n]
    <3>1. end + 1 \in 1 .. Len(tokens) /\ n \in Int /\ (end + 1) - 1 <= n
          /\ n <= Len(tokens) /\ (n - (end + 1)) + 1 = n - end /\ end + 1 <= n
      BY <1>1, <2>1
    <3>2. SubSeq(tokens, end + 1, n) \in Seq(Token)
          /\ Len(SubSeq(tokens, end + 1, n)) = (n - (end + 1)) + 1
          /\ SubSeq(tokens, end + 1, n)[(n - (end + 1)) + 1] = tokens[n]
      BY <1>1, <3>1, PartOf, ZenonT(60)
    <3> QED BY <3>1, <3>2, Zenon
  <2>7. PICK X \in Seq(Token) : X = ((A \o B) \o C) \o D /\ Len(X) = end
    <3>1. A \o B \in Seq(Token) /\ Len(A \o B) = (start - 1) + (end - middle)
      BY <2>2, <2>3, Abutted
    <3>2. PICK G \in Seq(Token) : G = A \o B /\ Len(G) = (start - 1) + (end - middle)
      BY <3>1, Zenon
    <3>3. G \o C \in Seq(Token) /\ Len(G \o C) = (start - 1) + (end - middle) + 1
      BY <2>4, <3>2, Abutted
    <3>4. PICK H \in Seq(Token) : H = G \o C /\ Len(H) = (start - 1) + (end - middle) + 1
      BY <3>3, Zenon
    <3>5. H \o D \in Seq(Token)
          /\ Len(H \o D) = ((start - 1) + (end - middle) + 1) + (middle - start)
      <4>1. H \o D \in Seq(Token) /\ Len(H \o D) = Len(H) + Len(D)
        BY Abutted, Zenon
      <4> QED BY <2>5, <3>4, <4>1
    <3>6. ((start - 1) + (end - middle) + 1) + (middle - start) = end
      OBVIOUS
    <3>7. H \o D = ((A \o B) \o C) \o D
      BY <3>2, <3>4, Zenon
    <3>8. H \o D \in Seq(Token) /\ Len(H \o D) = end
      BY <3>5, <3>6
    <3> QED BY <3>7, <3>8, Zenon
  <2>8. X \o F \in Seq(Token) /\ Len(X \o F) = n /\ (X \o F)[n] = tokens[n]
    <3>1. F # <<>> /\ end + (n - end) = n
      <4>1. Len(F) # 0 /\ end + (n - end) = n
        BY <2>1, <2>6
      <4>2. F = <<>> => Len(F) = 0
        OBVIOUS
      <4> QED BY <4>1, <4>2
    <3>2. /\ X \o F \in Seq(Token) /\ Len(X \o F) = Len(X) + Len(F)
          /\ (X \o F)[Len(X) + Len(F)] = F[Len(F)]
      BY <3>1, Abutted, Zenon
    <3> QED BY <2>6, <2>7, <3>1, <3>2
  <2>9. PICK ts \in Seq(Token) : ts = Switched(start, end, middle) /\ Len(ts) = n
                                 /\ ts[n] = tokens[n]
    <3>1. Switched(start, end, middle) = X \o F
      BY <1>1, <2>2, <2>3, <2>4, <2>5, <2>6, <2>7 DEF Switched
    <3> QED BY <2>8, <3>1
  <2>10. TokensOK(Renumbered(ts), n)
    <3>1. ASSUME NEW i \in 1 .. n
          PROVE  /\ [ts[i] EXCEPT !.offset = i] \in Token
                 /\ [ts[i] EXCEPT !.offset = i].offset = i
                 /\ [ts[i] EXCEPT !.offset = i].type = ts[i].type
      <4>1. ts[i] \in Token /\ i \in Nat
        BY <2>9
      <4> QED BY <4>1 DEF Token
    <3>2. Renumbered(ts) = [i \in 1 .. n |-> [ts[i] EXCEPT !.offset = i]]
      BY <2>9 DEF Renumbered
    <3>3. Renumbered(ts) \in [1 .. n -> Token]
      BY <3>1, <3>2
    <3>4. \A i \in 1 .. n : Renumbered(ts)[i].offset = i /\ Renumbered(ts)[i].type = ts[i].type
      BY <3>1, <3>2
    <3>5. n \in 1 .. n
      BY <1>1
    <3> QED BY <1>1, <2>9, <3>3, <3>4, <3>5 DEF TokensOK
  <2>11. tc_switch(start, end, middle) = Renumbered(ts)
    BY <1>3, <2>9, Zenon DEF tc_switch
  <2> QED BY <2>10, <2>11
<1> QED BY <1>2, <1>3

\* A step that leaves what a call being entered depends on.
LEMMA IsAtOn ==
  ASSUME NEW a \in Height, NEW b \in Height, NEW vs, NEW ws, NEW cs, NEW ds, NEW sw, NEW fs,
         NEW gs, NEW stack, NEW ex, NEW ey, NEW n,
         IsAt(a, vs, cs, sw, fs, stack, ex, n), ~ Waiting(a, vs), ~ Waiting(b, ws),
         Conforms(ws, b.v, n), Len(ds) = b.c, b.s = a.s, b.f = a.f, gs.loop_nest_level = b.n
  PROVE  IsAt(b, ws, ds, sw, gs, stack, ey, n)
BY DEF IsAt

\* break and continue: the loops up to the level asked for execute nothing.
LEMMA cs_break_continue_Keeps ==
  ASSUME IInv, cs_break_continue
  PROVE  IInv'
<1> DEFINE level == function_state.loop_nest_level - Tok.tag + 1
<1>1. Action("cs_break_continue") /\ Acts("cs_break_continue", 0, 0, 0, 0, 0)
  BY IdleActs DEF cs_break_continue, Idle
<1>2. Entered(0, 0, 0, 0, 0)
  BY <1>1, Entry DEF Down
<1>3. IsSeq(values) /\ 0 <= Len(values) /\ IsSeq(switch_stack) /\ Len(switch_stack) \in Nat
  BY <1>2, AnyTop DEF Entered, Doing
<1>4. UNCHANGED <<input, values, stacks>>
  BY DEF cs_break_continue, Die
<1>5. /\ css' = css /\ switch_stack' = switch_stack /\ values' = values
      /\ function_state_stack' = function_state_stack
  BY <1>4 DEF stacks
<1>6. Replaced(values, values', 0, 0)
  BY <1>3, <1>5, ReplacedCases
<1>7. UNCHANGED <<input, function_table>>
  BY <1>4 DEF cs_break_continue, Die, world
<1>8. status' \in Statuses
  BY <1>2 DEF cs_break_continue, Die, world, Statuses, Entered
<1>9. Flowing' /\ function_state'.loop_nest_level = function_state.loop_nest_level + 0
  <2>1. CASE UNCHANGED flow
    <3>1. Flowing' /\ function_state' = function_state
      BY <1>2, <1>5, <1>8, <2>1, FlowSame DEF Entered
    <3> QED BY <1>2, <3>1 DEF Entered
  <2>2. CASE /\ level \in 1 .. function_state.loop_nest_level
             /\ function_state' = [function_state EXCEPT
                  !.loop_change_level = level,
                  !.loop_change_type = IF Tok.type = "BREAK" THEN "DO_BREAK" ELSE "DO_CONTINUE"]
             /\ Execute' = FALSE /\ UNCHANGED ExecuteFlag
    <3>1. PICK l \in Nat : l = level
      BY <2>2
    <3>2. PICK type \in {"DO_BREAK", "DO_CONTINUE"} :
            type = IF Tok.type = "BREAK" THEN "DO_BREAK" ELSE "DO_CONTINUE"
      OBVIOUS
    <3>3. PICK fs : fs = [function_state EXCEPT !.loop_change_level = l, !.loop_change_type = type]
      OBVIOUS
    <3>4. function_state' = fs
      BY <2>2, <3>1, <3>2, <3>3
    <3>5. /\ fs \in FunctionState /\ fs.loop_nest_level = function_state.loop_nest_level
          /\ fs.loop_change_type # "DO_NOTHING"
      BY <1>2, <3>3 DEF Entered, FunctionState
    <3>6. SHOULD_EXECUTE(ExecuteFlag, fs) = FALSE
      BY <3>5 DEF SHOULD_EXECUTE
    <3>7. SetFlow(ExecuteFlag, fs)
      BY <2>2, <3>4, <3>6 DEF SetFlow
    <3>8. ExecuteFlag \in Flag
      BY <1>2 DEF Entered, Flowing, FlowInv
    <3>9. Flowing' /\ function_state' = fs
      BY <1>2, <1>5, <1>8, <3>5, <3>7, <3>8, FlowSet DEF Entered
    <3> QED BY <1>2, <3>5, <3>9 DEF Entered
  <2>3. \/ UNCHANGED flow
        \/ /\ level \in 1 .. function_state.loop_nest_level
           /\ function_state' = [function_state EXCEPT
                !.loop_change_level = level,
                !.loop_change_type = IF Tok.type = "BREAK" THEN "DO_BREAK" ELSE "DO_CONTINUE"]
           /\ Execute' = FALSE /\ UNCHANGED ExecuteFlag
    BY Zenon DEF cs_break_continue, Die
  <2> HIDE DEF level
  <2> QED BY <2>1, <2>2, <2>3
<1>10. /\ Len(css') = Len(css) + 0 /\ IsSeq(switch_stack')
       /\ Len(switch_stack') = Len(switch_stack) + 0
  BY <1>2, <1>3, <1>5 DEF Entered
<1> HIDE DEF level
<1>11. /\ Len(css') = Len(css) + 0 /\ IsSeq(switch_stack')
       /\ Len(switch_stack') = Len(switch_stack) + 0
       /\ function_state_stack' = function_state_stack
  BY <1>5, <1>10
<1> QED BY <1>1, <1>6, <1>7, <1>9, <1>11, QuietStep

\* The header of a for statement is moved behind its body: tc_switch.
LEMMA for_pre_statement_Keeps ==
  ASSUME IInv, for_pre_statement
  PROVE  IInv'
<1> DEFINE n == Len(tokens)
<1>1. Action("for_pre_statement")
  BY DEF for_pre_statement
<1>2. /\ \E U, a, b : Between(U, a, b)
      /\ Running /\ parse # <<>> /\ Head(parse).sym = "for_pre_statement" /\ parse' = Tail(parse)
      /\ suspended' = suspended /\ Flowing /\ InputInv
      /\ function_state \in FunctionState /\ css \in Seq(Flag)
      /\ function_state_stack \in Seq(FunctionState) /\ status \in Statuses /\ n \in Nat
  BY <1>1, ActionBetween, Zenon
<1>3. PICK U, a, b : Between(U, a, b)
  BY <1>2, Zenon
<1>4. LeavesHeader(a, b)
  BY <1>2, <1>3 DEF Between, Effect, Idle, Giving, Dropping
<1>5. PICK w \in Seq(Kind) :
        /\ a.m = 0
        /\ a.v = Push("value", Push("offset", Push("value", Push("offset", w))))
        /\ b = With(a, Push("offset", Push("offset", w)), 0)
  BY <1>4 DEF LeavesHeader
<1>6. /\ b.v = Push("offset", Push("offset", w)) /\ b.c = a.c /\ b.s = a.s /\ b.f = a.f
      /\ b.n = a.n /\ b.m = 0
  BY <1>5 DEF With
<1>7. Conforms(values, a.v, n)
  BY <1>3 DEF Between, IsAt
<1>8. "value" \in Kind /\ "offset" \in Kind
  BY DEF Kind
<1>9. Conforms(values', b.v, n)
  <2>1. Push("offset", w) \in Seq(Kind)
    BY <1>8, KindPushed
  <2>2. PICK u \in Seq(Kind) : u = Push("offset", w)
    BY <2>1, Zenon
  <2>3. Conforms(values, Push("value", Push("offset", Push("value", u))), n)
    BY <1>5, <1>7, <2>2
  <2>4. Conforms(Pop(values, 3), u, n) /\ ValueIs("offset", values[2], n)
    BY <1>8, <2>3, ConformsPop3
  <2>5. values' = Push(values[2], Pop(values, 3))
    BY DEF for_pre_statement, Push
  <2>6. Conforms(Push(values[2], Pop(values, 3)), Push("offset", u), n)
    BY <1>8, <2>4, ConformsPush
  <2> QED BY <1>6, <2>2, <2>5, <2>6
<1>10. css' = css /\ switch_stack' = switch_stack /\ function_state_stack' = function_state_stack
       /\ status' = status /\ UNCHANGED <<input, function_table>> /\ tokens' = tokens
  BY DEF for_pre_statement, stacks, world, input
<1>11. Flowing' /\ function_state' = function_state
  <2>1. PICK flag : flag = IF SHOULD_EXECUTE(SavedFlag, function_state)
                           THEN Chosen(IF Tok.switched THEN values[1] ELSE values[3])
                           ELSE SavedFlag
    OBVIOUS
  <2>2. SetFlow(flag, function_state)
    BY <2>1, Zenon DEF for_pre_statement
  <2>3. css # <<>>
    BY <1>2, <1>3, FlagsHeld DEF Inside
  <2>4. flag \in Flag
    BY <1>2, <2>1, <2>3, FlagStack DEF Chosen, Flag
  <2> QED BY <1>2, <1>10, <2>2, <2>4, FlowSet
<1>12. InputInv'
  <2>1. UNCHANGED <<input, suspended, function_table>>
    BY <1>2, <1>10
  <2> QED BY <1>2, <2>1, InputKept
<1>13. StructInv'
  <2>1. IsAt(b, values', css', switch_stack', function_state', function_state_stack', Execute', n)
    <3>1. ~ Waiting(a, values) /\ ~ Waiting(b, values')
      BY <1>5, <1>6 DEF Waiting
    <3>2. /\ IsAt(a, values, css, switch_stack, function_state, function_state_stack, Execute, n)
          /\ a \in Height /\ b \in Height
      BY <1>3 DEF Between
    <3>3. Len(css) = b.c /\ function_state.loop_nest_level = b.n
      BY <1>6, <3>2 DEF IsAt
    <3>4. IsAt(b, values', css, switch_stack, function_state, function_state_stack, Execute', n)
      BY <1>6, <1>9, <3>1, <3>2, <3>3, IsAtOn
    <3> QED BY <1>10, <1>11, <3>4
  <2>2. Shape(U, b, parse', suspended') /\ WaitAt(U, suspended', n)
    BY <1>2, <1>3 DEF Between
  <2> QED BY <1>10, <2>1, <2>2, StructOn
<1> QED BY <1>11, <1>12, <1>13, IInvWhole

\* The end of a round of a for statement.
LEMMA for_post_statement_Keeps ==
  ASSUME IInv, for_post_statement
  PROVE  IInv'
<1> DEFINE n == Len(tokens)
<1>1. Action("for_post_statement")
  BY DEF for_post_statement
<1>2. /\ \E U, a, b : Between(U, a, b)
      /\ Running /\ parse # <<>> /\ Head(parse).sym = "for_post_statement" /\ parse' = Tail(parse)
      /\ suspended' = suspended /\ Flowing /\ InputInv
      /\ function_state \in FunctionState /\ css \in Seq(Flag)
      /\ function_state_stack \in Seq(FunctionState) /\ status \in Statuses /\ n \in Nat
  BY <1>1, ActionBetween, Zenon
<1>3. PICK U, a, b : Between(U, a, b)
  BY <1>2, Zenon
<1>4. LeavesFor(a, b)
  BY <1>2, <1>3 DEF Between, Effect, Idle, Giving, Dropping
<1>5. PICK w \in Seq(Kind) :
        /\ a.m = 0
        /\ a.v = Push("offset", Push("offset", Push("offset", w)))
        /\ b = [v |-> w, c |-> a.c - 1, s |-> a.s, f |-> a.f, n |-> a.n - 1, m |-> 0]
  BY <1>4 DEF LeavesFor
<1>6. /\ b.v = w /\ b.c = a.c - 1 /\ b.s = a.s /\ b.f = a.f /\ b.n = a.n - 1 /\ b.m = 0
  BY <1>5
<1>7. Conforms(values, a.v, n)
  BY <1>3 DEF Between, IsAt
<1>8. "offset" \in Kind
  BY DEF Kind
<1>9. /\ Conforms(Pop(values, 3), w, n) /\ values[1] \in 1 .. n - 1 /\ values[2] \in 1 .. n - 1
      /\ values[3] \in 1 .. n - 1
  <2>1. Conforms(values, Push("offset", Push("offset", Push("offset", w))), n)
    BY <1>5, <1>7
  <2>2. /\ Conforms(Pop(values, 3), w, n) /\ ValueIs("offset", values[1], n)
        /\ ValueIs("offset", values[2], n) /\ ValueIs("offset", values[3], n)
    BY <1>8, <2>1, ConformsPop3
  <2> QED BY <2>2 DEF ValueIs
<1>10. /\ switch_stack' = switch_stack /\ function_state_stack' = function_state_stack
       /\ status' = status /\ function_table' = function_table /\ shutdown' = shutdown
       /\ values' = Pop(values, 3)
  BY DEF for_post_statement, stacks, world
<1>11. TokensOK(tokens, n) /\ shutdown \in Shutdown /\ TableOK(function_table, n)
  BY <1>2, InputParts
<1>12. PICK off \in 1 .. n - 1 : off = Tok.offset /\ off \in 1 .. n
  <2>1. "for_post_statement" \notin Bare
    BY DEF Bare
  <2> QED BY <1>2, <2>1, TokenOfAction
<1>13. PICK ts : /\ ts = IF Tok.switched THEN tokens
                         ELSE [tc_switch(values[3] + 1, values[1] - 1, values[2])
                                 EXCEPT ![off].switched = TRUE]
                 /\ TokensOK(ts, n)
  <2>1. TokensOK(tc_switch(values[3] + 1, values[1] - 1, values[2]), n)
    <3>1. values[3] + 1 \in Int /\ values[1] - 1 \in Int /\ values[1] - 1 <= n - 1
          /\ values[2] \in Int
      BY <1>2, <1>9
    <3> QED BY <1>2, <1>11, <3>1, Switching
  <2>2. TokensOK([tc_switch(values[3] + 1, values[1] - 1, values[2])
                    EXCEPT ![off].switched = TRUE], n)
    BY <1>2, <2>1, TokenChanged
  <2> QED BY <1>11, <2>2
<1>14. InputInv' /\ Len(tokens') = n
  <2>1. \/ tokens' = [ts EXCEPT ![off].type = "CONTINUED_FOR"] /\ seek_token(off)
        \/ tokens' = ts /\ UNCHANGED <<pos, yychar>>
    BY <1>12, <1>13, Zenon DEF for_post_statement
  <2>2. TokensOK([ts EXCEPT ![off].type = "CONTINUED_FOR"], n)
    BY <1>2, <1>13, TokenChanged DEF Turnable
  <2>3. TokensOK(tokens', n)
        /\ (UNCHANGED <<pos, yychar>> \/ \E o \in 1 .. n : seek_token(o))
    BY <1>12, <1>13, <2>1, <2>2, Zenon
  <2> QED BY <1>2, <1>10, <1>11, <2>3, InputTurned
<1>15. a \in Height /\ b \in Height
       /\ IsAt(a, values, css, switch_stack, function_state, function_state_stack, Execute, n)
  BY <1>3 DEF Between
<1>16. PICK c \in Nat, l \in Nat : c = a.c /\ l = a.n /\ c - 1 = b.c /\ l - 1 = b.n
                                   /\ c - 1 \in Nat /\ l - 1 \in Nat
  BY <1>6, <1>15 DEF Height
<1>17. Flowing' /\ Len(css') = Len(css) + Down
       /\ function_state'.loop_nest_level = function_state.loop_nest_level + Down
  <2>1. css # <<>>
    BY <1>2, <1>3, <1>6, FlagsHeld
  <2>2. function_state.loop_nest_level + Down \in Nat
    BY <1>15, <1>16 DEF IsAt, Down
  <2>3. LeaveLoop
    BY DEF for_post_statement
  <2> QED BY <1>2, <1>10, <2>1, <2>2, <2>3, LeaveLoopFlow
<1>18. StructInv'
  <2>1. ~ Waiting(a, values) /\ ~ Waiting(b, values')
    BY <1>5, <1>6 DEF Waiting
  <2>2. Len(css') = b.c /\ function_state'.loop_nest_level = b.n
    BY <1>15, <1>16, <1>17 DEF IsAt, Down
  <2>3. IsAt(b, values', css', switch_stack, function_state', function_state_stack, Execute', n)
    BY <1>6, <1>9, <1>10, <1>15, <2>1, <2>2, IsAtOn
  <2>4. IsAt(b, values', css', switch_stack', function_state', function_state_stack', Execute', n)
    BY <1>10, <2>3
  <2>5. Shape(U, b, parse', suspended') /\ WaitAt(U, suspended', n)
    BY <1>2, <1>3 DEF Between
  <2> QED BY <1>14, <2>4, <2>5, StructOn
<1> QED BY <1>14, <1>17, <1>18, IInvWhole

-----------------------------------------------------------------------------
(* The lookahead token *)

\* The lookahead token is one of the cache, or the end of the file.
LEMMA LookIsRead ==
  ASSUME InputInv, parse # <<>>, NEW n \in Nat, n = Len(tokens)
  PROVE  /\ Read(Look, n) /\ Look \in TokenOrEOF
         /\ Look.type # "EOF" => Look.offset \in 1 .. n - 1
<1>1. /\ TokensOK(tokens, n) /\ LookaheadOK(yychar, n) /\ PlaceOK(pos, yychar, parse, n)
  BY DEF InputInv
<1>2. Read(EOF, n)
  BY DEF Read
<1>3. Read(Look, n)
  <2>1. CASE yychar # EMPTY
    <3>1. Look = yychar
      BY <2>1 DEF Look
    <3>2. Read(yychar, n)
      BY <1>1, <2>1, Zenon DEF LookaheadOK
    <3> QED BY <3>1, <3>2
  <2>2. CASE yychar = EMPTY /\ shutdown = "TERMINATE"
    <3>1. Look = EOF
      BY <2>2, Zenon DEF Look
    <3> QED BY <1>2, <3>1
  <2>3. CASE yychar = EMPTY /\ shutdown # "TERMINATE"
    <3>1. yychar.type # "EOF"
      BY <2>3 DEF EMPTY
    <3>2. pos \in 1 .. n
      BY <1>1, <3>1 DEF PlaceOK
    <3>3. tokens[pos] \in Token /\ tokens[pos].offset = pos /\ (pos = n => tokens[pos].type = "EOF")
      BY <1>1, <3>2 DEF TokensOK
    <3>4. Read(tokens[pos], n)
      BY <3>2, <3>3 DEF Read
    <3>5. Look = tokens[pos]
      BY <2>3, Zenon DEF Look
    <3> QED BY <3>4, <3>5
  <2> QED BY <2>1, <2>2, <2>3
<1>4. Look \in TokenOrEOF
  BY <1>3 DEF Read, TokenOrEOF
<1>5. Look.type # "EOF" => Look.offset \in 1 .. n - 1
  BY <1>3 DEF Read, EOF
<1> QED BY <1>3, <1>4, <1>5

\* The lookahead token is taken, or kept.
LEMMA InputRead ==
  ASSUME InputInv, parse # <<>>, UNCHANGED <<suspended, function_table>>,
         SymbolsOK(parse', Len(tokens)),
         \/ TakeToken /\ (Look.type = "EOF" => parse' = <<>>)
         \/ KeepToken
  PROVE  InputInv' /\ tokens' = tokens
<1>1. PICK n \in Nat : n = Len(tokens)
  BY InputParts
<1>2. /\ TokensOK(tokens, n) /\ LookaheadOK(yychar, n) /\ PlaceOK(pos, yychar, parse, n)
      /\ shutdown \in Shutdown /\ TableOK(function_table, n) /\ FramesOK(suspended, n)
  BY <1>1 DEF InputInv
<1>3. Read(Look, n)
  BY <1>1, LookIsRead
<1>4. Advance /\ tokens' = tokens
  BY DEF TakeToken, KeepToken
<1>5. /\ shutdown' \in Shutdown /\ pos' \in 1 .. n + 1
      /\ pos' = n + 1 => Look.type = "EOF"
  <2>1. CASE yychar # EMPTY
    <3>1. pos' = pos /\ shutdown' = shutdown /\ Look = yychar
      BY <1>4, <2>1 DEF Advance, Look
    <3> QED BY <1>2, <3>1 DEF PlaceOK
  <2>2. CASE yychar = EMPTY /\ shutdown = "TERMINATE"
    <3>1. pos' = pos /\ shutdown' = "NO" /\ Look = EOF
      BY <1>4, <2>2 DEF Advance, Look
    <3>2. Look.type = "EOF" /\ shutdown' \in Shutdown
      BY <3>1 DEF EOF, Shutdown
    <3> QED BY <1>2, <3>1, <3>2 DEF PlaceOK
  <2>3. CASE yychar = EMPTY /\ shutdown # "TERMINATE"
    <3>1. pos' = pos + 1 /\ shutdown' = shutdown /\ Look = tokens[pos]
      BY <1>4, <2>3 DEF Advance, Look
    <3>2. yychar.type # "EOF"
      BY <2>3 DEF EMPTY
    <3>3. pos \in 1 .. n
      BY <1>2, <3>2 DEF PlaceOK
    <3>4. tokens[n].type = "EOF"
      BY <1>2 DEF TokensOK
    <3> QED BY <1>2, <3>1, <3>3, <3>4
  <2> QED BY <2>1, <2>2, <2>3
<1>6. LookaheadOK(yychar', n) /\ PlaceOK(pos', yychar', parse', n)
  <2>1. CASE TakeToken /\ (Look.type = "EOF" => parse' = <<>>)
    <3>1. yychar' = EMPTY /\ (pos' = n + 1 => parse' = <<>>)
      BY <1>5, <2>1 DEF TakeToken
    <3> QED BY <1>5, <3>1 DEF LookaheadOK, PlaceOK
  <2>2. CASE KeepToken
    <3>1. yychar' = Look
      BY <2>2 DEF KeepToken
    <3> QED BY <1>3, <1>5, <3>1 DEF LookaheadOK, PlaceOK
  <2> QED BY <2>1, <2>2
<1>7. Len(tokens') = n /\ SymbolsOK(parse', n)
  BY <1>1, <1>4
<1>8. suspended' = suspended /\ function_table' = function_table
  OBVIOUS
<1> QED BY <1>2, <1>4, <1>5, <1>6, <1>7, <1>8, Zenon DEF InputInv

-----------------------------------------------------------------------------
(* Steps of the parser *)

\* Before the next symbol.
LEMMA SymbolBetween ==
  ASSUME IInv, Running, parse # <<>>
  PROVE  /\ \E U, a, b : Between(U, a, b)
         /\ Flowing /\ InputInv /\ css \in Seq(Flag)
         /\ function_state \in FunctionState
         /\ function_state_stack \in Seq(FunctionState) /\ status \in Statuses
         /\ Len(tokens) \in Nat /\ parse \in Seq(Items(TokenOrEOF))
         /\ SymbolsOK(parse, Len(tokens)) /\ Tail(parse) \in Seq(Items(TokenOrEOF))
<1>1. \E U, a, b : Between(U, a, b)
  BY Here, Zenon DEF Between
<1>2. Flowing /\ InputInv
  BY IInvParts
<1>3. /\ function_state \in FunctionState /\ css \in Seq(Flag)
      /\ function_state_stack \in Seq(FunctionState) /\ status \in Statuses
  BY <1>2, Zenon DEF Flowing, FlowInv, Statuses
<1>4. Len(tokens) \in Nat /\ SymbolsOK(parse, Len(tokens))
  BY <1>2, InputParts DEF InputInv
<1>5. parse \in Seq(Items(TokenOrEOF))
  BY <1>4 DEF SymbolsOK
<1>6. Tail(parse) \in Seq(Items(TokenOrEOF))
  BY <1>5
<1> QED BY <1>1, <1>2, <1>3, <1>4, <1>5, <1>6

\* Only the parser moves.
LEMMA FlowStays ==
  ASSUME Flowing, css \in Seq(Flag), function_state_stack \in Seq(FunctionState),
         status' \in Statuses, UNCHANGED <<flow, stacks>>
  PROVE  Flowing' /\ function_state' = function_state /\ css' = css
         /\ switch_stack' = switch_stack /\ function_state_stack' = function_state_stack
         /\ Execute' = Execute
<1>1. UNCHANGED flow /\ css' = css /\ switch_stack' = switch_stack
      /\ function_state_stack' = function_state_stack /\ Execute' = Execute
  BY DEF stacks, flow
<1>2. css' \in Seq(Flag) /\ function_state_stack' \in Seq(FunctionState)
  BY <1>1
<1>3. Flowing' /\ function_state' = function_state
  BY <1>1, <1>2, FlowSame
<1> QED BY <1>1, <1>3

\* A script that is stopped stays as it is.
LEMMA Stopped ==
  ASSUME IInv, UNCHANGED <<input, parser, flow, stacks, function_table>>,
         status' \in Statuses, status' # "running"
  PROVE  IInv'
<1>1. Flowing /\ InputInv
  BY IInvParts
<1>2. css \in Seq(Flag) /\ function_state_stack \in Seq(FunctionState)
  BY <1>1, Zenon DEF Flowing, FlowInv
<1>3. Flowing'
  BY <1>1, <1>2, FlowStays
<1>4. InputInv'
  <2>1. /\ tokens' = tokens /\ pos' = pos /\ yychar' = yychar /\ shutdown' = shutdown
        /\ parse' = parse /\ suspended' = suspended /\ function_table' = function_table
    BY DEF input, parser
  <2> QED BY <1>1, <2>1, Zenon DEF InputInv
<1> QED BY <1>3, <1>4, IInvWhole DEF Running

\* Errors, the end, and terminals.
LEMMA ParseError_Keeps ==
  ASSUME IInv, ParseError
  PROVE  IInv'
BY Stopped DEF ParseError, Statuses

LEMMA Accept_Keeps ==
  ASSUME IInv, Accept
  PROVE  IInv'
BY Stopped DEF Accept, Statuses

LEMMA Shift_Keeps ==
  ASSUME IInv, Shift
  PROVE  IInv'
<1> DEFINE n == Len(tokens)
<1>1. Running /\ parse # <<>> /\ Head(parse).sym \in Terminals /\ Look.type = Head(parse).sym
      /\ TakeToken /\ parse' = Tail(parse)
      /\ UNCHANGED <<values, suspended, flow, stacks, world>>
  BY DEF Shift, At
<1>2. /\ \E U, a, b : Between(U, a, b)
      /\ Flowing /\ InputInv /\ css \in Seq(Flag)
      /\ function_state_stack \in Seq(FunctionState) /\ status \in Statuses
      /\ n \in Nat /\ SymbolsOK(parse, n)
  BY <1>1, SymbolBetween, Zenon
<1>3. PICK U, a, b : Between(U, a, b)
  BY <1>2, Zenon
<1>4. values' = values /\ suspended' = suspended /\ status' = status
      /\ function_table' = function_table /\ UNCHANGED <<flow, stacks>>
  BY <1>1 DEF world
<1>5. Flowing' /\ function_state' = function_state /\ css' = css
      /\ switch_stack' = switch_stack /\ function_state_stack' = function_state_stack
      /\ Execute' = Execute
  BY <1>2, <1>4, FlowStays
<1>6. InputInv' /\ tokens' = tokens
  <2>1. SymbolsOK(Tail(parse), n) /\ (Head(parse).sym = "EOF" => Tail(parse) = <<>>)
    BY <1>1, <1>2, SymbolsTail
  <2> QED BY <1>1, <1>2, <1>4, <2>1, InputRead
<1>7. IsAt(b, values, css, switch_stack, function_state, function_state_stack, Execute, n)
  <2>1. a \in Height /\ b \in Height /\ Effect(Head(parse).sym, a, b)
        /\ IsAt(a, values, css, switch_stack, function_state, function_state_stack, Execute, n)
    BY <1>3 DEF Between
  <2>2. CASE b = a
    BY <2>1, <2>2
  <2>3. CASE a.m = 1 /\ b = With(a, a.v, 2)
    <3>1. b.v = a.v /\ b.c = a.c /\ b.s = a.s /\ b.f = a.f /\ b.n = a.n /\ b.m = 2
      BY <2>3 DEF With
    <3>2. Waiting(b, values) <=> Waiting(a, values)
      BY <2>3, <3>1 DEF Waiting
    <3> QED BY <2>1, <3>1, <3>2 DEF IsAt
  <2>4. b = a \/ (a.m = 1 /\ b = With(a, a.v, 2))
    <3>1. CASE Head(parse).sym = "("
      <4>1. Parenthesis(a, b)
        BY <2>1, <3>1 DEF Effect, Idle, Giving, Dropping
      <4> QED BY <4>1 DEF Parenthesis
    <3>2. CASE Head(parse).sym = "EOF"
      <4>1. Keeps(a, b)
        BY <2>1, <3>2 DEF Effect, Idle, Giving, Dropping
      <4> QED BY <4>1 DEF Keeps
    <3>3. CASE Head(parse).sym \notin {"(", "EOF"}
      <4>1. Head(parse).sym \in Idle
        BY <1>1, <3>3 DEF Terminals, Idle
      <4>2. b = a
        BY <2>1, <4>1, OfSymbol, Zenon
      <4> QED BY <4>2
    <3> QED BY <3>1, <3>2, <3>3
  <2> QED BY <2>2, <2>3, <2>4
<1>8. StructInv'
  <2>1. IsAt(b, values', css', switch_stack', function_state', function_state_stack', Execute', n)
    BY <1>4, <1>5, <1>7
  <2>2. Shape(U, b, parse', suspended') /\ WaitAt(U, suspended', n)
    BY <1>1, <1>3, <1>4 DEF Between
  <2> QED BY <1>6, <2>1, <2>2, StructOn
<1> QED BY <1>5, <1>6, <1>8, IInvWhole

LEMMA OffsetEffect ==
  ASSUME NEW x \in {"offset of ;", "offset of )"}, NEW a, NEW b, Effect(x, a, b)
  PROVE  GivesOffset(a, b) \/ ClosesCall(a, b)
BY DEF Effect, Idle, Giving, Dropping

LEMMA ShiftOffset_Keeps ==
  ASSUME IInv, ShiftOffset
  PROVE  IInv'
<1> DEFINE n == Len(tokens)
<1>1. /\ Running /\ parse # <<>> /\ <<Head(parse).sym, Look.type>> \in Offsets
      /\ TakeToken /\ parse' = Tail(parse) /\ values' = Push(Look.offset, values)
      /\ UNCHANGED <<suspended, flow, stacks, world>>
  BY DEF ShiftOffset
<1>2. /\ \E U, a, b : Between(U, a, b)
      /\ Flowing /\ InputInv /\ css \in Seq(Flag)
      /\ function_state_stack \in Seq(FunctionState) /\ status \in Statuses
      /\ n \in Nat /\ SymbolsOK(parse, n)
  BY <1>1, SymbolBetween, Zenon
<1>3. PICK U, a, b : Between(U, a, b)
  BY <1>2, Zenon
<1>4. suspended' = suspended /\ status' = status
      /\ function_table' = function_table /\ UNCHANGED <<flow, stacks>>
  BY <1>1 DEF world
<1>5. Flowing' /\ function_state' = function_state /\ css' = css
      /\ switch_stack' = switch_stack /\ function_state_stack' = function_state_stack
      /\ Execute' = Execute
  BY <1>2, <1>4, FlowStays
<1>6. Head(parse).sym \in {"offset of ;", "offset of )"} /\ Look.type \in {";", ")"}
  BY <1>1 DEF Offsets
<1>7. InputInv' /\ tokens' = tokens
  <2>1. SymbolsOK(Tail(parse), n)
    BY <1>1, <1>2, SymbolsTail
  <2> QED BY <1>1, <1>2, <1>4, <1>6, <2>1, InputRead
<1>8. PICK off \in 1 .. n - 1 : off = Look.offset
  BY <1>1, <1>2, <1>6, LookIsRead
<1>9. /\ a \in Height /\ b \in Height /\ Effect(Head(parse).sym, a, b)
      /\ IsAt(a, values, css, switch_stack, function_state, function_state_stack, Execute, n)
  BY <1>3 DEF Between
<1>10. b = With(a, Push("offset", a.v), b.m)
       /\ ((a.m = 0 /\ b.m = 0) \/ (a.m = 2 /\ b.m = 3 /\ a.v # <<>>))
  <2>1. GivesOffset(a, b) \/ ClosesCall(a, b)
    BY <1>6, <1>9, OffsetEffect, Zenon
  <2> QED BY <2>1 DEF GivesOffset, ClosesCall, With
<1>11. b.v = Push("offset", a.v) /\ b.c = a.c /\ b.s = a.s /\ b.f = a.f /\ b.n = a.n
  BY <1>10 DEF With
<1>12. PICK k \in Seq(Kind) : k = a.v
  BY <1>9 DEF Height
<1>13. Conforms(values, k, n)
  BY <1>9, <1>12 DEF IsAt
<1>14. Conforms(values', b.v, n)
  <2>1. "offset" \in Kind /\ ValueIs("offset", off, n)
    BY DEF Kind, ValueIs
  <2>2. Conforms(Push(off, values), Push("offset", k), n)
    BY <1>13, <2>1, ConformsPush
  <2> QED BY <1>1, <1>8, <1>11, <1>12, <2>2
<1>15. Waiting(b, values') <=> Waiting(a, values)
  <2>1. CASE a.m = 0 /\ b.m = 0
    BY <2>1 DEF Waiting
  <2>2. CASE a.m = 2 /\ b.m = 3 /\ a.v # <<>>
    <3>1. IsSeq(values) /\ Len(values) = Len(k) /\ k # <<>>
      BY <1>12, <1>13, <2>2 DEF Conforms
    <3>2. 1 \in 1 .. Len(values)
      BY <3>1
    <3>3. Push(off, values)[1 + 1] = values[1]
      BY <3>1, <3>2, AnyPushed
    <3>4. values'[2] = values[1]
      BY <1>1, <1>8, <3>3
    <3> QED BY <2>2, <3>4 DEF Waiting
  <2> QED BY <1>10, <2>1, <2>2
<1>16. IsAt(b, values', css, switch_stack, function_state, function_state_stack, Execute, n)
  BY <1>9, <1>11, <1>14, <1>15 DEF IsAt
<1>17. StructInv'
  <2>1. IsAt(b, values', css', switch_stack', function_state', function_state_stack', Execute', n)
    BY <1>5, <1>16
  <2>2. Shape(U, b, parse', suspended') /\ WaitAt(U, suspended', n)
    BY <1>1, <1>3, <1>4 DEF Between
  <2> QED BY <1>7, <2>1, <2>2, StructOn
<1> QED BY <1>5, <1>7, <1>17, IInvWhole

-----------------------------------------------------------------------------
(* The rules *)

LEMMA Joined ==
  ASSUME NEW I, NEW p \in Seq(I), NEW q \in Seq(I), NEW k \in Nat, NEW l \in Nat,
         k = Len(p), l = Len(q)
  PROVE  /\ p \o q \in Seq(I) /\ Len(p \o q) = k + l
         /\ \A i \in 1 .. k + l : (p \o q)[i] = IF i <= k THEN p[i] ELSE q[i - k]
OBVIOUS

LEMMA SymbolsAdded ==
  ASSUME NEW rule \in Seq(Name), NEW t \in TokenOrEOF, NEW q, NEW n, SymbolsOK(q, n),
         (\A i \in 1 .. Len(rule) : rule[i] \in Bare) \/ t.offset \in 1 .. n - 1
  PROVE  SymbolsOK(Symbols(rule, t) \o q, n)
<1>1. PICK s \in Seq(Items(TokenOrEOF)) :
        /\ s = Symbols(rule, t) /\ Len(s) = Len(rule)
        /\ \A i \in 1 .. Len(rule) : s[i] = [sym |-> rule[i], tok |-> t]
  <2>1. Symbols(rule, t) \in Seq(Items(TokenOrEOF))
    BY SymbolsType, Zenon
  <2>2. Len(Symbols(rule, t)) = Len(rule)
        /\ \A i \in 1 .. Len(rule) : Symbols(rule, t)[i] = [sym |-> rule[i], tok |-> t]
    BY SymbolsType, Zenon
  <2> QED BY <2>1, <2>2, Zenon
<1>2. PICK k \in Nat, l \in Nat : k = Len(rule) /\ l = Len(q)
  BY DEF SymbolsOK
<1>3. q \in Seq(Items(TokenOrEOF))
      /\ \A i \in 1 .. l : /\ q[i].sym \in Bare \/ q[i].tok.offset \in 1 .. n - 1
                           /\ q[i].sym = "EOF" => i = l
  BY <1>2 DEF SymbolsOK
<1>4. PICK p \in Seq(Items(TokenOrEOF)) :
        /\ p = s \o q /\ Len(p) = k + l
        /\ \A i \in 1 .. k + l : p[i] = IF i <= k THEN s[i] ELSE q[i - k]
  <2>1. k = Len(s) /\ l = Len(q)
    BY <1>1, <1>2
  <2>2. s \o q \in Seq(Items(TokenOrEOF))
        /\ Len(s \o q) = k + l
        /\ \A i \in 1 .. k + l : (s \o q)[i] = IF i <= k THEN s[i] ELSE q[i - k]
    BY <1>3, <2>1, Joined
  <2> QED BY <2>2, Zenon
<1>5. ASSUME NEW i \in 1 .. k + l
      PROVE  /\ p[i].sym \in Bare \/ p[i].tok.offset \in 1 .. n - 1
             /\ p[i].sym = "EOF" => i = k + l
  <2>1. CASE i <= k
    <3>1. i \in 1 .. Len(rule) /\ p[i] = [sym |-> rule[i], tok |-> t]
      BY <1>1, <1>2, <1>4, <2>1
    <3>2. p[i].sym = rule[i] /\ p[i].tok = t /\ rule[i] \in Name
      BY <3>1
    <3>3. p[i].sym # "EOF"
      BY <3>2 DEF Name, Idle, Giving, Dropping
    <3> QED BY <3>1, <3>2, <3>3
  <2>2. CASE ~ (i <= k)
    <3>1. i - k \in 1 .. l /\ p[i] = q[i - k] /\ (i - k = l => i = k + l)
      BY <1>4, <2>2
    <3> QED BY <1>3, <3>1
  <2> QED BY <2>1, <2>2
<1>6. SymbolsOK(p, n)
  BY <1>4, <1>5 DEF SymbolsOK
<1> QED BY <1>1, <1>4, <1>6

\* No rule begins with the end of the file.
LEMMA GrammarTokens ==
  ASSUME NEW r \in Grammar
  PROVE  r[2] # "EOF"
<1>1. ASSUME r = <<"statement", "{", <<"statement_list", "}">>>>
      PROVE  r[2] # "EOF"
  <2>1. r[2] = "{"
    BY <1>1
  <2> QED BY <2>1
<1>2. ASSUME r = <<"statement", ";", <<>>>>
      PROVE  r[2] # "EOF"
  <2>1. r[2] = ";"
    BY <1>2
  <2> QED BY <2>1
<1>3. ASSUME r = <<"statement", "IF", <<"(", "expr", ")", "cs_start_if", "statement",
               "elseif_list", "else_single", "cs_end_if">>>>
      PROVE  r[2] # "EOF"
  <2>1. r[2] = "IF"
    BY <1>3
  <2> QED BY <2>1
<1>4. ASSUME r = <<"statement", "WHILE", while_rule>>
      PROVE  r[2] # "EOF"
  <2>1. r[2] = "WHILE"
    BY <1>4
  <2> QED BY <2>1
<1>5. ASSUME r = <<"statement", "DO", dowhile_rule>>
      PROVE  r[2] # "EOF"
  <2>1. r[2] = "DO"
    BY <1>5
  <2> QED BY <2>1
<1>6. ASSUME r = <<"statement", "FOR", for_rule>>
      PROVE  r[2] # "EOF"
  <2>1. r[2] = "FOR"
    BY <1>6
  <2> QED BY <2>1
<1>7. ASSUME r = <<"statement", "SWITCH", <<"(", "expr", ")", "cs_switch_start", "{",
               "case_list", "}", "cs_switch_end">>>>
      PROVE  r[2] # "EOF"
  <2>1. r[2] = "SWITCH"
    BY <1>7
  <2> QED BY <2>1
<1>8. ASSUME r = <<"statement", "BREAK", <<";", "cs_break_continue">>>>
      PROVE  r[2] # "EOF"
  <2>1. r[2] = "BREAK"
    BY <1>8
  <2> QED BY <2>1
<1>9. ASSUME r = <<"statement", "CONTINUE", <<";", "cs_break_continue">>>>
      PROVE  r[2] # "EOF"
  <2>1. r[2] = "CONTINUE"
    BY <1>9
  <2> QED BY <2>1
<1>10. ASSUME r = <<"statement", "RETURN", <<"expr", ";", "cs_return">>>>
      PROVE  r[2] # "EOF"
  <2>1. r[2] = "RETURN"
    BY <1>10
  <2> QED BY <2>1
<1>11. ASSUME r = <<"statement", "FUNCTION", <<"start_function_decleration">> \o function_body
               \o <<"end_function_decleration">>>>
      PROVE  r[2] # "EOF"
  <2>1. r[2] = "FUNCTION"
    BY <1>11
  <2> QED BY <2>1
<1>12. ASSUME r = <<"statement", "IC_FUNCTION", <<"restore_token">> \o function_body \o
               <<"terminate_phpparse">>>>
      PROVE  r[2] # "EOF"
  <2>1. r[2] = "IC_FUNCTION"
    BY <1>12
  <2> QED BY <2>1
<1>13. ASSUME r = <<"while_iterations", "CONTINUED_WHILE", while_rule>>
      PROVE  r[2] # "EOF"
  <2>1. r[2] = "CONTINUED_WHILE"
    BY <1>13
  <2> QED BY <2>1
<1>14. ASSUME r = <<"do_while_iterations", "CONTINUED_DOWHILE", dowhile_rule>>
      PROVE  r[2] # "EOF"
  <2>1. r[2] = "CONTINUED_DOWHILE"
    BY <1>14
  <2> QED BY <2>1
<1>15. ASSUME r = <<"for_iterations", "CONTINUED_FOR", for_rule>>
      PROVE  r[2] # "EOF"
  <2>1. r[2] = "CONTINUED_FOR"
    BY <1>15
  <2> QED BY <2>1
<1>16. ASSUME r = <<"elseif_list", "ELSEIF", <<"(", "cs_elseif_start_evaluate", "expr",
               "cs_elseif_end_evaluate", ")", "cs_start_elseif", "statement",
               "elseif_list">>>>
      PROVE  r[2] # "EOF"
  <2>1. r[2] = "ELSEIF"
    BY <1>16
  <2> QED BY <2>1
<1>17. ASSUME r = <<"else_single", "ELSE", <<"cs_start_else", "statement">>>>
      PROVE  r[2] # "EOF"
  <2>1. r[2] = "ELSE"
    BY <1>17
  <2> QED BY <2>1
<1>18. ASSUME r = <<"case_list", "CASE", <<"expr", ":", "cs_switch_case_pre", "statement_list",
               "cs_switch_case_post", "case_list">>>>
      PROVE  r[2] # "EOF"
  <2>1. r[2] = "CASE"
    BY <1>18
  <2> QED BY <2>1
<1>19. ASSUME r = <<"case_list", "DEFAULT", <<":", "cs_switch_default_pre", "statement_list",
               "cs_switch_case_post">>>>
      PROVE  r[2] # "EOF"
  <2>1. r[2] = "DEFAULT"
    BY <1>19
  <2> QED BY <2>1
<1>20. ASSUME r = <<"possible_function_call", "FUNCTION", function_body>>
      PROVE  r[2] # "EOF"
  <2>1. r[2] = "FUNCTION"
    BY <1>20
  <2> QED BY <2>1
<1>21. ASSUME r = <<"primary", "VARIABLE", <<"evaluate">>>>
      PROVE  r[2] # "EOF"
  <2>1. r[2] = "VARIABLE"
    BY <1>21
  <2> QED BY <2>1
<1>22. ASSUME r = <<"primary", "SCALAR", <<"evaluate">>>>
      PROVE  r[2] # "EOF"
  <2>1. r[2] = "SCALAR"
    BY <1>22
  <2> QED BY <2>1
<1>23. ASSUME r = <<"primary", "CALL", call_rule>>
      PROVE  r[2] # "EOF"
  <2>1. r[2] = "CALL"
    BY <1>23
  <2> QED BY <2>1
<1>24. ASSUME r = <<"primary", "ARRAY_WALK", call_rule>>
      PROVE  r[2] # "EOF"
  <2>1. r[2] = "ARRAY_WALK"
    BY <1>24
  <2> QED BY <2>1
<1>25. ASSUME r = <<"operators", "&&", <<"cs_pre_boolean_and", "primary",
               "cs_post_boolean_and", "operators">>>>
      PROVE  r[2] # "EOF"
  <2>1. r[2] = "&&"
    BY <1>25
  <2> QED BY <2>1
<1>26. ASSUME r = <<"operators", "||", <<"cs_pre_boolean_or", "primary", "cs_post_boolean_or",
               "operators">>>>
      PROVE  r[2] # "EOF"
  <2>1. r[2] = "||"
    BY <1>26
  <2> QED BY <2>1
<1>27. ASSUME r = <<"operators", "?", <<"cs_questionmark_op_pre_expr1", "expr", ":",
               "cs_questionmark_op_pre_expr2", "expr", "cs_questionmark_op_post_expr2">>>>
      PROVE  r[2] # "EOF"
  <2>1. r[2] = "?"
    BY <1>27
  <2> QED BY <2>1
<1> QED BY <1>1, <1>2, <1>3, <1>4, <1>5, <1>6, <1>7, <1>8, <1>9, <1>10, <1>11, <1>12, <1>13,
       <1>14, <1>15, <1>16, <1>17, <1>18, <1>19, <1>20, <1>21, <1>22, <1>23, <1>24, <1>25,
       <1>26, <1>27, Zenon DEF Grammar

LEMMA AllOf ==
  ASSUME NEW S, NEW rule
  PROVE  /\ Len(rule) = 2 /\ rule[1] \in S /\ rule[2] \in S
              => \A i \in 1 .. Len(rule) : rule[i] \in S
         /\ Len(rule) = 3 /\ rule[1] \in S /\ rule[2] \in S /\ rule[3] \in S
              => \A i \in 1 .. Len(rule) : rule[i] \in S
<1>1. \A i \in 1 .. 2 : i = 1 \/ i = 2
  OBVIOUS
<1>2. \A i \in 1 .. 3 : i = 1 \/ i = 2 \/ i = 3
  OBVIOUS
<1> QED BY <1>1, <1>2, Zenon

\* Rules that need no token give symbols that use none.
LEMMA BareRules ==
  ASSUME NEW x \in Bare, x \in Nonterminals, NEW type, NEW rule \in Otherwise(x, type)
  PROVE  \A i \in 1 .. Len(rule) : rule[i] \in Bare
<1>1. CASE x = "expr"
  <2>1. rule = <<"primary", "operators">>
    BY <1>1 DEF Otherwise
  <2>2. Len(rule) = 2 /\ rule[1] = "primary" /\ rule[2] = "operators"
    BY <2>1
  <2>3. \A y \in {"primary", "operators", "expr", ";", "drop"} : y \in Bare
    BY DEF Bare
  <2> QED BY <2>2, <2>3, AllOf, Zenon
<1>2. CASE x = "statement"
  <2>1. rule = <<"expr", ";", "drop">>
    BY <1>2 DEF Otherwise
  <2>2. Len(rule) = 3 /\ rule[1] = "expr" /\ rule[2] = ";" /\ rule[3] = "drop"
    BY <2>1
  <2>3. \A y \in {"primary", "operators", "expr", ";", "drop"} : y \in Bare
    BY DEF Bare
  <2> QED BY <2>2, <2>3, AllOf, Zenon
<1>3. CASE x = "statement_list"
  <2>1. rule = <<>> \/ rule = <<"statement", "statement_list">>
    BY <1>3 DEF Otherwise
  <2>2. CASE rule = <<>>
    <3>1. Len(rule) = 0
      BY <2>2
    <3> QED BY <3>1
  <2>3. CASE rule = <<"statement", "statement_list">>
    <3>1. Len(rule) = 2 /\ rule[1] = "statement" /\ rule[2] = "statement_list"
      BY <2>3
    <3>2. "statement" \in Bare /\ "statement_list" \in Bare
      BY DEF Bare
    <3> QED BY <3>1, <3>2, AllOf, Zenon
  <2> QED BY <2>1, <2>2, <2>3
<1>4. CASE x = "primary"
  BY <1>4 DEF Otherwise
<1>5. CASE x = "operators"
  <2>1. rule = <<>>
    BY <1>5 DEF Otherwise
  <2>2. Len(rule) = 0
    BY <2>1
  <2> QED BY <2>2
<1> QED BY <1>1, <1>2, <1>3, <1>4, <1>5 DEF Bare, Nonterminals

\* The parser takes a rule.
LEMMA ExpandParts ==
  ASSUME Expand
  PROVE  /\ Running /\ parse # <<>> /\ Head(parse).sym \in Nonterminals
         /\ UNCHANGED <<values, suspended, flow, stacks, world>>
         /\ \E rule, t :
              /\ IsRule(Head(parse).sym, rule) /\ parse' = Symbols(rule, t) \o Tail(parse)
              /\ \/ TakeToken /\ t = Look /\ rule \in Rules(Head(parse).sym, Look.type)
                 \/ /\ KeepToken /\ t = Head(parse).tok
                    /\ rule \in Otherwise(Head(parse).sym, Look.type)
<1>1. /\ Running /\ parse # <<>> /\ Head(parse).sym \in Nonterminals
      /\ UNCHANGED <<values, suspended, flow, stacks, world>>
      /\ \/ /\ TakeToken
            /\ \E rule \in Rules(Head(parse).sym, Look.type) :
                 parse' = Symbols(rule, Look) \o Tail(parse)
         \/ /\ KeepToken
            /\ \E rule \in Otherwise(Head(parse).sym, Look.type) :
                 parse' = Symbols(rule, Head(parse).tok) \o Tail(parse)
  BY DEF Expand, At
<1>2. CASE /\ TakeToken
           /\ \E rule \in Rules(Head(parse).sym, Look.type) :
                parse' = Symbols(rule, Look) \o Tail(parse)
  <2>1. PICK rule \in Rules(Head(parse).sym, Look.type) :
          parse' = Symbols(rule, Look) \o Tail(parse)
    BY <1>2
  <2>2. IsRule(Head(parse).sym, rule)
    BY <2>1, Zenon DEF IsRule
  <2> QED BY <1>1, <1>2, <2>1, <2>2, Zenon
<1>3. CASE /\ KeepToken
           /\ \E rule \in Otherwise(Head(parse).sym, Look.type) :
                parse' = Symbols(rule, Head(parse).tok) \o Tail(parse)
  <2>1. PICK rule \in Otherwise(Head(parse).sym, Look.type) :
          parse' = Symbols(rule, Head(parse).tok) \o Tail(parse)
    BY <1>3
  <2>2. IsRule(Head(parse).sym, rule)
    BY <2>1, Zenon DEF IsRule
  <2> QED BY <1>1, <1>3, <2>1, <2>2, Zenon
<1> QED BY <1>1, <1>2, <1>3

LEMMA Expand_Keeps ==
  ASSUME IInv, Expand
  PROVE  IInv'
<1> DEFINE n == Len(tokens)
           x == Head(parse).sym
<1>1. /\ Running /\ parse # <<>> /\ x \in Nonterminals
      /\ UNCHANGED <<values, suspended, flow, stacks, world>>
      /\ \E rule, t :
           /\ IsRule(x, rule) /\ parse' = Symbols(rule, t) \o Tail(parse)
           /\ \/ TakeToken /\ t = Look /\ rule \in Rules(x, Look.type)
              \/ KeepToken /\ t = Head(parse).tok /\ rule \in Otherwise(x, Look.type)
  BY ExpandParts, Zenon
<1>2. /\ \E U, a, b : Between(U, a, b)
      /\ Flowing /\ InputInv /\ css \in Seq(Flag)
      /\ function_state_stack \in Seq(FunctionState) /\ status \in Statuses
      /\ n \in Nat /\ SymbolsOK(parse, n) /\ parse \in Seq(Items(TokenOrEOF))
      /\ Tail(parse) \in Seq(Items(TokenOrEOF))
  BY <1>1, SymbolBetween, Zenon
<1>3. PICK U, a, b : Between(U, a, b)
  BY <1>2, Zenon
<1>4. values' = values /\ suspended' = suspended /\ status' = status
      /\ function_table' = function_table /\ UNCHANGED <<flow, stacks>>
  BY <1>1 DEF world
<1>5. Flowing' /\ function_state' = function_state /\ css' = css
      /\ switch_stack' = switch_stack /\ function_state_stack' = function_state_stack
      /\ Execute' = Execute
  BY <1>2, <1>4, FlowStays
<1>6. PICK rule, t :
           /\ IsRule(x, rule) /\ parse' = Symbols(rule, t) \o Tail(parse)
           /\ \/ TakeToken /\ t = Look /\ rule \in Rules(x, Look.type)
              \/ KeepToken /\ t = Head(parse).tok /\ rule \in Otherwise(x, Look.type)
  BY <1>1, Zenon
<1>7. /\ Read(Look, n) /\ Look \in TokenOrEOF /\ (Look.type # "EOF" => Look.offset \in 1 .. n - 1)
  BY <1>1, <1>2, LookIsRead
<1>8. Head(parse) \in Items(TokenOrEOF) /\ SymbolsOK(Tail(parse), n)
      /\ (x \notin Bare => Head(parse).tok.offset \in 1 .. n - 1)
  BY <1>1, <1>2, SymbolsTail
<1>9. t \in TokenOrEOF
  <2>1. Head(parse).tok \in TokenOrEOF
    BY <1>8 DEF Items
  <2> QED BY <1>6, <1>7, <2>1
<1>10. Shape(U, a, parse, suspended) /\ a \in Height
       /\ IsAt(a, values, css, switch_stack, function_state, function_state_stack, Execute, n)
       /\ WaitAt(U, suspended, n)
  BY <1>3 DEF Between
<1>11. U \in Seq(Height) /\ Runs(parse, a, Bottom(U))
  BY <1>10 DEF Shape
<1>12. Bottom(U).m = 0
  BY <1>11, BottomType
<1>13. PICK h : h = With(a, a.v, 0)
  OBVIOUS
<1>14. /\ rule \in Seq(Name) /\ Runs(parse', h, Bottom(U)) /\ a.m \in {0, 4, 6} /\ h \in Height
  <2>1. /\ rule \in Seq(Name)
        /\ Runs(Symbols(rule, t) \o Tail(parse), With(a, a.v, 0), Bottom(U))
        /\ a.m \in {0, 4, 6} /\ With(a, a.v, 0) \in Height
    BY <1>1, <1>2, <1>6, <1>9, <1>10, <1>11, <1>12, ExpandRuns, Zenon
  <2> QED BY <1>6, <1>13, <2>1
<1>15. /\ (\A i \in 1 .. Len(rule) : rule[i] \in Bare) \/ t.offset \in 1 .. n - 1
       /\ TakeToken => Look.type # "EOF" \/ KeepToken
  <2>1. CASE TakeToken /\ t = Look /\ rule \in Rules(x, Look.type)
    <3>1. PICK r \in Grammar : r[2] = Look.type
      BY <2>1, Zenon DEF Rules
    <3>2. Look.type # "EOF"
      BY <3>1, GrammarTokens
    <3> QED BY <1>7, <2>1, <3>2
  <2>2. CASE KeepToken /\ t = Head(parse).tok /\ rule \in Otherwise(x, Look.type)
    <3>1. x \in Bare => \A i \in 1 .. Len(rule) : rule[i] \in Bare
      BY <1>1, <2>2, BareRules, Zenon
    <3> QED BY <1>8, <2>2, <3>1
  <2> QED BY <1>6, <2>1, <2>2
<1>16. SymbolsOK(parse', n)
  <2>1. SymbolsOK(Symbols(rule, t) \o Tail(parse), n)
    BY <1>8, <1>9, <1>14, <1>15, SymbolsAdded
  <2> QED BY <1>6, <2>1
<1>17. InputInv' /\ tokens' = tokens
  <2>1. (TakeToken /\ (Look.type = "EOF" => parse' = <<>>)) \/ KeepToken
    BY <1>6, <1>15
  <2> QED BY <1>1, <1>2, <1>4, <1>16, <2>1, InputRead
<1>18. StructInv'
  <2>1. Shape(U, h, parse', suspended')
    BY <1>4, <1>10, <1>14 DEF Shape
  <2>2. /\ h.v = a.v /\ h.c = a.c /\ h.s = a.s /\ h.f = a.f /\ h.n = a.n /\ h.m = 0
    BY <1>13 DEF With
  <2>3. IsAt(h, values, css, switch_stack, function_state, function_state_stack, Execute, n)
    <3>1. ~ Waiting(a, values) /\ ~ Waiting(h, values)
      BY <1>14, <2>2 DEF Waiting
    <3>2. Conforms(values, h.v, n) /\ Len(css) = h.c /\ function_state.loop_nest_level = h.n
      BY <1>10, <2>2 DEF IsAt
    <3> QED BY <1>10, <1>14, <2>2, <3>1, <3>2, IsAtOn
  <2>4. IsAt(h, values', css', switch_stack', function_state', function_state_stack', Execute', n)
    BY <1>4, <1>5, <2>3
  <2>5. WaitAt(U, suspended', n)
    BY <1>4, <1>10
  <2> QED BY <1>17, <2>1, <2>4, <2>5, StructOn
<1> QED BY <1>5, <1>17, <1>18, IInvWhole

-----------------------------------------------------------------------------
(* Calls *)

\* The levels of loops of the functions that wait.
LEMMA LevelsPush ==
  ASSUME NEW fs \in FunctionState, NEW stack \in Seq(FunctionState)
  PROVE  /\ Push(fs, stack) \in Seq(FunctionState)
         /\ Levels(Push(fs, stack)) = Push(fs.loop_nest_level, Levels(stack))
         /\ Levels(stack) \in Seq(Nat) /\ Len(Levels(stack)) = Len(stack)
<1>1. PICK l \in Nat : l = Len(stack)
  OBVIOUS
<1>2. \A f \in FunctionState : f.loop_nest_level \in Nat
  BY DEF FunctionState
<1>3. PICK L \in Seq(Nat) : /\ L = Levels(stack) /\ Len(L) = l
                            /\ \A i \in 1 .. l : L[i] = stack[i].loop_nest_level
  <2>1. \A i \in 1 .. l : stack[i] \in FunctionState
    BY <1>1
  <2>2. \A i \in 1 .. l : stack[i].loop_nest_level \in Nat
    BY <1>2, <2>1
  <2>3. Levels(stack) = [i \in 1 .. l |-> stack[i].loop_nest_level]
    BY <1>1 DEF Levels
  <2>4. Levels(stack) \in Seq(Nat) /\ Len(Levels(stack)) = l
        /\ \A i \in 1 .. l : Levels(stack)[i] = stack[i].loop_nest_level
    BY <2>2, <2>3
  <2> QED BY <2>4, Zenon
<1>4. PICK p \in Seq(FunctionState) :
        /\ p = Push(fs, stack) /\ Len(p) = l + 1 /\ p[1] = fs
        /\ \A i \in 1 .. l : p[i + 1] = stack[i]
  <2>1. /\ Push(fs, stack) \in Seq(FunctionState) /\ Len(Push(fs, stack)) = l + 1
        /\ Push(fs, stack)[1] = fs /\ \A i \in 1 .. l : Push(fs, stack)[i + 1] = stack[i]
    BY <1>1, Pushed, SMTT(40)
  <2> QED BY <2>1, Zenon
<1>5. PICK m \in Nat : m = fs.loop_nest_level
  BY <1>2
<1>6. PICK q \in Seq(Nat) :
        /\ q = Push(m, L) /\ Len(q) = l + 1 /\ q[1] = m /\ \A i \in 1 .. l : q[i + 1] = L[i]
  <2>1. Push(m, L) \in Seq(Nat) /\ Len(Push(m, L)) = l + 1
    BY <1>3 DEF Push
  <2>2. Push(m, L)[1] = m /\ \A i \in 1 .. l : Push(m, L)[i + 1] = L[i]
    BY <1>3 DEF Push
  <2> QED BY <2>1, <2>2, Zenon
<1>7. Levels(p) = q
  <2>1. Levels(p) = [i \in 1 .. l + 1 |-> p[i].loop_nest_level]
    BY <1>4 DEF Levels
  <2>2. ASSUME NEW i \in 1 .. l + 1 PROVE p[i].loop_nest_level = q[i]
    <3>1. CASE i = 1
      BY <1>4, <1>5, <1>6, <3>1
    <3>2. CASE i # 1
      <4>1. PICK j \in 1 .. l : i = j + 1
        <5>1. i - 1 \in 1 .. l /\ i = (i - 1) + 1
          BY <3>2
        <5> QED BY <5>1
      <4> QED BY <1>3, <1>4, <1>6, <4>1
    <3> QED BY <3>1, <3>2
  <2>3. q = [i \in 1 .. l + 1 |-> q[i]]
    BY <1>6
  <2> QED BY <2>1, <2>2, <2>3
<1> QED BY <1>1, <1>3, <1>4, <1>5, <1>6, <1>7

LEMMA LevelsPop ==
  ASSUME NEW stack \in Seq(FunctionState), NEW k \in Nat, NEW f \in Seq(Nat),
         Levels(stack) = Push(k, f)
  PROVE  /\ stack # <<>> /\ stack[1] \in FunctionState /\ stack[1].loop_nest_level = k
         /\ Pop(stack, 1) \in Seq(FunctionState) /\ Levels(Pop(stack, 1)) = f
<1>1. Len(Levels(stack)) = Len(stack)
  BY DEF Levels
<1>2. stack # <<>>
  <2>1. Len(Push(k, f)) = Len(f) + 1
    BY Pushed, Zenon
  <2>2. Len(Push(k, f)) = Len(f) + 1 /\ Len(f) \in Nat
    BY <2>1
  <2>3. Len(stack) # 0
    BY <1>1, <2>2
  <2> QED BY <2>3
<1>3. Pop(stack, 1) = Tail(stack) /\ stack = Push(stack[1], Tail(stack))
      /\ stack[1] \in FunctionState /\ Tail(stack) \in Seq(FunctionState)
  BY <1>2, PopTail
<1>4. PICK s \in Seq(FunctionState) : s = Tail(stack)
  BY <1>3
<1>5. PICK g \in Nat : g = stack[1].loop_nest_level
  BY <1>3 DEF FunctionState
<1>6. Levels(stack) = Push(g, Levels(s)) /\ Levels(s) \in Seq(Nat)
  BY <1>3, <1>4, <1>5, LevelsPush
<1>7. PICK L \in Seq(Nat) : L = Levels(s) /\ Push(g, L) = Push(k, f)
  BY <1>6
<1>8. Push(g, L)[1] = g /\ Push(k, f)[1] = k /\ Tail(Push(g, L)) = L /\ Tail(Push(k, f)) = f
  <2>1. Push(g, L)[1] = g
    BY DEF Push
  <2>2. Tail(Push(g, L)) = L
    BY DEF Push
  <2>3. Push(k, f)[1] = k
    BY DEF Push
  <2>4. Tail(Push(k, f)) = f
    BY DEF Push
  <2> QED BY <2>1, <2>2, <2>3, <2>4
<1>9. g = k /\ L = f
  BY <1>7, <1>8
<1> QED BY <1>2, <1>3, <1>4, <1>5, <1>7, <1>9

\* Another kind for the value below the top.
LEMMA Reconform ==
  ASSUME NEW vs, NEW w \in Seq(Kind), NEW n, NEW j \in Kind, NEW k \in Kind, NEW l \in Kind,
         Conforms(vs, Push(j, Push(k, w)), n), ValueIs(l, vs[2], n)
  PROVE  Conforms(vs, Push(j, Push(l, w)), n)
<1>1. PICK d \in Nat : d = Len(w)
  OBVIOUS
<1>2. ASSUME NEW x \in Kind
      PROVE  /\ Push(j, Push(x, w)) \in Seq(Kind) /\ Len(Push(j, Push(x, w))) = d + 2
             /\ Push(j, Push(x, w))[1] = j /\ Push(j, Push(x, w))[2] = x
             /\ \A i \in 1 .. d : Push(j, Push(x, w))[i + 2] = w[i]
  <2>1. PICK y \in Seq(Kind) : /\ y = Push(x, w) /\ Len(y) = d + 1 /\ y[1] = x
                               /\ \A i \in 1 .. d : y[i + 1] = w[i]
    <3>1. Push(x, w) \in Seq(Kind) /\ Len(Push(x, w)) = d + 1
      BY <1>1 DEF Push
    <3>2. Push(x, w)[1] = x /\ \A i \in 1 .. d : Push(x, w)[i + 1] = w[i]
      BY <1>1 DEF Push
    <3> QED BY <3>1, <3>2, Zenon
  <2>2. /\ Push(j, y) \in Seq(Kind) /\ Len(Push(j, y)) = Len(y) + 1 /\ Push(j, y)[1] = j
        /\ \A i \in 1 .. Len(y) : Push(j, y)[i + 1] = y[i]
    BY Pushed
  <2>3. Push(j, y)[2] = x
    <3>1. 1 \in 1 .. Len(y) /\ 1 + 1 = 2
      BY <2>1
    <3> QED BY <2>1, <2>2, <3>1
  <2>4. \A i \in 1 .. d : Push(j, y)[i + 2] = w[i]
    <3> SUFFICES ASSUME NEW i \in 1 .. d PROVE Push(j, y)[i + 2] = w[i]
      OBVIOUS
    <3>1. i + 1 \in 1 .. Len(y) /\ (i + 1) + 1 = i + 2
      BY <2>1
    <3> QED BY <2>1, <2>2, <3>1
  <2>5. Len(Push(j, y)) = d + 2
    BY <2>1, <2>2
  <2> QED BY <2>1, <2>2, <2>3, <2>4, <2>5
<1>3. PICK p \in Seq(Kind) : /\ p = Push(j, Push(k, w)) /\ Len(p) = d + 2 /\ p[1] = j /\ p[2] = k
                             /\ \A i \in 1 .. d : p[i + 2] = w[i]
  BY <1>2, Zenon
<1>4. PICK q \in Seq(Kind) : /\ q = Push(j, Push(l, w)) /\ Len(q) = d + 2 /\ q[1] = j /\ q[2] = l
                             /\ \A i \in 1 .. d : q[i + 2] = w[i]
  BY <1>2, Zenon
<1>5. IsSeq(vs) /\ Len(vs) = d + 2 /\ \A i \in 1 .. d + 2 : ValueIs(p[i], vs[i], n)
  BY <1>3 DEF Conforms
<1>6. ASSUME NEW i \in 1 .. d + 2 PROVE ValueIs(q[i], vs[i], n)
  <2>1. CASE i = 1
    BY <1>3, <1>4, <1>5, <2>1
  <2>2. CASE i = 2
    BY <1>4, <2>2
  <2>3. CASE i # 1 /\ i # 2
    <3>1. PICK m \in 1 .. d : i = m + 2
      <4>1. i - 2 \in 1 .. d /\ i = (i - 2) + 2
        BY <2>3
      <4> QED BY <4>1
    <3>2. p[i] = q[i]
      BY <1>3, <1>4, <3>1
    <3> QED BY <1>5, <3>2
  <2> QED BY <2>1, <2>2, <2>3
<1> QED BY <1>4, <1>5, <1>6 DEF Conforms

\* Symbols that leave the height as it is.
LEMMA ConstantRun ==
  ASSUME NEW p, Len(p) \in Nat, NEW a \in Height, \A i \in 1 .. Len(p) : Effect(p[i].sym, a, a)
  PROVE  Runs(p, a, a)
<1>1. PICK n \in Nat : n = Len(p)
  OBVIOUS
<1>2. PICK h : h = [k \in 1 .. n + 1 |-> a]
  OBVIOUS
<1>3. /\ h \in [1 .. n + 1 -> Height] /\ h[1] = a /\ h[n + 1] = a
      /\ \A k \in 1 .. n : h[k] = a /\ h[k + 1] = a
  BY <1>2
<1>4. IsRun(h, p, a, a)
  BY <1>1, <1>3 DEF IsRun
<1> QED BY <1>4 DEF Runs

LEMMA InputMoved ==
  ASSUME InputInv, parse # <<>>, UNCHANGED <<tokens, shutdown, suspended, function_table>>,
         SymbolsOK(parse', Len(tokens)),
         UNCHANGED <<pos, yychar>> \/ \E off \in 1 .. Len(tokens) : seek_token(off)
  PROVE  InputInv'
<1>1. PICK n \in Nat : n = Len(tokens)
  BY InputParts
<1>2. /\ TokensOK(tokens, n) /\ LookaheadOK(yychar, n) /\ PlaceOK(pos, yychar, parse, n)
      /\ shutdown \in Shutdown /\ TableOK(function_table, n) /\ FramesOK(suspended, n)
  BY <1>1 DEF InputInv
<1>3. LookaheadOK(yychar', n) /\ PlaceOK(pos', yychar', parse', n)
  <2>1. CASE UNCHANGED <<pos, yychar>>
    BY <1>2, <2>1 DEF PlaceOK
  <2>2. CASE \E off \in 1 .. Len(tokens) : seek_token(off)
    <3>1. PICK off \in 1 .. n : pos' = off /\ yychar' = EMPTY
      BY <1>1, <2>2 DEF seek_token
    <3> QED BY <3>1 DEF LookaheadOK, PlaceOK
  <2> QED BY <2>1, <2>2
<1>4. /\ tokens' = tokens /\ shutdown' = shutdown /\ suspended' = suspended
      /\ function_table' = function_table /\ n = Len(tokens') /\ SymbolsOK(parse', n)
  BY <1>1
<1> QED BY <1>2, <1>3, <1>4, Zenon DEF InputInv

\* What the symbols of a call do.
LEMMA CallEffects ==
  ASSUME NEW x, NEW a, NEW b, Effect(x, a, b)
  PROVE  /\ x = "cs_functioncall_pre_variable_passing" => Asks(a, b)
         /\ x = "cs_functioncall_post_variable_passing" => Skips(a, b)
         /\ x = "cs_functioncall_end" => EndsSkipped(a, b) \/ EndsCalled(a, b)
         /\ x \in {"call_user_function", "RETURN_TRUE"} => a.m = 4 /\ b = a
BY DEF Effect, Idle, Giving, Dropping, InCall

\* Entering a function leaves the flags.
LEMMA EnteredFlow ==
  ASSUME Flowing, UNCHANGED <<ExecuteFlag, Execute, status>>,
         function_state' \in FunctionState,
         SHOULD_EXECUTE(ExecuteFlag, function_state') = SHOULD_EXECUTE(ExecuteFlag, function_state),
         css' \in Seq(Flag), function_state_stack' \in Seq(FunctionState)
  PROVE  Flowing'
<1>1. status \in Statuses
  BY Zenon DEF Flowing, FlowInv, Statuses
<1> QED BY <1>1, Zenon DEF Flowing, FlowInv, ExecuteInSync, Statuses

\* The function is looked up. A function that the caller executes is put on the
\* function_state_stack before its arguments are passed.
LEMMA cs_functioncall_pre_variable_passing_Keeps ==
  ASSUME IInv, cs_functioncall_pre_variable_passing
  PROVE  IInv'
<1> DEFINE n == Len(tokens)
           x == "cs_functioncall_pre_variable_passing"
<1>1. Action(x)
  BY DEF cs_functioncall_pre_variable_passing
<1>2. /\ \E U, a, b : Between(U, a, b)
      /\ Running /\ parse # <<>> /\ Head(parse).sym = x /\ parse' = Tail(parse)
      /\ suspended' = suspended /\ Flowing /\ InputInv
      /\ function_state \in FunctionState /\ css \in Seq(Flag)
      /\ function_state_stack \in Seq(FunctionState) /\ status \in Statuses /\ n \in Nat
  BY <1>1, ActionBetween, Zenon
<1>3. PICK U, a, b : Between(U, a, b)
  BY <1>2, Zenon
<1>4. /\ a \in Height /\ b \in Height /\ Effect(x, a, b)
      /\ IsAt(a, values, css, switch_stack, function_state, function_state_stack, Execute, n)
  BY <1>2, <1>3, Zenon DEF Between
<1>5. a.m = 0 /\ b = With(a, Push("call", a.v), 1)
  BY <1>4, CallEffects DEF Asks
<1>6. b.v = Push("call", a.v) /\ b.c = a.c /\ b.s = a.s /\ b.f = a.f /\ b.n = a.n /\ b.m = 1
  BY <1>5 DEF With
<1>7. PICK k \in Seq(Kind) : k = a.v
  BY <1>4 DEF Height
<1>8. ASSUME NEW call, call = NoCall \/ IsCall(call, n)
      PROVE  Conforms(Push(call, values), b.v, n) /\ Push(call, values)[1] = call
  <2>1. "call" \in Kind /\ ValueIs("call", call, n)
    BY <1>8 DEF Kind, ValueIs
  <2>2. Conforms(values, k, n)
    BY <1>4, <1>7 DEF IsAt
  <2>3. Conforms(Push(call, values), Push("call", k), n)
    BY <2>1, <2>2, ConformsPush
  <2> QED BY <1>6, <1>7, <2>2, <2>3, AnyPushed DEF Conforms
<1>9. InputInv'
  <2>1. UNCHANGED <<input, suspended, function_table>>
    BY <1>2 DEF cs_functioncall_pre_variable_passing, Die, world
  <2> QED BY <1>2, <2>1, InputKept
<1>10. tokens' = tokens
  BY DEF cs_functioncall_pre_variable_passing, Die, input
<1>11. ASSUME IsAt(b, values', css', switch_stack', function_state', function_state_stack',
                   Execute', n), Flowing'
       PROVE  IInv'
  <2>1. Shape(U, b, parse', suspended') /\ WaitAt(U, suspended', n)
    BY <1>2, <1>3 DEF Between
  <2>2. StructInv'
    BY <1>10, <1>11, <2>1, StructOn
  <2> QED BY <1>9, <1>11, <2>2, IInvWhole
<1>12. CASE ~ Execute /\ values' = Push(NoCall, values) /\ UNCHANGED <<flow, stacks, world>>
  <2>1. Flowing' /\ function_state' = function_state /\ css' = css
        /\ switch_stack' = switch_stack /\ function_state_stack' = function_state_stack
        /\ Execute' = Execute
    BY <1>2, <1>12, FlowStays DEF world
  <2>2. Conforms(values', b.v, n) /\ values'[1] = NoCall
    BY <1>8, <1>12
  <2>3. ~ Waiting(a, values) /\ ~ Waiting(b, values')
    BY <1>5, <1>6, <2>2 DEF Waiting
  <2>4. Len(css) = b.c /\ function_state.loop_nest_level = b.n
    BY <1>4, <1>6 DEF IsAt
  <2>5. IsAt(b, values', css, switch_stack, function_state, function_state_stack, Execute, n)
    BY <1>4, <1>6, <2>2, <2>3, <2>4, IsAtOn
  <2> QED BY <1>11, <2>1, <2>5
<1>13. CASE Die
  <2>1. status' = "died" /\ UNCHANGED <<flow, stacks>>
    BY <1>13 DEF Die
  <2>2. Flowing'
    BY <1>2, <2>1, FlowStays DEF Statuses
  <2> QED BY <1>9, <2>1, <2>2, IInvWhole DEF Running
<1>14. CASE /\ Execute /\ (CallType(Tok) = "user" => Tok.tag \in DOMAIN function_table)
            /\ EnterCall(function_state)
            /\ function_state' = [function_state EXCEPT !.type = CallType(Tok)]
            /\ values' = Push(IF CallType(Tok) = "user"
                              THEN [type |-> "user", offset |-> function_table[Tok.tag]]
                              ELSE [type |-> "internal"], values)
            /\ UNCHANGED <<input, ExecuteFlag, Execute, css, switch_stack, world>>
  <2>1. PICK call : call = IF CallType(Tok) = "user"
                           THEN [type |-> "user", offset |-> function_table[Tok.tag]]
                           ELSE [type |-> "internal"]
    OBVIOUS
  <2>2. IsCall(call, n)
    <3>1. CASE CallType(Tok) = "user"
      <4>1. TableOK(function_table, n) /\ Tok.tag \in DOMAIN function_table
        BY <1>2, <1>14, <3>1 DEF InputInv
      <4>2. PICK off \in 1 .. n - 1 : off = function_table[Tok.tag]
        BY <4>1 DEF TableOK
      <4>3. call = [type |-> "user", offset |-> off]
        BY <2>1, <3>1, <4>2
      <4>4. call.type = "user" /\ call.offset = off /\ NoCall.type = "none"
        BY <4>3 DEF NoCall
      <4> QED BY <4>4 DEF IsCall
    <3>2. CASE CallType(Tok) # "user"
      <4>1. call = [type |-> "internal"]
        BY <2>1, <3>2
      <4>2. call.type = "internal" /\ NoCall.type = "none"
        BY <4>1 DEF NoCall
      <4> QED BY <4>2 DEF IsCall
    <3> QED BY <3>1, <3>2
  <2>3. values' = Push(call, values) /\ Conforms(values', b.v, n) /\ values'[1] = call
    <3>1. values' = Push(call, values)
      BY <1>14, <2>1
    <3> QED BY <1>8, <2>2, <3>1
  <2>4. Waiting(b, values') /\ ~ Waiting(a, values)
    BY <1>5, <1>6, <2>2, <2>3 DEF Waiting, IsCall
  <2>5. PICK fs : fs = [function_state EXCEPT !.type = CallType(Tok)]
    OBVIOUS
  <2>6. /\ fs \in FunctionState /\ fs.loop_nest_level = function_state.loop_nest_level
        /\ SHOULD_EXECUTE(ExecuteFlag, fs) = SHOULD_EXECUTE(ExecuteFlag, function_state)
    <3>1. CallType(Tok) \in {"none", "user", "internal"}
      BY DEF CallType
    <3> QED BY <1>2, <2>5, <3>1 DEF FunctionState, SHOULD_EXECUTE
  <2>7. function_state' = fs /\ css' = css /\ switch_stack' = switch_stack
        /\ UNCHANGED <<ExecuteFlag, Execute, status>>
        /\ function_state_stack' = Push(function_state, function_state_stack)
    BY <1>14, <2>5 DEF EnterCall, world
  <2>8. /\ Push(function_state, function_state_stack) \in Seq(FunctionState)
        /\ Levels(Push(function_state, function_state_stack))
             = Push(function_state.loop_nest_level, Levels(function_state_stack))
    BY <1>2, LevelsPush
  <2>9. Flowing'
    BY <1>2, <2>6, <2>7, <2>8, EnteredFlow
  <2>10. Execute' = TRUE
    <3>1. Execute = SHOULD_EXECUTE(ExecuteFlag, function_state) /\ Execute /\ Execute' = Execute
      BY <1>2, <1>14, <2>7 DEF Flowing, ExecuteInSync
    <3> QED BY <3>1 DEF SHOULD_EXECUTE
  <2>11. IsAt(b, values', css', switch_stack', function_state', function_state_stack', Execute', n)
    <3>1. /\ IsSeq(switch_stack) /\ Len(css) = b.c /\ Len(switch_stack) = b.s
          /\ function_state.loop_nest_level = b.n /\ Levels(function_state_stack) = b.f
      BY <1>4, <1>6, <2>4 DEF IsAt
    <3> QED BY <2>3, <2>4, <2>6, <2>7, <2>8, <2>10, <3>1 DEF IsAt
  <2> QED BY <1>11, <2>9, <2>11
<1> QED BY <1>12, <1>13, <1>14 DEF cs_functioncall_pre_variable_passing

\* Behind the arguments of a function that was entered.
Called(a, w) == [v |-> Push("offset", Push("called", w)), c |-> a.c + 1, s |-> a.s,
                 f |-> Push(a.n, a.f), n |-> 0, m |-> 4]

LEMMA TwoKinds ==
  ASSUME NEW w \in Seq(Kind), NEW w2 \in Seq(Kind), NEW j \in Kind, NEW k \in Kind,
         NEW j2 \in Kind, NEW k2 \in Kind, Push(j, Push(k, w)) = Push(j2, Push(k2, w2))
  PROVE  k = k2 /\ w = w2
<1>1. PICK p \in Seq(Kind), q \in Seq(Kind) : p = Push(k, w) /\ q = Push(k2, w2)
  BY KindPushed
<1>2. Tail(Push(j, p)) = p /\ Tail(Push(j2, q)) = q
  BY Pushed, ZenonT(60)
<1>3. p = q
  BY <1>1, <1>2
<1>4. p[1] = k /\ q[1] = k2
  BY <1>1 DEF Push
<1>5. Tail(Push(k, w)) = w /\ Tail(Push(k2, w2)) = w2
  BY Pushed, ZenonT(60)
<1> QED BY <1>1, <1>3, <1>4, <1>5

\* The function that is entered can also be left by the end of the call.
LEMMA CallTaken ==
  ASSUME NEW I, NEW p \in Seq(I), NEW a \in Height, NEW b \in Height, NEW z, z.m = 0,
         NEW w \in Seq(Kind), a.m = 3, b = With(a, Push("offset", Push("skipped", w)), 6),
         Runs(p, b, z)
  PROVE  Called(a, w) \in Height /\ Runs(p, Called(a, w), z)
<1>1. /\ b.v = Push("offset", Push("skipped", w)) /\ b.c = a.c /\ b.s = a.s /\ b.f = a.f
      /\ b.n = a.n /\ b.m = 6
  BY DEF With
<1>2. "offset" \in Kind /\ "skipped" \in Kind /\ "called" \in Kind /\ "value" \in Kind
  BY DEF Kind
<1>3. PICK v \in Seq(Kind) : v = Push("offset", Push("called", w))
  BY <1>2, KindPushed
<1>4. PICK c \in Nat, s \in Nat, n \in Nat, f \in Seq(Nat) :
        c = a.c /\ s = a.s /\ n = a.n /\ f = a.f
  BY DEF Height
<1>5. PICK g \in Seq(Nat) : g = Push(n, f)
  <2>1. Push(n, f) \in Seq(Nat)
    BY DEF Push
  <2> QED BY <2>1, Zenon
<1>6. PICK y : y = Called(a, w)
  OBVIOUS
<1>7. /\ y \in Height /\ y.v = v /\ y.c = c + 1 /\ y.s = s /\ y.f = g /\ y.n = 0 /\ y.m = 4
  <2>1. y = [v |-> v, c |-> c + 1, s |-> s, f |-> g, n |-> 0, m |-> 4]
    BY <1>3, <1>4, <1>5, <1>6 DEF Called
  <2>2. c + 1 \in Nat /\ 0 \in Nat /\ 4 \in 0 .. 6
    OBVIOUS
  <2> QED BY <2>1, <2>2 DEF Height
<1>8. p # <<>>
  <2>1. ASSUME p = <<>> PROVE FALSE
    <3>1. Runs(<<>>, b, z)
      BY <2>1
    <3>2. b = z
      BY <3>1, RunsEmpty, Zenon
    <3> QED BY <1>1, <3>2
  <2> QED BY <2>1
<1>9. PICK b2 \in Height : Effect(Head(p).sym, b, b2) /\ Runs(Tail(p), b2, z)
  BY <1>8, RunsFirst
<1>10. Bodyless(b, b2) /\ Head(p).sym = "possible_function_call"
  <2>1. /\ ~ Keeps(b, b2) /\ ~ Parenthesis(b, b2) /\ ~ GivesOffset(b, b2) /\ ~ ClosesCall(b, b2)
        /\ ~ LeavesHeader(b, b2) /\ ~ LeavesFor(b, b2) /\ ~ Asks(b, b2) /\ ~ Skips(b, b2)
        /\ ~ InCall(b, b2) /\ ~ EndsSkipped(b, b2) /\ ~ EndsCalled(b, b2)
    BY <1>1, SMTT(40) DEF Keeps, Parenthesis, GivesOffset, ClosesCall, LeavesHeader, LeavesFor,
       Asks, Skips, InCall, EndsSkipped, EndsCalled
  <2>2. \A t, k, dc, ds, dn : ~ Does(b, b2, t, k, dc, ds, dn)
    BY <1>1 DEF Does
  <2> QED BY <1>9, <2>1, <2>2, Zenon DEF Effect
<1>11. b2.v = b.v /\ b2.c = a.c /\ b2.s = a.s /\ b2.f = a.f /\ b2.n = a.n /\ b2.m = 5
  BY <1>1, <1>10 DEF Bodyless, With
<1>12. PICK q \in Seq(I) : q = Tail(p)
  <2>1. Tail(p) \in Seq(I)
    BY <1>8
  <2> QED BY <2>1, Zenon
<1>13. q # <<>>
  <2>1. ASSUME q = <<>> PROVE FALSE
    <3>1. Runs(<<>>, b2, z)
      BY <1>9, <1>12, <2>1
    <3>2. b2 = z
      BY <3>1, RunsEmpty, Zenon
    <3> QED BY <1>11, <3>2
  <2> QED BY <2>1
<1>14. PICK e \in Height : Effect(Head(q).sym, b2, e) /\ Runs(Tail(q), e, z)
  BY <1>9, <1>12, <1>13, RunsFirst, Zenon
<1>15. Head(q).sym = "cs_functioncall_end" /\ (EndsSkipped(b2, e) \/ EndsCalled(b2, e))
  BY <1>11, <1>14, BehindCall
<1>16. e = With(b2, Push("value", w), 0)
  <2>1. CASE EndsSkipped(b2, e)
    <3>1. PICK w2 \in Seq(Kind) : /\ b2.v = Push("offset", Push("skipped", w2))
                                  /\ e = With(b2, Push("value", w2), 0)
      BY <2>1 DEF EndsSkipped
    <3>2. w2 = w
      BY <1>1, <1>2, <1>11, <3>1, TwoKinds
    <3> QED BY <3>1, <3>2
  <2>2. CASE EndsCalled(b2, e)
    <3>1. PICK w2 \in Seq(Kind) : b2.v = Push("offset", Push("called", w2))
      BY <2>2 DEF EndsCalled
    <3>2. "skipped" = "called"
      BY <1>1, <1>2, <1>11, <3>1, TwoKinds
    <3> QED BY <3>2
  <2> QED BY <1>15, <2>1, <2>2
<1>17. e.v = Push("value", w) /\ e.c = c /\ e.s = s /\ e.f = f /\ e.n = n /\ e.m = 0
  BY <1>4, <1>11, <1>16 DEF With
<1>18. PICK y5 : y5 = With(y, y.v, 5)
  OBVIOUS
<1>19. /\ y5 \in Height /\ y5.v = v /\ y5.c = c + 1 /\ y5.s = s /\ y5.f = g /\ y5.n = 0
       /\ y5.m = 5
  <2>1. y.v \in Seq(Kind) /\ 5 \in 0 .. 6
    BY <1>7
  <2>2. y \in Height
    BY <1>7
  <2>3. y5 \in Height
    BY <1>18, <2>2, <2>1, WithType, Zenon
  <2>4. y5.v = y.v /\ y5.m = 5 /\ y5.c = y.c /\ y5.s = y.s /\ y5.f = y.f /\ y5.n = y.n
    BY <1>18 DEF With
  <2> QED BY <1>7, <2>3, <2>4
<1>20. Effect("possible_function_call", y, y5)
  <2>1. Bodyless(y, y5)
    BY <1>7, <1>18 DEF Bodyless
  <2> QED BY <2>1 DEF Effect, Inside
<1>21. Effect("cs_functioncall_end", y5, e)
  <2>1. EndsCalled(y5, e)
    BY <1>3, <1>5, <1>17, <1>19 DEF EndsCalled
  <2> QED BY <2>1 DEF Effect, Inside
<1>22. Runs(q, y5, z)
  BY <1>13, <1>14, <1>15, <1>19, <1>21, RunsJoin
<1>23. Runs(p, y, z)
  BY <1>7, <1>8, <1>10, <1>12, <1>20, <1>22, RunsJoin
<1> QED BY <1>6, <1>7, <1>23

\* What usort and array_walk do: they call a function for each element.
Walk == [i \in 1 .. Elements |-> "call_user_function"] \o <<"RETURN_TRUE">>

LEMMA WalkType ==
  /\ Walk \in Seq(Name)
  /\ \A i \in 1 .. Len(Walk) : Walk[i] \in {"call_user_function", "RETURN_TRUE"}
<1>1. PICK e \in Nat : e = Elements
  BY BoundAssumption
<1>2. PICK N : N = {"call_user_function", "RETURN_TRUE"}
  OBVIOUS
<1>3. "call_user_function" \in N /\ "RETURN_TRUE" \in N /\ N \subseteq Name
  BY <1>2 DEF Name
<1>4. [i \in 1 .. e |-> "call_user_function"] \in Seq(N) /\ <<"RETURN_TRUE">> \in Seq(N)
  BY <1>3
<1>5. ASSUME NEW p \in Seq(N), NEW q \in Seq(N) PROVE p \o q \in Seq(N)
  OBVIOUS
<1>6. Walk \in Seq(N)
  BY <1>1, <1>4, <1>5, Zenon DEF Walk
<1>7. ASSUME NEW w \in Seq(N)
      PROVE  w \in Seq(Name) /\ \A i \in 1 .. Len(w) : w[i] \in N
  BY <1>3
<1> QED BY <1>2, <1>6, <1>7, Zenon

LEMMA WalkRuns ==
  ASSUME NEW t \in TokenOrEOF, NEW a \in Height, a.m = 4
  PROVE  Symbols(Walk, t) \in Seq(Items(TokenOrEOF)) /\ Runs(Symbols(Walk, t), a, a)
<1>1. PICK w : w = Walk
  OBVIOUS
<1>2. w \in Seq(Name) /\ \A i \in 1 .. Len(w) : w[i] \in {"call_user_function", "RETURN_TRUE"}
  BY <1>1, WalkType, Zenon
<1>3. /\ Symbols(w, t) \in Seq(Items(TokenOrEOF)) /\ Len(Symbols(w, t)) = Len(w)
      /\ \A i \in 1 .. Len(w) : Symbols(w, t)[i] = [sym |-> w[i], tok |-> t]
  BY <1>2, SymbolsType
<1>4. PICK s : s = Symbols(w, t)
  OBVIOUS
<1>5. /\ s \in Seq(Items(TokenOrEOF)) /\ Len(s) = Len(w)
      /\ \A i \in 1 .. Len(w) : s[i] = [sym |-> w[i], tok |-> t]
  BY <1>3, <1>4, Zenon
<1>6. ASSUME NEW i \in 1 .. Len(s) PROVE Effect(s[i].sym, a, a)
  <2>1. s[i].sym \in {"call_user_function", "RETURN_TRUE"}
    <3>1. s[i] = [sym |-> w[i], tok |-> t]
      BY <1>5, Zenon
    <3>2. s[i].sym = w[i]
      BY <3>1
    <3>3. i \in 1 .. Len(w)
      BY <1>5, Zenon
    <3> QED BY <1>2, <3>2, <3>3, Zenon
  <2>2. InCall(a, a)
    BY DEF InCall
  <2> QED BY <2>1, <2>2 DEF Effect, Inside
<1>7. Runs(s, a, a)
  BY <1>5, <1>6, ConstantRun
<1> QED BY <1>1, <1>4, <1>5, <1>7, Zenon

\* The arguments are passed: the parser goes to the body of the function.
LEMMA PassedParts ==
  ASSUME cs_functioncall_post_variable_passing
  PROVE  /\ Running /\ parse # <<>> /\ Head(parse).sym = "cs_functioncall_post_variable_passing"
         /\ \/ values[2] = NoCall /\ UNCHANGED <<pos, yychar, css, function_state>>
            \/ /\ values[2] # NoCall /\ SaveFlag /\ function_state' = NewLevels(function_state)
               /\ IF values[2].type = "user" THEN seek_token(values[2].offset)
                  ELSE UNCHANGED <<pos, yychar>>
         /\ parse' = IF values[2].type = "internal" THEN Symbols(Walk, Tok) \o Tail(parse)
                     ELSE Tail(parse)
         /\ UNCHANGED <<tokens, shutdown, suspended, values, ExecuteFlag, Execute, status,
                        switch_stack, function_state_stack, function_table>>
BY Zenon DEF cs_functioncall_post_variable_passing, Walk

\* The flag is saved, and the levels of loops start anew.
LEMMA cs_functioncall_post_variable_passing_Keeps ==
  ASSUME IInv, cs_functioncall_post_variable_passing
  PROVE  IInv'
<1> DEFINE n == Len(tokens)
           x == "cs_functioncall_post_variable_passing"
<1>1. /\ Running /\ parse # <<>> /\ Head(parse).sym = x
      /\ \/ values[2] = NoCall /\ UNCHANGED <<pos, yychar, css, function_state>>
         \/ /\ values[2] # NoCall /\ SaveFlag /\ function_state' = NewLevels(function_state)
            /\ IF values[2].type = "user" THEN seek_token(values[2].offset)
               ELSE UNCHANGED <<pos, yychar>>
      /\ parse' = IF values[2].type = "internal" THEN Symbols(Walk, Tok) \o Tail(parse)
                  ELSE Tail(parse)
      /\ UNCHANGED <<tokens, shutdown, suspended, values, ExecuteFlag, Execute, status,
                     switch_stack, function_state_stack, function_table>>
  BY PassedParts, Zenon
<1>2. /\ \E U, a, b : Between(U, a, b)
      /\ Flowing /\ InputInv /\ css \in Seq(Flag) /\ function_state \in FunctionState
      /\ function_state_stack \in Seq(FunctionState) /\ status \in Statuses
      /\ n \in Nat /\ SymbolsOK(parse, n) /\ parse \in Seq(Items(TokenOrEOF))
      /\ Tail(parse) \in Seq(Items(TokenOrEOF))
  BY <1>1, SymbolBetween, Zenon
<1>3. PICK U, a, b : Between(U, a, b)
  BY <1>2, Zenon
<1>4. /\ a \in Height /\ b \in Height /\ Effect(x, a, b)
      /\ IsAt(a, values, css, switch_stack, function_state, function_state_stack, Execute, n)
      /\ Shape(U, b, Tail(parse), suspended) /\ WaitAt(U, suspended, n)
  BY <1>1, <1>3, Zenon DEF Between
<1>5. PICK w \in Seq(Kind) :
        /\ a.m = 3 /\ a.v = Push("offset", Push("call", w))
        /\ b = With(a, Push("offset", Push("skipped", w)), 6)
  BY <1>4, CallEffects DEF Skips
<1>6. /\ b.v = Push("offset", Push("skipped", w)) /\ b.c = a.c /\ b.s = a.s /\ b.f = a.f
      /\ b.n = a.n /\ b.m = 6
  BY <1>5 DEF With
<1>7. "offset" \in Kind /\ "call" \in Kind /\ "skipped" \in Kind /\ "called" \in Kind
  BY DEF Kind
<1>8. Conforms(values, Push("offset", Push("call", w)), n)
  BY <1>4, <1>5 DEF IsAt
<1>9. values[2] = NoCall \/ IsCall(values[2], n)
  <2>1. ValueIs("call", values[2], n)
    BY <1>7, <1>8, ConformsPop2
  <2> QED BY <2>1 DEF ValueIs
<1>10. SymbolsOK(Tail(parse), n) /\ Tok \in TokenOrEOF /\ Tok.offset \in 1 .. n - 1
  <2>1. x \notin Bare
    BY DEF Bare
  <2>2. Head(parse) \in Items(TokenOrEOF) /\ SymbolsOK(Tail(parse), n)
        /\ Head(parse).tok.offset \in 1 .. n - 1
    BY <1>1, <1>2, <2>1, SymbolsTail
  <2> QED BY <2>2 DEF Items, Tok
<1>11. Walk \in Seq(Name)
  BY WalkType
<1>12. SymbolsOK(parse', n)
  <2>1. SymbolsOK(Symbols(Walk, Tok) \o Tail(parse), n)
    BY <1>10, <1>11, SymbolsAdded
  <2> QED BY <1>1, <1>10, <2>1
<1>13. InputInv' /\ tokens' = tokens
  <2>1. UNCHANGED <<pos, yychar>> \/ \E off \in 1 .. n : seek_token(off)
    <3>1. IsCall(values[2], n) /\ values[2].type = "user" => values[2].offset \in 1 .. n
      BY DEF IsCall
    <3> QED BY <1>1, <1>9, <3>1, Zenon
  <2> QED BY <1>1, <1>2, <1>12, <2>1, InputMoved
<1>14. CASE values[2] = NoCall
  <2>1. /\ css' = css /\ function_state' = function_state /\ values' = values
        /\ UNCHANGED <<ExecuteFlag, Execute, status>> /\ suspended' = suspended
        /\ switch_stack' = switch_stack /\ function_state_stack' = function_state_stack
    BY <1>1, <1>14
  <2>2. parse' = Tail(parse)
    BY <1>1, <1>14 DEF NoCall
  <2>3. Flowing'
    BY <1>2, <2>1, EnteredFlow
  <2>4. Conforms(values, b.v, n)
    <3>1. ValueIs("skipped", values[2], n)
      BY <1>14 DEF ValueIs
    <3> QED BY <1>6, <1>7, <1>8, <3>1, Reconform
  <2>5. ~ Waiting(a, values) /\ ~ Waiting(b, values)
    BY <1>5, <1>6, <1>14 DEF Waiting
  <2>6. IsAt(b, values, css, switch_stack, function_state, function_state_stack, Execute, n)
    <3>1. Len(css) = b.c /\ function_state.loop_nest_level = b.n
      BY <1>4, <1>6 DEF IsAt
    <3> QED BY <1>4, <1>6, <2>4, <2>5, <3>1, IsAtOn
  <2>7. IsAt(b, values', css', switch_stack', function_state', function_state_stack', Execute', n)
    BY <2>1, <2>6
  <2>8. Shape(U, b, parse', suspended') /\ WaitAt(U, suspended', n)
    BY <1>4, <2>1, <2>2
  <2>9. StructInv'
    BY <1>13, <2>7, <2>8, StructOn
  <2> QED BY <1>13, <2>3, <2>9, IInvWhole
<1>15. CASE IsCall(values[2], n)
  <2>1. /\ values[2] # NoCall /\ SaveFlag /\ function_state' = NewLevels(function_state)
        /\ UNCHANGED <<ExecuteFlag, Execute, status>> /\ suspended' = suspended
        /\ switch_stack' = switch_stack /\ function_state_stack' = function_state_stack
        /\ values' = values
    BY <1>1, <1>15 DEF IsCall
  <2>2. PICK y : y = Called(a, w)
    OBVIOUS
  <2>3. /\ y.v = Push("offset", Push("called", w)) /\ y.c = a.c + 1 /\ y.s = a.s
        /\ y.f = Push(a.n, a.f) /\ y.n = 0 /\ y.m = 4
    BY <2>2 DEF Called
  <2>4. U \in Seq(Height) /\ Runs(Tail(parse), b, Bottom(U))
    BY <1>4 DEF Shape
  <2>5. Bottom(U).m = 0
    BY <2>4, BottomType
  <2>6. y \in Height /\ Runs(Tail(parse), y, Bottom(U))
    BY <1>2, <1>4, <1>5, <2>2, <2>4, <2>5, CallTaken, Zenon
  <2>7. Runs(parse', y, Bottom(U))
    <3>1. Symbols(Walk, Tok) \in Seq(Items(TokenOrEOF)) /\ Runs(Symbols(Walk, Tok), y, y)
      BY <1>10, <2>3, <2>6, WalkRuns
    <3>2. Runs(Symbols(Walk, Tok) \o Tail(parse), y, Bottom(U))
      BY <1>2, <2>6, <3>1, RunsOn
    <3> QED BY <1>1, <2>6, <3>2
  <2>8. Shape(U, y, parse', suspended')
    BY <1>4, <2>1, <2>6, <2>7 DEF Shape
  <2>9. Waiting(a, values) /\ ~ Waiting(y, values)
    BY <1>5, <2>1, <2>3 DEF Waiting
  <2>10. /\ Levels(function_state_stack) = y.f /\ Execute = TRUE /\ Len(css) = a.c
         /\ IsSeq(switch_stack) /\ Len(switch_stack) = y.s
    BY <1>4, <2>3, <2>9 DEF IsAt
  <2>11. Conforms(values, y.v, n)
    <3>1. ValueIs("called", values[2], n)
      BY <1>15 DEF ValueIs
    <3> QED BY <1>7, <1>8, <2>3, <3>1, Reconform
  <2>12. css' \in Seq(Flag) /\ Len(css') = Len(css) + 1
    BY <1>2, <2>1, FlagStack
  <2>13. function_state' \in FunctionState /\ function_state'.loop_nest_level = 0
    BY <1>2, <2>1, StateChanges
  <2>14. SHOULD_EXECUTE(ExecuteFlag, function_state') = SHOULD_EXECUTE(ExecuteFlag, function_state)
    <3>1. SHOULD_EXECUTE(ExecuteFlag, function_state) = TRUE
      BY <1>2, <2>10 DEF Flowing, ExecuteInSync
    <3>2. ExecuteFlag = "EXECUTE" /\ ~ function_state.returned
      BY <3>1 DEF SHOULD_EXECUTE
    <3>3. NewLevels(function_state).returned = function_state.returned
          /\ NewLevels(function_state).loop_change_type = "DO_NOTHING"
      BY <1>2 DEF NewLevels, NoChange, FunctionState
    <3>4. SHOULD_EXECUTE(ExecuteFlag, NewLevels(function_state)) = TRUE
      BY <3>2, <3>3 DEF SHOULD_EXECUTE
    <3> QED BY <2>1, <3>1, <3>4
  <2>15. Flowing'
    BY <1>2, <2>1, <2>12, <2>13, <2>14, EnteredFlow
  <2>16. IsAt(y, values, css', switch_stack, function_state', function_state_stack, Execute, n)
    BY <2>3, <2>9, <2>10, <2>11, <2>12, <2>13 DEF IsAt
  <2>17. IsAt(y, values', css', switch_stack', function_state', function_state_stack', Execute', n)
    BY <2>1, <2>16
  <2>18. WaitAt(U, suspended', n)
    BY <1>4, <2>1
  <2>19. StructInv'
    BY <1>13, <2>8, <2>17, <2>18, StructOn
  <2> QED BY <1>13, <2>15, <2>19, IInvWhole
<1> QED BY <1>9, <1>14, <1>15

\* The end of a call.
LEMMA EndParts ==
  ASSUME cs_functioncall_end
  PROVE  /\ Action("cs_functioncall_end") /\ UNCHANGED world
         /\ \E v : values' = Push(v, Pop(values, 2))
         /\ \/ values[2] = NoCall /\ UNCHANGED <<input, flow, stacks>>
            \/ /\ values[2] # NoCall /\ LeaveCall
               /\ seek_token(values[1] + 1) \/ UNCHANGED <<pos, yychar>>
               /\ DropFlag /\ SetFlow(SavedFlag, function_state_stack[1])
               /\ UNCHANGED <<tokens, shutdown, switch_stack>>
BY Zenon DEF cs_functioncall_end

\* The flag and the function state are restored, and the parser goes on behind the
\* arguments of the call.
LEMMA cs_functioncall_end_Keeps ==
  ASSUME IInv, cs_functioncall_end
  PROVE  IInv'
<1> DEFINE n == Len(tokens)
           x == "cs_functioncall_end"
<1>1. /\ Action(x) /\ UNCHANGED world
      /\ \E v : values' = Push(v, Pop(values, 2))
      /\ \/ values[2] = NoCall /\ UNCHANGED <<input, flow, stacks>>
         \/ /\ values[2] # NoCall /\ LeaveCall
            /\ seek_token(values[1] + 1) \/ UNCHANGED <<pos, yychar>>
            /\ DropFlag /\ SetFlow(SavedFlag, function_state_stack[1])
            /\ UNCHANGED <<tokens, shutdown, switch_stack>>
  BY EndParts, Zenon
<1>2. /\ \E U, a, b : Between(U, a, b)
      /\ Running /\ parse # <<>> /\ Head(parse).sym = x /\ parse' = Tail(parse)
      /\ suspended' = suspended /\ Flowing /\ InputInv
      /\ function_state \in FunctionState /\ css \in Seq(Flag)
      /\ function_state_stack \in Seq(FunctionState) /\ status \in Statuses /\ n \in Nat
  BY <1>1, ActionBetween, Zenon
<1>3. PICK U, a, b : Between(U, a, b)
  BY <1>2, Zenon
<1>4. /\ a \in Height /\ b \in Height /\ Effect(x, a, b)
      /\ IsAt(a, values, css, switch_stack, function_state, function_state_stack, Execute, n)
      /\ Shape(U, b, Tail(parse), suspended) /\ WaitAt(U, suspended, n)
  BY <1>2, <1>3, Zenon DEF Between
<1>5. EndsSkipped(a, b) \/ EndsCalled(a, b)
  BY <1>4, CallEffects, Zenon
<1>6. PICK v : values' = Push(v, Pop(values, 2))
  BY <1>1
<1>7. "offset" \in Kind /\ "called" \in Kind /\ "skipped" \in Kind /\ "value" \in Kind
  BY DEF Kind
<1>8. ASSUME NEW k \in Kind, NEW w \in Seq(Kind), a.v = Push("offset", Push(k, w)),
             b.v = Push("value", w)
      PROVE  Conforms(values', b.v, n) /\ values[1] \in 1 .. n - 1 /\ ValueIs(k, values[2], n)
  <2>1. Conforms(values, Push("offset", Push(k, w)), n)
    BY <1>4, <1>8 DEF IsAt
  <2>2. /\ Conforms(Pop(values, 2), w, n)
        /\ ValueIs("offset", values[1], n) /\ ValueIs(k, values[2], n)
    BY <1>7, <2>1, ConformsPop2
  <2>3. ValueIs("value", v, n)
    BY DEF ValueIs
  <2>4. Conforms(Push(v, Pop(values, 2)), Push("value", w), n)
    BY <1>7, <2>2, <2>3, ConformsPush
  <2> QED BY <1>6, <1>8, <2>2, <2>4 DEF ValueIs
<1>9. SymbolsOK(parse', n)
  <2>1. SymbolsOK(parse, n)
    BY <1>2, InputParts
  <2> QED BY <1>2, <2>1, SymbolsTail
<1>10. UNCHANGED <<function_table, status>>
  BY <1>1 DEF world
<1>11. ASSUME b.m = 0, InputInv', Flowing', tokens' = tokens,
              IsAt(b, values', css', switch_stack', function_state', function_state_stack',
                   Execute', n)
       PROVE  IInv'
  <2>1. Shape(U, b, parse', suspended') /\ WaitAt(U, suspended', n)
    BY <1>2, <1>4
  <2>2. StructInv'
    BY <1>11, <2>1, StructOn
  <2> QED BY <1>11, <2>2, IInvWhole
<1>12. CASE EndsSkipped(a, b)
  <2>1. PICK w \in Seq(Kind) :
          /\ a.m \in {0, 5} /\ a.v = Push("offset", Push("skipped", w))
          /\ b = With(a, Push("value", w), 0)
    BY <1>12 DEF EndsSkipped
  <2>2. b.v = Push("value", w) /\ b.c = a.c /\ b.s = a.s /\ b.f = a.f /\ b.n = a.n /\ b.m = 0
    BY <2>1 DEF With
  <2>3. Conforms(values', b.v, n) /\ ValueIs("skipped", values[2], n)
    BY <1>7, <1>8, <2>1, <2>2
  <2>4. values[2] = NoCall
    BY <2>3 DEF ValueIs
  <2>5. UNCHANGED <<input, flow, stacks>>
    BY <1>1, <2>4
  <2>6. Flowing' /\ function_state' = function_state /\ css' = css
        /\ switch_stack' = switch_stack /\ function_state_stack' = function_state_stack
        /\ Execute' = Execute
    BY <1>2, <1>10, <2>5, FlowStays
  <2>7. InputInv' /\ tokens' = tokens
    <3>1. UNCHANGED <<input, suspended, function_table>>
      BY <1>2, <1>10, <2>5
    <3> QED BY <1>2, <3>1, InputKept DEF input
  <2>8. ~ Waiting(a, values) /\ ~ Waiting(b, values')
    BY <2>1, <2>2 DEF Waiting
  <2>9. Len(css) = b.c /\ function_state.loop_nest_level = b.n
    BY <1>4, <2>2 DEF IsAt
  <2>10. IsAt(b, values', css, switch_stack, function_state, function_state_stack, Execute, n)
    BY <1>4, <2>2, <2>3, <2>8, <2>9, IsAtOn
  <2> QED BY <1>11, <2>2, <2>6, <2>7, <2>10
<1>13. CASE EndsCalled(a, b)
  <2>1. PICK w \in Seq(Kind) :
          /\ a.m \in {0, 5} /\ a.v = Push("offset", Push("called", w))
          /\ a.n = 0 /\ a.f = Push(b.n, b.f) /\ a.c = b.c + 1
          /\ b.v = Push("value", w) /\ b.s = a.s /\ b.m = 0
    BY <1>13 DEF EndsCalled
  <2>2. Conforms(values', b.v, n) /\ values[1] \in 1 .. n - 1 /\ ValueIs("called", values[2], n)
    BY <1>7, <1>8, <2>1
  <2>3. values[2] # NoCall
    BY <2>2 DEF ValueIs, IsCall
  <2>4. /\ LeaveCall /\ (seek_token(values[1] + 1) \/ UNCHANGED <<pos, yychar>>)
        /\ DropFlag /\ SetFlow(SavedFlag, function_state_stack[1])
        /\ tokens' = tokens /\ shutdown' = shutdown /\ switch_stack' = switch_stack
    BY <1>1, <2>3
  <2>5. ~ Waiting(a, values) /\ ~ Waiting(b, values')
    BY <2>1 DEF Waiting
  <2>6. /\ Levels(function_state_stack) = a.f /\ IsSeq(switch_stack) /\ Len(css) = a.c
        /\ Len(switch_stack) = b.s
    BY <1>4, <2>1, <2>5 DEF IsAt
  <2>7. PICK k \in Nat, f \in Seq(Nat), c \in Nat : k = b.n /\ f = b.f /\ c = b.c
    BY <1>4 DEF Height
  <2>8. Levels(function_state_stack) = Push(k, f)
    BY <2>1, <2>6, <2>7, Zenon
  <2>9. PICK fs \in FunctionState : fs = function_state_stack[1] /\ fs.loop_nest_level = k
    BY <1>2, <2>8, LevelsPop
  <2>10. function_state_stack' \in Seq(FunctionState) /\ Levels(function_state_stack') = f
    <3>1. Pop(function_state_stack, 1) \in Seq(FunctionState)
          /\ Levels(Pop(function_state_stack, 1)) = f
      BY <1>2, <2>8, LevelsPop
    <3> QED BY <2>4, <3>1 DEF LeaveCall
  <2>11. css # <<>>
    <3>1. Len(css) # 0
      BY <2>1, <2>6, <2>7
    <3> QED BY <3>1
  <2>12. SavedFlag \in Flag /\ css' \in Seq(Flag) /\ Len(css') = c
    <3>1. SavedFlag \in Flag /\ css' \in Seq(Flag) /\ Len(css') = Len(css) - 1
      BY <1>2, <2>4, <2>11, FlagStack
    <3> QED BY <2>1, <2>6, <2>7, <3>1
  <2>13. Flowing' /\ function_state' = fs
    <3>1. status' \in Statuses
      BY <1>2, <1>10
    <3> QED BY <2>4, <2>9, <2>10, <2>12, <3>1, FlowSet
  <2>14. InputInv'
    <3>1. UNCHANGED <<pos, yychar>> \/ \E off \in 1 .. Len(tokens) : seek_token(off)
      <4>1. values[1] + 1 \in 1 .. Len(tokens)
        BY <1>2, <2>2
      <4> QED BY <2>4, <4>1
    <3>2. UNCHANGED <<tokens, shutdown, suspended, function_table>>
      BY <1>2, <1>10, <2>4
    <3> QED BY <1>2, <1>9, <3>1, <3>2, InputMoved
  <2>15. IsAt(b, values', css', switch_stack', function_state', function_state_stack', Execute', n)
    BY <2>2, <2>4, <2>5, <2>6, <2>7, <2>9, <2>10, <2>12, <2>13 DEF IsAt
  <2> QED BY <1>11, <2>1, <2>4, <2>13, <2>14, <2>15
<1> QED BY <1>5, <1>12, <1>13

\* The walk over the array is at its end.
LEMMA RETURN_TRUE_Keeps ==
  ASSUME IInv, RETURN_TRUE
  PROVE  IInv'
<1> DEFINE n == Len(tokens)
<1>1. /\ Action("RETURN_TRUE") /\ UNCHANGED <<input, flow, stacks, function_table, status>>
      /\ values' = values
  BY DEF RETURN_TRUE
<1>2. /\ \E U, a, b : Between(U, a, b)
      /\ Running /\ parse # <<>> /\ Head(parse).sym = "RETURN_TRUE" /\ parse' = Tail(parse)
      /\ suspended' = suspended /\ Flowing /\ InputInv
      /\ css \in Seq(Flag) /\ function_state_stack \in Seq(FunctionState) /\ status \in Statuses
  BY <1>1, ActionBetween, Zenon
<1>3. PICK U, a, b : Between(U, a, b)
  BY <1>2, Zenon
<1>4. /\ Effect("RETURN_TRUE", a, b)
      /\ IsAt(a, values, css, switch_stack, function_state, function_state_stack, Execute, n)
      /\ Shape(U, b, Tail(parse), suspended) /\ WaitAt(U, suspended, n)
  BY <1>2, <1>3, Zenon DEF Between
<1>5. b = a
  BY <1>4, CallEffects
<1>6. Flowing' /\ function_state' = function_state /\ css' = css
      /\ switch_stack' = switch_stack /\ function_state_stack' = function_state_stack
      /\ Execute' = Execute
  BY <1>1, <1>2, FlowStays
<1>7. InputInv' /\ tokens' = tokens
  <2>1. UNCHANGED <<input, suspended, function_table>>
    BY <1>1, <1>2
  <2> QED BY <1>2, <2>1, InputKept DEF input
<1>8. StructInv'
  <2>1. IsAt(b, values', css', switch_stack', function_state', function_state_stack', Execute', n)
    BY <1>1, <1>4, <1>5, <1>6
  <2>2. Shape(U, b, parse', suspended') /\ WaitAt(U, suspended', n)
    BY <1>2, <1>4
  <2> QED BY <1>7, <2>1, <2>2, StructOn
<1> QED BY <1>6, <1>7, <1>8, IInvWhole

-----------------------------------------------------------------------------
(* call_user_function *)

\* The bottom of a parser that call_user_function starts.
LEMMA UnderType ==
  ASSUME NEW u \in Height
  PROVE  /\ Under(u) \in Height /\ Under(u).m = 0 /\ Under(u).v = <<>> /\ Under(u).c = u.c + 1
         /\ Under(u).s = u.s /\ Under(u).f = Push(0, u.f) /\ Under(u).n = 0
         /\ u.c \in Nat /\ u.f \in Seq(Nat)
<1>1. PICK f \in Seq(Nat), c \in Nat, s \in Nat : f = u.f /\ c = u.c /\ s = u.s
  BY DEF Height
<1>2. PICK g \in Seq(Nat) : g = Push(0, f)
  <2>1. Push(0, f) \in Seq(Nat)
    BY DEF Push
  <2> QED BY <2>1, Zenon
<1>3. PICK y : y = Under(u)
  OBVIOUS
<1>4. y = [v |-> <<>>, c |-> c + 1, s |-> s, f |-> g, n |-> 0, m |-> 0]
  BY <1>1, <1>2, <1>3 DEF Under
<1>5. <<>> \in Seq(Kind) /\ c + 1 \in Nat /\ 0 \in Nat /\ 0 \in 0 .. 6
  OBVIOUS
<1>6. y \in Height
  BY <1>4, <1>5 DEF Height
<1> QED BY <1>1, <1>2, <1>3, <1>4, <1>6

\* What a script, and a function called by call_user_function, begin with.
Start == Symbols(<<"statement_list", "EOF">>, EOF)

\* It starts, and ends, with nothing of its own.
LEMMA Starting ==
  ASSUME NEW n
  PROVE  /\ SymbolsOK(Start, n) /\ Start # <<>> /\ Start \in Seq(Items(TokenOrEOF))
         /\ \A a \in Height : a.m = 0 => Runs(Start, a, a)
<1>1. PICK s : s = Start
  OBVIOUS
<1>2. PICK t : t = EOF /\ t \in TokenOrEOF
  BY Zenon DEF TokenOrEOF
<1>3. PICK i1, i2 : i1 = [sym |-> "statement_list", tok |-> t] /\ i2 = [sym |-> "EOF", tok |-> t]
  OBVIOUS
<1>4. i1 \in Items(TokenOrEOF) /\ i2 \in Items(TokenOrEOF)
  <2>1. "statement_list" \in Name \cup {"EOF"} /\ "EOF" \in Name \cup {"EOF"}
    <3>1. "statement_list" \in Name
      BY Zenon DEF Name, Idle
    <3> QED BY <3>1
  <2>2. t \in TokenOrEOF
    BY <1>2, Zenon
  <2>3. [sym |-> "statement_list", tok |-> t] \in Items(TokenOrEOF)
    BY <2>1, <2>2, Zenon DEF Items
  <2>4. [sym |-> "EOF", tok |-> t] \in Items(TokenOrEOF)
    BY <2>1, <2>2, Zenon DEF Items
  <2> QED BY <1>3, <2>3, <2>4
<1>5. s = <<i1, i2>>
  <2>1. DOMAIN <<"statement_list", "EOF">> = 1 .. 2
    OBVIOUS
  <2>2. <<i1, i2>> = [i \in 1 .. 2 |-> [sym |-> <<"statement_list", "EOF">>[i], tok |-> t]]
    BY <1>3
  <2>3. s = [i \in 1 .. 2 |-> [sym |-> <<"statement_list", "EOF">>[i], tok |-> t]]
    BY <1>1, <1>2, <2>1, Zenon DEF Start, Symbols
  <2> QED BY <2>2, <2>3
<1>6. s \in Seq(Items(TokenOrEOF)) /\ Len(s) = 2 /\ s[1] = i1 /\ s[2] = i2 /\ s # <<>>
  BY <1>4, <1>5
<1>7. i1.sym = "statement_list" /\ i2.sym = "EOF"
  BY <1>3
<1>8. ASSUME NEW i \in 1 .. 2 PROVE s[i].sym \in Bare /\ (s[i].sym = "EOF" => i = 2)
  <2>1. CASE i = 1
    BY <1>6, <1>7, <2>1 DEF Bare
  <2>2. CASE i = 2
    BY <1>6, <1>7, <2>2 DEF Bare
  <2> QED BY <2>1, <2>2
<1>9. SymbolsOK(s, n)
  BY <1>6, <1>8 DEF SymbolsOK
<1>10. ASSUME NEW a \in Height, a.m = 0 PROVE Runs(s, a, a)
  <2>1. \A i \in 1 .. Len(s) : Effect(s[i].sym, a, a)
    <3>1. \A i \in 1 .. 2 : s[i].sym = "statement_list" \/ s[i].sym = "EOF"
      BY <1>6, <1>7
    <3>2. Effect("statement_list", a, a) /\ Effect("EOF", a, a)
      BY <1>10 DEF Effect, Keeps, Idle, Inside
    <3> QED BY <1>6, <3>1, <3>2
  <2> QED BY <1>6, <2>1, ConstantRun
<1> QED BY <1>1, <1>6, <1>9, <1>10

\* A parser more, and one less.
LEMMA ShapePush ==
  ASSUME NEW U, NEW a, NEW p, NEW su, Shape(U, a, p, su), IsSeq(su), NEW fr, fr.parse = p,
         NEW q, Runs(q, Under(a), Under(a))
  PROVE  Shape(Push(a, U), Under(a), q, Push(fr, su))
<1>1. a \in Height /\ U \in Seq(Height) /\ Len(U) = Len(su) /\ Runs(p, a, Bottom(U))
      /\ \A k \in 1 .. Len(U) : Runs(su[k].parse, U[k], Bottom(Pop(U, k)))
  BY DEF Shape
<1>2. PICK l \in Nat : l = Len(U)
  BY <1>1
<1>3. PICK V \in Seq(Height) : /\ V = Push(a, U) /\ Len(V) = l + 1 /\ V[1] = a /\ V # <<>>
                               /\ \A k \in 1 .. l : V[k + 1] = U[k]
                               /\ Pop(V, 1) = U
  <2>1. /\ Push(a, U) \in Seq(Height) /\ Len(Push(a, U)) = l + 1 /\ Push(a, U)[1] = a
        /\ Push(a, U) # <<>> /\ \A k \in 1 .. l : Push(a, U)[k + 1] = U[k]
        /\ Pop(Push(a, U), 1) = U
    <3>1. a \in Height /\ U \in Seq(Height)
      BY <1>1, Zenon
    <3>2. IsSeq(U)
      BY <3>1, Zenon DEF IsSeq
    <3>3. Push(a, U) \in Seq(Height)
      BY <3>1 DEF Push
    <3> QED BY <1>2, <3>2, <3>3, AnyPushed
  <2> QED BY <2>1, Zenon
<1>4. /\ IsSeq(Push(fr, su)) /\ Len(Push(fr, su)) = l + 1 /\ Push(fr, su)[1] = fr
      /\ \A k \in 1 .. l : Push(fr, su)[k + 1] = su[k]
  BY <1>1, <1>2, AnyPushed
<1>5. PICK su2 : su2 = Push(fr, su)
  OBVIOUS
<1>6. ASSUME NEW k \in 1 .. l + 1 PROVE Runs(su2[k].parse, V[k], Bottom(Pop(V, k)))
  <2>1. CASE k = 1
    BY <1>1, <1>3, <1>4, <1>5, <2>1
  <2>2. CASE k # 1
    <3>1. PICK j \in 1 .. l : k = j + 1
      <4>1. k - 1 \in 1 .. l /\ k = (k - 1) + 1
        BY <2>2
      <4> QED BY <4>1
    <3>2. Pop(V, j + 1) = Pop(Pop(V, 1), j)
      <4>1. j \in 0 .. Len(V) - 1
        BY <1>3
      <4> QED BY <4>1, PopMore
    <3>3. Runs(su[j].parse, U[j], Bottom(Pop(U, j)))
      BY <1>1, <1>2
    <3> QED BY <1>3, <1>4, <1>5, <3>1, <3>2, <3>3
  <2> QED BY <2>1, <2>2
<1>7. Bottom(V) = Under(a)
  BY <1>3 DEF Bottom
<1>8. Under(a) \in Height
  BY <1>1, UnderType
<1> QED BY <1>3, <1>4, <1>5, <1>6, <1>7, <1>8 DEF Shape

LEMMA ShapePop ==
  ASSUME NEW U, NEW a, NEW su, Shape(U, a, <<>>, su), IsSeq(su), su # <<>>
  PROVE  /\ U[1] \in Height /\ a = Under(U[1]) /\ Shape(Pop(U, 1), U[1], su[1].parse, Pop(su, 1))
         /\ 1 \in 1 .. Len(U) /\ Len(U) = Len(su) /\ Len(su) \in Nat
<1>1. U \in Seq(Height) /\ Len(U) = Len(su) /\ Runs(<<>>, a, Bottom(U))
      /\ \A k \in 1 .. Len(U) : Runs(su[k].parse, U[k], Bottom(Pop(U, k)))
  BY DEF Shape
<1>2. Len(su) # 0 /\ Len(su) \in Nat
  BY DEF IsSeq
<1>3. PICK l \in Nat : Len(U) = l + 1 /\ Len(su) = l + 1
  <2>1. Len(su) - 1 \in Nat /\ Len(su) = (Len(su) - 1) + 1
    BY <1>2
  <2> QED BY <1>1, <2>1
<1>4. U # <<>> /\ U[1] \in Height
  BY <1>1, <1>3
<1>5. a = Under(U[1])
  <2>1. a = Bottom(U)
    BY <1>1, RunsEmpty, Zenon
  <2> QED BY <1>4, <2>1 DEF Bottom
<1>6. PICK V \in Seq(Height) : /\ V = Pop(U, 1) /\ Len(V) = l
                               /\ \A k \in 1 .. l : V[k] = U[k + 1]
  <2>1. 1 \in 0 .. Len(U) /\ Len(U) - 1 = l
    BY <1>3
  <2>2. Pop(U, 1) \in Seq(Height) /\ Len(Pop(U, 1)) = l
        /\ \A k \in 1 .. l : Pop(U, 1)[k] = U[k + 1]
    BY <1>1, <2>1, Popped
  <2> QED BY <2>2, Zenon
<1>7. /\ IsSeq(Pop(su, 1)) /\ Len(Pop(su, 1)) = l /\ \A k \in 1 .. l : Pop(su, 1)[k] = su[k + 1]
  <2>1. 1 <= Len(su) /\ Len(su) - 1 = l
    BY <1>3
  <2> QED BY <2>1, AnyPopped, ZenonT(60)
<1>8. PICK su2 : su2 = Pop(su, 1)
  OBVIOUS
<1>9. ASSUME NEW k \in 1 .. l PROVE Runs(su2[k].parse, V[k], Bottom(Pop(V, k)))
  <2>1. k + 1 \in 1 .. Len(U) /\ k \in 0 .. Len(U) - 1
    BY <1>3
  <2>2. Pop(U, k + 1) = Pop(Pop(U, 1), k)
    BY <1>1, <2>1, PopMore
  <2>3. Runs(su[k + 1].parse, U[k + 1], Bottom(Pop(U, k + 1)))
    BY <1>1, <2>1
  <2> QED BY <1>6, <1>7, <1>8, <2>2, <2>3
<1>10. Runs(su[1].parse, U[1], Bottom(V))
  <2>1. 1 \in 1 .. Len(U)
    BY <1>3
  <2> QED BY <1>1, <1>6, <2>1
<1>11. Shape(V, U[1], su[1].parse, su2)
  BY <1>4, <1>6, <1>7, <1>8, <1>9, <1>10 DEF Shape
<1>12. 1 \in 1 .. Len(U)
  BY <1>3
<1> QED BY <1>1, <1>2, <1>4, <1>5, <1>6, <1>8, <1>11, <1>12

\* What waits for the parser, and what it finds again.
LEMMA WaitPush ==
  ASSUME NEW U \in Seq(Height), NEW su, IsSeq(su), Len(U) = Len(su), NEW n, WaitAt(U, su, n),
         NEW a \in Height, a.m = 4, NEW fr, Conforms(fr.values, a.v, n),
         fr.function_state.loop_nest_level = a.n
  PROVE  WaitAt(Push(a, U), Push(fr, su), n)
<1>1. PICK l \in Nat : l = Len(U)
  OBVIOUS
<1>2. PICK V : V = Push(a, U)
  OBVIOUS
<1>3. Len(V) = l + 1 /\ V[1] = a /\ \A k \in 1 .. l : V[k + 1] = U[k]
  <2>1. IsSeq(U)
    BY Zenon DEF IsSeq
  <2> QED BY <1>1, <1>2, <2>1, AnyPushed
<1>4. PICK su2 : su2 = Push(fr, su)
  OBVIOUS
<1>5. su2[1] = fr /\ \A k \in 1 .. l : su2[k + 1] = su[k]
  BY <1>1, <1>4, AnyPushed
<1>6. ASSUME NEW k \in 1 .. l + 1
      PROVE  /\ V[k].m = 4 /\ Conforms(su2[k].values, V[k].v, n)
             /\ su2[k].function_state.loop_nest_level = V[k].n
  <2>1. CASE k = 1
    BY <1>3, <1>5, <2>1
  <2>2. CASE k # 1
    <3>1. PICK j \in 1 .. l : k = j + 1
      <4>1. k - 1 \in 1 .. l /\ k = (k - 1) + 1
        BY <2>2
      <4> QED BY <4>1
    <3>2. /\ U[j].m = 4 /\ Conforms(su[j].values, U[j].v, n)
          /\ su[j].function_state.loop_nest_level = U[j].n
      BY <1>1 DEF WaitAt
    <3> QED BY <1>3, <1>5, <3>1, <3>2
  <2> QED BY <2>1, <2>2
<1> QED BY <1>2, <1>3, <1>4, <1>6 DEF WaitAt

LEMMA WaitPop ==
  ASSUME NEW U \in Seq(Height), NEW su, IsSeq(su), Len(U) = Len(su), NEW n, WaitAt(U, su, n),
         1 \in 1 .. Len(U)
  PROVE  /\ WaitAt(Pop(U, 1), Pop(su, 1), n)
         /\ U[1].m = 4 /\ Conforms(su[1].values, U[1].v, n)
         /\ su[1].function_state.loop_nest_level = U[1].n
<1>1. PICK l \in Nat : l = Len(U)
  OBVIOUS
<1>2. 1 \in 0 .. Len(U) /\ 1 <= Len(su) /\ 1 \in Nat
  BY <1>1
<1>3. PICK V : V = Pop(U, 1)
  OBVIOUS
<1>4. Len(V) = l - 1 /\ \A k \in 1 .. l - 1 : V[k] = U[k + 1]
  BY <1>1, <1>2, <1>3, Popped
<1>5. PICK su2 : su2 = Pop(su, 1)
  OBVIOUS
<1>6. \A k \in 1 .. l - 1 : su2[k] = su[k + 1]
  BY <1>1, <1>2, <1>5, AnyPopped, ZenonT(60)
<1>7. ASSUME NEW k \in 1 .. l - 1
      PROVE  /\ V[k].m = 4 /\ Conforms(su2[k].values, V[k].v, n)
             /\ su2[k].function_state.loop_nest_level = V[k].n
  <2>1. k + 1 \in 1 .. Len(U)
    BY <1>1
  <2> QED BY <1>4, <1>6, <2>1 DEF WaitAt
<1>8. WaitAt(V, su2, n)
  BY <1>4, <1>7 DEF WaitAt
<1> QED BY <1>3, <1>5, <1>8 DEF WaitAt

\* What call_user_function keeps, and phpparse restores.
LEMMA FrameKept ==
  ASSUME InputInv, FlowInv, NEW n \in Nat, n = Len(tokens), parse # <<>>
  PROVE  FrameOK(Frame, n)
<1>1. /\ SymbolsOK(Tail(parse), n) /\ LookaheadOK(yychar, n) /\ PlaceOK(pos, yychar, parse, n)
      /\ shutdown \in Shutdown
  BY InputParts, SymbolsTail
<1>2. ExecuteFlag \in Flag /\ function_state \in FunctionState
  BY DEF FlowInv
<1>3. PICK fr : fr = Frame
  OBVIOUS
<1>4. /\ fr.parse = Tail(parse) /\ fr.yychar = yychar /\ fr.return_offset = pos - 1
      /\ fr.ExecuteFlag = ExecuteFlag /\ fr.function_state = function_state
      /\ fr.shutdown = shutdown
  BY <1>3 DEF Frame
<1>5. PlaceOK(fr.return_offset + 1, fr.yychar, fr.parse, n)
  <2>1. fr.return_offset + 1 = pos
    BY <1>1, <1>4 DEF PlaceOK
  <2> QED BY <1>1, <1>4, <2>1 DEF PlaceOK
<1>6. FrameOK(fr, n)
  BY <1>1, <1>2, <1>4, <1>5 DEF FrameOK
<1> QED BY <1>3, <1>6

LEMMA FramesPush ==
  ASSUME NEW su, NEW n, FramesOK(su, n), NEW fr, FrameOK(fr, n)
  PROVE  FramesOK(Push(fr, su), n)
<1>1. IsSeq(su) /\ \A k \in 1 .. Len(su) : FrameOK(su[k], n)
  BY DEF FramesOK
<1>2. PICK l \in Nat : l = Len(su)
  BY <1>1, AnyPushed
<1>3. PICK q : q = Push(fr, su)
  OBVIOUS
<1>4. IsSeq(q) /\ Len(q) = l + 1 /\ q[1] = fr /\ \A k \in 1 .. l : q[k + 1] = su[k]
  BY <1>1, <1>2, <1>3, AnyPushed
<1>5. ASSUME NEW k \in 1 .. l + 1 PROVE FrameOK(q[k], n)
  <2>1. CASE k = 1
    BY <1>4, <2>1
  <2>2. CASE k # 1
    <3>1. PICK j \in 1 .. l : k = j + 1
      <4>1. k - 1 \in 1 .. l /\ k = (k - 1) + 1
        BY <2>2
      <4> QED BY <4>1
    <3> QED BY <1>1, <1>2, <1>4, <3>1
  <2> QED BY <2>1, <2>2
<1> QED BY <1>3, <1>4, <1>5 DEF FramesOK

LEMMA FramesPop ==
  ASSUME NEW su, NEW n, FramesOK(su, n), su # <<>>
  PROVE  FrameOK(su[1], n) /\ FramesOK(Pop(su, 1), n) /\ IsSeq(su)
<1>1. IsSeq(su) /\ \A k \in 1 .. Len(su) : FrameOK(su[k], n)
  BY SMTT(40) DEF FramesOK
<1>2. PICK l \in Nat : Len(su) = l + 1
  <2>1. Len(su) \in Nat /\ Len(su) # 0
    BY <1>1 DEF IsSeq
  <2>2. Len(su) - 1 \in Nat /\ Len(su) = (Len(su) - 1) + 1
    BY <2>1
  <2> QED BY <2>2, ZenonT(60)
<1>3. PICK q : q = Pop(su, 1)
  OBVIOUS
<1>4. IsSeq(q) /\ Len(q) = l /\ \A k \in 1 .. l : q[k] = su[k + 1]
  <2>1. 1 <= Len(su) /\ Len(su) - 1 = l
    BY <1>2
  <2> QED BY <1>1, <1>3, <2>1, AnyPopped, ZenonT(60)
<1>5. ASSUME NEW k \in 1 .. l PROVE FrameOK(q[k], n)
  <2>1. k + 1 \in 1 .. Len(su)
    BY <1>2
  <2> QED BY <1>1, <1>4, <2>1
<1>6. 1 \in 1 .. Len(su)
  BY <1>2
<1> QED BY <1>1, <1>3, <1>4, <1>5, <1>6 DEF FramesOK

\* The state of a function that is being entered.
Entering == [NewLevels(function_state) EXCEPT !.returned = FALSE]

\* A parser is started within the parser.
LEMMA CalledParts ==
  ASSUME call_user_function
  PROVE  /\ At({"call_user_function"})
         /\ \/ /\ parse' = Tail(parse)
               /\ UNCHANGED <<input, values, suspended, flow, stacks, world>>
            \/ /\ Tok.tag \in DOMAIN function_table
               /\ suspended' = Push(Frame, suspended) /\ shutdown' = "NO"
               /\ tokens' = tc_set_token(function_table[Tok.tag], "IC_FUNCTION")
               /\ function_state_stack' = Push(Entering, function_state_stack)
               /\ css' = Push("EXECUTE", css)
               /\ SetFlow("EXECUTE", [Entering EXCEPT !.type = "user"])
               /\ pos' = function_table[Tok.tag] /\ yychar' = EMPTY
               /\ parse' = Start /\ values' = <<>>
               /\ UNCHANGED <<switch_stack, function_table, status>>
BY Zenon DEF call_user_function, Entering, EnterCall, Start

\* The old one waits at the place of the call.
LEMMA call_user_function_Keeps ==
  ASSUME IInv, call_user_function
  PROVE  IInv'
<1> DEFINE n == Len(tokens)
           x == "call_user_function"
<1>1. Running /\ parse # <<>> /\ Head(parse).sym = x
  BY CalledParts DEF At
<1>2. /\ \E U, a, b : Between(U, a, b)
      /\ Flowing /\ InputInv /\ css \in Seq(Flag) /\ function_state \in FunctionState
      /\ function_state_stack \in Seq(FunctionState) /\ status \in Statuses
      /\ n \in Nat /\ SymbolsOK(parse, n) /\ parse \in Seq(Items(TokenOrEOF))
      /\ Tail(parse) \in Seq(Items(TokenOrEOF))
  BY <1>1, SymbolBetween, Zenon
<1>3. PICK U, a, b : Between(U, a, b)
  BY <1>2, Zenon
<1>4. /\ a \in Height /\ Effect(x, a, b)
      /\ IsAt(a, values, css, switch_stack, function_state, function_state_stack, Execute, n)
      /\ Shape(U, b, Tail(parse), suspended) /\ WaitAt(U, suspended, n)
  BY <1>1, <1>3, Zenon DEF Between
<1>5. a.m = 4 /\ b = a
  BY <1>4, CallEffects, Zenon
<1>6. CASE parse' = Tail(parse) /\ UNCHANGED <<input, values, suspended, flow, stacks, world>>
  <2>1. Flowing' /\ function_state' = function_state /\ css' = css
        /\ switch_stack' = switch_stack /\ function_state_stack' = function_state_stack
        /\ Execute' = Execute
    BY <1>2, <1>6, FlowStays DEF world
  <2>2. InputInv' /\ tokens' = tokens
    <3>1. UNCHANGED <<input, suspended, function_table>>
      BY <1>6 DEF world
    <3> QED BY <1>1, <1>2, <1>6, <3>1, InputKept DEF input
  <2>3. IsAt(b, values', css', switch_stack', function_state', function_state_stack', Execute', n)
    BY <1>4, <1>5, <1>6, <2>1
  <2>4. Shape(U, b, parse', suspended') /\ WaitAt(U, suspended', n)
    BY <1>4, <1>6
  <2>5. StructInv'
    BY <2>2, <2>3, <2>4, StructOn
  <2> QED BY <2>1, <2>2, <2>5, IInvWhole
<1>7. CASE /\ Tok.tag \in DOMAIN function_table
           /\ suspended' = Push(Frame, suspended) /\ shutdown' = "NO"
           /\ tokens' = tc_set_token(function_table[Tok.tag], "IC_FUNCTION")
           /\ function_state_stack' = Push(Entering, function_state_stack)
           /\ css' = Push("EXECUTE", css)
           /\ SetFlow("EXECUTE", [Entering EXCEPT !.type = "user"])
           /\ pos' = function_table[Tok.tag] /\ yychar' = EMPTY
           /\ parse' = Start /\ values' = <<>>
           /\ UNCHANGED <<switch_stack, function_table, status>>
  <2>1. PICK off \in 1 .. n - 1 : off = function_table[Tok.tag]
    <3>1. TableOK(function_table, n)
      BY <1>2, InputParts
    <3> QED BY <1>7, <3>1 DEF TableOK
  <2>2. TokensOK(tokens', n)
    <3>1. TokensOK(tokens, n) /\ "IC_FUNCTION" \in Turnable
      BY <1>2, InputParts DEF Turnable
    <3> QED BY <1>2, <1>7, <2>1, <3>1, TokenChanged DEF tc_set_token
  <2>3. FramesOK(suspended', n)
    <3>1. FlowInv
      BY <1>2, Zenon DEF Flowing
    <3>2. FrameOK(Frame, n) /\ FramesOK(suspended, n)
      BY <1>1, <1>2, <3>1, FrameKept, InputParts
    <3> QED BY <1>7, <3>2, FramesPush
  <2>4. SymbolsOK(parse', n)
    BY <1>7, Starting
  <2>5. InputInv' /\ Len(tokens') = n
    <3>1. Len(tokens') = n
      BY <2>2 DEF TokensOK
    <3>2. LookaheadOK(yychar', n) /\ PlaceOK(pos', yychar', parse', n)
      BY <1>2, <1>7, <2>1 DEF LookaheadOK, PlaceOK
    <3>3. shutdown' \in Shutdown
      BY <1>7 DEF Shutdown
    <3>4. TableOK(function_table', n)
      BY <1>2, <1>7, InputParts
    <3> QED BY <2>2, <2>3, <2>4, <3>1, <3>2, <3>3, <3>4, Zenon DEF InputInv
  <2>6. PICK fs : fs = Entering
    OBVIOUS
  <2>7. fs \in FunctionState /\ fs.loop_nest_level = 0
    <3>1. NewLevels(function_state) \in FunctionState
          /\ NewLevels(function_state).loop_nest_level = 0
      BY <1>2, StateChanges
    <3> QED BY <2>6, <3>1 DEF Entering, FunctionState
  <2>8. PICK gs : gs = [fs EXCEPT !.type = "user"]
    OBVIOUS
  <2>9. gs \in FunctionState /\ gs.loop_nest_level = 0
    BY <2>7, <2>8 DEF FunctionState
  <2>10. /\ function_state_stack' \in Seq(FunctionState)
         /\ Levels(function_state_stack') = Push(0, Levels(function_state_stack))
    BY <1>2, <1>7, <2>6, <2>7, LevelsPush
  <2>11. css' \in Seq(Flag) /\ Len(css') = Len(css) + 1
    <3>1. "EXECUTE" \in Flag
      BY DEF Flag
    <3> QED BY <1>2, <1>7, <3>1, Pushed
  <2>12. Flowing' /\ function_state' = gs
    <3>1. "EXECUTE" \in Flag
      BY DEF Flag
    <3>2. SetFlow("EXECUTE", gs) /\ status' \in Statuses
      BY <1>2, <1>7, <2>6, <2>8
    <3> QED BY <2>9, <2>10, <2>11, <3>1, <3>2, FlowSet
  <2>13. ~ Waiting(a, values) /\ ~ Waiting(Under(a), <<>>)
    <3>1. Under(a).m = 0
      BY <1>4, UnderType
    <3> QED BY <1>5, <3>1 DEF Waiting
  <2>14. /\ Conforms(values, a.v, n) /\ IsSeq(switch_stack) /\ Len(css) = a.c
         /\ Len(switch_stack) = a.s /\ function_state.loop_nest_level = a.n
         /\ Levels(function_state_stack) = a.f
    BY <1>4, <2>13 DEF IsAt
  <2>15. PICK z \in Height : /\ z = Under(a) /\ z.m = 0 /\ z.v = <<>> /\ z.c = a.c + 1
                             /\ z.s = a.s /\ z.f = Push(0, a.f) /\ z.n = 0
    BY <1>4, UnderType
  <2>16. IsAt(z, values', css', switch_stack', function_state', function_state_stack', Execute', n)
    <3>1. Conforms(<<>>, <<>>, n)
      <4>1. <<>> \in Seq({}) /\ Len(<<>>) = 0
        OBVIOUS
      <4>2. IsSeq(<<>>)
        BY <4>1 DEF IsSeq
      <4> QED BY <4>1, <4>2 DEF Conforms
    <3>2. values' = <<>> /\ switch_stack' = switch_stack
      BY <1>7
    <3>3. ~ Waiting(z, <<>>)
      BY <2>13, <2>15
    <3>4. Len(css') = z.c /\ Len(switch_stack) = z.s /\ function_state'.loop_nest_level = z.n
          /\ Levels(function_state_stack') = z.f
      BY <2>9, <2>10, <2>11, <2>12, <2>14, <2>15
    <3> QED BY <2>14, <2>15, <3>1, <3>2, <3>3, <3>4 DEF IsAt
  <2>17. PICK fr : /\ fr = Frame /\ fr.parse = Tail(parse) /\ fr.values = values
                   /\ fr.function_state = function_state
    <3>1. PICK fr : fr = Frame
      OBVIOUS
    <3>2. fr.parse = Tail(parse) /\ fr.values = values /\ fr.function_state = function_state
      BY <3>1 DEF Frame
    <3> QED BY <3>1, <3>2, Zenon
  <2>18. IsSeq(suspended)
    BY <1>2, InputParts DEF FramesOK
  <2>19. Shape(Push(a, U), z, parse', suspended')
    <3>1. Runs(Start, z, z)
      BY <2>15, Starting
    <3> QED BY <1>4, <1>5, <1>7, <2>15, <2>17, <2>18, <3>1, ShapePush
  <2>20. WaitAt(Push(a, U), suspended', n)
    <3>1. U \in Seq(Height) /\ Len(U) = Len(suspended)
      BY <1>4 DEF Shape
    <3> QED BY <1>4, <1>5, <1>7, <2>14, <2>17, <2>18, <3>1, WaitPush
  <2>21. StructInv'
    BY <2>5, <2>16, <2>19, <2>20, StructOn
  <2> QED BY <2>5, <2>12, <2>21, IInvWhole
<1> QED BY <1>6, <1>7, CalledParts

\* And goes on there.
LEMMA phpparse_returns_Keeps ==
  ASSUME IInv, phpparse_returns
  PROVE  IInv'
<1> DEFINE n == Len(tokens)
<1>1. PICK fr : fr = suspended[1]
  OBVIOUS
<1>2. /\ Running /\ parse = <<>> /\ suspended # <<>>
      /\ suspended' = Pop(suspended, 1) /\ LeaveCall /\ DropFlag
      /\ pos' = fr.return_offset + 1 /\ SetFlow(fr.ExecuteFlag, fr.function_state)
      /\ shutdown' = fr.shutdown /\ parse' = fr.parse /\ values' = fr.values
      /\ yychar' = fr.yychar
      /\ UNCHANGED <<tokens, switch_stack, function_table, status>>
  BY <1>1 DEF phpparse_returns, world
<1>3. Flowing /\ InputInv /\ StructInv
  BY <1>2, IInvParts DEF IInv
<1>4. /\ css \in Seq(Flag) /\ function_state_stack \in Seq(FunctionState) /\ status \in Statuses
      /\ n \in Nat
  <2>1. /\ css \in Seq(Flag) /\ function_state_stack \in Seq(FunctionState) /\ status \in Statuses
    BY <1>3, Zenon DEF Flowing, FlowInv, Statuses
  <2> QED BY <1>3, <2>1, InputParts
<1>5. PICK U, a : /\ Shape(U, a, parse, suspended) /\ WaitAt(U, suspended, n)
                  /\ IsAt(a, values, css, switch_stack, function_state, function_state_stack,
                          Execute, n)
  BY <1>3, Zenon DEF StructInv
<1>6. FrameOK(fr, n) /\ FramesOK(suspended', n) /\ IsSeq(suspended)
  BY <1>1, <1>2, <1>3, InputParts, FramesPop
<1>7. PICK u \in Height : /\ u = U[1] /\ a = Under(u) /\ Shape(Pop(U, 1), u, parse', suspended')
  BY <1>1, <1>2, <1>5, <1>6, ShapePop
<1>8. /\ WaitAt(Pop(U, 1), suspended', n) /\ u.m = 4 /\ Conforms(values', u.v, n)
      /\ fr.function_state.loop_nest_level = u.n
  <2>1. 1 \in 1 .. Len(U) /\ Len(U) = Len(suspended)
    BY <1>2, <1>5, <1>6, ShapePop
  <2>2. U \in Seq(Height)
    BY <1>5 DEF Shape
  <2> QED BY <1>1, <1>2, <1>5, <1>6, <1>7, <2>1, <2>2, WaitPop
<1>9. InputInv'
  <2>1. /\ SymbolsOK(fr.parse, n) /\ LookaheadOK(fr.yychar, n)
        /\ PlaceOK(fr.return_offset + 1, fr.yychar, fr.parse, n) /\ fr.shutdown \in Shutdown
    BY <1>6 DEF FrameOK
  <2>2. TokensOK(tokens, n) /\ TableOK(function_table, n)
    BY <1>3, InputParts
  <2>3. /\ tokens' = tokens /\ function_table' = function_table
        /\ SymbolsOK(parse', n) /\ LookaheadOK(yychar', n) /\ PlaceOK(pos', yychar', parse', n)
        /\ shutdown' \in Shutdown
    BY <1>2, <2>1
  <2> QED BY <1>6, <2>2, <2>3, Zenon DEF InputInv
<1>10. /\ a.m = 0 /\ a.c = u.c + 1 /\ a.s = u.s /\ a.f = Push(0, u.f)
       /\ u.c \in Nat /\ u.f \in Seq(Nat)
  BY <1>7, UnderType
<1>11. ~ Waiting(a, values) /\ ~ Waiting(u, values')
  BY <1>8, <1>10 DEF Waiting
<1>12. /\ Levels(function_state_stack) = Push(0, u.f) /\ IsSeq(switch_stack)
       /\ Len(css) = u.c + 1 /\ Len(switch_stack) = u.s
  BY <1>5, <1>10, <1>11 DEF IsAt
<1>13. function_state_stack' \in Seq(FunctionState) /\ Levels(function_state_stack') = u.f
  <2>1. PICK f \in Seq(Nat) : f = u.f
    BY <1>10
  <2>2. Pop(function_state_stack, 1) \in Seq(FunctionState)
        /\ Levels(Pop(function_state_stack, 1)) = f
    BY <1>4, <1>12, <2>1, LevelsPop
  <2> QED BY <1>2, <2>1, <2>2 DEF LeaveCall
<1>14. css' \in Seq(Flag) /\ Len(css') = u.c
  <2>1. css # <<>>
    <3>1. Len(css) # 0
      BY <1>10, <1>12
    <3> QED BY <3>1
  <2>2. css' \in Seq(Flag) /\ Len(css') = Len(css) - 1
    BY <1>2, <1>3, <2>1, FlagStack
  <2> QED BY <1>10, <1>12, <2>2
<1>15. Flowing' /\ function_state' = fr.function_state
  <2>1. fr.ExecuteFlag \in Flag /\ fr.function_state \in FunctionState
    BY <1>6 DEF FrameOK
  <2>2. status' \in Statuses
    BY <1>2, <1>4
  <2> QED BY <1>2, <1>13, <1>14, <2>1, <2>2, FlowSet
<1>16. IsAt(u, values', css', switch_stack', function_state', function_state_stack', Execute', n)
  BY <1>2, <1>8, <1>11, <1>12, <1>13, <1>14, <1>15 DEF IsAt
<1>17. StructInv'
  <2>1. Len(tokens') = Len(tokens)
    BY <1>2
  <2> QED BY <1>7, <1>8, <1>16, <2>1, StructOn
<1> QED BY <1>9, <1>15, <1>17, IInvWhole

-----------------------------------------------------------------------------
(* The start of a script *)

\* A script, read into the cache.
LEMMA TextToken ==
  ASSUME NEW p \in DOMAIN Text, NEW i \in 1 .. Len(Text[p])
  PROVE  /\ [Text[p][i] EXCEPT !.offset = i] \in Token
         /\ [Text[p][i] EXCEPT !.offset = i].offset = i
         /\ [Text[p][i] EXCEPT !.offset = i].type = Text[p][i].type
<1>1. DOMAIN Text[p][i] = {"type", "tag", "switched", "offset"} /\ Len(Text[p]) \in Nat
  BY TextAssumption
<1>2. PICK t : t = Text[p][i]
  OBVIOUS
<1>3. PICK r : r = [t EXCEPT !.offset = i]
  OBVIOUS
<1>4. \A field : t[field] \in OfTexts(field)
  <2>1. SUFFICES ASSUME NEW field PROVE t[field] \in OfTexts(field)
    OBVIOUS
  <2>2. t[field] \in {Text[p][j][field] : j \in 1 .. Len(Text[p])}
    BY <1>2
  <2> QED BY <2>2, Zenon DEF OfTexts
<1>5. r = [f \in {"type", "tag", "switched", "offset"} |-> IF f = "offset" THEN i ELSE t[f]]
  BY <1>1, <1>2, <1>3
<1>6. /\ r.type = t.type /\ r.tag = t.tag /\ r.switched = t.switched /\ r.offset = i
      /\ r = [type |-> t.type, tag |-> t.tag, switched |-> t.switched, offset |-> i]
  BY <1>5
<1>7. i \in Nat
  BY <1>1
<1>8. r \in Token
  BY <1>4, <1>6, <1>7 DEF Token
<1> QED BY <1>2, <1>3, <1>6, <1>8

LEMMA InitTokens ==
  ASSUME NEW p \in DOMAIN Text
  PROVE  Len(Text[p]) \in Nat \ {0} /\ TokensOK(Renumbered(Text[p]), Len(Text[p]))
<1>1. /\ Text[p] = [i \in 1 .. Len(Text[p]) |-> Text[p][i]] /\ Len(Text[p]) \in Nat \ {0}
      /\ Text[p][Len(Text[p])].type = "EOF"
  BY TextAssumption, Zenon
<1>2. PICK n \in Nat : n = Len(Text[p]) /\ n >= 1
  <2>1. Len(Text[p]) \in Nat \ {0}
    BY <1>1, Zenon
  <2> QED BY <2>1
<1>3. DOMAIN Text[p] = 1 .. n
  BY <1>1, <1>2, Zenon
<1>4. PICK ts : ts = Renumbered(Text[p])
  OBVIOUS
<1>5. ts = [i \in 1 .. n |-> [Text[p][i] EXCEPT !.offset = i]]
  BY <1>3, <1>4, Zenon DEF Renumbered
<1>6. ASSUME NEW i \in 1 .. n
      PROVE  ts[i] \in Token /\ ts[i].offset = i /\ ts[i].type = Text[p][i].type
  BY <1>2, <1>5, TextToken
<1>7. ts \in [1 .. n -> Token]
  BY <1>5, <1>6
<1>8. ts \in Seq(Token) /\ Len(ts) = n
  BY <1>7
<1>9. ts[n].type = "EOF"
  <2>1. n \in 1 .. n
    BY <1>2
  <2> QED BY <1>1, <1>2, <1>6, <2>1
<1>10. TokensOK(ts, n)
  BY <1>2, <1>6, <1>8, <1>9 DEF TokensOK
<1> QED BY <1>1, <1>2, <1>4, <1>10

\* A script starts with empty stacks.
LEMMA InitIInv ==
  ASSUME Init
  PROVE  IInv
<1>1. PICK n \in Nat : n = Len(tokens) /\ n >= 1 /\ TokensOK(tokens, n)
  <2>1. Len(Text[program]) \in Nat \ {0}
        /\ TokensOK(Renumbered(Text[program]), Len(Text[program]))
    BY InitTokens DEF Init
  <2>2. PICK n \in Nat : n = Len(Text[program]) /\ n >= 1
    BY <2>1
  <2>3. TokensOK(tokens, n)
    BY <2>1, <2>2 DEF Init
  <2>4. n = Len(tokens)
    BY <2>3 DEF TokensOK
  <2> QED BY <2>2, <2>3, <2>4
<1>2. /\ pos = 1 /\ yychar = EMPTY /\ shutdown = "NO" /\ parse = Start /\ values = <<>>
      /\ suspended = <<>> /\ ExecuteFlag = "EXECUTE" /\ Execute = TRUE
      /\ function_state = [loop_nest_level |-> 0, loop_change_level |-> 0,
                           loop_change_type |-> "DO_NOTHING", returned |-> FALSE, type |-> "none"]
      /\ css = <<>> /\ switch_stack = <<>> /\ function_state_stack = <<>>
      /\ function_table = <<>> /\ status = "running"
  BY DEF Init, Start
<1>3. FlowInv
  <2>1. function_state \in FunctionState
    BY <1>2 DEF FunctionState
  <2>2. css \in Seq(Flag) /\ function_state_stack \in Seq(FunctionState)
    BY <1>2
  <2> QED BY <1>2, <2>1, <2>2 DEF FlowInv, Flag
<1>4. \A S : <<>> \in Seq(S)
  OBVIOUS
<1>5. Len(<<>>) = 0 /\ DOMAIN <<>> = {}
  OBVIOUS
<1>6. IsSeq(<<>>)
  BY <1>4 DEF IsSeq
<1>7. InputInv
  <2>1. LookaheadOK(yychar, n) /\ PlaceOK(pos, yychar, parse, n) /\ shutdown \in Shutdown
    BY <1>1, <1>2 DEF LookaheadOK, PlaceOK, Shutdown
  <2>2. SymbolsOK(parse, n)
    BY <1>2, Starting
  <2>3. TableOK(function_table, n)
    BY <1>2, <1>5 DEF TableOK
  <2>4. FramesOK(suspended, n)
    BY <1>2, <1>5, <1>6 DEF FramesOK
  <2> QED BY <1>1, <2>1, <2>2, <2>3, <2>4 DEF InputInv
<1>8. ExecuteInSync
  BY <1>2 DEF ExecuteInSync, SHOULD_EXECUTE
<1>9. PICK z \in Height : /\ z = Ground /\ z.v = <<>> /\ z.c = 0 /\ z.s = 0 /\ z.f = <<>>
                          /\ z.n = 0 /\ z.m = 0
  <2>1. Ground \in Height
    BY <1>4 DEF Ground, Height
  <2>2. PICK z \in Height : z = Ground
    BY <2>1
  <2>3. z.v = <<>> /\ z.c = 0 /\ z.s = 0 /\ z.f = <<>> /\ z.n = 0 /\ z.m = 0
    BY <2>2 DEF Ground
  <2> QED BY <2>2, <2>3
<1>10. StructInv
  <2>1. PICK U \in Seq(Height) : U = <<>>
    BY <1>4
  <2>2. Shape(U, z, parse, suspended)
    <3>1. Runs(parse, z, Bottom(U))
      BY <1>2, <1>9, <2>1, Starting DEF Bottom
    <3>2. Len(U) = 0 /\ Len(suspended) = 0
      BY <1>2, <1>5, <2>1
    <3> QED BY <2>1, <3>1, <3>2 DEF Shape
  <2>3. WaitAt(U, suspended, Len(tokens))
    BY <1>5, <2>1 DEF WaitAt
  <2>4. Levels(function_state_stack) = <<>>
    BY <1>2, <1>5 DEF Levels
  <2>5. Conforms(values, <<>>, Len(tokens))
    BY <1>2, <1>5, <1>6 DEF Conforms
  <2>6. IsAt(z, values, css, switch_stack, function_state, function_state_stack, Execute,
             Len(tokens))
    BY <1>2, <1>5, <1>6, <1>9, <2>4, <2>5 DEF IsAt, Waiting
  <2> QED BY <2>2, <2>3, <2>6, Zenon DEF StructInv
<1> QED BY <1>3, <1>7, <1>8, <1>10 DEF IInv

-----------------------------------------------------------------------------
(* The steps *)

\* Every step keeps the invariant.
LEMMA NextIInv ==
  ASSUME IInv, Next
  PROVE  IInv'
<1>1. CASE Parser
  BY <1>1, Shift_Keeps, ShiftOffset_Keeps, Expand_Keeps, ParseError_Keeps, Accept_Keeps,
     Zenon DEF Parser
<1>2. CASE IfActions
  BY <1>2, cs_start_if_Keeps, cs_end_if_Keeps, cs_elseif_start_evaluate_Keeps,
     cs_start_elseif_Keeps, cs_start_else_Keeps, Zenon DEF IfActions, cs_end_if
<1>3. CASE LoopActions
  BY <1>3, cs_start_while_Keeps, cs_end_while_Keeps, cs_start_do_while_Keeps,
     cs_force_eval_do_while_Keeps, cs_end_do_while_Keeps, for_pre_expr1_Keeps,
     for_pre_expr2_Keeps, for_pre_expr3_Keeps, for_pre_statement_Keeps,
     for_post_statement_Keeps, Zenon DEF LoopActions
<1>4. CASE SwitchActions
  BY <1>4, cs_switch_start_Keeps, cs_switch_case_pre_Keeps, cs_switch_default_pre_Keeps,
     cs_switch_case_post_Keeps, cs_switch_end_Keeps, cs_break_continue_Keeps,
     Zenon DEF SwitchActions
<1>5. CASE Operators
  BY <1>5, evaluate_Keeps, empty_Keeps, drop_Keeps, cs_pre_boolean_or_Keeps,
     cs_post_boolean_or_Keeps, cs_pre_boolean_and_Keeps, cs_post_boolean_and_Keeps,
     cs_questionmark_op_pre_expr1_Keeps, cs_questionmark_op_pre_expr2_Keeps,
     cs_questionmark_op_post_expr2_Keeps, Zenon DEF Operators
<1>6. CASE Functions
  BY <1>6, start_function_decleration_Keeps, end_function_decleration_Keeps,
     restore_token_Keeps, terminate_phpparse_Keeps,
     cs_functioncall_pre_variable_passing_Keeps, cs_functioncall_post_variable_passing_Keeps,
     cs_functioncall_end_Keeps, cs_return_Keeps, call_user_function_Keeps,
     phpparse_returns_Keeps, RETURN_TRUE_Keeps, Zenon DEF Functions
<1> QED BY <1>1, <1>2, <1>3, <1>4, <1>5, <1>6 DEF Next

LEMMA StutterIInv ==
  ASSUME IInv, UNCHANGED vars
  PROVE  IInv'
<1>1. /\ tokens' = tokens /\ pos' = pos /\ yychar' = yychar /\ shutdown' = shutdown
      /\ parse' = parse /\ values' = values /\ suspended' = suspended
      /\ ExecuteFlag' = ExecuteFlag /\ Execute' = Execute /\ function_state' = function_state
      /\ css' = css /\ switch_stack' = switch_stack /\ function_state_stack' = function_state_stack
      /\ function_table' = function_table /\ status' = status
  BY DEF vars, input, parser, flow, stacks, world
<1>2. FlowInv' /\ ExecuteInSync'
  BY <1>1, Zenon DEF IInv, FlowInv, ExecuteInSync
<1>3. InputInv'
  BY <1>1, Zenon DEF IInv, InputInv
<1>4. Running' => StructInv'
  BY <1>1, Zenon DEF IInv, Running, StructInv
<1> QED BY <1>2, <1>3, <1>4 DEF IInv

-----------------------------------------------------------------------------

\* The invariant holds.
LEMMA IInvHolds == Spec => []IInv
<1>1. Init => IInv
  BY InitIInv
<1>2. IInv /\ [Next]_vars => IInv'
  BY NextIInv, StutterIInv
<1> QED BY <1>1, <1>2, PTL DEF Spec

LEMMA IInvTypes ==
  ASSUME IInv
  PROVE  TypeOK
<1>1. PICK n \in Nat : n = Len(tokens) /\ TokensOK(tokens, n) /\ PlaceOK(pos, yychar, parse, n)
                       /\ shutdown \in Shutdown
  BY InputParts DEF IInv
<1>2. /\ ExecuteFlag \in Flag /\ function_state \in FunctionState
      /\ status \in {"running", "done", "died", "parse error"}
  BY DEF IInv, FlowInv
<1>3. Execute \in BOOLEAN
  BY <1>2 DEF IInv, ExecuteInSync, SHOULD_EXECUTE, FunctionState
<1>4. pos \in 1 .. Len(tokens) + 1 /\ \A i \in DOMAIN tokens : tokens[i].offset = i
  BY <1>1 DEF TokensOK, PlaceOK
<1> QED BY <1>1, <1>2, <1>3, <1>4 DEF TypeOK, Flag, FunctionState, Shutdown

\* The variables have their types, for every script: the position of the parser is in
\* the token cache, and every token knows its offset, however often a for statement
\* moved its tokens (tc_switch) and a loop turned its own (tc_set_token).
THEOREM TypesHold == Spec => []TypeOK
BY IInvHolds, IInvTypes, PTL

\* Execute is what ExecuteFlag and the state of the current function say, after every
\* action: no assignment to the flags, the loops or returned misses its
\* SHOULD_EXECUTE, in calls and in parsers within the parser as well.
THEOREM FlagsAgree == Spec => []ExecuteInSync
<1>1. IInv => ExecuteInSync
  BY DEF IInv
<1> QED BY <1>1, IInvHolds, PTL

-----------------------------------------------------------------------------
(* What the symbols count *)

One(is) == IF is THEN 1 ELSE 0

\* The symbols behind which one more flag is on css, and one less.
Opens == Starts \cup LoopStarts
Closes == Ends \cup LoopEnds

\* How a symbol moves the stacks: a call that was entered ends with one level
\* less of css and of the functions.
Counts(x, a, b) ==
  /\ a.c - Len(a.f) = (b.c - Len(b.f)) + (One(x \in Closes) - One(x \in Opens))
  /\ a.s = b.s + (One(x = "cs_switch_end") - One(x = "cs_switch_start"))
  /\ a.f = b.f \/ (x = "cs_functioncall_end" /\ Len(a.f) = Len(b.f) + 1 /\ a.n = 0)
  /\ x # "cs_functioncall_end" => a.n = b.n + (One(x \in LoopEnds) - One(x \in LoopStarts))

LEMMA MovesCount ==
  ASSUME NEW a \in Height, NEW b \in Height, NEW x, NEW dc \in Int, NEW ds \in Int, NEW dn \in Int,
         b.c = a.c + dc, b.s = a.s + ds, b.n = a.n + dn, b.f = a.f,
         dc = One(x \in Opens) - One(x \in Closes),
         ds = One(x = "cs_switch_start") - One(x = "cs_switch_end"),
         dn = One(x \in LoopStarts) - One(x \in LoopEnds)
  PROVE  Counts(x, a, b)
<1>1. PICK c \in Nat, s \in Nat, n \in Nat, f \in Seq(Nat) :
        c = a.c /\ s = a.s /\ n = a.n /\ f = a.f
  BY DEF Height
<1>2. PICK l \in Nat : l = Len(f)
  OBVIOUS
<1>3. PICK o \in {0, 1}, q \in {0, 1} : o = One(x \in Opens) /\ q = One(x \in Closes)
  BY DEF One
<1>4. PICK o2 \in {0, 1}, q2 \in {0, 1} :
        o2 = One(x = "cs_switch_start") /\ q2 = One(x = "cs_switch_end")
  BY DEF One
<1>5. PICK o3 \in {0, 1}, q3 \in {0, 1} :
        o3 = One(x \in LoopStarts) /\ q3 = One(x \in LoopEnds)
  BY DEF One
<1>6. a.c - Len(a.f) = (b.c - Len(b.f)) + (q - o)
  <2>1. Len(a.f) = l /\ Len(b.f) = l /\ a.c = c /\ b.c = c + dc /\ dc = o - q
    BY <1>1, <1>2, <1>3
  <2>2. c - l = ((c + (o - q)) - l) + (q - o)
    OBVIOUS
  <2> QED BY <2>1, <2>2
<1>7. a.s = b.s + (q2 - o2)
  BY <1>1, <1>4
<1>8. a.n = b.n + (q3 - o3)
  BY <1>1, <1>5
<1> QED BY <1>3, <1>4, <1>5, <1>6, <1>7, <1>8, Zenon DEF Counts

LEMMA DoesCount ==
  ASSUME NEW a \in Height, NEW b \in Height, NEW x, NEW t, NEW g,
         NEW dc \in Int, NEW ds \in Int, NEW dn \in Int, Does(a, b, t, g, dc, ds, dn),
         dc = One(x \in Opens) - One(x \in Closes),
         ds = One(x = "cs_switch_start") - One(x = "cs_switch_end"),
         dn = One(x \in LoopStarts) - One(x \in LoopEnds)
  PROVE  Counts(x, a, b)
<1>1. b.c = a.c + dc /\ b.s = a.s + ds /\ b.n = a.n + dn /\ b.f = a.f
  BY DEF Does
<1> QED BY <1>1, MovesCount

LEMMA QuietCount ==
  ASSUME NEW a \in Height, NEW b \in Height, NEW x,
         b.c = a.c, b.s = a.s, b.n = a.n, b.f = a.f,
         x \notin Opens, x \notin Closes, x # "cs_switch_start", x # "cs_switch_end",
         x \notin LoopStarts, x \notin LoopEnds
  PROVE  Counts(x, a, b)
<1>1. a.c \in Nat /\ a.s \in Nat /\ a.n \in Nat
  BY DEF Height
<1>2. b.c = a.c + 0 /\ b.s = a.s + 0 /\ b.n = a.n + 0
  BY <1>1
<1>3. 0 = One(x \in Opens) - One(x \in Closes)
      /\ 0 = One(x = "cs_switch_start") - One(x = "cs_switch_end")
      /\ 0 = One(x \in LoopStarts) - One(x \in LoopEnds)
  BY DEF One
<1> QED BY <1>2, <1>3, MovesCount

\* The symbols that move css, switch_stack and the levels of loops.
LEMMA Movers ==
  /\ \A x \in {"cs_start_if", "cs_elseif_start_evaluate", "start_function_decleration",
               "cs_pre_boolean_or", "cs_pre_boolean_and", "cs_questionmark_op_pre_expr1"} :
       /\ One(x \in Opens) = 1 /\ One(x \in Closes) = 0
       /\ One(x = "cs_switch_start") = 0 /\ One(x = "cs_switch_end") = 0
       /\ One(x \in LoopStarts) = 0 /\ One(x \in LoopEnds) = 0
  /\ \A x \in {"cs_end_if", "cs_elseif_end_evaluate", "end_function_decleration",
               "cs_post_boolean_or", "cs_post_boolean_and", "cs_questionmark_op_post_expr2"} :
       /\ One(x \in Opens) = 0 /\ One(x \in Closes) = 1
       /\ One(x = "cs_switch_start") = 0 /\ One(x = "cs_switch_end") = 0
       /\ One(x \in LoopStarts) = 0 /\ One(x \in LoopEnds) = 0
  /\ \A x \in {"cs_start_while", "cs_start_do_while", "for_pre_expr1"} :
       /\ One(x \in Opens) = 1 /\ One(x \in Closes) = 0
       /\ One(x = "cs_switch_start") = 0 /\ One(x = "cs_switch_end") = 0
       /\ One(x \in LoopStarts) = 1 /\ One(x \in LoopEnds) = 0
  /\ \A x \in {"cs_end_while", "cs_end_do_while", "for_post_statement"} :
       /\ One(x \in Opens) = 0 /\ One(x \in Closes) = 1
       /\ One(x = "cs_switch_start") = 0 /\ One(x = "cs_switch_end") = 0
       /\ One(x \in LoopStarts) = 0 /\ One(x \in LoopEnds) = 1
  /\ \A x \in {"cs_switch_start"} :
       /\ One(x \in Opens) = 1 /\ One(x \in Closes) = 0
       /\ One(x = "cs_switch_start") = 1 /\ One(x = "cs_switch_end") = 0
       /\ One(x \in LoopStarts) = 1 /\ One(x \in LoopEnds) = 0
  /\ \A x \in {"cs_switch_end"} :
       /\ One(x \in Opens) = 0 /\ One(x \in Closes) = 1
       /\ One(x = "cs_switch_start") = 0 /\ One(x = "cs_switch_end") = 1
       /\ One(x \in LoopStarts) = 0 /\ One(x \in LoopEnds) = 1
BY DEF One, Opens, Closes, Starts, Ends, LoopStarts, LoopEnds

\* The other ones.
Quiet == Idle \cup Giving \cup Dropping \cup
         {"EOF", "operators", "(", "offset of ;", "offset of )", "for_pre_statement",
          "cs_functioncall_pre_variable_passing", "cs_functioncall_post_variable_passing",
          "call_user_function", "RETURN_TRUE", "possible_function_call", "cs_functioncall_end"}

LEMMA QuietSymbols ==
  ASSUME NEW x \in Quiet
  PROVE  /\ x \notin Opens /\ x \notin Closes /\ x # "cs_switch_start" /\ x # "cs_switch_end"
         /\ x \notin LoopStarts /\ x \notin LoopEnds
BY DEF Quiet, Idle, Giving, Dropping, Opens, Closes, Starts, Ends, LoopStarts, LoopEnds

LEMMA QuietEffectCounts ==
  ASSUME NEW a \in Height, NEW b \in Height, NEW x \in Quiet,
         b.c = a.c, b.s = a.s, b.n = a.n, b.f = a.f
  PROVE  Counts(x, a, b)
BY QuietSymbols, QuietCount

LEMMA QuietDoesCount ==
  ASSUME NEW a \in Height, NEW b \in Height, NEW x \in Quiet, NEW t, NEW g,
         Does(a, b, t, g, 0, 0, 0)
  PROVE  Counts(x, a, b)
<1>1. PICK c \in Nat, s \in Nat, n \in Nat : c = a.c /\ s = a.s /\ n = a.n
  BY DEF Height
<1>2. b.c = c + 0 /\ b.s = s + 0 /\ b.n = n + 0 /\ b.f = a.f
  BY <1>1 DEF Does
<1>3. b.c = a.c /\ b.s = a.s /\ b.n = a.n /\ b.f = a.f
  BY <1>1, <1>2
<1> QED BY <1>3, QuietEffectCounts

LEMMA WithCounts ==
  ASSUME NEW a \in Height, NEW b \in Height, NEW x \in Quiet, NEW w, NEW m, b = With(a, w, m)
  PROVE  Counts(x, a, b)
<1>1. b.c = a.c /\ b.s = a.s /\ b.n = a.n /\ b.f = a.f
  BY DEF With
<1> QED BY <1>1, QuietEffectCounts

LEMMA CalledCounts ==
  ASSUME NEW a \in Height, NEW b \in Height, EndsCalled(a, b)
  PROVE  Counts("cs_functioncall_end", a, b) /\ a.f # b.f
<1>1. a.n = 0 /\ a.f = Push(b.n, b.f) /\ a.c = b.c + 1 /\ a.s = b.s
  BY DEF EndsCalled
<1>2. PICK f \in Seq(Nat), n \in Nat, c \in Nat, s \in Nat :
        f = b.f /\ n = b.n /\ c = b.c /\ s = b.s
  BY DEF Height
<1>3. PICK l \in Nat : l = Len(f)
  OBVIOUS
<1>4. Len(Push(n, f)) = l + 1
  BY <1>3, Pushed
<1>5. Len(a.f) = l + 1 /\ Len(b.f) = l /\ a.c = c + 1 /\ b.c = c
  BY <1>1, <1>2, <1>3, <1>4
<1>6. a.c - Len(a.f) = (b.c - Len(b.f)) + (0 - 0) /\ Len(a.f) = Len(b.f) + 1
  <2>1. (c + 1) - (l + 1) = (c - l) + (0 - 0)
    OBVIOUS
  <2> QED BY <1>5, <2>1
<1>7. a.s = b.s + (0 - 0)
  BY <1>1, <1>2
<1>8. /\ One("cs_functioncall_end" \in Closes) = 0 /\ One("cs_functioncall_end" \in Opens) = 0
      /\ One("cs_functioncall_end" = "cs_switch_end") = 0
      /\ One("cs_functioncall_end" = "cs_switch_start") = 0
  BY QuietSymbols DEF Quiet, One
<1>9. a.f # b.f
  BY <1>5
<1> QED BY <1>1, <1>6, <1>7, <1>8, <1>9 DEF Counts

\* The effects count as Counts says.
LEMMA EffectCounts ==
  ASSUME NEW x, NEW a \in Height, NEW b \in Height, Effect(x, a, b)
  PROVE  Counts(x, a, b)
<1>1. CASE (x \in Idle \/ x = "EOF") /\ Keeps(a, b)
  <2>1. x \in Quiet
    BY <1>1, Zenon DEF Quiet
  <2>2. b = a
    BY <1>1 DEF Keeps
  <2> QED BY <2>1, <2>2, QuietEffectCounts
<1>2. CASE x \in Giving /\ Does(a, b, 0, 1, 0, 0, 0)
  <2>1. x \in Quiet
    BY <1>2, Zenon DEF Quiet
  <2> QED BY <1>2, <2>1, QuietDoesCount
<1>3. CASE x = "operators" /\ Does(a, b, 1, 1, 0, 0, 0)
  <2>1. x \in Quiet
    BY <1>3, Zenon DEF Quiet
  <2> QED BY <1>3, <2>1, QuietDoesCount
<1>4. CASE x \in Dropping /\ Does(a, b, 1, 0, 0, 0, 0)
  <2>1. x \in Quiet
    BY <1>4, Zenon DEF Quiet
  <2> QED BY <1>4, <2>1, QuietDoesCount
<1>5. CASE x \in {"cs_start_if", "cs_elseif_start_evaluate", "start_function_decleration",
                  "cs_pre_boolean_or", "cs_pre_boolean_and", "cs_questionmark_op_pre_expr1"}
           /\ \E t, g : Does(a, b, t, g, 1, 0, 0)
  <2>1. /\ 1 = One(x \in Opens) - One(x \in Closes)
        /\ 0 = One(x = "cs_switch_start") - One(x = "cs_switch_end")
        /\ 0 = One(x \in LoopStarts) - One(x \in LoopEnds)
    BY <1>5, Movers
  <2> QED BY <1>5, <2>1, DoesCount
<1>6. CASE x \in {"cs_end_if", "cs_elseif_end_evaluate", "end_function_decleration",
                  "cs_post_boolean_or", "cs_post_boolean_and", "cs_questionmark_op_post_expr2"}
           /\ \E t, g : Does(a, b, t, g, Down, 0, 0)
  <2>1. /\ Down = One(x \in Opens) - One(x \in Closes)
        /\ 0 = One(x = "cs_switch_start") - One(x = "cs_switch_end")
        /\ 0 = One(x \in LoopStarts) - One(x \in LoopEnds) /\ Down \in Int
    BY <1>6, Movers DEF Down
  <2> QED BY <1>6, <2>1, DoesCount
<1>7. CASE x \in {"cs_start_while", "cs_start_do_while", "for_pre_expr1"}
           /\ \E t, g : Does(a, b, t, g, 1, 0, 1)
  <2>1. /\ 1 = One(x \in Opens) - One(x \in Closes)
        /\ 0 = One(x = "cs_switch_start") - One(x = "cs_switch_end")
        /\ 1 = One(x \in LoopStarts) - One(x \in LoopEnds)
    BY <1>7, Movers
  <2> QED BY <1>7, <2>1, DoesCount
<1>8. CASE x \in {"cs_end_while", "cs_end_do_while"} /\ \E t, g : Does(a, b, t, g, Down, 0, Down)
  <2>1. /\ Down = One(x \in Opens) - One(x \in Closes)
        /\ 0 = One(x = "cs_switch_start") - One(x = "cs_switch_end")
        /\ Down = One(x \in LoopStarts) - One(x \in LoopEnds) /\ Down \in Int
    BY <1>8, Movers DEF Down
  <2> QED BY <1>8, <2>1, DoesCount
<1>9. CASE x = "for_post_statement" /\ LeavesFor(a, b)
  <2>1. /\ Down = One(x \in Opens) - One(x \in Closes)
        /\ 0 = One(x = "cs_switch_start") - One(x = "cs_switch_end")
        /\ Down = One(x \in LoopStarts) - One(x \in LoopEnds) /\ Down \in Int
    BY <1>9, Movers DEF Down
  <2>2. PICK c \in Nat, s \in Nat, n \in Nat : c = a.c /\ s = a.s /\ n = a.n
    BY DEF Height
  <2>3. b.c = c - 1 /\ b.s = s /\ b.n = n - 1 /\ b.f = a.f
    BY <1>9, <2>2 DEF LeavesFor
  <2>4. b.c = a.c + Down /\ b.s = a.s + 0 /\ b.n = a.n + Down
    BY <2>2, <2>3 DEF Down
  <2> QED BY <2>1, <2>3, <2>4, MovesCount
<1>10. CASE x = "cs_switch_start" /\ Does(a, b, 1, 0, 1, 1, 1)
  <2>1. /\ 1 = One(x \in Opens) - One(x \in Closes)
        /\ 1 = One(x = "cs_switch_start") - One(x = "cs_switch_end")
        /\ 1 = One(x \in LoopStarts) - One(x \in LoopEnds)
    BY <1>10, Movers
  <2> QED BY <1>10, <2>1, DoesCount
<1>11. CASE x = "cs_switch_end" /\ Does(a, b, 0, 0, Down, Down, Down)
  <2>1. /\ Down = One(x \in Opens) - One(x \in Closes)
        /\ Down = One(x = "cs_switch_start") - One(x = "cs_switch_end")
        /\ Down = One(x \in LoopStarts) - One(x \in LoopEnds) /\ Down \in Int
    BY <1>11, Movers DEF Down
  <2> QED BY <1>11, <2>1, DoesCount
<1>12. CASE /\ x \in {"(", "offset of ;", "offset of )", "for_pre_statement",
                     "cs_functioncall_pre_variable_passing",
                     "cs_functioncall_post_variable_passing", "call_user_function",
                     "RETURN_TRUE", "possible_function_call", "cs_functioncall_end"}
            /\ b = a \/ \E w, m : b = With(a, w, m)
  <2>1. x \in Quiet
    BY <1>12 DEF Quiet
  <2> QED BY <1>12, <2>1, WithCounts, QuietEffectCounts
<1>13. CASE x = "cs_functioncall_end" /\ EndsCalled(a, b)
  BY <1>13, CalledCounts
<1>14. ASSUME \/ x = "cs_start_if" /\ Does(a, b, 1, 0, 1, 0, 0)
              \/ x \in {"cs_elseif_start_evaluate", "start_function_decleration"}
                 /\ Does(a, b, 0, 0, 1, 0, 0)
              \/ x \in {"cs_pre_boolean_or", "cs_pre_boolean_and", "cs_questionmark_op_pre_expr1"}
                 /\ Does(a, b, 1, 1, 1, 0, 0)
       PROVE  Counts(x, a, b)
  <2>1. \E t, g : Does(a, b, t, g, 1, 0, 0)
    BY <1>14, Zenon
  <2>2. x \in {"cs_start_if", "cs_elseif_start_evaluate", "start_function_decleration",
               "cs_pre_boolean_or", "cs_pre_boolean_and", "cs_questionmark_op_pre_expr1"}
    BY <1>14
  <2> QED BY <1>5, <2>1, <2>2, Zenon
<1>15. ASSUME \/ x \in {"cs_end_if", "cs_elseif_end_evaluate", "end_function_decleration"}
                 /\ Does(a, b, 0, 0, Down, 0, 0)
              \/ x \in {"cs_post_boolean_or", "cs_post_boolean_and"}
                 /\ Does(a, b, 2, 1, Down, 0, 0)
              \/ x = "cs_questionmark_op_post_expr2" /\ Does(a, b, 3, 1, Down, 0, 0)
       PROVE  Counts(x, a, b)
  <2>1. \E t, g : Does(a, b, t, g, Down, 0, 0)
    BY <1>15, Zenon
  <2>2. x \in {"cs_end_if", "cs_elseif_end_evaluate", "end_function_decleration",
               "cs_post_boolean_or", "cs_post_boolean_and", "cs_questionmark_op_post_expr2"}
    BY <1>15
  <2> QED BY <1>6, <2>1, <2>2, Zenon
<1>16. ASSUME \/ x = "cs_start_while" /\ Does(a, b, 1, 0, 1, 0, 1)
              \/ x \in {"cs_start_do_while", "for_pre_expr1"} /\ Does(a, b, 0, 0, 1, 0, 1)
       PROVE  Counts(x, a, b)
  <2>1. \E t, g : Does(a, b, t, g, 1, 0, 1)
    BY <1>16, Zenon
  <2>2. x \in {"cs_start_while", "cs_start_do_while", "for_pre_expr1"}
    BY <1>16
  <2> QED BY <1>7, <2>1, <2>2, Zenon
<1>17. ASSUME \/ x = "cs_end_while" /\ Does(a, b, 0, 0, Down, 0, Down)
              \/ x = "cs_end_do_while" /\ Does(a, b, 1, 0, Down, 0, Down)
       PROVE  Counts(x, a, b)
  <2>1. \E t, g : Does(a, b, t, g, Down, 0, Down)
    BY <1>17, Zenon
  <2>2. x \in {"cs_end_while", "cs_end_do_while"}
    BY <1>17
  <2> QED BY <1>8, <2>1, <2>2, Zenon
<1>18. ASSUME \/ x = "(" /\ Parenthesis(a, b)
              \/ x \in {"offset of ;", "offset of )"} /\ GivesOffset(a, b)
              \/ x = "offset of )" /\ ClosesCall(a, b)
              \/ x = "for_pre_statement" /\ LeavesHeader(a, b)
              \/ x = "cs_functioncall_pre_variable_passing" /\ Asks(a, b)
              \/ x = "cs_functioncall_post_variable_passing" /\ Skips(a, b)
              \/ x \in {"call_user_function", "RETURN_TRUE"} /\ InCall(a, b)
              \/ x = "possible_function_call" /\ Bodyless(a, b)
              \/ x = "cs_functioncall_end" /\ EndsSkipped(a, b)
       PROVE  Counts(x, a, b)
  <2>1. Parenthesis(a, b) \/ GivesOffset(a, b) \/ ClosesCall(a, b) \/ LeavesHeader(a, b)
        \/ Asks(a, b) \/ Skips(a, b) \/ InCall(a, b) \/ Bodyless(a, b) \/ EndsSkipped(a, b)
        => b = a \/ \E w, m : b = With(a, w, m)
    BY Zenon DEF Parenthesis, GivesOffset, ClosesCall, LeavesHeader, Asks, Skips, InCall,
       Bodyless, EndsSkipped
  <2>2. b = a \/ \E w, m : b = With(a, w, m)
    BY <1>18, <2>1, Zenon
  <2>3. x \in {"(", "offset of ;", "offset of )", "for_pre_statement",
               "cs_functioncall_pre_variable_passing", "cs_functioncall_post_variable_passing",
               "call_user_function", "RETURN_TRUE", "possible_function_call",
               "cs_functioncall_end"}
    BY <1>18
  <2> QED BY <1>12, <2>2, <2>3, Zenon
<1> QED BY <1>1, <1>2, <1>3, <1>4, <1>9, <1>10, <1>11, <1>13, <1>14, <1>15, <1>16, <1>17, <1>18,
        Zenon DEF Effect

-----------------------------------------------------------------------------
(* Sums *)

\* Every set of natural numbers has a least element.
LEMMA Order == \E R : IsWellFoundedOn(R, Nat) /\ \A a, b \in Nat : a < b => <<a, b>> \in R
<1>1. IsWellFoundedOn(OpToRel(<, Nat), Nat)
  BY NatLessThanWellFounded, Zenon
<1>2. \A a, b \in Nat : a < b => <<a, b>> \in OpToRel(<, Nat)
  BY DEF OpToRel
<1> QED BY <1>1, <1>2, Zenon

LEMMA Least ==
  ASSUME NEW T \in SUBSET Nat, T # {}
  PROVE  \E x \in T : \A y \in T : x <= y
<1>1. PICK R : IsWellFoundedOn(R, Nat) /\ \A a, b \in Nat : a < b => <<a, b>> \in R
  BY Order
<1>2. IsWellFoundedOn(R, Nat) /\ T \subseteq Nat
  BY <1>1
<1>3. PICK x \in T : \A y \in T : ~ (<<y, x>> \in R)
  BY <1>2, WFMin, Zenon
<1>4. ASSUME NEW y \in T PROVE x <= y
  <2>1. ~ (y < x)
    BY <1>1, <1>3, Zenon
  <2> QED BY <2>1
<1> QED BY <1>4

LEMMA CountedNext ==
  ASSUME NEW n \in Nat, NEW P \in SUBSET (1 .. n), NEW k \in 0 .. n - 1
  PROVE  /\ Cardinality(P \cap (1 .. k)) \in Nat
         /\ Cardinality(P \cap (1 .. k + 1)) = Cardinality(P \cap (1 .. k)) + One(k + 1 \in P)
<1>1. IsFiniteSet(1 .. k)
  BY FS_Interval
<1>2. PICK Q : Q = P \cap (1 .. k)
  OBVIOUS
<1>3. IsFiniteSet(Q) /\ Cardinality(Q) \in Nat
  BY <1>1, <1>2, FS_Subset, FS_CardinalityType
<1>4. CASE k + 1 \in P
  <2>1. P \cap (1 .. k + 1) = Q \cup {k + 1} /\ k + 1 \notin Q
    BY <1>2, <1>4
  <2>2. Cardinality(Q \cup {k + 1}) = Cardinality(Q) + 1
    BY <1>3, <2>1, FS_AddElement
  <2> QED BY <1>2, <1>3, <1>4, <2>1, <2>2 DEF One
<1>5. CASE k + 1 \notin P
  <2>1. P \cap (1 .. k + 1) = Q
    BY <1>2, <1>5
  <2>2. One(k + 1 \in P) = 0
    BY <1>5 DEF One
  <2> QED BY <1>2, <1>3, <2>1, <2>2
<1> QED BY <1>4, <1>5

\* What changes by one at the places P and M is counted by them.
LEMMA Summed ==
  ASSUME NEW n \in Nat, NEW P \in SUBSET (1 .. n), NEW M \in SUBSET (1 .. n),
         NEW y \in [1 .. n + 1 -> Int],
         \A i \in 1 .. n : y[i] = y[i + 1] + (One(i \in P) - One(i \in M))
  PROVE  /\ y[1] = y[n + 1] + (Cardinality(P) - Cardinality(M))
         /\ Cardinality(P) \in Nat /\ Cardinality(M) \in Nat
<1> DEFINE p(k) == Cardinality(P \cap (1 .. k))
           m(k) == Cardinality(M \cap (1 .. k))
           T == {k \in 0 .. n : y[1] # y[k + 1] + (p(k) - m(k))}
<1>1. p(0) = 0 /\ m(0) = 0
  <2>1. P \cap (1 .. 0) = {} /\ M \cap (1 .. 0) = {}
    OBVIOUS
  <2> QED BY <2>1, FS_EmptySet
<1>2. ASSUME NEW k \in 0 .. n - 1
      PROVE  /\ p(k) \in Nat /\ p(k + 1) = p(k) + One(k + 1 \in P)
             /\ m(k) \in Nat /\ m(k + 1) = m(k) + One(k + 1 \in M)
  BY CountedNext
<1> HIDE DEF p, m
<1>3. T = {}
  <2> SUFFICES ASSUME T # {} PROVE FALSE
    OBVIOUS
  <2>1. T \in SUBSET Nat
    OBVIOUS
  <2>2. PICK k \in T : \A l \in T : k <= l
    BY <2>1, Least
  <2>3. k # 0
    <3>1. y[1] = y[0 + 1] + (0 - 0)
      OBVIOUS
    <3> QED BY <1>1, <2>2, <3>1
  <2>4. PICK j \in 0 .. n - 1 : k = j + 1
    <3>1. k - 1 \in 0 .. n - 1 /\ k = (k - 1) + 1
      BY <2>2, <2>3
    <3> QED BY <3>1
  <2>5. y[1] = y[j + 1] + (p(j) - m(j))
    <3>1. ~ (k <= j) /\ j \in 0 .. n
      BY <2>4
    <3> QED BY <2>2, <3>1
  <2>6. y[j + 1] = y[(j + 1) + 1] + (One(j + 1 \in P) - One(j + 1 \in M))
    <3>1. j + 1 \in 1 .. n
      OBVIOUS
    <3> QED BY <3>1
  <2>7. PICK o \in {0, 1}, q \in {0, 1} : o = One(j + 1 \in P) /\ q = One(j + 1 \in M)
    BY DEF One
  <2>8. PICK u \in Int, v \in Nat, w \in Nat : u = y[(j + 1) + 1] /\ v = p(j) /\ w = m(j)
    <3>1. (j + 1) + 1 \in 1 .. n + 1
      OBVIOUS
    <3> QED BY <1>2, <3>1
  <2>9. y[1] = (u + (o - q)) + (v - w)
    BY <2>5, <2>6, <2>7, <2>8
  <2>10. p(k) = v + o /\ m(k) = w + q /\ y[k + 1] = u
    BY <1>2, <2>4, <2>7, <2>8
  <2>11. y[1] = y[k + 1] + (p(k) - m(k))
    <3>1. (u + (o - q)) + (v - w) = u + ((v + o) - (w + q))
      OBVIOUS
    <3> QED BY <2>9, <2>10, <3>1
  <2> QED BY <2>2, <2>11
<1>4. y[1] = y[n + 1] + (p(n) - m(n))
  <2>1. \A k \in 0 .. n : y[1] = y[k + 1] + (p(k) - m(k))
    BY <1>3, Zenon
  <2>2. n \in 0 .. n
    OBVIOUS
  <2> QED BY <2>1, <2>2, Zenon
<1>5. p(n) = Cardinality(P) /\ m(n) = Cardinality(M)
  <2>1. P \cap (1 .. n) = P /\ M \cap (1 .. n) = M
    OBVIOUS
  <2> QED BY <2>1 DEF p, m
<1>6. Cardinality(P) \in Nat /\ Cardinality(M) \in Nat
  <2>1. IsFiniteSet(1 .. n)
    BY FS_Interval
  <2> QED BY <2>1, FS_Subset, FS_CardinalityType
<1> QED BY <1>4, <1>5, <1>6

\* The places of levels, up to one of them.
UpTo(A, k) == UNION {{j} \X A[j] : j \in 0 .. k}

LEMMA TaggedCount ==
  ASSUME NEW S, IsFiniteSet(S), NEW j
  PROVE  IsFiniteSet({j} \X S) /\ Cardinality({j} \X S) = Cardinality(S)
<1>1. IsFiniteSet({j}) /\ Cardinality({j}) = 1
  BY FS_Singleton
<1>2. IsFiniteSet({j} \X S) /\ Cardinality({j} \X S) = Cardinality({j}) * Cardinality(S)
  BY <1>1, FS_Product
<1>3. Cardinality(S) \in Nat
  BY FS_CardinalityType
<1> QED BY <1>1, <1>2, <1>3

LEMMA UpToNext ==
  ASSUME NEW l \in Nat, NEW A, \A k \in 0 .. l : IsFiniteSet(A[k]),
         NEW k \in 0 .. l - 1, IsFiniteSet(UpTo(A, k))
  PROVE  /\ IsFiniteSet(UpTo(A, k + 1))
         /\ Cardinality(UpTo(A, k + 1)) = Cardinality(UpTo(A, k)) + Cardinality(A[k + 1])
<1>1. PICK Q, N : Q = UpTo(A, k) /\ N = {k + 1} \X A[k + 1]
  OBVIOUS
<1>2. IsFiniteSet(N) /\ Cardinality(N) = Cardinality(A[k + 1])
  <2>1. k + 1 \in 0 .. l
    OBVIOUS
  <2> QED BY <1>1, <2>1, TaggedCount
<1>3. UpTo(A, k + 1) = Q \cup N
  <2>1. 0 .. k + 1 = (0 .. k) \cup {k + 1}
    OBVIOUS
  <2> QED BY <1>1, <2>1, Zenon DEF UpTo
<1>4. Q \cap N = {}
  <2> SUFFICES ASSUME NEW x \in Q, x \in N PROVE FALSE
    OBVIOUS
  <2>1. PICK j \in 0 .. k : x \in {j} \X A[j]
    BY <1>1, Zenon DEF UpTo
  <2>2. x[1] = j /\ x[1] = k + 1
    BY <1>1, <2>1
  <2> QED BY <2>2
<1>5. /\ IsFiniteSet(Q \cup N)
      /\ Cardinality(Q \cup N) = Cardinality(Q) + Cardinality(N) - Cardinality(Q \cap N)
  BY <1>1, <1>2, FS_Union
<1>6. Cardinality(Q \cap N) = 0 /\ Cardinality(Q) \in Nat /\ Cardinality(N) \in Nat
  BY <1>1, <1>2, <1>4, FS_EmptySet, FS_CardinalityType
<1>7. Cardinality(Q \cup N) = Cardinality(Q) + Cardinality(A[k + 1])
  <2>1. PICK q \in Nat, c \in Nat : q = Cardinality(Q) /\ c = Cardinality(N)
    BY <1>6
  <2>2. Cardinality(Q \cup N) = q + c - 0
    BY <1>5, <1>6, <2>1
  <2> QED BY <1>2, <2>1, <2>2
<1> QED BY <1>1, <1>3, <1>5, <1>7, Zenon

LEMMA UpToNone ==
  ASSUME NEW A, IsFiniteSet(A[0])
  PROVE  IsFiniteSet(UpTo(A, 0)) /\ Cardinality(UpTo(A, 0)) = Cardinality(A[0])
<1>1. UpTo(A, 0) = {0} \X A[0]
  <2>1. 0 .. 0 = {0}
    OBVIOUS
  <2> QED BY <2>1 DEF UpTo
<1> QED BY <1>1, TaggedCount

\* What changes from level to level by the places P and M is counted by them.
LEMMA LevelsSummed ==
  ASSUME NEW l \in Nat, NEW P, NEW M, \A k \in 0 .. l : IsFiniteSet(P[k]) /\ IsFiniteSet(M[k]),
         NEW y \in [0 .. l + 1 -> Int],
         \A k \in 0 .. l : y[k] = y[k + 1] + (Cardinality(P[k]) - Cardinality(M[k]))
  PROVE  /\ y[0] = y[l + 1] + (Cardinality(UpTo(P, l)) - Cardinality(UpTo(M, l)))
         /\ IsFiniteSet(UpTo(P, l)) /\ IsFiniteSet(UpTo(M, l))
<1> DEFINE p(k) == Cardinality(UpTo(P, k))
           m(k) == Cardinality(UpTo(M, k))
           Good(k) == /\ IsFiniteSet(UpTo(P, k)) /\ IsFiniteSet(UpTo(M, k))
                      /\ y[0] = y[k + 1] + (p(k) - m(k))
           T == {k \in 0 .. l : ~ Good(k)}
<1>1. T = {}
  <2> SUFFICES ASSUME T # {} PROVE FALSE
    OBVIOUS
  <2> HIDE DEF Good
  <2>1. T \in SUBSET Nat
    OBVIOUS
  <2>2. PICK k \in T : \A j \in T : k <= j
    BY <2>1, Least
  <2>3. Good(0)
    <3>1. IsFiniteSet(UpTo(P, 0)) /\ IsFiniteSet(UpTo(M, 0))
          /\ p(0) = Cardinality(P[0]) /\ m(0) = Cardinality(M[0])
      BY UpToNone
    <3>2. y[0] = y[0 + 1] + (Cardinality(P[0]) - Cardinality(M[0]))
      OBVIOUS
    <3> QED BY <3>1, <3>2 DEF Good
  <2>4. PICK j \in 0 .. l - 1 : k = j + 1
    <3>1. k # 0
      BY <2>2, <2>3
    <3>2. k - 1 \in 0 .. l - 1 /\ k = (k - 1) + 1
      BY <2>2, <3>1
    <3> QED BY <3>2
  <2>5. Good(j)
    <3>1. ~ (k <= j) /\ j \in 0 .. l
      BY <2>4
    <3> QED BY <2>2, <3>1
  <2>6. /\ IsFiniteSet(UpTo(P, k)) /\ p(k) = p(j) + Cardinality(P[k])
        /\ IsFiniteSet(UpTo(M, k)) /\ m(k) = m(j) + Cardinality(M[k])
    BY <2>4, <2>5, UpToNext DEF Good
  <2>7. PICK v \in Nat, w \in Nat, c \in Nat, d \in Nat :
          v = p(j) /\ w = m(j) /\ c = Cardinality(P[k]) /\ d = Cardinality(M[k])
    <3>1. k \in 0 .. l
      BY <2>2
    <3> QED BY <2>5, <3>1, FS_CardinalityType DEF Good
  <2>8. PICK u \in Int, u2 \in Int : u = y[k] /\ u2 = y[k + 1]
    BY <2>2
  <2>9. y[0] = u + (v - w) /\ u = u2 + (c - d)
    BY <2>2, <2>4, <2>5, <2>7, <2>8 DEF Good
  <2>10. y[0] = u2 + ((v + c) - (w + d))
    BY <2>9
  <2>11. p(k) = v + c /\ m(k) = w + d
    BY <2>6, <2>7
  <2>12. Good(k)
    BY <2>6, <2>8, <2>10, <2>11 DEF Good
  <2> QED BY <2>2, <2>12
<1> HIDE DEF Good
<1>2. Good(l)
  <2>1. \A k \in 0 .. l : Good(k)
    BY <1>1, Zenon
  <2>2. l \in 0 .. l
    OBVIOUS
  <2> QED BY <2>1, <2>2, Zenon
<1> QED BY <1>2 DEF Good

-----------------------------------------------------------------------------
(* What a run counts *)

Where(p, symbols) == {i \in DOMAIN p : p[i].sym \in symbols}

\* Where a function is left.
Drops(h, p) == {i \in DOMAIN p : h[i].f # h[i + 1].f}

LEMMA WhereOne ==
  ASSUME NEW p, NEW n \in Nat, DOMAIN p = 1 .. n, NEW symbols
  PROVE  /\ Where(p, symbols) \in SUBSET (1 .. n) /\ IsFiniteSet(Where(p, symbols))
         /\ Cardinality(Where(p, symbols)) \in Nat
         /\ \A i \in 1 .. n : One(i \in Where(p, symbols)) = One(p[i].sym \in symbols)
<1>1. Where(p, symbols) \in SUBSET (1 .. n)
  BY DEF Where
<1>2. IsFiniteSet(1 .. n)
  BY FS_Interval
<1>3. IsFiniteSet(Where(p, symbols)) /\ Cardinality(Where(p, symbols)) \in Nat
  BY <1>1, <1>2, FS_Subset, FS_CardinalityType
<1>4. ASSUME NEW i \in 1 .. n
      PROVE  One(i \in Where(p, symbols)) = One(p[i].sym \in symbols)
  BY DEF One, Where
<1> QED BY <1>1, <1>3, <1>4

\* A step of a run.
LEMMA RunStep ==
  ASSUME NEW h, NEW p, NEW a, NEW z, IsRun(h, p, a, z), NEW i \in 1 .. Len(p)
  PROVE  h[i] \in Height /\ h[i + 1] \in Height /\ Counts(p[i].sym, h[i], h[i + 1])
<1>1. h[i] \in Height /\ h[i + 1] \in Height /\ Effect(p[i].sym, h[i], h[i + 1])
  BY DEF IsRun
<1> QED BY <1>1, EffectCounts

LEMMA HeightNumbers ==
  ASSUME NEW a \in Height
  PROVE  a.c \in Nat /\ a.s \in Nat /\ a.n \in Nat /\ a.f \in Seq(Nat) /\ Len(a.f) \in Nat
BY DEF Height

\* A run counts the flags on css, but for one with each function that is left.
LEMMA FlagsCount ==
  ASSUME NEW h, NEW p, NEW a, NEW z, IsRun(h, p, a, z), Len(p) \in Nat, DOMAIN p = 1 .. Len(p)
  PROVE  a.c - Len(a.f)
           = (z.c - Len(z.f)) + (Cardinality(Where(p, Closes)) - Cardinality(Where(p, Opens)))
<1>1. PICK n \in Nat : n = Len(p)
  OBVIOUS
<1>2. PICK y : y = [i \in 1 .. n + 1 |-> h[i].c - Len(h[i].f)]
  OBVIOUS
<1>3. \A i \in 1 .. n + 1 : h[i] \in Height
  BY <1>1 DEF IsRun
<1>4. y \in [1 .. n + 1 -> Int] /\ \A i \in 1 .. n + 1 : y[i] = h[i].c - Len(h[i].f)
  BY <1>2, <1>3, HeightNumbers
<1>5. PICK P, M : P = Where(p, Closes) /\ M = Where(p, Opens)
  OBVIOUS
<1>6. /\ P \in SUBSET (1 .. n) /\ M \in SUBSET (1 .. n)
      /\ \A i \in 1 .. n : /\ One(i \in P) = One(p[i].sym \in Closes)
                            /\ One(i \in M) = One(p[i].sym \in Opens)
  BY <1>1, <1>5, WhereOne
<1>7. ASSUME NEW i \in 1 .. n PROVE y[i] = y[i + 1] + (One(i \in P) - One(i \in M))
  <2>1. i \in 1 .. n + 1 /\ i + 1 \in 1 .. n + 1
    OBVIOUS
  <2>2. Counts(p[i].sym, h[i], h[i + 1])
    BY <1>1, RunStep
  <2> QED BY <1>4, <1>6, <2>1, <2>2 DEF Counts
<1>8. y[1] = y[n + 1] + (Cardinality(P) - Cardinality(M))
  BY <1>4, <1>6, <1>7, Summed
<1>9. y[1] = a.c - Len(a.f) /\ y[n + 1] = z.c - Len(z.f)
  <2>1. h[1] = a /\ h[n + 1] = z
    BY <1>1 DEF IsRun
  <2>2. 1 \in 1 .. n + 1 /\ n + 1 \in 1 .. n + 1
    OBVIOUS
  <2> QED BY <1>4, <2>1, <2>2
<1> QED BY <1>5, <1>8, <1>9, SMTT(40)

\* It counts the values on switch_stack.
LEMMA SwitchesCount ==
  ASSUME NEW h, NEW p, NEW a, NEW z, IsRun(h, p, a, z), Len(p) \in Nat, DOMAIN p = 1 .. Len(p)
  PROVE  a.s = z.s + (Cardinality(Where(p, {"cs_switch_end"}))
                      - Cardinality(Where(p, {"cs_switch_start"})))
<1>1. PICK n \in Nat : n = Len(p)
  OBVIOUS
<1>2. PICK y : y = [i \in 1 .. n + 1 |-> h[i].s]
  OBVIOUS
<1>3. \A i \in 1 .. n + 1 : h[i] \in Height
  BY <1>1 DEF IsRun
<1>4. y \in [1 .. n + 1 -> Int] /\ \A i \in 1 .. n + 1 : y[i] = h[i].s
  BY <1>2, <1>3, HeightNumbers
<1>5. PICK P, M : P = Where(p, {"cs_switch_end"}) /\ M = Where(p, {"cs_switch_start"})
  OBVIOUS
<1>6. /\ P \in SUBSET (1 .. n) /\ M \in SUBSET (1 .. n)
      /\ \A i \in 1 .. n : /\ One(i \in P) = One(p[i].sym = "cs_switch_end")
                           /\ One(i \in M) = One(p[i].sym = "cs_switch_start")
  <2>1. \A x, e : One(x \in {e}) = One(x = e)
    BY DEF One
  <2> QED BY <1>1, <1>5, <2>1, WhereOne
<1>7. ASSUME NEW i \in 1 .. n PROVE y[i] = y[i + 1] + (One(i \in P) - One(i \in M))
  <2>1. i \in 1 .. n + 1 /\ i + 1 \in 1 .. n + 1
    OBVIOUS
  <2>2. Counts(p[i].sym, h[i], h[i + 1])
    BY <1>1, RunStep
  <2> QED BY <1>4, <1>6, <2>1, <2>2 DEF Counts
<1>8. y[1] = y[n + 1] + (Cardinality(P) - Cardinality(M))
  BY <1>4, <1>6, <1>7, Summed
<1>9. y[1] = a.s /\ y[n + 1] = z.s
  <2>1. h[1] = a /\ h[n + 1] = z
    BY <1>1 DEF IsRun
  <2>2. 1 \in 1 .. n + 1 /\ n + 1 \in 1 .. n + 1
    OBVIOUS
  <2> QED BY <1>4, <2>1, <2>2
<1> QED BY <1>5, <1>8, <1>9

\* And the functions that are left, which have no loops then.
LEMMA FunctionsCount ==
  ASSUME NEW h, NEW p, NEW a, NEW z, IsRun(h, p, a, z), Len(p) \in Nat, DOMAIN p = 1 .. Len(p)
  PROVE  /\ Len(a.f) = Len(z.f) + Cardinality(Drops(h, p)) /\ IsFiniteSet(Drops(h, p))
         /\ Drops(h, p) \subseteq Where(p, {"cs_functioncall_end"})
         /\ \A i \in Drops(h, p) : h[i].n = 0
<1>1. PICK n \in Nat : n = Len(p)
  OBVIOUS
<1>2. PICK y : y = [i \in 1 .. n + 1 |-> Len(h[i].f)]
  OBVIOUS
<1>3. \A i \in 1 .. n + 1 : h[i] \in Height
  BY <1>1 DEF IsRun
<1>4. y \in [1 .. n + 1 -> Int] /\ \A i \in 1 .. n + 1 : y[i] = Len(h[i].f)
  BY <1>2, <1>3, HeightNumbers
<1>5. PICK P, M : P = Drops(h, p) /\ M = {}
  OBVIOUS
<1>6. P \in SUBSET (1 .. n) /\ M \in SUBSET (1 .. n)
  BY <1>1, <1>5 DEF Drops
<1>7. ASSUME NEW i \in 1 .. n
      PROVE  /\ y[i] = y[i + 1] + (One(i \in P) - One(i \in M))
             /\ i \in P => p[i].sym = "cs_functioncall_end" /\ h[i].n = 0
  <2>1. i \in 1 .. n + 1 /\ i + 1 \in 1 .. n + 1 /\ i \in DOMAIN p
    BY <1>1
  <2>2. Counts(p[i].sym, h[i], h[i + 1])
    BY <1>1, RunStep
  <2>3. CASE i \in P
    <3>1. h[i].f # h[i + 1].f
      BY <1>5, <2>3 DEF Drops
    <3>2. p[i].sym = "cs_functioncall_end" /\ Len(h[i].f) = Len(h[i + 1].f) + 1 /\ h[i].n = 0
      BY <2>2, <3>1 DEF Counts
    <3>3. One(i \in P) = 1 /\ One(i \in M) = 0
      BY <1>5, <2>3 DEF One
    <3>4. y[i] = y[i + 1] + 1 /\ y[i + 1] \in Int
      BY <1>4, <2>1, <3>2
    <3>5. y[i] = y[i + 1] + (One(i \in P) - One(i \in M))
      BY <3>3, <3>4
    <3> QED BY <3>2, <3>5
  <2>4. CASE i \notin P
    <3>1. h[i].f = h[i + 1].f
      BY <1>5, <2>1, <2>4 DEF Drops
    <3>2. One(i \in P) = 0 /\ One(i \in M) = 0
      BY <1>5, <2>4 DEF One
    <3>3. y[i] = y[i + 1] /\ y[i + 1] \in Int
      BY <1>4, <2>1, <3>1
    <3> QED BY <2>4, <3>2, <3>3
  <2> QED BY <2>3, <2>4
<1>8. y[1] = y[n + 1] + (Cardinality(P) - Cardinality(M)) /\ Cardinality(P) \in Nat
  BY <1>4, <1>6, <1>7, Summed
<1>9. y[1] = Len(a.f) /\ y[n + 1] = Len(z.f)
  <2>1. h[1] = a /\ h[n + 1] = z
    BY <1>1 DEF IsRun
  <2>2. 1 \in 1 .. n + 1 /\ n + 1 \in 1 .. n + 1
    OBVIOUS
  <2> QED BY <1>4, <2>1, <2>2
<1>10. Len(a.f) = Len(z.f) + Cardinality(P)
  <2>1. Cardinality(M) = 0
    BY <1>5, FS_EmptySet
  <2>2. y[n + 1] \in Int
    BY <1>4
  <2> QED BY <1>8, <1>9, <2>1, <2>2
<1>11. IsFiniteSet(P)
  <2>1. IsFiniteSet(1 .. n)
    BY FS_Interval
  <2> QED BY <1>6, <2>1, FS_Subset
<1>12. P \subseteq Where(p, {"cs_functioncall_end"})
  BY <1>1, <1>6, <1>7 DEF Where
<1>13. \A i \in P : h[i].n = 0
  BY <1>6, <1>7
<1> QED BY <1>5, <1>10, <1>11, <1>12, <1>13

-----------------------------------------------------------------------------
(* The parsers that wait *)

\* The height of the parser at a level.
Station(U, a, k) == IF k = 0 THEN a ELSE U[k]

\* A parser ends one flag and one function above the one that waits for it.
LEMMA LevelEnds ==
  ASSUME NEW U \in Seq(Height), NEW a \in Height, NEW l \in Nat, l = Len(U), NEW k \in 0 .. l
  PROVE  /\ Station(U, a, k) \in Height /\ Bottom(Pop(U, k)) \in Height
         /\ Bottom(Pop(U, k)).n = 0
         /\ k # l => /\ Bottom(Pop(U, k)).c = Station(U, a, k + 1).c + 1
                     /\ Bottom(Pop(U, k)).s = Station(U, a, k + 1).s
                     /\ Len(Bottom(Pop(U, k)).f) = Len(Station(U, a, k + 1).f) + 1
         /\ k = l => /\ Bottom(Pop(U, k)).c = 0 /\ Bottom(Pop(U, k)).s = 0
                     /\ Len(Bottom(Pop(U, k)).f) = 0
<1>1. Station(U, a, k) \in Height
  BY DEF Station
<1>2. PICK V \in Seq(Height) : /\ V = Pop(U, k) /\ Len(V) = l - k
                               /\ \A i \in 1 .. l - k : V[i] = U[i + k]
  <2>1. Pop(U, k) \in Seq(Height) /\ Len(Pop(U, k)) = l - k
        /\ \A i \in 1 .. l - k : Pop(U, k)[i] = U[i + k]
    BY Popped
  <2> QED BY <2>1, Zenon
<1>3. CASE k # l
  <2>1. V # <<>> /\ V[1] = U[k + 1] /\ k + 1 # 0 /\ k + 1 \in 1 .. l
    BY <1>2, <1>3
  <2>2. PICK u \in Height : u = U[k + 1]
    BY <2>1
  <2>3. Bottom(V) = Under(u) /\ Station(U, a, k + 1) = u
    BY <2>1, <2>2 DEF Bottom, Station
  <2>4. /\ Under(u) \in Height /\ Under(u).c = u.c + 1 /\ Under(u).s = u.s
        /\ Under(u).f = Push(0, u.f) /\ Under(u).n = 0 /\ u.f \in Seq(Nat)
    BY UnderType
  <2>5. Len(Push(0, u.f)) = Len(u.f) + 1
    <3>1. PICK f \in Seq(Nat) : f = u.f
      BY <2>4
    <3>2. Len(Push(0, f)) = Len(f) + 1
      BY Pushed, ZenonT(60)
    <3> QED BY <3>1, <3>2
  <2>6. PICK b \in Height : b = Bottom(V)
    BY <2>3, <2>4
  <2>7. PICK y : y = Station(U, a, k + 1)
    OBVIOUS
  <2>8. b.n = 0 /\ b.c = y.c + 1 /\ b.s = y.s /\ Len(b.f) = Len(y.f) + 1
    BY <2>3, <2>4, <2>5, <2>6, <2>7
  <2> QED BY <1>1, <1>2, <1>3, <2>6, <2>7, <2>8
<1>4. CASE k = l
  <2>1. V = <<>>
    BY <1>2, <1>4
  <2>2. Bottom(V) = Ground
    BY <2>1 DEF Bottom
  <2>3. PICK z : z = Ground
    OBVIOUS
  <2>4. z.c = 0 /\ z.s = 0 /\ z.n = 0 /\ Len(z.f) = 0 /\ z \in Height
    <3>1. <<>> \in Seq(Kind) /\ <<>> \in Seq(Nat) /\ Len(<<>>) = 0 /\ 0 \in Nat /\ 0 \in 0 .. 6
      OBVIOUS
    <3> QED BY <2>3, <3>1 DEF Ground, Height
  <2> QED BY <1>1, <1>2, <1>4, <2>2, <2>3, <2>4
<1> QED BY <1>3, <1>4

\* The parsers at all levels are on runs.
LEMMA LevelRuns ==
  ASSUME InputInv, NEW U, NEW a, Shape(U, a, parse, suspended), NEW l \in Nat, l = Len(U)
  PROVE  /\ a \in Height /\ U \in Seq(Height) /\ l = Len(suspended) /\ DOMAIN Left = 0 .. l
         /\ Left[0] = parse
         /\ \A k \in 0 .. l : /\ Len(Left[k]) \in Nat /\ DOMAIN Left[k] = 1 .. Len(Left[k])
                              /\ Runs(Left[k], Station(U, a, k), Bottom(Pop(U, k)))
<1>1. /\ a \in Height /\ U \in Seq(Height) /\ Len(U) = Len(suspended)
      /\ Runs(parse, a, Bottom(U))
      /\ \A k \in 1 .. Len(U) : Runs(suspended[k].parse, U[k], Bottom(Pop(U, k)))
  BY DEF Shape
<1>2. Left = [k \in 0 .. l |-> IF k = 0 THEN parse ELSE suspended[k].parse]
  BY <1>1 DEF Left
<1>3. PICK n : SymbolsOK(parse, n) /\ FramesOK(suspended, n)
  BY InputParts
<1>4. ASSUME NEW k \in 0 .. l
      PROVE  /\ Len(Left[k]) \in Nat /\ DOMAIN Left[k] = 1 .. Len(Left[k])
             /\ Runs(Left[k], Station(U, a, k), Bottom(Pop(U, k)))
  <2>1. CASE k = 0
    <3>1. Left[k] = parse
      BY <1>2, <2>1
    <3>2. parse \in Seq(Items(TokenOrEOF))
      BY <1>3 DEF SymbolsOK
    <3>3. Pop(U, 0) = U
      BY <1>1, PopNone
    <3> QED BY <1>1, <2>1, <3>1, <3>2, <3>3 DEF Station
  <2>2. CASE k # 0
    <3>1. k \in 1 .. Len(suspended) /\ k \in 1 .. Len(U)
      BY <1>1, <2>2
    <3>2. Left[k] = suspended[k].parse
      BY <1>2, <2>2
    <3>3. suspended[k].parse \in Seq(Items(TokenOrEOF))
      BY <1>3, <3>1 DEF FramesOK, FrameOK, SymbolsOK
    <3>4. Station(U, a, k) = U[k]
      BY <2>2 DEF Station
    <3> QED BY <1>1, <3>1, <3>2, <3>3, <3>4
  <2> QED BY <2>1, <2>2
<1>5. DOMAIN Left = 0 .. l /\ Left[0] = parse
  BY <1>2
<1> QED BY <1>1, <1>4, <1>5

\* The places of StacksFollowParser, as those of LevelsSummed.
LEMMA PlacesUpTo ==
  ASSUME NEW l \in Nat, DOMAIN Left = 0 .. l, NEW symbols
  PROVE  Places(symbols, Left) = UpTo([k \in 0 .. l |-> Where(Left[k], symbols)], l)
<1> DEFINE A == [k \in 0 .. l |-> Where(Left[k], symbols)]
<1>1. \A k \in 0 .. l : {k} \X {i \in DOMAIN Left[k] : Left[k][i].sym \in symbols} = {k} \X A[k]
  BY DEF Where
<1>2. Places(symbols, Left)
        = UNION {{k} \X {i \in DOMAIN Left[k] : Left[k][i].sym \in symbols} : k \in 0 .. l}
  BY DEF Places
<1> HIDE DEF A
<1>3. {{k} \X {i \in DOMAIN Left[k] : Left[k][i].sym \in symbols} : k \in 0 .. l}
        = {{k} \X A[k] : k \in 0 .. l}
  BY <1>1
<1>4. Places(symbols, Left) = UNION {{k} \X A[k] : k \in 0 .. l}
  BY <1>2, <1>3, Zenon
<1>5. UpTo(A, l) = UNION {{k} \X A[k] : k \in 0 .. l}
  BY Zenon DEF UpTo
<1>6. Places(symbols, Left) = UpTo(A, l)
  BY <1>4, <1>5, Zenon
<1> QED BY <1>6 DEF A

\* The stacks at the places of all parsers.
LEMMA LevelsCount ==
  ASSUME InputInv, NEW U, NEW a, Shape(U, a, parse, suspended)
  PROVE  /\ a.c - Len(a.f) = Level(Opens, Closes, Left)
         /\ a.s = Level({"cs_switch_start"}, {"cs_switch_end"}, Left)
<1>1. PICK l \in Nat : l = Len(U)
  BY DEF Shape
<1>2. /\ a \in Height /\ U \in Seq(Height) /\ DOMAIN Left = 0 .. l
      /\ \A k \in 0 .. l : /\ Len(Left[k]) \in Nat /\ DOMAIN Left[k] = 1 .. Len(Left[k])
                           /\ Runs(Left[k], Station(U, a, k), Bottom(Pop(U, k)))
  BY <1>1, LevelRuns
<1>3. PICK P, M, P2, M2 :
        /\ P = [k \in 0 .. l |-> Where(Left[k], Closes)]
        /\ M = [k \in 0 .. l |-> Where(Left[k], Opens)]
        /\ P2 = [k \in 0 .. l |-> Where(Left[k], {"cs_switch_end"})]
        /\ M2 = [k \in 0 .. l |-> Where(Left[k], {"cs_switch_start"})]
  OBVIOUS
<1>4. \A k \in 0 .. l : /\ IsFiniteSet(P[k]) /\ IsFiniteSet(M[k])
                        /\ IsFiniteSet(P2[k]) /\ IsFiniteSet(M2[k])
  BY <1>2, <1>3, WhereOne
<1> DEFINE S(k) == Station(U, a, k)
           B(k) == Bottom(Pop(U, k))
<1>5. PICK y : y = [k \in 0 .. l + 1 |-> IF k = l + 1 THEN 0 ELSE S(k).c - Len(S(k).f)]
  OBVIOUS
<1>6. PICK x : x = [k \in 0 .. l + 1 |-> IF k = l + 1 THEN 0 ELSE S(k).s]
  OBVIOUS
<1>7. ASSUME NEW k \in 0 .. l
      PROVE  /\ S(k) \in Height /\ B(k) \in Height
             /\ k # l => /\ B(k).c = S(k + 1).c + 1 /\ B(k).s = S(k + 1).s
                         /\ Len(B(k).f) = Len(S(k + 1).f) + 1
             /\ k = l => B(k).c = 0 /\ B(k).s = 0 /\ Len(B(k).f) = 0
  BY <1>1, <1>2, LevelEnds
<1>8. ASSUME NEW k \in 0 .. l
      PROVE  /\ S(k).c - Len(S(k).f)
                  = (B(k).c - Len(B(k).f)) + (Cardinality(P[k]) - Cardinality(M[k]))
             /\ S(k).s = B(k).s + (Cardinality(P2[k]) - Cardinality(M2[k]))
  <2>1. PICK h : IsRun(h, Left[k], S(k), B(k))
    BY <1>2 DEF Runs
  <2>2. Len(Left[k]) \in Nat /\ DOMAIN Left[k] = 1 .. Len(Left[k])
    BY <1>2
  <2>3. P[k] = Where(Left[k], Closes) /\ M[k] = Where(Left[k], Opens)
        /\ P2[k] = Where(Left[k], {"cs_switch_end"}) /\ M2[k] = Where(Left[k], {"cs_switch_start"})
    BY <1>3
  <2> HIDE DEF S, B
  <2>4. S(k).c - Len(S(k).f) = (B(k).c - Len(B(k).f))
           + (Cardinality(Where(Left[k], Closes)) - Cardinality(Where(Left[k], Opens)))
    BY <2>1, <2>2, FlagsCount
  <2>5. S(k).s = B(k).s + (Cardinality(Where(Left[k], {"cs_switch_end"}))
                           - Cardinality(Where(Left[k], {"cs_switch_start"})))
    BY <2>1, <2>2, SwitchesCount
  <2> QED BY <2>3, <2>4, <2>5
<1>9. S(0) = a
  BY DEF Station
<1> HIDE DEF S, B
<1>10. /\ y \in [0 .. l + 1 -> Int] /\ y[l + 1] = 0 /\ x \in [0 .. l + 1 -> Int] /\ x[l + 1] = 0
       /\ \A k \in 0 .. l : y[k] = S(k).c - Len(S(k).f) /\ x[k] = S(k).s
  <2>1. ASSUME NEW k \in 0 .. l PROVE k # l + 1 /\ k \in 0 .. l + 1
    OBVIOUS
  <2>2. ASSUME NEW k \in 0 .. l
        PROVE /\ y[k] = S(k).c - Len(S(k).f) /\ y[k] \in Int /\ x[k] = S(k).s /\ x[k] \in Int
    <3>1. S(k).c \in Nat /\ Len(S(k).f) \in Nat /\ S(k).s \in Nat
      BY <1>7, HeightNumbers
    <3> QED BY <1>5, <1>6, <2>1, <3>1
  <2>3. y[l + 1] = 0 /\ x[l + 1] = 0
    BY <1>5, <1>6
  <2>4. \A k \in 0 .. l + 1 : y[k] \in Int /\ x[k] \in Int
    <3>1. \A k \in 0 .. l + 1 : k = l + 1 \/ k \in 0 .. l
      OBVIOUS
    <3> QED BY <2>2, <2>3, <3>1
  <2> QED BY <1>5, <1>6, <2>2, <2>3, <2>4
<1>11. ASSUME NEW k \in 0 .. l
       PROVE  /\ y[k] = y[k + 1] + (Cardinality(P[k]) - Cardinality(M[k]))
              /\ x[k] = x[k + 1] + (Cardinality(P2[k]) - Cardinality(M2[k]))
  <2>1. y[k + 1] = B(k).c - Len(B(k).f) /\ x[k + 1] = B(k).s
    <3>1. CASE k = l
      BY <1>7, <1>10, <3>1
    <3>2. CASE k # l
      <4>1. k + 1 \in 0 .. l
        BY <3>2
      <4>2. PICK c \in Nat, m \in Nat : c = S(k + 1).c /\ m = Len(S(k + 1).f)
        BY <1>7, <4>1, HeightNumbers
      <4>3. B(k).c = c + 1 /\ Len(B(k).f) = m + 1 /\ y[k + 1] = c - m
        BY <1>7, <1>10, <3>2, <4>1, <4>2
      <4> QED BY <1>7, <1>10, <3>2, <4>1, <4>3
    <3> QED BY <3>1, <3>2
  <2> QED BY <1>8, <1>10, <2>1
<1>12. /\ y[0] = y[l + 1] + (Cardinality(UpTo(P, l)) - Cardinality(UpTo(M, l)))
       /\ IsFiniteSet(UpTo(P, l)) /\ IsFiniteSet(UpTo(M, l))
  BY <1>4, <1>10, <1>11, LevelsSummed
<1>13. /\ x[0] = x[l + 1] + (Cardinality(UpTo(P2, l)) - Cardinality(UpTo(M2, l)))
       /\ IsFiniteSet(UpTo(P2, l)) /\ IsFiniteSet(UpTo(M2, l))
  BY <1>4, <1>10, <1>11, LevelsSummed
<1>14. y[0] = a.c - Len(a.f) /\ x[0] = a.s
  <2>1. 0 \in 0 .. l
    OBVIOUS
  <2> QED BY <1>9, <1>10, <2>1
<1>15. /\ Places(Closes, Left) = UpTo(P, l) /\ Places(Opens, Left) = UpTo(M, l)
       /\ Places({"cs_switch_end"}, Left) = UpTo(P2, l)
       /\ Places({"cs_switch_start"}, Left) = UpTo(M2, l)
  BY <1>2, <1>3, PlacesUpTo
<1>16. /\ Cardinality(UpTo(P, l)) \in Nat /\ Cardinality(UpTo(M, l)) \in Nat
       /\ Cardinality(UpTo(P2, l)) \in Nat /\ Cardinality(UpTo(M2, l)) \in Nat
  BY <1>12, <1>13, FS_CardinalityType
<1>17. a.c - Len(a.f) = Cardinality(UpTo(P, l)) - Cardinality(UpTo(M, l))
  BY <1>10, <1>12, <1>14, <1>16
<1>18. a.s = Cardinality(UpTo(P2, l)) - Cardinality(UpTo(M2, l))
  BY <1>10, <1>13, <1>14, <1>16
<1> QED BY <1>15, <1>17, <1>18 DEF Level

\* The places D are counted by y from level to level, and are places E: if there are as
\* many of these, they are all of them.
CountedAmong(l, D, E, y) ==
  /\ y \in [0 .. l + 1 -> Int]
  /\ \A k \in 0 .. l : /\ IsFiniteSet(E[k]) /\ D[k] \subseteq E[k]
                        /\ y[k] = y[k + 1] + Cardinality(D[k])
LEMMA EveryPlace ==
  ASSUME NEW l \in Nat, NEW D, NEW E, NEW y, CountedAmong(l, D, E, y),
         Cardinality(UpTo(E, l)) = y[0] - y[l + 1]
  PROVE  D[0] = E[0]
<1> USE DEF CountedAmong
<1>1. PICK M : M = [k \in 0 .. l |-> {}]
  OBVIOUS
<1>2. ASSUME NEW k \in 0 .. l
      PROVE  /\ IsFiniteSet(D[k]) /\ IsFiniteSet(E[k]) /\ IsFiniteSet(M[k])
             /\ Cardinality(D[k]) \in Nat /\ Cardinality(E[k]) \in Nat /\ Cardinality(M[k]) = 0
  <2>1. IsFiniteSet({}) /\ Cardinality({}) = 0
    BY FS_EmptySet
  <2>2. IsFiniteSet(D[k]) /\ IsFiniteSet(E[k])
    BY FS_Subset
  <2> QED BY <1>1, <2>1, <2>2, FS_CardinalityType
<1>3. \A k \in 0 .. l : y[k] = y[k + 1] + (Cardinality(D[k]) - Cardinality(M[k]))
  <2>1. ASSUME NEW k \in 0 .. l PROVE y[k] = y[k + 1] + (Cardinality(D[k]) - Cardinality(M[k]))
    <3>1. PICK d \in Nat : d = Cardinality(D[k])
      BY <1>2
    <3> QED BY <1>2, <3>1
  <2> QED BY <2>1
<1>4. /\ y[0] = y[l + 1] + (Cardinality(UpTo(D, l)) - Cardinality(UpTo(M, l)))
      /\ IsFiniteSet(UpTo(D, l))
  BY <1>2, <1>3, LevelsSummed
<1>5. Cardinality(UpTo(M, l)) = 0
  <2>1. UpTo(M, l) = {}
    <3> SUFFICES ASSUME NEW x \in UpTo(M, l) PROVE FALSE
      OBVIOUS
    <3>1. PICK j \in 0 .. l : x \in {j} \X M[j]
      BY Zenon DEF UpTo
    <3> QED BY <1>1, <3>1
  <2> QED BY <2>1, FS_EmptySet
<1>6. Cardinality(UpTo(D, l)) = Cardinality(UpTo(E, l))
  <2>1. PICK d \in Nat, u \in Int, v \in Int :
          d = Cardinality(UpTo(D, l)) /\ u = y[0] /\ v = y[l + 1]
    <3>1. 0 \in 0 .. l + 1 /\ l + 1 \in 0 .. l + 1
      OBVIOUS
    <3> QED BY <1>4, <3>1, FS_CardinalityType
  <2>2. u = v + (d - 0)
    BY <1>4, <1>5, <2>1
  <2> QED BY <2>1, <2>2
<1>7. UpTo(D, l) \subseteq UpTo(E, l)
  <2> SUFFICES ASSUME NEW x \in UpTo(D, l) PROVE x \in UpTo(E, l)
    OBVIOUS
  <2>1. PICK j \in 0 .. l : x \in {j} \X D[j]
    BY Zenon DEF UpTo
  <2>2. x \in {j} \X E[j]
    BY <2>1
  <2> QED BY <2>2, Zenon DEF UpTo
<1>8. IsFiniteSet(UpTo(E, l))
  <2>1. PICK z : z = [k \in 0 .. l + 1 |-> 0]
    OBVIOUS
  <2>2. /\ z \in [0 .. l + 1 -> Int]
        /\ \A k \in 0 .. l : z[k] = z[k + 1] + (Cardinality(E[k]) - Cardinality(E[k]))
    <3>1. \A k \in 0 .. l : z[k] = 0 /\ z[k + 1] = 0
      BY <2>1
    <3> QED BY <1>2, <2>1, <3>1
  <2> QED BY <1>2, <2>2, LevelsSummed
<1>9. UpTo(D, l) = UpTo(E, l)
  BY <1>6, <1>7, <1>8, FS_Subset
<1>10. ASSUME NEW i \in E[0] PROVE i \in D[0]
  <2>1. PICK x : x = <<0, i>>
    OBVIOUS
  <2>2. x \in {0} \X E[0] /\ 0 \in 0 .. l
    BY <2>1
  <2>3. x \in UpTo(E, l)
    BY <2>2, Zenon DEF UpTo
  <2>4. x \in UpTo(D, l)
    BY <1>9, <2>3
  <2>5. PICK j \in 0 .. l : x \in {j} \X D[j]
    BY <2>4, Zenon DEF UpTo
  <2>6. <<0, i>> \in {j} \X D[j]
    BY <2>1, <2>5
  <2> QED BY <2>6
<1>11. D[0] \subseteq E[0]
  <2>1. 0 \in 0 .. l
    OBVIOUS
  <2> QED BY <2>1
<1> QED BY <1>10, <1>11

\* If no call is pending that was skipped, a function is left at the end of
\* every call.
LEMMA CallsCount ==
  ASSUME InputInv, NEW U, NEW a, Shape(U, a, parse, suspended),
         Cardinality(Places({"cs_functioncall_end"}, Left)) = Len(a.f) - Len(suspended)
  PROVE  \E h : /\ IsRun(h, parse, a, Bottom(U))
                /\ Drops(h, parse) = Where(parse, {"cs_functioncall_end"})
<1>1. PICK l \in Nat : l = Len(U)
  BY DEF Shape
<1>2. /\ a \in Height /\ U \in Seq(Height) /\ l = Len(suspended)
      /\ DOMAIN Left = 0 .. l /\ Left[0] = parse
      /\ \A k \in 0 .. l : /\ Len(Left[k]) \in Nat /\ DOMAIN Left[k] = 1 .. Len(Left[k])
                           /\ Runs(Left[k], Station(U, a, k), Bottom(Pop(U, k)))
  BY <1>1, LevelRuns
<1> DEFINE S(k) == Station(U, a, k)
           B(k) == Bottom(Pop(U, k))
           H(k) == CHOOSE h : IsRun(h, Left[k], S(k), B(k))
<1>3. \A k \in 0 .. l : IsRun(H(k), Left[k], S(k), B(k))
  BY <1>2, Zenon DEF Runs
<1> HIDE DEF H
<1>4. ASSUME NEW k \in 0 .. l
      PROVE  /\ S(k) \in Height /\ B(k) \in Height
             /\ k # l => Len(B(k).f) = Len(S(k + 1).f) + 1
             /\ k = l => Len(B(k).f) = 0
  <2>1. /\ S(k) \in Height /\ B(k) \in Height
        /\ k # l => /\ B(k).c = S(k + 1).c + 1 /\ B(k).s = S(k + 1).s
                    /\ Len(B(k).f) = Len(S(k + 1).f) + 1
        /\ k = l => B(k).c = 0 /\ B(k).s = 0 /\ Len(B(k).f) = 0
    <3>1. U \in Seq(Height) /\ a \in Height /\ l = Len(U)
      BY <1>1, <1>2
    <3> QED BY <3>1, LevelEnds
  <2> QED BY <2>1
<1>5. S(0) = a /\ B(0) = Bottom(U)
  BY <1>2, PopNone DEF Station
<1> HIDE DEF S, B
<1>6. PICK D, E : /\ D = [k \in 0 .. l |-> Drops(H(k), Left[k])]
                  /\ E = [k \in 0 .. l |-> Where(Left[k], {"cs_functioncall_end"})]
  OBVIOUS
<1>7. ASSUME NEW k \in 0 .. l
      PROVE  /\ IsFiniteSet(D[k]) /\ IsFiniteSet(E[k]) /\ D[k] \subseteq E[k]
             /\ Len(S(k).f) = Len(B(k).f) + Cardinality(D[k])
  <2>1. PICK p : p = Left[k] /\ Len(p) \in Nat /\ DOMAIN p = 1 .. Len(p)
    BY <1>2
  <2>2. IsRun(H(k), p, S(k), B(k))
    BY <1>3, <2>1
  <2>3. /\ Len(S(k).f) = Len(B(k).f) + Cardinality(Drops(H(k), p)) /\ IsFiniteSet(Drops(H(k), p))
        /\ Drops(H(k), p) \subseteq Where(p, {"cs_functioncall_end"})
    BY <2>1, <2>2, FunctionsCount
  <2>4. IsFiniteSet(Where(p, {"cs_functioncall_end"}))
    BY <2>1, WhereOne
  <2>5. D[k] = Drops(H(k), p) /\ E[k] = Where(p, {"cs_functioncall_end"})
    BY <1>6, <2>1
  <2> QED BY <2>3, <2>4, <2>5
<1>8. PICK y : y = [k \in 0 .. l + 1 |-> IF k = l + 1 THEN l ELSE Len(S(k).f) + k]
  OBVIOUS
<1>9. y \in [0 .. l + 1 -> Int] /\ y[l + 1] = l /\ \A k \in 0 .. l : y[k] = Len(S(k).f) + k
  <2>1. ASSUME NEW k \in 0 .. l PROVE y[k] = Len(S(k).f) + k /\ y[k] \in Int
    <3>1. Len(S(k).f) \in Nat
      BY <1>4, HeightNumbers
    <3>2. k # l + 1 /\ k \in 0 .. l + 1
      OBVIOUS
    <3> QED BY <1>8, <3>1, <3>2
  <2>2. y[l + 1] = l
    BY <1>8
  <2>3. \A k \in 0 .. l + 1 : k = l + 1 \/ k \in 0 .. l
    OBVIOUS
  <2>4. \A k \in 0 .. l + 1 : y[k] \in Int
    BY <2>1, <2>2, <2>3
  <2> QED BY <1>8, <2>1, <2>2, <2>4
<1>10. ASSUME NEW k \in 0 .. l PROVE y[k] = y[k + 1] + Cardinality(D[k])
  <2>1. PICK d \in Nat, m \in Nat : d = Cardinality(D[k]) /\ m = Len(B(k).f)
    BY <1>4, <1>7, FS_CardinalityType, HeightNumbers
  <2>2. y[k + 1] = m + k
    <3>1. CASE k = l
      BY <1>4, <1>9, <2>1, <3>1
    <3>2. CASE k # l
      <4>1. k + 1 \in 0 .. l
        BY <3>2
      <4>2. PICK j \in Nat : j = Len(S(k + 1).f)
        BY <1>4, <4>1, HeightNumbers
      <4>3. m = j + 1 /\ y[k + 1] = j + (k + 1)
        BY <1>4, <1>9, <2>1, <3>2, <4>1, <4>2
      <4> QED BY <4>3
    <3> QED BY <3>1, <3>2
  <2>3. y[k] = (m + d) + k
    BY <1>7, <1>9, <2>1
  <2> QED BY <2>1, <2>2, <2>3
<1>11. Cardinality(UpTo(E, l)) = y[0] - y[l + 1]
  <2>1. Places({"cs_functioncall_end"}, Left) = UpTo(E, l)
    BY <1>2, <1>6, PlacesUpTo
  <2>2. y[0] = Len(a.f) + 0 /\ Len(a.f) \in Nat
    <3>1. 0 \in 0 .. l
      OBVIOUS
    <3> QED BY <1>2, <1>5, <1>9, <3>1, HeightNumbers
  <2> QED BY <1>2, <1>9, <2>1, <2>2
<1>12. D[0] = E[0]
  <2>1. CountedAmong(l, D, E, y)
    BY <1>7, <1>9, <1>10 DEF CountedAmong
  <2> QED BY <1>11, <2>1, EveryPlace, Zenon
<1>13. 0 \in 0 .. l
  OBVIOUS
<1> QED BY <1>2, <1>3, <1>5, <1>6, <1>12, <1>13

LEMMA OneLevel ==
  ASSUME NEW q, NEW symbols, IsFiniteSet(Where(q, symbols))
  PROVE  Cardinality(Places(symbols, <<q>>)) = Cardinality(Where(q, symbols))
<1>1. DOMAIN <<q>> = {1} /\ <<q>>[1] = q
  OBVIOUS
<1>2. Places(symbols, <<q>>) = UNION {{k} \X {i \in DOMAIN <<q>>[k] : <<q>>[k][i].sym \in symbols} :
                                        k \in {1}}
  BY <1>1, Zenon DEF Places
<1>3. Places(symbols, <<q>>) = {1} \X {i \in DOMAIN <<q>>[1] : <<q>>[1][i].sym \in symbols}
  BY <1>2
<1>4. Places(symbols, <<q>>) = {1} \X Where(q, symbols)
  BY <1>1, <1>3, Zenon DEF Where
<1> QED BY <1>4, TaggedCount

\* The loops at the places of the current function.
LEMMA LoopsCount ==
  ASSUME NEW I, parse \in Seq(I), NEW h, NEW a, NEW z, IsRun(h, parse, a, z), z.n = 0,
         Drops(h, parse) = Where(parse, {"cs_functioncall_end"})
  PROVE  a.n = Level(LoopStarts, LoopEnds, <<Current>>)
<1>1. PICK n \in Nat : n = Len(parse) /\ DOMAIN parse = 1 .. n
  OBVIOUS
<1>2. \A i \in 1 .. n + 1 : h[i] \in Height
  BY <1>1 DEF IsRun
<1>3. h[1] = a /\ h[n + 1] = z
  BY <1>1 DEF IsRun
<1>4. Calls = Where(parse, {"cs_functioncall_end"})
  BY DEF Calls, Where
<1>5. "cs_functioncall_end" \notin LoopStarts /\ "cs_functioncall_end" \notin LoopEnds
  BY DEF LoopStarts, LoopEnds
<1>6. PICK j \in 0 .. n : /\ h[j + 1].n = 0 /\ \A i \in 1 .. j : i \notin Calls
                          /\ \A symbols : "cs_functioncall_end" \notin symbols =>
                               Where(Current, symbols) = Where(parse, symbols) \cap (1 .. j)
  <2>1. CASE Calls = {}
    <3>1. Current = parse
      BY <2>1 DEF Current
    <3>2. n \in 0 .. n /\ h[n + 1].n = 0 /\ \A i \in 1 .. n : i \notin Calls
      BY <1>3, <2>1
    <3>3. \A symbols : Where(Current, symbols) = Where(parse, symbols) \cap (1 .. n)
      BY <1>1, <3>1 DEF Where
    <3> QED BY <3>2, <3>3
  <2>2. CASE Calls # {}
    <3> DEFINE c == CHOOSE i \in Calls : \A k \in Calls : i <= k
    <3>1. Current = SubSeq(parse, 1, c)
      BY <2>2 DEF Current
    <3>2. c \in Calls /\ \A k \in Calls : c <= k
      <4>1. Calls \in SUBSET Nat
        BY <1>1 DEF Calls
      <4>2. \E i \in Calls : \A k \in Calls : i <= k
        BY <2>2, <4>1, Least
      <4> QED BY <4>2, Zenon
    <3> HIDE DEF c
    <3>3. c \in 1 .. n /\ parse[c].sym = "cs_functioncall_end"
      BY <1>1, <3>2 DEF Calls
    <3>4. PICK j \in 0 .. n : j + 1 = c
      <4>1. c - 1 \in 0 .. n /\ (c - 1) + 1 = c
        BY <3>3
      <4> QED BY <4>1
    <3>5. h[j + 1].n = 0
      <4>1. c \in Drops(h, parse)
        BY <1>4, <3>2
      <4>2. \A i \in Drops(h, parse) : h[i].n = 0
        <5>1. Len(parse) \in Nat /\ DOMAIN parse = 1 .. Len(parse)
          BY <1>1
        <5> QED BY <5>1, FunctionsCount
      <4> QED BY <3>4, <4>1, <4>2
    <3>6. \A i \in 1 .. j : i \notin Calls
      BY <3>2, <3>3, <3>4
    <3>7. ASSUME NEW symbols, "cs_functioncall_end" \notin symbols
          PROVE  Where(Current, symbols) = Where(parse, symbols) \cap (1 .. j)
      <4>1. DOMAIN Current = 1 .. j + 1 /\ \A i \in 1 .. j + 1 : Current[i] = parse[i]
        BY <1>1, <3>1, <3>3, <3>4
      <4>2. ASSUME NEW i \in Where(Current, symbols)
            PROVE  i \in Where(parse, symbols) \cap (1 .. j)
        <5>1. i \in 1 .. j + 1 /\ Current[i].sym \in symbols /\ Current[i] = parse[i]
          BY <4>1 DEF Where
        <5>2. i # j + 1
          BY <3>3, <3>4, <3>7, <5>1
        <5>3. i \in 1 .. j /\ i \in 1 .. n
          BY <5>1, <5>2
        <5> QED BY <1>1, <5>1, <5>3 DEF Where
      <4>3. ASSUME NEW i \in Where(parse, symbols) \cap (1 .. j)
            PROVE  i \in Where(Current, symbols)
        BY <4>1 DEF Where
      <4> QED BY <4>2, <4>3
    <3> QED BY <3>5, <3>6, <3>7
  <2> QED BY <2>1, <2>2
<1>7. PICK P, M : P = Where(Current, LoopEnds) /\ M = Where(Current, LoopStarts)
  OBVIOUS
<1>8. P = Where(parse, LoopEnds) \cap (1 .. j) /\ M = Where(parse, LoopStarts) \cap (1 .. j)
  BY <1>5, <1>6, <1>7
<1>9. P \in SUBSET (1 .. j) /\ M \in SUBSET (1 .. j)
  BY <1>8
<1>10. PICK y : y = [i \in 1 .. j + 1 |-> h[i].n]
  OBVIOUS
<1>11. y \in [1 .. j + 1 -> Int] /\ \A i \in 1 .. j + 1 : y[i] = h[i].n
  <2>1. \A i \in 1 .. j + 1 : h[i].n \in Nat
    BY <1>2, HeightNumbers
  <2> QED BY <1>10, <2>1
<1>12. ASSUME NEW i \in 1 .. j PROVE y[i] = y[i + 1] + (One(i \in P) - One(i \in M))
  <2>1. i \in 1 .. n /\ i \in 1 .. j + 1 /\ i + 1 \in 1 .. j + 1
    OBVIOUS
  <2>2. Counts(parse[i].sym, h[i], h[i + 1])
    BY <1>1, <2>1, RunStep
  <2>3. parse[i].sym # "cs_functioncall_end"
    BY <1>1, <1>6, <2>1 DEF Calls
  <2>4. One(i \in P) = One(parse[i].sym \in LoopEnds)
        /\ One(i \in M) = One(parse[i].sym \in LoopStarts)
    BY <1>1, <1>8, <2>1 DEF One, Where
  <2> QED BY <1>11, <2>1, <2>2, <2>3, <2>4 DEF Counts
<1>13. /\ y[1] = y[j + 1] + (Cardinality(P) - Cardinality(M))
       /\ Cardinality(P) \in Nat /\ Cardinality(M) \in Nat
  <2>1. j \in Nat
    OBVIOUS
  <2>2. \A i \in 1 .. j : y[i] = y[i + 1] + (One(i \in P) - One(i \in M))
    BY <1>12
  <2> QED BY <1>9, <1>11, <2>1, <2>2, Summed, ZenonT(60)
<1>14. y[1] = a.n /\ y[j + 1] = 0
  <2>1. 1 \in 1 .. j + 1 /\ j + 1 \in 1 .. j + 1
    OBVIOUS
  <2> QED BY <1>3, <1>6, <1>11, <2>1
<1>15. IsFiniteSet(P) /\ IsFiniteSet(M)
  <2>1. IsFiniteSet(1 .. j)
    BY FS_Interval
  <2> QED BY <1>9, <2>1, FS_Subset
<1>16. /\ Cardinality(Places(LoopEnds, <<Current>>)) = Cardinality(P)
       /\ Cardinality(Places(LoopStarts, <<Current>>)) = Cardinality(M)
  BY <1>7, <1>15, OneLevel
<1>17. a.n = Cardinality(P) - Cardinality(M)
  BY <1>13, <1>14
<1> QED BY <1>16, <1>17 DEF Level

-----------------------------------------------------------------------------
(* The marks in the stack of for statements *)

MarksOf(s) == {i \in DOMAIN s : s[i] = -1}

\* A mark stands on the for_stack for every function on the other stack.
MarksInv == for_stack \in Seq(Int) /\ Cardinality(Marks) = Len(function_state_stack)

\* The marks can be counted.
LEMMA MarksFinite ==
  ASSUME NEW s \in Seq(Int)
  PROVE  IsFiniteSet(MarksOf(s)) /\ Cardinality(MarksOf(s)) \in Nat
<1>1. PICK n \in Nat : n = Len(s) /\ DOMAIN s = 1 .. n
  OBVIOUS
<1>2. MarksOf(s) \in SUBSET (1 .. n)
  BY <1>1 DEF MarksOf
<1>3. IsFiniteSet(1 .. n)
  BY FS_Interval
<1> QED BY <1>2, <1>3, FS_Subset, FS_CardinalityType

\* Up to the first mark, there is no other one.
LEMMA MarksBehind ==
  ASSUME NEW s \in Seq(Int), NEW c \in 1 .. Len(s), \A j \in 1 .. c - 1 : s[j] # -1
  PROVE  /\ Pop(s, c) \in Seq(Int)
         /\ Cardinality(MarksOf(s)) = Cardinality(MarksOf(Pop(s, c))) + One(s[c] = -1)
<1>1. PICK n \in Nat : n = Len(s) /\ DOMAIN s = 1 .. n
  OBVIOUS
<1>2. PICK t \in Seq(Int) : /\ t = Pop(s, c) /\ Len(t) = n - c /\ DOMAIN t = 1 .. n - c
                            /\ \A k \in 1 .. n - c : t[k] = s[k + c]
  <2>1. c \in 0 .. Len(s)
    OBVIOUS
  <2>2. Pop(s, c) \in Seq(Int) /\ Len(Pop(s, c)) = n - c
        /\ \A k \in 1 .. n - c : Pop(s, c)[k] = s[k + c]
    BY <1>1, <2>1, Popped
  <2>3. PICK t \in Seq(Int) : t = Pop(s, c)
    BY <2>2
  <2>4. DOMAIN t = 1 .. n - c
    BY <2>2, <2>3
  <2> QED BY <2>2, <2>3, <2>4
<1>3. PICK A, B : A = MarksOf(t) /\ B = {i \in 1 .. n : s[i] = -1 /\ i > c}
  OBVIOUS
<1>4. IsFiniteSet(A) /\ Cardinality(A) \in Nat
  BY <1>3, MarksFinite
<1>5. PICK f : f = [k \in A |-> k + c]
  OBVIOUS
<1>6. f \in Bijection(A, B)
  <2>1. \A k \in A : k \in 1 .. n - c /\ s[k + c] = -1
    BY <1>2, <1>3 DEF MarksOf
  <2>2. f \in [A -> B]
    <3>1. \A k \in A : k + c \in B
      <4>1. SUFFICES ASSUME NEW k \in A PROVE k + c \in B
        OBVIOUS
      <4>2. k + c \in 1 .. n /\ k + c > c
        BY <1>1, <2>1
      <4> QED BY <1>3, <2>1, <4>2
    <3> QED BY <1>5, <3>1
  <2>3. \A k, l \in A : f[k] = f[l] => k = l
    <3>1. \A k \in A : f[k] = k + c /\ k \in Int
      BY <1>5, <2>1
    <3> QED BY <3>1
  <2>4. \A i \in B : \E k \in A : f[k] = i
    <3>1. SUFFICES ASSUME NEW i \in B PROVE \E k \in A : f[k] = i
      OBVIOUS
    <3>2. i \in 1 .. n /\ s[i] = -1 /\ i > c
      BY <1>3
    <3>3. PICK k \in 1 .. n - c : k + c = i
      <4>1. i - c \in 1 .. n - c /\ (i - c) + c = i
        BY <1>1, <3>2
      <4> QED BY <4>1
    <3>4. t[k] = -1
      BY <1>2, <3>2, <3>3
    <3>5. k \in A
      BY <1>2, <1>3, <3>4 DEF MarksOf
    <3> QED BY <1>5, <3>3, <3>5
  <2> QED BY <2>2, <2>3, <2>4, Zenon DEF Bijection, Injection, Surjection, IsInjective
<1>7. IsFiniteSet(B) /\ Cardinality(B) = Cardinality(A)
  BY <1>4, <1>6, FS_Bijection DEF ExistsBijection
<1>8. CASE s[c] = -1
  <2>1. MarksOf(s) = B \cup {c} /\ c \notin B
    BY <1>1, <1>3, <1>8 DEF MarksOf
  <2>2. Cardinality(B \cup {c}) = Cardinality(B) + 1
    BY <1>7, <2>1, FS_AddElement
  <2> QED BY <1>2, <1>3, <1>7, <1>8, <2>1, <2>2 DEF One
<1>9. CASE s[c] # -1
  <2>1. MarksOf(s) = B
    BY <1>1, <1>3, <1>9 DEF MarksOf
  <2>2. One(s[c] = -1) = 0
    BY <1>9 DEF One
  <2> QED BY <1>2, <1>3, <1>4, <1>7, <2>1, <2>2
<1> QED BY <1>8, <1>9

\* A mark more.
LEMMA MarksPush ==
  ASSUME NEW s \in Seq(Int), NEW x \in Int
  PROVE  /\ Push(x, s) \in Seq(Int)
         /\ Cardinality(MarksOf(Push(x, s))) = Cardinality(MarksOf(s)) + One(x = -1)
<1>1. PICK t \in Seq(Int) : /\ t = Push(x, s) /\ t[1] = x /\ Pop(t, 1) = s /\ 1 \in 1 .. Len(t)
  <2>1. /\ Push(x, s) \in Seq(Int) /\ Len(Push(x, s)) = Len(s) + 1 /\ Push(x, s)[1] = x
        /\ Pop(Push(x, s), 1) = s
    <3>1. IsSeq(s)
      BY DEF IsSeq
    <3>2. Push(x, s) \in Seq(Int)
      BY DEF Push
    <3> QED BY <3>1, <3>2, AnyPushed
  <2>2. 1 \in 1 .. Len(Push(x, s))
    BY <2>1
  <2> QED BY <2>1, <2>2, Zenon
<1>2. \A j \in 1 .. 1 - 1 : t[j] # -1
  OBVIOUS
<1>3. Cardinality(MarksOf(t)) = Cardinality(MarksOf(Pop(t, 1))) + One(t[1] = -1)
  BY <1>1, <1>2, MarksBehind
<1> QED BY <1>1, <1>3

LEMMA MarksAre == Marks = MarksOf(for_stack) /\ Marks' = MarksOf(for_stack')
BY DEF Marks, MarksOf

\* A mark is pushed with the state of the function, and taken away with it, and with
\* the for statements that the function left on the stack.
LEMMA MarksEnter ==
  ASSUME MarksInv, NEW fs, EnterCall(fs), NEW F, function_state_stack \in Seq(F)
  PROVE  MarksInv'
<1>1. PICK s, t : s \in Seq(Int) /\ s = for_stack /\ t = for_stack' /\ t = Push(-1, s)
  BY DEF MarksInv, EnterCall
<1>2. -1 \in Int
  OBVIOUS
<1>3. t \in Seq(Int) /\ Cardinality(MarksOf(t)) = Cardinality(MarksOf(s)) + 1
  BY <1>1, <1>2, MarksPush DEF One
<1>4. Len(function_state_stack') = Len(function_state_stack) + 1
  <2>1. IsSeq(function_state_stack)
    BY DEF IsSeq
  <2> QED BY <2>1, AnyPushed DEF EnterCall
<1> QED BY <1>1, <1>3, <1>4, MarksAre DEF MarksInv

LEMMA MarksLeave ==
  ASSUME MarksInv, LeaveCall, NEW F, function_state_stack \in Seq(F), function_state_stack # <<>>
  PROVE  MarksInv'
<1>1. PICK s \in Seq(Int) : s = for_stack
  BY DEF MarksInv
<1>2. Cardinality(MarksOf(s)) = Len(function_state_stack) /\ Len(function_state_stack) # 0
  BY <1>1, MarksAre DEF MarksInv
<1>3. MarksOf(s) # {}
  BY <1>2, FS_EmptySet
<1> DEFINE First(i) == s[i] = -1 /\ \A j \in 1 .. i - 1 : s[j] # -1
           c == CHOOSE i \in DOMAIN s : First(i)
<1>4. c = InnermostCall
  BY <1>1 DEF InnermostCall
<1>5. c \in 1 .. Len(s) /\ s[c] = -1 /\ \A j \in 1 .. c - 1 : s[j] # -1
  <2>1. MarksOf(s) \in SUBSET Nat
    BY DEF MarksOf
  <2>2. PICK i \in MarksOf(s) : \A j \in MarksOf(s) : i <= j
    BY <1>3, <2>1, Least
  <2>3. i \in DOMAIN s /\ s[i] = -1 /\ \A j \in 1 .. i - 1 : s[j] # -1
    <3>1. i \in DOMAIN s /\ s[i] = -1 /\ DOMAIN s = 1 .. Len(s)
      BY DEF MarksOf
    <3>2. ASSUME NEW j \in 1 .. i - 1 PROVE s[j] # -1
      <4>1. j \in DOMAIN s /\ ~ (i <= j)
        BY <3>1
      <4> QED BY <2>2, <4>1 DEF MarksOf
    <3> QED BY <3>1, <3>2
  <2>4. First(i) /\ i \in DOMAIN s
    BY <2>3
  <2>5. c \in DOMAIN s /\ First(c)
    <3> HIDE DEF First
    <3> QED BY <2>4, Zenon
  <2> HIDE DEF c
  <2> QED BY <2>5
<1> HIDE DEF c, First
<1>6. Pop(s, c) \in Seq(Int) /\ Cardinality(MarksOf(s)) = Cardinality(MarksOf(Pop(s, c))) + 1
  BY <1>5, MarksBehind DEF One
<1>7. for_stack' = Pop(s, c)
  BY <1>1, <1>4 DEF LeaveCall
<1>8. Len(function_state_stack') = Len(function_state_stack) - 1
  BY PopTail DEF LeaveCall
<1>9. Cardinality(MarksOf(Pop(s, c))) \in Nat /\ Len(function_state_stack) \in Nat
  BY <1>6, MarksFinite
<1>10. PICK l \in Nat, m \in Nat : /\ l = Len(function_state_stack)
                                   /\ m = Cardinality(MarksOf(Pop(s, c)))
  BY <1>9
<1>11. m = l - 1
  <2>1. l = m + 1
    BY <1>2, <1>6, <1>10, Zenon
  <2> QED BY <2>1
<1>12. Cardinality(Marks') = Len(function_state_stack')
  BY <1>7, <1>8, <1>10, <1>11, MarksAre
<1> QED BY <1>6, <1>7, <1>12 DEF MarksInv

Unmoved == for_stack' = for_stack /\ function_state_stack' = function_state_stack

\* Most actions leave both stacks alone.
LEMMA ParserUnmoved ==
  /\ Shift => Unmoved
  /\ ShiftOffset => Unmoved
  /\ Expand => Unmoved
  /\ ParseError => Unmoved
  /\ Accept => Unmoved
<1>1. Shift => Unmoved
  BY Zenon DEF Shift, Unmoved, stacks
<1>2. ShiftOffset => Unmoved
  BY Zenon DEF ShiftOffset, Unmoved, stacks
<1>3. Expand => Unmoved
  BY Zenon DEF Expand, Unmoved, stacks
<1>4. ParseError => Unmoved
  BY Zenon DEF ParseError, Unmoved, stacks
<1>5. Accept => Unmoved
  BY Zenon DEF Accept, Unmoved, stacks
<1> QED BY <1>1, <1>2, <1>3, <1>4, <1>5

LEMMA IfUnmoved ==
  /\ cs_start_if => Unmoved
  /\ cs_end_if => Unmoved
  /\ cs_elseif_start_evaluate => Unmoved
  /\ cs_start_elseif => Unmoved
  /\ cs_start_else => Unmoved
<1>1. cs_start_if => Unmoved
  BY Zenon DEF cs_start_if, Unmoved, stacks
<1>2. cs_end_if => Unmoved
  BY Zenon DEF cs_end_if, Unmoved, stacks
<1>3. cs_elseif_start_evaluate => Unmoved
  BY Zenon DEF cs_elseif_start_evaluate, Unmoved, stacks
<1>4. cs_start_elseif => Unmoved
  BY Zenon DEF cs_start_elseif, Unmoved, stacks
<1>5. cs_start_else => Unmoved
  BY Zenon DEF cs_start_else, Unmoved, stacks
<1> QED BY <1>1, <1>2, <1>3, <1>4, <1>5

LEMMA LoopsUnmoved ==
  /\ cs_start_while => Unmoved
  /\ cs_end_while => Unmoved
  /\ cs_start_do_while => Unmoved
  /\ cs_force_eval_do_while => Unmoved
  /\ cs_end_do_while => Unmoved
  /\ for_pre_expr1 => Unmoved
  /\ for_pre_expr2 => Unmoved
  /\ for_pre_expr3 => Unmoved
  /\ for_pre_statement => Unmoved
<1>1. cs_start_while => Unmoved
  BY Zenon DEF cs_start_while, Unmoved, stacks
<1>2. cs_end_while => Unmoved
  BY Zenon DEF cs_end_while, Unmoved, stacks
<1>3. cs_start_do_while => Unmoved
  BY Zenon DEF cs_start_do_while, Unmoved, stacks
<1>4. cs_force_eval_do_while => Unmoved
  BY Zenon DEF cs_force_eval_do_while, Unmoved, stacks
<1>5. cs_end_do_while => Unmoved
  BY Zenon DEF cs_end_do_while, Unmoved, stacks
<1>6. for_pre_expr1 => Unmoved
  BY Zenon DEF for_pre_expr1, Unmoved, stacks
<1>7. for_pre_expr2 => Unmoved
  BY Zenon DEF for_pre_expr2, Unmoved, stacks
<1>8. for_pre_expr3 => Unmoved
  BY Zenon DEF for_pre_expr3, Unmoved, stacks
<1>9. for_pre_statement => Unmoved
  BY Zenon DEF for_pre_statement, Unmoved, stacks
<1> QED BY <1>1, <1>2, <1>3, <1>4, <1>5, <1>6, <1>7, <1>8, <1>9

LEMMA SwitchUnmoved ==
  /\ cs_switch_start => Unmoved
  /\ cs_switch_case_pre => Unmoved
  /\ cs_switch_default_pre => Unmoved
  /\ cs_switch_case_post => Unmoved
  /\ cs_switch_end => Unmoved
  /\ cs_break_continue => Unmoved
<1>1. cs_switch_start => Unmoved
  BY Zenon DEF cs_switch_start, Unmoved, stacks
<1>2. cs_switch_case_pre => Unmoved
  BY Zenon DEF cs_switch_case_pre, Case, Unmoved, stacks
<1>3. cs_switch_default_pre => Unmoved
  BY Zenon DEF cs_switch_default_pre, Case, Unmoved, stacks
<1>4. cs_switch_case_post => Unmoved
  BY Zenon DEF cs_switch_case_post, Unmoved, stacks
<1>5. cs_switch_end => Unmoved
  BY Zenon DEF cs_switch_end, Unmoved, stacks
<1>6. cs_break_continue => Unmoved
  BY Zenon DEF cs_break_continue, Die, Unmoved, stacks
<1> QED BY <1>1, <1>2, <1>3, <1>4, <1>5, <1>6

LEMMA OperatorsUnmoved ==
  /\ evaluate => Unmoved
  /\ empty => Unmoved
  /\ drop => Unmoved
  /\ cs_pre_boolean_or => Unmoved
  /\ cs_post_boolean_or => Unmoved
  /\ cs_pre_boolean_and => Unmoved
  /\ cs_post_boolean_and => Unmoved
  /\ cs_questionmark_op_pre_expr1 => Unmoved
  /\ cs_questionmark_op_pre_expr2 => Unmoved
  /\ cs_questionmark_op_post_expr2 => Unmoved
<1>1. evaluate => Unmoved
  BY Zenon DEF evaluate, Unmoved, stacks
<1>2. empty => Unmoved
  BY Zenon DEF empty, Unmoved, stacks
<1>3. drop => Unmoved
  BY Zenon DEF drop, Unmoved, stacks
<1>4. cs_pre_boolean_or => Unmoved
  BY Zenon DEF cs_pre_boolean_or, SkipIf, Unmoved, stacks
<1>5. cs_post_boolean_or => Unmoved
  BY Zenon DEF cs_post_boolean_or, Result, Unmoved, stacks
<1>6. cs_pre_boolean_and => Unmoved
  BY Zenon DEF cs_pre_boolean_and, SkipIf, Unmoved, stacks
<1>7. cs_post_boolean_and => Unmoved
  BY Zenon DEF cs_post_boolean_and, Result, Unmoved, stacks
<1>8. cs_questionmark_op_pre_expr1 => Unmoved
  BY Zenon DEF cs_questionmark_op_pre_expr1, SkipIf, Unmoved, stacks
<1>9. cs_questionmark_op_pre_expr2 => Unmoved
  BY Zenon DEF cs_questionmark_op_pre_expr2, Unmoved, stacks
<1>10. cs_questionmark_op_post_expr2 => Unmoved
  BY Zenon DEF cs_questionmark_op_post_expr2, Result, Unmoved, stacks
<1> QED BY <1>1, <1>2, <1>3, <1>4, <1>5, <1>6, <1>7, <1>8, <1>9, <1>10

LEMMA FunctionsUnmoved ==
  /\ start_function_decleration => Unmoved
  /\ end_function_decleration => Unmoved
  /\ restore_token => Unmoved
  /\ terminate_phpparse => Unmoved
  /\ cs_functioncall_post_variable_passing => Unmoved
  /\ cs_return => Unmoved
  /\ RETURN_TRUE => Unmoved
<1>1. start_function_decleration => Unmoved
  BY Zenon DEF start_function_decleration, Unmoved, stacks
<1>2. end_function_decleration => Unmoved
  BY Zenon DEF end_function_decleration, Unmoved, stacks
<1>3. restore_token => Unmoved
  BY Zenon DEF restore_token, Unmoved, stacks
<1>4. terminate_phpparse => Unmoved
  BY Zenon DEF terminate_phpparse, Unmoved, stacks
<1>5. cs_functioncall_post_variable_passing => Unmoved
  BY Zenon DEF cs_functioncall_post_variable_passing, Unmoved, stacks
<1>6. cs_return => Unmoved
  BY Zenon DEF cs_return, Unmoved, stacks
<1>7. RETURN_TRUE => Unmoved
  BY Zenon DEF RETURN_TRUE, Unmoved, stacks
<1> QED BY <1>1, <1>2, <1>3, <1>4, <1>5, <1>6, <1>7

\* Then the marks stay.
LEMMA UnmovedMarks ==
  ASSUME MarksInv, Unmoved
  PROVE  MarksInv'
<1>1. for_stack' = for_stack /\ function_state_stack' = function_state_stack
  BY DEF Unmoved
<1> QED BY <1>1, MarksAre DEF MarksInv

\* The offset of a for statement is not taken for a mark.
LEMMA for_post_statement_Marks ==
  ASSUME IInv, MarksInv, for_post_statement
  PROVE  MarksInv'
<1>1. /\ function_state_stack' = function_state_stack
      /\ \E again : for_stack' = ForStackAfter(again, Tok)
      /\ parse # <<>> /\ Head(parse).sym = "for_post_statement"
  BY DEF for_post_statement, Action, At
<1>2. PICK o : o = Tok.offset
  OBVIOUS
<1>3. o \in Nat /\ o # -1
  <2>1. "for_post_statement" \notin Bare
    BY DEF Bare
  <2>2. o \in 1 .. Len(tokens) - 1 /\ Len(tokens) \in Nat
    BY <1>1, <1>2, <2>1, IInvParts, InputParts, TokenOfAction
  <2> QED BY <2>2
<1>4. PICK s \in Seq(Int) : s = for_stack
  BY DEF MarksInv
<1>5. \/ for_stack' = s \/ for_stack' = Push(o, s)
      \/ s # <<>> /\ s[1] = o /\ for_stack' = Pop(s, 1)
  BY <1>1, <1>2, <1>4, Zenon DEF ForStackAfter, Iterating
<1>6. CASE for_stack' = s
  BY <1>1, <1>4, <1>6, UnmovedMarks DEF Unmoved
<1>7. CASE for_stack' = Push(o, s)
  <2>1. Push(o, s) \in Seq(Int)
        /\ Cardinality(MarksOf(Push(o, s))) = Cardinality(MarksOf(s)) + One(o = -1)
    <3>1. o \in Int
      BY <1>3
    <3> QED BY <3>1, MarksPush
  <2>2. One(o = -1) = 0 /\ Cardinality(MarksOf(s)) \in Nat
    BY <1>3, MarksFinite DEF One
  <2>3. Cardinality(MarksOf(Push(o, s))) = Cardinality(MarksOf(s))
    BY <2>1, <2>2
  <2> QED BY <1>1, <1>4, <1>7, <2>1, <2>3, MarksAre DEF MarksInv
<1>8. CASE s # <<>> /\ s[1] = o /\ for_stack' = Pop(s, 1)
  <2>1. Pop(s, 1) \in Seq(Int)
        /\ Cardinality(MarksOf(s)) = Cardinality(MarksOf(Pop(s, 1))) + One(s[1] = -1)
    <3>1. 1 \in 1 .. Len(s) /\ \A j \in 1 .. 1 - 1 : s[j] # -1
      BY <1>8
    <3> QED BY <3>1, MarksBehind
  <2>2. One(s[1] = -1) = 0 /\ Cardinality(MarksOf(Pop(s, 1))) \in Nat
    BY <1>3, <1>8, <2>1, MarksFinite DEF One
  <2>3. Cardinality(MarksOf(Pop(s, 1))) = Cardinality(MarksOf(s))
    BY <2>1, <2>2
  <2> QED BY <1>1, <1>4, <1>8, <2>1, <2>3, MarksAre DEF MarksInv
<1> QED BY <1>5, <1>6, <1>7, <1>8

\* The actions that enter and leave functions.
LEMMA cs_functioncall_pre_variable_passing_Marks ==
  ASSUME IInv, MarksInv, cs_functioncall_pre_variable_passing
  PROVE  MarksInv'
<1>1. Unmoved \/ EnterCall(function_state)
  BY Zenon DEF cs_functioncall_pre_variable_passing, Die, Unmoved, stacks
<1>2. function_state_stack \in Seq(FunctionState)
  BY DEF IInv, FlowInv
<1> QED BY <1>1, <1>2, UnmovedMarks, MarksEnter

LEMMA call_user_function_Marks ==
  ASSUME IInv, MarksInv, call_user_function
  PROVE  MarksInv'
<1>1. Unmoved \/ \E fs : EnterCall(fs)
  BY Zenon DEF call_user_function, Unmoved, stacks
<1>2. function_state_stack \in Seq(FunctionState)
  BY DEF IInv, FlowInv
<1> QED BY <1>1, <1>2, UnmovedMarks, MarksEnter

LEMMA cs_functioncall_end_Marks ==
  ASSUME IInv, MarksInv, cs_functioncall_end
  PROVE  MarksInv'
<1>1. /\ Action("cs_functioncall_end")
      /\ \/ values[2] = NoCall /\ UNCHANGED <<input, flow, stacks>>
         \/ values[2] # NoCall /\ LeaveCall
  BY EndParts, Zenon
<1>2. CASE values[2] = NoCall /\ UNCHANGED <<input, flow, stacks>>
  BY <1>2, UnmovedMarks DEF Unmoved, stacks
<1>3. CASE values[2] # NoCall /\ LeaveCall
  <2> DEFINE n == Len(tokens)
  <2>1. /\ \E U, a, b : Between(U, a, b)
        /\ Head(parse).sym = "cs_functioncall_end"
        /\ function_state_stack \in Seq(FunctionState)
    BY <1>1, ActionBetween, Zenon
  <2>2. PICK U, a, b : Between(U, a, b)
    BY <2>1, Zenon
  <2>3. /\ a \in Height /\ b \in Height /\ Effect("cs_functioncall_end", a, b)
        /\ IsAt(a, values, css, switch_stack, function_state, function_state_stack, Execute, n)
    BY <2>1, <2>2, Zenon DEF Between
  <2>4. EndsSkipped(a, b) \/ EndsCalled(a, b)
    BY <2>3, CallEffects, Zenon
  <2>5. ~ EndsSkipped(a, b)
    <3> SUFFICES ASSUME EndsSkipped(a, b) PROVE FALSE
      OBVIOUS
    <3>1. PICK w \in Seq(Kind) : a.v = Push("offset", Push("skipped", w))
      BY DEF EndsSkipped
    <3>2. Conforms(values, Push("offset", Push("skipped", w)), n)
      BY <2>3, <3>1 DEF IsAt
    <3>3. "offset" \in Kind /\ "skipped" \in Kind
      BY DEF Kind
    <3>4. ValueIs("skipped", values[2], n)
      BY <3>2, <3>3, ConformsPop2
    <3> QED BY <1>3, <3>4 DEF ValueIs
  <2>6. /\ a.m \in {0, 5} /\ a.f = Push(b.n, b.f)
    BY <2>4, <2>5 DEF EndsCalled
  <2>7. Levels(function_state_stack) = a.f
    BY <2>3, <2>6 DEF IsAt, Waiting
  <2>8. PICK k \in Nat, f \in Seq(Nat) : k = b.n /\ f = b.f
    BY <2>3 DEF Height
  <2>9. Levels(function_state_stack) = Push(k, f)
    BY <2>6, <2>7, <2>8, Zenon
  <2>10. function_state_stack # <<>>
    BY <2>1, <2>9, LevelsPop
  <2> QED BY <1>3, <2>1, <2>10, MarksLeave
<1> QED BY <1>1, <1>2, <1>3

LEMMA phpparse_returns_Marks ==
  ASSUME IInv, MarksInv, phpparse_returns
  PROVE  MarksInv'
<1> DEFINE n == Len(tokens)
<1>1. Running /\ parse = <<>> /\ suspended # <<>> /\ LeaveCall
  BY DEF phpparse_returns
<1>2. function_state_stack \in Seq(FunctionState)
  BY DEF IInv, FlowInv
<1>3. PICK U, a : /\ Shape(U, a, parse, suspended)
                  /\ IsAt(a, values, css, switch_stack, function_state, function_state_stack,
                          Execute, n)
  BY <1>1, Zenon DEF IInv, StructInv
<1>4. IsSeq(suspended)
  BY IInvParts, InputParts DEF FramesOK
<1>5. PICK u \in Height : a = Under(u)
  BY <1>1, <1>3, <1>4, ShapePop
<1>6. a.m = 0 /\ a.f = Push(0, u.f) /\ u.f \in Seq(Nat)
  BY <1>5, UnderType
<1>7. Levels(function_state_stack) = Push(0, u.f)
  BY <1>3, <1>6 DEF IsAt, Waiting
<1>8. PICK f \in Seq(Nat), k \in Nat : f = u.f /\ k = 0
  BY <1>6
<1>9. Levels(function_state_stack) = Push(k, f)
  BY <1>7, <1>8
<1>10. function_state_stack # <<>>
  BY <1>2, <1>9, LevelsPop
<1> QED BY <1>1, <1>2, <1>10, MarksLeave

LEMMA NextMarks ==
  ASSUME IInv, MarksInv, Next
  PROVE  MarksInv'
<1>1. CASE Parser
  BY <1>1, ParserUnmoved, UnmovedMarks, Zenon DEF Parser
<1>2. CASE IfActions
  BY <1>2, IfUnmoved, UnmovedMarks, Zenon DEF IfActions
<1>3. CASE LoopActions
  BY <1>3, LoopsUnmoved, UnmovedMarks, for_post_statement_Marks, Zenon DEF LoopActions
<1>4. CASE SwitchActions
  BY <1>4, SwitchUnmoved, UnmovedMarks, Zenon DEF SwitchActions
<1>5. CASE Operators
  BY <1>5, OperatorsUnmoved, UnmovedMarks, Zenon DEF Operators
<1>6. CASE Functions
  BY <1>6, FunctionsUnmoved, UnmovedMarks, cs_functioncall_pre_variable_passing_Marks,
     cs_functioncall_end_Marks, call_user_function_Marks, phpparse_returns_Marks,
     Zenon DEF Functions
<1> QED BY <1>1, <1>2, <1>3, <1>4, <1>5, <1>6 DEF Next

\* So the functions that were entered are marked.
LEMMA MarksHold == Spec => []MarksInv
<1>1. Init => MarksInv
  <2> SUFFICES ASSUME Init PROVE MarksInv
    OBVIOUS
  <2>1. for_stack = <<>> /\ function_state_stack = <<>>
    BY DEF Init
  <2>2. Marks = {}
    BY <2>1 DEF Marks
  <2>3. <<>> \in Seq(Int) /\ Len(<<>>) = 0
    OBVIOUS
  <2> QED BY <2>1, <2>2, <2>3, FS_EmptySet DEF MarksInv
<1>2. IInv /\ MarksInv /\ [Next]_vars => MarksInv'
  <2>1. UNCHANGED vars => Unmoved
    BY DEF vars, stacks, Unmoved
  <2> QED BY <2>1, NextMarks, UnmovedMarks
<1> QED BY <1>1, <1>2, IInvHolds, PTL DEF Spec

-----------------------------------------------------------------------------

\* Between statements, the height of the parser is what StacksFollowParser counts.
LEMMA StacksCounted ==
  ASSUME IInv, MarksInv
  PROVE  StacksFollowParser
<1> SUFFICES ASSUME BetweenStatements
             PROVE  /\ Len(css) = Level(Opens, Closes, Left) + Cardinality(Marks)
                    /\ Len(function_state_stack) = Cardinality(Marks)
                    /\ Len(switch_stack) = Level({"cs_switch_start"}, {"cs_switch_end"}, Left)
                    /\ CallsEntered =>
                         function_state.loop_nest_level = Level(LoopStarts, LoopEnds, <<Current>>)
  BY DEF StacksFollowParser, Opens, Closes
<1>1. /\ Running /\ InputInv
      /\ parse = <<>> \/ (parse # <<>> /\ Head(parse).sym \in {"statement", "statement_list"})
  BY IInvParts DEF BetweenStatements
<1>2. PICK U, a : /\ Shape(U, a, parse, suspended)
                  /\ IsAt(a, values, css, switch_stack, function_state, function_state_stack,
                          Execute, Len(tokens))
  BY <1>1, Zenon DEF IInv, StructInv
<1>3. a \in Height /\ U \in Seq(Height) /\ Runs(parse, a, Bottom(U))
  BY <1>2 DEF Shape
<1>4. parse \in Seq(Items(TokenOrEOF))
  BY <1>1, InputParts DEF SymbolsOK
<1>5. Bottom(U).n = 0 /\ Bottom(U).m = 0
  <2>1. CASE U = <<>>
    BY <2>1 DEF Bottom, Ground
  <2>2. CASE U # <<>>
    <3>1. U[1] \in Height
      BY <1>3, <2>2
    <3> QED BY <2>2, <3>1, UnderType DEF Bottom
  <2> QED BY <2>1, <2>2
<1>6. a.m = 0
  <2>1. CASE parse = <<>>
    BY <1>3, <1>5, <2>1, RunsEmpty
  <2>2. CASE parse # <<>> /\ Head(parse).sym \in {"statement", "statement_list"}
    <3>1. PICK b \in Height : Effect(Head(parse).sym, a, b)
      BY <1>3, <1>4, <2>2, RunsFirst
    <3>2. Keeps(a, b)
      BY <2>2, <3>1 DEF Effect, Idle, Giving, Dropping
    <3> QED BY <3>2 DEF Keeps
  <2> QED BY <1>1, <2>1, <2>2
<1>7. /\ Levels(function_state_stack) = a.f /\ Len(css) = a.c /\ Len(switch_stack) = a.s
      /\ function_state.loop_nest_level = a.n
  BY <1>2, <1>6 DEF IsAt, Waiting
<1>8. Len(function_state_stack) = Len(a.f)
  <2>1. Len(Levels(function_state_stack)) = Len(function_state_stack)
    <3>1. function_state_stack \in Seq(FunctionState)
      BY DEF IInv, FlowInv
    <3> QED BY <3>1 DEF Levels
  <2> QED BY <1>7, <2>1
<1>9. a.c - Len(a.f) = Level(Opens, Closes, Left)
      /\ a.s = Level({"cs_switch_start"}, {"cs_switch_end"}, Left)
  BY <1>1, <1>2, LevelsCount
<1>10. Len(function_state_stack) = Cardinality(Marks)
  BY DEF MarksInv
<1>11. Len(css) = Level(Opens, Closes, Left) + Cardinality(Marks)
  <2>1. PICK c \in Nat, m \in Nat : c = a.c /\ m = Len(a.f)
    BY <1>3, HeightNumbers
  <2>2. c = (c - m) + m
    OBVIOUS
  <2> QED BY <1>7, <1>8, <1>9, <1>10, <2>1, <2>2
<1>12. ASSUME CallsEntered
       PROVE  function_state.loop_nest_level = Level(LoopStarts, LoopEnds, <<Current>>)
  <2>1. Cardinality(Places({"cs_functioncall_end"}, Left)) = Len(a.f) - Len(suspended)
    BY <1>8, <1>12 DEF CallsEntered
  <2>2. PICK h : /\ IsRun(h, parse, a, Bottom(U))
                 /\ Drops(h, parse) = Where(parse, {"cs_functioncall_end"})
    BY <1>1, <1>2, <2>1, CallsCount
  <2> QED BY <1>4, <1>5, <1>7, <2>2, LoopsCount
<1> QED BY <1>7, <1>9, <1>10, <1>11, <1>12

\* Between statements the stacks of flags, switches, functions and loops are exactly
\* as high as the statements, switches, calls and loops around the parser need, for
\* every script: what an action pushed is popped by the action that ends it, also when
\* the rules between them were recognized with Execute off, in a loop that is left by
\* break, in a function that returns from within its loops, and in a parser that was
\* started by call_user_function.
THEOREM StacksCorrect == Spec => []StacksFollowParser
BY IInvHolds, MarksHold, StacksCounted, PTL
=============================================================================
