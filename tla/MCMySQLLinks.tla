----------------------------- MODULE MCMySQLLinks -----------------------------
(* A small instance of MySQLLinks for TLC.                                  *)
EXTENDS MySQLLinks, TLC

CONSTANTS o1, o2, o3, o4, h1, h2, u1, u2

D(h, u) == [host |-> h, user |-> u]
MCDetails == {D(h1, u1), D(h1, u2), D(h2, u1)}
MCDefaults == D(h1, u1)
MCSettings == {[max_links |-> l, max_persistent |-> m, allow_persistent |-> a, change_user |-> c] :
                 l \in {2, -1}, m \in {1, -1}, a \in BOOLEAN, c \in BOOLEAN}
ObjectSymmetry == Permutations(Object)
=============================================================================
