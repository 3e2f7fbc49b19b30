----------------------------- MODULE SharedStore -----------------------------
(***************************************************************************)
(* What a segment of shared variables promises to scripts that take turns: *)
(* a store of values under keys.  An update that replaces a value takes    *)
(* the old one out first, which shows if its process dies in between.  It  *)
(* may leave a store of which nothing is known, until it is removed.       *)
(***************************************************************************)
EXTENDS Integers

CONSTANTS Process, Key, Val

VARIABLES store,     \* what is under a key; or unknown
          users,     \* the processes that use it
          updates    \* updates in progress, at most one

vars == <<store, users, updates>>

NoValue == "no value"
Empty == [k \in Key |-> NoValue]
Put(p, k, v) == [by |-> p, name |-> "put", key |-> k, val |-> v]
Remove(p, k) == [by |-> p, name |-> "remove", key |-> k, val |-> NoValue]
Unknown == [k \in {} |-> NoValue]
Known == store # Unknown

Begin ==
  /\ updates = {} /\ Known
  /\ \E p \in users, k \in Key :
       updates' \in {{Put(p, k, v)} : v \in Val} \cup {{Remove(p, k)}}
  /\ UNCHANGED <<store, users>>

Erase ==
  /\ Known
  /\ \E u \in updates : store' = [store EXCEPT ![u.key] = NoValue]
  /\ UNCHANGED <<users, updates>>

Insert ==
  /\ Known
  /\ \E u \in updates : u.name = "put" /\ store' = [store EXCEPT ![u.key] = u.val]
  /\ UNCHANGED <<users, updates>>

\* It returns, and what it was to do is done.
End ==
  /\ \E u \in updates : u.by \in users /\ store[u.key] = u.val
  /\ updates' = {}
  /\ UNCHANGED <<store, users>>

\* Its process dies, and is a user no more.
Abandon ==
  /\ \E u \in updates : u.by \in users /\ users' = users \ {u.by}
  /\ updates' = {}
  /\ store' \in {store, Unknown}

\* An update makes a copy of memory that is not defined, and of the rest of it
\* nothing is known either.
Garble == updates # {} /\ updates' = {} /\ store' = Unknown /\ UNCHANGED users

Join ==
  /\ updates = {}
  /\ \E p \in Process : users' = users \cup {p}
  /\ UNCHANGED <<store, updates>>

Leave ==
  /\ \E p \in users : (\A u \in updates : u.by # p) /\ users' = users \ {p}
  /\ UNCHANGED <<store, updates>>

\* It is removed.
Reset == updates = {} /\ store' = Empty /\ users' = {} /\ UNCHANGED updates

Init == store = Empty /\ users = {} /\ updates = {}
Next == \/ Begin \/ Erase \/ Insert \/ End \/ Abandon \/ Garble
        \/ Join \/ Leave \/ Reset
Spec == Init /\ [][Next]_vars
=============================================================================
