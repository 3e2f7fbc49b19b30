------------------------------- MODULE LinkPool -------------------------------
(***************************************************************************)
(* What the manual promises scripts of their links to data base servers:   *)
(* a link is found again by what it was opened with (Details), there are   *)
(* never more than the limits of php3.ini allow, and a handle leads to one *)
(* link until that is closed, or lost.                                     *)
(***************************************************************************)
EXTENDS Integers, FiniteSets, Functions

CONSTANTS Details, Settings

VARIABLES ini,
          persistent,   \* the persistent links, by what they were opened with
          held,         \* the handles of a request: what they lead to
          asked,        \* what the last call that a handle answers asked for
          current       \* the last opened link, which functions take without one

vars == <<ini, persistent, held, asked, current>>

Own(d) == [to |-> "own", login |-> {d}]
Shared(d) == [to |-> "shared", login |-> {d}]
Lost == [to |-> "lost"]
Nothing == [to |-> "nothing"]

Owned == {h \in DOMAIN held : held[h].to = "own"}
Links == Cardinality(Owned) + Cardinality(persistent)
Below(max, n) == max = -1 \/ n < max

Assign(f, x, v) == [y \in DOMAIN f \cup {x} |-> IF y = x THEN v ELSE f[y]]

\* A call for d is answered with handle h.
Answer(h, d) == current' = h /\ asked' = Assign(asked, h, d)

Give(link, d) ==
  \E h \in {Cardinality(DOMAIN held) + 1} : held' = Assign(held, h, link) /\ Answer(h, d)

\* The link that the request has with these details, or a new one.
Connect(d) ==
  \/ /\ \E h \in Owned : held[h] = Own(d) /\ Answer(h, d)
     /\ UNCHANGED <<persistent, held>>
  \/ /\ \A h \in Owned : held[h] # Own(d)
     /\ Below(ini.max_links, Links)
     /\ Give(Own(d), d)
     /\ UNCHANGED persistent

\* The persistent link with these details, or a new one; or it is lost.
PConnect(d) ==
  \/ /\ d \in persistent
     /\ Give(Shared(d), d)
     /\ UNCHANGED persistent
  \/ /\ d \notin persistent
     /\ Below(ini.max_links, Links)
     /\ Below(ini.max_persistent, Cardinality(persistent))
     /\ Give(Shared(d), d)
     /\ persistent' = persistent \cup {d}
  \/ /\ d \in persistent
     /\ persistent' = persistent \ {d}
     /\ held' = [h \in DOMAIN held |-> IF held[h] = Shared(d) THEN Lost ELSE held[h]]
     /\ UNCHANGED <<asked, current>>

\* Without the last opened link there is none to take.
Close(h) ==
  /\ held' = [held EXCEPT ![h] = Nothing]
  /\ current' = IF current = h THEN -1 ELSE current
  /\ UNCHANGED <<persistent, asked>>

NewRequest ==
  /\ held' = [h \in {} |-> Nothing] /\ asked' = [h \in {} |-> Nothing] /\ current' = -1
  /\ persistent' \in {persistent, {}}

Init ==
  /\ ini \in Settings
  /\ persistent = {} /\ held = [h \in {} |-> Nothing]
  /\ asked = [h \in {} |-> Nothing] /\ current = -1

Next ==
  /\ \/ \E d \in Details : Connect(d) \/ (ini.allow_persistent /\ PConnect(d))
     \/ \E h \in DOMAIN held : Close(h)
     \/ NewRequest
  /\ UNCHANGED ini

Spec == Init /\ [][Next]_vars
=============================================================================
