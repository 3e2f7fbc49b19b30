--------------------------- MODULE MySQLLinksProofs ---------------------------
(***************************************************************************)
(* Proofs about MySQLLinks, for every set of objects, every details and    *)
(* every setting of php3.ini: the lists stay well formed, no link is lost  *)
(* or kept that nobody has, and the limits hold over all requests; and     *)
(* where the client library has no mysql_change_user, a handle leads where *)
(* it was asked to, and the links are the pool of LinkPool.                *)
(*                                                                         *)
(* The argument: an object in use is the link of one handle, or of one     *)
(* entry of the persistent list, and not both, so that closing or losing   *)
(* one takes nothing from another; and the two counters are the numbers of *)
(* these.  Only a handle of a persistent link that was given up may lead   *)
(* to an object that is another's by now.  Where a key is what a link was  *)
(* opened with (that is what mysql_change_user ends), an entry of the      *)
(* index, or of the persistent list, leads to the login it is found by.    *)
(***************************************************************************)
EXTENDS MySQLLinks, FiniteSetTheorems, TLAPS

-----------------------------------------------------------------------------
(* The parts of the inductive invariant *)

Keys == Details \cup {NoDetails}
Given == 1 .. next - 1

MapsTyped ==
  /\ ini \in Settings
  /\ DOMAIN mysql \subseteq Object /\ \A p \in DOMAIN mysql : DOMAIN mysql[p] = {"host", "user"}
  /\ DOMAIN plist \subseteq Keys
  /\ DOMAIN list \subseteq Given /\ \A h \in DOMAIN list : list[h] \in Entry
  /\ DOMAIN index \subseteq Keys /\ \A k \in DOMAIN index : index[k] \in Given
  /\ next \in 1 .. MaxHandles + 1
  /\ default_link \in {-1} \cup Given
  /\ stale \subseteq Given
  /\ DOMAIN asked = Given

\* A persistent link has an object of its own, and without mysql_change_user
\* the login is the one that it is found by.
PersistentLinks ==
  /\ \A k \in DOMAIN plist : plist[k] \in DOMAIN mysql
  /\ \A j, k \in DOMAIN plist : plist[j] = plist[k] => j = k
  /\ ~ini.change_user => \A k \in DOMAIN plist : mysql[plist[k]] = k

\* The link of a handle has an object of its own, too.
OwnLinks ==
  /\ \A h \in Own : list[h].ptr \in DOMAIN mysql
  /\ \A h \in Own, k \in DOMAIN plist : list[h].ptr # plist[k]
  /\ \A g, h \in Own : list[g].ptr = list[h].ptr => g = h
  /\ Own \cap stale = {}

\* The index has the handles of these links, each under one key.
IndexOfOwn ==
  /\ \A h \in Own : \E k \in DOMAIN index : index[k] = h
  /\ \A k \in DOMAIN index : index[k] \in DOMAIN list => index[k] \in Own
  /\ \A j, k \in DOMAIN index : index[j] = index[k] => j = k

\* Any other handle is of a persistent link, unless that was given up.
SharedHandles ==
  \A h \in DOMAIN list \ (Own \cup stale) :
    \E k \in DOMAIN plist : plist[k] = list[h].ptr

Counted ==
  /\ IsFiniteSet(DOMAIN plist)
  /\ num_persistent = Cardinality(DOMAIN plist)
  /\ num_links = Cardinality(Own) + num_persistent

LinksInv ==
  MapsTyped /\ PersistentLinks /\ OwnLinks /\ IndexOfOwn /\ SharedHandles /\ Counted

-----------------------------------------------------------------------------
(* Maps and lists *)

LEMMA RestrictIs ==
  ASSUME NEW f, NEW S
  PROVE  /\ DOMAIN Restrict(f, S) = S
         /\ \A y \in S : Restrict(f, S)[y] = f[y]
BY DEF Restrict

LEMMA NoHandlesIs == DOMAIN NoHandles = {}
BY DEF NoHandles

\* A new handle is not one that was given before.
LEMMA Inserted ==
  ASSUME MapsTyped, NEW entry \in Entry, NEW d, ListInsert(entry, d)
  PROVE  /\ next \notin Given /\ next \notin DOMAIN list /\ next \in Nat
         /\ Given' = Given \cup {next}
         /\ next' \in 1 .. MaxHandles + 1
         /\ default_link' = next /\ next' = next + 1
         /\ DOMAIN asked' = Given'
         /\ DOMAIN list' = DOMAIN list \cup {next}
         /\ list'[next] = entry
         /\ \A h \in DOMAIN list : list'[h] = list[h]
         /\ \A h \in DOMAIN list' : list'[h] \in Entry
         /\ entry.type = "le_link" => Own' = Own \cup {next}
         /\ entry.type # "le_link" => Own' = Own
         /\ next \notin Own
<1>1. next \in Nat /\ next <= MaxHandles /\ next' = next + 1 /\ default_link' = next
  BY BoundAssumption DEF MapsTyped, ListInsert
<1>2. next \notin Given /\ Given' = Given \cup {next} /\ next' \in 1 .. MaxHandles + 1
  BY <1>1, BoundAssumption DEF Given, MapsTyped
<1>8. DOMAIN asked' = Given'
  BY <1>2 DEF ListInsert, Assign, MapsTyped
<1>3. next \notin DOMAIN list
  BY <1>2 DEF MapsTyped
<1>4. list' = Assign(list, next, entry)
  BY DEF ListInsert
<1>5. /\ DOMAIN list' = DOMAIN list \cup {next}
      /\ list'[next] = entry
      /\ \A h \in DOMAIN list : list'[h] = list[h]
  BY <1>3, <1>4 DEF Assign
<1>6. \A h \in DOMAIN list' : list'[h] \in Entry
  BY <1>5 DEF MapsTyped
<1>7. /\ entry.type = "le_link" => Own' = Own \cup {next}
      /\ entry.type # "le_link" => Own' = Own
      /\ next \notin Own
  BY <1>3, <1>5 DEF Own
<1> QED BY <1>1, <1>2, <1>3, <1>5, <1>6, <1>7, <1>8

LEMMA DetailsType ==
  ASSUME NEW d \in Details
  PROVE  DOMAIN d = {"host", "user"} /\ d \in Keys /\ [d EXCEPT !.user = d.user] = d
<1>1. d = [host |-> d.host, user |-> d.user]
  BY DetailsAssumption
<1>2. DOMAIN d = {"host", "user"}
  BY <1>1
<1>3. [d EXCEPT !.user = d.user] = d
  BY <1>1
<1> QED BY <1>2, <1>3 DEF Keys

LEMMA HashedType ==
  ASSUME NEW d \in Details, NEW persistent \in BOOLEAN
  PROVE  HashedDetails(d, persistent) \in Keys
BY DEF HashedDetails, Keys

\* There are finitely many handles.
LEMMA HandlesFinite ==
  ASSUME MapsTyped
  PROVE  IsFiniteSet(Own) /\ Cardinality(Own) \in Nat
<1>1. next \in Nat
  BY BoundAssumption DEF MapsTyped
<1>2. IsFiniteSet(Given)
  BY <1>1, FS_Interval DEF Given
<1>3. Own \subseteq Given
  BY DEF Own, MapsTyped
<1> QED BY <1>2, <1>3, FS_Subset, FS_CardinalityType

-----------------------------------------------------------------------------
(* Links that are not persistent *)

LEMMA ReuseKeeps ==
  ASSUME LinksInv, NEW key, NEW d, Reuse(key, d), UNCHANGED ini
  PROVE  LinksInv'
<1>1. default_link' \in Given
  BY DEF Reuse, Indexed, LinksInv, MapsTyped
<1>2. DOMAIN asked' = DOMAIN asked
  BY DEF Reuse, Indexed, Assign, LinksInv, MapsTyped
<1>3. MapsTyped'
  BY <1>1, <1>2 DEF LinksInv, MapsTyped, Reuse, Given
<1> QED
  BY <1>3 DEF LinksInv, PersistentLinks, OwnLinks, IndexOfOwn, SharedHandles, Counted,
              Own, Reuse

LEMMA OpenFailsKeeps ==
  ASSUME LinksInv, NEW key, Indexed(key) = {}, OpenFails(key), UNCHANGED ini
  PROVE  LinksInv'
<1>1. /\ DOMAIN index' = DOMAIN index \ {key}
      /\ \A k \in DOMAIN index' : index'[k] = index[k]
  BY RestrictIs DEF OpenFails
<1>2. UNCHANGED <<ini, mysql, plist, list, next, default_link, stale, asked, num_links,
               num_persistent>>
  BY DEF OpenFails
<1>3. MapsTyped'
  BY <1>1, <1>2 DEF LinksInv, MapsTyped, Given
<1>4. IndexOfOwn'
  <2>1. \A h \in Own : \E k \in DOMAIN index' : index'[k] = h
    BY <1>1 DEF LinksInv, IndexOfOwn, Indexed, Own
  <2> QED BY <1>1, <1>2, <2>1 DEF LinksInv, IndexOfOwn, Own
<1> QED
  BY <1>2, <1>3, <1>4 DEF LinksInv, PersistentLinks, OwnLinks, SharedHandles, Counted,
                          Own

LEMMA OpenLinkKeeps ==
  ASSUME LinksInv, NEW d \in Details, NEW key \in Keys,
         Indexed(key) = {}, OpenLink(key, d), UNCHANGED ini
  PROVE  LinksInv'
<1>1. PICK p \in Object \ DOMAIN mysql : /\ mysql' = Assign(mysql, p, d)
                                         /\ ListInsert([type |-> "le_link", ptr |-> p], d)
  BY DEF OpenLink
<1> DEFINE entry == [type |-> "le_link", ptr |-> p]
<1>2. entry \in Entry /\ entry.type = "le_link" /\ entry.ptr = p
  BY DEF Entry
<1>3. ListInsert(entry, d)
  BY <1>1
<1>4. MapsTyped
  BY DEF LinksInv
<1> HIDE DEF entry
<1>5. /\ next \notin Given /\ next \notin DOMAIN list /\ next \in Nat
      /\ Given' = Given \cup {next}
      /\ next' \in 1 .. MaxHandles + 1
      /\ default_link' = next /\ DOMAIN asked' = Given'
      /\ DOMAIN list' = DOMAIN list \cup {next}
      /\ list'[next] = entry
      /\ \A h \in DOMAIN list : list'[h] = list[h]
      /\ \A h \in DOMAIN list' : list'[h] \in Entry
      /\ Own' = Own \cup {next}
      /\ next \notin Own
  BY <1>2, <1>3, <1>4, Inserted
<1>6. /\ DOMAIN mysql' = DOMAIN mysql \cup {p}
      /\ mysql'[p] = d
      /\ \A q \in DOMAIN mysql : mysql'[q] = mysql[q]
  BY <1>1 DEF Assign
<1>7. /\ DOMAIN index' = DOMAIN index \cup {key}
      /\ index'[key] = next
      /\ \A k \in DOMAIN index : k # key => index'[k] = index[k]
  BY DEF OpenLink, Assign
<1>8. UNCHANGED <<ini, plist, stale, num_persistent>> /\ num_links' = num_links + 1
  BY DEF OpenLink
<1>9. MapsTyped'
  BY <1>1, <1>4, <1>5, <1>6, <1>7, <1>8, DetailsType DEF MapsTyped
<1>10. PersistentLinks'
  BY <1>6, <1>8 DEF LinksInv, PersistentLinks
<1>11. OwnLinks'
  <2>1. \A h \in Own : list[h].ptr \in DOMAIN mysql /\ list'[h] = list[h]
    BY <1>5 DEF LinksInv, OwnLinks, Own
  <2>2. \A h \in Own : list'[h].ptr # p
    BY <1>1, <2>1
  <2>3. \A k \in DOMAIN plist : plist[k] # p
    BY <1>1 DEF LinksInv, PersistentLinks
  <2>4. next \notin stale
    BY <1>4, <1>5 DEF MapsTyped
  <2> QED BY <1>2, <1>5, <1>6, <1>8, <2>1, <2>2, <2>3, <2>4 DEF LinksInv, OwnLinks
<1>12. IndexOfOwn'
  <2>1. \A h \in Own : \E k \in DOMAIN index : k # key /\ index[k] = h
    BY DEF LinksInv, IndexOfOwn, Indexed, Own
  <2>2. \A k \in DOMAIN index : index[k] # next
    BY <1>4, <1>5 DEF MapsTyped
  <2> QED BY <1>5, <1>7, <2>1, <2>2 DEF LinksInv, IndexOfOwn
<1>13. SharedHandles'
  BY <1>5, <1>8 DEF LinksInv, SharedHandles
<1>14. Counted'
  <2>1. Cardinality(Own') = Cardinality(Own) + 1
    BY <1>4, <1>5, HandlesFinite, FS_AddElement
  <2>2. Cardinality(Own) \in Nat /\ num_persistent \in Nat
    BY <1>4, HandlesFinite, FS_CardinalityType DEF LinksInv, Counted
  <2> QED BY <1>8, <2>1, <2>2 DEF LinksInv, Counted
<1> QED BY <1>9, <1>10, <1>11, <1>12, <1>13, <1>14 DEF LinksInv

-----------------------------------------------------------------------------
(* Persistent links *)

\* What a new handle of a persistent link leaves of the handles of own links.
LEMMA OwnUntouched ==
  ASSUME LinksInv, NEW p \in Object, NEW d, ListInsert([type |-> "le_plink", ptr |-> p], d)
  PROVE  /\ next \notin Given /\ next \notin DOMAIN list /\ next \in Nat
         /\ Given' = Given \cup {next}
         /\ next' \in 1 .. MaxHandles + 1
         /\ default_link' = next /\ DOMAIN asked' = Given'
         /\ DOMAIN list' = DOMAIN list \cup {next}
         /\ list'[next] = [type |-> "le_plink", ptr |-> p] /\ list'[next].ptr = p
         /\ \A h \in DOMAIN list : list'[h] = list[h]
         /\ \A h \in DOMAIN list' : list'[h] \in Entry
         /\ Own' = Own
         /\ next \notin Own
<1> DEFINE entry == [type |-> "le_plink", ptr |-> p]
<1>1. entry \in Entry /\ entry.type # "le_link" /\ entry.ptr = p
  BY DEF Entry
<1>2. ListInsert(entry, d) /\ MapsTyped
  BY DEF LinksInv
<1> HIDE DEF entry
<1>3. /\ next \notin Given /\ next \notin DOMAIN list /\ next \in Nat
      /\ Given' = Given \cup {next}
      /\ next' \in 1 .. MaxHandles + 1
      /\ default_link' = next /\ DOMAIN asked' = Given'
      /\ DOMAIN list' = DOMAIN list \cup {next}
      /\ list'[next] = entry
      /\ \A h \in DOMAIN list : list'[h] = list[h]
      /\ \A h \in DOMAIN list' : list'[h] \in Entry
      /\ Own' = Own
      /\ next \notin Own
  BY <1>1, <1>2, Inserted
<1> QED BY <1>1, <1>3 DEF entry

LEMMA OpenPersistentKeeps ==
  ASSUME LinksInv, NEW d \in Details, NEW key \in Keys, ~ini.change_user => key = d,
         key \notin DOMAIN plist, OpenPersistent(key, d), UNCHANGED ini
  PROVE  LinksInv'
<1>1. PICK p \in Object \ DOMAIN mysql : /\ mysql' = Assign(mysql, p, d)
                                         /\ plist' = Assign(plist, key, p)
                                         /\ ListInsert([type |-> "le_plink", ptr |-> p], d)
  BY DEF OpenPersistent
<1>2. /\ next \notin Given /\ next \notin DOMAIN list /\ next \in Nat
      /\ Given' = Given \cup {next}
      /\ next' \in 1 .. MaxHandles + 1
      /\ default_link' = next /\ DOMAIN asked' = Given'
      /\ DOMAIN list' = DOMAIN list \cup {next}
      /\ list'[next].ptr = p
      /\ \A h \in DOMAIN list : list'[h] = list[h]
      /\ \A h \in DOMAIN list' : list'[h] \in Entry
      /\ Own' = Own
      /\ next \notin Own
  BY <1>1, OwnUntouched
<1>3. /\ DOMAIN mysql' = DOMAIN mysql \cup {p}
      /\ mysql'[p] = d
      /\ \A q \in DOMAIN mysql : mysql'[q] = mysql[q]
  BY <1>1 DEF Assign
<1>4. /\ DOMAIN plist' = DOMAIN plist \cup {key}
      /\ plist'[key] = p
      /\ \A k \in DOMAIN plist : plist'[k] = plist[k]
  BY <1>1 DEF Assign
<1>5. /\ UNCHANGED <<ini, index, stale>>
      /\ num_persistent' = num_persistent + 1 /\ num_links' = num_links + 1
  BY DEF OpenPersistent
<1>6. MapsTyped /\ MapsTyped'
  BY <1>1, <1>2, <1>3, <1>4, <1>5, DetailsType DEF LinksInv, MapsTyped
<1>7. PersistentLinks'
  <2>1. \A k \in DOMAIN plist : plist[k] # p
    BY <1>1 DEF LinksInv, PersistentLinks
  <2>2. \A k \in DOMAIN plist' : plist'[k] \in DOMAIN mysql'
    BY <1>3, <1>4 DEF LinksInv, PersistentLinks
  <2>3. \A j, k \in DOMAIN plist' : plist'[j] = plist'[k] => j = k
    BY <1>4, <2>1 DEF LinksInv, PersistentLinks
  <2>4. ~ini.change_user => \A k \in DOMAIN plist' : mysql'[plist'[k]] = k
    BY <1>3, <1>4 DEF LinksInv, PersistentLinks
  <2> QED BY <1>5, <2>2, <2>3, <2>4 DEF PersistentLinks
<1>8. OwnLinks'
  <2>1. \A h \in Own : list'[h] = list[h] /\ list[h].ptr \in DOMAIN mysql
    BY <1>2 DEF LinksInv, OwnLinks, Own
  <2>2. \A h \in Own, k \in DOMAIN plist' : list[h].ptr # plist'[k]
    BY <1>1, <1>4, <2>1 DEF LinksInv, OwnLinks
  <2> QED BY <1>2, <1>3, <1>5, <2>1, <2>2 DEF LinksInv, OwnLinks
<1>9. IndexOfOwn'
  BY <1>2, <1>5, <1>6 DEF LinksInv, IndexOfOwn, MapsTyped
<1>10. SharedHandles'
  BY <1>2, <1>4, <1>5 DEF LinksInv, SharedHandles
<1>11. Counted'
  <2>1. /\ IsFiniteSet(DOMAIN plist')
        /\ Cardinality(DOMAIN plist') = Cardinality(DOMAIN plist) + 1
    BY <1>4, FS_AddElement DEF LinksInv, Counted
  <2>2. Cardinality(Own) \in Nat /\ num_persistent \in Nat
    BY <1>6, HandlesFinite, FS_CardinalityType DEF LinksInv, Counted
  <2> QED BY <1>2, <1>5, <2>1, <2>2 DEF LinksInv, Counted
<1> QED BY <1>6, <1>7, <1>8, <1>9, <1>10, <1>11 DEF LinksInv

\* A persistent link is connected again, or changes its user.
LEMMA LoginKeeps ==
  ASSUME LinksInv, NEW key \in DOMAIN plist, NEW login, DOMAIN login = {"host", "user"}, NEW d,
         ~ini.change_user => login = key, Login(key, login, d), UNCHANGED ini
  PROVE  LinksInv'
<1> DEFINE p == plist[key]
<1>1. p \in DOMAIN mysql /\ p \in Object
  BY DEF LinksInv, PersistentLinks, MapsTyped
<1>2. ListInsert([type |-> "le_plink", ptr |-> p], d)
  BY DEF Login
<1>3. mysql' = [mysql EXCEPT ![p] = login]
  BY DEF Login
<1>4. UNCHANGED <<ini, plist, index, stale, num_links, num_persistent>>
  BY DEF Login
<1>5. \A k \in DOMAIN plist : plist[k] = p => k = key
  BY DEF LinksInv, PersistentLinks
<1>6. \A h \in Own : list[h].ptr # p
  BY DEF LinksInv, OwnLinks
<1>7. \E k \in DOMAIN plist : plist[k] = p
  OBVIOUS
<1> HIDE DEF p
<1>8. /\ next \notin Given /\ next \notin DOMAIN list /\ next \in Nat
      /\ Given' = Given \cup {next}
      /\ next' \in 1 .. MaxHandles + 1
      /\ default_link' = next /\ DOMAIN asked' = Given'
      /\ DOMAIN list' = DOMAIN list \cup {next}
      /\ list'[next].ptr = p
      /\ \A h \in DOMAIN list : list'[h] = list[h]
      /\ \A h \in DOMAIN list' : list'[h] \in Entry
      /\ Own' = Own
      /\ next \notin Own
  BY <1>1, <1>2, OwnUntouched
<1>9. /\ DOMAIN mysql' = DOMAIN mysql
      /\ mysql'[p] = login
      /\ \A q \in DOMAIN mysql : q # p => mysql'[q] = mysql[q]
  BY <1>1, <1>3
<1>10. MapsTyped /\ MapsTyped'
  BY <1>4, <1>8, <1>9 DEF LinksInv, MapsTyped
<1>11. PersistentLinks'
  BY <1>4, <1>5, <1>9 DEF LinksInv, PersistentLinks
<1>12. OwnLinks'
  <2>1. \A h \in Own : list'[h] = list[h]
    BY <1>8 DEF Own
  <2> QED BY <1>4, <1>8, <1>9, <2>1 DEF LinksInv, OwnLinks
<1>13. IndexOfOwn'
  BY <1>4, <1>8, <1>10 DEF LinksInv, IndexOfOwn, MapsTyped
<1>14. SharedHandles'
  BY <1>4, <1>7, <1>8 DEF LinksInv, SharedHandles
<1>15. Counted'
  BY <1>4, <1>8 DEF LinksInv, Counted
<1> QED BY <1>10, <1>11, <1>12, <1>13, <1>14, <1>15 DEF LinksInv

\* A lost link is given up: no handle but its own led to it.
LEMMA GiveUpKeeps ==
  ASSUME LinksInv, NEW key \in DOMAIN plist, GiveUp(key), UNCHANGED ini
  PROVE  LinksInv'
<1> DEFINE p == plist[key]
<1>1. /\ DOMAIN mysql' = DOMAIN mysql \ {p}
      /\ \A q \in DOMAIN mysql' : mysql'[q] = mysql[q]
  BY RestrictIs DEF GiveUp
<1>2. /\ DOMAIN plist' = DOMAIN plist \ {key}
      /\ \A k \in DOMAIN plist' : plist'[k] = plist[k]
  BY RestrictIs DEF GiveUp
<1>3. /\ UNCHANGED <<ini, list, index, next, default_link, asked>>
      /\ num_persistent' = num_persistent - 1 /\ num_links' = num_links - 1
      /\ stale' = stale \cup HandlesOf(p)
  BY DEF GiveUp
<1>4. \A k \in DOMAIN plist : plist[k] = p => k = key
  BY DEF LinksInv, PersistentLinks
<1>5. \A h \in Own : list[h].ptr # p
  BY DEF LinksInv, OwnLinks
<1> HIDE DEF p
<1>6. HandlesOf(p) \subseteq DOMAIN list /\ HandlesOf(p) \cap Own = {}
  BY DEF HandlesOf, Own
<1>7. Own' = Own
  BY <1>3 DEF Own
<1>8. MapsTyped /\ MapsTyped'
  BY <1>1, <1>2, <1>3, <1>6 DEF LinksInv, MapsTyped, Given
<1>9. PersistentLinks'
  BY <1>1, <1>2, <1>3, <1>4 DEF LinksInv, PersistentLinks
<1>10. OwnLinks'
  BY <1>1, <1>2, <1>3, <1>5, <1>6, <1>7 DEF LinksInv, OwnLinks
<1>11. IndexOfOwn'
  BY <1>3, <1>7 DEF LinksInv, IndexOfOwn
<1>12. SharedHandles'
  <2>1. ASSUME NEW h \in DOMAIN list \ (Own \cup stale'), NEW k \in DOMAIN plist,
               plist[k] = list[h].ptr
        PROVE  k # key
    <3>1. h \notin HandlesOf(p)
      BY <1>3, <2>1
    <3>2. list[h].type = "le_plink"
      BY <1>8, <2>1 DEF MapsTyped, Entry, Own
    <3> QED BY <2>1, <3>1, <3>2 DEF HandlesOf, p
  <2> QED BY <1>2, <1>3, <1>7, <2>1 DEF LinksInv, SharedHandles
<1>13. Counted'
  <2>1. /\ IsFiniteSet(DOMAIN plist')
        /\ Cardinality(DOMAIN plist') = Cardinality(DOMAIN plist) - 1
    BY <1>2, FS_RemoveElement DEF LinksInv, Counted
  <2>2. Cardinality(Own) \in Nat /\ Cardinality(DOMAIN plist) \in Nat
    BY <1>8, HandlesFinite, FS_CardinalityType DEF LinksInv, Counted
  <2> QED BY <1>3, <1>7, <2>1, <2>2 DEF LinksInv, Counted
<1> QED BY <1>8, <1>9, <1>10, <1>11, <1>12, <1>13 DEF LinksInv

-----------------------------------------------------------------------------
(* The calls, requests and processes *)

LEMMA ConnectKeeps ==
  ASSUME LinksInv, NEW d \in Details, NEW key \in Keys, Connect(key, d), UNCHANGED ini
  PROVE  LinksInv'
BY ReuseKeeps, OpenLinkKeeps, OpenFailsKeeps DEF Connect

\* What a persistent link is logged in with, when it is found again.
LEMMA LoginsType ==
  ASSUME LinksInv, NEW d \in Details, NEW key \in DOMAIN plist, ~ini.change_user => key = d
  PROVE  /\ DOMAIN d = {"host", "user"}
         /\ DOMAIN mysql[plist[key]] = {"host", "user"}
         /\ DOMAIN [mysql[plist[key]] EXCEPT !.user = d.user] = {"host", "user"}
         /\ ~ini.change_user => mysql[plist[key]] = d
<1>1. plist[key] \in DOMAIN mysql
  BY DEF LinksInv, PersistentLinks
<1>2. DOMAIN mysql[plist[key]] = {"host", "user"}
  BY <1>1 DEF LinksInv, MapsTyped
<1>3. ~ini.change_user => mysql[plist[key]] = d
  BY DEF LinksInv, PersistentLinks
<1> QED BY <1>2, <1>3, DetailsType

LEMMA PConnectKeeps ==
  ASSUME LinksInv, NEW d \in Details, NEW key \in Keys, ~ini.change_user => key = d,
         PConnect(key, d), UNCHANGED ini
  PROVE  LinksInv'
<1>1. CASE Fail
  BY <1>1 DEF Fail, requestVars, LinksInv, MapsTyped, PersistentLinks, OwnLinks, IndexOfOwn,
              SharedHandles, Counted, Own, Given
<1>2. CASE key \in DOMAIN plist /\ GiveUp(key)
  BY <1>2, GiveUpKeeps
<1>3. CASE key \notin DOMAIN plist /\ OpenPersistent(key, d)
  BY <1>3, OpenPersistentKeeps
<1>4. ASSUME NEW login, key \in DOMAIN plist, Login(key, login, d),
             \/ login = d
             \/ ~ini.change_user /\ login = mysql[plist[key]]
             \/ ini.change_user /\ login = [mysql[plist[key]] EXCEPT !.user = d.user]
      PROVE  LinksInv'
  <2>1. DOMAIN login = {"host", "user"} /\ (~ini.change_user => login = key)
    BY <1>4, LoginsType
  <2> QED BY <1>4, <2>1, LoginKeeps
<1>5. CASE key \in DOMAIN plist /\ FindPersistent(key, d)
  BY <1>1, <1>2, <1>4, <1>5 DEF FindPersistent
<1> QED BY <1>1, <1>3, <1>5 DEF PConnect

LEMMA CloseKeeps ==
  ASSUME LinksInv, NEW id, mysql_close(id), UNCHANGED ini
  PROVE  LinksInv'
<1>1. /\ id \in DOMAIN list
      /\ DOMAIN list' = DOMAIN list \ {id}
      /\ \A h \in DOMAIN list' : list'[h] = list[h]
  BY RestrictIs DEF mysql_close
<1>2. UNCHANGED <<ini, plist, index, next, default_link, stale, asked, num_persistent>>
  BY DEF mysql_close
<1>3. Own' = Own \ {id}
  BY <1>1 DEF Own
<1>4. /\ DOMAIN mysql' \subseteq DOMAIN mysql
      /\ \A q \in DOMAIN mysql' : mysql'[q] = mysql[q]
      /\ \A q \in DOMAIN mysql \ DOMAIN mysql' : id \in Own /\ q = list[id].ptr
  <2>1. CASE id \in Own
    BY <2>1, RestrictIs DEF mysql_close, Own
  <2>2. CASE id \notin Own
    BY <1>1, <2>2 DEF mysql_close, Own
  <2> QED BY <2>1, <2>2
<1>5. MapsTyped /\ MapsTyped'
  BY <1>1, <1>2, <1>4 DEF LinksInv, MapsTyped, Given
<1>6. PersistentLinks'
  <2>1. \A k \in DOMAIN plist : plist[k] \in DOMAIN mysql'
    BY <1>4 DEF LinksInv, PersistentLinks, OwnLinks
  <2> QED BY <1>2, <1>4, <2>1 DEF LinksInv, PersistentLinks
<1>7. OwnLinks'
  <2>1. \A h \in Own' : h \in Own /\ h # id /\ list'[h] = list[h]
    BY <1>1, <1>3 DEF Own
  <2>2. \A h \in Own' : list[h].ptr \in DOMAIN mysql'
    BY <1>4, <2>1 DEF LinksInv, OwnLinks
  <2> QED BY <1>2, <2>1, <2>2 DEF LinksInv, OwnLinks
<1>8. IndexOfOwn'
  BY <1>1, <1>2, <1>3 DEF LinksInv, IndexOfOwn
<1>9. SharedHandles'
  BY <1>1, <1>2, <1>3 DEF LinksInv, SharedHandles
<1>10. Counted'
  <2>1. Cardinality(Own) \in Nat /\ num_persistent \in Nat /\ IsFiniteSet(Own)
    BY <1>5, HandlesFinite, FS_CardinalityType DEF LinksInv, Counted
  <2>2. CASE id \in Own
    <3>1. Cardinality(Own') = Cardinality(Own) - 1
      BY <1>3, <2>1, <2>2, FS_RemoveElement
    <3>2. num_links' = num_links - 1
      BY <2>2 DEF mysql_close, Own
    <3> QED BY <1>2, <2>1, <3>1, <3>2 DEF LinksInv, Counted
  <2>3. CASE id \notin Own
    <3>1. Own' = Own /\ num_links' = num_links
      BY <1>1, <1>3, <2>3 DEF mysql_close, Own
    <3> QED BY <1>2, <3>1 DEF LinksInv, Counted
  <2> QED BY <2>2, <2>3
<1> QED BY <1>5, <1>6, <1>7, <1>8, <1>9, <1>10 DEF LinksInv

\* A request has no handles when it starts.
Empty ==
  /\ DOMAIN list = {} /\ DOMAIN index = {} /\ stale = {} /\ DOMAIN asked = {}
  /\ next = 1 /\ default_link = -1

Started ==
  /\ Empty /\ PersistentLinks
  /\ ini \in Settings /\ DOMAIN plist \subseteq Keys
  /\ DOMAIN mysql \subseteq Object
  /\ \A p \in DOMAIN mysql : DOMAIN mysql[p] = {"host", "user"}
  /\ IsFiniteSet(DOMAIN plist) /\ num_persistent = Cardinality(DOMAIN plist)
  /\ num_links = num_persistent

LEMMA StartedInv == Started => LinksInv
<1> SUFFICES ASSUME Started PROVE LinksInv
  OBVIOUS
<1>1. Own = {}
  BY DEF Started, Empty, Own
<1>2. Given = {}
  BY DEF Started, Empty, Given
<1>5. MapsTyped
  BY <1>2, BoundAssumption DEF Started, Empty, MapsTyped
<1>3. OwnLinks /\ IndexOfOwn /\ SharedHandles
  BY <1>1 DEF Started, Empty, OwnLinks, IndexOfOwn, SharedHandles
<1>4. Counted
  <2>1. Cardinality(Own) = 0
    BY <1>1, FS_EmptySet
  <2>2. num_persistent \in Nat
    BY FS_CardinalityType DEF Started
  <2> QED BY <2>1, <2>2 DEF Started, Counted
<1> QED BY <1>3, <1>4, <1>5 DEF Started, LinksInv

LEMMA StartedNext == Started' => LinksInv'
BY StartedInv, PTL

LEMMA NextRequestKeeps ==
  ASSUME LinksInv, NextRequest, UNCHANGED ini
  PROVE  LinksInv'
<1> DEFINE own == {list[h].ptr : h \in Own}
<1>1. Empty' /\ num_links' = num_persistent
  BY NoHandlesIs DEF NextRequest, RequestStartup, Empty
<1>2. UNCHANGED <<plist, num_persistent>>
  BY DEF NextRequest
<1>3. mysql' = Restrict(mysql, DOMAIN mysql \ own)
  BY DEF NextRequest, Own
<1>4. \A k \in DOMAIN plist : plist[k] \in DOMAIN mysql \ own
  BY DEF LinksInv, PersistentLinks, OwnLinks
<1> HIDE DEF own
<1>5. /\ DOMAIN mysql' = DOMAIN mysql \ own
      /\ \A q \in DOMAIN mysql' : mysql'[q] = mysql[q]
  BY <1>3, RestrictIs
<1>6. PersistentLinks'
  BY <1>2, <1>4, <1>5 DEF LinksInv, PersistentLinks
<1>7. /\ ini' \in Settings /\ DOMAIN plist' \subseteq Keys
      /\ DOMAIN mysql' \subseteq Object
      /\ \A p \in DOMAIN mysql' : DOMAIN mysql'[p] = {"host", "user"}
      /\ IsFiniteSet(DOMAIN plist') /\ num_persistent' = Cardinality(DOMAIN plist')
      /\ num_links' = num_persistent'
  BY <1>1, <1>2, <1>5 DEF LinksInv, MapsTyped, Counted
<1>8. Started'
  BY <1>1, <1>6, <1>7 DEF Started
<1> QED BY <1>8, StartedNext

LEMMA RestartKeeps ==
  ASSUME LinksInv, Restart, UNCHANGED ini
  PROVE  LinksInv'
<1>1. Empty' /\ DOMAIN mysql' = {} /\ DOMAIN plist' = {} /\ num_links' = num_persistent'
  BY NoHandlesIs DEF Restart, Empty
<1>2. PersistentLinks'
  BY <1>1 DEF PersistentLinks
<1>3. IsFiniteSet(DOMAIN plist') /\ num_persistent' = Cardinality(DOMAIN plist')
  BY <1>1, FS_EmptySet DEF Restart
<1>4. ini' \in Settings
  BY DEF LinksInv, MapsTyped
<1>5. Started'
  BY <1>1, <1>2, <1>3, <1>4 DEF Started
<1> QED BY <1>5, StartedNext

LEMMA LinksInit == Init => LinksInv
<1> SUFFICES ASSUME Init PROVE LinksInv
  OBVIOUS
<1>1. Empty /\ DOMAIN mysql = {} /\ DOMAIN plist = {} /\ num_links = num_persistent
  BY NoHandlesIs DEF Init, Empty
<1>2. PersistentLinks
  BY <1>1 DEF PersistentLinks
<1>3. IsFiniteSet(DOMAIN plist) /\ num_persistent = Cardinality(DOMAIN plist)
  BY <1>1, FS_EmptySet DEF Init
<1>4. Started
  BY <1>1, <1>2, <1>3 DEF Init, Started
<1> QED BY <1>4, StartedInv

LEMMA LinksStep == LinksInv /\ [Next]_vars => LinksInv'
<1> SUFFICES ASSUME LinksInv, [Next]_vars PROVE LinksInv'
  OBVIOUS
<1>1. CASE UNCHANGED vars
  BY <1>1 DEF vars, requestVars, LinksInv, MapsTyped, PersistentLinks, OwnLinks, IndexOfOwn,
              SharedHandles, Counted, Own, Given
<1>2. CASE Next
  <2>1. UNCHANGED ini
    BY <1>2 DEF Next
  <2>2. ASSUME NEW d \in Details, mysql_connect(d) PROVE LinksInv'
    <3>1. HashedDetails(d, FALSE) \in Keys
      BY HashedType
    <3> QED BY <2>1, <2>2, <3>1, ConnectKeeps DEF mysql_connect
  <2>3. ASSUME NEW d \in Details, mysql_pconnect(d) PROVE LinksInv'
    <3>1. /\ HashedDetails(d, TRUE) \in Keys
          /\ ~ini.change_user => HashedDetails(d, TRUE) = d
      BY HashedType DEF HashedDetails
    <3>2. IF ini.allow_persistent THEN PConnect(HashedDetails(d, TRUE), d)
                                  ELSE Connect(HashedDetails(d, TRUE), d)
      BY <2>3 DEF mysql_pconnect
    <3>3. CASE ini.allow_persistent
      BY <2>1, <3>1, <3>2, <3>3, PConnectKeeps
    <3>4. CASE ~ini.allow_persistent
      BY <2>1, <3>1, <3>2, <3>4, ConnectKeeps
    <3> QED BY <3>3, <3>4
  <2>4. CASE GetDefaultLink
    BY <2>2, <2>4, DetailsAssumption DEF GetDefaultLink
  <2> QED
    BY <1>2, <2>1, <2>2, <2>3, <2>4, CloseKeeps, NextRequestKeeps, RestartKeeps DEF Next
<1> QED BY <1>1, <1>2

LEMMA LinksInvariant == Spec => []LinksInv
BY LinksInit, LinksStep, PTL DEF Spec

LEMMA LinksTyped == LinksInv => TypeOK
<1> SUFFICES ASSUME LinksInv PROVE TypeOK
  OBVIOUS
<1>1. Range(plist) \subseteq Object
  BY DEF LinksInv, MapsTyped, PersistentLinks, Range
<1>2. Range(list) \subseteq Entry /\ Range(index) \subseteq Given
  BY DEF LinksInv, MapsTyped, Range
<1>3. num_links \in Nat /\ num_persistent \in Nat
  BY HandlesFinite, FS_CardinalityType DEF LinksInv, Counted
<1> QED BY <1>1, <1>2, <1>3 DEF LinksInv, MapsTyped, TypeOK, Given, Keys

\* The counters are the numbers of links of their kind, so never below zero,
\* whatever a request closes, loses or leaves behind; the lists have handles
\* and objects only.
THEOREM TypesHold == Spec => []TypeOK
BY LinksInvariant, LinksTyped, PTL

-----------------------------------------------------------------------------
(* What the steps do *)

\* A handle of this entry is new, and all others are as they were.
NewHandle(type, p, d) ==
  /\ next \notin Given /\ next \notin DOMAIN list /\ next \notin stale /\ next \notin Own
  /\ Given' = Given \cup {next} /\ default_link' = next
  /\ DOMAIN list' = DOMAIN list \cup {next}
  /\ list'[next].type = type /\ list'[next].ptr = p /\ asked'[next] = d
  /\ \A h \in DOMAIN list : list'[h] = list[h] /\ asked'[h] = asked[h]
  /\ Own' = IF type = "le_link" THEN Own \cup {next} ELSE Own

LEMMA InsertDoes ==
  ASSUME LinksInv, NEW type \in {"le_link", "le_plink"}, NEW p \in Object, NEW d,
         ListInsert([type |-> type, ptr |-> p], d)
  PROVE  NewHandle(type, p, d)
<1> DEFINE entry == [type |-> type, ptr |-> p]
<1>1. entry \in Entry /\ entry.type = type /\ entry.ptr = p
  BY DEF Entry
<1>2. ListInsert(entry, d) /\ MapsTyped
  BY DEF LinksInv
<1> HIDE DEF entry
<1>3. /\ next \notin Given /\ next \notin DOMAIN list
      /\ Given' = Given \cup {next} /\ default_link' = next
      /\ DOMAIN list' = DOMAIN list \cup {next}
      /\ list'[next] = entry
      /\ \A h \in DOMAIN list : list'[h] = list[h]
      /\ entry.type = "le_link" => Own' = Own \cup {next}
      /\ entry.type # "le_link" => Own' = Own
      /\ next \notin Own
  BY <1>1, <1>2, Inserted
<1>4. next \notin stale /\ DOMAIN list \subseteq DOMAIN asked /\ next \notin DOMAIN asked
  BY <1>2, <1>3 DEF MapsTyped
<1>5. asked'[next] = d /\ \A h \in DOMAIN list : asked'[h] = asked[h]
  BY <1>4 DEF ListInsert, Assign
<1> QED BY <1>1, <1>3, <1>4, <1>5 DEF NewHandle

\* One more object is in use.
NewObject(p, d) ==
  /\ p \in Object \ DOMAIN mysql
  /\ DOMAIN mysql' = DOMAIN mysql \cup {p} /\ mysql'[p] = d
  /\ \A q \in DOMAIN mysql : mysql'[q] = mysql[q]

LEMMA OpenLinkDoes ==
  ASSUME LinksInv, NEW key, NEW d, OpenLink(key, d)
  PROVE  /\ \E p : NewObject(p, d) /\ NewHandle("le_link", p, d)
         /\ DOMAIN index' = DOMAIN index \cup {key} /\ index'[key] = next
         /\ \A k \in DOMAIN index : k # key => index'[k] = index[k]
         /\ UNCHANGED <<plist, stale, num_persistent>>
         /\ num_links' = num_links + 1 /\ ~TooMany(ini.max_links, num_links)
<1>1. PICK p \in Object \ DOMAIN mysql : /\ mysql' = Assign(mysql, p, d)
                                         /\ ListInsert([type |-> "le_link", ptr |-> p], d)
  BY DEF OpenLink
<1>2. NewObject(p, d)
  BY <1>1 DEF Assign, NewObject
<1>3. NewHandle("le_link", p, d)
  BY <1>1, InsertDoes
<1>4. /\ DOMAIN index' = DOMAIN index \cup {key} /\ index'[key] = next
      /\ \A k \in DOMAIN index : k # key => index'[k] = index[k]
  BY DEF OpenLink, Assign
<1> QED BY <1>2, <1>3, <1>4 DEF OpenLink

LEMMA OpenPersistentDoes ==
  ASSUME LinksInv, NEW key, NEW d, key \notin DOMAIN plist, OpenPersistent(key, d)
  PROVE  /\ \E p : /\ NewObject(p, d) /\ NewHandle("le_plink", p, d)
                   /\ DOMAIN plist' = DOMAIN plist \cup {key} /\ plist'[key] = p
         /\ \A k \in DOMAIN plist : plist'[k] = plist[k]
         /\ UNCHANGED <<index, stale>>
         /\ num_links' = num_links + 1 /\ ~TooMany(ini.max_links, num_links)
         /\ num_persistent' = num_persistent + 1
         /\ ~TooMany(ini.max_persistent, num_persistent)
<1>1. PICK p \in Object \ DOMAIN mysql : /\ mysql' = Assign(mysql, p, d)
                                         /\ plist' = Assign(plist, key, p)
                                         /\ ListInsert([type |-> "le_plink", ptr |-> p], d)
  BY DEF OpenPersistent
<1>2. NewObject(p, d)
  BY <1>1 DEF Assign, NewObject
<1>3. NewHandle("le_plink", p, d)
  BY <1>1, InsertDoes
<1>4. /\ DOMAIN plist' = DOMAIN plist \cup {key} /\ plist'[key] = p
      /\ \A k \in DOMAIN plist : plist'[k] = plist[k]
  BY <1>1 DEF Assign
<1> QED BY <1>2, <1>3, <1>4 DEF OpenPersistent

LEMMA LoginDoes ==
  ASSUME LinksInv, NEW key \in DOMAIN plist, NEW login, NEW d, Login(key, login, d)
  PROVE  /\ NewHandle("le_plink", plist[key], d)
         /\ DOMAIN mysql' = DOMAIN mysql /\ mysql'[plist[key]] = login
         /\ \A q \in DOMAIN mysql : q # plist[key] => mysql'[q] = mysql[q]
         /\ UNCHANGED <<plist, index, stale, num_links, num_persistent>>
<1>1. plist[key] \in DOMAIN mysql /\ plist[key] \in Object
  BY DEF LinksInv, PersistentLinks, MapsTyped
<1>2. NewHandle("le_plink", plist[key], d)
  BY <1>1, InsertDoes DEF Login
<1> QED BY <1>1, <1>2 DEF Login

LEMMA GiveUpDoes ==
  ASSUME NEW key \in DOMAIN plist, GiveUp(key)
  PROVE  /\ DOMAIN mysql' = DOMAIN mysql \ {plist[key]}
         /\ \A q \in DOMAIN mysql' : mysql'[q] = mysql[q]
         /\ DOMAIN plist' = DOMAIN plist \ {key}
         /\ \A k \in DOMAIN plist' : plist'[k] = plist[k]
         /\ UNCHANGED <<list, index, next, default_link, asked>> /\ Own' = Own
         /\ num_persistent' = num_persistent - 1 /\ num_links' = num_links - 1
         /\ stale' = stale \cup HandlesOf(plist[key])
BY RestrictIs DEF GiveUp, Own

LEMMA CloseDoes ==
  ASSUME NEW id, mysql_close(id)
  PROVE  /\ id \in DOMAIN list
         /\ DOMAIN list' = DOMAIN list \ {id}
         /\ \A h \in DOMAIN list' : list'[h] = list[h]
         /\ Own' = Own \ {id}
         /\ DOMAIN mysql' = IF id \in Own THEN DOMAIN mysql \ {list[id].ptr} ELSE DOMAIN mysql
         /\ \A q \in DOMAIN mysql' : mysql'[q] = mysql[q]
         /\ num_links' = IF id \in Own THEN num_links - 1 ELSE num_links
         /\ UNCHANGED <<plist, index, next, default_link, stale, asked, num_persistent>>
<1>1. /\ id \in DOMAIN list
      /\ DOMAIN list' = DOMAIN list \ {id}
      /\ \A h \in DOMAIN list' : list'[h] = list[h]
  BY RestrictIs DEF mysql_close
<1>2. CASE id \in Own
  BY <1>1, <1>2, RestrictIs DEF mysql_close, Own
<1>3. CASE id \notin Own
  BY <1>1, <1>3 DEF mysql_close, Own
<1> QED BY <1>2, <1>3

LEMMA NextRequestDoes ==
  ASSUME LinksInv, NextRequest
  PROVE  /\ DOMAIN mysql' = DOMAIN mysql \ {list[h].ptr : h \in Own}
         /\ \A q \in DOMAIN mysql' : mysql'[q] = mysql[q]
         /\ \A k \in DOMAIN plist : plist[k] \in DOMAIN mysql'
         /\ UNCHANGED <<plist, num_persistent>> /\ num_links' = num_persistent
         /\ DOMAIN list' = {} /\ DOMAIN index' = {} /\ Own' = {}
         /\ next' = 1 /\ default_link' = -1
<1> DEFINE own == {list[h].ptr : h \in Own}
<1>1. mysql' = Restrict(mysql, DOMAIN mysql \ own)
  BY DEF NextRequest, Own
<1>2. \A k \in DOMAIN plist : plist[k] \in DOMAIN mysql \ own
  BY DEF LinksInv, PersistentLinks, OwnLinks
<1> HIDE DEF own
<1>3. DOMAIN mysql' = DOMAIN mysql \ own /\ \A q \in DOMAIN mysql' : mysql'[q] = mysql[q]
  BY <1>1, RestrictIs
<1>4. /\ DOMAIN list' = {} /\ DOMAIN index' = {} /\ Own' = {} /\ next' = 1
      /\ default_link' = -1 /\ num_links' = num_persistent
      /\ UNCHANGED <<plist, num_persistent>>
  BY NoHandlesIs DEF NextRequest, RequestStartup, Own
<1> QED BY <1>2, <1>3, <1>4 DEF own

LEMMA RestartDoes ==
  ASSUME Restart
  PROVE  /\ DOMAIN mysql' = {} /\ DOMAIN plist' = {} /\ num_persistent' = 0 /\ num_links' = 0
         /\ DOMAIN list' = {} /\ DOMAIN index' = {} /\ Own' = {}
         /\ next' = 1 /\ default_link' = -1
BY NoHandlesIs DEF Restart, Own

-----------------------------------------------------------------------------
(* How many links there are *)

\* No object is in use that nobody has.
AllHeld ==
  \A p \in DOMAIN mysql :
    (\E k \in DOMAIN plist : plist[k] = p) \/ (\E h \in Own : list[h].ptr = p)

ObjectsCounted == IsFiniteSet(DOMAIN mysql) /\ num_links = Cardinality(DOMAIN mysql)

Limited ==
  /\ ini.max_links # -1 => num_links <= ini.max_links
  /\ ini.max_persistent # -1 => num_persistent <= ini.max_persistent

HeldInv == AllHeld /\ ObjectsCounted /\ Limited

LEMMA CountsType ==
  ASSUME LinksInv
  PROVE  /\ num_links \in Nat /\ num_persistent \in Nat /\ num_persistent <= num_links
         /\ ini.max_links \in Nat \cup {-1} /\ ini.max_persistent \in Nat \cup {-1}
         /\ ini.change_user \in BOOLEAN
<1>1. Cardinality(Own) \in Nat /\ num_persistent \in Nat
  BY HandlesFinite, FS_CardinalityType DEF LinksInv, Counted
<1>2. num_links = Cardinality(Own) + num_persistent
  BY DEF LinksInv, Counted
<1> QED BY <1>1, <1>2, SettingsAssumption DEF LinksInv, MapsTyped

LEMMA OneMore ==
  ASSUME ObjectsCounted, NEW p, NEW d, NewObject(p, d), num_links' = num_links + 1
  PROVE  ObjectsCounted'
BY FS_AddElement DEF ObjectsCounted, NewObject

LEMMA OneLess ==
  ASSUME LinksInv, ObjectsCounted, NEW p \in DOMAIN mysql, DOMAIN mysql' = DOMAIN mysql \ {p},
         num_links' = num_links - 1
  PROVE  ObjectsCounted'
<1>1. /\ IsFiniteSet(DOMAIN mysql \ {p})
      /\ Cardinality(DOMAIN mysql \ {p}) = Cardinality(DOMAIN mysql) - 1
  BY FS_RemoveElement DEF ObjectsCounted
<1> QED BY <1>1 DEF ObjectsCounted

\* The objects of the persistent list are as many as its keys.
LEMMA PersistentObjects ==
  ASSUME LinksInv
  PROVE  /\ IsFiniteSet(Range(plist)) /\ Cardinality(Range(plist)) = num_persistent
         /\ Range(plist) = {plist[k] : k \in DOMAIN plist}
<1> DEFINE S == DOMAIN plist
           T == {plist[k] : k \in S}
           f == [k \in S |-> plist[k]]
<1>1. Range(plist) = T
  BY DEF Range
<1>2. f \in Bijection(S, T)
  <2>1. f \in [S -> T]
    OBVIOUS
  <2>2. \A j, k \in S : f[j] = f[k] => j = k
    BY DEF LinksInv, PersistentLinks
  <2>3. \A t \in T : \E k \in S : f[k] = t
    OBVIOUS
  <2> QED BY <2>1, <2>2, <2>3 DEF Bijection, Injection, Surjection, IsInjective
<1>3. ExistsBijection(S, T)
  BY <1>2 DEF ExistsBijection
<1>4. IsFiniteSet(S) /\ Cardinality(S) = num_persistent
  BY DEF LinksInv, Counted
<1> HIDE DEF S, T
<1>5. IsFiniteSet(T) /\ Cardinality(T) = Cardinality(S)
  BY <1>3, <1>4, FS_Bijection
<1> QED BY <1>1, <1>4, <1>5 DEF S, T

LEMMA ConnectHeld ==
  ASSUME LinksInv, HeldInv, NEW d, NEW key, Connect(key, d), UNCHANGED ini
  PROVE  HeldInv'
<1>1. CASE Reuse(key, d)
  BY <1>1 DEF Reuse, HeldInv, AllHeld, ObjectsCounted, Limited, Own
<1>2. CASE OpenFails(key)
  BY <1>2 DEF OpenFails, HeldInv, AllHeld, ObjectsCounted, Limited, Own
<1>3. CASE OpenLink(key, d)
  <2>1. PICK p : NewObject(p, d) /\ NewHandle("le_link", p, d)
    BY <1>3, OpenLinkDoes
  <2>2. /\ UNCHANGED <<plist, num_persistent>>
        /\ num_links' = num_links + 1 /\ ~TooMany(ini.max_links, num_links)
    BY <1>3, OpenLinkDoes
  <2>3. \A h \in Own : list'[h] = list[h] /\ h \in Own'
    BY <2>1 DEF NewHandle, Own
  <2>4. AllHeld'
    <3>1. next \in Own' /\ list'[next].ptr = p
      BY <2>1 DEF NewHandle
    <3> QED BY <2>1, <2>2, <2>3, <3>1 DEF HeldInv, AllHeld, NewObject
  <2>5. ObjectsCounted'
    BY <2>1, <2>2, OneMore DEF HeldInv
  <2>6. Limited'
    BY <2>2, CountsType DEF HeldInv, Limited, TooMany
  <2> QED BY <2>4, <2>5, <2>6 DEF HeldInv
<1> QED BY <1>1, <1>2, <1>3 DEF Connect

LEMMA LoginHeld ==
  ASSUME LinksInv, HeldInv, NEW key \in DOMAIN plist, NEW login, NEW d, Login(key, login, d),
         UNCHANGED ini
  PROVE  HeldInv'
<1>1. /\ NewHandle("le_plink", plist[key], d) /\ DOMAIN mysql' = DOMAIN mysql
      /\ UNCHANGED <<plist, num_links, num_persistent>>
  BY LoginDoes
<1>2. \A h \in Own : list'[h] = list[h] /\ h \in Own'
  BY <1>1 DEF NewHandle, Own
<1> QED BY <1>1, <1>2 DEF HeldInv, AllHeld, ObjectsCounted, Limited

LEMMA GiveUpHeld ==
  ASSUME LinksInv, HeldInv, NEW key \in DOMAIN plist, GiveUp(key), UNCHANGED ini
  PROVE  HeldInv'
<1>1. /\ DOMAIN mysql' = DOMAIN mysql \ {plist[key]}
      /\ DOMAIN plist' = DOMAIN plist \ {key}
      /\ \A k \in DOMAIN plist' : plist'[k] = plist[k]
      /\ UNCHANGED list /\ Own' = Own
      /\ num_persistent' = num_persistent - 1 /\ num_links' = num_links - 1
  BY GiveUpDoes
<1>2. AllHeld'
  BY <1>1 DEF HeldInv, AllHeld
<1>3. plist[key] \in DOMAIN mysql
  BY DEF LinksInv, PersistentLinks
<1>4. ObjectsCounted'
  BY <1>1, <1>3, OneLess DEF HeldInv
<1>5. Limited'
  BY <1>1, CountsType DEF HeldInv, Limited
<1> QED BY <1>2, <1>4, <1>5 DEF HeldInv

LEMMA PConnectHeld ==
  ASSUME LinksInv, HeldInv, NEW d, NEW key, PConnect(key, d), UNCHANGED ini
  PROVE  HeldInv'
<1>1. CASE Fail
  BY <1>1 DEF Fail, requestVars, HeldInv, AllHeld, ObjectsCounted, Limited, Own
<1>2. CASE key \notin DOMAIN plist /\ OpenPersistent(key, d)
  <2>1. PICK p : /\ NewObject(p, d) /\ NewHandle("le_plink", p, d)
                 /\ DOMAIN plist' = DOMAIN plist \cup {key} /\ plist'[key] = p
    BY <1>2, OpenPersistentDoes
  <2>2. /\ \A k \in DOMAIN plist : plist'[k] = plist[k]
        /\ num_links' = num_links + 1 /\ ~TooMany(ini.max_links, num_links)
        /\ num_persistent' = num_persistent + 1
        /\ ~TooMany(ini.max_persistent, num_persistent)
    BY <1>2, OpenPersistentDoes
  <2>3. \A h \in Own : list'[h] = list[h] /\ h \in Own'
    BY <2>1 DEF NewHandle, Own
  <2>4. AllHeld'
    BY <2>1, <2>2, <2>3 DEF HeldInv, AllHeld, NewObject
  <2>5. ObjectsCounted'
    BY <2>1, <2>2, OneMore DEF HeldInv
  <2>6. Limited'
    BY <2>2, CountsType DEF HeldInv, Limited, TooMany
  <2> QED BY <2>4, <2>5, <2>6 DEF HeldInv
<1>3. CASE key \in DOMAIN plist /\ FindPersistent(key, d)
  BY <1>1, <1>3, LoginHeld, GiveUpHeld DEF FindPersistent
<1> QED BY <1>1, <1>2, <1>3 DEF PConnect

LEMMA CloseHeld ==
  ASSUME LinksInv, HeldInv, NEW id, mysql_close(id), UNCHANGED ini
  PROVE  HeldInv'
<1>1. /\ id \in DOMAIN list /\ DOMAIN list' = DOMAIN list \ {id}
      /\ \A h \in DOMAIN list' : list'[h] = list[h]
      /\ Own' = Own \ {id}
      /\ DOMAIN mysql' = IF id \in Own THEN DOMAIN mysql \ {list[id].ptr} ELSE DOMAIN mysql
      /\ num_links' = IF id \in Own THEN num_links - 1 ELSE num_links
      /\ UNCHANGED <<plist, num_persistent>>
  BY CloseDoes
<1>2. AllHeld'
  <2>1. \A h \in Own' : list'[h] = list[h]
    BY <1>1 DEF Own
  <2> QED BY <1>1, <2>1 DEF HeldInv, AllHeld
<1>3. ObjectsCounted'
  <2>1. CASE id \in Own
    <3>1. list[id].ptr \in DOMAIN mysql
      BY <2>1 DEF LinksInv, OwnLinks
    <3> QED BY <1>1, <2>1, <3>1, OneLess DEF HeldInv
  <2>2. CASE id \notin Own
    BY <1>1, <2>2 DEF HeldInv, ObjectsCounted
  <2> QED BY <2>1, <2>2
<1>4. Limited'
  BY <1>1, CountsType DEF HeldInv, Limited
<1> QED BY <1>2, <1>3, <1>4 DEF HeldInv

LEMMA NextRequestHeld ==
  ASSUME LinksInv, HeldInv, NextRequest, UNCHANGED ini
  PROVE  HeldInv'
<1>1. /\ DOMAIN mysql' = DOMAIN mysql \ {list[h].ptr : h \in Own}
      /\ \A k \in DOMAIN plist : plist[k] \in DOMAIN mysql'
      /\ UNCHANGED <<plist, num_persistent>> /\ num_links' = num_persistent
  BY NextRequestDoes
<1>2. DOMAIN mysql' = {plist[k] : k \in DOMAIN plist}
  BY <1>1 DEF HeldInv, AllHeld
<1>3. AllHeld'
  BY <1>1, <1>2 DEF AllHeld
<1>4. ObjectsCounted'
  BY <1>1, <1>2, PersistentObjects DEF ObjectsCounted
<1>5. Limited'
  BY <1>1, CountsType DEF HeldInv, Limited
<1> QED BY <1>3, <1>4, <1>5 DEF HeldInv

LEMMA NoneUsed ==
  ASSUME DOMAIN mysql = {}, num_links = 0, num_persistent = 0, ini \in Settings
  PROVE  HeldInv
<1>1. Limited
  BY SettingsAssumption DEF Limited
<1> QED BY <1>1, FS_EmptySet DEF HeldInv, AllHeld, ObjectsCounted

LEMMA NoneUsedNext ==
  ASSUME DOMAIN mysql' = {}, num_links' = 0, num_persistent' = 0, ini' \in Settings
  PROVE  HeldInv'
<1>1. Limited'
  BY SettingsAssumption DEF Limited
<1> QED BY <1>1, FS_EmptySet DEF HeldInv, AllHeld, ObjectsCounted

LEMMA HeldStep == LinksInv /\ HeldInv /\ [Next]_vars => HeldInv'
<1> SUFFICES ASSUME LinksInv, HeldInv, [Next]_vars PROVE HeldInv'
  OBVIOUS
<1>1. CASE UNCHANGED vars
  BY <1>1 DEF vars, requestVars, HeldInv, AllHeld, ObjectsCounted, Limited, Own
<1>2. CASE Next
  <2>1. UNCHANGED ini /\ ini' \in Settings
    BY <1>2 DEF Next, LinksInv, MapsTyped
  <2>2. ASSUME NEW d \in Details, mysql_connect(d) PROVE HeldInv'
    BY <2>1, <2>2, ConnectHeld DEF mysql_connect
  <2>3. ASSUME NEW d \in Details, mysql_pconnect(d) PROVE HeldInv'
    <3>1. PConnect(HashedDetails(d, TRUE), d) \/ Connect(HashedDetails(d, TRUE), d)
      BY <2>3 DEF mysql_pconnect
    <3> QED BY <2>1, <3>1, ConnectHeld, PConnectHeld
  <2>4. CASE GetDefaultLink
    BY <2>2, <2>4, DetailsAssumption DEF GetDefaultLink
  <2>5. CASE Restart
    BY <2>1, <2>5, RestartDoes, NoneUsedNext
  <2> QED
    BY <1>2, <2>1, <2>2, <2>3, <2>4, <2>5, CloseHeld, NextRequestHeld DEF Next
<1> QED BY <1>1, <1>2

LEMMA HeldInvariant == Spec => []HeldInv
<1>1. Init => HeldInv
  BY NoneUsed, NoHandlesIs DEF Init
<1> QED BY <1>1, LinksInvariant, HeldStep, PTL DEF Spec

\* No link is opened that would be one too many, whatever requests of the
\* process opened, closed, lost or left behind, under all settings of php3.ini.
THEOREM LimitsHold == Spec => []WithinLimits
<1>1. LinksInv /\ HeldInv => WithinLimits
  BY PersistentObjects DEF HeldInv, ObjectsCounted, Limited, WithinLimits
<1> QED BY <1>1, LinksInvariant, HeldInvariant, PTL

\* What is freed is nobody's, and what is nobody's is freed: each object is the
\* link of one handle or of one entry of the persistent list.
THEOREM NoneIsLost == Spec => []LinksAreHeld
<1>1. LinksInv /\ HeldInv => LinksAreHeld
  <2> SUFFICES ASSUME LinksInv, HeldInv PROVE LinksAreHeld
    OBVIOUS
  <2>1. Range(plist) = {plist[k] : k \in DOMAIN plist}
    BY PersistentObjects
  <2>2. DOMAIN mysql = Range(plist) \cup {list[h].ptr : h \in Own}
    <3>1. \A p \in DOMAIN mysql : p \in Range(plist) \cup {list[h].ptr : h \in Own}
      BY <2>1 DEF HeldInv, AllHeld
    <3>2. \A p \in Range(plist) : p \in DOMAIN mysql
      BY <2>1 DEF LinksInv, PersistentLinks
    <3>3. \A h \in Own : list[h].ptr \in DOMAIN mysql
      BY DEF LinksInv, OwnLinks
    <3> QED BY <3>1, <3>2, <3>3
  <2>3. \A h \in DOMAIN list \ (Own \cup stale) : list[h].ptr \in Range(plist)
    BY <2>1 DEF LinksInv, SharedHandles
  <2> QED BY <2>2, <2>3 DEF LinksInv, OwnLinks, LinksAreHeld
<1> QED BY <1>1, LinksInvariant, HeldInvariant, PTL

-----------------------------------------------------------------------------
(* Where handles lead, without mysql_change_user *)

\* The index has a link under what it was opened with, and so does a handle.
ByDetails ==
  /\ ~ini.change_user
  /\ \A k \in DOMAIN index : index[k] \in DOMAIN list => mysql[list[index[k]].ptr] = k
  /\ \A h \in DOMAIN list \ stale : mysql[list[h].ptr] = asked[h]

\* A handle that is not lost leads to an object in use.
LEMMA LeadsToObject ==
  ASSUME LinksInv, NEW h \in DOMAIN list \ stale
  PROVE  list[h].ptr \in DOMAIN mysql
BY DEF LinksInv, OwnLinks, SharedHandles, PersistentLinks

\* What the object of a handle is logged in with, after a step that keeps it.
LEMMA NewHandleByDetails ==
  ASSUME LinksInv, ByDetails, UNCHANGED <<ini, stale>>, NEW type, NEW p, NEW d,
         NewHandle(type, p, d), mysql'[p] = d,
         \A q \in DOMAIN mysql : mysql'[q] = mysql[q],
         \A k \in DOMAIN index' : index'[k] = next => k = d,
         \A k \in DOMAIN index' : index'[k] # next => k \in DOMAIN index /\ index'[k] = index[k]
  PROVE  ByDetails'
<1>1. ASSUME NEW k \in DOMAIN index', index'[k] \in DOMAIN list'
      PROVE  mysql'[list'[index'[k]].ptr] = k
  <2>1. CASE index'[k] = next
    BY <2>1 DEF NewHandle
  <2>2. CASE index'[k] # next
    <3>1. k \in DOMAIN index /\ index'[k] = index[k] /\ index[k] \in DOMAIN list
      BY <1>1, <2>2 DEF NewHandle
    <3>2. list[index[k]].ptr \in DOMAIN mysql
      BY <3>1 DEF LinksInv, IndexOfOwn, OwnLinks
    <3> QED BY <3>1, <3>2 DEF ByDetails, NewHandle
  <2> QED BY <2>1, <2>2
<1>2. ASSUME NEW h \in DOMAIN list' \ stale' PROVE mysql'[list'[h].ptr] = asked'[h]
  <2>1. CASE h = next
    BY <2>1 DEF NewHandle
  <2>2. CASE h # next
    <3>1. h \in DOMAIN list \ stale
      BY <2>2 DEF NewHandle
    <3> QED BY <3>1, LeadsToObject DEF ByDetails, NewHandle
  <2> QED BY <2>1, <2>2
<1> QED BY <1>1, <1>2 DEF ByDetails

LEMMA ReuseIs ==
  ASSUME LinksInv, ByDetails, NEW d, Reuse(d, d)
  PROVE  \E h \in Own : /\ default_link' = h /\ mysql[list[h].ptr] = d
                        /\ asked' = Assign(asked, h, d)
BY DEF Reuse, Indexed, LinksInv, IndexOfOwn, ByDetails

LEMMA ConnectByDetails ==
  ASSUME LinksInv, ByDetails, NEW d, Connect(d, d), UNCHANGED ini
  PROVE  ByDetails'
<1>1. CASE Reuse(d, d)
  <2>1. PICK h \in Own : mysql[list[h].ptr] = d /\ asked' = Assign(asked, h, d)
    BY <1>1, ReuseIs
  <2>2. DOMAIN list \subseteq DOMAIN asked
    BY DEF LinksInv, MapsTyped
  <2>3. \A g \in DOMAIN list \ stale : mysql[list[g].ptr] = asked'[g]
    BY <2>1, <2>2 DEF ByDetails, Assign
  <2> QED BY <1>1, <2>3 DEF ByDetails, Reuse
<1>2. CASE OpenFails(d)
  BY <1>2, RestrictIs DEF OpenFails, ByDetails
<1>3. CASE OpenLink(d, d)
  <2>1. PICK p : NewObject(p, d) /\ NewHandle("le_link", p, d)
    BY <1>3, OpenLinkDoes
  <2>2. /\ DOMAIN index' = DOMAIN index \cup {d} /\ index'[d] = next
        /\ \A k \in DOMAIN index : k # d => index'[k] = index[k]
        /\ UNCHANGED stale
    BY <1>3, OpenLinkDoes
  <2>3. \A k \in DOMAIN index : index[k] # next
    BY <2>1 DEF NewHandle, LinksInv, MapsTyped
  <2> QED BY <2>1, <2>2, <2>3, NewHandleByDetails DEF NewObject
<1> QED BY <1>1, <1>2, <1>3 DEF Connect

LEMMA LoginByDetails ==
  ASSUME LinksInv, ByDetails, NEW d \in DOMAIN plist, Login(d, d, d), UNCHANGED ini
  PROVE  ByDetails' /\ \A q \in DOMAIN mysql : mysql'[q] = mysql[q]
<1>1. /\ NewHandle("le_plink", plist[d], d) /\ mysql'[plist[d]] = d
      /\ \A q \in DOMAIN mysql : q # plist[d] => mysql'[q] = mysql[q]
      /\ UNCHANGED <<index, stale>>
  BY LoginDoes
<1>2. mysql[plist[d]] = d
  BY DEF LinksInv, PersistentLinks, ByDetails
<1>3. \A q \in DOMAIN mysql : mysql'[q] = mysql[q]
  BY <1>1, <1>2
<1>4. \A k \in DOMAIN index : index[k] # next
  BY <1>1 DEF NewHandle, LinksInv, MapsTyped
<1>5. ByDetails'
  BY <1>1, <1>3, <1>4, NewHandleByDetails
<1> QED BY <1>3, <1>5

LEMMA PConnectByDetails ==
  ASSUME LinksInv, ByDetails, NEW d, PConnect(d, d), UNCHANGED ini
  PROVE  ByDetails'
<1>1. CASE Fail
  BY <1>1 DEF Fail, requestVars, ByDetails
<1>2. CASE d \notin DOMAIN plist /\ OpenPersistent(d, d)
  <2>1. PICK p : NewObject(p, d) /\ NewHandle("le_plink", p, d)
    BY <1>2, OpenPersistentDoes
  <2>2. UNCHANGED <<index, stale>>
    BY <1>2, OpenPersistentDoes
  <2>3. \A k \in DOMAIN index : index[k] # next
    BY <2>1 DEF NewHandle, LinksInv, MapsTyped
  <2> QED BY <2>1, <2>2, <2>3, NewHandleByDetails DEF NewObject
<1>3. CASE d \in DOMAIN plist /\ GiveUp(d)
  <2>1. /\ \A q \in DOMAIN mysql' : mysql'[q] = mysql[q]
        /\ DOMAIN mysql' = DOMAIN mysql \ {plist[d]}
        /\ UNCHANGED <<list, index, asked>>
        /\ stale' = stale \cup HandlesOf(plist[d])
    BY <1>3, GiveUpDoes
  <2>2. \A h \in DOMAIN list \ stale' : list[h].ptr \in DOMAIN mysql'
    <3>1. ASSUME NEW h \in DOMAIN list \ stale' PROVE list[h].ptr # plist[d]
      <4>1. CASE h \in Own
        BY <1>3, <4>1 DEF LinksInv, OwnLinks
      <4>2. CASE h \notin Own
        BY <2>1, <3>1, <4>2 DEF HandlesOf, Own, LinksInv, MapsTyped, Entry
      <4> QED BY <4>1, <4>2
    <3> QED BY <2>1, <3>1, LeadsToObject
  <2>3. \A h \in DOMAIN list \ stale' : mysql'[list[h].ptr] = asked[h]
    BY <2>1, <2>2 DEF ByDetails
  <2>4. \A k \in DOMAIN index : index[k] \in DOMAIN list => list[index[k]].ptr \in DOMAIN mysql'
    BY <1>3, <2>1 DEF LinksInv, IndexOfOwn, OwnLinks
  <2> QED BY <2>1, <2>3, <2>4 DEF ByDetails
<1>4. CASE d \in DOMAIN plist /\ Login(d, d, d)
  BY <1>4, LoginByDetails
<1>5. d \in DOMAIN plist => mysql[plist[d]] = d
  BY DEF LinksInv, PersistentLinks, ByDetails
<1>6. CASE d \in DOMAIN plist /\ FindPersistent(d, d)
  BY <1>3, <1>4, <1>5, <1>6 DEF FindPersistent, ByDetails
<1> QED BY <1>1, <1>2, <1>6 DEF PConnect

LEMMA CloseByDetails ==
  ASSUME LinksInv, ByDetails, NEW id, mysql_close(id), UNCHANGED ini
  PROVE  ByDetails'
<1>1. /\ id \in DOMAIN list /\ DOMAIN list' = DOMAIN list \ {id}
      /\ \A h \in DOMAIN list' : list'[h] = list[h]
      /\ DOMAIN mysql' = IF id \in Own THEN DOMAIN mysql \ {list[id].ptr} ELSE DOMAIN mysql
      /\ \A q \in DOMAIN mysql' : mysql'[q] = mysql[q]
      /\ UNCHANGED <<index, stale, asked>>
  BY CloseDoes
<1>2. \A h \in DOMAIN list' \ stale : list[h].ptr \in DOMAIN mysql'
  <2>1. ASSUME NEW h \in DOMAIN list \ stale, h # id, id \in Own PROVE list[h].ptr # list[id].ptr
    <3>1. CASE h \in Own
      BY <2>1, <3>1 DEF LinksInv, OwnLinks
    <3>2. CASE h \notin Own
      BY <2>1, <3>2 DEF LinksInv, OwnLinks, SharedHandles
    <3> QED BY <3>1, <3>2
  <2> QED BY <1>1, <2>1, LeadsToObject
<1>3. \A h \in DOMAIN list' \ stale : mysql'[list'[h].ptr] = asked[h]
  BY <1>1, <1>2 DEF ByDetails
<1>4. ASSUME NEW k \in DOMAIN index, index[k] \in DOMAIN list'
      PROVE  mysql'[list'[index[k]].ptr] = k
  <2>1. index[k] \in DOMAIN list' \ stale
    BY <1>1, <1>4 DEF LinksInv, IndexOfOwn, OwnLinks
  <2> QED BY <1>1, <1>2, <2>1 DEF ByDetails
<1> QED BY <1>1, <1>3, <1>4 DEF ByDetails

LEMMA NoneLeads ==
  ASSUME DOMAIN list' = {}, DOMAIN index' = {}, ByDetails, UNCHANGED ini
  PROVE  ByDetails'
BY DEF ByDetails

LEMMA ByDetailsStep == LinksInv /\ ByDetails /\ [Next]_vars => ByDetails'
<1> SUFFICES ASSUME LinksInv, ByDetails, [Next]_vars PROVE ByDetails'
  OBVIOUS
<1>1. CASE UNCHANGED vars
  BY <1>1 DEF vars, requestVars, ByDetails
<1>2. CASE Next
  <2>1. UNCHANGED ini
    BY <1>2 DEF Next
  <2>2. \A d : HashedDetails(d, FALSE) = d /\ HashedDetails(d, TRUE) = d
    BY DEF HashedDetails, ByDetails
  <2>3. ASSUME NEW d \in Details, mysql_connect(d) PROVE ByDetails'
    BY <2>1, <2>2, <2>3, ConnectByDetails DEF mysql_connect
  <2>4. ASSUME NEW d \in Details, mysql_pconnect(d) PROVE ByDetails'
    <3>1. PConnect(d, d) \/ Connect(d, d)
      BY <2>2, <2>4 DEF mysql_pconnect
    <3> QED BY <2>1, <3>1, ConnectByDetails, PConnectByDetails
  <2>5. CASE GetDefaultLink
    BY <2>3, <2>5, DetailsAssumption DEF GetDefaultLink
  <2>6. CASE NextRequest
    BY <2>1, <2>6, NextRequestDoes, NoneLeads
  <2>7. CASE Restart
    BY <2>1, <2>7, RestartDoes, NoneLeads
  <2> QED BY <1>2, <2>1, <2>3, <2>4, <2>5, <2>6, <2>7, CloseByDetails DEF Next
<1> QED BY <1>1, <1>2

LEMMA ByDetailsInvariant == Spec => [](~ini.change_user => ByDetails)
<1>1. Init => (~ini.change_user => ByDetails)
  BY NoHandlesIs DEF Init, ByDetails
<1>2. LinksInv /\ (~ini.change_user => ByDetails) /\ [Next]_vars
        => (~ini.change_user => ByDetails)'
  <2>1. [Next]_vars => ini' = ini
    BY DEF Next, vars
  <2> QED BY <2>1, ByDetailsStep
<1> QED BY <1>1, <1>2, LinksInvariant, PTL DEF Spec

-----------------------------------------------------------------------------
(* The pool *)

\* The login at a pointer in use.
LEMMA LoginIs ==
  ASSUME NEW p \in DOMAIN mysql
  PROVE  LoginAt(p) = {mysql[p]}
<1>1. DOMAIN mysql \cap {p} = {p}
  OBVIOUS
<1> QED BY <1>1 DEF LoginAt

LeadsWell ==
  /\ \A h \in Given \ DOMAIN list : Leads(h) = Pool!Nothing
  /\ \A h \in DOMAIN list \cap stale : Leads(h) = Pool!Lost
  /\ \A h \in Own : Leads(h) = Pool!Own(mysql[list[h].ptr])
  /\ \A h \in DOMAIN list \ (Own \cup stale) : Leads(h) = Pool!Shared(mysql[list[h].ptr])

LEMMA HandlesLead == LinksInv => LeadsWell
<1> SUFFICES ASSUME LinksInv PROVE LeadsWell
  OBVIOUS
<1>1. /\ \A h \in Given \ DOMAIN list : Leads(h) = Pool!Nothing
      /\ \A h \in DOMAIN list \cap stale : Leads(h) = Pool!Lost
  BY DEF Leads, Pool!Nothing, Pool!Lost
<1>2. ASSUME NEW h \in Own PROVE Leads(h) = Pool!Own(mysql[list[h].ptr])
  <2>1. h \in DOMAIN list \ stale
    BY DEF LinksInv, OwnLinks, Own
  <2>2. LoginAt(list[h].ptr) = {mysql[list[h].ptr]}
    BY <2>1, LeadsToObject, LoginIs
  <2> QED BY <2>1, <2>2 DEF Leads, Pool!Own
<1>3. ASSUME NEW h \in DOMAIN list \ (Own \cup stale)
      PROVE  Leads(h) = Pool!Shared(mysql[list[h].ptr])
  <2>1. LoginAt(list[h].ptr) = {mysql[list[h].ptr]}
    BY LeadsToObject, LoginIs
  <2> QED BY <2>1 DEF Leads, Pool!Shared
<1> QED BY <1>1, <1>2, <1>3 DEF LeadsWell

\* The persistent links are what their keys say.
LEMMA PersistentIs == LinksInv /\ ~ini.change_user => Persistent = DOMAIN plist
<1> SUFFICES ASSUME LinksInv, ~ini.change_user PROVE Persistent = DOMAIN plist
  OBVIOUS
<1>1. ASSUME NEW k \in DOMAIN plist PROVE LoginAt(plist[k]) = {k}
  BY LoginIs DEF LinksInv, PersistentLinks
<1> QED BY <1>1 DEF Persistent

\* The same of the state after a step.
LEMMA LeadsAfter == LinksInv' => LeadsWell'
BY HandlesLead, PTL

LEMMA PersistentAfter == (LinksInv /\ ~ini.change_user)' => (Persistent = DOMAIN plist)'
BY PersistentIs, PTL

LEMMA AfterStep ==
  /\ LinksInv' => LeadsWell'
  /\ LinksInv' /\ ~ini'.change_user => Persistent' = DOMAIN plist'
BY LeadsAfter, PersistentAfter

\* The pool counts as the code does.
LEMMA PoolCounts ==
  ASSUME LinksInv, ~ini.change_user
  PROVE  /\ DOMAIN Held = Given
         /\ Cardinality(DOMAIN Held) + 1 = next
         /\ Pool!Owned = Own
         /\ Pool!Links = num_links
         /\ Cardinality(Persistent) = num_persistent
<1>1. DOMAIN Held = Given
  BY DEF Held, Given
<1>2. next \in Nat /\ next >= 1
  BY BoundAssumption DEF LinksInv, MapsTyped
<1>3. Cardinality(Given) = next - 1
  BY <1>2, FS_Interval DEF Given
<1>4. LeadsWell
  BY HandlesLead
<1>5. ASSUME NEW h \in Given PROVE Held[h].to = "own" <=> h \in Own
  <2>1. Held[h] = Leads(h)
    BY DEF Held, Given
  <2>2. CASE h \in Own
    BY <1>4, <2>1, <2>2 DEF LeadsWell, Pool!Own
  <2>3. CASE h \in DOMAIN list \ (Own \cup stale)
    BY <1>4, <2>1, <2>3 DEF LeadsWell, Pool!Shared
  <2>4. CASE h \in DOMAIN list \cap stale
    BY <1>4, <2>1, <2>4 DEF LeadsWell, Pool!Lost, LinksInv, OwnLinks
  <2>5. CASE h \notin DOMAIN list
    BY <1>4, <2>1, <2>5 DEF LeadsWell, Pool!Nothing, Own
  <2> QED BY <2>2, <2>3, <2>4, <2>5
<1>6. Own \subseteq Given
  BY DEF Own, LinksInv, MapsTyped
<1>7. Pool!Owned = Own
  BY <1>1, <1>5, <1>6 DEF Pool!Owned
<1>8. Cardinality(Persistent) = num_persistent
  BY PersistentIs DEF LinksInv, Counted
<1>9. Pool!Links = num_links
  BY <1>7, <1>8 DEF Pool!Links, Pool!Cardinality, Cardinality, LinksInv, Counted
<1> QED BY <1>1, <1>2, <1>3, <1>7, <1>8, <1>9

\* A handle leads where it did if its entry and its link's login stay.
LEMMA LeadsSame ==
  ASSUME LinksInv, LinksInv', NEW h \in Given, h \in Given',
         h \in DOMAIN list <=> h \in DOMAIN list',
         h \in DOMAIN list => list'[h] = list[h],
         h \in stale <=> h \in stale',
         h \in DOMAIN list \ stale => mysql'[list[h].ptr] = mysql[list[h].ptr]
  PROVE  Leads(h)' = Leads(h)
<1>1. LeadsWell /\ LeadsWell'
  BY HandlesLead, AfterStep
<1>2. h \in Own <=> h \in Own'
  BY DEF Own
<1>3. CASE h \in Own
  <2>1. h \in DOMAIN list \ stale /\ h \in Own'
    BY <1>2, <1>3 DEF LinksInv, OwnLinks, Own
  <2>2. Leads(h) = Pool!Own(mysql[list[h].ptr])
    BY <1>1, <1>3 DEF LeadsWell
  <2>3. Leads(h)' = Pool!Own(mysql'[list'[h].ptr])
    BY <1>1, <2>1 DEF LeadsWell, Pool!Own
  <2>4. mysql'[list'[h].ptr] = mysql[list[h].ptr]
    BY <2>1
  <2> QED BY <2>2, <2>3, <2>4
<1>4. CASE h \in DOMAIN list \ (Own \cup stale)
  <2>1. h \in DOMAIN list' \ (Own' \cup stale')
    BY <1>2, <1>4
  <2>2. Leads(h) = Pool!Shared(mysql[list[h].ptr])
    BY <1>1, <1>4 DEF LeadsWell
  <2>3. Leads(h)' = Pool!Shared(mysql'[list'[h].ptr])
    BY <1>1, <2>1 DEF LeadsWell, Pool!Shared
  <2>4. mysql'[list'[h].ptr] = mysql[list[h].ptr]
    BY <1>4
  <2> QED BY <2>2, <2>3, <2>4
<1>5. CASE h \in DOMAIN list \cap stale
  BY <1>1, <1>5 DEF LeadsWell, Pool!Lost
<1>6. CASE h \notin DOMAIN list
  BY <1>1, <1>6 DEF LeadsWell, Pool!Nothing
<1> QED BY <1>3, <1>4, <1>5, <1>6

\* A new handle of a link, which is in use with these details after the step.
LEMMA HandleGiven ==
  ASSUME LinksInv, LinksInv', ~ini.change_user, UNCHANGED stale,
         NEW type \in {"le_link", "le_plink"}, NEW p, NEW d,
         NewHandle(type, p, d), mysql'[p] = d,
         asked' = Assign(asked, next, d),
         \A q \in DOMAIN mysql : mysql'[q] = mysql[q]
  PROVE  Pool!Give(IF type = "le_link" THEN Pool!Own(d) ELSE Pool!Shared(d), d)
<1> DEFINE link == IF type = "le_link" THEN Pool!Own(d) ELSE Pool!Shared(d)
<1>1. PICK new : new = next
  OBVIOUS
<1>2. /\ new \notin Given /\ new \notin DOMAIN list /\ new \notin stale /\ new \notin Own
      /\ Given' = Given \cup {new} /\ default_link' = new
      /\ DOMAIN list' = DOMAIN list \cup {new}
      /\ list'[new].type = type /\ list'[new].ptr = p
      /\ \A h \in DOMAIN list : list'[h] = list[h]
      /\ Own' = IF type = "le_link" THEN Own \cup {new} ELSE Own
  BY <1>1 DEF NewHandle
<1>3. ASSUME NEW h \in Given PROVE Leads(h)' = Leads(h)
  <2>1. h \in Given' /\ h # new
    BY <1>2
  <2> QED BY <1>2, <2>1, LeadsToObject, LeadsSame
<1>4. Leads(new)' = link
  <2>1. mysql'[list'[new].ptr] = d
    BY <1>2
  <2>2. CASE type = "le_link"
    BY <1>2, <2>1, <2>2, AfterStep DEF LeadsWell
  <2>3. CASE type = "le_plink"
    <3>1. new \in DOMAIN list' \ (Own' \cup stale')
      BY <1>2, <2>3
    <3> QED BY <2>1, <2>3, <3>1, AfterStep DEF LeadsWell
  <2> QED BY <2>2, <2>3
<1> HIDE DEF link
<1>5. Held' = [h \in Given' |-> Leads(h)']
  BY DEF Held, Given
<1>6. Held' = [h \in Given \cup {new} |-> IF h = new THEN link ELSE Held[h]]
  BY <1>2, <1>3, <1>4, <1>5 DEF Held, Given
<1>7. Current' = new
  BY <1>2 DEF Current
<1>8. new = Cardinality(DOMAIN Held) + 1 /\ DOMAIN Held = Given
  BY <1>1, PoolCounts
<1>9. Pool!Answer(new, d)
  BY <1>1, <1>7 DEF Pool!Answer, Pool!Assign, Assign
<1> QED BY <1>6, <1>8, <1>9 DEF Pool!Give, Pool!Assign, Pool!Cardinality, Cardinality, link

LEMMA HandlesKept ==
  ASSUME UNCHANGED next, \A h \in Given : Leads(h)' = Leads(h)
  PROVE  UNCHANGED Held
BY DEF Held, Given

LEMMA Limits ==
  ASSUME LinksInv, NEW n \in Nat
  PROVE  /\ ~TooMany(ini.max_links, n) => Pool!Below(ini.max_links, n)
         /\ ~TooMany(ini.max_persistent, n) => Pool!Below(ini.max_persistent, n)
BY CountsType DEF TooMany, Pool!Below

-----------------------------------------------------------------------------
(* The steps are steps of the pool *)

LEMMA ConnectImplements ==
  ASSUME LinksInv, LinksInv', ByDetails, NEW d, Connect(d, d), UNCHANGED ini
  PROVE  Pool!Connect(d) \/ UNCHANGED <<Persistent, Held, asked, Current>>
<1>1. CASE Reuse(d, d)
  <2>1. PICK h \in Own : /\ default_link' = h /\ mysql[list[h].ptr] = d
                         /\ asked' = Assign(asked, h, d)
    BY <1>1, ReuseIs
  <2>2. h \in Given /\ h \in DOMAIN list
    BY DEF Own, LinksInv, MapsTyped
  <2>3. Held[h] = Pool!Own(d)
    BY <2>1, <2>2, HandlesLead DEF LeadsWell, Held, Given
  <2>4. h \in Pool!Owned
    BY PoolCounts DEF ByDetails
  <2>5. Pool!Answer(h, d)
    BY <1>1, <2>1, <2>2 DEF Reuse, Current, Pool!Answer, Pool!Assign, Assign
  <2>6. UNCHANGED <<Persistent, Held>>
    BY <1>1 DEF Reuse, Persistent, Held, Leads, LoginAt, Own
  <2> QED BY <2>3, <2>4, <2>5, <2>6 DEF Pool!Connect
<1>2. CASE OpenFails(d)
  BY <1>2 DEF OpenFails, Persistent, Held, Leads, LoginAt, Own, Current
<1>3. CASE Indexed(d) = {} /\ OpenLink(d, d)
  <2>1. PICK p : NewObject(p, d) /\ NewHandle("le_link", p, d)
    BY <1>3, OpenLinkDoes
  <2>2. UNCHANGED <<plist, stale>> /\ ~TooMany(ini.max_links, num_links)
    BY <1>3, OpenLinkDoes
  <2>3. Pool!Give(Pool!Own(d), d)
    BY <1>3, <2>1, <2>2, HandleGiven DEF NewObject, ByDetails, OpenLink, ListInsert
  <2>4. UNCHANGED Persistent
    BY <2>2, PersistentIs, AfterStep DEF ByDetails
  <2>5. ASSUME NEW h \in Own PROVE Held[h] # Pool!Own(d)
    <3>1. PICK k \in DOMAIN index : index[k] = h
      BY DEF LinksInv, IndexOfOwn
    <3>2. h \in DOMAIN list /\ h \in Given
      BY DEF Own, LinksInv, MapsTyped
    <3>3. mysql[list[h].ptr] = k /\ k # d
      BY <1>3, <3>1, <3>2 DEF ByDetails, Indexed
    <3>4. Held[h] = Pool!Own(k)
      BY <3>2, <3>3, HandlesLead DEF LeadsWell, Held, Given
    <3>5. Pool!Own(k).login # Pool!Own(d).login
      BY <3>3 DEF Pool!Own
    <3> QED BY <3>4, <3>5
  <2>6. Pool!Below(ini.max_links, Pool!Links)
    BY <2>2, Limits, CountsType, PoolCounts DEF ByDetails
  <2> QED BY <2>3, <2>4, <2>5, <2>6, PoolCounts DEF Pool!Connect, ByDetails
<1> QED BY <1>1, <1>2, <1>3 DEF Connect

LEMMA OpenPersistentImplements ==
  ASSUME LinksInv, LinksInv', ByDetails, NEW d, d \notin DOMAIN plist,
         OpenPersistent(d, d), UNCHANGED ini
  PROVE  Pool!PConnect(d)
<1>1. PICK p : /\ NewObject(p, d) /\ NewHandle("le_plink", p, d)
               /\ DOMAIN plist' = DOMAIN plist \cup {d}
  BY OpenPersistentDoes
<1>2. /\ UNCHANGED stale /\ ~TooMany(ini.max_links, num_links)
      /\ ~TooMany(ini.max_persistent, num_persistent)
  BY OpenPersistentDoes
<1>3. Pool!Give(Pool!Shared(d), d)
  BY <1>1, <1>2, HandleGiven DEF NewObject, ByDetails, OpenPersistent, ListInsert
<1>4. Persistent = DOMAIN plist /\ Persistent' = DOMAIN plist \cup {d}
  BY <1>1, PersistentIs, AfterStep DEF ByDetails
<1>5. /\ Pool!Below(ini.max_links, Pool!Links)
      /\ Pool!Below(ini.max_persistent, Pool!Cardinality(Persistent))
  <2>1. Pool!Cardinality(Persistent) = num_persistent
    BY PoolCounts DEF Pool!Cardinality, Cardinality, ByDetails
  <2> QED BY <1>2, <2>1, Limits, CountsType, PoolCounts DEF ByDetails
<1> QED BY <1>3, <1>4, <1>5 DEF Pool!PConnect

LEMMA LoginImplements ==
  ASSUME LinksInv, LinksInv', ByDetails, NEW d \in DOMAIN plist, Login(d, d, d), UNCHANGED ini
  PROVE  Pool!PConnect(d)
<1>1. /\ NewHandle("le_plink", plist[d], d) /\ mysql'[plist[d]] = d
      /\ UNCHANGED <<plist, stale>>
  BY LoginDoes
<1>2. \A q \in DOMAIN mysql : mysql'[q] = mysql[q]
  BY LoginByDetails
<1>3. Pool!Give(Pool!Shared(d), d)
  BY <1>1, <1>2, HandleGiven DEF ByDetails, Login, ListInsert
<1>4. Persistent = DOMAIN plist /\ Persistent' = DOMAIN plist
  BY <1>1, PersistentIs, AfterStep DEF ByDetails
<1> QED BY <1>3, <1>4 DEF Pool!PConnect

\* Its handles are lost, and no others.
LEMMA GiveUpImplements ==
  ASSUME LinksInv, LinksInv', ByDetails, NEW d \in DOMAIN plist, GiveUp(d), UNCHANGED ini
  PROVE  Pool!PConnect(d)
<1> DEFINE p == plist[d]
<1>1. /\ DOMAIN mysql' = DOMAIN mysql \ {p}
      /\ \A q \in DOMAIN mysql' : mysql'[q] = mysql[q]
      /\ DOMAIN plist' = DOMAIN plist \ {d}
      /\ UNCHANGED <<list, next, default_link, asked>>
      /\ stale' = stale \cup HandlesOf(p)
  BY GiveUpDoes
<1>2. mysql[p] = d /\ \A k \in DOMAIN plist : mysql[plist[k]] = d => plist[k] = p
  BY DEF LinksInv, PersistentLinks, ByDetails
<1>3. \A h \in Own : list[h].ptr # p
  BY DEF LinksInv, OwnLinks
<1> HIDE DEF p
<1>4. LeadsWell /\ LeadsWell'
  BY HandlesLead, AfterStep
<1>5. ASSUME NEW h \in Given, h \in HandlesOf(p)
      PROVE  Leads(h)' = Pool!Lost /\ Leads(h) \in {Pool!Shared(d), Pool!Lost}
  <2>1. h \in DOMAIN list /\ list[h].ptr = p /\ h \notin Own
    BY <1>5 DEF HandlesOf, Own
  <2>2. h \in DOMAIN list' \cap stale'
    BY <1>1, <1>5, <2>1
  <2>3. Leads(h)' = Pool!Lost
    BY <1>4, <2>2 DEF LeadsWell, Pool!Lost
  <2> QED BY <1>2, <1>4, <2>1, <2>3 DEF LeadsWell
<1>6. ASSUME NEW h \in Given, h \notin HandlesOf(p)
      PROVE  Leads(h)' = Leads(h) /\ Leads(h) # Pool!Shared(d)
  <2>1. h \in DOMAIN list \ stale => list[h].ptr # p
    BY <1>3, <1>6 DEF HandlesOf, Own, LinksInv, MapsTyped, Entry
  <2>2. h \in DOMAIN list \ stale => mysql'[list[h].ptr] = mysql[list[h].ptr]
    BY <1>1, <2>1, LeadsToObject
  <2>3. h \in Given' /\ (h \in stale <=> h \in stale')
    BY <1>1, <1>6 DEF Given
  <2>4. Leads(h)' = Leads(h)
    BY <1>1, <2>2, <2>3, LeadsSame
  <2>5. CASE h \in Own
    <3>1. Leads(h).to = "own" /\ Pool!Shared(d).to = "shared"
      BY <1>4, <2>5 DEF LeadsWell, Pool!Own, Pool!Shared
    <3> QED BY <2>4, <3>1
  <2>6. CASE h \in DOMAIN list \ (Own \cup stale)
    <3>1. PICK k \in DOMAIN plist : plist[k] = list[h].ptr
      BY <2>6 DEF LinksInv, SharedHandles
    <3>2. mysql[list[h].ptr] # d
      BY <1>2, <2>1, <2>6, <3>1
    <3>3. Pool!Shared(mysql[list[h].ptr]).login # Pool!Shared(d).login
      BY <3>2 DEF Pool!Shared
    <3> QED BY <1>4, <2>4, <2>6, <3>3 DEF LeadsWell
  <2>7. CASE h \in DOMAIN list \cap stale \/ h \notin DOMAIN list
    <3>1. Leads(h) \in {Pool!Lost, Pool!Nothing}
      BY <1>4, <2>7 DEF LeadsWell
    <3>2. Leads(h).to # "shared" /\ Pool!Shared(d).to = "shared"
      BY <3>1 DEF Pool!Shared, Pool!Lost, Pool!Nothing
    <3> QED BY <2>4, <3>2
  <2> QED BY <2>5, <2>6, <2>7
<1>7. \A h \in Given : Leads(h)' = IF Leads(h) = Pool!Shared(d) THEN Pool!Lost ELSE Leads(h)
  BY <1>5, <1>6
<1>8. Held' = [h \in DOMAIN Held |-> IF Held[h] = Pool!Shared(d) THEN Pool!Lost ELSE Held[h]]
  BY <1>1, <1>7 DEF Held, Given
<1>9. Persistent = DOMAIN plist /\ Persistent' = DOMAIN plist \ {d}
  BY <1>1, PersistentIs, AfterStep DEF ByDetails
<1>10. UNCHANGED Current
  BY <1>1 DEF Current
<1> QED BY <1>1, <1>8, <1>9, <1>10 DEF Pool!PConnect

LEMMA PConnectImplements ==
  ASSUME LinksInv, LinksInv', ByDetails, NEW d, PConnect(d, d), UNCHANGED ini
  PROVE  Pool!PConnect(d) \/ UNCHANGED <<Persistent, Held, asked, Current>>
<1>1. CASE Fail
  BY <1>1 DEF Fail, requestVars, Persistent, Held, Leads, LoginAt, Own, Current
<1>2. d \in DOMAIN plist => mysql[plist[d]] = d
  BY DEF LinksInv, PersistentLinks, ByDetails
<1>3. CASE d \in DOMAIN plist /\ FindPersistent(d, d)
  BY <1>2, <1>3, LoginImplements, GiveUpImplements DEF FindPersistent, ByDetails
<1> QED BY <1>1, <1>3, OpenPersistentImplements DEF PConnect

LEMMA CloseImplements ==
  ASSUME LinksInv, LinksInv', ByDetails, NEW id, mysql_close(id), UNCHANGED ini
  PROVE  Pool!Close(id) /\ id \in DOMAIN Held
<1>1. /\ id \in DOMAIN list /\ DOMAIN list' = DOMAIN list \ {id}
      /\ \A h \in DOMAIN list' : list'[h] = list[h]
      /\ DOMAIN mysql' = IF id \in Own THEN DOMAIN mysql \ {list[id].ptr} ELSE DOMAIN mysql
      /\ \A q \in DOMAIN mysql' : mysql'[q] = mysql[q]
      /\ UNCHANGED <<plist, next, default_link, stale, asked>>
  BY CloseDoes
<1>2. Given' = Given /\ id \in Given
  BY <1>1 DEF Given, LinksInv, MapsTyped
<1>3. ASSUME NEW h \in Given, h # id PROVE Leads(h)' = Leads(h)
  <2>1. ASSUME h \in DOMAIN list \ stale, id \in Own PROVE list[h].ptr # list[id].ptr
    <3>1. CASE h \in Own
      BY <1>3, <2>1, <3>1 DEF LinksInv, OwnLinks
    <3>2. CASE h \notin Own
      BY <2>1, <3>2 DEF LinksInv, OwnLinks, SharedHandles
    <3> QED BY <3>1, <3>2
  <2>2. h \in DOMAIN list \ stale => mysql'[list[h].ptr] = mysql[list[h].ptr]
    BY <1>1, <2>1, LeadsToObject
  <2> QED BY <1>1, <1>2, <1>3, <2>2, LeadsSame
<1>4. Leads(id)' = Pool!Nothing
  BY <1>1, <1>2, AfterStep DEF LeadsWell, Pool!Nothing
<1>5. Held' = [Held EXCEPT ![id] = Pool!Nothing]
  BY <1>1, <1>2, <1>3, <1>4 DEF Held, Given
<1>6. UNCHANGED Persistent
  BY <1>1, PersistentIs, AfterStep DEF ByDetails
<1>7. Current' = IF Current = id THEN -1 ELSE Current
  BY <1>1 DEF Current
<1> QED BY <1>1, <1>2, <1>5, <1>6, <1>7, PoolCounts DEF Pool!Close, ByDetails

LEMMA NoneHeld ==
  ASSUME next' = 1, default_link' = -1, asked' = NoHandles
  PROVE  /\ Held' = [h \in {} |-> Pool!Nothing] /\ Current' = -1
         /\ asked' = [h \in {} |-> Pool!Nothing]
<1>1. (1 .. next - 1)' = {}
  OBVIOUS
<1>2. asked' = [h \in {} |-> Pool!Nothing]
  BY DEF NoHandles
<1> QED BY <1>1, <1>2 DEF Held, Current

LEMMA NextRequestImplements ==
  ASSUME LinksInv, LinksInv', ByDetails, NextRequest, UNCHANGED ini
  PROVE  Pool!NewRequest
<1>1. next' = 1 /\ default_link' = -1 /\ UNCHANGED plist
  BY NextRequestDoes
<1>2. UNCHANGED Persistent
  BY <1>1, PersistentIs, AfterStep DEF ByDetails
<1>3. asked' = NoHandles
  BY DEF NextRequest, RequestStartup
<1> QED BY <1>1, <1>2, <1>3, NoneHeld DEF Pool!NewRequest

LEMMA RestartImplements == ASSUME Restart PROVE Pool!NewRequest
<1>1. next' = 1 /\ default_link' = -1 /\ DOMAIN plist' = {}
  BY RestartDoes
<1>2. Persistent' = {}
  BY <1>1 DEF Persistent
<1>3. asked' = NoHandles
  BY DEF Restart
<1> QED BY <1>1, <1>2, <1>3, NoneHeld DEF Pool!NewRequest

LEMMA PoolInit == Init => Pool!Init
<1> SUFFICES ASSUME Init PROVE Pool!Init
  OBVIOUS
<1>1. DOMAIN plist = {} /\ next = 1 /\ default_link = -1
  BY NoHandlesIs DEF Init
<1>2. Persistent = {} /\ Current = -1
  BY <1>1 DEF Persistent, Current
<1>3. Held = [h \in {} |-> Pool!Nothing]
  <2>1. 1 .. next - 1 = {}
    BY <1>1
  <2> QED BY <2>1 DEF Held
<1>4. asked = [h \in {} |-> Pool!Nothing]
  BY DEF Init, NoHandles
<1> QED BY <1>2, <1>3, <1>4 DEF Init, Pool!Init

LEMMA PoolStep ==
  LinksInv /\ LinksInv' /\ ByDetails /\ [Next]_vars => [Pool!Next]_(Pool!vars)
<1> SUFFICES ASSUME LinksInv, LinksInv', ByDetails, [Next]_vars
             PROVE  [Pool!Next]_(Pool!vars)
  OBVIOUS
<1>1. CASE UNCHANGED vars
  BY <1>1 DEF vars, requestVars, Pool!vars, Persistent, Held, Leads, LoginAt, Own, Current
<1>2. CASE Next
  <2>1. UNCHANGED ini
    BY <1>2 DEF Next
  <2>2. CASE UNCHANGED <<Persistent, Held, asked, Current>>
    BY <2>1, <2>2 DEF Pool!vars
  <2>3. \A d : HashedDetails(d, FALSE) = d /\ HashedDetails(d, TRUE) = d
    BY DEF HashedDetails, ByDetails
  <2>4. ASSUME NEW d \in Details, Connect(d, d) PROVE [Pool!Next]_(Pool!vars)
    BY <2>1, <2>2, <2>4, ConnectImplements DEF Pool!Next
  <2>5. ASSUME NEW d \in Details, mysql_pconnect(d) PROVE [Pool!Next]_(Pool!vars)
    <3>1. IF ini.allow_persistent THEN PConnect(d, d) ELSE Connect(d, d)
      BY <2>3, <2>5 DEF mysql_pconnect
    <3>2. CASE ini.allow_persistent
      BY <2>1, <2>2, <3>1, <3>2, PConnectImplements DEF Pool!Next
    <3>3. CASE ~ini.allow_persistent
      BY <2>4, <3>1, <3>3
    <3> QED BY <3>2, <3>3
  <2>6. ASSUME NEW d \in Details, mysql_connect(d) PROVE [Pool!Next]_(Pool!vars)
    BY <2>3, <2>4, <2>6 DEF mysql_connect
  <2>7. CASE GetDefaultLink
    BY <2>6, <2>7, DetailsAssumption DEF GetDefaultLink
  <2>8. ASSUME NEW id, mysql_close(id) PROVE [Pool!Next]_(Pool!vars)
    BY <2>1, <2>8, CloseImplements DEF Pool!Next
  <2>9. CASE NextRequest
    BY <2>1, <2>9, NextRequestImplements DEF Pool!Next
  <2>10. CASE Restart
    BY <2>1, <2>10, RestartImplements DEF Pool!Next
  <2> QED BY <1>2, <2>5, <2>6, <2>7, <2>8, <2>9, <2>10 DEF Next
<1> QED BY <1>1, <1>2

\* Where the client library has no mysql_change_user, what mysql.c does with
\* its lists, its index and its counters, over the requests of a process, is
\* what the pool of the manual does: a second call finds the link of the first
\* by its details, the limits of php3.ini hold over all requests, and closing or
\* losing one link changes where no other handle leads.
THEOREM LinksAreAPool == Spec => IsLinkPool
<1>1. LinksInv /\ LinksInv' /\ (~ini.change_user => ByDetails) /\ [Next]_vars
        => [~ini.change_user => Pool!Next]_(Pool!vars)
  BY PoolStep
<1>2. Init => (~ini.change_user => Pool!Init)
  BY PoolInit
<1> QED
  BY <1>1, <1>2, LinksInvariant, ByDetailsInvariant, PTL DEF Spec, IsLinkPool
=============================================================================
