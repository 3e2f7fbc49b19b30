------------------------------ MODULE MySQLLinks ------------------------------
(***************************************************************************)
(* The links of functions/mysql.c to data base servers, in the resource    *)
(* lists of list.c: a list of handles that a request begins empty, with    *)
(* the links it opened by details, and a list of persistent links that the *)
(* process keeps from request to request.                                  *)
(*                                                                         *)
(* MYSQL structures are pointers to objects that are allocated and freed.  *)
(* The client library, external, may fail to connect, or to change the     *)
(* user, and may find a server gone away.  Safe mode, and what scripts do  *)
(* with a link, are left out: no list depends on it.                       *)
(***************************************************************************)
EXTENDS Integers, FiniteSets, Functions

CONSTANTS Object,      \* what malloc and emalloc return for a MYSQL
          Details,     \* [host, user]: what scripts ask for
          Defaults,    \* of php3.ini
          Settings,    \* of php3.ini, and of the build
          MaxHandles   \* a bound: handles of a request

ASSUME DetailsAssumption ==
  /\ Defaults \in Details
  /\ \A d \in Details : d = [host |-> d.host, user |-> d.user]
ASSUME BoundAssumption == MaxHandles \in Nat
ASSUME SettingsAssumption ==
  \A s \in Settings : /\ s.max_links \in Nat \cup {-1}
                      /\ s.max_persistent \in Nat \cup {-1}
                      /\ s.allow_persistent \in BOOLEAN
                      /\ s.change_user \in BOOLEAN

VARIABLES ini,                        \* a member of Settings
          mysql,                      \* the objects in use: the login of each
          plist,                      \* persistent links: details to object
          list, index, next,          \* handle to link, details to handle
          default_link, num_links, num_persistent,
          stale,   \* history: handles of persistent links that were given up
          asked    \* history: what the last call that a handle answers asked for

requestVars == <<list, index, next, default_link, stale, asked>>
vars == <<ini, mysql, plist, requestVars, num_links, num_persistent>>

Entry == [type : {"le_link", "le_plink"}, ptr : Object]
NoDetails == [host |-> "", user |-> ""]

\* Mutant: the user is not in the key.
HashedDetails_HostOnly(d, persistent) == [host |-> d.host, user |-> ""]

\* hashed_details: with mysql_change_user (MYSQL_VERSION_ID > 32302) all
\* persistent links have one key, also where mysql.allow_persistent makes
\* links of them that are not.
HashedDetails(d, persistent) == IF persistent /\ ini.change_user THEN NoDetails ELSE d

TooMany(max, n) == max # -1 /\ n >= max

\* The map f with x leading to v.
Assign(f, x, v) == [y \in DOMAIN f \cup {x} |-> IF y = x THEN v ELSE f[y]]

\* php3_list_do_insert, and the link is the default.
ListInsert(entry, d) ==
  /\ next <= MaxHandles
  /\ list' = Assign(list, next, entry)
  /\ asked' = Assign(asked, next, d)
  /\ next' = next + 1
  /\ default_link' = next

Fail == UNCHANGED <<mysql, plist, requestVars, num_links, num_persistent>>

-----------------------------------------------------------------------------
(* A link that is not persistent *)

\* The link of an index entry that is still there.
Indexed(key) == {h \in DOMAIN list : key \in DOMAIN index /\ index[key] = h}

Reuse(key, d) ==
  /\ \E h \in Indexed(key) : default_link' = h /\ asked' = Assign(asked, h, d)
  /\ UNCHANGED <<mysql, plist, list, index, next, stale, num_links, num_persistent>>

OpenLink(key, d) ==
  /\ ~TooMany(ini.max_links, num_links)
  /\ \E p \in Object \ DOMAIN mysql :
       /\ mysql' = Assign(mysql, p, d)
       /\ ListInsert([type |-> "le_link", ptr |-> p], d)
  /\ index' = Assign(index, key, next)
  /\ num_links' = num_links + 1
  /\ UNCHANGED <<plist, stale, num_persistent>>

\* Too many links, or the server does not let the user in; an index entry
\* without its link is gone.
OpenFails(key) ==
  /\ index' = Restrict(index, DOMAIN index \ {key})
  /\ UNCHANGED <<mysql, plist, list, next, default_link, stale, asked, num_links,
                 num_persistent>>

Connect(key, d) ==
  \/ Reuse(key, d)
  \/ Indexed(key) = {} /\ (OpenLink(key, d) \/ OpenFails(key))

-----------------------------------------------------------------------------
(* A persistent link *)

OpenPersistent(key, d) ==
  /\ ~TooMany(ini.max_links, num_links) /\ ~TooMany(ini.max_persistent, num_persistent)
  /\ \E p \in Object \ DOMAIN mysql :
       /\ mysql' = Assign(mysql, p, d)
       /\ plist' = Assign(plist, key, p)
       /\ ListInsert([type |-> "le_plink", ptr |-> p], d)
  /\ num_persistent' = num_persistent + 1 /\ num_links' = num_links + 1
  /\ UNCHANGED <<index, stale>>

\* The same object is connected again, or changes its user.
Login(key, login, d) ==
  /\ mysql' = [mysql EXCEPT ![plist[key]] = login]
  /\ ListInsert([type |-> "le_plink", ptr |-> plist[key]], d)
  /\ UNCHANGED <<plist, index, stale, num_links, num_persistent>>

HandlesOf(p) == {h \in DOMAIN list : list[h].type = "le_plink" /\ list[h].ptr = p}

\* _close_mysql_plink, for a link that is lost and cannot be connected again.
GiveUp(key) ==
  /\ mysql' = Restrict(mysql, DOMAIN mysql \ {plist[key]})
  /\ plist' = Restrict(plist, DOMAIN plist \ {key})
  /\ num_persistent' = num_persistent - 1 /\ num_links' = num_links - 1
  /\ stale' = stale \cup HandlesOf(plist[key])
  /\ UNCHANGED <<list, index, next, default_link, asked>>

FindPersistent(key, d) ==
  \/ Login(key, d, d)      \* it was lost
  \/ GiveUp(key)
  \/ ~ini.change_user /\ Login(key, mysql[plist[key]], d)
  \/ ini.change_user /\ (Login(key, [mysql[plist[key]] EXCEPT !.user = d.user], d) \/ Fail)

PConnect(key, d) ==
  IF key \in DOMAIN plist THEN FindPersistent(key, d) ELSE OpenPersistent(key, d) \/ Fail

-----------------------------------------------------------------------------
(* The functions of scripts *)

mysql_connect(d) == Connect(HashedDetails(d, FALSE), d)

mysql_pconnect(d) ==
  LET key == HashedDetails(d, TRUE)
  IN  IF ini.allow_persistent THEN PConnect(key, d) ELSE Connect(key, d)

\* php3_mysql_get_default_link, for the functions that are given no link.
GetDefaultLink == default_link = -1 /\ mysql_connect(Defaults)

\* Mutant: who gives up a handle closes its link.
mysql_close_Both(id) ==
  /\ id \in DOMAIN list
  /\ list' = Restrict(list, DOMAIN list \ {id})
  /\ mysql' = Restrict(mysql, DOMAIN mysql \ {list[id].ptr})
  /\ num_links' = num_links - 1
  /\ num_persistent' = num_persistent - (IF list[id].type = "le_plink" THEN 1 ELSE 0)
  /\ UNCHANGED <<plist, index, next, default_link, stale, asked>>

\* _close_mysql_link; a persistent link has no such destructor.  The handle
\* stays the default, and in the index.
mysql_close(id) ==
  /\ id \in DOMAIN list
  /\ list' = Restrict(list, DOMAIN list \ {id})
  /\ IF list[id].type = "le_link"
     THEN /\ mysql' = Restrict(mysql, DOMAIN mysql \ {list[id].ptr})
          /\ num_links' = num_links - 1
     ELSE UNCHANGED <<mysql, num_links>>
  /\ UNCHANGED <<plist, index, next, default_link, stale, asked, num_persistent>>

-----------------------------------------------------------------------------
(* Requests and processes *)

NoHandles == [h \in {} |-> NoDetails]

\* Mutant: the persistent links are not counted again.
RequestStartup_FromZero ==
  /\ list' = NoHandles /\ index' = NoHandles /\ next' = 1 /\ stale' = {}
  /\ asked' = NoHandles
  /\ default_link' = -1 /\ num_links' = 0

\* php3_rinit_mysql.
RequestStartup ==
  /\ list' = NoHandles /\ index' = NoHandles /\ next' = 1 /\ stale' = {}
  /\ asked' = NoHandles
  /\ default_link' = -1 /\ num_links' = num_persistent

\* The list is destroyed, with the links that are not persistent, and the next
\* request starts.
NextRequest ==
  /\ mysql' = Restrict(mysql, DOMAIN mysql \ {list[h].ptr : h \in
                 {h \in DOMAIN list : list[h].type = "le_link"}})
  /\ RequestStartup
  /\ UNCHANGED <<plist, num_persistent>>

\* The process ends, for one of main.c's many reasons, and the server has
\* another one.
Restart ==
  /\ mysql' = NoHandles /\ plist' = NoHandles /\ num_persistent' = 0 /\ num_links' = 0
  /\ list' = NoHandles /\ index' = NoHandles /\ next' = 1 /\ stale' = {}
  /\ asked' = NoHandles
  /\ default_link' = -1

Init ==
  /\ ini \in Settings
  /\ mysql = NoHandles /\ plist = NoHandles /\ num_persistent = 0 /\ num_links = 0
  /\ list = NoHandles /\ index = NoHandles /\ next = 1 /\ stale = {}
  /\ asked = NoHandles
  /\ default_link = -1

Next ==
  /\ \/ \E d \in Details : mysql_connect(d) \/ mysql_pconnect(d)
     \/ GetDefaultLink
     \/ \E id \in DOMAIN list \cup {default_link} : mysql_close(id)
     \/ NextRequest
     \/ Restart
  /\ UNCHANGED ini

Spec == Init /\ [][Next]_vars
-----------------------------------------------------------------------------
(* Properties *)

\* The counters do not fall below zero, and a handle is what insertion made it.
TypeOK ==
  /\ ini \in Settings
  /\ DOMAIN mysql \subseteq Object /\ \A p \in DOMAIN mysql : DOMAIN mysql[p] = {"host", "user"}
  /\ Range(plist) \subseteq Object /\ DOMAIN plist \subseteq Details \cup {NoDetails}
  /\ DOMAIN list \subseteq 1 .. next - 1 /\ Range(list) \subseteq Entry
  /\ Range(index) \subseteq 1 .. next - 1 /\ DOMAIN index \subseteq Details \cup {NoDetails}
  /\ next \in 1 .. MaxHandles + 1 /\ DOMAIN asked = 1 .. next - 1
  /\ default_link \in {-1} \cup 1 .. next - 1
  /\ num_links \in Nat /\ num_persistent \in Nat

Own == {h \in DOMAIN list : list[h].type = "le_link"}

\* An object in use is one link, of a handle of this request or of the
\* persistent list: who closes, loses or leaves links behind frees all that
\* nobody has any more, and no others.  A handle of a persistent link that was
\* given up is lost.
LinksAreHeld ==
  /\ DOMAIN mysql = Range(plist) \cup {list[h].ptr : h \in Own}
  /\ \A g, h \in Own : list[g].ptr = list[h].ptr => g = h
  /\ \A h \in DOMAIN list \ (Own \cup stale) : list[h].ptr \in Range(plist)

\* There are never more links, nor more persistent ones, than php3.ini allows
\* "per process" (doc/configuration.html), over all its requests.
WithinLimits ==
  /\ ini.max_links # -1 => Cardinality(DOMAIN mysql) <= ini.max_links
  /\ ini.max_persistent # -1 => Cardinality(Range(plist)) <= ini.max_persistent

\* What a handle leads to, through pointers.
LoginAt(p) == {mysql[q] : q \in DOMAIN mysql \cap {p}}
Leads(h) ==
  IF h \notin DOMAIN list THEN [to |-> "nothing"]
  ELSE IF h \in stale THEN [to |-> "lost"]
  ELSE [to |-> IF h \in Own THEN "own" ELSE "shared", login |-> LoginAt(list[h].ptr)]

Persistent == UNION {LoginAt(plist[k]) : k \in DOMAIN plist}
Held == [h \in 1 .. next - 1 |-> Leads(h)]
Current == IF default_link \in DOMAIN list THEN default_link ELSE -1

Pool == INSTANCE LinkPool WITH persistent <- Persistent, held <- Held, current <- Current

\* The links are the pool that the manual describes: a second call finds the
\* link of the first, by host and user, links are counted against the limits of
\* php3.ini over all requests, a handle leads where it led when it was given
\* out, to the host and user of the last call that it answered, and a request
\* takes its own links with it, and no others.  This is claimed where the client
\* library has no mysql_change_user: with it, all persistent links have one key,
\* and mysql_pconnect to a second host returns the link to the first.
IsLinkPool ==
  /\ ~ini.change_user => Pool!Init
  /\ [][~ini.change_user => Pool!Next]_(Pool!vars)
=============================================================================
