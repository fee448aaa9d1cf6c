---------------------------- MODULE AdminConsole ----------------------------
(***************************************************************************)
(* The nodes page of the administration console (admin.html), and the list *)
(* of the nodes that the server keeps in Redis.                            *)
(*                                                                         *)
(*   boot, showAdminPanel      session, first list, rules, then the panel  *)
(*   ServerManager.reload      replaces the whole table, guarded by nothing*)
(*   create, edit, billing,    one at a time (_busy): the server's answer  *)
(*   delete, delete selected   is patched into the table                   *)
(*   list_servers              the list in Redis, or else the database's,  *)
(*                             which is then put into Redis                *)
(*   _clear_cache              after an operation's commit, if Redis does it *)
(*                                                                         *)
(* The server's part of an operation is done in the step that sends it: till *)
(* then nothing but the refusal of other operations could tell.  Which      *)
(* dialog is open and which rows are ticked is left out: both stay when the *)
(* table changes, so that they may be about any node there is.             *)
(* A node is known by the version of its data; identifiers are not used    *)
(* twice.  The table is the set of its rows: equal ones count once.  Of a  *)
(* node's configuration, what the billing dialog sets is followed; a list  *)
(* has none (PUBLIC_SERVER_FIELDS), nor have the rows made from one.  What *)
(* agents' reports, other tabs and the console's other tools write is left *)
(* out; that they ask for lists and empty the cache is not.                *)
(***************************************************************************)
EXTENDS Integers, FiniteSets

CONSTANTS
  Node,         \* the nodes there may be
  Reload,       \* bound: reloads under way at once
  MaxInfo,      \* bound: versions of one node's data
  MaxAge,       \* bound: the changes a list that is on its way or in Redis misses
  Billing,      \* what a configuration may say of the billing
  NoBilling     \* what that of a new node says

ASSUME AdminAssumption ==
  /\ IsFiniteSet(Node) /\ Cardinality(Reload) >= 1
  /\ MaxInfo \in Nat \ {0} /\ MaxAge \in Nat \ {0}
  /\ NoBilling \in Billing

VARIABLES
  aPage,       \* where boot and showAdminPanel are
  aDb,         \* the server's version of each node: 0 not yet, -1 no longer there
  aBilling,    \* what its configuration of each node says
  aCache,      \* the list in Redis
  aRows,       \* _servers
  aReload,     \* the reloads, with the list each has got
  aWrite,      \* the operation that holds _busy
  aCurrent,    \* history: no change since the table's list was read but the table's
               \* own, and none of those with its answer lost
  aUnsaved     \* history: the nodes whose rows have a configuration that was not saved

tableVars == <<aRows, aCurrent, aUnsaved>>
serverVars == <<aDb, aBilling, aCache>>
adminVars == <<aPage, serverVars, tableVars, aReload, aWrite>>

Row == [id : Node, info : 1..MaxInfo, billing : SUBSET Billing]

\* age (history): the changes since the list was read from the database.
NoList == [pc |-> "none", rows |-> {}, age |-> 0]
NoWrite == [op |-> "none", ids |-> {}, billing |-> {}, pc |-> "none"]
Open == aPage = "shown"
Ids(rows) == {row.id : row \in rows}
Listed(rows) == {[row EXCEPT !.billing = {}] : row \in rows}

\* The nodes there are.
ListOf(db) == {[id |-> n, info |-> db[n], billing |-> {}] : n \in {m \in Node : db[m] > 0}}
ListRead == [pc |-> "read", rows |-> ListOf(aDb), age |-> 0]

-----------------------------------------------------------------------------
AdminInit ==
  /\ aPage = "boot"
  /\ aDb \in [Node -> {0, 1}]
  /\ aBilling = [n \in Node |-> NoBilling]
  /\ aCache = NoList
  /\ aRows = {}
  /\ aReload = [r \in Reload |-> NoList]
  /\ aWrite = NoWrite
  /\ aCurrent = FALSE /\ aUnsaved = {}

\* reload, up to its await.
Ask(r) ==
  /\ aReload[r] = NoList
  /\ aReload' = [aReload EXCEPT ![r] = [NoList EXCEPT !.pc = "asked"]]

\* checkSession: the console, or the login page.
BootSettles ==
  /\ aPage = "boot"
  /\ \/ /\ aPage' = "list"
        /\ \E r \in Reload : Ask(r)
     \/ aPage' = "login" /\ UNCHANGED aReload
  /\ UNCHANGED <<serverVars, tableVars, aWrite>>

\* reload goes on; it fails at any time, which is only shown.  The first one is
\* awaited.
ReloadSettles(r) ==
  /\ aReload[r] # NoList
  /\ aReload' = [aReload EXCEPT ![r] = NoList]
  /\ \/ /\ aReload[r].pc = "stored"
        /\ aRows' = aReload[r].rows
        /\ aCurrent' = (aReload[r].age = 0)
        /\ aUnsaved' = {}
     \/ UNCHANGED tableVars
  /\ aPage' = IF aPage = "list" THEN "rules" ELSE aPage
  /\ UNCHANGED <<serverVars, aWrite>>

\* The rules are loaded or not; the tab of the address is opened, and with it
\* possibly a node's dialog; the nodes' tab asks for the list again.
ShowPanel ==
  /\ aPage = "rules"
  /\ aPage' = "shown"
  /\ (\E r \in Reload : Ask(r)) \/ UNCHANGED aReload
  /\ UNCHANGED <<serverVars, tableVars, aWrite>>

\* switchTab("servers").
OpenNodesTab ==
  /\ Open
  /\ \E r \in Reload : Ask(r)
  /\ UNCHANGED <<aPage, serverVars, tableVars, aWrite>>

-----------------------------------------------------------------------------
(* The list on the server.                                                  *)

\* The one in Redis; without one, or when Redis fails, the database's.
ListServers(r) ==
  /\ aReload[r].pc = "asked"
  /\ \/ /\ aCache # NoList
        /\ aReload' = [aReload EXCEPT ![r] = aCache]
     \/ aReload' = [aReload EXCEPT ![r] = ListRead]
  /\ UNCHANGED <<aPage, serverVars, tableVars, aWrite>>

\* Redis takes the list, whatever happened since it was read, or fails.
KeepsList(list) == aCache' \in {[list EXCEPT !.pc = "stored"], aCache}

StoreList(r) ==
  /\ aReload[r].pc = "read"
  /\ aReload' = [aReload EXCEPT ![r].pc = "stored"]
  /\ KeepsList(aReload[r])
  /\ UNCHANGED <<aPage, aDb, aBilling, tableVars, aWrite>>

\* After thirty seconds, by a measurement that is pushed, by a job.
CacheRemoved ==
  /\ aCache # NoList
  /\ aCache' = NoList
  /\ UNCHANGED <<aPage, aDb, aBilling, tableVars, aReload, aWrite>>

-----------------------------------------------------------------------------
(* The operations, each with the server's part of it.                       *)

Lists == {aCache} \union {aReload[r] : r \in Reload}
Aged(list) == IF list.pc \in {"read", "stored"} THEN [list EXCEPT !.age = @ + 1] ELSE list

\* The lists that were read before are no longer the server's.
Commit(db) ==
  /\ \A list \in Lists : list.age < MaxAge
  /\ aDb' = db
  /\ aReload' = [r \in Reload |-> Aged(aReload[r])]

\* _clear_cache: when Redis fails, the list stays and nothing is said.
ClearCache(list) == aCache' \in {NoList, list}

\* An operation is refused while another one is under way.
Idle == Open /\ aWrite = NoWrite

\* create_server, update_server, delete_server.
Serves(op, n, version, billing) ==
  /\ Idle
  /\ Commit([aDb EXCEPT ![n] = version])
  /\ ClearCache(Aged(aCache))
  /\ aWrite' = [op |-> op, ids |-> {n}, billing |-> billing, pc |-> "served"]
  /\ UNCHANGED <<aPage, aBilling, tableVars>>

Create(n) == aDb[n] = 0 /\ Serves("create", n, 1, {})
SaveInfo(n) == aDb[n] \in 1..MaxInfo - 1 /\ Serves("info", n, aDb[n] + 1, {})
SaveBilling(n) ==
  /\ n \in Ids(aRows) /\ aDb[n] \in 1..MaxInfo - 1
  /\ \E c \in Billing \ {NoBilling} : Serves("billing", n, aDb[n] + 1, {c})
Delete(n) == n \in Ids(aRows) /\ aDb[n] > 0 /\ Serves("delete", n, -1, {})

\* bulk_delete_servers finds all of them first.
DeleteSelected ==
  /\ Idle
  /\ \E ids \in SUBSET {n \in Node : aDb[n] > 0} \ {{}} :
       aWrite' = [op |-> "bulk", ids |-> ids, billing |-> {}, pc |-> "bulk"]
  /\ UNCHANGED <<aPage, serverVars, tableVars, aReload>>

\* Not found, not valid, not done.
Refused ==
  /\ Idle
  /\ aWrite' = [NoWrite EXCEPT !.pc = "refused"]
  /\ UNCHANGED <<aPage, serverVars, tableVars, aReload>>

Goes(write) == aWrite' = write /\ UNCHANGED <<aPage, tableVars>>
Loses == Goes([NoWrite EXCEPT !.pc = "lost"])

\* One by one; what breaks off does not come to clear the cache.
BulkDeletes(n) ==
  /\ aWrite.pc = "bulk" /\ n \in aWrite.ids /\ aDb[n] > 0
  /\ Commit([aDb EXCEPT ![n] = -1])
  /\ aCache' = Aged(aCache)
  /\ UNCHANGED <<aPage, aBilling, tableVars, aWrite>>

BulkEnds ==
  /\ aWrite.pc = "bulk"
  /\ \/ /\ \A n \in aWrite.ids : aDb[n] = -1
        /\ ClearCache(aCache)
        /\ Goes([aWrite EXCEPT !.pc = "served"])
     \/ Loses /\ UNCHANGED aCache
  /\ UNCHANGED <<aDb, aBilling, aReload>>

\* The answer to an operation that took effect does not arrive.
AnswerLost ==
  /\ aWrite.pc = "served"
  /\ Loses
  /\ UNCHANGED <<serverVars, aReload>>

\* update_agent_config, after the node's answer: what fails is ignored.  No cache
\* is cleared.
ConfigSettles ==
  /\ aWrite.pc = "served" /\ aWrite.op = "billing"
  /\ \/ /\ \E n \in aWrite.ids, c \in aWrite.billing : aBilling' = [aBilling EXCEPT ![n] = c]
        /\ Goes([aWrite EXCEPT !.pc = "saved"])
     \/ Goes([aWrite EXCEPT !.pc = "unsaved"]) /\ UNCHANGED aBilling
  /\ UNCHANGED <<aDb, aCache, aReload>>

Finished ==
  aWrite.pc \in IF aWrite.op = "billing" THEN {"saved", "unsaved"} ELSE {"served"}
Edits == aWrite.op \in {"info", "billing"}

\* A node's row as the answer makes it: its configuration is the server's, or the one
\* that was typed, whether it was saved or not.
AnswerRow(n) ==
  [id |-> n, info |-> aDb[n],
   billing |-> IF aWrite.op = "billing" THEN aWrite.billing ELSE {aBilling[n]}]

\* Mutant: the rows that were deleted together stay.
PatchedOneByOne(rows) ==
  CASE aWrite.op = "create" -> rows \union {AnswerRow(n) : n \in aWrite.ids}
    [] aWrite.op = "delete" -> {row \in rows : row.id \notin aWrite.ids}
    [] OTHER -> {IF Edits /\ row.id \in aWrite.ids THEN AnswerRow(row.id) ELSE row :
                   row \in rows}

\* The answer is patched into the table there is now.
Patched(rows) ==
  CASE aWrite.op = "create" -> rows \union {AnswerRow(n) : n \in aWrite.ids}
    [] Edits -> {IF row.id \in aWrite.ids THEN AnswerRow(row.id) ELSE row : row \in rows}
    [] OTHER -> {row \in rows : row.id \notin aWrite.ids}

\* The dialog is closed, whichever it is by now.
Succeeds ==
  /\ Finished
  /\ aRows' = Patched(aRows)
  /\ aUnsaved' = {n \in Node : IF Edits /\ n \in aWrite.ids THEN aWrite.pc = "unsaved"
                                ELSE n \in aUnsaved}
  /\ aWrite' = NoWrite
  /\ UNCHANGED <<aPage, serverVars, aReload, aCurrent>>

\* Mutant: the next operation is still refused.
FailsBusy == aWrite.pc \in {"refused", "lost"} /\ UNCHANGED adminVars

\* The error is shown and the table stays.
Fails ==
  /\ aWrite.pc \in {"refused", "lost"}
  /\ aCurrent' = (aCurrent /\ aWrite.pc = "refused")
  /\ aWrite' = NoWrite
  /\ UNCHANGED <<aPage, serverVars, aRows, aUnsaved, aReload>>

\* adminLogout: to the login page, which is another document.
Logout ==
  /\ Open
  /\ aPage' = "login"
  /\ aRows' = {} /\ aCurrent' = FALSE /\ aUnsaved' = {}
  /\ aReload' = [r \in Reload |-> NoList] /\ aWrite' = NoWrite
  /\ UNCHANGED serverVars

BulkGoesOn == (\E n \in Node : BulkDeletes(n)) \/ BulkEnds

AdminStep ==
  \/ BootSettles \/ ShowPanel \/ OpenNodesTab \/ Logout
  \/ \E r \in Reload : ListServers(r) \/ StoreList(r) \/ ReloadSettles(r)
  \/ CacheRemoved
  \/ \E n \in Node : Create(n) \/ SaveInfo(n) \/ SaveBilling(n) \/ Delete(n)
  \/ DeleteSelected \/ Refused \/ BulkGoesOn \/ AnswerLost \/ ConfigSettles
  \/ Succeeds \/ Fails

AdminSpec == AdminInit /\ [][AdminStep]_adminVars

-----------------------------------------------------------------------------
List == [pc : {"none", "asked", "read", "stored"}, rows : SUBSET Row, age : 0..MaxAge]

AdminTypeOK ==
  /\ aPage \in {"boot", "list", "rules", "shown", "login"}
  /\ aDb \in [Node -> -1..MaxInfo]
  /\ aBilling \in [Node -> Billing]
  /\ aRows \subseteq Row
  /\ \A list \in Lists : list.rows \subseteq Row /\ list.age \in 0..MaxAge
  /\ aWrite \in [op : {"none", "create", "info", "billing", "delete", "bulk"},
                 ids : SUBSET Node, billing : SUBSET Billing,
                 pc : {"none", "refused", "bulk", "served", "saved", "unsaved", "lost"}]
  /\ aCurrent \in BOOLEAN /\ aUnsaved \subseteq Node

\* Between two operations the table is the server's list, after any sequence of
\* them with refusals in between, although none of them asks for the list again:
\* unless an answer was lost, or the last list that came was read before a change
\* that was made before it came.  The code notices neither: the list may have been
\* on its way, or in Redis, where for thirty seconds an old one is found when Redis
\* did not remove it, when it was put there after the change that should have
\* removed it, or when a bulk delete broke off.  And what a row says of its node's
\* configuration is what the server has, except after a save of it that failed,
\* which the table does not notice either.
TableAsServer ==
  aWrite = NoWrite =>
    /\ aCurrent => Listed(aRows) = ListOf(aDb)
    /\ \A row \in aRows : row.id \in aUnsaved \/ row.billing \subseteq {aBilling[row.id]}

\* The panel is shown in the end whatever fails to load, and no operation keeps
\* the others from being started for ever.
Settled == aPage \in {"shown", "login"} /\ aWrite = NoWrite
AdminSettles == []<>Settled
=============================================================================
