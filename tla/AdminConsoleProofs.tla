------------------------- MODULE AdminConsoleProofs -------------------------
(***************************************************************************)
(* The table of the administration console is the server's list between    *)
(* two operations, but for the lists, answers and configurations that are  *)
(* named there; the token and the key are as they were typed, and a        *)
(* channel's secret is never an earlier one; the alert rules and the ping  *)
(* targets are shown as the server has them: for any number of nodes, of   *)
(* reloads, of rules, of targets and of changes.                           *)
(***************************************************************************)
EXTENDS AdminConsole, AdminSettings, AlertRules, PingTargets, IntegerLemmas,
        SequenceTheorems, TLAPS

(* The nodes.  NodesInv: a list that no change has overtaken is the server's, on*)
(* its way and in Redis, and what the operation under way has done to its nodes *)
(* is done.  TableInv: the rows that are not the operation's are the server's,  *)
(* and those that are will be when its answer is patched in, also when a reload *)
(* brings them first.                                                           *)

Row0 == {row \in Row : row.billing = {}}
Lists0 == [pc : {"none", "asked", "read", "stored"}, rows : SUBSET Row0, age : 0..MaxAge]
Fresh(list) == list.pc \in {"read", "stored"} /\ list.age = 0 => list.rows = ListOf(aDb)

ListsInv ==
  /\ aCache \in Lists0 /\ aReload \in [Reload -> Lists0]
  /\ Fresh(aCache) /\ \A r \in Reload : Fresh(aReload[r])

\* What the operation under way says of its nodes.
WriteInv ==
  /\ aWrite.pc \in {"none", "refused", "lost"} => aWrite.op = "none" /\ aWrite.ids = {}
  /\ aWrite.op = "none" => aWrite.ids = {}
  /\ aWrite.pc = "bulk" => aWrite.op = "bulk"
  /\ aWrite.pc \in {"saved", "unsaved"} => aWrite.op = "billing"
  /\ aWrite.op \in {"create", "info", "billing"} => \A n \in aWrite.ids : aDb[n] > 0
  /\ aWrite.op \in {"delete", "bulk"} /\ aWrite.pc = "served" =>
       \A n \in aWrite.ids : aDb[n] = -1
  /\ aWrite.op = "billing" => \E n \in Node : aWrite.ids = {n}
  /\ aWrite.op = "billing" => \E c \in Billing : aWrite.billing = {c}
  /\ aWrite.pc = "saved" => \A n \in aWrite.ids : aWrite.billing = {aBilling[n]}

NodesInv == AdminTypeOK /\ ListsInv /\ WriteInv

RowsRight ==
  \A row \in aRows : row.id \notin aWrite.ids => aDb[row.id] > 0 /\ row.info = aDb[row.id]
RowsWhole ==
  \A n \in Node : n \in aWrite.ids \/ aDb[n] <= 0 \/ n \in Ids(aRows)
\* What the answer does not replace or remove.
RowsAwait ==
  /\ aWrite.op = "create" => \A row \in aRows : row.info = aDb[row.id]
  /\ aWrite.op \in {"info", "billing"} => aWrite.ids \subseteq Ids(aRows)
BillingRight ==
  \A row \in aRows :
    \/ row.id \in aUnsaved
    \/ row.billing \subseteq {aBilling[row.id]}
    \/ aWrite.pc = "saved" /\ row.id \in aWrite.ids

TableInv ==
  /\ aCurrent /\ aWrite.pc # "lost" => RowsRight /\ RowsWhole /\ RowsAwait
  /\ BillingRight

-----------------------------------------------------------------------------
(* The lists.                                                               *)

LEMMA InList ==
  ASSUME NEW db, NEW row
  PROVE  row \in ListOf(db) <=>
           \E n \in Node : db[n] > 0 /\ row = [id |-> n, info |-> db[n], billing |-> {}]
  BY DEF ListOf

LEMMA VersionedRows ==
  ASSUME NEW db \in [Node -> -1..MaxInfo] PROVE ListOf(db) \subseteq Row0
  <1>1. ASSUME NEW n \in Node, db[n] > 0
        PROVE  [id |-> n, info |-> db[n], billing |-> {}] \in Row0
    BY <1>1, AdminAssumption DEF Row, Row0
  <1> QED BY <1>1 DEF ListOf

\* The lists as the type invariant names them.
LEMMA ListsTyped ==
  ASSUME ListsInv PROVE \A list \in Lists : list.rows \subseteq Row /\ list.age \in 0..MaxAge
  BY DEF ListsInv, Lists, Lists0, Row0

LEMMA NoListTyped == NoList \in Lists0 /\ (\A list : list = NoList => Fresh(list))
  BY AdminAssumption DEF NoList, Lists0, Fresh

\* A list is older after a change.
LEMMA AgedTyped ==
  ASSUME NEW list \in Lists0, list.age < MaxAge
  PROVE  Aged(list) \in Lists0
  BY AdminAssumption DEF Aged, Lists0

LEMMA CommitLists ==
  ASSUME NodesInv, NEW db, Commit(db), aCache' \in {NoList, Aged(aCache)}
  PROVE  ListsInv'
  <1>1. aCache.age < MaxAge /\ \A r \in Reload : aReload[r].age < MaxAge
    BY DEF Commit, Lists
  <1>2. aCache' \in Lists0 /\ Fresh(aCache)'
    <2>1. CASE aCache' = NoList
      BY <2>1, AdminAssumption DEF NoList, Lists0, Fresh
    <2>2. CASE aCache' = Aged(aCache)
      <3>1. aCache \in Lists0
        BY DEF NodesInv, ListsInv
      <3>2. Aged(aCache) \in Lists0
        BY <1>1, <3>1, AgedTyped
      <3>3. CASE aCache.pc \in {"read", "stored"}
        <4>1. aCache'.age = aCache.age + 1 /\ aCache.age \in Nat
          BY <2>2, <3>1, <3>3, AdminAssumption DEF Aged, Lists0
        <4> QED BY <2>2, <3>2, <4>1 DEF Fresh
      <3>4. CASE aCache.pc \notin {"read", "stored"}
        BY <2>2, <3>1, <3>4 DEF Aged, Fresh
      <3> QED BY <2>2, <3>2, <3>3, <3>4
    <2> QED BY <2>1, <2>2
  <1>3. ASSUME NEW r \in Reload PROVE aReload'[r] \in Lists0 /\ Fresh(aReload[r])'
    <2>1. aReload'[r] = Aged(aReload[r]) /\ aReload[r] \in Lists0
      BY DEF Commit, NodesInv, ListsInv
    <2>2. Aged(aReload[r]) \in Lists0
      BY <1>1, <2>1, AgedTyped
    <2>3. CASE aReload[r].pc \in {"read", "stored"}
      <3>1. aReload'[r].age = aReload[r].age + 1 /\ aReload[r].age \in Nat
        BY <2>1, <2>3, AdminAssumption DEF Aged, Lists0
      <3> QED BY <2>1, <2>2, <3>1 DEF Fresh
    <2>4. CASE aReload[r].pc \notin {"read", "stored"}
      BY <2>1, <2>4 DEF Aged, Fresh
    <2> QED BY <2>1, <2>2, <2>3, <2>4
  <1>4. aReload' = [r \in Reload |-> aReload'[r]]
    BY DEF Commit
  <1> QED BY <1>2, <1>3, <1>4 DEF ListsInv

-----------------------------------------------------------------------------
(* The steps: the lists and the operation.                                  *)

Writes == [op : {"none", "create", "info", "billing", "delete", "bulk"},
           ids : SUBSET Node, billing : SUBSET Billing,
           pc : {"none", "refused", "bulk", "served", "saved", "unsaved", "lost"}]

LEMMA NodesInit == AdminInit => NodesInv
  <1> SUFFICES ASSUME AdminInit PROVE NodesInv
    OBVIOUS
  <1>1. ListsInv
    BY NoListTyped DEF AdminInit, ListsInv
  <1>2. WriteInv
    BY DEF AdminInit, WriteInv, NoWrite
  <1>3. aDb \in [Node -> -1..MaxInfo] /\ aBilling \in [Node -> Billing]
    BY AdminAssumption DEF AdminInit
  <1> QED BY <1>1, <1>2, <1>3, ListsTyped DEF AdminInit, NodesInv, AdminTypeOK, NoWrite

\* A step of the lists alone.
LEMMA ListStep ==
  ASSUME NodesInv, ListsInv', UNCHANGED <<aDb, aBilling, aWrite>>,
         aPage' \in {"boot", "list", "rules", "shown", "login"},
         aRows' \subseteq Row, aCurrent' \in BOOLEAN, aUnsaved' \subseteq Node
  PROVE  NodesInv'
  <1>1. WriteInv'
    BY DEF NodesInv, WriteInv
  <1>2. \A list \in Lists' : list.rows \subseteq Row /\ list.age \in 0..MaxAge
    BY DEF ListsInv, Lists, Lists0, Row0
  <1> QED BY <1>1, <1>2 DEF NodesInv, AdminTypeOK

\* A step of an operation, with the lists done.
LEMMA OperationStep ==
  ASSUME NodesInv, ListsInv', WriteInv', UNCHANGED aPage,
         aDb' \in [Node -> -1..MaxInfo], aBilling' \in [Node -> Billing], aWrite' \in Writes,
         aRows' \subseteq Row, aCurrent' \in BOOLEAN, aUnsaved' \subseteq Node
  PROVE  NodesInv'
  <1>2. \A list \in Lists' : list.rows \subseteq Row /\ list.age \in 0..MaxAge
    BY DEF ListsInv, Lists, Lists0, Row0
  <1> QED BY <1>2 DEF NodesInv, AdminTypeOK, Writes

\* The lists when nothing changes.
LEMMA ListsKept ==
  ASSUME ListsInv, UNCHANGED aDb, aCache' \in Lists0, Fresh(aCache'),
         aReload' = [r \in Reload |-> aReload'[r]],
         \A r \in Reload : aReload'[r] \in Lists0 /\ Fresh(aReload'[r])
  PROVE  ListsInv'
  BY DEF ListsInv, Fresh, ListOf

LEMMA ReloadAsked ==
  ASSUME ListsInv, UNCHANGED <<aDb, aCache>>, UNCHANGED aReload \/ \E r \in Reload : Ask(r)
  PROVE  ListsInv'
  <1>1. CASE UNCHANGED aReload
    BY <1>1, ListsKept DEF ListsInv
  <1>2. ASSUME NEW r \in Reload, Ask(r) PROVE ListsInv'
    <2>1. /\ [NoList EXCEPT !.pc = "asked"] \in Lists0
          /\ Fresh([NoList EXCEPT !.pc = "asked"])
      BY AdminAssumption DEF NoList, Lists0, Fresh
    <2> QED BY <1>2, <2>1, ListsKept DEF Ask, ListsInv
  <1> QED BY <1>1, <1>2

LEMMA PatchedTyped ==
  ASSUME NodesInv, Finished PROVE Patched(aRows) \subseteq Row
  <1>0. /\ aRows \subseteq Row /\ aDb \in [Node -> -1..MaxInfo] /\ WriteInv
        /\ aBilling \in [Node -> Billing] /\ aWrite \in Writes
    BY DEF NodesInv, AdminTypeOK, Writes
  <1>1. ASSUME NEW n \in aWrite.ids, aWrite.op \in {"create", "info", "billing"}
        PROVE  AnswerRow(n) \in Row
    <2>1. n \in Node /\ aDb[n] \in 1..MaxInfo
      BY <1>0, <1>1, AdminAssumption DEF WriteInv, Writes
    <2> QED BY <1>0, <2>1 DEF AnswerRow, Row, Writes
  <1>2. CASE aWrite.op = "create"
    BY <1>0, <1>1, <1>2 DEF Patched
  <1>3. CASE Edits
    BY <1>0, <1>1, <1>3 DEF Patched, Edits
  <1>4. CASE aWrite.op # "create" /\ ~Edits
    BY <1>0, <1>4 DEF Patched
  <1> QED BY <1>2, <1>3, <1>4

LEMMA ServesKeepsNodes ==
  ASSUME NodesInv, NEW op \in {"create", "info", "billing", "delete"}, NEW n \in Node,
         NEW version \in -1..MaxInfo, NEW billing \in SUBSET Billing,
         op = "delete" <=> version = -1, version # 0,
         op = "billing" => \E c \in Billing : billing = {c},
         Serves(op, n, version, billing)
  PROVE  NodesInv'
  <1>1. /\ aDb' = [aDb EXCEPT ![n] = version]
        /\ aWrite' = [op |-> op, ids |-> {n}, billing |-> billing, pc |-> "served"]
        /\ aCache' \in {NoList, Aged(aCache)}
        /\ UNCHANGED <<aPage, aBilling, aRows, aCurrent, aUnsaved>>
    BY DEF Serves, Commit, ClearCache, tableVars
  <1>2. ListsInv'
    BY <1>1, CommitLists DEF Serves
  <1>3. aDb \in [Node -> -1..MaxInfo] /\ MaxInfo \in Nat
    BY AdminAssumption DEF NodesInv, AdminTypeOK
  <1>4. aDb' \in [Node -> -1..MaxInfo] /\ aDb'[n] = version
    BY <1>1, <1>3
  <1>5. WriteInv'
    <2>1. version # -1 => version > 0
      BY <1>3
    <2> QED BY <1>1, <1>4, <2>1 DEF WriteInv
  <1>6. aWrite' \in Writes
    BY <1>1 DEF Writes
  <1> QED BY <1>1, <1>2, <1>4, <1>5, <1>6, OperationStep DEF NodesInv, AdminTypeOK

LEMMA NodesStep == NodesInv /\ [AdminStep]_adminVars => NodesInv'
  <1> SUFFICES ASSUME NodesInv, [AdminStep]_adminVars PROVE NodesInv'
    OBVIOUS
  <1> USE DEF tableVars, serverVars
  <1>0. /\ aPage \in {"boot", "list", "rules", "shown", "login"}
        /\ aDb \in [Node -> -1..MaxInfo] /\ aBilling \in [Node -> Billing]
        /\ aRows \subseteq Row /\ aCurrent \in BOOLEAN /\ aUnsaved \subseteq Node
        /\ aWrite \in Writes /\ ListsInv /\ WriteInv
        /\ aCache \in Lists0 /\ Fresh(aCache) /\ aReload \in [Reload -> Lists0]
        /\ \A r \in Reload : aReload[r] \in Lists0 /\ Fresh(aReload[r])
    BY DEF NodesInv, AdminTypeOK, ListsInv, Writes
  <1>1. CASE BootSettles \/ ShowPanel \/ OpenNodesTab
    <2>1. ListsInv'
      BY <1>0, <1>1, ReloadAsked DEF BootSettles, ShowPanel, OpenNodesTab
    <2> QED BY <1>0, <1>1, <2>1, ListStep DEF BootSettles, ShowPanel, OpenNodesTab
  <1>2. CASE Logout
    <2>1. ListsInv'
      BY <1>0, <1>2, ListsKept, NoListTyped DEF Logout
    <2>2. WriteInv'
      BY <1>2 DEF Logout, WriteInv, NoWrite
    <2>3. \A list \in Lists' : list.rows \subseteq Row /\ list.age \in 0..MaxAge
      BY <2>1 DEF ListsInv, Lists, Lists0, Row0
    <2> QED BY <1>0, <1>2, <2>1, <2>2, <2>3 DEF Logout, NodesInv, AdminTypeOK, NoWrite
  <1>3. ASSUME NEW r \in Reload, ReloadSettles(r) PROVE NodesInv'
    <2>1. ListsInv'
      BY <1>0, <1>3, ListsKept, NoListTyped DEF ReloadSettles
    <2>2. aReload[r].rows \subseteq Row
      BY <1>0 DEF Lists0, Row0
    <2>3. /\ aRows' \subseteq Row /\ aUnsaved' \subseteq Node
          /\ aPage' \in {"boot", "list", "rules", "shown", "login"}
      BY <1>0, <1>3, <2>2 DEF ReloadSettles
    <2>4. aCurrent' \in BOOLEAN
      BY <1>0, <1>3, Zenon DEF ReloadSettles
    <2> QED BY <1>3, <2>1, <2>3, <2>4, ListStep DEF ReloadSettles
  <1>4. ASSUME NEW r \in Reload, ListServers(r) PROVE NodesInv'
    <2>1. ListRead \in Lists0 /\ Fresh(ListRead)
      BY <1>0, VersionedRows, AdminAssumption DEF ListRead, Lists0, Fresh
    <2>2. ListsInv'
      BY <1>0, <1>4, <2>1, ListsKept DEF ListServers
    <2> QED BY <1>0, <1>4, <2>2, ListStep DEF ListServers
  <1>5. ASSUME NEW r \in Reload, StoreList(r) PROVE NodesInv'
    <2>1. /\ [aReload[r] EXCEPT !.pc = "stored"] \in Lists0
          /\ Fresh([aReload[r] EXCEPT !.pc = "stored"])
      BY <1>0, <1>5 DEF StoreList, Lists0, Fresh
    <2>2. ListsInv'
      BY <1>0, <1>5, <2>1, ListsKept DEF StoreList, KeepsList
    <2> QED BY <1>0, <1>5, <2>2, ListStep DEF StoreList
  <1>6. CASE CacheRemoved
    <2>1. ListsInv'
      BY <1>0, <1>6, ListsKept, NoListTyped DEF CacheRemoved
    <2> QED BY <1>0, <1>6, <2>1, ListStep DEF CacheRemoved
  <1>7. ASSUME NEW n \in Node, Create(n) \/ SaveInfo(n) \/ SaveBilling(n) \/ Delete(n)
        PROVE  NodesInv'
    <2>1. MaxInfo \in Nat \ {0}
      BY AdminAssumption
    <2>2. CASE Create(n)
      BY <2>1, <2>2, ServesKeepsNodes DEF Create
    <2>3. CASE SaveInfo(n)
      <3>1. aDb[n] + 1 \in 1..MaxInfo
        BY <2>1, <2>3 DEF SaveInfo
      <3> QED BY <2>1, <2>3, <3>1, ServesKeepsNodes DEF SaveInfo
    <2>4. CASE SaveBilling(n)
      <3>1. aDb[n] + 1 \in 1..MaxInfo
        BY <2>1, <2>4 DEF SaveBilling
      <3> QED BY <2>1, <2>4, <3>1, ServesKeepsNodes DEF SaveBilling
    <2>5. CASE Delete(n)
      BY <2>1, <2>5, ServesKeepsNodes DEF Delete
    <2> QED BY <1>7, <2>2, <2>3, <2>4, <2>5
  <1>8. CASE DeleteSelected \/ Refused
    <2>1. ListsInv' /\ WriteInv'
      BY <1>0, <1>8, ListsKept DEF DeleteSelected, Refused, WriteInv, NoWrite, ListsInv
    <2>2. aWrite' \in Writes
      BY <1>0, <1>8 DEF DeleteSelected, Refused, NoWrite, Writes
    <2> QED BY <1>0, <1>8, <2>1, <2>2, OperationStep DEF DeleteSelected, Refused
  <1>9. ASSUME NEW n \in Node, BulkDeletes(n) PROVE NodesInv'
    <2>1. ListsInv' /\ aDb' = [aDb EXCEPT ![n] = -1]
      BY <1>9, CommitLists DEF BulkDeletes, Commit
    <2>2. aDb' \in [Node -> -1..MaxInfo]
      BY <1>0, <2>1, AdminAssumption
    <2>3. WriteInv'
      BY <1>0, <1>9 DEF BulkDeletes, WriteInv
    <2> QED BY <1>0, <1>9, <2>1, <2>2, <2>3, OperationStep DEF BulkDeletes
  <1>10. CASE BulkEnds
    <2>1. ListsInv'
      BY <1>0, <1>10, ListsKept, NoListTyped DEF BulkEnds, ClearCache
    <2>2. WriteInv'
      BY <1>0, <1>10 DEF BulkEnds, Goes, Loses, WriteInv, NoWrite, Writes
    <2>3. aWrite' \in Writes
      BY <1>0, <1>10 DEF BulkEnds, Goes, Loses, NoWrite, Writes
    <2> QED BY <1>0, <1>10, <2>1, <2>2, <2>3, OperationStep DEF BulkEnds, Goes, Loses
  <1>11. CASE AnswerLost
    <2>1. ListsInv' /\ WriteInv' /\ aWrite' \in Writes
      BY <1>0, <1>11, ListsKept
      DEF AnswerLost, Goes, Loses, WriteInv, NoWrite, Writes, ListsInv
    <2> QED BY <1>0, <1>11, <2>1, OperationStep DEF AnswerLost, Goes, Loses
  <1>12. CASE ConfigSettles
    <2>1. ListsInv'
      BY <1>0, <1>12, ListsKept DEF ConfigSettles, ListsInv
    <2>2. aWrite.op = "billing" /\ UNCHANGED <<aDb, aPage, aRows, aCurrent, aUnsaved>>
      BY <1>12 DEF ConfigSettles, Goes
    <2>3. PICK m \in Node, c \in Billing : aWrite.ids = {m} /\ aWrite.billing = {c}
      BY <1>0, <2>2 DEF WriteInv
    <2>4. \A n \in aWrite.ids : aDb[n] > 0
      BY <1>0, <2>2 DEF WriteInv
    <2>5. CASE /\ aBilling' = [aBilling EXCEPT ![m] = c]
               /\ aWrite' = [aWrite EXCEPT !.pc = "saved"]
      <3>1. /\ aWrite'.op = "billing" /\ aWrite'.ids = {m} /\ aWrite'.billing = {c}
            /\ aWrite'.pc = "saved" /\ aWrite' \in Writes
        BY <1>0, <2>2, <2>3, <2>5 DEF Writes
      <3>2. aBilling'[m] = c /\ aBilling' \in [Node -> Billing]
        BY <1>0, <2>5
      <3>3. WriteInv'
        BY <2>2, <2>3, <2>4, <3>1, <3>2 DEF WriteInv
      <3> QED BY <1>0, <2>1, <2>2, <3>1, <3>2, <3>3, OperationStep
    <2>6. CASE aWrite' = [aWrite EXCEPT !.pc = "unsaved"] /\ UNCHANGED aBilling
      <3>1. /\ aWrite'.op = "billing" /\ aWrite'.ids = {m} /\ aWrite'.billing = {c}
            /\ aWrite'.pc = "unsaved" /\ aWrite' \in Writes
        BY <1>0, <2>2, <2>3, <2>6 DEF Writes
      <3>2. WriteInv'
        BY <2>2, <2>3, <2>4, <3>1 DEF WriteInv
      <3> QED BY <1>0, <2>1, <2>2, <2>6, <3>1, <3>2, OperationStep
    <2> QED BY <1>12, <2>3, <2>5, <2>6 DEF ConfigSettles, Goes
  <1>13. CASE Succeeds
    <2>1. ListsInv' /\ WriteInv' /\ aWrite' \in Writes
      BY <1>0, <1>13, ListsKept DEF Succeeds, WriteInv, NoWrite, Writes, ListsInv
    <2>2. aRows' \subseteq Row /\ aUnsaved' \subseteq Node
      BY <1>13, PatchedTyped DEF Succeeds
    <2> QED BY <1>0, <1>13, <2>1, <2>2, OperationStep DEF Succeeds
  <1>14. CASE Fails
    <2>1. ListsInv' /\ WriteInv' /\ aWrite' \in Writes
      BY <1>0, <1>14, ListsKept DEF Fails, WriteInv, NoWrite, Writes, ListsInv
    <2>2. aCurrent' \in BOOLEAN
      BY <1>14, Zenon DEF Fails
    <2> QED BY <1>0, <1>14, <2>1, <2>2, OperationStep DEF Fails
  <1>15. CASE UNCHANGED adminVars
    BY <1>0, <1>15, ListsKept, ListStep DEF adminVars, ListsInv
  <1> QED
    BY <1>1, <1>2, <1>3, <1>4, <1>5, <1>6, <1>7, <1>8, <1>9, <1>10, <1>11, <1>12, <1>13,
       <1>14, <1>15 DEF AdminStep, BulkGoesOn

-----------------------------------------------------------------------------
(* The steps: the table.                                                    *)

LEMMA TableInit == AdminInit => TableInv
  BY DEF AdminInit, TableInv, BillingRight, NoWrite

\* A list that no change has overtaken, and any list's configurations.
LEMMA ListRight ==
  ASSUME NodesInv, aRows' = ListOf(aDb), UNCHANGED <<aDb, aWrite>>
  PROVE  RowsRight' /\ RowsWhole' /\ RowsAwait'
  <1>1. WriteInv /\ aDb \in [Node -> -1..MaxInfo] /\ aWrite.ids \subseteq Node
    BY DEF NodesInv, AdminTypeOK
  <1>2. \A row \in aRows' : \E n \in Node : aDb[n] > 0 /\ row.id = n /\ row.info = aDb[n]
    BY InList
  <1>3. ASSUME NEW n \in Node, aDb[n] > 0 PROVE n \in Ids(aRows')
    <2>1. [id |-> n, info |-> aDb[n], billing |-> {}] \in aRows'
      BY <1>3, InList
    <2> QED BY <2>1 DEF Ids
  <1>4. RowsRight'
    BY <1>2 DEF RowsRight
  <1>5. RowsWhole'
    BY <1>1, <1>3, AdminAssumption DEF RowsWhole, Ids
  <1>6. RowsAwait'
    BY <1>1, <1>2, <1>3 DEF RowsAwait, Ids, WriteInv
  <1> QED BY <1>4, <1>5, <1>6

LEMMA ReloadSettlesKeeps ==
  ASSUME NodesInv, TableInv, NEW r \in Reload, ReloadSettles(r) PROVE TableInv'
  <1>1. UNCHANGED <<aDb, aBilling, aWrite>>
    BY DEF ReloadSettles, serverVars
  <1>2. CASE UNCHANGED <<aRows, aCurrent, aUnsaved>>
    BY <1>1, <1>2 DEF TableInv, RowsRight, RowsWhole, RowsAwait, BillingRight
  <1>3. CASE /\ aReload[r].pc = "stored" /\ aRows' = aReload[r].rows
             /\ aCurrent' = (aReload[r].age = 0)
    <2>1. aReload[r] \in Lists0 /\ Fresh(aReload[r])
      BY DEF NodesInv, ListsInv
    <2>2. aCurrent' => aRows' = ListOf(aDb)
      BY <1>3, <2>1 DEF Fresh
    <2>3. \A row \in aRows' : row.billing = {}
      BY <1>3, <2>1 DEF Lists0, Row0
    <2>4. BillingRight'
      BY <2>3 DEF BillingRight
    <2> QED BY <1>1, <2>2, <2>4, ListRight DEF TableInv
  <1> QED BY <1>2, <1>3 DEF ReloadSettles, tableVars

LEMMA ServesKeeps ==
  ASSUME NodesInv, TableInv,
         NEW op \in {"create", "info", "billing", "delete"}, NEW n \in Node,
         NEW version \in Int, NEW billing,
         op = "create" => aDb[n] = 0, op # "create" => aDb[n] > 0,
         Serves(op, n, version, billing)
  PROVE  TableInv'
  <1>1. /\ aWrite = NoWrite /\ aDb' = [aDb EXCEPT ![n] = version]
        /\ aWrite' = [op |-> op, ids |-> {n}, billing |-> billing, pc |-> "served"]
        /\ UNCHANGED <<aBilling, aRows, aCurrent, aUnsaved>>
    BY DEF Serves, Idle, Commit, tableVars
  <1>2. aDb \in [Node -> -1..MaxInfo] /\ MaxInfo \in Nat
    BY AdminAssumption DEF NodesInv, AdminTypeOK
  <1>3. aDb' \in [Node -> Int] /\ \A m \in Node : m # n => aDb'[m] = aDb[m]
    BY <1>1, <1>2
  <1>4. aRows \subseteq Row
    BY DEF NodesInv, AdminTypeOK
  <1>5. BillingRight'
    BY <1>1 DEF TableInv, BillingRight, NoWrite
  <1>6. ASSUME aCurrent PROVE RowsRight' /\ RowsWhole' /\ RowsAwait'
    <2>1. RowsRight /\ RowsWhole
      BY <1>1, <1>6 DEF TableInv, NoWrite
    <2>2. \A row \in aRows : row.id \in Node /\ aDb[row.id] > 0 /\ row.info = aDb[row.id]
      BY <1>1, <1>4, <2>1 DEF RowsRight, NoWrite, Row
    <2>3. \A m \in Node : aDb[m] <= 0 \/ m \in Ids(aRows)
      BY <1>1, <2>1 DEF RowsWhole, NoWrite
    <2>4. ASSUME NEW row \in aRows
          PROVE  row.id \notin aWrite'.ids => aDb'[row.id] > 0 /\ row.info = aDb'[row.id]
      <3>1. row.id = n => row.id \in aWrite'.ids
        BY <1>1
      <3>2. row.id # n => aDb'[row.id] = aDb[row.id]
        BY <1>3, <2>2
      <3> QED BY <2>2, <3>1, <3>2
    <2>5. RowsWhole'
      BY <1>1, <1>3, <2>3 DEF RowsWhole, Ids
    <2>6. RowsAwait'
      <3>1. CASE op = "create"
        <4>1. \A row \in aRows : row.id # n
          BY <2>2, <3>1
        <4> QED BY <1>1, <1>3, <2>2, <3>1, <4>1 DEF RowsAwait
      <3>2. CASE op # "create"
        <4>1. n \in Ids(aRows)
          BY <1>2, <2>3, <3>2
        <4> QED BY <1>1, <3>2, <4>1 DEF RowsAwait, Ids
      <3> QED BY <3>1, <3>2
    <2> QED BY <1>1, <2>4, <2>5, <2>6 DEF RowsRight
  <1> QED BY <1>1, <1>5, <1>6 DEF TableInv

LEMMA BulkDeletesKeeps ==
  ASSUME NodesInv, TableInv, NEW n \in Node, BulkDeletes(n) PROVE TableInv'
  <1>1. /\ aDb' = [aDb EXCEPT ![n] = -1] /\ n \in aWrite.ids /\ aWrite.op = "bulk"
        /\ UNCHANGED <<aBilling, aRows, aCurrent, aUnsaved, aWrite>>
    BY DEF BulkDeletes, Commit, tableVars, NodesInv, WriteInv
  <1>2. aDb \in [Node -> -1..MaxInfo] /\ aRows \subseteq Row
    BY DEF NodesInv, AdminTypeOK
  <1>3. \A m \in Node : m \notin aWrite.ids => aDb'[m] = aDb[m]
    BY <1>1, <1>2
  <1>4. \A row \in aRows : row.id \in Node
    BY <1>2 DEF Row
  <1>5. BillingRight'
    BY <1>1 DEF TableInv, BillingRight
  <1>6. RowsRight => RowsRight'
    <2> SUFFICES ASSUME RowsRight, NEW row \in aRows, row.id \notin aWrite.ids
                 PROVE  aDb'[row.id] > 0 /\ row.info = aDb'[row.id]
      BY <1>1 DEF RowsRight
    <2>1. aDb'[row.id] = aDb[row.id]
      BY <1>3, <1>4
    <2> QED BY <2>1 DEF RowsRight
  <1>7. RowsWhole => RowsWhole'
    BY <1>1, <1>3 DEF RowsWhole, Ids
  <1>8. RowsAwait'
    BY <1>1 DEF RowsAwait
  <1> QED BY <1>1, <1>5, <1>6, <1>7, <1>8 DEF TableInv

LEMMA ConfigSettlesKeeps ==
  ASSUME NodesInv, TableInv, ConfigSettles PROVE TableInv'
  <1>1. /\ aWrite.op = "billing" /\ aWrite.pc = "served" /\ aWrite \in Writes
        /\ UNCHANGED <<aDb, aRows, aCurrent, aUnsaved>>
    BY DEF ConfigSettles, Goes, tableVars, NodesInv, AdminTypeOK, Writes
  <1>2. PICK pc \in {"saved", "unsaved"} : aWrite' = [aWrite EXCEPT !.pc = pc]
    BY DEF ConfigSettles, Goes
  <1>3. aWrite'.op = aWrite.op /\ aWrite'.ids = aWrite.ids /\ aWrite'.pc = pc
    BY <1>1, <1>2 DEF Writes
  <1>4. aCurrent' /\ aWrite'.pc # "lost" => RowsRight' /\ RowsWhole' /\ RowsAwait'
    BY <1>1, <1>3 DEF TableInv, RowsRight, RowsWhole, RowsAwait, Ids
  <1>5. BillingRight'
    <2>1. BillingRight
      BY DEF TableInv
    <2>2. CASE UNCHANGED aBilling
      BY <1>1, <1>3, <2>1, <2>2 DEF BillingRight
    <2>3. CASE pc = "saved" /\ \E n \in aWrite.ids, c \in aWrite.billing :
                                 aBilling' = [aBilling EXCEPT ![n] = c]
      <3>1. PICK n \in aWrite.ids, c \in aWrite.billing : aBilling' = [aBilling EXCEPT ![n] = c]
        BY <2>3
      <3>2. \A m \in Node : m \notin aWrite.ids => aBilling'[m] = aBilling[m]
        BY <3>1 DEF NodesInv, AdminTypeOK
      <3>3. \A row \in aRows : row.id \in Node
        BY DEF NodesInv, AdminTypeOK, Row
      <3> QED BY <1>1, <1>3, <2>1, <2>3, <3>2, <3>3 DEF BillingRight
    <2>4. \/ UNCHANGED aBilling
          \/ aWrite' = [aWrite EXCEPT !.pc = "saved"]
             /\ \E n \in aWrite.ids, c \in aWrite.billing :
                  aBilling' = [aBilling EXCEPT ![n] = c]
      BY DEF ConfigSettles, Goes
    <2>5. aWrite' = [aWrite EXCEPT !.pc = "saved"] => pc = "saved"
      BY <1>1, <1>3 DEF Writes
    <2> QED BY <2>2, <2>3, <2>4, <2>5
  <1> QED BY <1>4, <1>5 DEF TableInv

\* What the patch makes of a row, for each operation.
LEMMA SucceedsKeeps ==
  ASSUME NodesInv, TableInv, Succeeds PROVE TableInv'
  <1> DEFINE ids == aWrite.ids
  <1>1. /\ Finished /\ aRows' = Patched(aRows) /\ aWrite' = NoWrite
        /\ UNCHANGED <<aDb, aBilling, aCurrent>>
        /\ aUnsaved' = {n \in Node : IF Edits /\ n \in ids THEN aWrite.pc = "unsaved"
                                     ELSE n \in aUnsaved}
    BY DEF Succeeds, serverVars
  <1>2. /\ aDb \in [Node -> -1..MaxInfo] /\ aRows \subseteq Row /\ ids \subseteq Node
        /\ aWrite \in Writes /\ WriteInv /\ BillingRight /\ aUnsaved \subseteq Node
        /\ aWrite.pc \in {"served", "saved", "unsaved"}
    BY <1>1 DEF NodesInv, AdminTypeOK, Writes, TableInv, Finished
  <1>3. \A row \in aRows : row.id \in Node
    BY <1>2 DEF Row
  <1>4. aCurrent => RowsRight /\ RowsWhole /\ RowsAwait
    BY <1>2 DEF TableInv
  <1>5. \A n : /\ AnswerRow(n).id = n /\ AnswerRow(n).info = aDb[n]
               /\ AnswerRow(n).billing = IF aWrite.op = "billing" THEN aWrite.billing
                                         ELSE {aBilling[n]}
    BY DEF AnswerRow
  <1> SUFFICES /\ \A row \in aRows' : \/ row.id \in aUnsaved'
                                      \/ row.billing \subseteq {aBilling[row.id]}
               /\ aCurrent =>
                    /\ \A row \in aRows' : aDb[row.id] > 0 /\ row.info = aDb[row.id]
                    /\ \A n \in Node : aDb[n] <= 0 \/ n \in Ids(aRows')
    BY <1>1 DEF TableInv, RowsRight, RowsWhole, RowsAwait, BillingRight, NoWrite, Ids
  <1>6. CASE aWrite.op = "create"
    <2>1. /\ aRows' = aRows \union {AnswerRow(n) : n \in ids} /\ ~Edits
          /\ aUnsaved' = aUnsaved /\ aWrite.pc # "saved"
      BY <1>1, <1>2, <1>6 DEF Patched, Edits, WriteInv
    <2>2. \A row \in aRows' : row.id \in aUnsaved' \/ row.billing \subseteq {aBilling[row.id]}
      BY <1>2, <1>5, <1>6, <2>1 DEF BillingRight
    <2>3. \A n \in ids : aDb[n] > 0
      BY <1>2, <1>6 DEF WriteInv
    <2>4. ASSUME aCurrent, NEW row \in aRows' PROVE aDb[row.id] > 0 /\ row.info = aDb[row.id]
      BY <1>4, <1>5, <1>6, <2>1, <2>3, <2>4 DEF RowsRight, RowsAwait
    <2>5. ASSUME aCurrent, NEW n \in Node PROVE aDb[n] <= 0 \/ n \in Ids(aRows')
      <3>1. CASE n \in ids
        BY <1>5, <2>1, <3>1 DEF Ids
      <3>2. CASE n \notin ids
        BY <1>4, <2>1, <2>5, <3>2 DEF RowsWhole, Ids
      <3> QED BY <3>1, <3>2
    <2> QED BY <2>2, <2>4, <2>5
  <1>7. CASE Edits
    <2>1. /\ aRows' = {IF row.id \in ids THEN AnswerRow(row.id) ELSE row : row \in aRows}
          /\ aWrite.op \in {"info", "billing"}
      BY <1>1, <1>7 DEF Patched, Edits
    <2>2. ASSUME NEW x \in aRows'
          PROVE  \/ x.id \in ids /\ x = AnswerRow(x.id)
                 \/ x.id \notin ids /\ x \in aRows
      <3>1. PICK row \in aRows : x = IF row.id \in ids THEN AnswerRow(row.id) ELSE row
        BY <2>1
      <3> QED BY <1>5, <3>1
    <2>3. ASSUME NEW x \in aRows'
          PROVE  x.id \in aUnsaved' \/ x.billing \subseteq {aBilling[x.id]}
      <3>1. CASE x.id \notin ids /\ x \in aRows
        BY <1>1, <1>2, <1>3, <3>1 DEF BillingRight
      <3>2. CASE x.id \in ids /\ x = AnswerRow(x.id) /\ aWrite.pc = "unsaved"
        BY <1>1, <1>2, <1>7, <3>2
      <3>3. CASE x.id \in ids /\ x = AnswerRow(x.id) /\ aWrite.pc # "unsaved"
        <4>1. CASE aWrite.op = "info"
          BY <1>5, <3>3, <4>1
        <4>2. CASE aWrite.op = "billing"
          <5>1. aWrite.pc = "saved"
            BY <1>1, <3>3, <4>2 DEF Finished
          <5>2. aWrite.billing = {aBilling[x.id]}
            BY <1>2, <3>3, <5>1 DEF WriteInv
          <5>3. x.billing = aWrite.billing
            BY <1>5, <3>3, <4>2
          <5> QED BY <5>2, <5>3
        <4> QED BY <2>1, <4>1, <4>2
      <3> QED BY <2>2, <2>3, <3>1, <3>2, <3>3
    <2>4. \A n \in ids : aDb[n] > 0
      BY <1>2, <2>1 DEF WriteInv
    <2>5. ASSUME aCurrent, NEW x \in aRows' PROVE aDb[x.id] > 0 /\ x.info = aDb[x.id]
      BY <1>4, <1>5, <2>2, <2>4, <2>5 DEF RowsRight
    <2>6. ASSUME aCurrent, NEW n \in Node, aDb[n] > 0 PROVE n \in Ids(aRows')
      <3>1. n \in Ids(aRows)
        BY <1>2, <1>4, <2>1, <2>6, AdminAssumption DEF RowsWhole, RowsAwait
      <3>2. PICK row \in aRows : row.id = n
        BY <3>1 DEF Ids
      <3>3. /\ (IF row.id \in ids THEN AnswerRow(row.id) ELSE row) \in aRows'
            /\ (IF row.id \in ids THEN AnswerRow(row.id) ELSE row).id = n
        BY <1>5, <2>1, <3>2
      <3> QED BY <3>3 DEF Ids
    <2> QED BY <1>2, <2>3, <2>5, <2>6, AdminAssumption
  <1>8. CASE aWrite.op # "create" /\ ~Edits
    <2>1. /\ aRows' = {row \in aRows : row.id \notin ids}
          /\ aUnsaved' = aUnsaved /\ aWrite.pc = "served"
      BY <1>1, <1>2, <1>8 DEF Patched, Edits, WriteInv
    <2>2. \A n \in ids : aDb[n] = -1
      <3>1. aWrite.op \in {"none", "delete", "bulk"}
        BY <1>2, <1>8 DEF Edits, Writes
      <3> QED BY <1>2, <2>1, <3>1 DEF WriteInv
    <2>3. \A row \in aRows' : row.id \in aUnsaved' \/ row.billing \subseteq {aBilling[row.id]}
      BY <1>2, <2>1 DEF BillingRight
    <2>4. ASSUME aCurrent PROVE \A row \in aRows' : aDb[row.id] > 0 /\ row.info = aDb[row.id]
      BY <1>4, <2>1, <2>4 DEF RowsRight
    <2>5. ASSUME aCurrent, NEW n \in Node, n \in ids PROVE aDb[n] <= 0
      BY <2>2, <2>5
    <2>6. ASSUME aCurrent, NEW n \in Node, n \notin ids, ~(aDb[n] <= 0)
          PROVE  n \in Ids(aRows')
      <3>1. PICK row \in aRows : row.id = n
        BY <1>4, <2>6 DEF RowsWhole, Ids
      <3> QED BY <2>1, <2>6, <3>1 DEF Ids
    <2> QED BY <2>3, <2>4, <2>5, <2>6
  <1> QED BY <1>6, <1>7, <1>8

\* What leaves the table and the nodes alone, and says no more of the operation.
LEMMA TableKept ==
  ASSUME TableInv, UNCHANGED <<aDb, aBilling, aRows, aUnsaved>>,
         \/ UNCHANGED <<aWrite, aCurrent>>
         \/ aWrite'.pc # "lost" /\ aWrite'.op \notin {"create", "info", "billing"}
            /\ UNCHANGED aCurrent /\ aWrite.ids \subseteq aWrite'.ids
            /\ aWrite.pc \notin {"saved", "lost"}
         \/ ~aCurrent' /\ aWrite.pc # "saved"
         \/ aWrite'.pc = "lost" /\ aWrite.pc # "saved"
  PROVE  TableInv'
  BY DEF TableInv, RowsRight, RowsWhole, RowsAwait, BillingRight, Ids

LEMMA TableStep == NodesInv /\ TableInv /\ [AdminStep]_adminVars => TableInv'
  <1> SUFFICES ASSUME NodesInv, TableInv, [AdminStep]_adminVars PROVE TableInv'
    OBVIOUS
  <1> USE DEF tableVars, serverVars
  <1>0. /\ aDb \in [Node -> -1..MaxInfo] /\ MaxInfo \in Nat \ {0}
        /\ aWrite \in Writes /\ WriteInv
    BY AdminAssumption DEF NodesInv, AdminTypeOK, Writes
  <1>1. CASE BootSettles \/ ShowPanel \/ OpenNodesTab
    BY <1>1, TableKept DEF BootSettles, ShowPanel, OpenNodesTab
  <1>2. CASE Logout
    BY <1>2 DEF Logout, TableInv, BillingRight
  <1>3. ASSUME NEW r \in Reload, ReloadSettles(r) PROVE TableInv'
    BY <1>3, ReloadSettlesKeeps
  <1>4. ASSUME NEW r \in Reload, ListServers(r) \/ StoreList(r) PROVE TableInv'
    BY <1>4, TableKept DEF ListServers, StoreList
  <1>5. CASE CacheRemoved
    BY <1>5, TableKept DEF CacheRemoved
  <1>6. ASSUME NEW n \in Node, Create(n) PROVE TableInv'
    BY <1>6, ServesKeeps DEF Create
  <1>7. ASSUME NEW n \in Node, SaveInfo(n) \/ SaveBilling(n) \/ Delete(n) PROVE TableInv'
    <2>1. aDb[n] > 0 /\ aDb[n] + 1 \in Int
      BY <1>0, <1>7 DEF SaveInfo, SaveBilling, Delete
    <2>2. CASE SaveInfo(n)
      BY <2>1, <2>2, ServesKeeps DEF SaveInfo
    <2>3. CASE SaveBilling(n)
      BY <2>1, <2>3, ServesKeeps DEF SaveBilling
    <2>4. CASE Delete(n)
      BY <2>1, <2>4, ServesKeeps DEF Delete
    <2> QED BY <1>7, <2>2, <2>3, <2>4
  <1>8. CASE DeleteSelected \/ Refused
    <2>1. aWrite = NoWrite /\ UNCHANGED <<aDb, aBilling, aRows, aCurrent, aUnsaved>>
      BY <1>8 DEF DeleteSelected, Refused, Idle
    <2>2. aWrite'.pc # "lost" /\ aWrite'.op \notin {"create", "info", "billing"}
      BY <1>8 DEF DeleteSelected, Refused, NoWrite
    <2> QED BY <2>1, <2>2, TableKept DEF NoWrite
  <1>9. ASSUME NEW n \in Node, BulkDeletes(n) PROVE TableInv'
    BY <1>9, BulkDeletesKeeps
  <1>10. CASE BulkEnds
    <2>1. aWrite.pc = "bulk" /\ UNCHANGED <<aDb, aBilling, aRows, aCurrent, aUnsaved>>
      BY <1>10 DEF BulkEnds, Goes, Loses
    <2>2. CASE aWrite' = [aWrite EXCEPT !.pc = "served"]
      <3>1. aWrite'.pc = "served" /\ aWrite'.op = "bulk" /\ aWrite'.ids = aWrite.ids
        BY <1>0, <2>1, <2>2 DEF WriteInv, Writes
      <3> QED BY <2>1, <3>1, TableKept
    <2>3. CASE aWrite' = [NoWrite EXCEPT !.pc = "lost"]
      BY <2>1, <2>3, TableKept DEF NoWrite
    <2> QED BY <1>10, <2>2, <2>3 DEF BulkEnds, Goes, Loses
  <1>11. CASE AnswerLost
    BY <1>11, TableKept DEF AnswerLost, Goes, Loses, NoWrite
  <1>12. CASE ConfigSettles
    BY <1>12, ConfigSettlesKeeps
  <1>13. CASE Succeeds
    BY <1>13, SucceedsKeeps
  <1>14. CASE Fails
    <2>1. /\ aWrite.pc \in {"refused", "lost"} /\ aWrite' = NoWrite
          /\ aCurrent' = (aCurrent /\ aWrite.pc = "refused")
          /\ UNCHANGED <<aDb, aBilling, aRows, aUnsaved>>
      BY <1>14 DEF Fails
    <2>2. aWrite.ids = {}
      BY <1>0, <2>1 DEF WriteInv
    <2>3. CASE aWrite.pc = "refused" /\ aCurrent
      BY <2>1, <2>2, <2>3, TableKept DEF NoWrite
    <2>4. CASE ~(aWrite.pc = "refused" /\ aCurrent)
      BY <2>1, <2>4, TableKept
    <2> QED BY <2>3, <2>4
  <1>15. CASE UNCHANGED adminVars
    BY <1>15, TableKept DEF adminVars
  <1> QED
    BY <1>1, <1>2, <1>3, <1>4, <1>5, <1>6, <1>7, <1>8, <1>9, <1>10, <1>11, <1>12, <1>13,
       <1>14, <1>15 DEF AdminStep, BulkGoesOn

LEMMA TableInvImplies ==
  ASSUME NodesInv, TableInv PROVE TableAsServer
  <1> SUFFICES ASSUME aWrite = NoWrite PROVE
        /\ aCurrent => Listed(aRows) = ListOf(aDb)
        /\ \A row \in aRows : row.id \in aUnsaved \/ row.billing \subseteq {aBilling[row.id]}
    BY DEF TableAsServer
  <1>1. \A row \in aRows : row.id \in aUnsaved \/ row.billing \subseteq {aBilling[row.id]}
    BY DEF TableInv, BillingRight, NoWrite
  <1>2. ASSUME aCurrent PROVE Listed(aRows) = ListOf(aDb)
    <2>1. \A row \in aRows : aDb[row.id] > 0 /\ row.info = aDb[row.id]
      BY <1>2 DEF TableInv, RowsRight, NoWrite
    <2>2. \A n \in Node : aDb[n] <= 0 \/ n \in Ids(aRows)
      BY <1>2 DEF TableInv, RowsWhole, NoWrite
    <2>3. aRows \subseteq Row /\ aDb \in [Node -> -1..MaxInfo] /\ MaxInfo \in Nat
      BY AdminAssumption DEF NodesInv, AdminTypeOK
    <2>4. ASSUME NEW row \in aRows
          PROVE  [row EXCEPT !.billing = {}] = [id |-> row.id, info |-> aDb[row.id], billing |-> {}]
      BY <2>1, <2>3, <2>4 DEF Row
    <2>5. ASSUME NEW row \in aRows PROVE [row EXCEPT !.billing = {}] \in ListOf(aDb)
      <3>1. row.id \in Node /\ aDb[row.id] > 0
        BY <2>1, <2>3 DEF Row
      <3> QED BY <2>4, <3>1, InList
    <2>6. ASSUME NEW x \in ListOf(aDb) PROVE x \in Listed(aRows)
      <3>1. PICK n \in Node : aDb[n] > 0 /\ x = [id |-> n, info |-> aDb[n], billing |-> {}]
        BY InList
      <3>2. n \in Ids(aRows)
        BY <2>2, <2>3, <3>1
      <3>3. PICK row \in aRows : row.id = n
        BY <3>2 DEF Ids
      <3> QED BY <2>4, <3>1, <3>3 DEF Listed
    <2> QED BY <2>5, <2>6 DEF Listed
  <1> QED BY <1>1, <1>2

\* Between two operations the table is the server's list, unless an answer was lost
\* or the last list that came was read, from Redis or the database, before a change
\* that was made before it came; and a row's configuration is the server's, except
\* after a save of it that failed and was not noticed.
THEOREM TableCorrect == AdminSpec => []TableAsServer
  BY TableInvImplies, TableInit, TableStep, NodesInit, NodesStep, PTL DEF AdminSpec

-----------------------------------------------------------------------------
(* The settings.                                                            *)

Typed == Secret \union {"blank"}
Stored ==
  [token : Typed, key : Typed, sso : [Provider -> Number],
   channels : [Channel -> Config], default : Channel, site : Number, look : Number,
   general : Number, path : Number]
Held ==
  [key : {"blank", "masked"}, sso : [Provider -> Number],
   channels : [Channel -> Config \ Secret], channel : Channel, default : Channel,
   site : Number]

\* The secrets that were typed, and what the server's have to do with them.
TypedSecrets == [token : Typed, key : Typed, channels : [Channel -> Typed]]
AsTyped(stored, typed) ==
  /\ stored.token = typed.token /\ stored.key = typed.key
  /\ \A c \in Channel : stored.channels[c] \in Secret => stored.channels[c] = typed.channels[c]

\* What the buttons send.  No token and no key is a mask or an empty field.
Notification == [channels : [Channel -> Config], default : Channel]
WithKey == [sso : [Provider -> Number], key : Secret \union {"edited"}]
Payload ==
  {<<>>} \union [site : Number] \union [general : Number] \union [path : Number]
    \union [site : Number, look : Number] \union [token : Secret, path : Number]
    \union [sso : [Provider -> Number]] \union WithKey
    \union Notification \union [channels : [Channel -> Config]]

SettingsAsk ==
  [op : {"none", "load", "theme", "put", "login", "notify"},
   pc : {"none", "sent", "read", "answered"}, payload : Payload,
   data : {<<>>} \union Stored]

IsSettingsAsk(ask) ==
  /\ ask \in SettingsAsk
  /\ ask.pc \in {"read", "answered"} => ask.data \in Stored
  /\ ask.pc = "read" => ask.payload # <<>>
  /\ ask.op = "notify" => ask.payload \in Notification

SettingsInv ==
  /\ tStored \in Stored /\ tHeld \in Held /\ tSent \in 0..MaxSent
  /\ DOMAIN tAsked = Slot /\ tAsked = [q \in Slot |-> tAsked[q]]
  /\ \A q \in Slot : IsSettingsAsk(tAsked[q])
  /\ tTyped \in TypedSecrets /\ tRaced \in BOOLEAN
  /\ ~tRaced => AsTyped(tStored, tTyped)

LEMMA SecretsApart == "blank" \notin Secret /\ "masked" \notin Secret /\ "edited" \notin Secret
                        /\ "draft" \notin Secret /\ "absent" \notin Secret
  BY SettingsAssumption

LEMMA HiddenType ==
  /\ \A secret \in Typed : Hidden(secret) \in {"blank", "masked"}
  /\ \A config \in Config : Hidden(config) \in Config \ Secret
  BY SecretsApart DEF Typed, Hidden, Config

LEMMA NoRequestAsk == IsSettingsAsk(NoRequest)
  <1>1. <<>> \in Payload
    BY DEF Payload
  <1> QED BY <1>1 DEF IsSettingsAsk, SettingsAsk, NoRequest

\* What the server takes from a request, and makes of it.
LEMMA TakenSaved ==
  ASSUME NEW payload \in Payload, payload # <<>>, NEW data \in Stored
  PROVE  LET taken == Taken(payload)
             saved == Merged(taken, data)
         IN  /\ saved \in Stored
             /\ \/ "token" \in DOMAIN taken /\ taken.token \in Secret /\ saved.token = taken.token
                \/ "token" \notin DOMAIN taken /\ saved.token = data.token
             /\ \/ "key" \in DOMAIN taken /\ taken.key \in Secret /\ saved.key = taken.key
                \/ "key" \notin DOMAIN taken /\ saved.key = data.key
             /\ \/ "channels" \in DOMAIN taken /\ saved.channels = taken.channels
                \/ "channels" \notin DOMAIN taken /\ saved.channels = data.channels
  <1> USE DEF Stored, Typed, Merged
  <1>1. CASE payload \in [site : Number]
    BY <1>1 DEF Taken
  <1>2. CASE payload \in [general : Number]
    BY <1>2 DEF Taken
  <1>3. CASE payload \in [path : Number]
    BY <1>3 DEF Taken
  <1>4. CASE payload \in [site : Number, look : Number]
    BY <1>4 DEF Taken
  <1>5. CASE payload \in [token : Secret, path : Number]
    BY <1>5 DEF Taken
  <1>6. CASE payload \in [sso : [Provider -> Number]]
    BY <1>6 DEF Taken
  <1>7. CASE payload \in WithKey /\ payload.key = "edited"
    BY <1>7 DEF Taken, WithKey
  <1>8. CASE payload \in WithKey /\ payload.key # "edited"
    BY <1>8 DEF Taken, WithKey
  <1>9. CASE payload \in Notification
    BY <1>9 DEF Taken, Notification
  <1>10. CASE payload \in [channels : [Channel -> Config]]
    BY <1>10 DEF Taken
  <1> QED BY <1>1, <1>2, <1>3, <1>4, <1>5, <1>6, <1>7, <1>8, <1>9, <1>10 DEF Payload

LEMMA SettingsInvInit == SettingsInit => SettingsInv
  <1> SUFFICES ASSUME SettingsInit PROVE SettingsInv
    OBVIOUS
  <1>1. (CHOOSE c \in Channel : TRUE) \in Channel
    BY SettingsAssumption
  <1>2. tStored \in Stored
    BY <1>1 DEF SettingsInit, Stored, Typed, Config, Number
  <1>3. tHeld \in Held
    BY <1>1, SecretsApart DEF SettingsInit, Held, Config, Number
  <1>4. tSent \in 0..MaxSent
    BY SettingsAssumption DEF SettingsInit
  <1>5. DOMAIN tAsked = Slot /\ tAsked = [q \in Slot |-> tAsked[q]]
          /\ \A q \in Slot : IsSettingsAsk(tAsked[q])
    BY NoRequestAsk DEF SettingsInit
  <1>6. tTyped \in TypedSecrets /\ tRaced = FALSE /\ AsTyped(tStored, tTyped)
    BY SecretsApart DEF SettingsInit, TypedSecrets, Typed, AsTyped
  <1> QED BY <1>2, <1>3, <1>4, <1>5, <1>6 DEF SettingsInv

LEMMA AskChanges ==
  ASSUME SettingsInv, NEW q \in Slot, NEW ask, IsSettingsAsk(ask), tAsked' = [tAsked EXCEPT ![q] = ask]
  PROVE  /\ DOMAIN tAsked' = Slot /\ tAsked' = [r \in Slot |-> tAsked'[r]]
         /\ \A r \in Slot : IsSettingsAsk(tAsked'[r])
  BY DEF SettingsInv

LEMMA SendKeeps ==
  ASSUME SettingsInv, NEW op \in {"load", "theme", "put", "login", "notify"},
         NEW payload \in Payload, op = "notify" => payload \in Notification,
         Send(op, payload)
  PROVE  SettingsInv'
  <1> DEFINE ask == [op |-> op, pc |-> "sent", payload |-> payload, data |-> <<>>]
             free == CHOOSE q \in Slot : tAsked[q] = NoRequest
  <1>1. /\ \E q \in Slot : tAsked[q] = NoRequest
        /\ tSent < MaxSent /\ tSent' = tSent + 1
        /\ tAsked' = [tAsked EXCEPT ![free] = ask]
        /\ UNCHANGED <<tStored, tHeld, tTyped, tRaced>>
    BY DEF Send
  <1>2. free \in Slot
    BY <1>1
  <1>3. IsSettingsAsk(ask)
    BY DEF IsSettingsAsk, SettingsAsk
  <1>4. tSent' \in 0..MaxSent
    BY <1>1, SettingsAssumption DEF SettingsInv
  <1> HIDE DEF ask, free
  <1> QED BY <1>1, <1>2, <1>3, <1>4, AskChanges DEF SettingsInv

LEMMA HeldChanges ==
  ASSUME SettingsInv, tHeld' \in Held, UNCHANGED <<tStored, tSent, tAsked, tTyped, tRaced>>
  PROVE  SettingsInv'
  BY DEF SettingsInv

\* What the panel sends.
LEMMA ButtonsKeep ==
  ASSUME SettingsInv,
         \/ LoadSettings \/ LoadTheme \/ RefreshCloudflare
         \/ \E number \in Number : SaveSite(number) \/ SaveGeneral(number) \/ SaveTheme(number)
         \/ \E typed \in Secret \union {"blank"} : SaveCloudflare(typed)
  PROVE  SettingsInv'
  <1>0. tHeld \in Held
    BY DEF SettingsInv
  <1>1. CASE LoadSettings \/ LoadTheme \/ RefreshCloudflare
    <2>1. <<>> \in Payload
      BY DEF Payload
    <2> QED BY <1>1, <2>1, SendKeeps DEF LoadSettings, LoadTheme, RefreshCloudflare
  <1>2. ASSUME NEW number \in Number, SaveSite(number) PROVE SettingsInv'
    <2>1. [site |-> number] \in Payload
      BY DEF Payload
    <2> QED BY <1>2, <2>1, SendKeeps DEF SaveSite
  <1>3. ASSUME NEW number \in Number, SaveGeneral(number) PROVE SettingsInv'
    <2>1. [general |-> number] \in Payload
      BY DEF Payload
    <2> QED BY <1>3, <2>1, SendKeeps DEF SaveGeneral
  <1>4. ASSUME NEW number \in Number, SaveTheme(number) PROVE SettingsInv'
    <2>1. [site |-> tHeld.site, look |-> number] \in Payload
      BY <1>0 DEF Payload, Held
    <2> QED BY <1>4, <2>1, SendKeeps DEF SaveTheme
  <1>5. ASSUME NEW typed \in Secret \union {"blank"}, SaveCloudflare(typed) PROVE SettingsInv'
    <2>1. [path |-> 0] \in Payload /\ (typed # "blank" => [token |-> typed, path |-> 0] \in Payload)
      BY DEF Payload, Number
    <2> QED BY <1>5, <2>1, SendKeeps DEF SaveCloudflare
  <1> QED BY <1>1, <1>2, <1>3, <1>4, <1>5

LEMMA LoginKeeps ==
  ASSUME SettingsInv, NEW typed \in Secret \union {"blank", tHeld.key} \union {"edited"},
         NEW p \in Provider, NEW number \in Number, SaveLogin(typed, p, number)
  PROVE  SettingsInv'
  <1> DEFINE sso == [tHeld.sso EXCEPT ![p] = number]
  <1>1. sso \in [Provider -> Number]
    BY DEF SettingsInv, Held
  <1>2. Send("login", IF typed \in {"blank", tHeld.key} THEN [sso |-> sso]
                      ELSE [sso |-> sso, key |-> typed])
    BY DEF SaveLogin
  <1> HIDE DEF sso
  <1>3. /\ [sso |-> sso] \in Payload
        /\ typed \notin {"blank", tHeld.key} => [sso |-> sso, key |-> typed] \in Payload
    BY <1>1 DEF Payload, WithKey
  <1> QED BY <1>2, <1>3, SendKeeps

LEMMA ChannelsKeep ==
  ASSUME SettingsInv, NEW c \in Channel, AddChannel(c) \/ SelectChannel(c) \/ DeleteChannel(c)
  PROVE  SettingsInv'
  <1>0. tHeld \in Held
    BY DEF SettingsInv
  <1>1. CASE AddChannel(c)
    <2> DEFINE new == IF tHeld.channels[c] = "absent" THEN "draft" ELSE tHeld.channels[c]
               channels == [tHeld.channels EXCEPT ![c] = new]
    <2>1. new \in Config \ Secret
      BY <1>0, SecretsApart DEF Held, Config
    <2>2. channels \in [Channel -> Config \ Secret]
      BY <1>0, <2>1 DEF Held
    <2>3. tHeld' = [tHeld EXCEPT !.channel = c, !.channels = channels]
            /\ UNCHANGED <<tStored, tSent, tAsked, tTyped, tRaced>>
      BY <1>0, <1>1 DEF AddChannel, Held
    <2> HIDE DEF channels
    <2>4. tHeld' \in Held
      BY <1>0, <2>2, <2>3 DEF Held
    <2> QED BY <2>3, <2>4, HeldChanges
  <1>2. CASE SelectChannel(c)
    <2>1. tHeld' \in Held
      BY <1>0, <1>2 DEF SelectChannel, Held
    <2> QED BY <1>2, <2>1, HeldChanges DEF SelectChannel
  <1>3. CASE DeleteChannel(c)
    <2> DEFINE left == {d \in Channel \ {c} : tHeld.channels[d] # "absent"}
               channels == [tHeld.channels EXCEPT ![c] = "absent"]
    <2>1. PICK next \in IF left = {} THEN {CHOOSE d \in Channel : TRUE} ELSE left :
            Send("notify", [channels |-> channels, default |-> next])
      BY <1>3 DEF DeleteChannel
    <2>2. next \in Channel
      BY <2>1
    <2>3. channels \in [Channel -> Config]
      BY <1>0 DEF Held, Config
    <2> HIDE DEF channels
    <2>4. [channels |-> channels, default |-> next] \in Notification
      BY <2>2, <2>3 DEF Notification
    <2> QED BY <2>1, <2>4, SendKeeps DEF Payload
  <1> QED BY <1>1, <1>2, <1>3

LEMMA NotifyKeeps ==
  ASSUME SettingsInv, NEW typed \in Config, SaveNotify(typed) PROVE SettingsInv'
  <1> DEFINE channels == [tHeld.channels EXCEPT ![tHeld.channel] = typed]
             payload == [channels |-> channels, default |-> tHeld.channel]
  <1>1. channels \in [Channel -> Config] /\ tHeld.channel \in Channel
    BY DEF SettingsInv, Held
  <1> HIDE DEF channels
  <1>2. payload \in Notification /\ payload \in Payload
    BY <1>1 DEF Payload, Notification
  <1>3. Send("notify", payload)
    BY DEF SaveNotify, channels
  <1> HIDE DEF payload
  <1> QED BY <1>2, <1>3, SendKeeps

LEMMA RestoreKeeps ==
  ASSUME SettingsInv, NEW number \in Number, NEW config \in {"absent", "masked"},
         RestoreBackup(number, [c \in Channel |-> config])
  PROVE  SettingsInv'
  <1> DEFINE channels == Redacted([c \in Channel |-> config])
  <1>1. channels \in [Channel -> Config]
    BY HiddenType DEF Redacted, Config
  <1> HIDE DEF channels
  <1>2. /\ [channels |-> channels] \in Payload /\ [site |-> number, look |-> number] \in Payload
        /\ [general |-> number] \in Payload /\ [path |-> number] \in Payload
        /\ [sso |-> [p \in Provider |-> number]] \in Payload
    BY <1>1 DEF Payload
  <1> QED BY <1>2, SendKeeps DEF RestoreBackup, channels

LEMMA ServerReadsKeeps ==
  ASSUME SettingsInv, NEW q \in Slot, ServerReads(q) PROVE SettingsInv'
  <1> DEFINE ask == tAsked[q]
             pc == IF ask.payload = <<>> THEN "answered" ELSE "read"
             answer == [ask EXCEPT !.data = tStored, !.pc = pc]
  <1>1. IsSettingsAsk(ask) /\ tStored \in Stored
    BY DEF SettingsInv
  <1>2. IsSettingsAsk(answer)
    BY <1>1 DEF IsSettingsAsk, SettingsAsk
  <1>3. tAsked' = [tAsked EXCEPT ![q] = answer]
    BY DEF ServerReads, SettingsInv
  <1> HIDE DEF answer
  <1> QED BY <1>2, <1>3, AskChanges DEF ServerReads, SettingsInv

\* The file is written whole, from the reading: the secrets that were typed last
\* stay in it if it is still what was read.
LEMMA ServerWritesKeeps ==
  ASSUME SettingsInv, NEW q \in Slot, ServerWrites(q) PROVE SettingsInv'
  <1> DEFINE ask == tAsked[q]
             taken == Taken(ask.payload)
             saved == Merged(taken, ask.data)
             last(name) == IF name \in DOMAIN taken /\ taken[name] # "blank" THEN taken[name]
                           ELSE tTyped[name]
             channel(c) == IF "channels" \in DOMAIN taken /\ taken.channels[c] \in Secret
                           THEN taken.channels[c] ELSE tTyped.channels[c]
             typed == [token |-> last("token"), key |-> last("key"),
                       channels |-> [c \in Channel |-> channel(c)]]
             answer == [ask EXCEPT !.pc = "answered", !.data = saved]
  <1>1. IsSettingsAsk(ask) /\ ask.pc = "read" /\ ask.payload # <<>> /\ ask.payload \in Payload
          /\ ask.data \in Stored
    BY DEF ServerWrites, SettingsInv, IsSettingsAsk, SettingsAsk
  <1>2. /\ saved \in Stored
        /\ \/ "token" \in DOMAIN taken /\ taken.token \in Secret /\ saved.token = taken.token
           \/ "token" \notin DOMAIN taken /\ saved.token = ask.data.token
        /\ \/ "key" \in DOMAIN taken /\ taken.key \in Secret /\ saved.key = taken.key
           \/ "key" \notin DOMAIN taken /\ saved.key = ask.data.key
        /\ \/ "channels" \in DOMAIN taken /\ saved.channels = taken.channels
           \/ "channels" \notin DOMAIN taken /\ saved.channels = ask.data.channels
    BY <1>1, TakenSaved
  <1>3. /\ tAsked' = IF ask.op = "put" THEN [tAsked EXCEPT ![q] = NoRequest]
                     ELSE [tAsked EXCEPT ![q].pc = "answered", ![q].data = saved]
        /\ tStored' = saved /\ tTyped' = typed
        /\ tRaced' = (tRaced \/ ask.data # tStored) /\ UNCHANGED <<tHeld, tSent>>
    BY DEF ServerWrites
  <1> HIDE DEF taken, saved
  <1>4. IsSettingsAsk(answer)
    BY <1>1, <1>2 DEF IsSettingsAsk, SettingsAsk
  <1>5. tAsked' = [tAsked EXCEPT ![q] = NoRequest] \/ tAsked' = [tAsked EXCEPT ![q] = answer]
    BY <1>3 DEF SettingsInv
  <1> HIDE DEF answer
  <1>6. DOMAIN tAsked' = Slot /\ tAsked' = [r \in Slot |-> tAsked'[r]]
          /\ \A r \in Slot : IsSettingsAsk(tAsked'[r])
    BY <1>4, <1>5, AskChanges, NoRequestAsk
  <1>7. tTyped \in TypedSecrets /\ tStored \in Stored /\ (~tRaced => AsTyped(tStored, tTyped))
    BY DEF SettingsInv
  <1>8. last("token") \in Typed /\ last("key") \in Typed
    BY <1>2, <1>7 DEF Typed, TypedSecrets
  <1>9. \A c \in Channel : channel(c) \in Typed
    BY <1>7 DEF Typed, TypedSecrets
  <1>10. typed \in TypedSecrets
    BY <1>8, <1>9 DEF TypedSecrets
  <1>11. ASSUME ~tRaced, ask.data = tStored PROVE AsTyped(saved, typed)
    <2>1. AsTyped(tStored, tTyped)
      BY <1>7, <1>11
    <2>2. saved.token = last("token") /\ saved.key = last("key")
      BY <2>1, <1>2, <1>11, SecretsApart DEF AsTyped
    <2>3. \A c \in Channel : saved.channels[c] \in Secret => saved.channels[c] = channel(c)
      BY <2>1, <1>2, <1>11 DEF AsTyped
    <2> HIDE DEF last, channel
    <2> QED BY <2>2, <2>3 DEF AsTyped
  <1> HIDE DEF typed
  <1>12. tRaced' \in BOOLEAN /\ (~tRaced' => ~tRaced /\ ask.data = tStored)
    BY <1>3, Zenon DEF SettingsInv
  <1>13. tStored' \in Stored /\ tHeld' \in Held /\ tSent' \in 0..MaxSent
    BY <1>2, <1>3 DEF SettingsInv
  <1>14. tTyped' \in TypedSecrets /\ (~tRaced' => AsTyped(tStored', tTyped'))
    BY <1>3, <1>10, <1>11, <1>12
  <1> QED BY <1>6, <1>12, <1>13, <1>14 DEF SettingsInv, AsTyped

\* What is filled from an answer has masks for the secrets in it.
LEMMA FillsHeld ==
  ASSUME NEW held \in Held, NEW data \in Stored
  PROVE  /\ FillLogin(held, data) \in Held
         /\ FillNotify(held, data) \in Held
         /\ \A c \in Channel : [RefreshOptions(held, data) EXCEPT !.channel = c] \in Held
         /\ [held EXCEPT !.site = data.site] \in Held
  <1>1. Redacted(data.channels) \in [Channel -> Config \ Secret]
    BY HiddenType DEF Redacted, Stored
  <1>2. Hidden(data.key) \in {"blank", "masked"}
    BY HiddenType DEF Stored
  <1>3. FillLogin(held, data) \in Held
    BY <1>2 DEF FillLogin, Held, Stored
  <1>4. RefreshOptions(held, data) \in Held
    BY <1>1 DEF RefreshOptions, Held, Stored
  <1>5. \A c \in Channel : [RefreshOptions(held, data) EXCEPT !.channel = c] \in Held
    BY <1>4 DEF Held
  <1>6. FillNotify(held, data) \in Held
    BY <1>5 DEF FillNotify, Stored
  <1>7. [held EXCEPT !.site = data.site] \in Held
    BY DEF Held, Stored
  <1> QED BY <1>3, <1>5, <1>6, <1>7

LEMMA SettingsAnsweredKeeps ==
  ASSUME SettingsInv, NEW q \in Slot, SettingsAnswered(q) PROVE SettingsInv'
  <1> DEFINE ask == tAsked[q]
  <1>1. IsSettingsAsk(ask) /\ ask.data \in Stored /\ tHeld \in Held
    BY DEF SettingsAnswered, SettingsInv, IsSettingsAsk
  <1>2. ask.op = "notify" => ask.payload.default \in Channel
    BY <1>1 DEF IsSettingsAsk, Notification
  <1>3. tHeld' \in Held
    <2>1. CASE ask.op = "load"
      BY <2>1, <1>1, FillsHeld DEF SettingsAnswered
    <2>2. CASE ask.op = "login"
      BY <2>2, <1>1, FillsHeld DEF SettingsAnswered
    <2>3. CASE ask.op = "notify"
      BY <2>3, <1>1, <1>2, FillsHeld DEF SettingsAnswered
    <2>4. CASE ask.op \notin {"load", "login", "notify"}
      BY <2>4, <1>1, FillsHeld DEF SettingsAnswered
    <2> QED BY <2>1, <2>2, <2>3, <2>4
  <1>4. tAsked' = [tAsked EXCEPT ![q] = NoRequest] /\ UNCHANGED <<tStored, tSent, tTyped, tRaced>>
    BY DEF SettingsAnswered
  <1> QED BY <1>3, <1>4, AskChanges, NoRequestAsk DEF SettingsInv

LEMMA SettingsFailKeeps ==
  ASSUME SettingsInv, NEW q \in Slot, SettingsFail(q) PROVE SettingsInv'
  BY AskChanges, NoRequestAsk DEF SettingsInv, SettingsFail

LEMMA SettingsInvStep == SettingsInv /\ [SettingsStep]_settingsVars => SettingsInv'
  <1> SUFFICES ASSUME SettingsInv, [SettingsStep]_settingsVars PROVE SettingsInv'
    OBVIOUS
  <1>1. CASE UNCHANGED settingsVars
    BY <1>1 DEF settingsVars, SettingsInv
  <1>2. CASE SettingsStep
    BY <1>2, ButtonsKeep, LoginKeeps, ChannelsKeep, NotifyKeeps, RestoreKeeps,
       ServerReadsKeeps, ServerWritesKeeps, SettingsAnsweredKeeps, SettingsFailKeeps
       DEF SettingsStep
  <1> QED BY <1>1, <1>2

LEMMA SettingsInvImplies == SettingsInv => SettingsTypeOK /\ SecretsTyped
  <1> SUFFICES ASSUME SettingsInv PROVE SettingsTypeOK /\ SecretsTyped
    OBVIOUS
  <1>1. tStored \in Stored /\ tHeld \in Held /\ tSent \in 0..MaxSent
    BY DEF SettingsInv
  <1>2. SettingsTypeOK
    BY <1>1 DEF SettingsTypeOK, Stored, Held, Typed, Config
  <1>3. SecretsTyped
    BY <1>1, SecretsApart DEF SettingsInv, SecretsTyped, AsTyped, Stored, Held, Typed
  <1> QED BY <1>2, <1>3

-----------------------------------------------------------------------------
(* The alert rules.                                                         *)

ChainType ==
  [op : {"none", "load", "save", "toggle", "delete"},
   pc : {"idle", "config", "write", "fetch", "answered"}, id : {0} \union RuleId,
   rule : RuleType, alone : BOOLEAN, data : [RuleId -> RuleType]]

\* A target that the channel has.
Offers(form) ==
  \E i \in DOMAIN TargetsOf(form.channel) : TargetsOf(form.channel)[i] = form.to

\* A form, whichever channels there are.
FormType(channels) ==
  [editing : {0} \union RuleId, channel : channels, to : Target, server : {0, 1},
   on : BOOLEAN]
IsForm(form) == form \in FormType({form.channel}) /\ Offers(form)

\* A chain that is alone has no other beside it, so that what it read is what the
\* server still has when it comes.
RulesInv ==
  /\ vRules \in [RuleId -> RuleType] /\ vShown \in [RuleId -> RuleType]
  /\ vMade \in RuleId /\ vAsked \in 0..MaxChange
  /\ vChains \in [Chain -> ChainType] /\ vWhole \in BOOLEAN
  /\ IsForm(vForm)
  /\ \A c \in Chain : vChains[c].alone =>
       /\ \A d \in Chain \ {c} : vChains[d] = NoChain
       /\ vChains[c].pc = "answered" => vChains[c].data = vRules
  /\ Quiet /\ vWhole => vShown = vRules

LEMMA AlertBounds == MaxRule \in Nat \ {0} /\ MaxChange \in Nat
  BY AlertAssumption

LEMMA SomeTarget == \A c \in DOMAIN TargetsIn : 1 \in DOMAIN TargetsIn[c]
  BY AlertAssumption

LEMMA NoChainType == NoRule \in RuleType /\ NoChain \in ChainType
  BY DEF NoRule, RuleType, NoChain, ChainType

\* Whatever channel and target are asked for, the form has a target of its channel.
LEMMA ChooseOffers ==
  ASSUME NEW form, IsForm(form), NEW channel, NEW wanted
  PROVE  IsForm(Choose(form, channel, wanted))
  <1> DEFINE targets == TargetsOf(channel)
             to == IF \E i \in DOMAIN targets : targets[i] = wanted THEN wanted ELSE targets[1]
             new == [form EXCEPT !.channel = channel, !.to = to]
             both == {form.channel, channel}
  <1>1. 1 \in DOMAIN targets /\ \A i \in DOMAIN targets : targets[i] \in Target
    <2>1. CASE channel \in DOMAIN TargetsIn
      BY <2>1, SomeTarget DEF TargetsOf, Target
    <2>2. CASE channel \notin DOMAIN TargetsIn
      BY <2>2 DEF TargetsOf, Target
    <2> QED BY <2>1, <2>2
  <1>2. (\E i \in DOMAIN targets : targets[i] = to) /\ to \in Target
    BY <1>1
  <1>3. Choose(form, channel, wanted) = new
    BY DEF Choose
  <1> HIDE DEF targets, to
  <1>4. form \in FormType(both)
    BY DEF IsForm, FormType
  <1>5. new \in FormType(both) /\ new.channel = channel /\ new.to = to
    BY <1>2, <1>4 DEF FormType
  <1> HIDE DEF new
  <1>6. new \in FormType({new.channel})
    BY <1>5 DEF FormType
  <1>7. Offers(new)
    BY <1>2, <1>5 DEF Offers, targets
  <1> QED BY <1>3, <1>6, <1>7 DEF IsForm

LEMMA EmptyFormOffers == IsForm(EmptyForm)
  <1>1. /\ EmptyForm \in FormType({""}) /\ EmptyForm.channel = ""
        /\ EmptyForm.to = "default"
    BY DEF EmptyForm, FormType, Target
  <1>2. TargetsOf("") = <<"default">>
    BY AlertAssumption DEF TargetsOf
  <1>3. 1 \in DOMAIN TargetsOf("") /\ TargetsOf("")[1] = "default"
    <2> DEFINE list == <<"default">>
    <2>1. 1 \in DOMAIN list /\ list[1] = "default"
      OBVIOUS
    <2> HIDE DEF list
    <2>2. TargetsOf("") = list
      BY <1>2 DEF list
    <2> QED BY <2>1, <2>2
  <1> QED BY <1>1, <1>3 DEF IsForm, Offers

LEMMA RulesInit == AlertInit => RulesInv
  <1> SUFFICES ASSUME AlertInit PROVE RulesInv
    OBVIOUS
  <1>1. PICK to \in Target \ {"default"} :
          vRules = [r \in RuleId |-> IF r = 1 THEN [on |-> TRUE, to |-> to, server |-> 0]
                                     ELSE NoRule]
    BY DEF AlertInit
  <1>2. vRules \in [RuleId -> RuleType] /\ vShown \in [RuleId -> RuleType]
    BY <1>1, NoChainType DEF AlertInit, RuleType
  <1>3. vMade \in RuleId /\ vAsked \in 0..MaxChange
    BY AlertBounds DEF AlertInit, RuleId
  <1>4. vChains \in [Chain -> ChainType] /\ vWhole = FALSE /\ \A c \in Chain : ~vChains[c].alone
    BY NoChainType DEF AlertInit, NoChain
  <1>6. IsForm(vForm)
    BY EmptyFormOffers DEF AlertInit
  <1> QED BY <1>2, <1>3, <1>4, <1>6 DEF RulesInv

-----------------------------------------------------------------------------
(* The form alone.                                                          *)

Untouched == UNCHANGED <<vRules, vMade, vShown, vChains, vAsked, vWhole>>

LEMMA FormMoves ==
  ASSUME RulesInv, Untouched, IsForm(vForm') PROVE RulesInv'
  BY DEF RulesInv, Untouched, Quiet

LEMMA RulesType == RulesInv => \A r \in RuleId : vShown[r] \in RuleType /\ vRules[r] \in RuleType
  BY DEF RulesInv

LEMMA FormSteps ==
  ASSUME RulesInv,
         \/ PrefillRule \/ ResetRuleForm
         \/ \E i \in DOMAIN Channels : RenderRuleTargetOptions(Channels[i])
         \/ \E r \in RuleId : EditRule(r)
  PROVE  RulesInv'
  <1>0. IsForm(vForm)
    BY DEF RulesInv
  <1>1. CASE PrefillRule
    <2>1. Untouched /\ vForm' = [vForm EXCEPT !.server = 1]
      BY <1>1 DEF PrefillRule, Untouched
    <2>2. vForm' \in FormType({vForm.channel}) /\ vForm'.channel = vForm.channel
            /\ vForm'.to = vForm.to
      BY <1>0, <2>1 DEF IsForm, FormType
    <2>3. IsForm(vForm')
      BY <1>0, <2>2 DEF IsForm, Offers
    <2> QED BY <2>1, <2>3, FormMoves
  <1>2. CASE ResetRuleForm
    BY <1>2, EmptyFormOffers, FormMoves DEF ResetRuleForm, Untouched
  <1>3. CASE \E i \in DOMAIN Channels : RenderRuleTargetOptions(Channels[i])
    BY <1>0, <1>3, ChooseOffers, FormMoves DEF RenderRuleTargetOptions, Untouched
  <1>4. ASSUME NEW r \in RuleId, EditRule(r) PROVE RulesInv'
    <2> DEFINE form == [vForm EXCEPT !.editing = r, !.server = vShown[r].server,
                                     !.on = vShown[r].on]
    <2>1. Untouched /\ \E channel, wanted : vForm' = Choose(form, channel, wanted)
      BY <1>4 DEF EditRule, Untouched
    <2>2. vShown[r].server \in {0, 1} /\ vShown[r].on \in BOOLEAN
      BY RulesType DEF RuleType
    <2>3. form \in FormType({vForm.channel}) /\ form.channel = vForm.channel
            /\ form.to = vForm.to
      BY <1>0, <2>2 DEF IsForm, FormType
    <2> HIDE DEF form
    <2>4. IsForm(form)
      BY <1>0, <2>3 DEF IsForm, Offers
    <2> QED BY <2>1, <2>4, ChooseOffers, FormMoves
  <1> QED BY <1>1, <1>2, <1>3, <1>4

-----------------------------------------------------------------------------
(* The chains.                                                              *)

LEMMA StartKeeps ==
  ASSUME RulesInv, NEW op \in {"load", "save", "toggle", "delete"},
         NEW id \in {0} \union RuleId, NEW rule \in RuleType, NEW pc \in {"config", "write"},
         Start(op, id, rule, pc)
  PROVE  RulesInv'
  <1> DEFINE new == [NoChain EXCEPT !.op = op, !.pc = pc, !.id = id, !.rule = rule,
                                    !.alone = Quiet]
  <1>1. PICK c \in Chain :
          /\ vChains[c] = NoChain
          /\ vChains' = [d \in Chain |-> IF d = c THEN new
                                         ELSE [vChains[d] EXCEPT !.alone = FALSE]]
    BY DEF Start
  <1>2. UNCHANGED <<vRules, vMade, vShown, vForm, vWhole>> /\ vAsked' \in 0..MaxChange
    BY AlertBounds DEF Start, RulesInv
  <1>3. new \in ChainType /\ new.pc = pc /\ new.alone = Quiet
    BY NoChainType DEF ChainType, Quiet
  <1> HIDE DEF new
  <1>4. vChains' \in [Chain -> ChainType]
    <2>1. \A d \in Chain : [vChains[d] EXCEPT !.alone = FALSE] \in ChainType
      BY ZenonT(30) DEF RulesInv, ChainType
    <2> QED BY <1>1, <1>3, <2>1
  <1>5. ASSUME NEW d \in Chain, d # c
        PROVE  ~vChains'[d].alone /\ (Quiet => vChains'[d] = NoChain)
    <2>1. vChains'[d] = [vChains[d] EXCEPT !.alone = FALSE] /\ vChains[d] \in ChainType
      BY <1>1, <1>5 DEF RulesInv
    <2>2. ~vChains'[d].alone
      BY <2>1 DEF ChainType
    <2>3. [NoChain EXCEPT !.alone = FALSE] = NoChain
      <3>1. NoChain \in ChainType /\ NoChain.alone = FALSE
        BY NoChainType DEF NoChain
      <3> QED BY <3>1 DEF ChainType
    <2> QED BY <2>1, <2>2, <2>3 DEF Quiet
  <1>6. vChains'[c] = new /\ vChains'[c].pc # "answered" /\ ~Quiet'
    BY <1>1, <1>3 DEF Quiet, NoChain
  <1>7. ASSUME NEW d \in Chain, vChains'[d].alone
        PROVE  d = c /\ \A e \in Chain \ {d} : vChains'[e] = NoChain
    BY <1>3, <1>5, <1>6, <1>7
  <1>8. IsForm(vForm)'
    BY <1>2 DEF RulesInv
  <1> QED BY <1>2, <1>4, <1>6, <1>7, <1>8 DEF RulesInv

\* One chain changes, to one that is as alone as it was.
LEMMA ChainMoves ==
  ASSUME RulesInv, NEW c \in Chain, vChains[c].pc # "idle",
         NEW chain \in ChainType, vChains' = [vChains EXCEPT ![c] = chain],
         chain.pc # "idle", chain.alone = vChains[c].alone,
         chain.alone /\ chain.pc = "answered" => chain.data = vRules'
  PROVE  /\ vChains' \in [Chain -> ChainType] /\ ~Quiet'
         /\ \A d \in Chain : vChains'[d].alone =>
              /\ \A e \in Chain \ {d} : vChains'[e] = NoChain
              /\ vChains'[d].pc = "answered" => vChains'[d].data = vRules'
  <1>1. vChains' \in [Chain -> ChainType]
    BY DEF RulesInv
  <1>2. vChains[c] # NoChain /\ vChains'[c] = chain /\ chain # NoChain
    BY DEF RulesInv, NoChain
  <1>3. \A d \in Chain \ {c} : vChains'[d] = vChains[d]
    BY DEF RulesInv
  <1>4. ASSUME NEW d \in Chain, d # c, vChains'[d].alone PROVE FALSE
    BY <1>2, <1>3, <1>4 DEF RulesInv
  <1>5. \A d \in Chain : vChains'[d].alone =>
           /\ \A e \in Chain \ {d} : vChains'[e] = NoChain
           /\ vChains'[d].pc = "answered" => vChains'[d].data = vRules'
    BY <1>2, <1>3, <1>4 DEF RulesInv
  <1> QED BY <1>1, <1>2, <1>5 DEF Quiet

\* A chain ends: the others are as alone as they were.
LEMMA ChainEnds ==
  ASSUME RulesInv, NEW c \in Chain, vChains' = [vChains EXCEPT ![c] = NoChain],
         UNCHANGED vRules
  PROVE  /\ vChains' \in [Chain -> ChainType]
         /\ \A d \in Chain : vChains'[d].alone =>
              /\ \A e \in Chain \ {d} : vChains'[e] = NoChain
              /\ vChains'[d].pc = "answered" => vChains'[d].data = vRules'
  <1>1. \A d \in Chain : vChains'[d] = IF d = c THEN NoChain ELSE vChains[d]
    BY DEF RulesInv
  <1>2. NoChain.alone = FALSE
    BY DEF NoChain
  <1> QED BY <1>1, <1>2, NoChainType DEF RulesInv

LEMMA ServedKeeps == ASSUME RulesInv, NEW c \in Chain, RuleServed(c) PROVE RulesInv'
  <1> DEFINE ask == vChains[c]
             id == IF ask.op = "save" /\ ask.id = 0 THEN vMade + 1 ELSE ask.id
             old == vRules[id]
             rule == CASE ask.op = "save" -> Cleaned(ask.rule, old)
                       [] ask.op = "toggle" -> [old EXCEPT !.on = ask.rule.on]
                       [] OTHER -> NoRule
             chain == [ask EXCEPT !.pc = "fetch"]
  <1>1. /\ ask.pc = "write" /\ id \in RuleId
        /\ vRules' = [vRules EXCEPT ![id] = rule]
        /\ vMade' = IF id > vMade THEN id ELSE vMade
        /\ vChains' = [vChains EXCEPT ![c] = chain]
        /\ UNCHANGED <<vShown, vForm, vAsked, vWhole>>
    BY DEF RuleServed
  <1>2. ask \in ChainType /\ old \in RuleType
    BY <1>1 DEF RulesInv
  <1> HIDE DEF id, ask, old
  <1>3. rule \in RuleType
    <2>1. ask.rule \in RuleType /\ ask.rule.on \in BOOLEAN
      BY <1>2 DEF ChainType, RuleType
    <2>2. Cleaned(ask.rule, old) \in RuleType
      BY <1>2, <2>1 DEF Cleaned, RuleType
    <2>3. [old EXCEPT !.on = ask.rule.on] \in RuleType
      BY <1>2, <2>1 DEF RuleType
    <2> QED BY <2>2, <2>3, NoChainType
  <1>4. chain \in ChainType /\ chain.pc = "fetch" /\ chain.alone = ask.alone
    BY <1>2 DEF ChainType
  <1> HIDE DEF rule, chain
  <1>5. vRules' \in [RuleId -> RuleType] /\ vMade' \in RuleId
    BY <1>1, <1>3 DEF RulesInv
  <1>6. IsForm(vForm)'
    BY <1>1 DEF RulesInv
  <1>7. /\ vChains' \in [Chain -> ChainType] /\ ~Quiet'
        /\ \A d \in Chain : vChains'[d].alone =>
             /\ \A e \in Chain \ {d} : vChains'[e] = NoChain
             /\ vChains'[d].pc = "answered" => vChains'[d].data = vRules'
    BY <1>1, <1>4, ChainMoves DEF ask
  <1> QED BY <1>1, <1>5, <1>6, <1>7 DEF RulesInv

LEMMA ConfigKeeps == ASSUME RulesInv, NEW c \in Chain, ConfigArrives(c) PROVE RulesInv'
  <1> DEFINE chain == [vChains[c] EXCEPT !.pc = "fetch"]
  <1>1. /\ vChains[c].pc = "config" /\ vForm' = Choose(vForm, vKnown'[1], "")
        /\ vChains' = [vChains EXCEPT ![c] = chain]
        /\ UNCHANGED <<vRules, vMade, vShown, vAsked, vWhole>>
    BY DEF ConfigArrives, RenderBotOptions
  <1>2. chain \in ChainType /\ chain.pc = "fetch" /\ chain.alone = vChains[c].alone
    BY DEF RulesInv, ChainType
  <1> HIDE DEF chain
  <1>3. IsForm(vForm')
    BY <1>1, ChooseOffers DEF RulesInv
  <1>4. /\ vChains' \in [Chain -> ChainType] /\ ~Quiet'
        /\ \A d \in Chain : vChains'[d].alone =>
             /\ \A e \in Chain \ {d} : vChains'[e] = NoChain
             /\ vChains'[d].pc = "answered" => vChains'[d].data = vRules'
    BY <1>1, <1>2, ChainMoves
  <1> QED BY <1>1, <1>3, <1>4 DEF RulesInv

LEMMA ReadKeeps == ASSUME RulesInv, NEW c \in Chain, RulesRead(c) PROVE RulesInv'
  <1> DEFINE chain == [vChains[c] EXCEPT !.pc = "answered", !.data = vRules]
  <1>1. /\ vChains[c].pc = "fetch"
        /\ vChains' = [vChains EXCEPT ![c] = chain]
        /\ UNCHANGED <<vRules, vMade, vShown, vForm, vAsked, vWhole>>
    BY DEF RulesRead, RulesInv, ChainType
  <1>2. /\ chain \in ChainType /\ chain.pc = "answered" /\ chain.data = vRules
        /\ chain.alone = vChains[c].alone
    BY DEF RulesInv, ChainType
  <1> HIDE DEF chain
  <1>3. IsForm(vForm)'
    BY <1>1 DEF RulesInv
  <1>4. /\ vChains' \in [Chain -> ChainType] /\ ~Quiet'
        /\ \A d \in Chain : vChains'[d].alone =>
             /\ \A e \in Chain \ {d} : vChains'[e] = NoChain
             /\ vChains'[d].pc = "answered" => vChains'[d].data = vRules'
    BY <1>1, <1>2, ChainMoves
  <1> QED BY <1>1, <1>3, <1>4 DEF RulesInv

LEMMA ArriveKeeps ==
  ASSUME RulesInv, NEW c \in Chain, NEW settings \in BOOLEAN, RulesArrive(c, settings)
  PROVE  RulesInv'
  <1> DEFINE ask == vChains[c]
  <1>1. /\ ask.pc = "answered" /\ vShown' = ask.data /\ vWhole' = ask.alone
        /\ vChains' = [vChains EXCEPT ![c] = NoChain]
        /\ UNCHANGED <<vRules, vMade, vAsked>>
        /\ vForm' = EmptyForm \/ vForm' = vForm \/ vForm' = Choose(vForm, vKnown'[1], "")
    BY DEF RulesArrive, RenderBotOptions, ApplyRules
  <1>2. ask \in ChainType /\ ask.data \in [RuleId -> RuleType] /\ ask.alone \in BOOLEAN
    BY DEF RulesInv, ChainType
  <1>3. ask.alone => ask.data = vRules
    BY <1>1 DEF RulesInv
  <1>4. IsForm(vForm')
    BY <1>1, EmptyFormOffers, ChooseOffers DEF RulesInv
  <1> HIDE DEF ask
  <1>5. /\ vChains' \in [Chain -> ChainType]
        /\ \A d \in Chain : vChains'[d].alone =>
             /\ \A e \in Chain \ {d} : vChains'[e] = NoChain
             /\ vChains'[d].pc = "answered" => vChains'[d].data = vRules'
    BY <1>1, ChainEnds
  <1> QED BY <1>1, <1>2, <1>3, <1>4, <1>5 DEF RulesInv

LEMMA ChainFailKeeps == ASSUME RulesInv, NEW c \in Chain, ChainFails(c) PROVE RulesInv'
  <1>1. /\ vChains' = [vChains EXCEPT ![c] = NoChain] /\ vWhole' = FALSE
        /\ UNCHANGED <<vRules, vMade, vShown, vForm, vAsked>>
    BY DEF ChainFails
  <1>2. IsForm(vForm)'
    BY <1>1 DEF RulesInv
  <1>3. /\ vChains' \in [Chain -> ChainType]
        /\ \A d \in Chain : vChains'[d].alone =>
             /\ \A e \in Chain \ {d} : vChains'[e] = NoChain
             /\ vChains'[d].pc = "answered" => vChains'[d].data = vRules'
    BY <1>1, ChainEnds
  <1> QED BY <1>1, <1>2, <1>3 DEF RulesInv

LEMMA RulesStep == RulesInv /\ [AlertStep]_alertVars => RulesInv'
  <1> SUFFICES ASSUME RulesInv, [AlertStep]_alertVars PROVE RulesInv'
    OBVIOUS
  <1>1. CASE \/ PrefillRule \/ ResetRuleForm
             \/ \E i \in DOMAIN Channels : RenderRuleTargetOptions(Channels[i])
             \/ \E r \in RuleId : EditRule(r)
    BY <1>1, FormSteps
  <1>2. CASE LoadRules
    BY <1>2, StartKeeps, NoChainType DEF LoadRules
  <1>3. CASE UpsertRule
    <2> DEFINE rule == [on |-> vForm.on, to |-> vForm.to, server |-> vForm.server]
    <2>1. rule \in RuleType /\ vForm.editing \in {0} \union RuleId
      BY DEF RulesInv, IsForm, FormType, RuleType
    <2>2. Start("save", vForm.editing, rule, "write")
      BY <1>3 DEF UpsertRule
    <2> HIDE DEF rule
    <2> QED BY <2>1, <2>2, StartKeeps
  <1>4. ASSUME NEW r \in RuleId, ToggleRule(r) PROVE RulesInv'
    <2> DEFINE rule == [vShown[r] EXCEPT !.on = ~vShown[r].on]
    <2>1. rule \in RuleType
      BY RulesType DEF RuleType
    <2>2. Start("toggle", r, rule, "write")
      BY <1>4 DEF ToggleRule
    <2> HIDE DEF rule
    <2> QED BY <2>1, <2>2, StartKeeps
  <1>5. ASSUME NEW r \in RuleId, DeleteRule(r) PROVE RulesInv'
    BY <1>5, StartKeeps, NoChainType DEF DeleteRule
  <1>6. ASSUME NEW c \in Chain,
               \/ RuleServed(c) \/ ConfigArrives(c) \/ RulesRead(c) \/ ChainFails(c)
               \/ \E settings \in BOOLEAN : RulesArrive(c, settings)
        PROVE  RulesInv'
    BY <1>6, ServedKeeps, ConfigKeeps, ReadKeeps, ArriveKeeps, ChainFailKeeps
  <1>7. CASE UNCHANGED alertVars
    <2>1. Untouched /\ vForm' = vForm
      BY <1>7 DEF alertVars, Untouched
    <2> QED BY <2>1, FormMoves DEF RulesInv
  <1> QED BY <1>1, <1>2, <1>3, <1>4, <1>5, <1>6, <1>7 DEF AlertStep

LEMMA RulesInvImplies == RulesInv => AlertTypeOK /\ RulesShown
  BY DEF RulesInv, AlertTypeOK, RulesShown, IsForm, FormType, Offers

-----------------------------------------------------------------------------
(* The ping targets.                                                        *)

LEMMA PingBounds ==
  MaxTargets \in Nat /\ MaxTargets >= 1 /\ MaxRuns \in Nat /\ MaxSaves \in Nat /\ PingNode # {}
  <1>1. MaxTargets \in Nat \ {0} /\ MaxRuns \in Nat /\ MaxSaves \in Nat /\ PingNode # {}
    BY PingAssumption, Zenon
  <1> QED BY <1>1

LEMMA WithHostsKeeps ==
  ASSUME NEW T, NEW list \in Seq(T)
  PROVE  /\ WithHosts(list) \in Seq(T) /\ Len(WithHosts(list)) <= Len(list)
         /\ \A i \in DOMAIN WithHosts(list) : WithHost(WithHosts(list)[i])
         /\ (\A i \in DOMAIN list : WithHost(list[i])) => WithHosts(list) = list
  <1> DEFINE Step(f, k) == IF k = 0 THEN <<>>
                           ELSE IF WithHost(list[k]) THEN Append(f[k - 1], list[k]) ELSE f[k - 1]
             IsUpTo(f) == f = [k \in 0..Len(list) |-> Step(f, k)]
             upTo == CHOOSE f : IsUpTo(f)
  <1>0. Len(list) \in Nat /\ DOMAIN list = 1..Len(list) /\ \A k \in 1..Len(list) : list[k] \in T
    OBVIOUS
  <1>1. WithHosts(list) = upTo[Len(list)]
    BY DEF WithHosts
  <1> DEFINE Partial == {n \in Nat : \E f : f = [k \in 0..n |-> Step(f, k)]}
  <1>2. 0 \in Partial
    <2> DEFINE f == [k \in 0..0 |-> <<>>]
    <2>1. f = [k \in 0..0 |-> Step(f, k)]
      OBVIOUS
    <2> HIDE DEF f
    <2> QED BY <2>1
  <1>3. ASSUME NEW n \in Nat, n \in Partial PROVE n + 1 \in Partial
    <2>1. PICK f : f = [k \in 0..n |-> Step(f, k)]
      BY <1>3
    <2> DEFINE g == [k \in 0..(n + 1) |-> IF k = n + 1 THEN Step(f, k) ELSE f[k]]
    <2>2. ASSUME NEW k \in 0..(n + 1) PROVE g[k] = Step(g, k)
      <3>1. CASE k = 0
        BY <3>1, <2>1
      <3>2. CASE k # 0 /\ k # n + 1
        <4>1. k \in 0..n /\ k - 1 \in 0..n
          BY <3>2
        <4>2. f[k] = Step(f, k)
          BY <4>1, <2>1
        <4>3. g[k - 1] = f[k - 1] /\ g[k] = f[k]
          BY <4>1
        <4> HIDE DEF g
        <4> QED BY <4>2, <4>3, <3>2
      <3>3. CASE k = n + 1
        <4>1. g[k - 1] = f[k - 1] /\ g[k] = Step(f, k) /\ k # 0
          BY <3>3
        <4> HIDE DEF g
        <4> QED BY <4>1
      <3> QED BY <3>1, <3>2, <3>3
    <2>3. g = [k \in 0..(n + 1) |-> Step(g, k)]
      <3>1. g = [k \in 0..(n + 1) |-> g[k]]
        OBVIOUS
      <3> HIDE DEF g
      <3> QED BY <3>1, <2>2
    <2> HIDE DEF g
    <2> QED BY <2>3
  <1>4. Len(list) \in Partial
    <2>1. Partial \in SUBSET Nat
      OBVIOUS
    <2> HIDE DEF Partial
    <2> QED BY <1>0, <1>2, <1>3, <2>1, NoFirstFailure
  <1>5. IsUpTo(upTo)
    <2>1. \E f : IsUpTo(f)
      BY <1>4
    <2> HIDE DEF IsUpTo
    <2> QED BY <2>1
  <1>6. \A k \in 0..Len(list) : upTo[k] = Step(upTo, k)
    BY <1>5
  <1> HIDE DEF upTo, Partial
  <1> DEFINE Good(k) == /\ upTo[k] \in Seq(T) /\ Len(upTo[k]) <= k
                        /\ \A i \in 1..Len(upTo[k]) : WithHost(upTo[k][i])
                        /\ (\A i \in DOMAIN list : WithHost(list[i])) =>
                             Len(upTo[k]) = k /\ \A i \in 1..k : upTo[k][i] = list[i]
             Upheld == {k \in Nat : k <= Len(list) => Good(k)}
  <1>7. 0 \in Upheld
    <2>1. upTo[0] = <<>>
      BY <1>0, <1>6
    <2>2. upTo[0] \in Seq(T) /\ Len(upTo[0]) = 0
      BY <2>1
    <2>3. Good(0)
      BY <2>2
    <2> HIDE DEF Good
    <2> QED BY <2>3
  <1>8. ASSUME NEW n \in Nat, n \in Upheld PROVE n + 1 \in Upheld
    <2> SUFFICES ASSUME n + 1 <= Len(list) PROVE Good(n + 1)
      OBVIOUS
    <2>1. Good(n)
      BY <1>0, <1>8
    <2>2. upTo[n + 1] = IF WithHost(list[n + 1]) THEN Append(upTo[n], list[n + 1]) ELSE upTo[n]
      BY <1>0, <1>6
    <2>3. list[n + 1] \in T /\ n + 1 \in DOMAIN list
      BY <1>0
    <2> DEFINE s == upTo[n]
    <2>4. s \in Seq(T) /\ Len(s) <= n /\ Len(s) \in Nat
      BY <2>1
    <2>5. CASE WithHost(list[n + 1])
      <3> DEFINE t == Append(s, list[n + 1])
      <3>1. t \in Seq(T) /\ Len(t) = Len(s) + 1 /\ t[Len(s) + 1] = list[n + 1]
              /\ \A i \in 1..Len(s) : t[i] = s[i]
        BY <2>3, <2>4
      <3>2. upTo[n + 1] = t
        BY <2>2, <2>5
      <3> HIDE DEF t, s
      <3>3. \A i \in 1..Len(t) : WithHost(t[i])
        <4> TAKE i \in 1..Len(t)
        <4>1. i \in 1..Len(s) \/ i = Len(s) + 1
          BY <3>1, <2>4
        <4> QED BY <4>1, <3>1, <2>1, <2>5 DEF s
      <3>4. ASSUME \A i \in DOMAIN list : WithHost(list[i])
            PROVE  Len(t) = n + 1 /\ \A i \in 1..(n + 1) : t[i] = list[i]
        <4>1. Len(s) = n /\ \A i \in 1..n : s[i] = list[i]
          BY <2>1, <3>4 DEF s
        <4> QED BY <4>1, <3>1
      <3>5. Len(t) <= n + 1
        BY <3>1, <2>4
      <3>6. \A i \in 1..Len(upTo[n + 1]) : WithHost(upTo[n + 1][i])
        BY <3>2, <3>3
      <3>7. (\A i \in DOMAIN list : WithHost(list[i])) =>
              Len(upTo[n + 1]) = n + 1 /\ \A i \in 1..(n + 1) : upTo[n + 1][i] = list[i]
        BY <3>2, <3>4
      <3>8. upTo[n + 1] \in Seq(T) /\ Len(upTo[n + 1]) <= n + 1
        BY <3>1, <3>2, <3>5
      <3> QED BY <3>6, <3>7, <3>8
    <2>6. CASE ~WithHost(list[n + 1])
      BY <2>1, <2>2, <2>3, <2>4, <2>6
    <2> QED BY <2>5, <2>6
  <1>9. Good(Len(list))
    <2>1. Upheld \in SUBSET Nat
      OBVIOUS
    <2> HIDE DEF Good
    <2>2. Len(list) \in Upheld
      <3> HIDE DEF Upheld
      <3> QED BY <1>0, <1>7, <1>8, <2>1, NoFirstFailure
    <2> QED BY <1>0, <2>2
  <1>10. ASSUME \A i \in DOMAIN list : WithHost(list[i]) PROVE WithHosts(list) = list
    <2>1. WithHosts(list) \in Seq(T) /\ Len(WithHosts(list)) = Len(list)
            /\ \A i \in 1..Len(list) : WithHosts(list)[i] = list[i]
      BY <1>9, <1>1, <1>10
    <2> QED BY <2>1, SeqEqual
  <1> QED BY <1>9, <1>10, <1>1

LEMMA NormalizedTarget ==
  ASSUME NEW t \in Targets
  PROVE  /\ Normalized(t) \in Targets /\ Normalized(t).port # 0
         /\ Normalized(t).protocol = t.protocol
         /\ t.port # 0 => Normalized(t) = t
         /\ t.port = NoPort => Normalized(t).port = NoPort
  <1>1. CASE t.port # 0
    BY <1>1 DEF Normalized
  <1>2. CASE t.port = 0
    BY <1>2 DEF Normalized, Targets, NoPort
  <1> QED BY <1>1, <1>2

LEMMA ExportedTarget ==
  ASSUME NEW t \in Targets, t.port # 0
  PROVE  /\ ExportTarget(t) \in Targets /\ ExportTarget(t).port # 0
         /\ ExportTarget(t).host = t.host /\ ExportTarget(t).protocol = t.protocol
         /\ ExportTarget(ExportTarget(t)) = ExportTarget(t)
         /\ t.protocol = "icmp" => ExportTarget(t).port = NoPort
  <1>1. \A u \in Targets : \A port : [u EXCEPT !.port = port].port = port
          /\ [u EXCEPT !.port = port].host = u.host
          /\ [u EXCEPT !.port = port].protocol = u.protocol
    BY DEF Targets
  <1>2. \A u \in Targets, port \in PortTyped \union {NoPort, 80, 443} : [u EXCEPT !.port = port] \in Targets
    BY DEF Targets
  <1>3. \A u \in Targets : [u EXCEPT !.port = u.port] = u
    BY DEF Targets
  <1>4. t.protocol \in Protocol /\ t.port \in PortTyped \union {NoPort, 80, 443}
    BY DEF Targets
  <1>5. CASE t.protocol = "tcp"
    <2> DEFINE port == IF t.port # NoPort THEN t.port ELSE 443
    <2>1. port # 0 /\ port # NoPort /\ port \in PortTyped \union {NoPort, 80, 443}
      BY <1>4 DEF NoPort
    <2>2. ExportTarget(t) = [t EXCEPT !.port = port]
      BY <1>5 DEF ExportTarget, TargetApiPort
    <2> HIDE DEF port
    <2> DEFINE u == [t EXCEPT !.port = port]
    <2>3. u \in Targets /\ u.port = port /\ u.protocol = "tcp" /\ u.host = t.host
      BY <1>1, <1>2, <1>5, <2>1
    <2> HIDE DEF u
    <2>4. ExportTarget(u) = [u EXCEPT !.port = u.port]
      BY <2>1, <2>3 DEF ExportTarget, TargetApiPort
    <2>5. ExportTarget(u) = u
      BY <2>3, <2>4, <1>3
    <2> QED BY <1>5, <2>1, <2>2, <2>3, <2>5 DEF u
  <1>6. CASE t.protocol = "http"
    <2>1. ExportTarget(t) = t
      BY <1>3, <1>6 DEF ExportTarget
    <2> QED BY <1>6, <2>1
  <1>7. CASE t.protocol = "icmp"
    <2>1. ExportTarget(t) = [t EXCEPT !.port = NoPort]
      BY <1>7 DEF ExportTarget
    <2> DEFINE u == [t EXCEPT !.port = NoPort]
    <2>2. u \in Targets /\ u.port = NoPort /\ u.protocol = "icmp" /\ u.host = t.host
      BY <1>1, <1>2, <1>7
    <2> HIDE DEF u
    <2>3. ExportTarget(u) = [u EXCEPT !.port = u.port]
      BY <2>2 DEF ExportTarget
    <2>4. ExportTarget(u) = u
      BY <2>2, <2>3, <1>3
    <2> QED BY <1>7, <2>1, <2>2, <2>4 DEF u, NoPort
  <1> QED BY <1>4, <1>5, <1>6, <1>7 DEF Protocol

\* A list as it is stored: no target without a host, and what it would be saved
\* as is what it is.
AsStored(t) == /\ WithHost(t) /\ t.port # 0 /\ ExportTarget(t) = t
               /\ t.protocol = "icmp" => t.port = NoPort
StoredList(list) == list \in Seq(Targets) /\ \A i \in DOMAIN list : AsStored(list[i])

LEMMA NormalizedAllKeeps ==
  ASSUME NEW list \in Seq(Targets)
  PROVE  /\ NormalizedAll(list) \in Seq(Targets) /\ Len(NormalizedAll(list)) = Len(list)
         /\ \A i \in 1..Len(list) : NormalizedAll(list)[i] = Normalized(list[i])
         /\ (\A i \in 1..Len(list) : list[i].port # 0) => NormalizedAll(list) = list
  <1>1. Len(list) \in Nat /\ DOMAIN list = 1..Len(list) /\ \A i \in 1..Len(list) : list[i] \in Targets
    OBVIOUS
  <1>2. NormalizedAll(list) = [i \in 1..Len(list) |-> Normalized(list[i])]
    BY <1>1 DEF NormalizedAll
  <1>3. \A i \in 1..Len(list) : Normalized(list[i]) \in Targets
    BY <1>1, NormalizedTarget
  <1>4. NormalizedAll(list) \in Seq(Targets) /\ Len(NormalizedAll(list)) = Len(list)
          /\ \A i \in 1..Len(list) : NormalizedAll(list)[i] = Normalized(list[i])
    BY <1>1, <1>2, <1>3
  <1>5. ASSUME \A i \in 1..Len(list) : list[i].port # 0 PROVE NormalizedAll(list) = list
    <2>1. \A i \in 1..Len(list) : Normalized(list[i]) = list[i]
      BY <1>1, <1>5, NormalizedTarget
    <2> QED BY <2>1, <1>4, SeqEqual
  <1> QED BY <1>4, <1>5

LEMMA CollectedKeeps ==
  ASSUME NEW list \in Seq(Targets)
  PROVE  /\ Collected(list) \in Seq(Targets) /\ Len(Collected(list)) = Len(list)
         /\ \A i \in 1..Len(list) :
              /\ Collected(list)[i].port # 0
              /\ Collected(list)[i].protocol = "icmp" => Collected(list)[i].port = NoPort
         /\ StoredList(list) => Collected(list) = list
  <1> DEFINE drawn(t) == IF t.protocol = "icmp" THEN [t EXCEPT !.port = NoPort] ELSE t
             fields == [i \in 1..Len(list) |-> drawn(list[i])]
  <1>1. Len(list) \in Nat /\ DOMAIN list = 1..Len(list) /\ \A i \in 1..Len(list) : list[i] \in Targets
    OBVIOUS
  <1>2. \A t \in Targets : drawn(t) \in Targets /\ drawn(t).protocol = t.protocol
                           /\ (t.protocol = "icmp" => drawn(t).port = NoPort)
                           /\ (AsStored(t) => drawn(t) = t)
    BY DEF Targets, AsStored
  <1>3. Collected(list) = NormalizedAll(fields)
    BY <1>1 DEF Collected
  <1> HIDE DEF drawn
  <1>4. fields \in Seq(Targets) /\ Len(fields) = Len(list)
          /\ \A i \in 1..Len(list) : fields[i] = drawn(list[i])
    BY <1>1, <1>2
  <1> HIDE DEF fields
  <1>5. Collected(list) \in Seq(Targets) /\ Len(Collected(list)) = Len(list)
          /\ \A i \in 1..Len(list) : Collected(list)[i] = Normalized(drawn(list[i]))
    BY <1>3, <1>4, NormalizedAllKeeps
  <1>6. ASSUME NEW i \in 1..Len(list)
        PROVE  /\ Collected(list)[i].port # 0
               /\ Collected(list)[i].protocol = "icmp" => Collected(list)[i].port = NoPort
    BY <1>6, <1>1, <1>2, <1>5, NormalizedTarget
  <1>7. ASSUME StoredList(list) PROVE Collected(list) = list
    <2>1. ASSUME NEW i \in 1..Len(list) PROVE Normalized(drawn(list[i])) = list[i]
      <3>1. AsStored(list[i])
        BY <1>1, <1>7 DEF StoredList
      <3> QED BY <3>1, <1>1, <1>2, NormalizedTarget DEF AsStored
    <2> QED BY <2>1, <1>5, SeqEqual
  <1> QED BY <1>5, <1>6, <1>7

\* What is sent can be stored, and comes back as it was stored.
LEMMA ExportedStored ==
  ASSUME NEW list \in Seq(Targets), \A i \in 1..Len(list) : list[i].port # 0
  PROVE  StoredList(Exported(list)) /\ Len(Exported(list)) <= Len(list)
         /\ (StoredList(list) => Exported(list) = list)
  <1> DEFINE T == {t \in Targets : t.port # 0}
             kept == WithHosts(list)
  <1>1. list \in Seq(T)
    OBVIOUS
  <1>2. kept \in Seq(T) /\ Len(kept) <= Len(list) /\ Len(kept) \in Nat /\ DOMAIN kept = 1..Len(kept)
          /\ (\A i \in 1..Len(kept) : WithHost(kept[i]))
          /\ ((\A i \in DOMAIN list : WithHost(list[i])) => kept = list)
    BY <1>1, WithHostsKeeps
  <1>3. \A i \in 1..Len(kept) : kept[i] \in Targets /\ kept[i].port # 0
    BY <1>2
  <1>4. Exported(list) = [i \in 1..Len(kept) |-> ExportTarget(kept[i])]
    BY <1>2 DEF Exported
  <1> HIDE DEF kept
  <1>5. \A i \in 1..Len(kept) : ExportTarget(kept[i]) \in Targets /\ AsStored(ExportTarget(kept[i]))
    BY <1>2, <1>3, ExportedTarget DEF AsStored, WithHost
  <1>6. Exported(list) \in Seq(Targets) /\ Len(Exported(list)) = Len(kept)
          /\ \A i \in 1..Len(kept) : Exported(list)[i] = ExportTarget(kept[i])
    BY <1>2, <1>4, <1>5
  <1>7. StoredList(Exported(list))
    BY <1>5, <1>6 DEF StoredList
  <1>8. ASSUME StoredList(list) PROVE Exported(list) = list
    <2>1. \A i \in DOMAIN list : AsStored(list[i])
      BY <1>8 DEF StoredList
    <2>2. kept = list
      BY <1>2, <2>1 DEF AsStored
    <2>3. \A i \in 1..Len(list) : Exported(list)[i] = list[i]
      BY <1>6, <2>1, <2>2 DEF AsStored
    <2> QED BY <1>6, <2>2, <2>3, SeqEqual
  <1> QED BY <1>2, <1>6, <1>7, <1>8

-----------------------------------------------------------------------------
Short == {list \in Seq(Targets) : Len(list) <= MaxTargets}
Config2 == {Unset} \union {list \in Short : StoredList(list)}
PingRun == [node : BOOLEAN, old : Short]
IsSave(ask) ==
  \/ ask = NoSave
  \/ ask \in [pc : {"sent", "stored"}, node : PingNode, list : {list \in Short : StoredList(list)}]

PingTypes ==
  /\ pTargets \in Short /\ pMine \in Short
  /\ pStored \in [PingNode -> Config2] /\ pKnown \in [PingNode -> Config2]
  /\ pSelected \in PingNode
  /\ DOMAIN pButtons = {"save", "clear"} /\ pButtons = [b \in {"save", "clear"} |-> pButtons[b]]
  /\ \A b \in {"save", "clear"} : IsSave(pButtons[b])
  /\ pRuns \in Seq(PingRun) /\ Len(pRuns) <= MaxRuns
  /\ pSent \in 0..MaxSaves

IsLent == \E i \in DOMAIN pRuns : pRuns[i].node

\* Untouched, the list is with one probe of the node, or it is in the editor.
Lending ==
  ~pCrossed =>
    IF IsLent
    THEN /\ \A b \in {"save", "clear"} : pButtons[b] = NoSave
         /\ \A i, j \in DOMAIN pRuns : pRuns[i].node /\ pRuns[j].node => i = j
         /\ \A i \in DOMAIN pRuns : pRuns[i].node => pRuns[i].old = pMine
    ELSE pTargets = pMine

PingInv == PingTypes /\ Lending

LEMMA RemovedAt ==
  ASSUME NEW S, NEW s \in Seq(S), NEW i \in 1..Len(s)
  PROVE  /\ RemoveAt(s, i) \in Seq(S) /\ Len(RemoveAt(s, i)) = Len(s) - 1
         /\ \A j \in 1..(Len(s) - 1) : RemoveAt(s, i)[j] = IF j < i THEN s[j] ELSE s[j + 1]
  <1> DEFINE front == SubSeq(s, 1, i - 1)
             back == SubSeq(s, i + 1, Len(s))
  <1>0. Len(s) \in Nat /\ i \in Nat /\ i >= 1 /\ i <= Len(s)
    OBVIOUS
  <1>1. \A k \in 1..Len(s) : s[k] \in S
    OBVIOUS
  <1>2. front \in Seq(S) /\ Len(front) = i - 1 /\ \A j \in 1..(i - 1) : front[j] = s[j]
    <2>1. \A k \in 1..(i - 1) : s[k] \in S
      BY <1>0, <1>1
    <2>2. /\ front \in Seq(S) /\ Len(front) = IF 1 <= i - 1 THEN i - 1 - 1 + 1 ELSE 0
          /\ \A j \in 1..(i - 1 - 1 + 1) : front[j] = s[1 + j - 1]
      BY <1>0, <2>1, SubSeqProperties
    <2> HIDE DEF front
    <2> QED BY <1>0, <2>2
  <1>3. back \in Seq(S) /\ Len(back) = Len(s) - i /\ \A j \in 1..(Len(s) - i) : back[j] = s[i + j]
    <2>1. \A k \in (i + 1)..Len(s) : s[k] \in S
      BY <1>0, <1>1
    <2>2. /\ back \in Seq(S) /\ Len(back) = IF i + 1 <= Len(s) THEN Len(s) - (i + 1) + 1 ELSE 0
          /\ \A j \in 1..(Len(s) - (i + 1) + 1) : back[j] = s[(i + 1) + j - 1]
      BY <1>0, <2>1, SubSeqProperties
    <2> HIDE DEF back
    <2> QED BY <1>0, <2>2
  <1>4. RemoveAt(s, i) = front \o back
    BY DEF RemoveAt
  <1> HIDE DEF front, back
  <1>5. /\ front \o back \in Seq(S) /\ Len(front \o back) = Len(front) + Len(back)
        /\ \A j \in 1..(Len(front) + Len(back)) :
             (front \o back)[j] = IF j <= Len(front) THEN front[j] ELSE back[j - Len(front)]
    BY <1>2, <1>3, ConcatProperties
  <1>6. ASSUME NEW j \in 1..(Len(s) - 1)
        PROVE  RemoveAt(s, i)[j] = IF j < i THEN s[j] ELSE s[j + 1]
    <2>1. CASE j < i
      BY <2>1, <1>0, <1>2, <1>3, <1>4, <1>5
    <2>2. CASE ~(j < i)
      <3>1. RemoveAt(s, i)[j] = back[j - (i - 1)] /\ j - (i - 1) \in 1..(Len(s) - i)
        BY <2>2, <1>0, <1>2, <1>3, <1>4, <1>5
      <3> QED BY <2>2, <3>1, <1>0, <1>3
    <2> QED BY <2>1, <2>2
  <1> QED BY <1>0, <1>2, <1>3, <1>4, <1>5, <1>6

LEMMA LoadedShort ==
  ASSUME NEW config \in Config2 PROVE Loaded(config) \in Short
  <1>1. DefaultTargets \in Seq(Targets) /\ Len(DefaultTargets) = 1
    <2> DEFINE h == CHOOSE h \in Host : h # ""
               t == [protocol |-> "tcp", host |-> h, port |-> 443]
    <2>1. h \in Host
      <3>1. \E x \in Host : x # ""
        BY PingAssumption
      <3> QED BY <3>1
    <2> HIDE DEF h
    <2>2. t \in Targets
      BY <2>1 DEF Targets, Protocol
    <2> HIDE DEF t
    <2>3. <<t>> \in Seq(Targets) /\ Len(<<t>>) = 1
      BY <2>2
    <2> QED BY <2>3 DEF DefaultTargets, t, h
  <1>2. CASE config = Unset
    <2>1. Loaded(config) = NormalizedAll(DefaultTargets)
      BY <1>2 DEF Loaded
    <2>2. NormalizedAll(DefaultTargets) \in Seq(Targets) /\ Len(NormalizedAll(DefaultTargets)) = 1
      BY <1>1, NormalizedAllKeeps
    <2>3. 1 <= MaxTargets
      BY PingBounds
    <2> QED BY <2>1, <2>2, <2>3 DEF Short
  <1>3. CASE config # Unset
    BY <1>3, NormalizedAllKeeps DEF Loaded, Short, Config2
  <1> QED BY <1>2, <1>3

LEMMA StoredStays ==
  ASSUME NEW list, list \in Seq(Targets), StoredList(list), list # Unset
  PROVE  Exported(Collected(Loaded(list))) = list
  <1>1. Len(list) \in Nat /\ \A i \in 1..Len(list) : list[i].port # 0
    BY DEF StoredList, AsStored
  <1>2. Loaded(list) = list
    BY <1>1, NormalizedAllKeeps DEF Loaded
  <1>3. Collected(list) = list
    BY CollectedKeeps
  <1> QED BY <1>1, <1>2, <1>3, ExportedStored

LEMMA PingInvInit == PingInit => PingInv
  <1> SUFFICES ASSUME PingInit PROVE PingInv
    OBVIOUS
  <1>1. pSelected \in PingNode
    <2>1. \E n \in PingNode : TRUE
      BY PingBounds
    <2> QED BY <2>1 DEF PingInit
  <1>2. pStored \in [PingNode -> Config2] /\ pKnown \in [PingNode -> Config2]
    BY DEF PingInit, Config2
  <1>3. pTargets \in Short /\ pMine = pTargets
    BY <1>1, <1>2, LoadedShort DEF PingInit
  <1>4. pRuns = <<>> /\ pRuns \in Seq(PingRun) /\ Len(pRuns) = 0 /\ pSent = 0
    BY DEF PingInit
  <1>5. DOMAIN pButtons = {"save", "clear"} /\ pButtons = [b \in {"save", "clear"} |-> pButtons[b]]
          /\ \A b \in {"save", "clear"} : IsSave(pButtons[b])
    BY DEF PingInit, IsSave
  <1>6. PingTypes
    <2>1. Len(pRuns) <= MaxRuns /\ pSent \in 0..MaxSaves
      BY <1>4, PingBounds
    <2> QED BY <1>1, <1>2, <1>3, <1>4, <1>5, <2>1 DEF PingTypes
  <1>7. ~IsLent
    BY <1>4 DEF IsLent
  <1> QED BY <1>3, <1>6, <1>7 DEF PingInv, Lending

\* The editor's list changes and nothing else that is lent or sent.
LEMMA ShownKeeps ==
  ASSUME PingInv, NEW list \in Short, pTargets' = list, pMine' = list,
         pCrossed' = Busy \/ pCrossed' = (pCrossed \/ Busy),
         pKnown' \in [PingNode -> Config2], pSelected' \in PingNode,
         UNCHANGED <<pStored, pButtons, pRuns, pSent>>
  PROVE  PingInv'
  <1>1. PingTypes'
    BY DEF PingInv, PingTypes
  <1>2. ~Busy => ~IsLent
    BY DEF Busy, IsLent
  <1>3. IsLent' <=> IsLent
    BY DEF IsLent
  <1>4. Lending'
    <2> SUFFICES ASSUME ~pCrossed' PROVE Lending'
      BY DEF Lending
    <2>1. ~Busy
      BY Zenon
    <2> QED BY <1>2, <1>3, <2>1 DEF Lending
  <1> QED BY <1>1, <1>4 DEF PingInv

LEMMA PanelKeeps ==
  ASSUME PingInv, OpenNetworkTab \/ (\E n \in PingNode : ChooseNode(n)) PROVE PingInv'
  <1>1. pStored \in [PingNode -> Config2] /\ pKnown \in [PingNode -> Config2] /\ pSelected \in PingNode
    BY DEF PingInv, PingTypes
  <1>2. CASE OpenNetworkTab
    <2>1. pKnown' \in [PingNode -> Config2] /\ pSelected' = pSelected
      BY <1>1, <1>2 DEF OpenNetworkTab
    <2>2. Loaded(pKnown'[pSelected]) \in Short
      BY <1>1, <2>1, LoadedShort
    <2> QED BY <1>1, <1>2, <2>1, <2>2, ShownKeeps DEF OpenNetworkTab, Shows
  <1>3. ASSUME NEW n \in PingNode, ChooseNode(n) PROVE PingInv'
    <2>1. Loaded(pKnown[n]) \in Short
      BY <1>1, LoadedShort
    <2> QED BY <1>1, <1>3, <2>1, ShownKeeps DEF ChooseNode, Shows
  <1> QED BY <1>2, <1>3

LEMMA EditKeeps ==
  ASSUME PingInv, NEW list \in Short, Edit(list) PROVE PingInv'
  <1>1. pKnown \in [PingNode -> Config2] /\ pSelected \in PingNode
    BY DEF PingInv, PingTypes
  <1> QED BY <1>1, ShownKeeps DEF Edit

LEMMA EditorKeeps ==
  ASSUME PingInv,
         \/ AddTarget
         \/ \E i \in 1..MaxTargets :
              \/ RemoveTarget(i)
              \/ \E host \in Host : TypeHost(i, host)
              \/ \E port \in PortTyped \union {NoPort} : TypePort(i, port)
              \/ \E protocol \in Protocol : PickProtocol(i, protocol)
  PROVE  PingInv'
  <1>0. pTargets \in Seq(Targets) /\ Len(pTargets) <= MaxTargets /\ Len(pTargets) \in Nat
          /\ DOMAIN pTargets = 1..Len(pTargets)
    BY DEF PingInv, PingTypes, Short
  <1> DEFINE fields == Collected(pTargets)
  <1>1. fields \in Seq(Targets) /\ Len(fields) = Len(pTargets)
    BY <1>0, CollectedKeeps
  <1> HIDE DEF fields
  <1>2. CASE AddTarget
    <2> DEFINE t == [protocol |-> "tcp", host |-> "", port |-> 443]
    <2>1. t \in Targets
      BY PingAssumption DEF Targets, Protocol
    <2> HIDE DEF t
    <2>2. Append(pTargets, t) \in Seq(Targets) /\ Len(Append(pTargets, t)) = Len(pTargets) + 1
      BY <1>0, <2>1
    <2>3. Append(pTargets, t) \in Short
      <3>1. Len(pTargets) < MaxTargets
        BY <1>2 DEF AddTarget
      <3>2. Len(pTargets) + 1 <= MaxTargets
        BY <1>0, <3>1, PingBounds
      <3> QED BY <2>2, <3>2 DEF Short
    <2> QED BY <1>2, <2>3, EditKeeps DEF AddTarget, t
  <1>3. ASSUME NEW i, RemoveTarget(i) PROVE PingInv'
    <2>1. RemoveAt(pTargets, i) \in Seq(Targets) /\ Len(RemoveAt(pTargets, i)) = Len(pTargets) - 1
      BY <1>0, <1>3, RemovedAt DEF RemoveTarget
    <2>2. RemoveAt(pTargets, i) \in Short
      BY <1>0, <2>1, PingBounds DEF Short
    <2> QED BY <1>3, <2>2, EditKeeps DEF RemoveTarget
  <1>4. ASSUME NEW i, NEW host \in Host, TypeHost(i, host) PROVE PingInv'
    <2>1. i \in 1..Len(fields) /\ fields[i] \in Targets
      BY <1>0, <1>1, <1>4 DEF TypeHost
    <2>2. [fields[i] EXCEPT !.host = host] \in Targets
      BY <2>1 DEF Targets
    <2> DEFINE list == [fields EXCEPT ![i] = [fields[i] EXCEPT !.host = host]]
    <2>3. list \in Seq(Targets) /\ Len(list) = Len(fields)
      BY <1>1, <2>1, <2>2, ExceptSeq
    <2>4. [fields EXCEPT ![i].host = host] = list
      OBVIOUS
    <2> HIDE DEF list
    <2> QED BY <1>0, <1>1, <1>4, <2>3, <2>4, EditKeeps DEF TypeHost, Short, fields
  <1>5. ASSUME NEW i, NEW port \in PortTyped \union {NoPort}, TypePort(i, port) PROVE PingInv'
    <2>1. i \in 1..Len(fields) /\ fields[i] \in Targets
      BY <1>0, <1>1, <1>5 DEF TypePort
    <2>2. [fields[i] EXCEPT !.port = port] \in Targets
      BY <2>1 DEF Targets
    <2> DEFINE list == [fields EXCEPT ![i] = [fields[i] EXCEPT !.port = port]]
    <2>3. list \in Seq(Targets) /\ Len(list) = Len(fields)
      BY <1>1, <2>1, <2>2, ExceptSeq
    <2>4. [fields EXCEPT ![i].port = port] = list
      OBVIOUS
    <2> HIDE DEF list
    <2>5. NormalizedAll(list) \in Short
      BY <1>0, <1>1, <2>3, NormalizedAllKeeps DEF Short
    <2> QED BY <1>5, <2>4, <2>5, EditKeeps DEF TypePort, fields
  <1>6. ASSUME NEW i, NEW protocol \in Protocol, PickProtocol(i, protocol) PROVE PingInv'
    <2>1. i \in 1..Len(fields) /\ fields[i] \in Targets
      BY <1>0, <1>1, <1>6 DEF PickProtocol
    <2>2. [fields[i] EXCEPT !.protocol = protocol] \in Targets
      BY <2>1 DEF Targets
    <2> DEFINE list == [fields EXCEPT ![i] = [fields[i] EXCEPT !.protocol = protocol]]
    <2>3. list \in Seq(Targets) /\ Len(list) = Len(fields)
      BY <1>1, <2>1, <2>2, ExceptSeq
    <2>4. [fields EXCEPT ![i].protocol = protocol] = list
      OBVIOUS
    <2> HIDE DEF list
    <2> QED BY <1>0, <1>1, <1>6, <2>3, <2>4, EditKeeps DEF PickProtocol, Short, fields
  <1> QED BY <1>2, <1>3, <1>4, <1>5, <1>6

LEMMA RunPingKeeps == ASSUME PingInv, RunPing PROVE PingInv'
  <1>0. pTargets \in Short /\ pMine \in Short /\ pRuns \in Seq(PingRun) /\ Len(pRuns) \in Nat
          /\ DOMAIN pRuns = 1..Len(pRuns)
    BY DEF PingInv, PingTypes
  <1> DEFINE run == [node |-> FALSE, old |-> <<>>]
  <1>1. pTargets' \in Short /\ pMine' \in {pMine, pTargets'}
          /\ (~IsLent => pMine' = pTargets')
          /\ (IsLent => pMine' = pMine)
    BY <1>0, CollectedKeeps DEF RunPing, Short, IsLent
  <1>2. run \in PingRun /\ run.node = FALSE
    BY PingBounds DEF PingRun, Short
  <1> HIDE DEF run
  <1>3. /\ pRuns' \in Seq(PingRun) /\ Len(pRuns') = Len(pRuns) + 1
        /\ pRuns'[Len(pRuns) + 1] = run
        /\ \A i \in 1..Len(pRuns) : pRuns'[i] = pRuns[i]
    BY <1>0, <1>2 DEF RunPing, run
  <1>4. DOMAIN pRuns' = 1..(Len(pRuns) + 1)
    BY <1>3
  <1>5. \A i \in DOMAIN pRuns' : pRuns'[i].node => i \in DOMAIN pRuns /\ pRuns'[i] = pRuns[i]
    BY <1>0, <1>2, <1>3, <1>4
  <1>6. IsLent' <=> IsLent
    BY <1>0, <1>3, <1>4, <1>5 DEF IsLent
  <1>7. PingTypes'
    BY <1>1, <1>3, PingBounds DEF PingInv, PingTypes, RunPing
  <1>8. Lending'
    <2>1. UNCHANGED <<pCrossed, pButtons>>
      BY DEF RunPing
    <2> QED BY <1>1, <1>5, <1>6, <2>1 DEF PingInv, Lending
  <1> QED BY <1>7, <1>8 DEF PingInv

LEMMA RunNodeKeeps == ASSUME PingInv, RunCurrentNode PROVE PingInv'
  <1>0. pTargets \in Short /\ pMine \in Short /\ pRuns \in Seq(PingRun) /\ Len(pRuns) \in Nat
          /\ DOMAIN pRuns = 1..Len(pRuns)
    BY DEF PingInv, PingTypes
  <1> DEFINE run == [node |-> TRUE, old |-> pTargets]
  <1>1. run \in PingRun /\ run.node /\ run.old = pTargets
    BY <1>0 DEF PingRun
  <1> HIDE DEF run
  <1>2. /\ pRuns' \in Seq(PingRun) /\ Len(pRuns') = Len(pRuns) + 1
        /\ pRuns'[Len(pRuns) + 1] = run
        /\ \A i \in 1..Len(pRuns) : pRuns'[i] = pRuns[i]
    BY <1>0, <1>1 DEF RunCurrentNode, run
  <1>3. DOMAIN pRuns' = 1..(Len(pRuns) + 1)
    BY <1>2
  <1>4. pTargets' \in Short
    <2> DEFINE t == [protocol |-> "tcp", host |-> "ip", port |-> 80]
    <2>1. t \in Targets
      BY DEF Targets, Protocol
    <2> HIDE DEF t
    <2>2. <<t>> \in Seq(Targets) /\ Len(<<t>>) = 1
      BY <2>1
    <2> QED BY <2>2, PingBounds DEF RunCurrentNode, Short, t
  <1>5. PingTypes'
    BY <1>2, <1>4, PingBounds DEF PingInv, PingTypes, RunCurrentNode
  <1>6. Lending'
    <2> SUFFICES ASSUME ~pCrossed' PROVE Lending'
      BY DEF Lending
    <2>1. ~pCrossed /\ ~Busy /\ pMine' = pMine /\ pButtons' = pButtons
      BY DEF RunCurrentNode
    <2>2. ~IsLent /\ \A b \in {"save", "clear"} : pButtons[b] = NoSave
      BY <2>1 DEF Busy, IsLent, PingInv, PingTypes
    <2>3. pTargets = pMine
      BY <2>1, <2>2 DEF PingInv, Lending
    <2>4. \A i \in DOMAIN pRuns' : pRuns'[i].node => i = Len(pRuns) + 1
      BY <1>0, <1>2, <1>3, <2>2 DEF IsLent
    <2>5. \A i, j \in DOMAIN pRuns' : pRuns'[i].node /\ pRuns'[j].node => i = j
      BY <2>4
    <2>6. \A i \in DOMAIN pRuns' : pRuns'[i].node => pRuns'[i].old = pMine'
      BY <2>1, <2>3, <2>4, <1>1, <1>2
    <2>7. IsLent'
      BY <1>0, <1>1, <1>2, <1>3 DEF IsLent
    <2> QED BY <2>1, <2>2, <2>5, <2>6, <2>7 DEF Lending
  <1> QED BY <1>5, <1>6 DEF PingInv

LEMMA RunEndsKeeps == ASSUME PingInv, NEW i, RunEnds(i) PROVE PingInv'
  <1>0. pTargets \in Short /\ pMine \in Short /\ pRuns \in Seq(PingRun) /\ Len(pRuns) \in Nat
          /\ DOMAIN pRuns = 1..Len(pRuns) /\ i \in 1..Len(pRuns) /\ pRuns[i] \in PingRun
    BY DEF PingInv, PingTypes, RunEnds
  <1> DEFINE was(j) == IF j < i THEN j ELSE j + 1
  <1>1. /\ pRuns' \in Seq(PingRun) /\ Len(pRuns') = Len(pRuns) - 1
        /\ \A j \in 1..(Len(pRuns) - 1) : pRuns'[j] = IF j < i THEN pRuns[j] ELSE pRuns[j + 1]
    BY <1>0, RemovedAt DEF RunEnds
  <1>2. DOMAIN pRuns' = 1..(Len(pRuns) - 1)
    BY <1>1
  <1>3. \A j \in DOMAIN pRuns' : was(j) \in DOMAIN pRuns /\ was(j) # i /\ pRuns'[j] = pRuns[was(j)]
    BY <1>0, <1>1, <1>2
  <1>4. \A j \in DOMAIN pRuns : j # i => \E k \in DOMAIN pRuns' : was(k) = j
    <2> TAKE j \in DOMAIN pRuns
    <2> HAVE j # i
    <2>1. CASE j < i
      <3>1. j \in DOMAIN pRuns' /\ was(j) = j
        BY <2>1, <1>0, <1>2
      <3> QED BY <3>1
    <2>2. CASE ~(j < i)
      <3>1. j - 1 \in DOMAIN pRuns' /\ was(j - 1) = j
        BY <2>2, <1>0, <1>2
      <3> QED BY <3>1
    <2> QED BY <2>1, <2>2
  <1>5. \A j, k \in DOMAIN pRuns' : was(j) = was(k) => j = k
    BY <1>0, <1>2
  <1> HIDE DEF was
  <1>6. pTargets' \in Short /\ (pRuns[i].node => pTargets' = pRuns[i].old)
          /\ (~pRuns[i].node => pTargets' = pTargets)
    BY <1>0 DEF RunEnds, Restored, PingRun
  <1>7. PingTypes'
    BY <1>1, <1>6, PingBounds DEF PingInv, PingTypes, RunEnds
  <1>8. Lending'
    <2> SUFFICES ASSUME ~pCrossed' PROVE Lending'
      BY DEF Lending
    <2>1. ~pCrossed /\ UNCHANGED <<pMine, pButtons>>
      BY DEF RunEnds
    <2>2. CASE pRuns[i].node
      <3>1. IsLent
        BY <1>0, <2>2 DEF IsLent
      <3>2. /\ \A j \in DOMAIN pRuns : pRuns[j].node => i = j
            /\ pRuns[i].old = pMine
        BY <1>0, <2>1, <2>2, <3>1 DEF PingInv, Lending
      <3>3. ~IsLent'
        BY <1>3, <3>2 DEF IsLent
      <3> QED BY <1>6, <2>1, <2>2, <3>2, <3>3 DEF Lending
    <2>3. CASE ~pRuns[i].node /\ IsLent
      <3>1. /\ \A b \in {"save", "clear"} : pButtons[b] = NoSave
            /\ \A j, k \in DOMAIN pRuns : pRuns[j].node /\ pRuns[k].node => j = k
            /\ \A j \in DOMAIN pRuns : pRuns[j].node => pRuns[j].old = pMine
        BY <2>1, <2>3 DEF PingInv, Lending
      <3>2. PICK j \in DOMAIN pRuns : pRuns[j].node
        BY <2>3 DEF IsLent
      <3>3. PICK k \in DOMAIN pRuns' : was(k) = j
        BY <1>4, <2>3, <3>2
      <3>4. pRuns'[k].node
        BY <1>3, <3>2, <3>3
      <3>5. IsLent'
        BY <3>4 DEF IsLent
      <3>6. \A j1, j2 \in DOMAIN pRuns' : pRuns'[j1].node /\ pRuns'[j2].node => j1 = j2
        BY <1>3, <1>5, <3>1
      <3>7. \A j1 \in DOMAIN pRuns' : pRuns'[j1].node => pRuns'[j1].old = pMine'
        BY <1>3, <2>1, <3>1
      <3> QED BY <2>1, <3>1, <3>5, <3>6, <3>7 DEF Lending
    <2>4. CASE ~IsLent
      <3>1. pTargets = pMine /\ ~pRuns[i].node
        BY <1>0, <2>1, <2>4 DEF PingInv, Lending, IsLent
      <3>2. ~IsLent'
        BY <1>3, <2>4 DEF IsLent
      <3> QED BY <1>6, <2>1, <3>1, <3>2 DEF Lending
    <2> QED BY <2>2, <2>3, <2>4
  <1> QED BY <1>7, <1>8 DEF PingInv

LEMMA CollectedShort == ASSUME NEW list \in Short PROVE Collected(list) \in Short
  BY CollectedKeeps DEF Short

LEMMA AskKeeps ==
  ASSUME PingInv, NEW b \in {"save", "clear"}, NEW list \in Short, StoredList(list),
         AskToSave(b, list), pTargets' \in Short, pMine' \in Short,
         (pTargets' = pTargets /\ pMine' = pMine) \/ pTargets' = pMine'
  PROVE  PingInv'
  <1> DEFINE ask == [pc |-> "sent", node |-> pSelected, list |-> list]
  <1>1. IsSave(ask)
    BY DEF IsSave, PingInv, PingTypes
  <1>2. pButtons' = [pButtons EXCEPT ![b] = ask]
    BY DEF AskToSave
  <1> HIDE DEF ask
  <1>3. /\ DOMAIN pButtons' = {"save", "clear"} /\ pButtons' = [c \in {"save", "clear"} |-> pButtons'[c]]
        /\ \A c \in {"save", "clear"} : IsSave(pButtons'[c])
    BY <1>1, <1>2 DEF PingInv, PingTypes
  <1>4. pSent' \in 0..MaxSaves
    <2>1. pSent < MaxSaves /\ pSent' = pSent + 1
      BY DEF AskToSave
    <2> QED BY <2>1, PingBounds DEF PingInv, PingTypes
  <1>5. PingTypes'
    BY <1>3, <1>4 DEF PingInv, PingTypes, AskToSave
  <1>6. Lending'
    <2> SUFFICES ASSUME ~pCrossed' PROVE Lending'
      BY DEF Lending
    <2>1. ~pCrossed /\ ~Busy /\ pRuns' = pRuns
      BY DEF AskToSave
    <2>2. ~IsLent /\ ~IsLent'
      BY <2>1 DEF Busy, IsLent
    <2>3. pTargets = pMine
      BY <2>1, <2>2 DEF PingInv, Lending
    <2> QED BY <2>2, <2>3 DEF Lending
  <1> QED BY <1>5, <1>6 DEF PingInv

LEMMA SavesKeep == ASSUME PingInv, SaveTargets \/ ClearSavedTargets PROVE PingInv'
  <1>0. pTargets \in Short /\ pMine \in Short
    BY DEF PingInv, PingTypes
  <1>1. CASE SaveTargets
    <2> DEFINE fields == Collected(pTargets)
    <2>1. /\ fields \in Seq(Targets) /\ Len(fields) \in Nat /\ Len(fields) <= MaxTargets
          /\ \A i \in 1..Len(fields) : fields[i].port # 0
      BY <1>0, CollectedKeeps DEF Short
    <2> HIDE DEF fields
    <2>2. /\ StoredList(Exported(fields)) /\ Len(Exported(fields)) <= Len(fields)
      BY <2>1, ExportedStored
    <2>3. Exported(fields) \in Seq(Targets) /\ Len(Exported(fields)) \in Nat
      BY <2>2 DEF StoredList
    <2>4. Exported(fields) \in Short /\ fields \in Short
      BY <2>1, <2>2, <2>3, PingBounds DEF Short
    <2>5. pTargets' = fields /\ pMine' = fields /\ AskToSave("save", Exported(fields))
      BY <1>1 DEF SaveTargets, fields
    <2> QED BY <2>2, <2>4, <2>5, AskKeeps
  <1>2. CASE ClearSavedTargets
    <2>1. <<>> \in Short /\ StoredList(<<>>)
      BY PingBounds DEF Short, StoredList
    <2> QED BY <1>0, <1>2, <2>1, AskKeeps DEF ClearSavedTargets
  <1> QED BY <1>1, <1>2

LEMMA AnswersKeep ==
  ASSUME PingInv, NEW b \in DOMAIN pButtons, ConfigStored(b) \/ SaveAnswered(b) \/ SaveFails(b)
  PROVE  PingInv'
  <1> DEFINE ask == pButtons[b]
  <1>0. /\ b \in {"save", "clear"} /\ pStored \in [PingNode -> Config2]
        /\ pKnown \in [PingNode -> Config2] /\ ask # NoSave
        /\ ask \in [pc : {"sent", "stored"}, node : PingNode, list : {list \in Short : StoredList(list)}]
        /\ ask.node \in PingNode /\ ask.list \in Short /\ StoredList(ask.list) /\ ask.list \in Config2
    BY DEF PingInv, PingTypes, IsSave, ConfigStored, SaveAnswered, SaveFails, NoSave, Config2
  <1>1. ~pCrossed => ~IsLent /\ pTargets = pMine
    BY <1>0 DEF PingInv, Lending
  <1>2. CASE ConfigStored(b)
    <2> DEFINE new == [ask EXCEPT !.pc = "stored"]
    <2>1. IsSave(new)
      BY <1>0 DEF IsSave
    <2>2. pButtons' = [pButtons EXCEPT ![b] = new]
      BY <1>2 DEF ConfigStored
    <2> HIDE DEF new
    <2>3. /\ DOMAIN pButtons' = {"save", "clear"} /\ pButtons' = [c \in {"save", "clear"} |-> pButtons'[c]]
          /\ \A c \in {"save", "clear"} : IsSave(pButtons'[c])
      BY <2>1, <2>2 DEF PingInv, PingTypes
    <2>4. pStored' \in [PingNode -> Config2]
      BY <1>0, <1>2 DEF ConfigStored
    <2>5. UNCHANGED <<pKnown, pSelected, pTargets, pRuns, pSent, pMine, pCrossed>>
      BY <1>2 DEF ConfigStored
    <2>6. PingTypes'
      BY <2>3, <2>4, <2>5 DEF PingInv, PingTypes
    <2>7. Lending'
      BY <1>1, <2>5 DEF Lending, IsLent
    <2> QED BY <2>6, <2>7 DEF PingInv
  <1>3. /\ IsSave(NoSave)
        /\ pButtons' = [pButtons EXCEPT ![b] = NoSave] =>
             /\ DOMAIN pButtons' = {"save", "clear"} /\ pButtons' = [c \in {"save", "clear"} |-> pButtons'[c]]
             /\ \A c \in {"save", "clear"} : IsSave(pButtons'[c])
    BY DEF PingInv, PingTypes, IsSave
  <1>4. CASE SaveAnswered(b)
    <2>1. NormalizedAll(ask.list) \in Short
      BY <1>0, NormalizedAllKeeps DEF Short
    <2>2. pKnown' \in [PingNode -> Config2]
      BY <1>0, <1>4 DEF SaveAnswered
    <2>3. /\ pTargets' = NormalizedAll(ask.list) /\ pMine' = pTargets'
          /\ pButtons' = [pButtons EXCEPT ![b] = NoSave]
          /\ UNCHANGED <<pStored, pSelected, pRuns, pSent, pCrossed>>
      BY <1>4 DEF SaveAnswered
    <2>4. PingTypes'
      BY <1>3, <2>1, <2>2, <2>3 DEF PingInv, PingTypes
    <2>5. Lending'
      BY <1>1, <2>3 DEF Lending, IsLent
    <2> QED BY <2>4, <2>5 DEF PingInv
  <1>5. CASE SaveFails(b)
    <2>1. /\ pButtons' = [pButtons EXCEPT ![b] = NoSave]
          /\ UNCHANGED <<pStored, pKnown, pSelected, pTargets, pRuns, pSent, pMine, pCrossed>>
      BY <1>5 DEF SaveFails
    <2>2. PingTypes'
      BY <1>3, <2>1 DEF PingInv, PingTypes
    <2>3. Lending'
      BY <1>1, <2>1 DEF Lending, IsLent
    <2> QED BY <2>2, <2>3 DEF PingInv
  <1> QED BY <1>2, <1>4, <1>5

LEMMA PingInvStep == PingInv /\ [PingStep]_pingVars => PingInv'
  <1> SUFFICES ASSUME PingInv, [PingStep]_pingVars PROVE PingInv'
    OBVIOUS
  <1>1. CASE UNCHANGED pingVars
    BY <1>1 DEF pingVars, PingInv, PingTypes, Lending, IsLent
  <1>2. CASE PingStep
    BY <1>2, PanelKeeps, EditorKeeps, RunPingKeeps, RunNodeKeeps, RunEndsKeeps, SavesKeep,
       AnswersKeep DEF PingStep
  <1> QED BY <1>1, <1>2

LEMMA PingInvImplies == PingInv => PingTypeOK /\ TargetsKept
  <1> SUFFICES ASSUME PingInv PROVE PingTypeOK /\ TargetsKept
    OBVIOUS
  <1>1. \A list \in Short : list \in BoundedSeq(Targets, MaxTargets)
    <2> TAKE list \in Short
    <2>1. Len(list) \in 0..MaxTargets /\ list \in [1..Len(list) -> Targets]
      BY PingBounds DEF Short
    <2> QED BY <2>1 DEF BoundedSeq, SeqOf
  <1>2. PingTypeOK
    BY <1>1 DEF PingInv, PingTypes, PingTypeOK
  <1>3. ~Busy /\ ~pCrossed => pTargets = pMine
    BY DEF PingInv, Lending, Busy, IsLent
  <1>4. \A n \in PingNode : pStored[n] # Unset =>
          pStored[n] \in Seq(Targets) /\ StoredList(pStored[n])
    BY DEF PingInv, PingTypes, Config2, StoredList
  <1>5. \A n \in PingNode : pStored[n] # Unset =>
          Exported(Collected(Loaded(pStored[n]))) = pStored[n]
    BY <1>4, StoredStays
  <1> QED BY <1>2, <1>3, <1>5 DEF TargetsKept
=============================================================================
