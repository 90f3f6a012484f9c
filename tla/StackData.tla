------------------------------ MODULE StackData ------------------------------
(***************************************************************************)
(* The data of the stacks while nodes deploy and remove them and their     *)
(* functions use it: `deploy` and `undeploy_stack` of                      *)
(* executor/src/stack/deploy.rs on the shared database and storage.        *)
(*                                                                         *)
(* A node runs one deployment or removal at a time (the scheduler is a     *)
(* mailbox processor), several nodes run theirs at once, and a step of one *)
(* may fail or its node crash.  A deployment that failed is not rolled     *)
(* back.  A definition is its tables and storages by their delete flag,    *)
(* and its functions; Definition[s] lists the revisions of stack s.        *)
(***************************************************************************)
EXTENDS Database

CONSTANTS StackID,      \* the public keys of the stacks
          TableName, InnerKey, StorageName,
          Prefix,       \* the prefixes that functions delete or scan by
          Batch,        \* the sets of rows that functions write or delete at once
          Definition,   \* Definition[s]: the revisions of the stack's definition
          InitialStore, \* what the database holds at first
          PageSize,     \* see Storage
          MaxTasks,     \* bound: deployments and removals
          MaxFaults,    \* bound: failing requests and crashes
          MaxCalls      \* bound: calls of functions that write

Value == {1, 2}

VARIABLES
    manifest, objects, storing,   \* see Storage
    task,       \* the deployment or removal that a node runs
    functions,  \* the functions of each stack in the runtime of each node
    request,    \* a function's put between its two requests
    tasks, faults, calls,   \* counters for the bounds
    disturbed,  \* history: what else happened to the stack during a task
    late        \* history: rows that no removal of their table can know of

history == <<disturbed, late>>
vars == <<store, update, manifest, objects, storing, task, functions, request,
          tasks, faults, calls, disturbed, late>>

INSTANCE Storage

\* The tables and the rows that the keys in the store stand for.
TableKey == [p \in StackID \X TableName |-> TableListKey(p[1], p[2])]
RowKey == [r \in StackID \X TableName \X InnerKey |-> Key(r[1], r[2], r[3])]
Listed == {p \in DOMAIN TableKey : TableKey[p] \in DOMAIN store}
Rows == {r \in DOMAIN RowKey : RowKey[r] \in DOMAIN store}

T == INSTANCE Tables WITH
         tables <- Listed,
         rows <- [r \in Rows |-> store[RowKey[r]]],
         rest <- DOMAIN store \ ({TableKey[p] : p \in Listed} \cup {RowKey[r] : r \in Rows})

NoTask == [op |-> "none", at |-> "none", stack |-> <<>>, rev |-> 0, names |-> {}, left |-> {}]
NoRequest == [op |-> "none", args |-> <<>>]

Init ==
    /\ store = InitialStore
    /\ DatabaseInit
    /\ StorageInit
    /\ task = [n \in Node |-> NoTask]
    /\ functions = [n \in Node |-> [s \in StackID |-> {}]]
    /\ request = NoRequest
    /\ tasks = 0 /\ faults = 0 /\ calls = 0
    /\ disturbed = [n \in Node |-> {}]
    /\ late = {}

Do(n, r) == task' = [task EXCEPT ![n] = r]
Goes(n, at) == Do(n, [task[n] EXCEPT !.at = at])
Busy(n, op, at) == task[n].op = op /\ task[n].at = at

----------------------------------------------------------------------------
(***************************************************************************)
(* The start of a task.  Another task on the stack disturbs it, unless     *)
(* both deploy the same definition.                                        *)
(***************************************************************************)
Begin(n, r) ==
    LET rivals == {m \in Node \ {n} : /\ task[m].op # "none"
                                     /\ task[m].stack = r.stack
                                     /\ \/ r.op = "remove" \/ task[m].op = "remove"
                                        \/ task[m].rev # r.rev}
    IN  /\ task[n].op = "none"
        /\ tasks < MaxTasks
        /\ tasks' = tasks + 1
        /\ Do(n, r)
        /\ disturbed' = [m \in Node |->
               CASE m = n -> (IF rivals = {} THEN {} ELSE {"task"})
                             \cup IF request # NoRequest THEN {"write"} ELSE {}
                 [] m \in rivals -> disturbed[m] \cup {"task"}
                 [] OTHER -> disturbed[m]]
        /\ UNCHANGED <<store, update, manifest, objects, storing, functions, request,
                       faults, calls, late>>

\* deploy, up to the download of the functions.
StartDeploy(n, s, rev) ==
    Begin(n, [NoTask EXCEPT !.op = "deploy", !.at = "functions", !.stack = s, !.rev = rev])

\* undeploy_stack with StackRemovalMode::Permanent.
StartRemove(n, s) ==
    Begin(n, [NoTask EXCEPT !.op = "remove", !.at = "list", !.stack = s])

\* undeploy_stack with StackRemovalMode::Temporary.
undeploy_temporarily(n, s) ==
    /\ task[n].op = "none"
    /\ functions[n][s] # {}
    /\ functions' = [functions EXCEPT ![n][s] = {}]
    /\ UNCHANGED <<store, update, manifest, objects, storing, task, request,
                   tasks, faults, calls, history>>

----------------------------------------------------------------------------
(***************************************************************************)
(* deploy                                                                  *)
(***************************************************************************)
Defined(n) == Definition[task[n].stack][task[n].rev]
Kept(names) == {x \in DOMAIN names : ~names[x]}
Dropped(names) == {x \in DOMAIN names : names[x]}

others == <<request, tasks, faults, calls, history>>
datavars == <<store, update, manifest, objects, storing>>

\* add_functions; the ones of an earlier revision stay for now.
AddFunctions(n) ==
    /\ Busy(n, "deploy", "functions")
    /\ functions' = [functions EXCEPT ![n][task[n].stack] = @ \cup Defined(n).functions]
    /\ Goes(n, "tables")
    /\ UNCHANGED <<datavars, others>>

DeployTables(n) ==
    /\ Busy(n, "deploy", "tables")
    /\ ScanTables(n, task[n].stack, Kept(Defined(n).tables), Dropped(Defined(n).tables))
    /\ UNCHANGED <<manifest, objects, storing, task, functions, others>>

\* The rows that are gone need not be remembered.
Remember(new) == late' = (late \cup new) \cap Rows'

TablesStep(n) ==
    /\ task[n].at = "tables"
    /\ UpdateStep(n)
    /\ Remember({})
    /\ UNCHANGED <<manifest, objects, storing, task, functions, request, tasks, faults,
                   calls, disturbed>>

DeployStorages(n) ==
    /\ Busy(n, "deploy", "tables")
    /\ update[n].at = "done"
    /\ Progress(n, NoUpdate)
    /\ ListStorages(n, task[n].stack, Kept(Defined(n).storages), Dropped(Defined(n).storages))
    /\ Goes(n, "storages")
    /\ UNCHANGED <<store, functions, others>>

StoragesStep(n) ==
    /\ task[n].at \in {"names", "storages"}
    /\ StorageStep(n)
    /\ UNCHANGED <<store, update, task, functions, others>>

\* The functions that are not in the definition are removed at the end.
FinishDeploy(n) ==
    /\ Busy(n, "deploy", "storages")
    /\ storing[n].at = "done"
    /\ functions' = [functions EXCEPT ![n][task[n].stack] = Defined(n).functions]
    /\ Call(n, NoCall)
    /\ Do(n, NoTask)
    /\ UNCHANGED <<store, update, manifest, objects, others>>

----------------------------------------------------------------------------
(***************************************************************************)
(* undeploy_stack, permanently                                             *)
(***************************************************************************)

\* delete_user_data_permanently_from_database
ListTables(n) ==
    LET names == table_list(task[n].stack)
        cut == names # <<>> /\ \E t \in TableName \ names[1] : <<task[n].stack, t>> \in Listed
    IN  /\ Busy(n, "remove", "list")
        /\ Do(n, IF names = <<>> THEN NoTask
                 ELSE [task[n] EXCEPT !.at = "clear", !.names = names[1], !.left = names[1]])
        /\ disturbed' = [disturbed EXCEPT ![n] = IF cut THEN @ \cup {"limit"} ELSE @]
        /\ UNCHANGED <<datavars, functions, request, tasks, faults, calls, late>>

ClearTable(n) ==
    /\ Busy(n, "remove", "clear")
    /\ \E t \in task[n].left :
           /\ clear_table(task[n].stack, t)
           /\ Do(n, [task[n] EXCEPT !.left = @ \ {t}])
    /\ Remember({})
    /\ UNCHANGED <<update, manifest, objects, storing, functions, request, tasks,
                   faults, calls, disturbed>>

RemoveTables(n) ==
    /\ Busy(n, "remove", "clear")
    /\ task[n].left = {}
    /\ ScanTables(n, task[n].stack, {}, task[n].names)
    /\ Goes(n, "tables")
    /\ UNCHANGED <<manifest, objects, storing, functions, others>>

\* delete_user_data_permanently_from_storage: remove_storage of each, and
\* update_stack_storages for the same names.
RemoveEachStorage(n) ==
    /\ Busy(n, "remove", "tables")
    /\ update[n].at = "done"
    /\ Progress(n, NoUpdate)
    /\ ListStorages(n, task[n].stack, {}, StorageName)
    /\ Do(n, [task[n] EXCEPT !.at = "names", !.names = storing'[n].remove])
    /\ UNCHANGED <<store, functions, others>>

RemoveStorages(n) ==
    /\ Busy(n, "remove", "names")
    /\ storing[n].at = "done"
    /\ ListStorages(n, task[n].stack, {}, task[n].names)
    /\ Goes(n, "storages")
    /\ UNCHANGED <<store, update, functions, others>>

FinishRemove(n) ==
    /\ Busy(n, "remove", "storages")
    /\ storing[n].at = "done"
    /\ functions' = [functions EXCEPT ![n][task[n].stack] = {}]
    /\ Call(n, NoCall)
    /\ Do(n, NoTask)
    /\ UNCHANGED <<store, update, manifest, objects, others>>

\* A call answers with an error: the task ends where it is.
GiveUp(n) ==
    /\ update[n].at = "failed" \/ storing[n].at = "failed"
    /\ Progress(n, NoUpdate)
    /\ Call(n, NoCall)
    /\ Do(n, NoTask)
    /\ UNCHANGED <<store, manifest, objects, functions, others>>

\* A request or a download fails, or the node crashes.
Fail(n) ==
    /\ task[n].op # "none"
    /\ faults < MaxFaults
    /\ faults' = faults + 1
    /\ \/ UNCHANGED <<store, manifest, objects>>
       \/ PartialUpdate(n) /\ UNCHANGED <<manifest, objects>>
       \/ PartialStorage(n) /\ UNCHANGED store
       \/ /\ \E t \in task[n].left : clear_table(task[n].stack, t)
          /\ UNCHANGED <<manifest, objects>>
    /\ Progress(n, NoUpdate)
    /\ Call(n, NoCall)
    /\ Do(n, NoTask)
    /\ functions' \in {functions, [functions EXCEPT ![n] = [s \in StackID |-> {}]]}
    /\ Remember({})
    /\ UNCHANGED <<request, tasks, calls, disturbed>>

----------------------------------------------------------------------------
(***************************************************************************)
(* Calls of the functions of a stack that runs on some node.  Reads change *)
(* nothing; see ScansAreExact.                                             *)
(***************************************************************************)
Runs(s) == \E n \in Node : functions[n][s] # {}

Calls(s) ==
    /\ Runs(s)
    /\ calls < MaxCalls
    /\ calls' = calls + 1
    /\ disturbed' = [n \in Node |-> IF task[n].op # "none" /\ task[n].stack = s
                                    THEN disturbed[n] \cup {"write"} ELSE disturbed[n]]

\* The table is not listed, or a removal that is under way found it empty.
Unnoticed(s, t) ==
    \/ <<s, t>> \notin Listed
    \/ \E n \in Node : update[n].stack = s /\ t \in update[n].delete \ update[n].todo

LateRows(s, K) == {<<s, r[1], r[2]>> : r \in {q \in K : Unnoticed(s, q[1])}}

Untouched == UNCHANGED <<update, storing, task, functions, tasks, faults>>

AskForTable(s, t, k) ==
    /\ request = NoRequest
    /\ Calls(s)
    /\ HasTable(s, t)
    /\ request' = [op |-> "put", args |-> <<s, t, k>>]
    /\ UNCHANGED <<store, manifest, objects, late>> /\ Untouched

WriteRow ==
    LET s == request.args[1] IN LET t == request.args[2] IN LET k == request.args[3] IN
    /\ request.op = "put"
    /\ put(s, t, k, 1)
    /\ Remember(LateRows(s, {<<t, k>>}))
    /\ request' = NoRequest
    /\ disturbed' = [n \in Node |-> disturbed[n] \cup {"write"}]
    /\ UNCHANGED <<manifest, objects, calls>> /\ Untouched

RowCall(s) ==
    /\ Calls(s)
    /\ \/ \E t \in TableName, k \in InnerKey : delete(s, t, k) /\ Remember({})
       \/ \E t \in TableName, p \in Prefix : delete_by_prefix(s, t, p) /\ Remember({})
       \/ \E K \in Batch : \/ batch_put(s, K, 1) /\ Remember(LateRows(s, K))
                           \/ batch_delete(s, K) /\ Remember({})
       \/ \E t \in TableName, k \in InnerKey, prev \in {{}, {1}} :
              /\ compare_and_swap(s, t, k, prev, 2)
              /\ Remember(IF get(s, t, k) = prev THEN LateRows(s, {<<t, k>>}) ELSE {})
    /\ UNCHANGED <<manifest, objects, request>> /\ Untouched

AskForStorageOf(s, op, name, key) ==
    /\ request = NoRequest
    /\ Calls(s)
    /\ contains_storage(s, name)
    /\ request' = [op |-> op, args |-> <<s, name, key>>]
    /\ UNCHANGED <<store, manifest, objects, late>> /\ Untouched

WriteObject ==
    LET s == request.args[1] IN LET name == request.args[2] IN LET key == request.args[3] IN
    /\ \/ request.op = "put_object" /\ put_object(s, name, key)
       \/ request.op = "delete_object" /\ delete_object(s, name, key)
    /\ request' = NoRequest
    /\ UNCHANGED <<store, manifest, calls, history>> /\ Untouched

FunctionStep ==
    \/ \E s \in StackID :
          \/ RowCall(s)
          \/ \E t \in TableName, k \in InnerKey : AskForTable(s, t, k)
          \/ \E op \in {"put_object", "delete_object"}, name \in StorageName :
                 AskForStorageOf(s, op, name, 1)
    \/ WriteRow
    \/ WriteObject

NodeStep(n) ==
    \/ AddFunctions(n) \/ DeployTables(n) \/ TablesStep(n) \/ DeployStorages(n)
    \/ StoragesStep(n) \/ FinishDeploy(n)
    \/ ListTables(n) \/ ClearTable(n) \/ RemoveTables(n) \/ RemoveEachStorage(n)
    \/ RemoveStorages(n) \/ FinishRemove(n) \/ GiveUp(n)

\* A stack without a revision in Definition is deployed by other nodes only.
Starts(n) ==
    \E s \in {x \in StackID : Definition[x] # <<>>} :
        \/ \E rev \in DOMAIN Definition[s] : StartDeploy(n, s, rev)
        \/ StartRemove(n, s)
        \/ undeploy_temporarily(n, s)

Next ==
    \/ \E n \in Node : NodeStep(n) \/ Starts(n) \/ Fail(n)
    \/ FunctionStep

Spec == Init /\ [][Next]_vars

----------------------------------------------------------------------------
(***************************************************************************)
(* Properties                                                              *)
(***************************************************************************)

(***************************************************************************)
(* Every call on the database does to the tables what it says and leaves   *)
(* alone the rows of other tables and stacks, the other entries of the     *)
(* table list and the keys of membership, although all of them lie in one  *)
(* key space and are addressed by intervals of it.  Prefixes that end in   *)
(* the byte 255 are the exception, see the constant Prefix.                *)
(***************************************************************************)
CallsDoWhatTheySay ==
    [][/\ calls' # calls =>
             \A s \in {x \in StackID : Runs(x)} :
                 /\ \A t \in TableName, p \in Prefix :
                       delete_by_prefix(s, t, p) => T!DeleteByPrefix(s, t, p)
                 /\ \A t \in TableName, k \in InnerKey :
                       /\ delete(s, t, k) => T!Delete(s, {<<t, k>>})
                       /\ \A prev \in {{}, {1}} :
                             compare_and_swap(s, t, k, prev, 2) =>
                                 T!CompareAndSwap(s, t, k, prev, 2)
                 /\ \A K \in Batch : /\ batch_put(s, K, 1) => T!Put(s, K, 1)
                                    /\ batch_delete(s, K) => T!Delete(s, K)
       /\ \A s \in StackID, t \in TableName, k \in InnerKey :
             request = [op |-> "put", args |-> <<s, t, k>>] /\ request' = NoRequest =>
                 T!Put(s, {<<t, k>>}, 1)
       /\ \A n \in Node :
             /\ ClearTable(n) =>
                    \E t \in task[n].left : T!DeleteByPrefix(task[n].stack, t, <<>>)
             /\ PutTables(n) => T!CreateTables(update[n].stack, update[n].add)
             /\ UnlistTables(n) => T!RemoveTables(update[n].stack, update[n].delete)
             /\ DeleteRows(n) =>
                    \E t \in update[n].todo, K \in SUBSET InnerKey :
                        T!Delete(update[n].stack, {t} \X K)]_<<store, calls, request, task, update>>

HasPrefix(p, k) == Len(p) <= Len(k) /\ SubSeq(k, 1, Len(p)) = p

(***************************************************************************)
(* A scan with limit 1 finds the first of the keys of its table that have  *)
(* the prefix, if there are any, and decodes it to the key that was        *)
(* written; a listing of tables finds those of its stack and prefix.       *)
(***************************************************************************)
ScansAreExact ==
    LET rows == Rows
        listed == Listed
    IN  \A s \in StackID :
            /\ \A t \in TableName, p \in Prefix :
                  LET hits == {r[3] : r \in {q \in rows : /\ q[1] = s /\ q[2] = t
                                                         /\ HasPrefix(p, q[3])}}
                  IN  scan_keys(s, t, p, 1) =
                          <<{[stack_id |-> s, table_name |-> t, inner_key |-> k] :
                                k \in {x \in hits : \A y \in hits : ~Less(y, x)}}>>
            /\ \A t \in TableName \cup {<<>>} :
                  LET hits == {p[2] : p \in {q \in listed : q[1] = s /\ HasPrefix(t, q[2])}}
                  IN  Cardinality(hits) <= TableListLimit =>
                          /\ table_list_prefixed(s, t) = <<hits>>
                          /\ t = <<>> => table_list(s) = <<hits>>

(***************************************************************************)
(* A row whose table is not listed was written when no removal of the      *)
(* table could notice it.  So a removal that stops halfway, at any request *)
(* or by a crash, leaves every table that still has rows in the list,      *)
(* where the next removal finds it.                                        *)
(***************************************************************************)
OrphansAreLateWrites == \A r \in Rows : <<r[1], r[2]>> \in Listed \/ r \in late

(***************************************************************************)
(* A deployment that reports success, and that no other task on the stack  *)
(* disturbed but deployments of the same definition on other nodes, leaves *)
(* the tables, storages and functions that the definition asks for.  A     *)
(* permanent removal that reports success, that nothing disturbed and      *)
(* whose tables table_list could return in one answer, leaves no table, no *)
(* storage, no function, and no row but late ones.                         *)
(***************************************************************************)
TasksDoWhatTheyReport ==
    [][\A n \in Node :
         LET s == task[n].stack
             tables == {p[2] : p \in {q \in Listed : q[1] = s}}
         IN  /\ FinishDeploy(n) /\ "task" \notin disturbed[n] =>
                    /\ Kept(Defined(n).tables) \subseteq tables
                    /\ Dropped(Defined(n).tables) \cap tables = {}
                    /\ Kept(Defined(n).storages) \subseteq StoragesOf(s)
                    /\ Dropped(Defined(n).storages) \cap StoragesOf(s) = {}
             /\ FinishRemove(n) /\ disturbed[n] = {} =>
                    /\ tables = {}
                    /\ StoragesOf(s) = {}
                    /\ \A r \in Rows : r[1] = s => r \in late]_vars

(***************************************************************************)
(* The claim of the comment "remove data" in remove_storage: when the call *)
(* is over the storage has no objects.                                     *)
(***************************************************************************)
RemovedStorageHasNoData ==
    [][\A n \in Node :
         AskForStorage(n) /\ storing'[n].at = "failed" =>
             ObjectsOf(storing[n].stack, Removed(storing[n])) = {}]_vars
=============================================================================
