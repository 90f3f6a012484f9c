-------------------------- MODULE FunctionProtocol --------------------------
(***************************************************************************)
(* The messages between the executor and a running function (sdk/common),  *)
(* the answers the runtime gives to each request (runtime/src/instance.rs) *)
(* and the ones the SDK takes for it (sdk/musdk/src/context).              *)
(***************************************************************************)
EXTENDS Naturals

\* Messages written by the function, with their codes on the wire.
OutgoingMessageKind ==
    [FatalError |-> 1, FunctionResult |-> 2, Log |-> 3,
     Put |-> 1001, Get |-> 1002, Delete |-> 1003, DeleteByPrefix |-> 1004,
     Scan |-> 1005, ScanKeys |-> 1006, TableList |-> 1007, BatchPut |-> 1008,
     BatchGet |-> 1009, BatchDelete |-> 1010, BatchScan |-> 1011,
     BatchScanKeys |-> 1012, CompareAndSwap |-> 1013,
     StoragePut |-> 2001, StorageGet |-> 2002, StorageDelete |-> 2003,
     StorageList |-> 2004,
     HttpRequest |-> 3001]

\* Messages written by the executor.
IncomingMessageKind ==
    [ExecuteFunction |-> 1,
     DbError |-> 1001, SingleResult |-> 1002, ListResult |-> 1003,
     KeyValueListResult |-> 1004, TableKeyListResult |-> 1005,
     TableKeyValueListResult |-> 1006, EmptyResult |-> 1007, CasResult |-> 1008,
     StorageError |-> 2001, StorageGetResult |-> 2002,
     StorageEmptyResult |-> 2003, ObjectListResult |-> 2004,
     HttpResponse |-> 3001]

UnknownCode == 0

\* Reading a message: the kind with this code, if there is one.
Decode(kinds, code) ==
    IF \E k \in DOMAIN kinds : kinds[k] = code
    THEN CHOOSE k \in DOMAIN kinds : kinds[k] = code
    ELSE "InvalidData"

ReadOutgoing(code) == Decode(OutgoingMessageKind, code)

ReadIncoming(code) == Decode(IncomingMessageKind, code)

\* Writing a message: the code of its kind.
WriteOutgoing(kind) == OutgoingMessageKind[kind]

WriteIncoming(kind) == IncomingMessageKind[kind]

DbRequest ==
    {"Put", "Get", "Delete", "DeleteByPrefix", "Scan", "ScanKeys", "TableList", "BatchPut",
     "BatchGet", "BatchDelete", "BatchScan", "BatchScanKeys", "CompareAndSwap"}

StorageRequest == {"StoragePut", "StorageGet", "StorageDelete", "StorageList"}

Request == DbRequest \cup StorageRequest \cup {"HttpRequest"}

\* A slip: a scan of keys is answered like a scan.
handle_db_request_pairs(kind) ==
    CASE kind \in {"Put", "Delete", "DeleteByPrefix", "BatchPut", "BatchDelete"} ->
             {"EmptyResult"}
      [] kind = "Get" -> {"SingleResult", "EmptyResult"}
      [] kind \in {"Scan", "ScanKeys"} -> {"KeyValueListResult"}
      [] kind = "TableList" -> {"ListResult"}
      [] kind \in {"BatchGet", "BatchScan"} -> {"TableKeyValueListResult"}
      [] kind = "BatchScanKeys" -> {"TableKeyListResult"}
      [] kind = "CompareAndSwap" -> {"CasResult"}

\* What a database request that succeeds is answered with.
handle_db_request(kind) ==
    CASE kind \in {"Put", "Delete", "DeleteByPrefix", "BatchPut", "BatchDelete"} ->
             {"EmptyResult"}
      [] kind = "Get" -> {"SingleResult", "EmptyResult"}
      [] kind = "Scan" -> {"KeyValueListResult"}
      [] kind \in {"ScanKeys", "TableList"} -> {"ListResult"}
      [] kind \in {"BatchGet", "BatchScan"} -> {"TableKeyValueListResult"}
      [] kind = "BatchScanKeys" -> {"TableKeyListResult"}
      [] kind = "CompareAndSwap" -> {"CasResult"}

storage_answers(kind) ==
    CASE kind \in {"StoragePut", "StorageDelete"} -> {"StorageEmptyResult"}
      [] kind = "StorageGet" -> {"StorageGetResult"}
      [] kind = "StorageList" -> {"ObjectListResult"}

(* What the SDK takes for an answer; anything else is UnexpectedMessageKind. *)

ErrorOf(kind) ==
    CASE kind \in DbRequest -> {"DbError"}
      [] kind \in StorageRequest -> {"StorageError"}
      [] OTHER -> {}

db_expects(kind) ==
    CASE kind \in {"BatchPut", "BatchDelete", "Put", "Delete", "DeleteByPrefix"} ->
             {"EmptyResult"}
      [] kind = "Get" -> {"SingleResult", "EmptyResult"}
      [] kind \in {"TableList", "ScanKeys"} -> {"ListResult"}
      [] kind = "Scan" -> {"KeyValueListResult"}
      [] kind = "BatchScanKeys" -> {"TableKeyListResult"}
      [] kind \in {"BatchGet", "BatchScan"} -> {"TableKeyValueListResult"}
      [] kind = "CompareAndSwap" -> {"CasResult"}

storage_expects(kind) ==
    CASE kind \in {"StorageDelete", "StoragePut"} -> {"StorageEmptyResult"}
      [] kind = "StorageList" -> {"ObjectListResult"}
      [] kind = "StorageGet" -> {"StorageGetResult"}

Understands(kind, message) ==
    \/ message \in ErrorOf(kind)
    \/ kind \in DbRequest /\ message \in db_expects(kind)
    \/ kind \in StorageRequest /\ message \in storage_expects(kind)
    \/ kind = "HttpRequest" /\ message = "HttpResponse"
=============================================================================
