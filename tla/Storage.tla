------------------------------- MODULE Storage -------------------------------
(***************************************************************************)
(* The object storage (rust-libs/storage/src/lib.rs): the storages of the  *)
(* stacks in one bucket that all nodes share.  A manifest object per       *)
(* storage says that it exists; the objects of a storage are kept under    *)
(* <owner>/<storage>/.  The bucket runs one request at a time, and another *)
(* may come between two requests of one call.                              *)
(*                                                                         *)
(* The storages of users, which hold uploaded functions, need no manifest  *)
(* and are not part of the module: no node creates or removes one.         *)
(***************************************************************************)
EXTENDS Integers, FiniteSets

CONSTANTS Node,
          PageSize    \* objects on the first page of a listing, the one read

VARIABLES manifest,   \* the pairs <<stack, storage>> with a manifest object
          objects,    \* the triples <<stack, storage, object>> that exist
          storing     \* the call on storages that a node is making

storagevars == <<manifest, objects, storing>>

NoCall == [at |-> "none", stack |-> <<>>, add |-> {}, remove |-> {}, keys |-> {}]

StorageInit ==
    /\ manifest = {}
    /\ objects = {}
    /\ storing = [n \in Node |-> NoCall]

\* A listing returns pages, and the code reads the first of them.
FirstPage(page, all) ==
    page \subseteq all /\ Cardinality(page) = IF Cardinality(all) < PageSize
                                              THEN Cardinality(all) ELSE PageSize

StoragesOf(s) == {m[2] : m \in {x \in manifest : x[1] = s}}

contains_storage(s, name) == <<s, name>> \in manifest

Call(n, r) == storing' = [storing EXCEPT ![n] = r]

Next_storage(r) ==
    IF r.add = {} /\ r.remove = {} THEN [NoCall EXCEPT !.at = "done"]
    ELSE [r EXCEPT !.at = "storages"]

\* update_stack_storages(s, keep and drop)
ListStorages(n, s, keep, drop) ==
    /\ storing[n].at \in {"none", "done"}
    /\ \E page \in SUBSET StoragesOf(s) :
           /\ FirstPage(page, StoragesOf(s))
           /\ Call(n, Next_storage([at |-> "storages", stack |-> s, add |-> keep \ page,
                                    remove |-> drop \cap page, keys |-> {}]))
    /\ UNCHANGED <<manifest, objects>>

\* The storages are taken in the order of the definition, here any one.
add_storage(n) ==
    LET c == storing[n]
    IN  /\ c.at = "storages"
        /\ \E name \in c.add :
               /\ manifest' = manifest \cup {<<c.stack, name>>}
               /\ Call(n, Next_storage([c EXCEPT !.add = @ \ {name}]))
        /\ UNCHANGED objects

\* remove_storage: the manifest object, then the objects that `list` finds,
\* which asks whether the storage exists before it lists.
RemoveFromManifest(n) ==
    LET c == storing[n]
    IN  /\ c.at = "storages"
        /\ \E name \in c.remove :
               /\ manifest' = manifest \ {<<c.stack, name>>}
               /\ Call(n, [c EXCEPT !.at = "contains", !.keys = {name}])
        /\ UNCHANGED objects

Removed(c) == CHOOSE name \in c.keys : TRUE

\* `list` bails with "Storage not found".
AskForStorage(n) ==
    LET c == storing[n]
    IN  /\ c.at = "contains"
        /\ Call(n, IF contains_storage(c.stack, Removed(c)) THEN [c EXCEPT !.at = "list"]
                   ELSE [NoCall EXCEPT !.at = "failed"])
        /\ UNCHANGED <<manifest, objects>>

ObjectsOf(s, name) == {o \in objects : o[1] = s /\ o[2] = name}

After(c) == Next_storage([c EXCEPT !.remove = @ \ {Removed(c)}, !.keys = {}])

ListObjects(n) ==
    LET c == storing[n]
        all == ObjectsOf(c.stack, Removed(c))
    IN  /\ c.at = "list"
        /\ \E page \in SUBSET all :
               /\ FirstPage(page, all)
               /\ Call(n, IF page = {} THEN After(c)
                          ELSE [c EXCEPT !.at = "objects", !.keys = page])
        /\ UNCHANGED <<manifest, objects>>

\* keys now holds the objects to delete, all of one storage.
DeleteObject(n) ==
    LET c == storing[n]
    IN  /\ c.at = "objects"
        /\ \E o \in c.keys :
               /\ objects' = objects \ {o}
               /\ Call(n, IF c.keys # {o} THEN [c EXCEPT !.keys = @ \ {o}]
                          ELSE Next_storage([c EXCEPT !.remove = @ \ {o[2]}, !.keys = {}]))
        /\ UNCHANGED manifest

StorageStep(n) ==
    \/ add_storage(n) \/ RemoveFromManifest(n) \/ AskForStorage(n)
    \/ ListObjects(n) \/ DeleteObject(n)

\* A request that failed may have taken effect.
PartialStorage(n) ==
    LET c == storing[n]
    IN  \/ /\ c.at = "storages"
           /\ \/ \E name \in c.add : manifest' = manifest \cup {<<c.stack, name>>}
              \/ \E name \in c.remove : manifest' = manifest \ {<<c.stack, name>>}
           /\ UNCHANGED objects
        \/ /\ c.at = "objects"
           /\ \E o \in c.keys : objects' = objects \ {o}
           /\ UNCHANGED manifest

----------------------------------------------------------------------------
(***************************************************************************)
(* Calls of the functions.  Each asks for the storage first (see           *)
(* contains_storage); these are the requests that follow.                  *)
(***************************************************************************)
put_object(s, name, key) == objects' = objects \cup {<<s, name, key>>}

delete_object(s, name, key) == objects' = objects \ {<<s, name, key>>}
=============================================================================
