-------------------------- MODULE MongoDBInterface --------------------------
(***************************************************************************)
(* The static functions of class MongoDBInterface (MongoInterface.h) and   *)
(* the table by which crud_handler::handle (main.cc) chooses one of them:  *)
(* which fields of the JSON body each call takes, which guards make it a   *)
(* no-op, and which commands it sends.  Everything here is a pure operator *)
(* on a store; the interleaving is in CrudHandler.                         *)
(*                                                                         *)
(* A request is [method, operation, class, content].  A JSON body is a     *)
(* record.  A required element that is absent and one of another BSON type *)
(* both raise when they are read, so its fields are the ones of the right  *)
(* type; an optional one, and an option of a find, may be IllTyped.        *)
(***************************************************************************)
EXTENDS MongoStore

CONSTANTS
    DummyCollection,    \* the collection createDB makes so that the database exists
    NotJson,            \* a content that bsoncxx::from_json does not parse
    IllTyped            \* a value of a BSON type that its reader does not take

crud_operation == {"create", "read", "update", "delete"}
mongo_class    == {"db", "collection", "document", "index"}

\* A content that does not parse is logged and leaves the body empty.
from_json(content) == IF content = NotJson THEN [f \in {} |-> EmptyDoc] ELSE content

Ns(doc) == <<doc.dbname, doc.collectionname>>

\* The namespaces a request names.
Namespaces(q) ==
    CASE q.operation = "create" /\ q.class = "db" -> {<<q.content.name, DummyCollection>>}
      [] q.operation = "update" /\ q.class = "collection" ->
             {q.content.dbname} \X {q.content.oldname, q.content.newname}
      [] q.operation # "create" /\ q.class = "db" -> {}
      [] OTHER -> {Ns(q.content)}

InColl == {"dbname", "collectionname"}

\* The fields each call reads unconditionally, by class.
CreateFields ==
    [db         |-> {"name"},
     collection |-> InColl,
     document   |-> InColl \cup {"json_data"},
     index      |-> InColl \cup {"keys", "index_options"}]
ReadFields ==
    [db         |-> {"name", "list_all"},
     collection |-> InColl \cup {"list_all"},
     document   |-> InColl,
     index      |-> InColl \cup {"indexname"}]
UpdateFields ==
    [collection |-> {"dbname", "oldname", "newname"},
     document   |-> InColl \cup {"updmany", "filter", "fields_toupd"}]
DeleteFields ==
    [db         |-> {"dbname"},
     collection |-> InColl,
     document   |-> InColl \cup {"delmany", "filter"},
     index      |-> InColl \cup {"indexname"}]

Fields ==
    [create |-> CreateFields, read |-> ReadFields, update |-> UpdateFields, delete |-> DeleteFields]

Is(q, op, class) == q.operation = op /\ q.class = class
IsFind(q)        == Is(q, "read", "document")

\* The fields it reads if they are present.
Optional(q) ==
    {f \in {"collection_options"} : Is(q, "create", "collection")}
        \cup {f \in {"filter", "options"} : IsFind(q)}

\* handle raises before any call is made: an unknown operation or class, an
\* update of a database or an index, a field the call reads and does not find,
\* an optional one of another type.
Rejected(q) ==
    \/ q.operation \notin crud_operation
    \/ q.class \notin mongo_class
    \/ q.operation = "update" /\ q.class \in {"db", "index"}
    \/ ~(Fields[q.operation][q.class] \subseteq DOMAIN from_json(q.content))
    \/ \E f \in Optional(q) \cap DOMAIN from_json(q.content) : q.content[f] = IllTyped

\* Mutant: the guard on the filter of a delete is dropped.
NothingToDoUnguarded(q) ==
    \/ Is(q, "create", "index")    /\ q.content.keys = EmptyDoc
    \/ Is(q, "update", "document") /\ q.content.fields_toupd = EmptyDoc

\* The guards that return without sending a command: empty keys, an empty
\* update, and a delete with an empty filter.
NothingToDo(q) ==
    \/ Is(q, "create", "index")    /\ q.content.keys = EmptyDoc
    \/ Is(q, "update", "document") /\ q.content.fields_toupd = EmptyDoc
    \/ Is(q, "delete", "document") /\ q.content.filter = EmptyDoc

-----------------------------------------------------------------------------

createDB(s, i, doc)         == CreateCollection(s, <<doc.name, DummyCollection>>, i)
createCollection(s, i, doc) == CreateCollection(s, Ns(doc), i)
createDocument(s, i, doc)   == InsertOne(s, Ns(doc), i, doc.json_data)
createIndex(s, i, doc)      == CreateIndex(s, Ns(doc), i, doc.keys)

\* A name that is not listed gives a result that says "not found", not an error.
Listed(all, name, names) == IF all THEN names ELSE names \cap {name}

readDB(s, doc) == {Returned(s, Listed(doc.list_all, doc.name, ListDatabases(s)))}
readCollection(s, doc) ==
    {Returned(s, Listed(doc.list_all, doc.collectionname, ListCollections(s, doc.dbname)))}
\* readIndex has no list_all: the empty name, EmptyDoc here, lists all.
readIndex(s, doc) ==
    {Returned(s, Listed(doc.indexname = EmptyDoc, doc.indexname, ListIndexes(s, Ns(doc))))}

updateCollection(s, doc) == Rename(s, <<doc.dbname, doc.oldname>>, <<doc.dbname, doc.newname>>)
updateDocument(s, doc)   == Update(s, Ns(doc), doc.filter, doc.fields_toupd, doc.updmany)

deleteDB(s, doc)         == Drop(s, {n \in DOMAIN s.coll : n[1] = doc.dbname})
deleteCollection(s, doc) == Drop(s, {Ns(doc)})
deleteDocument(s, doc)   == Delete(s, Ns(doc), doc.filter, doc.delmany)
deleteIndex(s, doc)      == DropIndex(s, Ns(doc), doc.indexname)

\* The results of the one command request i makes, readDocument apart: its
\* cursor takes several steps.
Command(s, i, q) ==
    LET doc == q.content
    IN  CASE Is(q, "create", "db")         -> createDB(s, i, doc)
          [] Is(q, "create", "collection") -> createCollection(s, i, doc)
          [] Is(q, "create", "document")   -> createDocument(s, i, doc)
          [] Is(q, "create", "index")      -> createIndex(s, i, doc)
          [] Is(q, "read", "db")           -> readDB(s, doc)
          [] Is(q, "read", "collection")   -> readCollection(s, doc)
          [] Is(q, "read", "index")        -> readIndex(s, doc)
          [] Is(q, "update", "collection") -> updateCollection(s, doc)
          [] Is(q, "update", "document")   -> updateDocument(s, doc)
          [] Is(q, "delete", "db")         -> deleteDB(s, doc)
          [] Is(q, "delete", "collection") -> deleteCollection(s, doc)
          [] Is(q, "delete", "document")   -> deleteDocument(s, doc)
          [] Is(q, "delete", "index")      -> deleteIndex(s, doc)

\* The filter and the options of readDocument are optional.
FindFilter(doc) == IF "filter" \in DOMAIN doc THEN doc.filter ELSE EmptyDoc
Options(doc)    == IF "options" \in DOMAIN doc THEN doc.options ELSE [o \in {} |-> EmptyDoc]

FindOptions == {"allow_disk_use", "batch_size", "limit", "skip", "sort", "projection"}

\* An option of another type raises, once readDocument has its client and before
\* it calls find.
OptionRaises(q) ==
    IsFind(q) /\ \E o \in FindOptions \cap DOMAIN Options(q.content) :
                    Options(q.content)[o] = IllTyped

\* The find need not return all that matches: a limit, a skip, or a sort, which
\* may walk an index in which an update moves documents.  The other options
\* change the form or the batches of the result.
Partial(doc) == {"limit", "skip", "sort"} \cap DOMAIN Options(doc) # {}
=============================================================================
