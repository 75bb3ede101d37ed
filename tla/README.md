# Verification of SIXW_SS_REST_BRIDGE

The program is a REST bridge: an HTTP server built on Seastar that takes
`POST /crud/...?operation=..&class=..` with a JSON body and turns each request
into one command of a MongoDB server. Seastar runs one reactor thread (a
*shard*) per core; each shard has its own mongocxx client. This directory
holds TLA+ models of it, the TLC runs that check them on small instances, and
proofs, checked by TLAPS, of what they promise for instances of any size.

## 1. The system

| component | where | state it keeps | operations |
|---|---|---|---|
| `crud_handler` | `main.cc:164-498` | none of its own; a coroutine frame per request | `handle` |
| `MongoDBInterface` | `INCLUDE/DB/MongoInterface.h` | none | twelve static coroutines, one per class (db, collection, document, index) and operation that exists |
| `DBClients` | `INCLUDE/DB/DBClients.h` | `sharded<client_t> clients`, `failed_to_init`, `initialized`, the function-local `static bool cleared` | `Init`, `operator()`, the destructor |
| `main_fut`, `main` | `main.cc:500-561` | which services are started; the `mongocxx::instance` | startup, waiting, shutdown |
| `stop_signal` | `stop_signal.hh` | `_caught`, `_cond` | constructor, `signaled`, `wait`, destructor |
| `event_router`, `event_router_RAII` | `INCLUDE/EVENTS.h` | `next_handle`, `dispatch_container`, a mutex; each owner's `handle` | `call`, `attach`, `detach`, constructor and destructor |
| `sharded_mutex`, `sharded_lock` | `main.cc:119-162` | a `std::mutex` for each shard | started, never locked (`main.cc:169` is commented out) |
| future wrapper | `INCLUDE/MACROS.h:16-42` | none | two overloads of `make_ready_future_wrapper`, `FUT_LE`; unused |
| `LogDuration`, macros | `INCLUDE/MACROS.h` | none | logging |
| random numbers, aliases | `INCLUDE/RNG.h`, `GLOBALS.h`, `USINGS.h` | none | nothing calls them |
| demo | `demo.h`, `demo.json.hh` | two servers, deferred actions | Seastar's httpd example: startup, a JSON route, shutdown by destructors; not built |
| MongoDB server and driver, Seastar httpd | not in the repository | the data; connections | what `src/` uses of them |

**How they interact.** `main_fut` constructs a `stop_signal`, then awaits
`db_clients.Init()`, the start of the mutex, the handlers and the HTTP server,
and then `stop_signal.wait()`. The server calls `crud_handler::handle` on the
shard that got the connection, shard 0 included, whose thread `main_fut` runs on. `handle` awaits one function of
`MongoDBInterface`, which awaits `db_clients()` (a reference to the client of
this shard) and then makes driver calls. These *block the reactor thread*. Between
the acceptance of a request and its reply a coroutine suspends there, and in
`handle`'s own `co_await` of that function.
Shards share no memory but `static bool cleared` and the started services; all
their commands meet at one MongoDB server.

**What is hard.** Commands of different shards interleave at the server, in the
middle of a cursor too; the driver may raise after the server has executed a
command; a blocked thread delays everything on its shard; `Init` races with
itself over `CONN_LOG` and `cleared`, swallows the failure of two of its three
stages and throws the third, and starts against whatever rows an earlier run
left; the process may be gone while a command it sent is still on its way;
signals come at any time, requests run while the server shuts down; handles of
the router are recycled while its handlers are suspended.

**What makes each component correct.** The handler: a request takes effect at
most once, atomically, and the answer agrees with the effect; nothing else is
lost; reads are complete; clients are not shared by two calls; shards do not
hold each other up. `DBClients`: a log of one run, clients that the handlers can
use when `Init` says so, an end in every case. `main_fut`: nothing is torn down
under a running handler, a signal always ends it, nothing else does. The
router: each living owner's handler, and no other, hears each event, keeps its
closure as long as its owner lives, and is waited for. The mutex: one task in the
scope of the lock, and no thread blocked but by its own shard.

`PROJECT.json` lists every hazard at its line with the properties about it.

## 2. Modules

| module | models | notes |
|---|---|---|
| `MongoStore` | the commands of the server, by the effect the code relies on (external) | pure operators on a store record; each returns the *set* of possible results |
| `MongoDBInterface` | the twelve functions, and the table of fields and guards in `handle` | extends `MongoStore`; pure |
| `CrudHandler` | `handle` on every shard, with the await, the blocking call, the cursor loop and every catch | the state machine over `MongoDBInterface` |
| `AtMostOnce` | abstract: what a client is promised | `CrudHandler` implements it |
| `StoreProofs`, `CrudProofs` | theorems about the two above | |
| `DBClients`, `DBClientsProofs` | the three stages of `Init`, crashes, restarts | |
| `Lifecycle`, `LifecycleProofs` | `main_fut`, `stop_signal`, accepting and draining | |
| `Bridge`, `BridgeProofs` | the program: `Lifecycle`, `DBClients` and `CrudHandler` in a process that ends at any time and is started again, and commands that outlive it | implements `AtMostOnce` too |
| `EventRouter` | the router and its RAII owners | |
| `EventDelivery`, `EventDeliveryProofs` | `call` with handlers that suspend and raise, while owners come and go | extends `EventRouter`; the proofs are about both |
| `Subscriptions` | abstract: a router without handles | `EventRouter` implements it under LIFO |
| `ShardedMutex`, `ShardedMutexProofs` | `sharded_mutex` and `sharded_lock` under tasks that may suspend in the scope of the lock | |
| `DemoServer`, `DemoServerProofs` | `main` of the demo with its deferred actions, and the requests of its route | |
| `FutureWrapper` | `make_ready_future_wrapper` and `FUT_LE` | |
| `MC*` | small instances of the above for TLC | |

Operators whose comment begins "Mutant:" are deliberately wrong variants of the
definition after them. Nothing uses them; each can be substituted for that
definition to see a property fail (`PROJECT.json`, "mutants").

### Correspondence

**CrudHandler.** `pc[i]` is where the coroutine of request `i` is: `idle`,
`await` (suspended at `co_await db_clients()`), `calling` (inside the driver),
`reading` (between two batches of `for (doc : doc_cursor)`), `served` (the
driver has returned or raised), `replied`. `busy[s]` is the request whose driver
call blocks shard `s`. `Accept` is `handle` up to its suspension: method check,
the two conversions, `from_json` (whose failure is logged and leaves the body
empty), the evaluation of all arguments, and the replies of the paths that raise
in it; a body's field is missing, of its type, or, where the code looks whether an
optional one is there, `IllTyped`. `NoInstance`, `RaisesFirst`, `SkipCommand` and
`CallDriver` are the four ways in which it goes on: the container was never
started (Seastar's assertion aborts), the client is default-constructed (every
use raises) or an option of a find has another type, a guard returns without a
command, the call. `updateCollection` awaits `db_clients()` twice; nothing happens
between the two, which are one suspension here. `handle` suspends once more, in
its `co_await` of the function: `Return` is the end of that function, which gives
the thread back, together with what `handle` then does to its own reply, which no
other task reads or writes. In `Bridge` the reply leaves in a later step (`Reply`),
so there what other tasks do in this gap is modelled. `Serve` and `DriverRaises` end a call: the
server executes it and the driver returns or raises, or it is never executed and
the driver raises. `OpenCursor`, `FetchBatch`, `CursorExhausted`,
`CursorKilled` are `readDocument`; with a limit, a skip or a sort the cursor may
leave out any document (`Partial`). Three facts are in the model because the code
is that way: every exception gives an answer with status 200, `updateDocument`
accepts an empty filter (its guard is commented out at `MongoInterface.h:213`)
while `deleteDocument` does nothing with one, and the `bad_request` branch is
dead because only POST is routed.

**DBClients.** `phase` is the stage of `Init`, `step[s]` the next driver call or
access to `cleared` of shard `s`. Each access to `cleared` is a step; a shard may
miss a write made on another, since nothing orders them. `create_collection` on
a collection that exists is refused or accepted, which depends on the server's
version. `End` may come at any point; `Boot` starts the program again with the
rows it left.

**Lifecycle.** `pc` is the line of `main_fut`. `StartNext` is one `co_await` of
the startup; at `init` it also covers `Init` returning with no client started,
which `main_fut` does not look at. A handler ends by `Answer`, or by `Abort` if it
reaches `db_clients()` and no client was ever started. `Leave` is the end of the
scope, which destroys `inst` and `stop_signal`. Of `http_server_control` it is assumed that it
accepts while it listens, that a `listen` that throws leaves no shard listening
(only one of them binds the port), and that `stop` closes connections and then
waits for the handlers.

**Bridge.** The three modules are instantiated over one set of variables:
`clients` is `DBClients`' and `CrudHandler`'s, `line`, `services`, `conn` are
`Lifecycle`'s `pc`, `up`, `rq`. `InitStep` is what `main_fut` awaits at `init`;
`InitReturns` and `InitThrows` resume it with what `Init` left. `MainMoves` and
`Signal` need the thread of shard 0, which a driver call of a handler blocks.
`Accept` joins a connection with the coroutine it starts, `Work` is any step of
`CrudHandler` (an abort ends `main_fut` too), `Reply` writes what the coroutine
left if the connection is still there. `ProcessEnds` is an exit, an abort or a
kill: connections and coroutines are gone, and a command whose driver call was
under way may be executed later, or never (`LateCommand`), in the middle of
what the next process does. `Seen` is what a client knows of its request then;
it is the phase of `AtMostOnce`.

**EventRouter.** `Construct`, `ConstructFails`, `Destroy`, `Call` are the
constructor, with and without `attach` succeeding, the destructor and `call`.
Handle 0 stands for `size_t(-1)`: neither is ever given out.

**EventDelivery.** `CallBegins` is `parallel_for_each` up to the first point at
which anything else can run: every handler has been started, some have ended, one
may have raised. `HandlerEnds` and `CallOver` are what is left. `OwnersMove` is any
step of an owner, at any time: its destructor detaches whatever its handler is
doing. `orphaned[c]` are the handlers of call `c` to which that has happened
while they were suspended; what such a handler does without its closure is
undefined, and it may end or not.

**ShardedMutex.** `thread[s]` is the task a shard's thread is at, `owner[s]` the
one that has locked its mutex. `Lock` and `Unlock` are the constructor and the
destructor of `sharded_lock`; a task at `locking` has the thread and keeps it.
`Suspend` is a `co_await` in between. `Calm` are the shards whose tasks have none.

**DemoServer.** `at` is the step of `main`, `scope` the objects whose destructors
matter, in order. `Proceed` and `Throws` are a step of the startup that succeeds or
raises; `Unwind` destroys the last object: a deferred action stops its server, a
server that is destroyed while started aborts the process.

**FutureWrapper.** One action per way in which the wrapped function of each
overload can end.

## 3. Runs

| run | instance | what it shows |
|---|---|---|
| `crud_admin` | 2 shards, 2 requests out of 27 forms (each operation and class, well formed and not, an optional field or an option of another type among them), empty server, all outcomes of `Init`; the driver calls of one shard may never come back | `TypeOK`, `ImplementsAtMostOnce`: the refinement of `AtMostOnce`, and `AnsweredOnFairShards` |
| `crud_documents` | 2 shards, 3 requests out of 10: all that writes or moves one collection of two documents, and reads of it, one with a limit | `ClientNotShared`, `NothingElseVanishes`, `ReadIsComplete` |
| `dbclients_faults` | 3 shards, 3 runs of the process, faults everywhere | `TypeOK`, `ServableClients`, `OneRunInLog`, `SomeRowLeft` |
| `dbclients_quiet` | 3 shards, 2 runs, no faults | `QuietRestart`, `InitTerminates` |
| `lifecycle` | 3 requests, faults in the startup | `TypeOK`, `NoRequestWithoutService`, `EndsOnlyWhenAsked`, `LeftStarted`, `SignalStops`, `RequestAnswered` |
| `bridge_crash` | 2 shards, 2 processes, 2 requests that insert into and drop one collection, the end of a process at any point, late commands | `TypeOK`, `ImplementsAtMostOnce` across crashes |
| `bridge_faults` | 2 shards, 1 process, 2 requests out of 4 (a read and one with no JSON body among them), faults in the startup | `AbortsOnlyWithoutClients`, `CallsHaveEverything`, `SignalStops`, `RequestAnswered` |
| `router_scoped` | 2 owners destroyed in reverse order, at any time, 2 calls at once, 5 handles | `DeliveryTypeOK`, `HandleIsFree`, `ClosureKeptByOwner`, `CallAccountsForAll`, `ImplementsSubscriptions`, `CallEnds` |
| `router_any_order` | 3 owners destroyed in any order, 6 handles | the counterexample to `LiveHandlerKept` |
| `sharded_mutex` | 3 tasks on 2 shards, one of them calm | `TypeOK`, `OneInScope`, `BlockedBySuspended`, `CalmShardsFinish` |
| `demo_server` | with and without a metrics port, 2 requests, complete or not | `TypeOK`, `AbortsExactlyInMetrics`, `NoRequestWithoutServer`, `SignalStops` |
| `future_wrapper` | 2 uses | the counterexample to `AlwaysAFuture` |

`sharded_mutex` does not check deadlock: a shard whose tasks suspend in the scope
of the lock may stop for good, and `BlockedBySuspended` says when.

**Bounds.** Two shards are every kind of interleaving at the server that a pair
of commands can have; three requests put two on one shard, so that one waits for
the other, and let a reader or a writer meet two others. Two documents are the
least number with which "one" and "many" differ and with which a cursor has a
middle. Three shards in `DBClients` are one that clears, one that has already
inserted and one that has yet to look; three runs are a log left by a run that
itself started from a remainder. Two processes are one that leaves
commands behind and one they arrive in. Crashes and startup faults are in
different runs of `Bridge`, to keep each within minutes; what the faults leave is
in `crud_admin` too, which starts from every outcome of `Init`. Three tasks put two on
one shard and one on the other. `MaxRuns` bounds the restarts; `MaxHandle` the
handles, of which a failed construction uses one up for good: four can be given
out, which is two owners constructed, destroyed and constructed again under a
call, with failures between them. Two owners are one that is destroyed and one
whose handler goes on, in either part of a recycled handle; a third, with two calls,
takes the run past minutes, and the theorems hold for any number of both. Requests are accepted once each, which bounds the histories. Symmetry
is used for shards, requests and owners, only in runs without temporal operators
beyond `[]`.

**Fairness.** `CrudHandler`: a reactor runs its ready tasks, and on the shards of
`FairShards` each driver call returns or raises; nothing is assumed of the other
shards, nor that any request arrives. `DBClients`: reactors run, and a driver call
comes back, with the server-selection timeout if with nothing else; not that the
process is started or ends. `Lifecycle`: the reactor runs `main_fut` and the
handlers; no signal and no connection need ever come. `Bridge`: both of these, and
a process that has come to its end goes away; it need not be started or killed.
`EventDelivery`: handlers that were started come back as long as their owner is
there. `ShardedMutex`: a reactor
runs each task that is ready, and what is awaited comes; a task that cannot get
the thread is not ready. `DemoServer`: as `Lifecycle`.

**Findings.** `detach` decrements `next_handle` whichever handle it erased
(`EVENTS.h:58`). Construct owners A and B (handles 1 and 2), destroy A, construct
C: C is given handle 2, which B still has; `emplace` keeps B's handler and drops
C's without a word; when C is destroyed, B's handler goes. The destructor's own
comment (`EVENTS.h:92`) speaks of detaching *its* handler. With destruction in
reverse order of construction, as of objects of one scope, the router is correct,
and that is proved. The program does not instantiate the router yet.

The comment on `FUT_LE` (`MACROS.h:41`) offers a future of any function. The
overload for `void` functions returns nothing when the function succeeds
(`MACROS.h:28`), which is undefined behaviour; the one for values catches
nothing, so an exception leaves it instead of becoming a failed future. Nothing
uses the macro yet.

## 4. Proofs

Each theorem holds for every value of the constants that satisfies the named
assumption of its module. `ConstantsAssumption` gives the types of the constants
and says of the server's initial content that it is well formed, that its
documents have identities of their own (`_id` is unique in a collection, and a
document that a request inserts gets one that is new), and that requests name
namespaces the store knows.

* **`StoreProofs`**: `CommandKeeps`: every command of every well-formed request
  leaves the store well formed, and unchanged if it is refused; one lemma per
  command. `CommandDocs` says what a command may do to the documents (insert one,
  change or remove those its filter selects, move or drop a namespace it names),
  and `CommandIds` that no two documents get one identity.
* **`CrudProofs`**: `TypeCorrect`, `ClientExclusive`, `OnlySelectedVanish`,
  `ReadsComplete`, `Refinement`.
  The types alone are not inductive: that a shard's calls exclude each other needs
  to know that a request in a call is the one its shard is blocked by
  (`busy[shard[i]] = i`), and the refinement needs to know which requests have
  had their effect. `Control` says these things for each value of `pc`;
  `Core == TypeOK /\ Control` is what each step of a coroutine keeps by itself, and
  `IInv` adds `Unapplied`, that a request not yet accepted has done nothing.
  `OnlySelectedVanish` follows from `IInv` and `CommandDocs`.
  `ReadsComplete` needs `ReadInv`: while a cursor is open, what has matched from
  its opening on was in the first result, still matches, and is among the
  documents gathered as soon as the cursor has passed it. That commands of others
  keep this needs identities (`IdsInv`): a document that is deleted and inserted
  again is not the one it was.
  `Refinement` shows that every step is a step of `AtMostOnce` or leaves its
  variables alone, with `phaseBar` for the phase of a request.
* **`DBClientsProofs`**: `TypeCorrect`, `LogOfOneRun`, `StartLeavesARow`,
  `ClientsServable`, `RestartIsQuiet`. The last says two things of a start that
  throws without faults: that the server had no `CONN_LOG`, and that it has one
  now, with a row of the run, so that the race cannot break a second start. `LogInv` says that a shard that is past
  its look at the log, or `cleared`, implies that no row of an earlier run is
  left; `RowInv` that whenever a shard is done there is a row of this run or a
  shard that is yet to insert (or raised), which is what survives a late
  `delete_many`.
* **`LifecycleProofs`**: `TypeCorrect`, `ServicesOutliveRequests`, `EndIsAsked`,
  `StoppedInTime`, from `Stage`, which relates each line of `main_fut` to the
  services started, and to whether handlers can be running. `StoppedInTime` says
  exactly what the static destructors find started, after a good start and after
  one that threw; for the second it also needs `Unused`, that the startup has
  accepted no request, which is true of the first process only and so is not part
  of what `BridgeProofs` uses.
* **`BridgeProofs`**: the whole program. The three proof modules above are
  instantiated as `Bridge` instantiates the models, and their lemmas about steps
  are used as they are; the lemmas `Same...` say that the two sets of instances
  have the same definitions. `IInv == Parts /\ Links`. `Parts` are the invariants
  of the parts, with two exceptions: `Stage` speaks of a process and holds while
  there is one, and of `CrudHandler` only `Core` is left, because a request whose
  process is gone is idle again but may have been executed. `Links` ties them
  together, and TLC has checked `IInv` on both instances of `Bridge`: `Awaits`,
  at which lines of `main_fut` `Init` has returned, and what it takes for the
  clients; `Served`, a connection and its coroutine; `Overdue`, a command that
  outlived its process has passed the handler's checks and is not executed yet;
  `Gone` and `Aborted`, what is left of a process.
  - `TypeCorrect`, `AbortNeedsNoClients`, `CallsAreEquipped` are the invariants of
    the runs.
  - `PartsHold`: what was proved of the parts alone (`OneRunInLog`, `SomeRowLeft`,
    `ServableClients`, `NoRequestWithoutService`, `ClientNotShared`) holds of them
    together.
  - `OnlySelectedVanish` and `ReadsComplete` are the theorems of `CrudProofs` with
    processes that end and commands that arrive late.
  - `Refinement`: through all this the program implements `AtMostOnce`. The phase
    of a request, `seenBar`, is its reply once it is written, and until then, for ever
    if the connection is lost, whether its command has been executed.
* **`EventDeliveryProofs`**, under `LIFO`. Of the router: `TypeCorrect`,
  `HandleAlwaysFree`, `Refinement`. The invariant `Paired` says that handles in use
  are below `next_handle` and that each is stored for the owner that holds it.
  Without `LIFO` it is false. Of `call`, for any number of calls at once:
  `DeliveryTypes`, `ClosuresKept`, `CallsAccount`. That a suspended handler loses
  its closure to the destructor of its own owner only rests on `Paired`: a
  destructor erases the handle of that owner and no other. `DeliveryIsRouter` says that the router under calls is still a
  behaviour of `EventRouter`'s specification, so what is proved of the one holds
  for the other; with it, `DeliveryRefines` that it implements `Subscriptions`.
* **`ShardedMutexProofs`**: `TypeCorrect`, `MutualExclusion`, `BlockedByItself`.
  `TypeOK` alone does not say that the task in the scope of the lock is the one
  recorded as its owner; the invariant adds that, both ways.
* **`DemoServerProofs`**: `TypeCorrect`, `AbortsExactlyThere`,
  `ServerOutlivesRequests`, for any number of requests.
  `ScopeAt` says which objects there are at each step of `main`, `ServersAt` that a
  server is started only while the deferred action that stops it is in the scope
  (or its own start raised), `RequestsAt` that an unanswered request keeps the
  HTTP server started. The scope is a sequence; the first lemmas of the module
  name the six it can be.

**Only model-checked.** `AnsweredOnFairShards`, `InitTerminates`, `SignalStops`,
`RequestAnswered`, `CallEnds` and `CalmShardsFinish` are liveness properties,
outside the prover's reach: their arguments need `ENABLED`. Every invariant and
action property of a passing run is stated by a theorem. The two violations,
`LiveHandlerKept` and `AlwaysAFuture`, are counterexamples and have no proof.

## 5. What is left out

* Contents of replies, of BSON values and of names, beyond equality: a filter or an
  update is one value. Of the options of `readDocument` it is modelled that one of
  another type raises, and that a limit, a skip or a sort may leave out documents;
  how many, in which order and in which form they come is not.
* Commands of many documents are one step of the server. MongoDB executes
  `update_many` and `delete_many` document by document, so that another command
  may come between, and one that fails in the middle leaves its first part.
* A command that the server executes only after the driver has raised, in a
  process that lives on (a time-out of the connection, say): after a raise the
  command has either been executed or never will be. `Bridge` has such late
  commands for a process that ends.
* A document that has several versions during a read may be returned in any; that
  a server may return a document twice if it moves in an index is not modelled.
* Driver calls of `Init` that outlive their process: the late commands of `Bridge`
  are those of requests. A request that reads or drops the database of `CONN_LOG`:
  the namespaces of the requests and the log are apart.
* Handlers of the router that attach or detach before their first suspension: they
  change the map under the loop of `call`, which is undefined behaviour.
* The destruction of static objects after `main` (`~DBClients`, with a `get()`
  outside the reactor) and the ownership of the handlers inside Seastar's routes:
  what happens is decided in Seastar and mongocxx, which are not in the
  repository. `LeftStarted` says which containers are started then.
* Of the demo, the routes that answer a constant or a file, and the conversions of
  the enum of `/hello/world`: look-ups in tables of three generated values.
* Logging, `LogDuration`, the random numbers nothing calls, aliases, build files.

Components and hazards in `PROJECT.json` give the reason for each.

## 6. Plan

Done, in the order of importance: `MongoStore`, `MongoDBInterface`, `CrudHandler`
with `AtMostOnce`; `DBClients`; `Lifecycle`; `Bridge`, their composition;
`EventRouter` with `Subscriptions`, and `EventDelivery`; `ShardedMutex`;
`DemoServer`; `FutureWrapper`; the proofs above.

Every invariant, action property and refinement of a passing run is proved. What
can be added:

1. An abstract specification of `DBClients` (a start that clears the log of earlier
   runs and then adds rows of its own, or fails), implemented by `Init`, which would
   replace three of its invariants by one statement.
2. The safety part of the liveness arguments: that `main_fut` and each coroutine
   always have a step to take, or wait for one that has.
