# SmartCacheDB in TLA+

A verification project for SmartCacheDB (repository *Enhanced-Redis*): a
Redis-like in-memory server in C++ with an "adaptive predictive" eviction
policy, a thread pool and a dump file. The modules are translated from the
source; TLC checks them on small instances and TLAPS proves all the invariants,
all the action properties and the safety part of all three refinements for every
value of the constants.

As committed the C++ does not compile (`RedisDatabase.h` lacks the declarations
of `getTotalKeyCount`, `delInternal` and `isExpired`, `meta_store` is private,
`ThreadPool.h` ends before its `};` and `#endif`), and there is no test suite.
The function bodies are complete and are what is modelled.

## 1. The system

| Component | State | Operations | Talks to |
|---|---|---|---|
| `AdaptivePredictiveCache` | `meta_store`: per key the access count, the last access, the TTL and when it was set, the score | `recordAccess`, `setTTL`, `getTTLRemaining`, `updateScore`, `evictCandidate`, `removeKey`, `contains`, `clear` | called by the database only, under its mutex |
| `RedisDatabase` (singleton) | `kv_store`, `list_store`, `hash_store`, the predictive cache, `db_mutex` | 26 operations on strings, lists and hashes; private `isExpired`, `delInternal`, `checkAndEvict` | cache; called by the handlers |
| dump / load | the file `dump.my_rdb` | `dump` (truncate, three loops, close), `load` (clear, then `set`/`rpush`/`hset` per record) | called by `main`, the persistence thread, `run`, `shutdown` |
| `ThreadPool` | `tasks`, `stop`, `queue_mutex`, `condition`, the workers | worker loop, `enqueue`, destructor | gets one task per client from the server |
| process lifecycle (`main`, `RedisServer::shutdown`, signal handler) | `running`, the threads, whether the process is up | load, start, dump every 300 s, SIGINT: dump and `exit` | database, file |
| `RedisServer::run` | listening socket, client sockets | accept, receive / process / send, close | pool, command handler |
| `RedisCommandHandler`, RESP parser | none | one handler per command | database |
| `RedisClient` | a socket | build a command, send, parse a reply | server |

One mutex (`db_mutex`) covers every public operation of the database from its
first to its last line, so each is atomic. What is hard is therefore

- inside the database: keys that have expired and are still stored, names that
  are a string, a list and a hash at once, four maps that every operation must
  keep together, eviction of at most one key per write;
- between threads: the pool's condition variable, commands that consist of
  several operations, the dump against the commands, the signal handler on
  top of a thread that may hold the mutex, and what goes on while the process
  ends;
- on the connections: a stream with no boundaries between requests or replies,
  clients that idle, leave or send what the parser chokes on, one worker per
  connection for as long as it lasts, replies put together by hand and read by
  a parser of their own;
- over restarts: what the dump file holds and whether it can be loaded.

`PROJECT.json` lists these hazards one by one with their lines and with the
properties aimed at them.

## 2. The modules

```
ListRemoval <-- LRem <-- LRem_proofs
     ^
AdaptivePredictiveCache <-- RedisDatabase <-- RedisDatabaseProperties <-- MCRedisDatabase
                              ^      ^             ^-- RedisDatabase_proofs
                              |      |                       ^-- RedisDatabaseSteps_proofs
                              |      |                                     ^
                              |      +-- DumpFormat <-- MCDumpFormat       |
                              |              ^-- DumpFormat_proofs         |
        Resp <-- RedisCommandHandler <-- RedisCommandHandlerProperties     |  <-- MCRedisCommandHandler
                              ^                          ^-- RedisCommandHandler_proofs
                              +-- RedisClient <-- MCRedisClient    |
                                   ^   ^---------------------------+
                     RespRequest --+

WorkQueue <== (refinement) == ThreadPool <-- ThreadPool_proofs
     ^-- (instance) -- RedisServer <-- MCRedisServer
                                   <-- RedisServer_proofs

Persistence <-- MCPersistence
            <-- Persistence_proofs
```

### AdaptivePredictiveCache
`meta_store` is a partial function from keys to `KeyStats`; every member
function is an operator on such a function and on the time `t` of the call, in
seconds (all durations of the code are truncated to seconds). The field `score`
is not kept: `evictCandidate` recomputes it before every use and `getScore` has
no caller. Scores are fixed-point numbers; `log(1 + n)` is the constant
function `Log1p`, of which only strict monotonicity is assumed. The order of the
hash table is left open: `evictCandidate` is the *set* of the keys the code may
return.

### RedisDatabase
The operations are operators on a database value under their C++ names
(`set`, `get`, `rename`, `lrem`, `hmset`, ...), returning the new database with
the reply, or the set of databases an eviction may leave. Three shapes occur
again and again and are operators of their own: `ReadOp` (an expired key is
deleted and missed, a hit records the access), `UpdateList` and `ReplaceList`
(change an existing list, and delete the key when it becomes empty) and
`checkAndEvict`. The actions apply them to the variable `db`; `Tick` lets time
pass between two operations. `lrem`'s three loops are modelled by the positions
they erase (`ListRemoval`), and the vector of pairs of `hmset` by the map it
amounts to.

`RedisDatabaseProperties` holds the properties, `MCRedisDatabase` the logarithm
table and the symmetry (keys and values are interchangeable as long as none of
them is the empty string).

### ListRemoval and LRem
`ListRemoval` says which positions `lrem` is to erase. `LRem` has the loops
themselves, one turn a step: a vector that shrinks under the iterator that walks
it, forwards or (on a reverse iterator made anew after every erase) backwards,
and a count that is negated as an `int`. `LRemExact` relates the two.

### Resp and RedisCommandHandler
A request is a command name with arguments, a reply a sequence of the items that
a RESP parser reads at once (`Resp`). Every handler is an operator under its C++
name that returns the databases a command may leave, each with its reply;
`processCommand` tests the number of arguments (`MinArgs`) and dispatches. A
command is one step; LPUSH and RPUSH are several (`BeginPush`, one `PushElement`
per element, `EndPush` with the LLEN for the reply), since the database is
unlocked in between, and `frame` holds what each worker has left to push.
`Requests` are made again and again, `Pushes` at most once, with elements that
can be told apart. `last` remembers the last request with its reply.
The module extends `RedisDatabase`: it is the composition of the two, and
`ImplementsDatabase` says that the database below the handlers takes only the
steps of its own specification.

### RedisServer
`RedisServer::run` over the pool's promise: `Pool == INSTANCE WorkQueue WITH
Task <- Client, ...`, so that `Accept` is `Pool!Submit`, the end of the loop
`Pool!Close`, and the end of a task `Pool!Finish`. Per client there is its side
(`peer`), the descriptor (`socket`), what has arrived (`inbox`) and the place of
its task in the loop recv / processCommand / send / close (`at`). One recv
returns any number of the requests that have arrived and the first is
processed; the rest are lost. A "bad" request makes `processCommand` throw
(`std::stoi`): the task ends and the socket stays open. A reply to a client
that has left resets the connection, and the next one raises SIGPIPE.

### RespRequest and RedisClient
`RespRequest` is the wire format of requests and `parseRespCommand`. The stream
is a sequence of words, each with its CRLF: what begins a request (`Star`), the
`Length` before each of its words, and the words. `Data` is what one recv
returns of it: some words, the last of them without its CRLF or without its end,
and perhaps the CRLF of a word that came before. `parseRespCommand` gives the
tokens that come of any such data: the elements of one request as far as they
are there, or, where the data does not begin with `*`, every word of it, the
next request's included. A line that begins with `*` and is no request's
(`Starred`: an argument, or part of one) makes `std::stoi` throw or is taken for
some number.

`RedisClient` has `CLI::run`, `RedisClient` and `ResponseParser` at one end of a
connection and `RedisCommandHandler` behind recv and send at the other. `need`
is the number of values the recursive parser has still to read; its array loop
starts at -1 and therefore reads one too many. A recv may return any part of the
stream that has come (`Received`), inside a word in the ways that `Tears` lists;
the first token is the command (`RequestOf`). So a HGET torn before its G is
followed by a GET of its own, an argument may run as a command, and the words of
a later request become arguments of an earlier one's rest. When the parser
throws, the task ends with the socket open: `link` is "deaf" and nobody answers
any more. The server may die at any moment, with replies under way or not
(`Truncated`); a reply that ends inside the number of a header makes the client
throw ("aborted").

### DumpFormat
What `dump` writes and how much of it `load` reads. Keys, fields and values are
divided by white space into any number of words (`WordsIn`); the text is the
letter it begins with and the keys and contents behind it, for neither the two
characters `\` and `n` that end a record nor the letter after them divide
words: they stick to the word before. `BeginDump` truncates the file, and each
`DumpKey` is one turn of one of the three loops, in any order of the keys. The
mutex keeps the database as it is meanwhile but not the clock (`Wait`), so keys
may expire between two turns. `load`'s first `getline` takes the whole file, and
its first call never returns (`Persistence`); `MakesCall` says whether there is
one, which depends on the letter and the number of words that follow.

`Persistence` lets a load pass only an empty file. `SilentLoadLosesNothing` is
what that rests on: there is no other file of which `load` makes no call, unless
all that was dumped has expired. What the first call would store is another
matter, and wrong whenever a value has white space in it or another record
follows; nobody ever reads it, for the start hangs (`StartServes`).

### WorkQueue and ThreadPool
`WorkQueue` is what the pool promises: tasks are submitted, started in the
order of submission, each by one worker and once, and finished; after `Close`
none is submitted any more, all that were submitted are started, and when they
are finished the queue is `Closed`. `ThreadPool` has the steps of the code at
the granularity of the mutex and the condition variable: a worker locks
(`Acquire`), tests the predicate and takes a task, exits, declines, or blocks
on the condition, which releases the mutex; spurious wakeups are possible at
any time; `enqueue` is a critical section followed, after the unlock, by
`NotifyOne`; the destructor sets `stop` in a critical section, notifies all and
joins. `ImplementsWorkQueue` is the refinement; its mapping is at the end of
the module. The tasks are opaque: that a client's task may never end is why
`Finish` has no fairness.

### Persistence
The life of the process around `db_mutex` and the file. The content of the
database is abstracted to the set of the writes it reflects, each of them in
one of the three stores that `dump` writes out one after the other. An agent's
`pc` says where it is: `Main` loads, sets the server up (`Setup`), loads again,
listens, serves once `accept` has returned a client (`Accept`), and joins; when a
call for the socket fails, or `accept` before any client has come, it goes to
"clientless" and ends with no client ever served. A worker takes writes only
when `Main` serves or has served; it locks, commits and replies. `Persister` and
`Handler` run `dump` (`DumpOpen` truncates the file, three times `DumpStore`,
`DumpClose`).
`Interrupt(a)` puts the SIGINT handler on top of thread `a`, which takes no
step until the handler is done, that is never again. The process ends by
returning from `main`, by `exit` after the handler's dump, or by a kill, and
may be started again on the file it left; of a file that was open at the end any
part may be there (the stream's buffer is written out in pieces). Records cut in
the middle are not distinguished from whole or absent ones. Locking `db_mutex`
twice in one thread is undefined in C++; the model blocks that thread for ever,
as a `std::mutex` over a plain pthread mutex does.

## 3. The runs

| Run | Instance | Shows |
|---|---|---|
| `strings` | 3 keys, capacity 2, TTLs 1 and 2, 3 seconds | the capacity is never exceeded; expired keys are evicted before live ones; a key without TTL that was used later *and* more often than another is never evicted in its place; deadlines change only by SET, EXPIRE and RENAME; statistics always count an access |
| `types` | 2 keys that may be all three types, 2 values, 1 field, lists up to 2 | the four maps stay consistent, no empty list or hash is stored, and lazy expiry is invisible: every read replies, and every write replies and leaves, what it would if expired keys vanished on time; RENAME moves content and deadline and nothing else |
| `pool` | 3 workers, 3 tasks | mutual exclusion, no lost wakeup, refinement of `WorkQueue` with its liveness |
| `lifecycle` | 2 workers, 2 writes in different stores, 2 starts, one Ctrl-C per start | a successful dump is a snapshot; answered writes get into a finished dump while the process is left alone; Ctrl-C ends the process unless it interrupts the holder of `db_mutex` |
| `lrem` | lists up to 6 over 2 values, all counts of a four-bit `int` | the loops of `lrem` erase what they should, from either end, visit one element a turn, and end; the least `int` alone may leave the list as it is |
| `commands` | 1 client, 41 requests: every command, proper and refused, 2 keys of any type, room for one entry | a refused command changes no live key; every reply but those known not to be is one RESP value; the handlers refine `RedisDatabase` |
| `pushes` | 2 workers, an RPUSH and an LPUSH of two elements each, six commands of others on the same keys | no element is stored twice, and elements of one push keep their order, whatever happens in between |
| `server` | 3 clients (one that may send anything, one well-behaved, one silent), 2 workers, 2 requests each | who owns a socket; departures do not end the server; requests are answered; an idle worker takes the next client; the pool is joined once the clients have left |
| `client` | 2 commands of eight, 2 recvs that end inside a request, in one of 7 words or between any two, arguments that begin with `*`, a server that may die | when the client prompts nothing is left to come or to read, as long as no recv has ended inside a request; the prompt comes back even then, unless the task threw |
| `dump_format` | 2 keys of any type, white space in the value and the field, dumps in steps, any load | a load without a call has read nothing alive |

Two runs refute a promise of the documentation; `PROJECT.json` quotes the line.

| Run | Promise | What the code does |
|---|---|---|
| `shutdown_loses` | `ShutdownKeepsAcked` | a client accepted has its write answered after the handler's dump: it is lost |
| `load_deadlock` | `StartServes` | a client accepted has written, and a dump holds the write; loading that record locks `db_mutex` twice |

Each property of a passing run has a mutant of a mapped definition (in the
module, next to the original, marked "Mutant of") which that run catches.

### Divergences met while modelling
The models have the code as it is. Where a document, a comment or an error text
says otherwise the definition follows the code, and the properties are stated
around it; these are the places. (Paths under `src/src/` unless given.)

| Promise | What the code does | In the model |
|---|---|---|
| README.md:134, keys are evicted lazily once expired | EXPIRE on an expired key that is still stored gives it a new life (`RedisDatabase.cpp:174`) | `expire` |
| `RedisDatabase.cpp:197`, an existing new key is deleted first | it is deleted also when the RENAME then fails (`:199`) | `rename`; `lost` in `ErrorsChangeNothing` |
| `RedisDatabase.cpp:311`, an empty list is deleted | so are the string and the hash of that name (`:312`) | `ReplaceList` |
| README.md:25, the lowest-scoring key goes | if that is the key `""` an arbitrary one goes (`RedisDatabase.cpp:53`) | `KeysToEvict`; the theorem on eviction assumes `EmptyKey \notin Key` |
| `RedisServer.cpp:27`, the signal handler ensures termination | on a thread that holds `db_mutex` it hangs (`:55`) | `SignalEndsUnlessHeld` |
| README.md:39, dumped on graceful shutdown | the persistence thread may truncate the file after the handler's dump (`main.cpp:21`) | `DumpOpen`, `Ends` |
| README.md:15, handles multiple clients efficiently | a connection keeps its worker until it ends (`RedisServer.cpp:146`) | `IdleWorkersServe` asks for idle workers |
| `RedisServer.cpp:160`, the socket is closed when done | not when `std::stoi` throws (`RedisCommandHandler.cpp:34`, `:43`) | `Throw`, `Thrown` |
| `RedisServer.cpp:122`, passing `cmdHandler` by reference is fine | `run` returns, and destroys it, while tasks go on (`:146`) | `AcceptFails` |
| `RedisServer.cpp:163`, the destructor joins the workers | it waits as long as a client stays (`:153`) | `JoinsWhenClientsLeave` |
| README.md:103, any RESP client can connect | of several requests in one recv one is answered (`RedisServer.cpp:157`) | `Recv`, `Window` |
| `RedisServer.cpp:154`, the loop ends when the client leaves | two replies to a client that has left end the process (`:158`) | `Reply`, `Window` |
| README.md:34, multi-element LPUSH and RPUSH | two pushes to one list mix, and a push may evict its own first elements (`RedisCommandHandler.cpp:174`) | `PushElement` |
| README.md:34, LPOP and RPOP | LPOP sends no value (`RedisCommandHandler.cpp:186`), RPOP pops at the head (`:196`) | `handleLpop`, `handleRpop` |
| README.md:103, any RESP client | LGET sends a nil behind every element (`:146`), ECHO an error without `-` (`:62`) | `handleLget`, `Junk`, `Misanswered` |
| README.md:113, `SET foo "bar" EX 60` | the TTL is ignored (`RedisCommandHandler.cpp:75`) | `handleSet` |
| `RedisCommandHandler.cpp:171`, RPUSH requires a value | the test asks for a key only (`:170`) | `MinArgs` |
| `RedisClient/src/main.cpp:26`, array responses are read | one value too many is awaited (`RedisClient/src/ResponseParser.cpp:86`) | `ReadValue`, `Misread` |
| README.md:3, full RESP parsing | each recv is taken for a request: the rest of one that is cut is a command of its own, takes the next one's words as arguments (`RedisCommandHandler.cpp:18`), or, if it begins with `*`, ends the task (`:34`) | `Received`, `parseRespCommand`, `Throw` |
| `RedisClient/src/ResponseParser.cpp:31`, a closed connection is an error text | a reply that ends inside a header's number makes `std::stoi` throw (`:56`, `:81`) and ends the client | `Torn`, `ReadValue` |
| `RedisClient/src/CLI.cpp:47`, a failed send is reported | the second one raises SIGPIPE (`RedisClient/src/RedisClient.cpp:57`) | `SendSignals` |
| `RedisDatabase.cpp:364`, a negative count removes from the tail | for the least `int` nothing may be removed (`:365`) | `Negations`, `LRemExact` |
| README.md:39, the dump is loaded | words are read as they stand between white space: a value is cut at its first space, and the separator and the next letter are part of the word before (`RedisDatabase.cpp:579`, `:627`) | `WordsIn`, `WordsOf` |

### Bounds
`MaxAccess` and `MaxTime` cap the counters in the guards of the actions,
`MaxListLen` the lists; `Task`, `Write` and `MaxStarts` how much is ever
submitted, written, started. Three keys against room for two is the least with
a choice of victim and a survivor to compare it with; TTLs 1 and 2 within three
seconds let keys expire before, during and after others; two keys with all
types cover every pair of source and target of RENAME. Three workers can be
asleep, awake without a task and in a critical section at the same time, and the
destructor runs with zero to three tasks left. Two writes in the first and the
last store lie on both sides of a dump in progress; two starts are a crash or
shutdown and the load that follows it.

`commands` has one worker: commands are atomic, so several clients add only the
interleavings of pushes, which `pushes` has. With room for one entry nearly every
write evicts, and up to five accesses to a key leave room for what follows a
push of two elements; `types` has keys of several types at once. There two elements per push are the
least with an order, and the list has room for all four. Three clients on two
workers are one that must wait; of the clients one may throw and one never speaks.
Two requests per client are the least that could meet a reset connection;
`Window = 1` (a client waits for each reply) is a condition of `ServerSurvives`
and `RequestsAnswered`, which fail with a larger one as the table above says.
Two commands of the client are one that leaves something behind and one to
notice; two recvs that end inside a request are one that leaves a rest and one
that takes it with the next request or cuts that. The words that can be torn are
one of each kind; parts of words mean nothing (`junk`), are a command (the GET in
HGET), or begin with `*`. `MaxListLen` and `MaxAccess` are larger than anything
such arguments can reach. A dump of two keys has
records before, behind and of the same store as another, and expired and live
ones; two accesses to a key let a list that a push has made be emptied again. Its
property does not tell values or fields apart, and a key of several words only
adds to what may make a call; the theorem has any number of words in each. `IntMax = 7` is a four-bit `int`, with counts past
both ends of a list of six and the overflow of the negation. In the other runs
and in the refinements, LREM's counts and the indexes (`Counts`, `Indexes`) go
from one end of the longest list to the other, the indexes one beyond either
end: a larger count acts like 0, and a larger index like that one.

`CHECK_DEADLOCK FALSE` is set where the system may stop: the client quits, the
server's clients have said all they had to say or the process has ended, a push
has reached `MaxListLen` or `MaxAccess`.

### Fairness
- *WorkQueue, ThreadPool*: worker threads run, and a thread that keeps
  competing for `queue_mutex` gets it (strong fairness of the acquisition: the
  C++ standard does not promise it, every mutex implementation in use gives it
  with probability one). Nothing is assumed of clients (`Enqueue`), of the end
  of a task (`Finish`), or of spurious wakeups; the caller of the destructor
  is not assumed to call it, but once it has set `stop` it goes on.
- *Persistence*: the threads run (weak fairness of each step they can take),
  `DumpOpen` is strongly fair, since it competes for `db_mutex` and since the
  file can be expected to open some time if it is opened again and again. Signals,
  kills, restarts, clients and the end of the accept loop are free to happen or
  not. Nothing is fair that an interrupted thread would have to do.
- *RedisServer*: `accept` returns what is in the backlog, each worker's task goes
  on, the pool starts a queued task while a worker is idle and joins when all is
  done (weak fairness of the promise, which `ThreadPool` implements). Clients
  need not send, nor leave, and `accept` need not fail.
- *RedisClient*: a reader with something to read reads it, a server that has
  received something goes on. Nobody has to type, and the server may die or not.
- *LRem*: the loop goes on.

## 4. The proofs

All theorems hold for every value of the constants that satisfies the named
assumptions of the modules (`Log1pAssumption`, `DatabaseAssumption`,
`PoolAssumption`, `PersistenceAssumption`, `ServerAssumption`), which TLC
evaluates in the runs, as it does `HandlerAssumption`, `ClientAssumption`,
`LRemAssumption`, `FormatAssumption` and `RequestAssumption`, and, as hypotheses of the theorems
about the handlers, `MCRequestsFit` and `MCOnlyPushed`.

- `RedisDatabase_proofs`. `TypeOK` alone is not inductive (`delInternal` and
  `rename` say what happens to the statistics only if they know which stores
  hold the key), nor is `WithinCapacity`. The invariant is
  `IInv == TypeOK /\ MetaTracksStores /\ Holds(db, MaxCacheSize)`: the types,
  statistics exactly for the stored keys, and the count of entries at most the
  capacity with finite stores. Lemmas say what each helper (`Put`, `Erase`,
  `Touch`, `delInternal`, `ReplaceList`, `MoveEntry`, `checkAndEvict`, ...)
  does to each of the three; one step per action combines them. For the
  capacity the argument is that a write adds at most one entry, and that
  `checkAndEvict` then finds a key that is stored, because statistics exist
  only for stored keys, and deletes at least one entry of it. Theorems
  `TypeCorrect`, `MetadataTracksStores`, `CapacityRespected`.
  A second invariant, `Full(db)`, on top of `IInv`: no list and no hash is
  empty, and all statistics have counted an access. It needs `IInv`, for an
  operation that deletes a key or drops its statistics changes one map because
  of another. Again one lemma per helper and per operation. Theorems
  `CollectionsNeverEmpty`, `StatisticsPopulated`. That hashes are finite is part
  of it: `hmset` is called with the vector of pairs of one request, which
  `FieldValues` says.
- `RedisDatabaseSteps_proofs`. What a step may not do. `ExpiredEvictedFirst`:
  among the candidates of `evictCandidate` there is a live key only if no key
  has expired. `BetterKeysSpared` needs that scores are defined (`Scored`) and
  that of two keys without TTL the one used later and more often has the greater
  one (`BetterScores`): the score is a sum of a quotient that grows with recency
  (`Quotient`), a logarithm, of which only that it increases is used, and a
  share of the TTL that both lack. The write counts an access to its own key
  (`Accessed`), which is why the property leaves that one out. `RenameMoves`
  needs `Full`: `rename` drops statistics that have counted nothing, and the TTL
  with them. `DeadlinesOwned` goes through the operations by two relations:
  `Written` says what a write on a key makes of a database before it evicts, and
  `Edited` adds that every TTL is the old one, but for a key that is new or had
  expired.
  The second half is about expired keys. What a client sees is the database
  without them. `Purges(d, p, t)` says that `p` is such a database
  (`PurgedPurges`: the one the properties use is), and `Eager(d, p, t)` adds the
  invariants of both. For each read a lemma says that it answers the same of `d`
  and of `p`; for each write, that the two results have equal replies and are
  again so related. Keys are dealt with one at a time (`ChangeOfOneKey`),
  eviction by cases: with an expired key stored, `d` evicts one of those and `p`
  is already within the capacity, for `d` exceeded it by at most one entry; with
  none, both have the same candidates. Theorems `ExpiryInvisible`,
  `UpdatesIgnoreExpired`.
- `LRem_proofs`. `LRemErasesExactly`: the list is described by the positions of
  the call's list that are left, each element at its `Rank`. Erasing at a rank
  drops that position (`EraseAtRank`), which is all that the moving of the others
  amounts to. The invariant says where the loop stands in the list of the call:
  at `it + removed`, walking forwards (`Forwards`), and at `it`, walking backwards
  (`Backwards`), with the occurrences passed erased and counted; or, with the
  least `int` not negated, at the beginning for ever. When a loop ends, these are
  the occurrences that `RemovedPositions` counts off (`FirstRemoved`,
  `LastRemoved`). `std::remove` is outside the repository; `RemoveAll` is what
  it promises, that the elements kept keep their order. `LRemTurns` comes from the
  same invariant: the elements still to visit are those of the call's list on one
  side of the iterator, one fewer after every turn. Together with fairness, which
  is TLC's, that is why `LRemReturns` holds for any list.
- `ThreadPool_proofs`. Mutual exclusion is part of `TypeOK`, and inductive
  (`MutualExclusion`). `WakeupsNotLost` proves `NoLostWakeup` on top of it.
  `ImplementsWorkQueueSafety` proves `Spec => Promise!Init /\
  [][Promise!Next]_Promise!vars`: one case per action, each a step of the
  queue or a stutter under the mapping.
- `Persistence_proofs`. `IInv == TypeOK /\ Dumping /\ Commands /\ Phases`, where
  `Dumping` says what the file holds while someone is in `dump` (exactly the
  writes of the stores already written), and `Commands` and `Phases` which
  place goes with a write in flight and with which part of the start. From it
  follow `MutexExcludes` and the action property `DumpsAreSnapshots`.

- `RedisServer_proofs`. `SocketsOwned` is inductive only with `Lines`: no
  connection waits twice, in the backlog or in the queue, and one in the backlog
  has no socket yet. `TypeOK` needs `Owing`: a client is owed a reply for each
  request that has arrived and the one being processed, and none that it did
  not ask for. Theorems `ServerTypeCorrect`, `DescriptorsOwned`; and
  `PatientClientsSpareServer`, assuming `Window = 1`: by `Survival` a connection
  that has been reset has nothing left to receive or to answer, so the send
  that would raise SIGPIPE is never made.
- `RedisCommandHandler_proofs`. `HandlersImplementDatabase`: HandlerSpec
  implements the specification of the database, for any requests whose
  arguments fit (`Fits`) and any number of workers. `CommandIsOperation` takes
  the commands one by one; for pushes the invariant `Frames` says that what a
  worker has left is an end piece of the arguments of an accepted push. All
  theorems about the database therefore hold below the handlers, and
  `HandlerTypeCorrect` follows from one of them and `Frames`. Command by command
  too go `RepliesAreValues` (a reply is one value, whatever the lengths of what it
  lists) and `RefusalsChangeNothing` (`RefusalView`: a command answered with an
  error never got to the database, or found no key or index there, and has done
  no more than drop what had expired, or the new key of a RENAME).
  `PushesStayInOrder` has the invariant `Standing /\ Pending`, in terms of the
  list store: any two elements of a push that are stored are in order
  (`Standing`), and an element not yet pushed is in no list and has exactly one
  request or worker that will push it (`Pending`; without it a push could bring
  an element a second time, or out of turn). Every operation but a push
  leaves lists that are `Thinned`: elements go, lists move, but what stays is as
  it was. That `lrem` does so comes from counting the positions kept
  (`NthOfIsElement`). A push is an extension at one end between two thinnings,
  for it drops what has expired and evicts (`pushExtends`, `ExtendedStands`). It
  assumes that the elements of `Pushes` come from nowhere else (`OnlyPushed`);
  that they are distinct is `HandlerAssumption`.
  The last part is about `RedisClient`. `ClientInStep`, from an invariant that
  says where the one exchange stands, `Exchange`: the request is on the wire
  (`Sent`), a worker is inside a push (`Served`), the reply is under way
  (`Replied`) or half read, or nothing more comes since the server is gone
  (`Gone`). A recv that ends behind a request has taken exactly the one that is on
  the wire (`OneReceived`: no other word of it is a `Star`), and the parser finds
  in it the words that were said (`WholeParsed`). That replies to requests the
  client does not misread are one scalar comes from the lemma under
  `RepliesAreValues`.
  `ClientImplementsDatabase` is the refinement once more, for whatever a recv may
  bring. It has a set `W` of words, of any size: those sent, `Star`, `Length` and
  the parts that words may be torn into. They are of the kinds and in the ranges
  that the operations are specified for (`WordsFit`; the code takes any string for
  a key, a field or a value). The invariant `DInv` says that nothing but such words
  is on the wire, and that a worker inside a push has a request made of them.
  Whatever `parseRespCommand` makes of a part of the stream is made of words
  (`TokensAreWords`), and any request made of words is one that
  `HandlersImplementDatabase` covers (`MadeFits`).
- `DumpFormat_proofs`. `SilentLoadsAreEmpty`. However long the text, only its head
  matters: `Leads` says that it begins as the record of some key and contents,
  which is enough for a call (`LeadsCalls`), since no list or hash is empty
  (`Full`) and everything has at least one word. What is written later does not
  change that (`LeadsFrom`). The invariant is `DumpInv`: the database's own,
  `Snapshot` (while a dump is under way, the database is the one it began with)
  and `Written` (the text leads, or it is empty and all that the dump has come to
  has expired, now and from then on, `ExpiredStays`).

Three theorems assume `EmptyKey \notin Key`: that the empty string is no key.
`evictCandidate` returns `""` for "no candidate", and `checkAndEvict` then takes
the first key of the hash table; with such a key they are false. Section 3 lists
it as a divergence.

Only model-checked: all liveness (the pool's fairness, `PeriodicallyPersisted`,
`SignalEndsUnlessHeld`, `RequestsAnswered`, `IdleWorkersServe`,
`JoinsWhenClientsLeave`, `PromptReturns`, `LRemReturns`), which the prover does
not handle. Of `ImplementsWorkQueue` the fairness is, too.

## 5. Not modelled

- Splitting typed lines into words, the one-shot command-line mode of the
  client, name resolution: pure functions of the input or of the system.
- What the client's parser makes of the text it finds where it expects a prefix
  (after LPOP it is out of step in any case, and `Misread` says so).
- Keys, fields and values that are empty, blank or hold a newline, in a dump.
  Dumps cut short by the end of the process, as text (`Persistence` has them as
  sets of records). Errors of the stream that `dump` does not test, a full disk
  for instance: it returns true with part of the data written
  (`DumpIsSnapshot` is about dumps whose writes succeed).
- In the client's requests, words with white space in them: where a recv ends
  inside a request they would be divided further. Requests with wrong lengths;
  of malformed ones `RedisServer` has the exception only.
- Locks inside the library. A SIGINT handler that interrupts its thread inside
  `malloc` or a stream operation may wait for a lock that this thread holds, as it
  may for `db_mutex`; `SignalEndsUnlessHeld` is about `db_mutex` alone.
- The width of `access_count`, rounding of the floating-point scores, the time
  inside one operation; list indexes and TTLs near the limits of `int`.
- What other threads do to static objects destroyed by `exit`, and tasks to the
  handler that `run` has destroyed: undefined behaviour about which nothing is
  promised. The models end the process in one step.
- Futures of `enqueue`, which nobody waits for; formatting and logging; build
  files.

## 6. Plan

Done, in this order: the cache and the database with their runs and proofs; the
pool with its abstract queue and proofs; the process lifecycle with its proofs;
the server over the pool's promise; the handlers over the database, and their
refinement; the client and the connection; the loops of `lrem`; the dump format;
the further proofs about the database, the server and the handlers; the order of
pushes and the loops of `lrem` as theorems; the dump record by record with its
proofs, and the refinement of the database below the connection.

Every safety property and every action property that a passing run checks is now
a theorem. What is left needs another prover, or other code: liveness, and the
parts named in section 5.
