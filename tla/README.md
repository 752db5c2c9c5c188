# AnemoDB: a TLA+ model

AnemoDB is a read-through cache in front of PostgreSQL. Clients send a query over
TCP; a pool of worker threads answers it from an LRU cache with a time to live, or
fetches the result through a pool of database connections. The program is small,
but nearly all of its state is shared between threads under four kinds of mutex,
and some is read outside the mutex it is written under. These modules model that
concurrency, check it on small instances with TLC and prove the safety properties
that matter most with TLAPS for every size.

Paths are relative to the repository; `Cache.hpp:49` stands for line 49 of
`Cache Components/Cache.hpp`, and likewise for the other headers.

## 1. Inventory

### 1.1 Components

| Component | Source | State | Operations |
|---|---|---|---|
| Cache | `Cache.hpp` | LRU list `cacheLines`, `cacheDirectory` (key to iterator), `payload_bytes`, per line: value, state, expiry | `lookupOrReserve`, `evictReadyNode`, `completeReservation`, `cancelReservation`, `getMetrics` |
| ThreadSafeQueue | `ThreadSafeQueue.hpp` | bounded FIFO of sockets, `is_stopped` | `push`, `pop`, `stop`, `size` |
| ConnectionPool | `ConnectionPool.hpp` | FIFO of slots (a connection or nothing) | constructor, `acquire` (waits 5 s, reconnects), `release` |
| CacheEngine | `CacheEngine.hpp` | worker and listener threads, `server_fd`, `is_running`, counters | constructor, `listenerLoop`, `workerLoop`, `queryDatabase`, destructor |
| Telemetry | `CacheEngine.hpp:330-529` | throughput window under `stats_mtx` | `generateStatsReport`, `generateStatsJson` |
| Request framing | `CacheEngine.hpp:54-68, 117-172, 195-251` | a read buffer and a reply per request | `readQuery`, `writeAll`, `isReadOnlyQuery` |
| Admin console | `main.cpp` | the settings, `input`, `command`, `g_shutdown_requested` | configuration, start, commands, signals |
| Traffic generator | `Web Dashboard/traffic_generator.py` | thread counts, mode, a lazily created pool | `set_config`, `worker_loop`, `query_db` |
| Dashboard | `Web Dashboard/web_dashboard.py`, `static/script.js` | what the page shows | polling, control requests |
| Monitor, benchmarks, SQL, site, build | the rest | none at run time | |

### 1.2 How they interact

`main` owns a `CacheEngine`, which owns the cache, the queue, the pool and all
threads. The listener accepts a socket and pushes it; a full queue makes it answer
`SERVER_BUSY` and close. A worker pops a socket, reads the query, and either
answers a statistics request, rejects what is not read-only, or calls
`lookupOrReserve`. That call makes it the *leader* of a new line, or a *follower*
of an existing one. A leader borrows a connection, runs the query, publishes the
result with `completeReservation` or withdraws the line with `cancelReservation`;
a follower sleeps on the line's condition variable until its leader notifies. The
destructor closes the listening socket, joins the listener, stops the queue and
joins the workers. The dashboard and the traffic generator are clients in other
processes.

### 1.3 What is hard

* **Two mutexes over one line.** The list and directory are protected by
  `cache_mutex`, a line's value and expiry by its `node_mtx`. A line's state is
  written under `node_mtx` and read by lookups and evictions under `cache_mutex`
  only, so it can become READY or FAILED between two reads of one scan.
* **Lines outlive their place in the cache.** A `shared_ptr` keeps a line alive for
  its leader and followers after it was evicted, expired or cancelled and a new
  line for the same key took its place.
* **A fetch may fail at any point**: no connection, a refused query, an allocation
  failure while the result is copied, before or after the line was published.
* **Notifications after the unlock** in the queue and in the pool, with workers
  that may overtake those that were notified.
* **Time**: a TTL fixed before publication and checked at lookup; a five-second
  limit on `acquire`.
* **Slots that come back empty** when reconnecting fails.
* **Shutdown** while requests are queued, being read, or waiting on each other.
* **Streams** cut anywhere, also within the delimiter, and connections closed with
  input that nobody has read.
* **A console that blocks** while signals arrive and threads come and go.

### 1.4 What makes each part correct

* Cache: list and directory agree; one fetch per key at a time; a follower gets the
  result of its own key; no wakeup is lost; a line in flight is never evicted; the
  list grows beyond its capacity only by lines in flight; bytes are accounted for
  exactly; a hit is not staler than the TTL allows; every request is answered.
* ThreadSafeQueue: accepted sockets are handed out once, in order; the bound
  holds; nobody sleeps while a task has nobody on its way; shutdown drains.
* ConnectionPool: slots are neither lost nor made; no waiter is forgotten; a query
  never runs on a connection known to be closed; every call ends.
* CacheEngine: every accepted socket is closed exactly once; shutdown ends.
* Telemetry: the total of a report fits its hits and misses as far as reads one by one can;
  the throughput window never subtracts a later sample from an earlier one.
* Framing: the query found is that of the first delimiter however the bytes are
  cut, the size limit is enforced, and a client that gets an answer gets all of it.
* Console: a server that takes commands has the settings it was given and the
  workers it was asked for, stops when told to, and leaves no thread behind.
* Traffic generator: the number of threads follows the target.

## 2. Modules

| Module | Role |
|---|---|
| `Cache` | the cache and the worker protocol on it, in full |
| `ReadThrough` | what the cache promises: flights per key, one outcome for a leader and all that joined it |
| `MCCache` | constants of the TLC instances of `Cache` |
| `CacheProofs` | theorems about `Cache` |
| `ThreadSafeQueue` | the request queue with its mutex, condition variable and late notifications |
| `TaskQueue` | what the queue promises: bounded, FIFO, exactly once, work-conserving, drained at shutdown |
| `MCThreadSafeQueue` | symmetry for TLC |
| `QueueProofs` | theorems about `ThreadSafeQueue` |
| `ConnectionPool` | constructor, `acquire`, `release` and `queryDatabase` |
| `MCConnectionPool` | symmetry for TLC |
| `PoolProofs` | theorems about `ConnectionPool` |
| `CacheEngine` | listener, workers, client sockets, counters and destructor, composed with `TaskQueue` and `ReadThrough` |
| `MCCacheEngine`, `EngineProofs` | symmetry and answers for TLC; theorems about `CacheEngine` |
| `RequestFraming` | one request on its connection: `readQuery`, the reply, `writeAll`, `close`, and the client |
| `MCRequestFraming`, `FramingProofs` | streams and results for TLC; theorems about `RequestFraming` |
| `Console` | `main()` and the threads it starts |
| `MCConsole`, `ConsoleProofs` | numbers for TLC; theorems about `Console` |
| `Telemetry` | reports built by several threads from shared counters and one throughput window |
| `MCTelemetry`, `TelemetryProofs` | symmetry for TLC; theorems about `Telemetry` |
| `TrafficGenerator` | the threads of the dashboard's load generator |
| `MCTrafficGenerator`, `TrafficProofs` | symmetry for TLC; theorems about `TrafficGenerator` |

### 2.1 `Cache`

State and code: `cacheLines`, `cacheDirectory`, `payload_bytes`, `cache_mutex`
have their names in `Cache.hpp`. `node` maps the address of a `CacheNode` to its
fields, `node_mtx` to the owner of its mutex. `query`, `line` and `response` are
locals of `workerLoop` (`query`, `cacheline`, `dbResult` and `final_response`).
`scan` is the reverse iterator of `evictReadyNode`. `now` is `steady_clock`. The
directory maps a key to the line rather than to a list iterator; that the iterator
is valid is a property (`DirectoryConsistent`), not an assumption.

One action is what a thread does between two points at which another thread can
observe or change what it works on. A lookup that hits is one action, since
everything it touches is under `cache_mutex`. A lookup that misses keeps
`cache_mutex` over several actions (`LookupMiss` or `LookupExpired`, then
`EvictTail`, `StartScan`, `ScanSkips`, `ScanEvicts`, `Reserve`), because each
reads the state of a line that its leader may change at the same time under
`node_mtx`. Publication is split where the order matters: `CompleteWrite` (value,
expiry, accounting), `CompleteReady` (the state, and `node_mtx` released) and
`NotifyAll`. Cancelling is split into its two critical sections and the
notification.

Memory: `Nodes` are addresses. A node is in use while the list or a worker points
to it, which is what `shared_ptr` does; `Reap` frees it afterwards and `Reserve`
may take it again, so a stale pointer would show.

`leader` and `published` (fields of a node) and `lookupAt` are history variables.
They are read by properties only.

`AllocFails` says whether copying a result may throw: into the line
(`CompleteThrows`) or into the reply after publication (`ReplyThrows`). Both run
the `catch (...)` of `CacheEngine.hpp:219`. Allocation failures elsewhere in the
worker (while reserving a line, in a follower, while the reply gets its delimiter)
are not caught and end the process; they are not modelled.

### 2.2 `ThreadSafeQueue`

Every access is inside the mutex, so a critical section is one action; the
notification after it is another. `at` says where a thread is, `task` what a
consumer works on. A task is a socket that is open, hence in the queue at most
once (`Fresh`). A push that is refused changes nothing and needs no action. The
engine has one producer, its listener, and its destructor stops the queue after
the listener has ended; the module lets `stop` come at any time, which is what
`is_stopped` is tested for in `push`.

### 2.3 `ConnectionPool`

A slot in `connections` holds a connection that is open, lost (the database
dropped it and the client has not noticed: `is_open()` still holds) or closed, or
nothing. That `is_open()` reports what the client library knows and not what the
server does is an assumption on libpqxx; so is that a query on a lost connection
throws an exception derived from `std::exception` and leaves the connection
closed. `acquire` keeps `pool_mtx` while it reconnects, so the owner is a variable
and releasing workers wait for it. `attempts` counts through the constructor's
loop. `Holding` are the workers that have a slot.

The time limit is an action that may fire whenever a worker waits: five seconds
are as short or as long as the interleaving makes them. A worker woken after its
limit looks at the queue once more, as `wait_for` with a predicate does.

### 2.4 `CacheEngine`

The engine uses the queue and the cache by what they promise: its queue is an
instance of `TaskQueue` and its cache one of `ReadThrough`, whose steps
`queue` and `cache_promise` show the detailed modules to take. A worker's
`cacheline` is a flight, and so are the reply it waits for and the line a later hit
finds. `queryDatabase` is part of the outcome of a flight; `ConnectionPool` has it
in detail.

`server_fd` is the variable and `server_file` the kernel's object, because the
listener sets the first after the second exists, and the destructor may come
between any two of its steps: `shutdown` does something to a socket that listens
and nothing to one that is only bound, and `listen`, `accept` or `bind` fail on a
descriptor that is closed. `server_fd` is a plain `int` that two threads use
without a lock; the model has the interleavings of these accesses, the values being
words that are not torn. `accept` may also fail by itself.

`socket` is what the server knows of a client (not connected, waiting for
`accept`, open, closed), `slow` which clients do not read what they are sent. Only
replies to cache queries can be longer than the buffers of a socket, so only those
wait for the client. `count` has the counters that the workers maintain, and
`failures` for the history: the code does not count those.

An allocation that fails while a reply is built is not modelled here (see 2.1): it
would count a miss for a request that is answered with an error.

### 2.5 `RequestFraming`

What `CacheEngine` calls `ReadQuery`, `AnswerOther` and `SendReply`, in detail and
for one connection. A stream is a sequence of symbols; the delimiter is two of them,
so that a read may end inside it, and the words that decide what becomes of a query
(`select`, `stats`, a parenthesis, a blank) are one each. `sent` is fixed at the
start, `buffer` always a prefix of it: `Read(n)` is one turn of `readQuery`'s loop
with everything up to its `return`, `Write(n)` one turn of `writeAll`'s. That a
client has sent nothing more for five seconds, or has gone, is `ReadFails`, possible
at any read. The call that refuses a query that is too large writes through the same
`Write`. Four texts stand for the server's own messages.

Two things are outside the source. The network delivers in order, in pieces of any
size, and nothing is lost while both ends are open. `Close` is the kernel's: with
unread input (`Unread`), which is there or still on its way, it sends a reset and
drops what the client has not received, so some suffix of what was written is lost.
The client is the one of `web_dashboard.py:17-26` and `traffic_generator.py:92-100`:
it sends everything, reads until it has seen the delimiter, and gives up after its
own time limit (`Leave`). `Answer` is what it makes of what it got.

### 2.6 `Console`

`at` follows `main()` from its questions to its end. The four questions whose
answers are text are left out, except that the input may end there; the five whose
answers are numbers are `Ask`, in order, with `getline` modelled by what it does to
its string: it sets `eofbit` when the input ends without a newline, and a call that
finds `eofbit` set leaves the string as it was. `input` is that string, shared by
the last four questions. `entered` keeps, for the properties, what was entered for
each. `n_threads` is the conversion to `size_t`.

The engine is its threads and what its constructor does, in the order of its
members: first the pool, which throws if no connection opened or none was asked for,
then the workers, then the listener. `StartFails` is `std::thread` throwing: the
vector is destroyed, and destroying a joinable `std::thread` calls
`std::terminate`. The destructor returns (`ShutdownEnds`, under the conditions of
3.2), so it is one action. A signal before `std::signal` was called ends the process;
afterwards it sets the flag and nothing else, since glibc's `std::signal` restarts
the interrupted `read()`.

### 2.7 `Telemetry`

A report reads `total_requests`, `cache_hits` and `cache_misses` one after the
other, then takes `stats_mtx` and ends the window if it is old enough. A throughput
is kept as a number of requests and the times between which they came, instead of
the quotient. `generateStatsJson` has the same code as `generateStatsReport`, so
one set of actions stands for both. `now` counts from the epoch of
`steady_clock`; `ServerStart` is when the constructor runs.

Meanwhile `Workers` answer requests: each counts one (`CountRequest`) and later its
outcome, a hit, a miss, or nothing when the query failed (`CountNothing`). `serving`
is the workers in between; `failures` records, for the properties only, what the code
does not count. `TotalAccountedFor` depends on the order in which a report reads: a
total read first is at most its parts, failures and one request for each worker, while
one read last may show any number of requests without an outcome.

### 2.8 `TrafficGenerator`

Everything but the queries themselves happens under one lock, so a critical section
is one action. `thread` has the live threads by identity and where each is in
`worker_loop`; `raised` records, for the properties only, that a start has failed.
`set_config` clamps the number it is given, so requests range over
`1..MaxThreads`. `mode` and the measurements change nothing in what threads do and
are left out, and so is the lazily created database pool.

## 3. Runs

| Run | Instance | Shows |
|---|---|---|
| `cache_safety` | 3 workers, 4 nodes, 4 keys, capacity 0 (turned into 1), copies may throw | `TypeOK`, `DirectoryConsistent`, `CapacityBound`, `AnswerMatchesQuery`, `SingleFlight`, `FailedNotCached`, `SleepersWillBeWoken`, `InFlightProtected` |
| `cache_promise` | 2 workers, 3 nodes, 2 keys, capacity 1, TTL 1, clock to 2, fair | `PayloadExact`, `BoundedStaleness`, `ImplementsReadThrough`, `EveryRequestAnswered` |
| `queue` | 1 listener, 3 workers, room for 3 of 5 sockets, fair | `TypeOK`, `NoTaskStranded`, `ImplementsTaskQueue`, `EveryoneLeaves` |
| `pool` | 3 workers, 3 slots asked for, 1 to 3 opened, fair | `TypeOK`, `SlotsConserved`, `NoSlotStranded`, `FullPoolNeverWaits`, `EveryQueryEnds` |
| `engine` | 2 workers, 2 clients, room for 1 in the queue, fair | `OneOwner`, `StoppedClean`, `CountersFit`, `ShutdownEnds`, `EveryClientServed`, `ListenerComesBack` |
| `engine_stalled` | 1 worker, 1 client, fair server | **violates** `InactiveClientsDontStall` |
| `telemetry` | 2 reporters, 2 workers, 3 requests, window 2, clock from 2 to 6 | `TypeOK`, `ThroughputIsRecent`, `TotalAccountedFor`, `WindowsAdvance` |
| `traffic` | 5 identities, limit 3, starts may fail, fair | `WithinLimit`, `ActiveIsLive`, `TargetReached` |
| `framing` | all streams of up to 4 symbols out of 6 and 4 endings, reads of up to 2, limit 4 | `TypeOK`, `QueryAsSent`, `AnswerWhole` |
| `framing_reset` | the same with up to 2 symbols | **violates** `ResponseDelimited` |
| `console` | numbers -1, 0 and 2, `size_t` modulo 16, fair | `NoThreadOutlivesMain`, `ServesAsConfigured`, `StopsWhenTold` |
| `console_signal` | the same | **violates** `SignalStops` |

### 3.1 Bounds and why they suffice

* Cache: a line is held by the list or by a worker. With capacity 1 and three
  workers, three keys in flight stretch the list to three lines, and with a fourth
  key a lookup meets a full list and evicts, or scans past flights. One node more
  than workers lets the list exceed the bound of `CapacityBound`, and nodes never
  run out: a worker that reserves holds no line, each of the others at most one, and
  the list at most one that nobody holds. Two workers and one key are enough for a
  leader and a follower; three are needed for one leader, one follower and one that
  evicts or replaces their line. `MaxTime` bounds the clock; two ticks with a TTL of
  one let a line expire, be replaced, and the new one expire. It bounds `Tick` only.
  `cache_safety` has no clock: lines expire in `cache_promise`, and in the theorems,
  which have any TTL and any time.
  Keys and values have sizes no two sets of which add up to the same bytes;
  `cache_safety` gives them size zero, since with failing copies the accounting of
  section 4 would grow for ever. Workers and nodes are symmetric, keys are not (each
  has its own answer). The runs under fairness use no symmetry.
* Queue: three sleepers and two queued tasks are the least in which a skipped
  notification leaves a task with nobody on its way. With five sockets the
  queue is full while two workers are busy, and holds two while all three are.
* Pool: three workers and every number of opened slots up to three, so that the pool
  is short by every amount, exact, or empty at startup. `CHECK_DEADLOCK FALSE` since
  the constructor throws, and the program ends, when nothing opened.
* Engine: two clients are one for the queue and one for a worker, one for each
  worker, or one in the queue, so that the next is rejected, and the queue may be full
  when it stops. Every client connects once. Two flights are enough for a line that
  failed or was evicted and its successor. The theorems have any number of each.
* Framing: four symbols hold a delimiter with text before and behind it, two of them,
  or half of one; the endings add the newline, the delimiter and a stream beyond the
  limit. A read of two symbols can end before, inside or behind a delimiter of two,
  and two reads of two exceed the limit of four only with a third. Three results:
  none, one that ends in half a delimiter, one with a delimiter inside.
* Console: one number of each sign; -1 becomes 15, more threads than any of the
  others. `WordSize` must exceed the positive numbers.
* Telemetry: two reporters, since a third could only do what the second does to the
  first. The clock leaves room for two complete windows after the start; the first
  window begins at 0. Three requests are one more than two workers can have at a time,
  so that outcomes can come between two reads of a report.
* Traffic: more identities than the limit, so that new threads start while old ones
  have not looked at the settings yet. An identity may be used again.

### 3.2 Fairness

* `Cache`: weak fairness on every worker's own steps: threads are scheduled, and
  the database answers or fails every query (`FetchOk` or `FetchThrows`). Strong
  fairness on `CancelErase`, which needs `cache_mutex`: other workers may take it
  again and again, and a mutex does not starve a thread for ever. Nothing is
  assumed of new lookups, of spurious wakeups or of the clock.
* `ThreadSafeQueue`: weak fairness on the consumers, on pending notifications and
  on `NotifyAll`. Nothing makes a client connect or the server stop.
* `ConnectionPool`: weak fairness on a worker's steps, strong fairness on getting
  `pool_mtx` for a look at the queue (whatever it finds there) and for giving a
  slot back, and strong fairness on the five seconds passing. That a waiter gets a
  slot is *not* assumed: others may overtake it, and then its time runs out.
* `CacheEngine`: weak fairness on the steps of listener, workers and main thread,
  except that `accept` on a good socket need not return (`Fairness`). Reading a
  query ends, since each `read` has a time limit and the total a size limit;
  writing has neither, so `FairSpec` adds that every client reads its reply or goes
  away in the end, and `engine_stalled` shows what happens without.
  That the listener comes back to `accept` needs nothing of the clients.
* `TrafficGenerator`: weak fairness on threads.
* `Console`: weak fairness on what `main()` does by itself, and on `getline` once the
  input has ended, when it returns at once. Nobody has to enter anything.

## 4. Where the code differs from what it says

Three with a run that shows it:

* **A client that does not read keeps its worker** (`engine_stalled`). Only
  receiving has a time limit (`CacheEngine.hpp:137`); `writeAll` blocks for as long
  as the client likes, although the limit is there "so inactive clients don't stall
  workers" (`CacheEngine.hpp:133`). The destructor, which joins that worker, waits
  with it.
* **A reply may be lost to a reset** (`framing_reset`). Clients send a newline after
  the delimiter. `readQuery` stops at the read that holds the delimiter; when this one
  ends with it (the query fills a multiple of 512 bytes, or the newline comes in a
  segment of its own) the newline is never read, `close` resets the connection
  (`CacheEngine.hpp:251`), and what the client has not received yet is gone, while
  `README.md:49` has it that the "Response is returned with trailing `<EOQ>`
  delimiter". `AnswerWhole` shows that this is the only way for a client that waits to
  get no answer to a query that was read.
* **A signal does not stop a silent server** (`console_signal`). The handlers are
  there "for graceful shutdown on Ctrl+C (SIGINT) or SIGTERM" (`main.cpp:211`), but
  `getline` (line 247) goes on waiting, and the flag is looked at only when another
  line comes. `StopsWhenTold` is what does hold.

And some without:

* `payload_bytes` can stay too high. When building `"[CACHE MISS] " + dbResult`
  throws (`CacheEngine.hpp:218`), the handler cancels a line that is READY and
  accounted for; `cancelReservation` (`Cache.hpp:144-152`) erases it without giving
  its bytes back, although `Cache.hpp:36` says "Tracks dynamic string memory".
  `PayloadExact` therefore holds, and is checked, where copies of results do not throw.
* The pool may be smaller than the number of workers: the constructor skips what does
  not open, while `DOCUMENTATION.md:142` says "Connection pool size equals
  worker-thread count." `FullPoolNeverWaits` shows what is lost: only a full pool makes
  waiting, and so the time limit, impossible.
* A traffic thread that failed to start stays counted (`traffic_generator.py:178-180`),
  and later requests to start find nothing missing. `WithinLimit` shows that the error
  is on the safe side of the limit.
* `main` announces a successful start whatever became of the listener: `bind` or
  `listen` may have failed in its thread (`CacheEngine.hpp:277-287`).
* A result that contains `<EOQ>` ends its reply early for the client; nothing escapes
  it. `AnswerWhole` makes an exception of such texts.
* A negative capacity or TTL is accepted (`main.cpp:117, 162`). As `size_t` the first
  never evicts; the second becomes negative again when it is added to the clock, and
  every line is expired at once.
* `DOCUMENTATION.md:62` has it that the listener "reads until `<EOQ>`, and enqueues
  tasks"; it pushes the socket at once and a worker reads, as the comment at
  `CacheEngine.hpp:184` says and the modules have it, so slow senders occupy workers.
* A report may show more hits and misses than requests, and a hit rate beyond 100 %:
  the total is read first (`CacheEngine.hpp:344-346`) and requests end before the
  other two are read. Nothing in the repository excludes it; `TotalAccountedFor`
  bounds the other direction.
* `last_sample_time` (`CacheEngine.hpp:49`) is never initialised to the start of the
  server, hence the first throughput reported is divided by the time since the epoch
  of the clock, usually since boot; `Telemetry` starts that way.

## 5. Theorems

All proofs are checked to the last leaf by TLAPS. They assume what the modules
state as assumptions: `CacheAssumption` (finitely many workers; `NULL` is none of
the other values; capacity, TTL and sizes are numbers; every key has a set of
answers, none of which is the name of an outcome), `QueueAssumption` and `PoolAssumption` (finitely many threads, disjoint
roles, a size that is a number), `TelemetryAssumption` (finitely many workers, a positive window) and
`TrafficAssumption` (finitely many identities, a positive limit), `EngineAssumption`
(finitely many clients and at least one, but finitely many, workers: the pool throws
without any) and `FramingAssumption` (streams and results are sequences of symbols,
the refusal of what is too large is not among them; a read takes at least one), and
`ConsoleAssumption` (what is entered as a number is one, an empty or a bad line is
not; a `size_t` has some width).

**`CacheProofs`.** None of the properties of the cache is inductive. The invariant
is `Core`:

* `MutexInv`: `cache_mutex` is held exactly by a worker that evicts, the key it will
  reserve a line for has none, and its iterator is within the list;
* `LineInv`: a worker past its lookup holds a live line of its own key;
* `LeaderInv`: a worker that may still change a line is the leader recorded in it,
  and the line has the state its label requires;
* `FlightInv`: a line in flight has a leader that is on its way, and is in the list
  until that leader takes it out;
* `ResultInv`: values travel with their key;

together with `TypeOK`, `DirectoryConsistent`, `FailedNotCached` and
`AnswerMatchesQuery`. `FlightInv` is what makes the rest work: no line in flight
can be evicted, since eviction requires READY, and a key that is in the directory
cannot be reserved again, hence a single flight. There is one lemma for each
action (`<Action>Core`), lemmas on the list operators (`RemoveAtProperties`,
`ConsProperties`), and the theorem `CoreInvariant`. From it follow `TypeCorrect`,
`DirectoryAlwaysConsistent`, `NoFailedLineCached`, `AnswersMatch`, `AtMostOneFlight`
(`SingleFlight`) and `FlightsAreProtected` (the action property
`InFlightProtected`).

Five more theorems rest on `Core`, each with what it needs besides:

* `NoWakeupIsLost`: `SleepersWillBeWoken` is inductive given `Core`. A follower goes
  to sleep on a line in flight only, whose leader is on its way by `FlightInv`, and
  the leader's last step before it lets go of the line wakes all who sleep on it.
* `CapacityIsBounded`: by `SkippedInv` the lines that an eviction has skipped were led
  by workers other than the one that scans, no two by the same; a leader may have
  answered since but cannot have reserved another line, as it does not have
  `cache_mutex`. A scan that reaches the front therefore skipped fewer lines than
  there are workers.
* `StalenessIsBounded`: by `FreshInv` a READY line expires at most TTL after it was
  published, although its expiry is computed before, and whoever holds such a line
  looked it up before that.
* `CacheImplementsReadThrough`: the safety of the refinement that `cache_promise`
  checks. `HeapInv` (what nobody points to holds no line) makes a newly reserved node
  an unused flight, `ReplyInv` (what a leader is going to reply is what came of its
  line) makes its answer the outcome of its flight. One lemma for each step that the
  abstract cache sees; all others are stutters (`UnseenSteps`), among them evictions,
  which only forget flights that have ended. It is proved for runs in which no copy
  of a result throws (`~AllocFails`), as the run assumes: otherwise `ReplyThrows`
  makes a worker that knows its answer cancel a line that others were served from.
* `PayloadIsExact`: `payload_bytes` is the sum over the lines in the list that are
  READY or about to be (`PayloadInv`), under the same condition. A sum is defined by
  recursion over a set, about which the provers know nothing; `SumsExist` and
  `TotalOfMore` derive what is needed (the sum exists, does not depend on the order,
  and grows by the number of each new element) from least counterexamples, the
  well-foundedness of the naturals applied to cardinalities.

**`QueueProofs`.** `NoTaskStranded` is inductive given `TypeOK`, by counting: a push
adds a task and a thread that owes a notification, a notification turns that thread
into an awake consumer, taking a task uses one of each up, and a consumer goes to
sleep only when the queue is empty. `QueueRefinesTaskQueue` proves the safety part
of the refinement that `queue` checks with its fairness.

**`PoolProofs`.** `SlotsConserved` is inductive given `TypeOK` and `StartupInv`, by
the same counting (`SlotMove` for a worker that moves by itself, `SlotWake` for one
that wakes another). `FullPoolNeverWaits` follows: a worker that looks at the queue
holds no slot, so the others hold fewer than there are workers.

**`TelemetryProofs`.** The invariant `IInv` says that every request has had one
outcome or is with one worker (`CountInv`), that a reporter inside the mutex read the
clock after the window began (`ReportInv`), and that the last throughput ended where
the window begins (`WindowInv`). `LoadInv` follows a report through its reads: what it
has not read yet counts as it is now, and counters only grow, so the total it read
first stays within its bound, which gives `TotalsAreAccountedFor`. `WindowsFollow` is
the action property `WindowsAdvance`. The bounds on the clock and on requests play no
part in the proofs.

**`TrafficProofs`.** `Counted` (live threads are at most those counted, which are at
most the limit) is inductive even when starts fail, and gives `LimitHolds`;
`ThreadsAreCounted` says they are equal as long as no start has failed.

**`EngineProofs`.** `IInv` has `TypeOK` and four parts. `RoleInv`: where a worker is
in its loop and what the queue knows of it agree. `Ownership`: the sockets in the
queue, with the listener and with the workers are open (`OpenInv`), nobody shares
one (`DistinctInv`), and every open one is among them (`OwnedInv`); stated as three
facts rather than as the number of owners, each is preserved by moving one socket
from one place to the next. `StopInv`: the destructor goes on only after what it
joins, and workers leave a queue that is empty for good. `Counted`: the counters
against the number of workers at each stage. They give
`EngineTypeCorrect`, `SocketsHaveOneOwner`, `CountersAlwaysFit` and `StopsClean`.

**`FramingProofs`.** `QueryAsSent` needs two facts about streams: a delimiter found in
a prefix is the first one of the whole (`FoundInPrefix`), and a prefix of a prefix is
one of the stream (`PrefixOfPrefix`). `ReplyInv` adds that nothing is written before
the query is read, and that a worker that reads on is within the limit; and no answer
is taken for the refusal of what is too large (`OnlyTooLarge`), because texts keep
their length and first symbol in a reply (`FramedProperties`). `Least` and `Greatest`
are the existence of minima and maxima, from the well-foundedness of the naturals.

`AnswersAreWhole` adds `WholeInv`: a reply is a framed text, a client that waits has
not received its delimiter and one that was answered has, and a connection closed on
a client that waits was given up, has unread input, or had its whole reply written.
That such a client cannot be cut short then is that a framed text has a delimiter
before its end (`FoundFramed`), so it would have seen it (`CutShort`). That an
answered client has the text is that this delimiter is the only one (`AnswerIsText`)
and that the blanks around it are trimmed (`TrimBlanks`).

**`ConsoleProofs`.** `IInv` has types and two parts. `SettingsInv`: a line that is no
number has ended `main()`, what was not asked for has its default, and as long as the
input has not ended, or a command is being obeyed, every setting is what was entered
for it. That is the point of `CommandsAreObeyedAsConfigured`: answers that `getline`
left over from another question exist only after the end of the input, when no
command is read. `ThreadsInv`: the workers that a server with commands has, and that
`main()` reports a failure only before the first of them (`MainOutlivesItsThreads`).

`QueueProofs`, `PoolProofs` and `EngineProofs` count the threads at a label, each
with its copy of two lemmas (`CountFinite`, `CountStep`): how many there are is a
number, and how it changes when one thread moves.

Only model-checked: liveness
(`EveryRequestAnswered`, `EveryoneLeaves`, `EveryQueryEnds`, `ShutdownEnds`,
`EveryClientServed`, `ListenerComesBack`, `TargetReached`, `StopsWhenTold`) and the
fairness part of the refinement of `TaskQueue`, which are beyond the prover. Every
safety property that a run checks has a theorem.

## 6. Not modelled

* Formatting of results and reports; the text of queries and errors; the monitor,
  the benchmarks and the sample database; the documentation site; build scripts.
* Exceptions that no handler catches and that end the process.
* `SIGPIPE`, which the listener ignores in its first statement
  (`CacheEngine.hpp:260`): a write to a client that has gone fails (`WriteFails`).
* The traffic generator's own pool of database connections
  (`traffic_generator.py:54-75, 117-135`), which two threads may create at once. A
  connection then goes back to a pool it did not come from, which refuses it, and the
  error is swallowed; it is lost with the pool that nobody refers to any more.
* The dashboard's page, which shows what its last request returned.

## 7. Plan

Next, in this order:

1. What the detailed modules keep beyond their promises (`CapacityIsBounded`,
   `StalenessIsBounded`, `NoSlotIsStranded`), stated for the engine that uses them.
2. The traffic generator's database pool.
