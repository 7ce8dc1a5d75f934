# Joseph, modelled in TLA+

Joseph (`src/src/Joseph`) is a small HTTP/1.1 server library in C++20: a program
adds routes, middleware and static directories to a `Server` and calls `start()`;
one thread accepts connections, a pool of workers serves them, and
`shutdown()` or a signal ends it.  This directory holds TLA+ models of its
concurrent and stateful parts and of the pure code that reads requests and writes
responses, the TLC runs that check them, and proofs (TLAPS) that the concurrent
and stateful parts keep their promises for all values of their constants.

    tlc -workers 2 -config ThreadPool.cfg ThreadPool.tla      # a run
    tlapm ThreadPoolProofs.tla                                # a module of proofs

## 1. Inventory

| component | source | state | operations | interacts with |
|---|---|---|---|---|
| thread pool | `ThreadPool.h` | task queue, `running`, worker threads, one mutex, one condition variable | worker loop, `submit`, `shutdown`, destructor | used by the server's acceptor; runs `handleClient` |
| server lifecycle | `Server.cpp` 151-156, 380-501, 540-566 | `started`, `stopRequested`, `stopCompleted`, `activeConnections`, `server_fd`, `globalShutdownRequested` | `start`, accept loop, drain, `shutdown`, `requestGlobalShutdown`, signal handler | pool; kernel (listener, accept); workers through the counter and `stopRequested` |
| server registry | `Server.h` 42-58, `Server.cpp` 35-45, 497-501, 557-566 | `serverRegistry`, `registryMutex`, `globalShutdownRequested` | constructor, destructor, `startNonBlocking`, `requestGlobalShutdown` | every server of the program, their owners' threads, signals |
| connection loop | `Server.cpp` 58-66, 83-105, 155-284, 370-383 | `pendingData`, `requestsReceived`, `keepAlive` of one connection | framing, `recv`, errors, keep-alive, close | client; parser; dispatch; `stopRequested` |
| dispatch, `Response` | `Server.cpp` 58-81, 107-142, 286-375; `Response.cpp`, `Response.h` | chain `index`, the response with its headers, `finalized` and `hasSent` | OPTIONS, HEAD by GET, middleware chain, exceptions, static files, `send`, `sendFile`, `redirect`, ... | user code, called back and calling `next()` |
| rate limiter | `Ratelimit.h` | table of `RatelimitData`, one mutex | `operator()`, `allowRequest`, `cleanup`, setters | runs as middleware on several workers |
| routing | `Route.h`, `Helpers.h` 79-125, `Server.cpp` 47-56, 107-142, 287-302 | the route list, fixed once the server has started | `addRoute`, `splitPath`, `matchRoute`, `findRoute`, `handleOptions` | dispatch |
| parsing, decoding | `Request.cpp`, `Request.h`, `Helpers.h` 127-206 | none | `parseRequest`, query strings, cookies, `urlDecode`, `trim`, X-Forwarded-For | connection loop, user code, rate limiter |
| multipart parser | `MultipartParser.*` | none kept | `parse` | `Request::getFormData` |
| key-value list | `KVList.h` | a map whose keys have no case | `get`, `set`, `getAll`, construction from a map with exact keys | headers, query, params, cookies |
| configuration | `Config.h` | constants | - | all |
| JSON | `external/minjson.hpp` | vendored | - | not modelled |

What is hard in each, and what makes it correct:

* **Thread pool.** `submit` tests `running` outside the lock; notifications are
  sent outside the lock; the stop must reach every sleeper; the queue must be
  drained.  Correct: no lost wake-up, each task run once and in order, nothing
  accepted before the stop is lost, `shutdown` returns.
* **Lifecycle.** Four threads (acceptor, worker, application, signal) share five
  flags and a counter without a lock, and `shutdown()` blocks.  Correct: the
  drain does not take a busy server for an idle one; `start()` leaves nothing
  behind; a requested stop completes.
* **Registry.** One loop walks a shared vector, and waits inside it for whole
  drains, while other threads construct and destroy servers; a signal may strike
  the thread that holds the mutex.  Correct: the loop meets only living servers,
  a global stop misses nobody, the mutex is free again in the end.
* **Connection.** Bytes come in pieces; requests share buffers; any client may
  stall.  Correct: the requests served are the requests sent, one answer each,
  bounded buffers, bounded service after a stop, no worker held for ever.
* **Dispatch.** User code runs between any two steps, calls back, throws; a
  client may go away half-way through a file, or through its head; two operations
  of `Response` do not look whether it is final.  Correct: one response, with what
  user code set and the length of its body, final once finalized but for those
  two operations, no body for HEAD, the chain in order, exceptions answered.
* **Rate limiter.** The clock is read before the mutex, so stamps are old and out
  of order.  Correct: a bound on grants in any period, no early refusal, cleanup
  gives nobody a second quota.
* **Pure functions.** Two pieces of code read the same header in two ways; two
  choose a route; keys differ in case only; escapes stand at the end of a text;
  line ends belong to the content or to the frame.  Correct: what a client or a
  handler meant is what the other side reads.

`PROJECT.json` lists each hazard at its line with the properties that would
catch it.

## 2. Modules

| module | models | role |
|---|---|---|
| `TaskExecutor` | what a pool promises: one line of tasks, N slots, open / stopping / closed | abstract specification |
| `ThreadPool` | `ThreadPool.h` | implements `TaskExecutor` |
| `GracefulServer` | what a server promises: open, one last client after the stop, complete, down when all are let go | abstract specification |
| `ServerLifecycle` | `start`, drain, counter, `shutdown`, `requestGlobalShutdown` | implements `GracefulServer`, uses the pool as the executor |
| `ServerRegistry` | servers as objects: constructor, destructor, registry, global stop | `start()` in outline |
| `Exchange` | what a client sees of its connection: answers in order, the last one known | abstract specification |
| `Connection`, `MCConnection` | `handleClient` as a loop over one client's bytes; the clients TLC plays | implements `Exchange` |
| `Dispatch` | `handleClient` on one parsed request, and `Response` | |
| `Ratelimit` | `allowRequest`, `cleanup` | |
| `Text` | the string helpers of `Helpers.h` | operators |
| `KVList` | `KVList.h` | operators, on `Text` |
| `Routing` | `matchRoute`, `findRoute`, HEAD by GET, `handleOptions` | operators, on `KVList` |
| `RequestParser`, `MultipartParser` | raw header search and cutting, `parseRequest`, cookies, look-ups, the limiter's key; `parse` | operators, on `KVList` |
| `ResponseText` | validation, headers, cookies, `toRawResponse` | operators, on `KVList` |
| `MCParsing` | the questions TLC puts to the five above, and the properties | |
| `ThreadPoolProofs`, `ServerLifecycleProofs`, `ServerRegistryProofs`, `ConnectionProofs`, `DispatchProofs`, `RatelimitProofs` | - | the theorems about the module each is named after (section 5) |
| `ParsingProofs` | - | the theorems about `Routing` and the properties of `MCParsing` (section 5) |
| `TextLemmas` | `Helpers.h` | induction over numbers and sequences, `FlattenSeq`, what the helpers of `Text` make of a text, and how texts built of lines and pieces come apart, for the two modules that need them |

The abstract modules describe the same things from outside.  `Connection` leaves
header text to `RequestParser` and what is done with a request to `Dispatch`,
which leaves the choice of the route to `Routing` and the text of a response to
`ResponseText`; `ServerLifecycle` leaves the bytes to `Connection`, the pool to
`TaskExecutor` and other servers to `ServerRegistry`.

Operators whose names begin with `Mut` are faulty variants of the definition
that follows them; no specification uses one.  `PROJECT.json` pairs each property
with a variant that breaks it.

### ThreadPool

One action per block of code that nobody can observe half done.  A block under
`queueMutex` is one action; the unlocked test in `submit` (`SubmitCheck`), the
push (`SubmitEnqueue`) and the notification after the unlock (`SubmitNotify`) are
three; `shutdown` is `ShutdownStop`, `ShutdownNotifyAll`, `ShutdownJoin`.  A
worker is in `"lock"` (about to evaluate the wait predicate under the mutex:
`Take`, `Return` or `Sleep`), `"asleep"`, `"run"` or `"returned"`.  `Sleep` gives
the mutex up and joins the waiters in one step, as `cv.wait` does;
`SpuriousWake` is always possible.  `notify_one` wakes any one sleeper.  The two
history variables `done` and `late` record finished tasks and tasks pushed after
the stop.  Such a task is stranded if the workers have gone, which
`NothingLeftBehind` makes precise: only what was queued before the stop is safe.
Callers are threads outside the pool; tasks that submit tasks or shut their own
pool down are not played (a task that joins its own thread throws in C++), and a
task that throws ends the process: see `Dispatch`.

### ServerLifecycle and GracefulServer

A thread is named by what it works for: server `s` names the thread in
`s.start()`, connection `c` the worker in `handleClient` for it, `Apps` the
program's other threads.  Every read or write of a shared field is a step of its
own: `LoopTest`, `GlobalTest`, `AcceptReturns`/`AcceptBlocks`/`AcceptOnClosed`/
`AcceptFails`, `Submit`, then the drain, `Report`, `Complete` (`stopCompleted`)
and `PoolShutdown`.  `shutdown()` is the test in `CallShutdown`,
`ShutdownStore`, `ShutdownClose`, `ShutdownWait`; any thread may be inside it, a
signal puts its victim there through `RequestGlobalShutdown`, and the acceptor
puts itself there in `GlobalTest`.  A thread inside does nothing else (`Busy`).
The pool appears as `TaskExecutor` describes it: a line, at most `PoolSize`
connections in work, and a shutdown that returns when the line is worked off.
What `TaskExecutor` says of stragglers is not needed, because only the acceptor
submits and it is the thread that shuts the pool down.

The listener has the semantics of a socket: while `accept()` is blocked it holds
a reference, so after `close()` by another thread the kernel still takes clients
until that call returns.  `CloseWakesAccept` chooses between Linux (FALSE) and
systems where `close` makes the call fail (TRUE).

`GracefulServer` has four variables.  The mapping: `phase` is read off the flags
and the place of `start()` (`Phase`); `admitting` holds while the server is open,
and after the stop only while the accept loop is past its test of
`stopRequested` (`Admitting`); `clients` are the connections between `accept()`
and their `close()`; `listening` is the socket being open.  The implementation
says that the socket is closed only after the stop, that at most one more client
gets in, that `stopCompleted` comes after the last of them was admitted, and that
`start()` returns only when every one has been let go.

### ServerRegistry

Each server has an owner (the thread that constructs, starts, stops and destroys
it; `opc`) and a runner (the thread in its `start()`; `rpc`); when the owner
calls `start()` itself it stays in `"start"` until the runner is back.  The one
call of `requestGlobalShutdown` that the compare-and-swap lets through has its
own program counter (`gpc`), the thread that made it or was interrupted by it
(`caller`), and its place in the registry (`next`).  Every lock and unlock of
`registryMutex` is a step.  The mutex is not recursive: a signal that strikes a
thread inside a constructor or destructor leaves `gpc` at `"lock"` for good.
Signals strike any thread, at any place, once some server has begun `start()`,
which installs the handlers for good (`handlers`), also if it fails to open.  Whether `close()` wakes a blocked `accept()` is
chosen in `Init`.  A server may be destroyed as soon as `shutdown()` has
returned to its owner, also while its detached runner is still joining its pool.

`Stuck` and `GlobalHangs` name the ways a global stop can hang: on a server that
waits for itself, on one that sleeps in `accept()`, or on the mutex it holds.
`GlobalStopReachesAll` and `RegistryOpens` say that nothing else goes wrong.

### Connection and Exchange

`Streams` is what clients may send; each request has a head and a body length, a
spelling of its Content-Length and the value it announces, and bytes are known by
their place.  `FrameMore`, `FrameBad`, `FrameTooLarge`, `FrameTake` are the four
ways through the framing block, `Receive`, `ReceiveTimeout`, `ReceiveEnd` the
ways out of `recv()`.  `RequestLength` is computed modulo `SizeModulus`, as the
`size_t` sum is: an announced length near 2^64 wraps to a small one, and the
request is cut short instead of being refused (the stream that announces 15 in
`MCConnection`).  `Serve` is the rest of the loop body as far as the connection
sees it.  A cut that does not start where a request starts (a client that
announces a wrong length), or that ends within the request's head (a wrapped
length), gives a request that may or may not parse.

`InOrder` holds of a client whose requests say where they end (`WellFramed`):
their announced length is their body's, spelled as the code reads it, and head
and body together fit in a `size_t`, for otherwise the same wrap-around cuts an
honest request short.

`Exchange` knows answers only.  The mapping (`Answers`, `Open`, `Grace`) numbers
each answer by the request it is for, says `open` while the loop runs, and counts
the answers since the stop in `grace`.  It says that answers come in order, that one is announced as
the last exactly when it is, that the limit on requests holds and that at most
one request is answered after a stop.

### Dispatch

`stack` is the user code being run, innermost last; the code on top may call an
operation of `Response`, call `next()` (a middleware, also twice), return or
throw.  `begun` and `again` record the order in which user code ran and whether
some `next()` was called twice.  Content is known by who wrote it,
`Content-Length` by the content it was computed from, or as `"other"` when user
code wrote the number itself, headers and cookies by whose they are (`marks`),
and the value of one header that is there from the start by who gave it
(`value`), so "the response has what user code set" is an equality.

Two operations of `Response` have no `finalizedCheck` and may be called when it is
final: `emptyBody()` (`UserEmptiesBody`), and `setValue` on the header that
`getHeader()` returns a pointer to (`UserChangesHeader`, and
`UserChangesLength` for `Content-Length`).  They are public, so the properties say
what they can do to a final response instead of denying it: `FinalizedIsFinal`
lets a header's value and the length change in those steps only and the body
become empty in those only (or for HEAD by GET), and `late`, which notes that one
of them met a final response, marks, with `"other"`, the cases in which
`WireIsResponse` does not promise that length and body agree.

A response goes out in one of two ways, streamed from inside `sendFile`
(`StreamWrites`) or written at the end (`Emit`).  Both may be cut, because
`sendRawHeaders` and `sendAll` give up in the middle, and both may end the process by
SIGPIPE; an entry of `wire` records where it was cut: in its head, before
its first byte included (`"head"`), in its body, or not.  What follows a stream
depends on where: `hasSent` is set between head and chunks, so a stream cut in its
body is never followed by anything, and one cut in its head is followed by the
500 of the catch block on the same socket.  `OneResponse` names that one way to a
second response and excludes all others.  `terminated` is `std::terminate` or
SIGPIPE.

### Ratelimit

`ReadClock` and `Allow`/`Refuse` are separate because `now` is read before the
mutex is taken; so are `CleanupReadClock` and `Cleanup`.  Time is in whole
seconds.  `grants` and `refused` are history; a grant remembers the window it was
counted in.  `RateBound` supposes that the program tells `cleanup` to keep entries
for a window and a stall at least (`Ttl >= timePeriod + MaxStall`), and so does
`CleanupKeepsWindows`: with less, an entry may be erased while its window still
runs, and the quota starts anew.  The code accepts any `ttlSeconds`; that a small
one does this is not a property of any run.

### The pure code

A text is a sequence of symbols: single characters, words no helper looks into,
and the pair `\r\n`, which the code only ever searches for as a pair; lengths
count symbols.  Each operator has the name of its function and does what that
function does, its odd cases included: `getline` drops an empty last piece
(`getlines`), `std::hex >>` takes one digit, a blank or a sign (`HexValue`),
`findHeader` searches the whole head for the name and `": "`.  `unordered_map`
is a function.  A `KVList` built from one keeps the first of the keys that
differ only in case, in hash order: `KVLists` is the set of lists this may give,
and `parseRequest` the set of requests.  The same order decides in which order
`getAll` lists the headers, so it is the set of those lists and `toRawResponse`
the set of texts.

`MCParsing` asks one question per state.  The asker works on structured values (a
pattern is a list of literals and parameters, a query a list of pairs, a request a
method, headers and a body, a form a list of contents, a handler a list of
calls), writes them as text the way a client would, and says what the answer
must be without any of the operators under test but `toLower`; in
`ResponseReads` it reads every text the response may have line by line with
`find` and `split`, as a client would.

The questions stay inside what these properties can promise.  Outside it the code
behaves as follows; the operators show it, and no line of the repository says
otherwise, so no property does:

* a second, bare `=` in a query cuts the value there (`Request.cpp:51`);
* a header line with nothing behind the `:` is dropped;
* `findHeader` takes a header whose name ends in the one it looks for, such as
  `X-Content-Length`, if that comes first: the request is framed by it.
  `FramesWhole` says exactly when the search is right (`Unshadowed`);
* of a header sent under two spellings the handler gets either;
* in a form the delimiter is searched for anywhere, a part without a blank line
  is dropped, all line ends a content ends in are stripped, and `boundary=` must
  be the last parameter;
* a sign in a Content-Length, which `stoul` obeys, is not modelled.

## 3. Runs

| run | question | bounds | states | result |
|---|---|---|---|---|
| `threadpool` | does the pool keep its promises under every interleaving? | 2 workers, 2 callers, 3 tasks | 7 254 | holds |
| `lifecycle` | is a stop orderly, and does it complete? | 1 server, 2 workers, 2 connections, 2 requests each, 1 application thread | 29 924 | holds |
| `global_stop` | does a signal on the thread in `start()` end it, where `close` wakes `accept`? | 1 connection | - | **violated** |
| `quiet_stop` | does `shutdown()` return on Linux? | 1 connection | - | **violated** |
| `forced_stop` | is a drain forced only by a running handler? | 1 connection | - | **violated** |
| `registry` | does a global stop reach every server, and leave the registry usable? | 2 servers, 4 threads, 1 global stop | 56 476 | holds |
| `connection` | does a client see an orderly exchange, within limits? | 11 clients of up to 4 requests, chunks of 4, limit of 6 bytes and of 3 requests | 1 376 | holds |
| `handler_body` | does the handler get the body that was framed? | 2 clients | - | **violated** |
| `dispatch` | is the response one, whole and final, and the chain run in order? | 2 middleware, handler reached twice | 2 295 412 | holds |
| `dispatch_exception` | is an exception answered? | handler only | - | **violated** |
| `ratelimit` | is the quota kept with stale stamps and cleanup? | 2 callers, 1 key, 2 requests per 3 s, stall of 1 s, 7 s | 650 651 | holds |
| `parsing` | does each side read what the other meant? | see below | 46 391 | holds |

Why the bounds are enough.

* *threadpool*: a wake-up is lost only when one worker takes what another was
  woken for, which takes two workers; the third task makes the queue outrun them;
  two callers give every race of submit and shutdown, and of two shutdowns.
* *lifecycle*: with two workers one handler can leave while another is counted,
  and either connection can wait in the queue, where the drain does not count it,
  until a worker gets to it; two requests give keep-alive and the limit.  A plain
  `shutdown()` from an application thread is a global stop whose flag the
  acceptor does not see in time; `quiet_stop` plays it by itself.
* *registry*: with two servers the loop has one behind and one ahead of it, either
  of which may be constructed, started, stopped or destroyed meanwhile; the flag
  is set once in a program's life, so there is one global stop.
* *connection*: the limits lie between the sizes the clients use, so every test in
  the code goes both ways, with chunks both smaller and larger than a request.
* *dispatch*: with two middleware `next()` is called from both a first and a last
  one; a handler reached twice shows what a second `next()` does.
* *ratelimit*: seven seconds hold two whole windows and the stalls around them;
  keys never interact in the code, so one is played.
* *parsing*: route tables of 1 to 3 of 8 routes against paths of up to 2 segments
  (a route decides by its own parts and its place in the table); queries of up to
  2 pairs in three ways of escaping, every special symbol in every place of a
  value, the last two included; requests with up to 3 of 8 headers in any order,
  and 3 bodies, one of which looks like the end of a head; forms of up to 2 fields
  with every content of up to 3 symbols (line ends, dashes, a letter of the
  boundary); up to 3 of 14 calls of a handler.

Bounds in guards, all named: `MaxTime` and `MaxStall` (`Ratelimit`),
`MaxHandlerRuns` (`Dispatch`).  `MaxStall` is an assumption about scheduling, not
a fact of the code: a thread preempted for longer between the clock and the mutex
widens the bound accordingly, which is why `RateBound` and `CleanupKeepsWindows`
mention it.  `RateBound` allows two windows' worth because fixed windows allow
just that, at their border.

Deadlock checking is off where the modelled thing really stops: a pool or server
that is down, servers that are destroyed or hang in one of the named ways, a
closed connection, an answered request; in `Ratelimit` because the clock ends at
`MaxTime`; in `MCParsing` because a question has no successor.

### Fairness

* `ThreadPool`: weak fairness of each worker and each caller in the middle of a
  call.  A runnable thread is scheduled, a mutex held only for short blocks is
  granted, tasks end.  Nothing forces a call, and no spurious wake-up is assumed.
* `ServerLifecycle`: weak fairness of the acceptor, each worker, each thread in
  `shutdown()`, and of the pool's `PoolTake` (which `ImplementsExecutor` gives).
  `recv()` returns because of `SO_RCVTIMEO`; handlers return.  `Connect`,
  `AcceptFails`, starts and stops are never forced.
* `ServerRegistry`: weak fairness of each owner in the middle of a call, of each
  runner and of the global stop.  Weak is enough for the mutex, because each
  thread takes it at most twice and the global stop once, so it ends up free for good.
  Nobody has to construct, start, stop or destroy a server, and no client has to
  come.
* `Connection`: weak fairness of the worker, with a timed-out `recv()` as the way
  out when the client is silent.
* `Dispatch`, `Ratelimit`, `MCParsing`: none; their properties are safety.

`StopCompletes` names the two ways the code can hang (`Quiet`, `Awaits`),
`ConnectionsEnd` the one a handler can be caught in, and the registry's
properties those of a global stop.  The violated runs show that these exceptions
are real; the properties show that there are no others.

## 4. What the violated runs show

1. `global_stop`: a signal handler runs `requestGlobalShutdown()` on the thread it
   interrupts.  When that is the thread in `start()` (main, in the example) it
   waits for a flag only that thread sets; the acceptor that finds
   `globalShutdownRequested` (`Server.cpp:442`) does the same to itself.
2. `quiet_stop`: on Linux `close(server_fd)` (`Server.cpp:550`) does not wake a
   blocked `accept`.
3. `forced_stop`: the early returns of the framing loop skip
   `activeConnections.fetch_sub` (`Server.cpp:382`).
4. `handler_body`: `Request.cpp:165` wants `Content-Length` in this exact case,
   the framing in any.
5. `dispatch_exception`: `setStatus(500)` in the catch block (`Server.cpp:324`)
   throws when the response is final.

Each is quoted with the line it contradicts in `PROJECT.json`, "findings".

## 5. Proofs

Each theorem holds for every value of the constants that the named assumption of
the model allows; nothing else is assumed.  `PoolAssumption`,
`LifecycleAssumption`, `RegistryAssumption`, `ConnectionAssumption`,
`DispatchAssumption` and `RatelimitAssumption` say that sets of threads, servers
and connections are finite where they are counted (and not empty), that limits
are natural numbers, that a request's head is not empty, that `maxRequestSize`
fits in a `size_t`, and that the values that stand for "none" are not
something.  `MCParsing` has no constants: its theorems are about every question
of a kind, where the run asks a bounded set of them.

| theorem | statement | inductive invariant |
|---|---|---|
| `PoolTypeOK`, `PoolWakesForStop`, `PoolDrains` | `TypeOK`, `NoSleeperAfterStop`, `NothingLeftBehind` | `TypeInv`: types, and who holds a task |
| `PoolNoDuplicate` | `NoDuplicate` | `UniqueInv` |
| `PoolWorkConserving` | `WorkConserving` | with `TypeInv`, by cardinalities |
| `PoolRefinesExecutor` | `Executor!Safety` | `TypeInv`, `UniqueInv`, `NothingLeftBehind` |
| `LifecycleTypeOK`, `LifecycleNoUndercount`, `LifecycleDoneIsQuiet` | `TypeOK`, `NoUndercount`, `DoneIsQuiet` | `LifecycleInv` |
| `LifecycleFinishedMeansIdle` | `FinishedMeansIdle`, of every step | `LifecycleInv` |
| `LifecycleImplementsGraceful` | `ImplementsGraceful` | `LifecycleInv` |
| `RegistryTypeOK`, `RegistryLoopMeetsTheLiving` | `TypeOK`, `LoopMeetsTheLiving` | `RegistryInv` |
| `ConnectionTypeOK`, `ConnectionBufferBounded`, `ConnectionInOrder` | `TypeOK`, `BufferBounded`, `InOrder` | `ConnectionInv` |
| `ConnectionImplementsExchange` | `ImplementsExchange` | `ConnectionInv` |
| `DispatchTypeOK` | `TypeOK` | `TypeInv` |
| `DispatchOneResponse`, `DispatchFallbackHasNoBody`, `DispatchWireIsResponse` | `OneResponse`, `FallbackHasNoBody`, `WireIsResponse` | `TypeInv`, `ResponseInv`, `WireInv` |
| `DispatchFinalizedIsFinal` | `FinalizedIsFinal`, of every step | `TypeInv`, `ResponseInv`, `WireInv` |
| `DispatchChainInOrder` | `ChainInOrder` | `TypeInv`, `OrderInv` |
| `RatelimitTypeOK`, `RatelimitRefusedOnlyWhenFull`, `RatelimitCleanupKeepsWindows` | `TypeOK`, `RefusedOnlyWhenFull`, `CleanupKeepsWindows` | `StampInv`, `EntryInv` |
| `RatelimitRateBound` | `RateBound` | those and `WindowInv` |
| `RequestsFindTheirRoute`, `RoutesAnswered` | `MatchesInstances`, of every table and path, and of the specification | `Routed` |
| `AllowAgrees`, `OptionsAnswered` | `AllowIsHonest`, of every table and path, and of the specification | `Routed` |
| `QueriesMeanWhatTheySay`, `QueriesAnswered` | `QueryRead`, of every list of pairs, and of the specification | `QueryAsked` |
| `DecodeEncoded` | `urlDecode` undoes every encoding of every text | (none) |
| `RequestsFramed`, `RequestsAnswered` | `FramesWhole`, of every legal request, and of the specification | `RequestAsked` |
| `RequestsCutWhole`, `KeepAliveMeant` | the two halves of `FramesWhole`, for any symbols behind the request | (none) |
| `RequestsMeanWhatTheySay`, `RequestsReadBack` | `RequestRead`: what is read of every request, and the invariant of the specification | `RequestAsked`, `RequestTold` |
| `FormsMeanWhatTheySay`, `FormsReadBack` | `FormRead`: what is read of every form, and the invariant of the specification | `FormAsked` |
| `ResponsesMeanWhatTheySay`, `ResponsesReadBack` | `ResponseReads`: what is read of every response, and the invariant of the specification | `Says`, `ResponseAsked` |
| `CookiesMeanWhatTheySay` | every cookie of every list answers with the value sent last | (none) |
| `FirstAddressCounts` | the limiter's key, of every list of addresses | (none) |
| `NumbersReadBack` | `stoul` reads what `to_string` writes, for every natural number | (none) |
| `GetAfterSet` | what `get` finds in a `KVList` after `set`, for every list and key | (none) |

Every safety property that a passing run checks of the first six modules is a
theorem, and so are the safety parts of the three refinements.  An invariant `I`
is proved in three facts: `Init => I`, `I /\ [Next]_vars => I'` with a lemma or a
step for each action, and `I` implies the property.

### Why the invariants are what they are

*Thread pool.*  `NoDuplicate` speaks of the queue, the workers and the finished
tasks.  It is not inductive: a task on its way from `submit`'s test to its push
could be one that is already queued.  `UniqueInv` adds the tasks callers hold.
`WorkConserving` compares a length with two cardinalities; `CountIn` and
`CountStep` say by how much moving one thread changes the number of threads at a
place, and each action is then arithmetic.  The refinement maps `Take` to `Start`
(a free slot exists, `FreeSlot`, because the taking worker holds nothing), the
push to `Accept`, `ShutdownStop` to `Stop`, the last `Return` to `Close`; every
other step stutters.

*Lifecycle.*  That the counter is not too low needs to know which connection may
still lower it: `CountInv` bounds `activeConnections` from both sides by the
connections that are counted and those that have not been uncounted.  That
`start()` leaves nothing behind (`QuietInv`) needs to know where a connection is
when nobody works on it: in the acceptor's hands (`HandInv`) or in the pool's
line, once (`LineInv`).  `StageInv` ties the flags and the socket to the place of
`start()`, `CallInv` the threads inside `shutdown()` to the flags, and `ServedInv`
bounds the requests of a connection.  The refinement is for each server
separately: the step that stores `stopRequested` is `Stop`, an `accept()` that
returns a client is `Admit`, and so on along `GracefulServer`; a step of one
server stutters for all others, which is why every lemma says what it leaves alone.

*Registry.*  The loop holds an index into a vector that `erase` shifts.  The
vector cannot move while the loop is in it because every change happens under the
mutex (`MutexInv`: being in one of the three guarded blocks is holding the
mutex), so what the loop saw first is still there (`ListInv`: `registry = seen`),
and what is in the vector is alive.

*Connection.*  `FlowInv` counts: one answer for each request handled and one more
for a refusal, with the loop's counter equal to both; it carries the refinement.
`InOrder` rests on `CutInv`: between two requests, the place where the next
request begins, plus the length of the buffer, is how much has arrived, and the
buffer holds exactly those bytes of the wire.  Where a request begins is a sum
over all earlier ones, and the wire is a flattened sequence, so this proof, like
those about routes, needs induction over data: `Induct` (in `TextLemmas`)
derives it from the least element of a set of numbers, `Flattens` says what
`FlattenSeq` is, `WireLayout` and
`Borders` where each byte of each request lies.  With that, `find`ing the end of
the first head in the buffer finds the head of the next request (`NextHeader`),
and cutting by its announced length cuts the request (`NextLength`, `TakeKeepsPlace`).  The proof also
brought out the last condition of `WellFramed`.  In the refinement a `Serve` is
`Answer`, the refusals are `Refuse`, leaving the loop is `HangUp`, the stop is
`Stop`, and the rest, `recv()` included, stutters.

*Dispatch.*  The hazard is user code calling `next()` twice or throwing after it
streamed.  `TypeInv` includes `StackInv`: code further in has a later place in
the chain, so the stack is never deeper than the chain, whatever `index` does.
`ResponseInv` says when the response may still change and when its length is that
of its body (`Fits`, which names the two exceptions: a length user code wrote, and a
body emptied after it was sent).  `WireInv` has two halves.  `CountInv` counts what
was handed to the socket: nothing before the chain is over unless it was streamed,
one entry from then on, and a second one only at the end, where the first was cut
in its head and the status is 500, because only the catch block leads from such a
stream to the write.  `RecordInv` says that each entry is the response as it will
remain; only `setValue` makes a difference afterwards, and only after a stream that
went out.  `FinalizedIsFinal` follows action by action: with `finalized` only
the two unchecked operations are left to user code.  `OrderInv` is about behaviours in which nobody calls `next()` twice:
then `index` is how much of the chain has begun and the stack is what was begun
last.

*Rate limiter.*  `RefusedOnlyWhenFull` needs that an entry counts no request that
was not granted since its window started (`EntryInv`); `RateBound` needs the
converse, that no grant of a running window is forgotten: `WindowInv` says that
windows of one key lie a period apart, hold at most `maxRequests` grants each,
none later than a stall after the window's end, and that a key without an entry
has no window that still runs.  A stretch of `timePeriod - MaxStall` seconds then
touches two windows at most, and the bound is the cardinality of a union of two.
`StampInv` says that a stamp waiting for the mutex is at most `MaxStall` old.

*Routes.*  `AnyRoutes` is every table a program may declare and every path a
client may ask for, over any set of symbols that is closed under `toLower`: a
segment is not empty and holds no slash, a literal does not look like a
parameter, and two parameters of one pattern differ by more than case.  Outside
these the asker of `MCParsing` and the code mean different things (a literal
`{a}` is a parameter to the code).  The proof goes through the text.  `SplitPieces`
unrolls the recursive function of `split`, `SplitMore` says what one more slash
and segment add, and so `PathTextSplits`: whatever slashes a client spends, the
path comes apart into its segments.  `LowerJoined` carries folding through
`PatternText`, with `LowerTwice` because `addRoute` folds and `matchRoute` folds
again, so `PatternSplits` gives the parts of a stored pattern, and
`MatchIsInstance` says that `matchRoute` is exactly `InstanceOf`.  `TableIs`
unrolls the calls of `addRoute`; `ServedFirst` and `ParamsAre` do the rest.
`AllowAgrees` needs none of this: it holds whatever `matchRoute` says, because
`handleOptions` and `handleClient` ask it the same questions.

*Queries.*  The asker may encode any list of pairs, over any set of symbols, in
any of the three styles.  `urlDecode` is unrolled from the end of a text:
`RestsShift` says that what it makes of a tail does not depend on what stands
before, and so `DecodeOne` and `DecodeEscape` give the law for one symbol and for
one escape.  `SymbolStands` puts them together for what a client writes for a
symbol (the digits `CHOOSE` finds exist and `HexValue` reads them back to a code
that only this symbol has), and `DecodeEncoded` is the induction over the text.
What is encoded holds neither `&` nor `=`, so `PiecesBack` finds the pieces of a
query again and `SidesOf` the two sides of each, and `QueryParses` says that the
pairs the code assigns are the pairs the client had.  Two details of the code
matter here and are in the proof: `getline` leaves out an empty last piece
(`GetlinesIs`), so a pair with an empty value comes back in one piece, and a pair
is never an empty piece, which the loop would skip.  `ListsHonest` says what `get`
finds in a list built from the map, whichever of two spellings it kept.

*Framing.*  `handleClient` does not read a head line by line: `findHeader`
searches it for a name and `": "`, in whatever line and whatever case.  So the
notion of the proof is not the line but the mark (`Mark`): a place where the
name, a colon and a blank stand.  `AnyRequests` is every request over an alphabet
closed under `toLower` in which a mark can only stand at the end of a header's
name: names hold no colon and do not end in the lower-case spelling of a name that
is looked for (`findHeader` finds those too), no value holds a mark, the announced length is the body's, and `Connection`
is said one way.  A body is not announced to hold no mark for
`Content-Length`, because only the head is searched for that; but `isKeepAlive`
searches the whole request, so for `Connection` the body must be free of one.
That condition is the code's, and the proof needed it.  `Ended` says
that a text ends in a line end; `MarkJoins`, `UnmarkedJoins` and `ReadsBehind`
say where the marks of a text put together from such pieces are, `OutcomeMore`
adds one header line, and `BlockOutcome` is the induction over the headers: the
first header whose name ends in the one looked for decides, which is what
`Unshadowed` is about.  `EndFound` finds the first blank line at the end of the
head (no line of a head is empty), `AnnouncesLength` reads the length, with
`NumbersReadBack`, and `RequestsCutWhole` cuts there; nothing is cut as long as
one symbol is missing.

*Reading.*  `parseRequest` does go by lines, so `RequestsMeanWhatTheySay` asks
less than framing does: names hold no colon, and nothing holds a line end.  The
`Connection` header may be shadowed and said in two ways.  `SplitKeeps` says that
what follows a cut leaves the pieces before it alone, and with it the head comes
apart into its lines and each line into its two sides (`HeadersFound`,
`RequestParses`).  Of two spellings of a name a `KVList` may keep either, as the
iteration over an `unordered_map` gives them; so what the theorem says of a header
(`FoundSent`) is that a value sent under the name is found, the last one if the
name was always spelled alike, and that nothing else is.  `Content-Length` is read
under this exact spelling only (finding 4), so that is how a body is announced
here (`Announces`).  Cookies are an induction over the fold of `set`: after
`n` cookies a name answers with the last of the first `n` (`Answers`), which
`GetAfterSet` carries one further.  That the client of `MCParsing` sends these
cookies and this list of proxies is `RequestTold`, which every step keeps.

*Forms.*  A form (`AnyForms`) has a boundary that is one line and stands in none of
its contents; contents may hold line ends, blank lines and anything else, so long
as the boundary is not among it, and an unquoted boundary does not begin with a
quote.  That the boundary stands nowhere *between* two boundaries either (`PartIs`)
is because it is one line and begins with a dash, which no header of a field does
(`Free`, `FreeJoins`, `FreeWithout`).  `FormParsed` unrolls the recursive function
of `parse`, `FieldStep` is one turn of its loop, `ClosingStep` the last, and
`ReadsAll` an induction over the fields: what is found from a boundary on is the
fields up to it and what is found behind them (`ReadsFields`).

*Responses.*  A handler may make any list of calls (`CallsOf`), over any alphabet:
legal ones, and ones the code refuses.  Two things are the asker's: it knows how
to write the cookie line for two sets of options only (`Bare`, `Dressed`), so a
legal cookie has one of these, and it cannot tell a header called `Set-Cookie` from
a cookie, so no legal call sets one.  There are two inductions.  The first is over
the calls: `Says` relates the response behind the first `k` calls to those calls
(each header has the value of the last call in effect that set it or is a default,
every header that was set is there, the cookies are those baked so far in order,
the body is what was sent, and the response is final exactly if a call made it so),
and `SaysHeader`, `SaysCookie`, `SaysSend`, `SaysRedirect` and `SaysIdle` carry it
over one call each, the last over a call that throws.  The second is over the
lines: `RawTextIs` puts the text together from a status line, the headers in the
order `getAll` chose and the cookies, `TextComesApart` takes such a text apart again
at the first blank line and at its line ends, and `LineReadBack` takes a line apart
at its first colon.  They need that no name holds a colon and no name or value a
line end, which is what `validHeaderName`, `validHeaderValue` and
`validCookieToken` are for (`NamesValid`, `ValuesValid`, `TokensValid`): this is
where a handler that hands on what a client sent relies on them.  That the order is
a bijection (`AllAre`) gives one line for each header; that the map is finite gives
at least one order, so the claim about every text is not empty.

*Numbers.*  `to_string` is a recursive function over the tenth of a number, so
`NumbersReadBack` is a strong induction: `DecimalIs` unrolls it, and
`NumeralMore` says what one more digit does to what `stoul` reads.

### Only model-checked

* Liveness, which is out of the prover's reach: `ShutdownReturns`, the fairness
  half of `ImplementsExecutor`, `StopCompletes`, `ConnectionsEnd`,
  `GlobalStopReachesAll`, `RegistryOpens`, `ConnectionCloses`.

Every invariant and every action property that a passing run checks is a theorem.

## 6. Abstractions and what is not modelled

* **Memory model.** Every shared field behaves as if sequentially consistent.
  `started` and `server_fd` are plain fields written by one thread and read by
  others; the models give their readers any interleaving, but no torn value.
  `activeConnections` and `stopCompleted` use relaxed order; each is a single
  atomic, and no property relates relaxed reads of both.
* **Time** in `ServerLifecycle`, `ServerRegistry` and `Connection`: a deadline or a
  receive timeout may fire whenever it is being waited for.
* **Signals.** `ServerRegistry` delivers one to any thread at any step once the
  handlers are installed; `ServerLifecycle` to the threads of `SignalThreads`
  outside `shutdown()`.
* **One `start()` per server at a time.** Two threads that both pass the test of
  `started` get two accept loops; the field is unsynchronised and nothing speaks
  of that use.  A failing socket, bind or listen ends `start()`.
* **Descriptor numbers** are not modelled, so neither is a second `close` that hits
  a number the system has given out again.
* **A destroyed server** whose detached runner still works is reached
  (`ServerRegistry`), and what the access to it does is not modelled further.
* **User code** lets exceptions of `Response` pass, and in `Dispatch` it does not
  do the following with the references it is given: assign to the whole
  `Response` or `Request`, call `setRelatedRequest` or `markIsHEADFallback`, write to
  the socket of `getClientFd()` itself, or use a reference or a pointer from
  `getHeader()` after it has returned.  `marks` stands for headers that have names of
  their own: what is left of a name that two pieces of code set is the subject of
  `ResponseText`.  There the calls are the validating ones (`setHeader`, `setCookie`,
  `redirect`) and `send`; `getHeader()->setValue`, which validates nothing, is not
  among them, so `ResponseReads` says nothing of a line end that user code puts into
  a header that way.  Handlers return (`ServerLifecycle`).
* **Counting.**  `NoUndercount` and `FinishedMeansIdle` speak of connections that have
  passed the `fetch_add` of `Server.cpp:156`.  A worker that has taken a connection and
  not yet come there is uncounted, like a connection in the queue, and the drain may
  take the server for idle; what holds for both is that `start()` does not return
  before they are served (`DoneIsQuiet`).
* **Sending** may be partial and nobody notices, as in the code; what a client
  makes of it is not modelled.
* **Not modelled**: JSON (vendored); WinSock branches; the file system, that is
  which file a path names and `isWithinDirectory` (in `Dispatch` a static path has
  a file, none, or throws); the MIME table, the wording of status lines and of
  log output, dates; `getpeername`; the setters of `Ratelimit`, which act on the
  caller's copy of the middleware; the example program.

## 7. Plan

Done: the pool with its abstract executor and proofs; the lifecycle with the
graceful server it implements; the registry; the connection with the exchange it
implements; dispatch; the rate limiter; the pure code; the proofs of section 5.

What is left is liveness, which stays with TLC (section 5).
